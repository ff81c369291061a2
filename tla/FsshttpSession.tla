--------------------------- MODULE FsshttpSession ---------------------------
(***************************************************************************)
(* FsshttpSession: the co-authoring session record that the caller, the    *)
(* heartbeat thread and the poll thread of one FsshttpClient share.  Each  *)
(* operator below is one of its handle methods, or one half of a method    *)
(* between whose assignments another thread may look.                      *)
(* A session token is a positive number, one per join the server granted;  *)
(* the empty string is NoToken.                                            *)
(***************************************************************************)
EXTENDS Integers

VARIABLES
    state,          \* m_state
    sessionToken,   \* m_sessionToken
    retryCount      \* m_retryCount

sessionVars == <<state, sessionToken, retryCount>>

States == {"Disconnected", "Joining", "Joined"}
MAX_RETRIES == 3
NoToken == 0

SessionInit ==
    /\ state = "Disconnected"
    /\ sessionToken = NoToken
    /\ retryCount = 0

SetJoining ==
    /\ state' = "Joining"
    /\ UNCHANGED <<sessionToken, retryCount>>

\* handleJoinResponse of a granted join: the token first, then state and count.
TokenGranted(token) ==
    /\ sessionToken' = token
    /\ UNCHANGED <<state, retryCount>>

SessionJoined_StaysJoining ==
    /\ retryCount' = 0
    /\ UNCHANGED <<state, sessionToken>>
SessionJoined ==
    /\ state' = "Joined"
    /\ retryCount' = 0
    /\ UNCHANGED sessionToken

\* Both halves at once, where there is no other thread yet.
JoinGranted(token) ==
    /\ state' = "Joined"
    /\ sessionToken' = token
    /\ retryCount' = 0

\* The token was empty already, and Joining and Disconnected are alike to the
\* other threads, which only ask whether the state is Joined: one step.
JoinRefused ==
    /\ state' = "Disconnected"
    /\ sessionToken' = NoToken
    /\ UNCHANGED retryCount

HandleRefreshSuccess ==
    /\ retryCount' = 0
    /\ UNCHANGED <<state, sessionToken>>

RetriesExhausted_OneMore == retryCount + 1 > MAX_RETRIES
RetriesExhausted == retryCount + 1 >= MAX_RETRIES

\* handleRefreshFailure: the last retry disconnects first and then clears the token.
HandleRefreshFailure ==
    /\ retryCount' = retryCount + 1
    /\ state' = IF RetriesExhausted THEN "Disconnected" ELSE state
    /\ UNCHANGED sessionToken

TokenForgotten ==
    /\ sessionToken' = NoToken
    /\ UNCHANGED <<state, retryCount>>

HandleExit_KeepsToken ==
    /\ state' = "Disconnected"
    /\ retryCount' = 0
    /\ UNCHANGED sessionToken
HandleExit ==
    /\ state' = "Disconnected"
    /\ sessionToken' = NoToken
    /\ retryCount' = 0
=============================================================================
