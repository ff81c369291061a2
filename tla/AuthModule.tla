----------------------------- MODULE AuthModule -----------------------------
(***************************************************************************)
(* Signing in, and the access tokens every request asks for. accessToken() *)
(* runs on the editor's thread and on the heartbeat and poll threads of    *)
(* the FSSHTTP client, with no lock: each call looks at the keyring, may   *)
(* refresh at the token endpoint and then rewrites the keyring one secret  *)
(* at a time. A tick of the clock is half of the 60 s margin.              *)
(***************************************************************************)
EXTENDS TokenStore, Sequences

CONSTANTS
    Threads,        \* those that call accessToken(); "ui" also signs in and out
    Lifetime,       \* expires_in, in ticks
    Patience,       \* ticks beyond which a call is slow, which is a fault (see Tick)
    MaxFaults, MaxTime, MaxIssued   \* bounds

FaultKinds == {"network", "answer", "cut", "delay", "crash", "revoke", "keyring"}

ASSUME AuthAssumption ==
    /\ "ui" \in Threads
    /\ Lifetime \in Nat \ {0} /\ Patience \in Nat
    /\ MaxFaults \in Nat /\ MaxTime \in Nat /\ MaxIssued \in Nat

VARIABLES
    pc,             \* where each thread is
    used,           \* the refresh token it has read
    resp,           \* what the token endpoint answered it
    todo,           \* the keyring writes it still has to do
    age,            \* ticks since its call began, no further than one past Patience
    result,         \* what accessToken() last returned to it
    honoured,       \* refresh tokens the endpoint accepts
    issued,         \* refresh tokens issued so far
    faults          \* what went wrong so far, in order

serverVars == <<honoured, issued>>
vars == <<keyring, now, pc, used, resp, todo, age, result, honoured, issued, faults>>

Unset   == -3       \* result: the call has not returned
Empty   == -2       \* result: the empty string
Waiting == [kind |-> "waiting", access |-> None, refresh |-> None]
Failed  == [Waiting EXCEPT !.kind = "failed"]
Tokens(a, r) == [kind |-> "ok", access |-> a, refresh |-> r]
Response == [kind : {"waiting", "failed", "ok"}, access : Secrets, refresh : Secrets]

Init ==
    /\ TokenStoreInit /\ now = 1
    /\ pc = [t \in Threads |-> "idle"]
    /\ used = [t \in Threads |-> None]
    /\ resp = [t \in Threads |-> Waiting]
    /\ todo = [t \in Threads |-> <<>>]
    /\ age = [t \in Threads |-> 0]
    /\ result = [t \in Threads |-> Unset]
    /\ honoured = {} /\ issued = 0 /\ faults = <<>>

Goto(t, label) == pc' = [pc EXCEPT ![t] = label]

Fault(kind) ==
    /\ Len(faults) < MaxFaults
    /\ faults' = Append(faults, kind)

Happened(kind) == \E i \in DOMAIN faults : faults[i] = kind

-----------------------------------------------------------------------------
(* accessToken() and refreshTokens(), by any thread.                       *)

Begin(t, label) ==
    /\ pc[t] = "idle"
    /\ Goto(t, label)
    /\ age' = [age EXCEPT ![t] = 0]
    /\ result' = [result EXCEPT ![t] = Unset]

AccessToken(t) ==
    /\ Begin(t, "check")
    /\ UNCHANGED <<keyring, now, used, resp, todo, serverVars, faults>>

CheckExpiry(t) ==
    /\ pc[t] = "check"
    /\ Goto(t, IF IsExpired THEN "readRefresh" ELSE "readAccess")
    /\ UNCHANGED <<keyring, now, used, resp, todo, age, result, serverVars, faults>>

Return(t, token) ==
    /\ Goto(t, "idle")
    /\ result' = [result EXCEPT ![t] = token]

ReadAccessToken(t) ==
    /\ pc[t] = "readAccess"
    /\ Return(t, IF keyring["access"] = None THEN Empty ELSE keyring["access"])
    /\ UNCHANGED <<keyring, now, used, resp, todo, age, serverVars, faults>>

ReadRefreshToken(t) ==
    /\ pc[t] = "readRefresh"
    /\ IF keyring["refresh"] = None
       THEN Return(t, Empty) /\ UNCHANGED used
       ELSE /\ used' = [used EXCEPT ![t] = keyring["refresh"]]
            /\ Goto(t, "refresh") /\ UNCHANGED result
    /\ UNCHANGED <<keyring, now, resp, todo, age, serverVars, faults>>

\* Both take the time of the answer's arrival for that of its issue.
ExpiresAt == now + Lifetime

\* refreshTokens: an answer without a refresh token leaves the old one.
RefreshWrites_ExpiryFirst(r) ==
    IF r.refresh = None
    THEN << <<"expires", ExpiresAt>>, <<"access", r.access>> >>
    ELSE << <<"expires", ExpiresAt>>, <<"access", r.access>>, <<"refresh", r.refresh>> >>
RefreshWrites_KeepsOld(r) == << <<"access", r.access>>, <<"expires", ExpiresAt>> >>
RefreshWrites(r) ==
    IF r.refresh = None
    THEN << <<"access", r.access>>, <<"expires", ExpiresAt>> >>
    ELSE << <<"access", r.access>>, <<"expires", ExpiresAt>>, <<"refresh", r.refresh>> >>

\* authenticate: all three, whatever the answer holds.
LoginWrites(r) ==
    << <<"access", r.access>>, <<"refresh", r.refresh>>, <<"expires", ExpiresAt>> >>

ClearWrites == << <<"access", None>>, <<"refresh", None>>, <<"expires", None>> >>

Forget(t) ==
    /\ used' = [used EXCEPT ![t] = None]
    /\ resp' = [resp EXCEPT ![t] = Waiting]

RefreshAnswered(t) ==
    /\ pc[t] = "refresh" /\ resp[t].kind # "waiting"
    /\ IF resp[t].kind = "failed"
       THEN Return(t, Empty) /\ UNCHANGED todo
       ELSE /\ todo' = [todo EXCEPT ![t] = RefreshWrites(resp[t])]
            /\ Goto(t, "saveRefresh") /\ UNCHANGED result
    /\ Forget(t)
    /\ UNCHANGED <<keyring, now, age, serverVars, faults>>

\* After the last write accessToken() reads the keyring again, and
\* authenticate() and logout() return.
AfterWrites_Again(label) == IF label = "clear" THEN "idle" ELSE label
AfterWrites(label) == IF label = "saveRefresh" THEN "readAccess" ELSE "idle"

Saving(t) == pc[t] \in {"saveRefresh", "saveLogin", "clear"}

\* One secret stored or deleted; a failure of the keyring goes unnoticed.
Write(t) ==
    /\ Saving(t)
    /\ LET w == Head(todo[t])
       IN  \/ SecretSet(w[1], w[2]) /\ UNCHANGED faults
           \/ SecretSetFails /\ Fault("keyring")
    /\ todo' = [todo EXCEPT ![t] = Tail(@)]
    /\ Goto(t, IF Tail(todo[t]) = <<>> THEN AfterWrites(pc[t]) ELSE pc[t])
    /\ UNCHANGED <<now, used, resp, age, result, serverVars>>

-----------------------------------------------------------------------------
(* The editor's thread: isAuthenticated() || authenticate(), and logout(). *)

Authenticate ==
    /\ ~IsAuthenticated
    /\ Begin("ui", "login")
    /\ UNCHANGED <<keyring, now, used, resp, todo, serverVars, faults>>

LoginAnswered ==
    /\ pc["ui"] = "login" /\ resp["ui"].kind # "waiting"
    /\ IF resp["ui"].kind = "failed"
       THEN Goto("ui", "idle") /\ UNCHANGED todo
       ELSE /\ todo' = [todo EXCEPT !["ui"] = LoginWrites(resp["ui"])]
            /\ Goto("ui", "saveLogin")
    /\ Forget("ui")
    /\ UNCHANGED <<keyring, now, age, result, serverVars, faults>>

Logout ==
    /\ Begin("ui", "clear")
    /\ todo' = [todo EXCEPT !["ui"] = ClearWrites]
    /\ UNCHANGED <<keyring, now, used, resp, serverVars, faults>>

-----------------------------------------------------------------------------
(* The token endpoint, the user at the browser, time and faults.           *)

Answer(t, r) == resp[t] = Waiting /\ resp' = [resp EXCEPT ![t] = r]

\* What is left of an answer when the connection breaks before its end: curl's
\* result is ignored, and extract() takes a value without its closing quote to be
\* the rest of the text. (The endpoint names expires_in ahead of the tokens.)
Truncated(r) ==
    {Tokens(Broken, None), Tokens(r.access, None)}
    \cup IF r.refresh = None THEN {} ELSE {Tokens(r.access, Broken)}

Arrives(t, r) ==
    \/ Answer(t, r) /\ UNCHANGED faults
    \/ \E part \in Truncated(r) : Answer(t, part) /\ Fault("cut")

\* The endpoint grants a refresh, with a new refresh token, when it may revoke
\* the old one, or without; its answer may be lost after it has done so.
GrantRefresh(t) ==
    /\ pc[t] = "refresh" /\ used[t] \in honoured
    /\ \/ /\ Arrives(t, Tokens(now + Lifetime, None))
          /\ UNCHANGED serverVars
       \/ /\ issued < MaxIssued /\ issued' = issued + 1
          /\ \E kept \in {honoured, honoured \ {used[t]}} :
                honoured' = kept \cup {issued + 1}
          /\ \/ Arrives(t, Tokens(now + Lifetime, issued + 1))
             \/ Answer(t, Failed) /\ Fault("answer")
    /\ UNCHANGED <<keyring, now, pc, used, todo, age, result>>

RefuseRefresh(t) ==
    /\ pc[t] = "refresh" /\ used[t] \notin honoured
    /\ Answer(t, Failed)
    /\ UNCHANGED <<keyring, now, pc, used, todo, age, result, serverVars, faults>>

NetworkFails(t) ==
    /\ pc[t] \in {"refresh", "login"}
    /\ Answer(t, Failed) /\ Fault("network")
    /\ UNCHANGED <<keyring, now, pc, used, todo, age, result, serverVars>>

\* The user signs in, or closes the browser's page.
GrantLogin ==
    /\ pc["ui"] = "login"
    /\ \/ /\ issued < MaxIssued /\ issued' = issued + 1
          /\ honoured' = honoured \cup {issued + 1}
          /\ Arrives("ui", Tokens(now + Lifetime, issued + 1))
       \/ Answer("ui", Failed) /\ UNCHANGED <<serverVars, faults>>
    /\ age' = [age EXCEPT !["ui"] = 0]
    /\ UNCHANGED <<keyring, now, pc, used, todo, result>>

\* An administrator, a password change or disuse ends the login.
Revoke ==
    /\ Fault("revoke")
    /\ honoured' = {}
    /\ UNCHANGED <<keyring, now, pc, used, resp, todo, age, result, issued>>

\* The program ends and is started again; the keyring stays.
Restart ==
    /\ Fault("crash")
    /\ pc' = [t \in Threads |-> "idle"]
    /\ used' = [t \in Threads |-> None]
    /\ resp' = [t \in Threads |-> Waiting]
    /\ todo' = [t \in Threads |-> <<>>]
    /\ age' = [t \in Threads |-> 0]
    /\ result' = [t \in Threads |-> Unset]
    /\ UNCHANGED <<keyring, now, serverVars>>

\* At the browser the user takes any time. Curl is given no timeout here, so any
\* other call may take any time as well; that it outlasts Patience is a fault.
Busy(t) == pc[t] # "idle" /\ ~(pc[t] = "login" /\ resp[t] = Waiting)
Slow == \E t \in Threads : Busy(t) /\ age[t] >= Patience
Tick ==
    /\ now < MaxTime
    /\ now' = now + 1
    /\ IF Slow /\ ~Happened("delay") THEN Fault("delay") ELSE UNCHANGED faults
    /\ age' = [t \in Threads |->
                   IF Busy(t) /\ age[t] <= Patience THEN age[t] + 1 ELSE age[t]]
    /\ UNCHANGED <<keyring, pc, used, resp, todo, result, serverVars>>

Thread(t) ==
    \/ AccessToken(t) \/ CheckExpiry(t) \/ ReadAccessToken(t)
    \/ ReadRefreshToken(t) \/ RefreshAnswered(t) \/ Write(t)

Endpoint(t) == GrantRefresh(t) \/ RefuseRefresh(t) \/ NetworkFails(t)

Next ==
    \/ \E t \in Threads : Thread(t) \/ Endpoint(t)
    \/ Authenticate \/ LoginAnswered \/ Logout
    \/ GrantLogin \/ Revoke \/ Restart \/ Tick

Spec == Init /\ [][Next]_vars

-----------------------------------------------------------------------------
(* Properties.                                                             *)

Labels == {"idle", "check", "readAccess", "readRefresh", "refresh", "login",
           "saveRefresh", "saveLogin", "clear"}

\* Every variable has its type; a thread that saves has something to save.
TypeOK ==
    /\ keyring \in [Fields -> Secrets] /\ now \in Nat
    /\ pc \in [Threads -> Labels] /\ used \in [Threads -> Secrets]
    /\ resp \in [Threads -> Response]
    /\ todo \in [Threads -> Seq(Fields \X Secrets)]
    /\ \A t \in Threads : Saving(t) <=> todo[t] # <<>>
    /\ age \in [Threads -> Nat] /\ result \in [Threads -> Int]
    /\ honoured \subseteq 1 .. issued /\ issued \in Nat
    /\ faults \in Seq(FaultKinds) /\ Len(faults) <= MaxFaults

Returns(t) == result'[t] # Unset /\ result[t] = Unset

\* A token accessToken() returns has not expired: AuthModule.h:17 "Returns a
\* valid access token". The threads refresh at will and their writes of the
\* token and of its expiry interleave, and the program may end between them; the
\* order of the two writes and the margin must make up for it. A slow call defeats
\* them, which nothing in the code prevents; so does a keyring that fails to store
\* the token and then stores its expiry, and an answer that was cut off.
Mishap == Happened("delay") \/ Happened("keyring") \/ Happened("cut")
TokensAreLive ==
    [][\A t \in Threads :
          Returns(t) /\ result'[t] # Empty /\ ~Mishap => result'[t] >= now]_vars

\* Once no call is under way, a stored refresh token is one the endpoint still
\* accepts, even if it accepts each only once and several threads refreshed at
\* the same time: the losers never overwrite what the winner stored. Slow calls
\* and requests that never reach the endpoint do not change that; the answer of a
\* granted request that is lost or cut off does, and the other faults may.
Reliable == \A i \in DOMAIN faults : faults[i] \in {"network", "delay"}
LoginSurvives ==
    (Reliable /\ \A t \in Threads : pc[t] = "idle")
        => keyring["refresh"] \in honoured \cup {None}
=============================================================================
