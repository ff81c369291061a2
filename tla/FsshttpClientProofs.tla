------------------------ MODULE FsshttpClientProofs -------------------------
(***************************************************************************)
(* FsshttpClient, proved for every document, every bound on edits and      *)
(* faults, and every interleaving. Its session: types, that a token is     *)
(* held exactly while joined, that the heartbeat never sleeps on a lost    *)
(* session, that exitSession is last, and that a drop is final. Its        *)
(* deltas: each that is accepted is in one place at a time and is put at   *)
(* most once, after the first join and before the close, as CoauthChannel  *)
(* has it. And, as long as nothing fails, each delta accepted is on the    *)
(* server, or newer text of its key is, when the call that brought it      *)
(* returns.                                                                *)
(***************************************************************************)
EXTENDS FsshttpClient, FiniteSetTheorems, TLAPS

-----------------------------------------------------------------------------
(* The session: its inductive invariant.                                   *)

CallerLabels == {"idle", "push", "swap", "apply", "issue", "put", "join", "stop",
                 "exit", "closed"}
HeartbeatLabels == {"off", "sleep", "done", "swap", "apply", "issue", "put",
                    "refresh", "forget", "backoff", "rejoin", "granted", "clear"}
PollLabels == {"off", "sleep", "done", "ask", "get", "deliver"}

\* Each thread is at a label of its own, with the request that label waits on.
ThreadsOwnLabels ==
    /\ pc["caller"] \in CallerLabels
    /\ pc["heartbeat"] \in HeartbeatLabels
    /\ pc["poll"] \in PollLabels

OpAt(t) ==
    CASE pc[t] = "put" -> "put"
      [] pc[t] \in {"join", "rejoin"} -> "join"
      [] pc[t] = "refresh" -> "refresh"
      [] pc[t] = "exit" -> "exit"
      [] pc[t] \in {"get", "deliver"} -> "get"
      [] OTHER -> "none"

RequestsFollowLabels == \A t \in Threads : req[t].op = OpAt(t)

\* A granted join carries a token.
GrantsCarryTokens ==
    \A t \in Threads :
        req[t].op = "join" /\ ans[t].kind = "ok" => ans[t].tok # NoToken

\* What a thread is about to send is in its hands.
BatchHeld == \A t \in Threads : pc[t] \in {"apply", "issue", "push"} => batch[t] # <<>>

\* Where the heartbeat is determines the session's state, its retries and attempts.
SessionPlace ==
    /\ pc["heartbeat"] = "off" =>
          /\ state = IF pc["caller"] = "join" THEN "Joining" ELSE "Disconnected"
          /\ pc["poll"] = "off" /\ ~dropped /\ ~running
    /\ pc["heartbeat"] \in {"forget", "backoff"} => state = "Disconnected"
    /\ pc["heartbeat"] = "rejoin" => state = "Joining"
    /\ pc["heartbeat"] \in {"backoff", "rejoin"} => attempt < MaxAttempts
    /\ pc["heartbeat"] = "done" => state \in {"Disconnected", "Joined"}
    /\ pc["caller"] = "join" => pc["heartbeat"] = "off"
    /\ IsJoined => retryCount < MAX_RETRIES
    /\ dropped => pc["heartbeat"] = "done" /\ state = "Disconnected"

ExitPlace ==
    /\ pc["caller"] \in {"stop", "exit", "closed"} => ~running
    /\ pc["caller"] \in {"exit", "closed"} => ThreadsDone
    /\ pc["caller"] = "closed" => state = "Disconnected"

\* What the poll thread is handing over, and that what it asked with was seen.
DeliveryPlace ==
    /\ pc["poll"] = "deliver" =>
          /\ ans["poll"].kind \in {"ok", "cut"} /\ knowledge <= ans["poll"].ver
          /\ ans["poll"].kind = "cut" => skipped
    /\ pc["poll"] \in {"ask", "get", "deliver"} => req["poll"].know <= seen \/ skipped

IInv ==
    /\ TypeOK
    /\ ThreadsOwnLabels /\ RequestsFollowLabels /\ GrantsCarryTokens /\ BatchHeld
    /\ SessionPlace /\ ExitPlace /\ DeliveryPlace
    /\ SessionCoherent /\ HeartbeatKeepsSession /\ DropAfterAttempts /\ KnowledgeIsSeen

-----------------------------------------------------------------------------
(* The values the actions build have their types.                          *)

LEMMA Constructors ==
    /\ NoPayload \in Payload
    /\ NoRequest \in Request
    /\ Waiting \in Answer /\ Lost \in Answer /\ Refused \in Answer
    /\ Root \in Knowledge
    /\ \A op \in Ops, token \in Tokens : Coauth(op, token) \in Request
    /\ \A r \in Request, op \in Ops, token \in Tokens :
           [r EXCEPT !.op = op, !.tok = token] \in Request
    /\ \A op \in Ops, token \in Tokens, p \in Payload :
           [NoRequest EXCEPT !.op = op, !.tok = token, !.put = p] \in Request
    /\ \A r \in Request, k \in Knowledge : [r EXCEPT !.know = k] \in Request
    /\ \A r \in Request, b \in BOOLEAN : [r EXCEPT !.late = b] \in Request
<1>1. NoPayload \in Payload
  BY DEF NoPayload, Payload, Text, Stamps
<1>2. Root \in Knowledge
  BY DEF Root, Knowledge, Tokens, NoToken
<1>3. Waiting \in Answer /\ Lost \in Answer /\ Refused \in Answer
  BY DEF Waiting, Lost, Refused, Answer, NoToken
<1>4. NoRequest \in Request
  BY <1>1, <1>2 DEF NoRequest, Request, Ops, Tokens, NoToken
<1>5. \A op \in Ops, token \in Tokens : Coauth(op, token) \in Request
  BY <1>4 DEF Coauth, Request
<1>6. \A r \in Request, op \in Ops, token \in Tokens :
         [r EXCEPT !.op = op, !.tok = token] \in Request
  BY DEF Request
<1>7. \A op \in Ops, token \in Tokens, p \in Payload :
         [NoRequest EXCEPT !.op = op, !.tok = token, !.put = p] \in Request
  BY <1>4 DEF Request
<1>8. \A r \in Request, k \in Knowledge : [r EXCEPT !.know = k] \in Request
  BY DEF Request
<1>9. \A r \in Request, b \in BOOLEAN : [r EXCEPT !.late = b] \in Request
  BY DEF Request
<1> QED
  BY <1>1, <1>2, <1>3, <1>4, <1>5, <1>6, <1>7, <1>8, <1>9

\* Sending a request and receiving its answer keep the wire's types.
LEMMA PostTyped ==
    ASSUME TypeOK, NEW t \in Threads, NEW r \in Request, Post(t, r)
    PROVE  req' \in [Threads -> Request] /\ ans' \in [Threads -> Answer]
BY Constructors DEF TypeOK, Post

LEMMA ReceiveTyped ==
    ASSUME TypeOK, NEW t \in Threads, Receive(t)
    PROVE  req' \in [Threads -> Request] /\ ans' \in [Threads -> Answer]
BY Constructors DEF TypeOK, Receive

\* The operation a request is for, after each way of making one.
LEMMA RequestOps ==
    /\ NoRequest.op = "none" /\ Waiting.kind = "waiting"
    /\ \A op \in Ops, token \in Tokens : Coauth(op, token).op = op
    /\ \A r \in Request, b \in BOOLEAN : [r EXCEPT !.late = b].op = r.op
    /\ \A r \in Request, b \in BOOLEAN : [r EXCEPT !.late = b].know = r.know
    /\ \A r \in Request, k \in Knowledge :
           [r EXCEPT !.know = k].op = r.op /\ [r EXCEPT !.know = k].know = k
BY DEF NoRequest, Waiting, Coauth, Request

LEMMA TypeInit == Init => TypeOK
<1> SUFFICES ASSUME Init PROVE TypeOK
  OBVIOUS
<1>1. /\ state \in States /\ sessionToken \in Nat /\ retryCount \in 0 .. MAX_RETRIES
      /\ attempt \in 0 .. MaxAttempts
  BY DEF Init, SessionInit, States, NoToken, MAX_RETRIES, MaxAttempts
<1>6. /\ running \in BOOLEAN /\ dropped \in BOOLEAN /\ online \in BOOLEAN
      /\ skipped \in BOOLEAN
  BY DEF Init
<1>5. /\ faults \in 0 .. MaxFaults /\ clock \in 0 .. MaxEdits
      /\ member \in Nat /\ granted \in Nat /\ version \in Nat /\ seen \in Nat
  BY ClientAssumption DEF Init, NoToken
<1>2. /\ pending \in Seq(Delta) /\ batch \in [Threads -> Seq(Delta)]
      /\ doc \in Text /\ content \in Text
      /\ mine \subseteq Delta /\ posted \subseteq Delta
  BY DEF Init, Text, Stamps
<1>3. pc \in [Threads -> Labels]
  BY DEF Init, Labels
<1>4. /\ knowledge \in Knowledge /\ payload \in [Threads -> Payload]
      /\ req \in [Threads -> Request] /\ ans \in [Threads -> Answer]
  BY Constructors DEF Init
<1> QED
  BY <1>1, <1>2, <1>3, <1>4, <1>5, <1>6 DEF TypeOK

\* The frames of the actions are expanded everywhere below.
USE DEF sessionVars, queueVars, docVars, controlVars, wireVars, serverVars,
        historyVars, clientVars, Goto, BetweenAssignments

LEMMA SwapPendingInv ==
    ASSUME IInv, NEW t \in {"caller", "heartbeat"}, SwapPending(t)
    PROVE  IInv'
<1> USE DEF IInv, SwapPending, Resume
<1>1. req' \in [Threads -> Request] /\ ans' \in [Threads -> Answer]
  BY DEF TypeOK
<1>2. /\ pc' \in [Threads -> Labels]
      /\ pending' \in Seq(Delta) /\ batch' \in [Threads -> Seq(Delta)]
      /\ mine' \subseteq Delta /\ posted' \subseteq Delta
  <2>1. pc' \in [Threads -> Labels]
    BY DEF TypeOK, Labels
  <2>2. pending' \in Seq(Delta) /\ batch' \in [Threads -> Seq(Delta)]
    <3>1. <<>> \in Seq(Delta)
      OBVIOUS
    <3> QED
      BY <3>1 DEF TypeOK
  <2>3. mine' \subseteq Delta /\ posted' \subseteq Delta
    BY DEF TypeOK
  <2> QED
    BY <2>1, <2>2, <2>3
<1>3. /\ payload' \in [Threads -> Payload] /\ doc' \in Text /\ content' \in Text
      /\ knowledge' \in Knowledge /\ seen' \in Nat /\ version' \in Nat
      /\ skipped' \in BOOLEAN
  BY Constructors DEF TypeOK, Threads, Text
<1>4. TypeOK'
  BY <1>1, <1>2, <1>3, ClientAssumption DEF TypeOK, Threads, NoToken, States,
     MAX_RETRIES, MaxAttempts, SessionPlace, IsJoined
<1>5. ThreadsOwnLabels' /\ BatchHeld'
  BY DEF TypeOK, Threads, ThreadsOwnLabels, BatchHeld, CallerLabels,
     HeartbeatLabels, PollLabels
<1>6. RequestsFollowLabels' /\ GrantsCarryTokens'
  BY DEF TypeOK, Threads, ThreadsOwnLabels, CallerLabels, HeartbeatLabels,
     PollLabels, RequestsFollowLabels, GrantsCarryTokens, OpAt, NoRequest, Waiting,
     Coauth
<1>7. SessionPlace' /\ ExitPlace'
  BY DEF TypeOK, Threads, SessionPlace, ExitPlace, ThreadsDone, IsJoined,
     MAX_RETRIES, MaxAttempts, ThreadsOwnLabels, CallerLabels, HeartbeatLabels,
     PollLabels, SessionCoherent, HeartbeatKeepsSession
<1>8. DeliveryPlace' /\ KnowledgeIsSeen'
  BY DEF TypeOK, Threads, DeliveryPlace, KnowledgeIsSeen, Root, Knowledge, Answer
<1>9. SessionCoherent' /\ HeartbeatKeepsSession' /\ DropAfterAttempts'
  BY DEF TypeOK, Threads, SessionCoherent, HeartbeatKeepsSession, DropAfterAttempts,
     SessionPlace, ExitPlace, ThreadsDone, IsJoined, NoToken, MAX_RETRIES,
     GrantsCarryTokens, RequestsFollowLabels, OpAt
<1> QED
  BY <1>4, <1>5, <1>6, <1>7, <1>8, <1>9

LEMMA ApplyDeltaInv ==
    ASSUME IInv, NEW t \in {"caller", "heartbeat"}, ApplyDelta(t)
    PROVE  IInv'
<1> USE DEF IInv, ApplyDelta
<1>1. req' \in [Threads -> Request] /\ ans' \in [Threads -> Answer]
  BY DEF TypeOK
<1>2. /\ pc' \in [Threads -> Labels]
      /\ pending' \in Seq(Delta) /\ batch' \in [Threads -> Seq(Delta)]
      /\ mine' \subseteq Delta /\ posted' \subseteq Delta
  BY ClientAssumption DEF TypeOK, Threads, Labels, BatchHeld, Delta
<1>3. /\ payload' \in [Threads -> Payload] /\ doc' \in Text /\ content' \in Text
      /\ knowledge' \in Knowledge /\ seen' \in Nat /\ version' \in Nat
      /\ skipped' \in BOOLEAN
  <2> DEFINE d == Head(batch[t])
  <2>1. d \in Delta
    BY DEF TypeOK, Threads, BatchHeld
  <2>2. d.key \in Keys /\ d.stamp \in Int
    BY <2>1, ClientAssumption DEF Delta
  <2>3. doc' \in Text
    BY <2>2 DEF TypeOK, Text, Stamps
  <2>4. Serialized(d) \in Text
    BY <2>2, <2>3 DEF Serialized, Stub, Text, Stamps, Gone
  <2>5. PartOf(d.key) \in SUBSET Keys
    BY DEF PartOf, Keys
  <2>6. [part |-> PartOf(d.key), text |-> Serialized(d)] \in Payload
    BY <2>4, <2>5 DEF Payload
  <2>7. payload' \in [Threads -> Payload]
    BY <2>6 DEF TypeOK
  <2> QED
    BY <2>3, <2>7 DEF TypeOK
<1>4. TypeOK'
  BY <1>1, <1>2, <1>3, ClientAssumption DEF TypeOK, Threads, NoToken, States,
     MAX_RETRIES, MaxAttempts, SessionPlace, IsJoined
<1>5. ThreadsOwnLabels' /\ BatchHeld'
  BY DEF TypeOK, Threads, ThreadsOwnLabels, BatchHeld, CallerLabels,
     HeartbeatLabels, PollLabels
<1>6. RequestsFollowLabels' /\ GrantsCarryTokens'
  BY DEF TypeOK, Threads, ThreadsOwnLabels, CallerLabels, HeartbeatLabels,
     PollLabels, RequestsFollowLabels, GrantsCarryTokens, OpAt, NoRequest, Waiting,
     Coauth
<1>7. SessionPlace' /\ ExitPlace'
  BY DEF TypeOK, Threads, SessionPlace, ExitPlace, ThreadsDone, IsJoined,
     MAX_RETRIES, MaxAttempts, ThreadsOwnLabels, CallerLabels, HeartbeatLabels,
     PollLabels, SessionCoherent, HeartbeatKeepsSession
<1>8. DeliveryPlace' /\ KnowledgeIsSeen'
  BY DEF TypeOK, Threads, DeliveryPlace, KnowledgeIsSeen, Root, Knowledge, Answer
<1>9. SessionCoherent' /\ HeartbeatKeepsSession' /\ DropAfterAttempts'
  BY DEF TypeOK, Threads, SessionCoherent, HeartbeatKeepsSession, DropAfterAttempts,
     SessionPlace, ExitPlace, ThreadsDone, IsJoined, NoToken, MAX_RETRIES,
     GrantsCarryTokens, RequestsFollowLabels, OpAt
<1> QED
  BY <1>4, <1>5, <1>6, <1>7, <1>8, <1>9

LEMMA PutChangesInv ==
    ASSUME IInv, NEW t \in {"caller", "heartbeat"}, PutChanges(t)
    PROVE  IInv'
<1> USE DEF IInv, PutChanges
<1>1. req' \in [Threads -> Request] /\ ans' \in [Threads -> Answer]
  <2>1. PICK token \in TokenRead : Post(t, [NoRequest EXCEPT !.op = "put", !.tok = token, !.put = payload[t]])
    OBVIOUS
  <2>2. token \in Tokens
    BY <2>1 DEF TokenRead, Tokens, TypeOK, Torn
  <2>3. [NoRequest EXCEPT !.op = "put", !.tok = token, !.put = payload[t]] \in Request
    BY <2>2, Constructors DEF TypeOK, Ops, Threads
  <2> QED
    BY <2>1, <2>3, Constructors DEF TypeOK, Post, Threads
<1>2. /\ pc' \in [Threads -> Labels]
      /\ pending' \in Seq(Delta) /\ batch' \in [Threads -> Seq(Delta)]
      /\ mine' \subseteq Delta /\ posted' \subseteq Delta
  <2>1. pc' \in [Threads -> Labels]
    BY DEF TypeOK, Labels
  <2>2. pending' \in Seq(Delta) /\ batch' \in [Threads -> Seq(Delta)]
    <3>1. Tail(batch[t]) \in Seq(Delta)
      BY DEF TypeOK, Threads, BatchHeld
    <3> QED
      BY <3>1 DEF TypeOK
  <2>3. mine' \subseteq Delta /\ posted' \subseteq Delta
    <3>1. Head(batch[t]) \in Delta
      BY DEF TypeOK, Threads, BatchHeld
    <3> QED
      BY <3>1 DEF TypeOK
  <2> QED
    BY <2>1, <2>2, <2>3
<1>3. /\ payload' \in [Threads -> Payload] /\ doc' \in Text /\ content' \in Text
      /\ knowledge' \in Knowledge /\ seen' \in Nat /\ version' \in Nat
      /\ skipped' \in BOOLEAN
  BY Constructors DEF TypeOK, Threads, Text
<1>4. TypeOK'
  BY <1>1, <1>2, <1>3, ClientAssumption DEF TypeOK, Threads, NoToken, States,
     MAX_RETRIES, MaxAttempts, SessionPlace, IsJoined
<1>5. ThreadsOwnLabels' /\ BatchHeld'
  BY DEF TypeOK, Threads, ThreadsOwnLabels, BatchHeld, CallerLabels,
     HeartbeatLabels, PollLabels
<1>6. RequestsFollowLabels' /\ GrantsCarryTokens'
  <2>1. RequestsFollowLabels'
    BY DEF TypeOK, Threads, ThreadsOwnLabels, CallerLabels, HeartbeatLabels,
       PollLabels, RequestsFollowLabels, OpAt, NoRequest, Waiting,
       Coauth, Post
  <2>2. GrantsCarryTokens'
    BY DEF TypeOK, Threads, ThreadsOwnLabels, CallerLabels, HeartbeatLabels,
       PollLabels, RequestsFollowLabels, GrantsCarryTokens, OpAt, NoRequest, Waiting,
       Coauth, Post
  <2> QED
    BY <2>1, <2>2
<1>7. SessionPlace' /\ ExitPlace'
  BY DEF TypeOK, Threads, SessionPlace, ExitPlace, ThreadsDone, IsJoined,
     MAX_RETRIES, MaxAttempts, ThreadsOwnLabels, CallerLabels, HeartbeatLabels,
     PollLabels, SessionCoherent, HeartbeatKeepsSession
<1>8. DeliveryPlace' /\ KnowledgeIsSeen'
  BY DEF TypeOK, Threads, DeliveryPlace, KnowledgeIsSeen, Root, Knowledge, Answer,
     Post
<1>9. SessionCoherent' /\ HeartbeatKeepsSession' /\ DropAfterAttempts'
  BY DEF TypeOK, Threads, SessionCoherent, HeartbeatKeepsSession, DropAfterAttempts,
     SessionPlace, ExitPlace, ThreadsDone, IsJoined, NoToken, MAX_RETRIES,
     GrantsCarryTokens, RequestsFollowLabels, OpAt
<1> QED
  BY <1>4, <1>5, <1>6, <1>7, <1>8, <1>9

LEMMA PutReturnsInv ==
    ASSUME IInv, NEW t \in {"caller", "heartbeat"}, PutReturns(t)
    PROVE  IInv'
<1> USE DEF IInv, PutReturns, Resume
<1>1. req' \in [Threads -> Request] /\ ans' \in [Threads -> Answer]
  BY Constructors, ClientAssumption DEF TypeOK, Threads, Ops, Tokens, NoToken,
     TokenRead, Torn, Receive, Answered
<1>2. /\ pc' \in [Threads -> Labels]
      /\ pending' \in Seq(Delta) /\ batch' \in [Threads -> Seq(Delta)]
      /\ mine' \subseteq Delta /\ posted' \subseteq Delta
  BY ClientAssumption DEF TypeOK, Threads, Labels, BatchHeld, Delta
<1>3. /\ payload' \in [Threads -> Payload] /\ doc' \in Text /\ content' \in Text
      /\ knowledge' \in Knowledge /\ seen' \in Nat /\ version' \in Nat
      /\ skipped' \in BOOLEAN
  BY Constructors DEF TypeOK, Threads, Text
<1>4. TypeOK'
  BY <1>1, <1>2, <1>3, ClientAssumption DEF TypeOK, Threads, NoToken, States,
     MAX_RETRIES, MaxAttempts, SessionPlace, IsJoined
<1>5. ThreadsOwnLabels' /\ BatchHeld'
  BY DEF TypeOK, Threads, ThreadsOwnLabels, BatchHeld, CallerLabels,
     HeartbeatLabels, PollLabels
<1>6. RequestsFollowLabels' /\ GrantsCarryTokens'
  BY DEF TypeOK, Threads, ThreadsOwnLabels, CallerLabels, HeartbeatLabels,
     PollLabels, RequestsFollowLabels, GrantsCarryTokens, OpAt, NoRequest, Waiting,
     Coauth, Receive, Answered
<1>7. SessionPlace' /\ ExitPlace'
  BY DEF TypeOK, Threads, SessionPlace, ExitPlace, ThreadsDone, IsJoined,
     MAX_RETRIES, MaxAttempts, ThreadsOwnLabels, CallerLabels, HeartbeatLabels,
     PollLabels, SessionCoherent, HeartbeatKeepsSession
<1>8. DeliveryPlace' /\ KnowledgeIsSeen'
  BY DEF TypeOK, Threads, DeliveryPlace, KnowledgeIsSeen, Root, Knowledge, Answer,
     Receive, Answered
<1>9. SessionCoherent' /\ HeartbeatKeepsSession' /\ DropAfterAttempts'
  BY DEF TypeOK, Threads, SessionCoherent, HeartbeatKeepsSession, DropAfterAttempts,
     SessionPlace, ExitPlace, ThreadsDone, IsJoined, NoToken, MAX_RETRIES,
     GrantsCarryTokens, RequestsFollowLabels, OpAt, Receive, Answered
<1> QED
  BY <1>4, <1>5, <1>6, <1>7, <1>8, <1>9

LEMMA JoinSessionInv ==
    ASSUME IInv, JoinSession
    PROVE  IInv'
<1> USE DEF IInv, JoinSession, SetJoining
<1>1. req' \in [Threads -> Request] /\ ans' \in [Threads -> Answer]
  <2>1. "join" \in Ops /\ NoToken \in Tokens
    BY DEF TypeOK, Ops, Tokens, NoToken
  <2>2. Coauth("join", NoToken) \in Request
    BY <2>1, Constructors
  <2>3. Post("caller", Coauth("join", NoToken))
    OBVIOUS
  <2>4. TypeOK /\ "caller" \in Threads
    BY DEF Threads
  <2> HIDE DEF IInv, JoinSession
  <2> QED
    BY <2>2, <2>3, <2>4, PostTyped
<1>2. /\ pc' \in [Threads -> Labels]
      /\ pending' \in Seq(Delta) /\ batch' \in [Threads -> Seq(Delta)]
      /\ mine' \subseteq Delta /\ posted' \subseteq Delta
  BY ClientAssumption DEF TypeOK, Threads, Labels, BatchHeld, Delta
<1>3. /\ payload' \in [Threads -> Payload] /\ doc' \in Text /\ content' \in Text
      /\ knowledge' \in Knowledge /\ seen' \in Nat /\ version' \in Nat
      /\ skipped' \in BOOLEAN
  BY Constructors DEF TypeOK, Threads, Text
<1>4. TypeOK'
  BY <1>1, <1>2, <1>3, ClientAssumption DEF TypeOK, Threads, NoToken, States,
     MAX_RETRIES, MaxAttempts, SessionPlace, IsJoined
<1>5. ThreadsOwnLabels' /\ BatchHeld'
  BY DEF TypeOK, Threads, ThreadsOwnLabels, BatchHeld, CallerLabels,
     HeartbeatLabels, PollLabels
<1>6. RequestsFollowLabels' /\ GrantsCarryTokens'
  BY DEF TypeOK, Threads, ThreadsOwnLabels, CallerLabels, HeartbeatLabels,
     PollLabels, RequestsFollowLabels, GrantsCarryTokens, OpAt, NoRequest, Waiting,
     Coauth, Post
<1>7. SessionPlace' /\ ExitPlace'
  BY DEF TypeOK, Threads, SessionPlace, ExitPlace, ThreadsDone, IsJoined,
     MAX_RETRIES, MaxAttempts, ThreadsOwnLabels, CallerLabels, HeartbeatLabels,
     PollLabels, SessionCoherent, HeartbeatKeepsSession
<1>8. DeliveryPlace' /\ KnowledgeIsSeen'
  BY DEF TypeOK, Threads, DeliveryPlace, KnowledgeIsSeen, Root, Knowledge, Answer,
     Post
<1>9. SessionCoherent' /\ HeartbeatKeepsSession' /\ DropAfterAttempts'
  BY DEF TypeOK, Threads, SessionCoherent, HeartbeatKeepsSession, DropAfterAttempts,
     SessionPlace, ExitPlace, ThreadsDone, IsJoined, NoToken, MAX_RETRIES,
     GrantsCarryTokens, RequestsFollowLabels, OpAt
<1> QED
  BY <1>4, <1>5, <1>6, <1>7, <1>8, <1>9

LEMMA JoinReturnsInv ==
    ASSUME IInv, JoinReturns
    PROVE  IInv'
<1> USE DEF IInv, JoinReturns, JoinGranted, JoinRefused
<1>1. req' \in [Threads -> Request] /\ ans' \in [Threads -> Answer]
  BY Constructors, ClientAssumption DEF TypeOK, Threads, Ops, Tokens, NoToken,
     TokenRead, Torn, Receive, Answered
<1>2. /\ pc' \in [Threads -> Labels]
      /\ pending' \in Seq(Delta) /\ batch' \in [Threads -> Seq(Delta)]
      /\ mine' \subseteq Delta /\ posted' \subseteq Delta
  BY ClientAssumption DEF TypeOK, Threads, Labels, BatchHeld, Delta
<1>3. /\ payload' \in [Threads -> Payload] /\ doc' \in Text /\ content' \in Text
      /\ knowledge' \in Knowledge /\ seen' \in Nat /\ version' \in Nat
      /\ skipped' \in BOOLEAN
  BY Constructors DEF TypeOK, Threads, Text
<1>4. TypeOK'
  <2>1. ans["caller"].tok \in Nat
    BY DEF TypeOK, Threads, Answer
  <2>2. /\ state' \in States /\ sessionToken' \in Nat
        /\ retryCount' \in 0 .. MAX_RETRIES /\ running' \in BOOLEAN
    <3>1. CASE ans["caller"].kind = "ok"
      BY <2>1, <3>1 DEF States, MAX_RETRIES
    <3>2. CASE ans["caller"].kind # "ok"
      BY <3>2 DEF TypeOK, States, NoToken
    <3> QED
      BY <3>1, <3>2
  <2> QED
    BY <1>1, <1>2, <1>3, <2>2 DEF TypeOK
<1>5. ThreadsOwnLabels' /\ BatchHeld'
  BY DEF TypeOK, Threads, ThreadsOwnLabels, BatchHeld, CallerLabels,
     HeartbeatLabels, PollLabels
<1>6. RequestsFollowLabels' /\ GrantsCarryTokens'
  <2>1. CASE ans["caller"].kind = "ok"
    BY <2>1, RequestOps DEF TypeOK, Threads, ThreadsOwnLabels, CallerLabels,
       HeartbeatLabels, PollLabels, RequestsFollowLabels, GrantsCarryTokens, OpAt,
       Receive, SessionPlace
  <2>2. CASE ~(ans["caller"].kind = "ok")
    BY <2>2, RequestOps DEF TypeOK, Threads, ThreadsOwnLabels, CallerLabels,
       HeartbeatLabels, PollLabels, RequestsFollowLabels, GrantsCarryTokens, OpAt,
       Receive, SessionPlace
  <2> QED
    BY <2>1, <2>2
<1>7. SessionPlace' /\ ExitPlace'
  BY DEF TypeOK, Threads, SessionPlace, ExitPlace, ThreadsDone, IsJoined,
     MAX_RETRIES, MaxAttempts, ThreadsOwnLabels, CallerLabels, HeartbeatLabels,
     PollLabels, SessionCoherent, HeartbeatKeepsSession
<1>8. DeliveryPlace' /\ KnowledgeIsSeen'
  <2>1. DeliveryPlace'
    BY DEF TypeOK, Threads, DeliveryPlace, Knowledge, Answer, Receive, Answered
  <2>2. KnowledgeIsSeen'
    BY DEF TypeOK, Threads, KnowledgeIsSeen, Root, Knowledge, Answer, Receive, Answered
  <2> QED
    BY <2>1, <2>2
<1>9. SessionCoherent' /\ HeartbeatKeepsSession' /\ DropAfterAttempts'
  BY DEF TypeOK, Threads, SessionCoherent, HeartbeatKeepsSession, DropAfterAttempts,
     SessionPlace, ExitPlace, ThreadsDone, IsJoined, NoToken, MAX_RETRIES,
     GrantsCarryTokens, RequestsFollowLabels, OpAt, Receive, Answered
<1> QED
  BY <1>4, <1>5, <1>6, <1>7, <1>8, <1>9

LEMMA SendDeltaInv ==
    ASSUME IInv, NEW t \in Keys, SendDelta(t)
    PROVE  IInv'
<1> USE DEF IInv, SendDelta
<1>1. req' \in [Threads -> Request] /\ ans' \in [Threads -> Answer]
  BY DEF TypeOK
<1>2. /\ pc' \in [Threads -> Labels]
      /\ pending' \in Seq(Delta) /\ batch' \in [Threads -> Seq(Delta)]
      /\ mine' \subseteq Delta /\ posted' \subseteq Delta
  <2> DEFINE d == [key |-> t, stamp |-> clock + 1]
  <2>1. d \in Delta
    BY ClientAssumption DEF TypeOK, Delta
  <2>2. <<d>> \in Seq(Delta)
    BY <2>1
  <2>3. pc' \in [Threads -> Labels]
    BY DEF TypeOK, Labels
  <2>4. pending' \in Seq(Delta) /\ batch' \in [Threads -> Seq(Delta)]
    BY <2>2 DEF TypeOK
  <2>5. mine' \subseteq Delta /\ posted' \subseteq Delta
    BY <2>1 DEF TypeOK
  <2> QED
    BY <2>3, <2>4, <2>5
<1>3. /\ payload' \in [Threads -> Payload] /\ doc' \in Text /\ content' \in Text
      /\ knowledge' \in Knowledge /\ seen' \in Nat /\ version' \in Nat
      /\ skipped' \in BOOLEAN
  BY Constructors DEF TypeOK, Threads, Text
<1>4. TypeOK'
  BY <1>1, <1>2, <1>3, ClientAssumption DEF TypeOK, Threads, NoToken, States,
     MAX_RETRIES, MaxAttempts, SessionPlace, IsJoined
<1>5. ThreadsOwnLabels' /\ BatchHeld'
  BY DEF TypeOK, Threads, ThreadsOwnLabels, BatchHeld, CallerLabels,
     HeartbeatLabels, PollLabels
<1>6. RequestsFollowLabels' /\ GrantsCarryTokens'
  BY DEF TypeOK, Threads, ThreadsOwnLabels, CallerLabels, HeartbeatLabels,
     PollLabels, RequestsFollowLabels, GrantsCarryTokens, OpAt, NoRequest, Waiting,
     Coauth
<1>7. SessionPlace' /\ ExitPlace'
  BY DEF TypeOK, Threads, SessionPlace, ExitPlace, ThreadsDone, IsJoined,
     MAX_RETRIES, MaxAttempts, ThreadsOwnLabels, CallerLabels, HeartbeatLabels,
     PollLabels, SessionCoherent, HeartbeatKeepsSession
<1>8. DeliveryPlace' /\ KnowledgeIsSeen'
  BY DEF TypeOK, Threads, DeliveryPlace, KnowledgeIsSeen, Root, Knowledge, Answer
<1>9. SessionCoherent' /\ HeartbeatKeepsSession' /\ DropAfterAttempts'
  BY DEF TypeOK, Threads, SessionCoherent, HeartbeatKeepsSession, DropAfterAttempts,
     SessionPlace, ExitPlace, ThreadsDone, IsJoined, NoToken, MAX_RETRIES,
     GrantsCarryTokens, RequestsFollowLabels, OpAt
<1> QED
  BY <1>4, <1>5, <1>6, <1>7, <1>8, <1>9

LEMMA QueueDeltaInv ==
    ASSUME IInv, QueueDelta
    PROVE  IInv'
<1> USE DEF IInv, QueueDelta
<1>1. req' \in [Threads -> Request] /\ ans' \in [Threads -> Answer]
  BY DEF TypeOK
<1>2. /\ pc' \in [Threads -> Labels]
      /\ pending' \in Seq(Delta) /\ batch' \in [Threads -> Seq(Delta)]
      /\ mine' \subseteq Delta /\ posted' \subseteq Delta
  <2>1. pc' \in [Threads -> Labels]
    BY DEF TypeOK, Labels
  <2>2. pending' \in Seq(Delta) /\ batch' \in [Threads -> Seq(Delta)]
    <3>1. Head(batch["caller"]) \in Delta
      BY DEF TypeOK, Threads, BatchHeld
    <3>2. Append(pending, Head(batch["caller"])) \in Seq(Delta) /\ <<>> \in Seq(Delta)
      BY <3>1 DEF TypeOK
    <3> QED
      BY <3>2 DEF TypeOK
  <2>3. mine' \subseteq Delta /\ posted' \subseteq Delta
    BY DEF TypeOK
  <2> QED
    BY <2>1, <2>2, <2>3
<1>3. /\ payload' \in [Threads -> Payload] /\ doc' \in Text /\ content' \in Text
      /\ knowledge' \in Knowledge /\ seen' \in Nat /\ version' \in Nat
      /\ skipped' \in BOOLEAN
  BY Constructors DEF TypeOK, Threads, Text
<1>4. TypeOK'
  BY <1>1, <1>2, <1>3, ClientAssumption DEF TypeOK, Threads, NoToken, States,
     MAX_RETRIES, MaxAttempts, SessionPlace, IsJoined
<1>5. ThreadsOwnLabels' /\ BatchHeld'
  BY DEF TypeOK, Threads, ThreadsOwnLabels, BatchHeld, CallerLabels,
     HeartbeatLabels, PollLabels
<1>6. RequestsFollowLabels' /\ GrantsCarryTokens'
  BY DEF TypeOK, Threads, ThreadsOwnLabels, CallerLabels, HeartbeatLabels,
     PollLabels, RequestsFollowLabels, GrantsCarryTokens, OpAt, NoRequest, Waiting,
     Coauth
<1>7. SessionPlace' /\ ExitPlace'
  BY DEF TypeOK, Threads, SessionPlace, ExitPlace, ThreadsDone, IsJoined,
     MAX_RETRIES, MaxAttempts, ThreadsOwnLabels, CallerLabels, HeartbeatLabels,
     PollLabels, SessionCoherent, HeartbeatKeepsSession
<1>8. DeliveryPlace' /\ KnowledgeIsSeen'
  BY DEF TypeOK, Threads, DeliveryPlace, KnowledgeIsSeen, Root, Knowledge, Answer
<1>9. SessionCoherent' /\ HeartbeatKeepsSession' /\ DropAfterAttempts'
  BY DEF TypeOK, Threads, SessionCoherent, HeartbeatKeepsSession, DropAfterAttempts,
     SessionPlace, ExitPlace, ThreadsDone, IsJoined, NoToken, MAX_RETRIES,
     GrantsCarryTokens, RequestsFollowLabels, OpAt
<1> QED
  BY <1>4, <1>5, <1>6, <1>7, <1>8, <1>9

LEMMA ExitSessionInv ==
    ASSUME IInv, ExitSession
    PROVE  IInv'
<1> USE DEF IInv, ExitSession
<1>1. req' \in [Threads -> Request] /\ ans' \in [Threads -> Answer]
  BY DEF TypeOK
<1>2. /\ pc' \in [Threads -> Labels]
      /\ pending' \in Seq(Delta) /\ batch' \in [Threads -> Seq(Delta)]
      /\ mine' \subseteq Delta /\ posted' \subseteq Delta
  BY ClientAssumption DEF TypeOK, Threads, Labels, BatchHeld, Delta
<1>3. /\ payload' \in [Threads -> Payload] /\ doc' \in Text /\ content' \in Text
      /\ knowledge' \in Knowledge /\ seen' \in Nat /\ version' \in Nat
      /\ skipped' \in BOOLEAN
  BY Constructors DEF TypeOK, Threads, Text
<1>4. TypeOK'
  BY <1>1, <1>2, <1>3, ClientAssumption DEF TypeOK, Threads, NoToken, States,
     MAX_RETRIES, MaxAttempts, SessionPlace, IsJoined
<1>5. ThreadsOwnLabels' /\ BatchHeld'
  BY DEF TypeOK, Threads, ThreadsOwnLabels, BatchHeld, CallerLabels,
     HeartbeatLabels, PollLabels
<1>6. RequestsFollowLabels' /\ GrantsCarryTokens'
  BY DEF TypeOK, Threads, ThreadsOwnLabels, CallerLabels, HeartbeatLabels,
     PollLabels, RequestsFollowLabels, GrantsCarryTokens, OpAt, NoRequest, Waiting,
     Coauth
<1>7. SessionPlace' /\ ExitPlace'
  BY DEF TypeOK, Threads, SessionPlace, ExitPlace, ThreadsDone, IsJoined,
     MAX_RETRIES, MaxAttempts, ThreadsOwnLabels, CallerLabels, HeartbeatLabels,
     PollLabels, SessionCoherent, HeartbeatKeepsSession
<1>8. DeliveryPlace' /\ KnowledgeIsSeen'
  BY DEF TypeOK, Threads, DeliveryPlace, KnowledgeIsSeen, Root, Knowledge, Answer
<1>9. SessionCoherent' /\ HeartbeatKeepsSession' /\ DropAfterAttempts'
  BY DEF TypeOK, Threads, SessionCoherent, HeartbeatKeepsSession, DropAfterAttempts,
     SessionPlace, ExitPlace, ThreadsDone, IsJoined, NoToken, MAX_RETRIES,
     GrantsCarryTokens, RequestsFollowLabels, OpAt
<1> QED
  BY <1>4, <1>5, <1>6, <1>7, <1>8, <1>9

LEMMA ThreadsJoinedInv ==
    ASSUME IInv, ThreadsJoined
    PROVE  IInv'
<1> USE DEF IInv, ThreadsJoined
<1>1. req' \in [Threads -> Request] /\ ans' \in [Threads -> Answer]
  <2>1. "exit" \in Ops /\ sessionToken \in Tokens
    BY DEF TypeOK, Ops, Tokens, NoToken
  <2>2. Coauth("exit", sessionToken) \in Request
    BY <2>1, Constructors
  <2>3. Post("caller", Coauth("exit", sessionToken)) \/ UNCHANGED wireVars
    OBVIOUS
  <2>4. TypeOK /\ "caller" \in Threads
    BY DEF Threads
  <2> HIDE DEF IInv, ThreadsJoined
  <2> QED
    BY <2>2, <2>3, <2>4, PostTyped DEF TypeOK, wireVars
<1>2. /\ pc' \in [Threads -> Labels]
      /\ pending' \in Seq(Delta) /\ batch' \in [Threads -> Seq(Delta)]
      /\ mine' \subseteq Delta /\ posted' \subseteq Delta
  BY ClientAssumption DEF TypeOK, Threads, Labels, BatchHeld, Delta
<1>3. /\ payload' \in [Threads -> Payload] /\ doc' \in Text /\ content' \in Text
      /\ knowledge' \in Knowledge /\ seen' \in Nat /\ version' \in Nat
      /\ skipped' \in BOOLEAN
  BY DEF TypeOK
<1>4. TypeOK'
  BY <1>1, <1>2, <1>3, ClientAssumption DEF TypeOK, Threads, NoToken, States,
     MAX_RETRIES, MaxAttempts, SessionPlace, IsJoined
<1>5. ThreadsOwnLabels' /\ BatchHeld'
  BY DEF TypeOK, Threads, ThreadsOwnLabels, BatchHeld, CallerLabels,
     HeartbeatLabels, PollLabels
<1>6. RequestsFollowLabels' /\ GrantsCarryTokens'
  <2>3. Coauth("exit", sessionToken).op = "exit"
    BY RequestOps DEF TypeOK, Ops, Tokens
  <2>1. CASE IsJoined
    <3>1. /\ req' = [req EXCEPT !["caller"] = Coauth("exit", sessionToken)]
          /\ ans' = [ans EXCEPT !["caller"] = Waiting]
          /\ pc'["caller"] = "exit"
          /\ pc'["heartbeat"] = pc["heartbeat"] /\ pc'["poll"] = pc["poll"]
      BY <2>1 DEF Post, TypeOK, Threads
    <3>2. RequestsFollowLabels /\ GrantsCarryTokens /\ TypeOK
      OBVIOUS
    <3> HIDE DEF IInv, ThreadsJoined
    <3> QED
      BY <3>1, <3>2, <2>3, RequestOps DEF TypeOK, Threads, RequestsFollowLabels,
         GrantsCarryTokens, OpAt
  <2>2. CASE ~(IsJoined)
    BY <2>3, <2>2, RequestOps DEF TypeOK, Threads, ThreadsOwnLabels, CallerLabels,
       HeartbeatLabels, PollLabels, RequestsFollowLabels, GrantsCarryTokens, OpAt,
       Post, ThreadsDone
  <2> QED
    BY <2>1, <2>2
<1>7. SessionPlace' /\ ExitPlace'
  BY DEF TypeOK, Threads, SessionPlace, ExitPlace, ThreadsDone, IsJoined,
     MAX_RETRIES, MaxAttempts, ThreadsOwnLabels, CallerLabels, HeartbeatLabels,
     PollLabels, SessionCoherent, HeartbeatKeepsSession
<1>8. DeliveryPlace' /\ KnowledgeIsSeen'
  <2>1. DeliveryPlace'
    BY DEF TypeOK, Threads, DeliveryPlace, Knowledge, Answer, Post
  <2>2. KnowledgeIsSeen'
    BY DEF TypeOK, Threads, KnowledgeIsSeen, Root, Knowledge, Answer, Post
  <2> QED
    BY <2>1, <2>2
<1>9. SessionCoherent' /\ HeartbeatKeepsSession' /\ DropAfterAttempts'
  BY DEF TypeOK, Threads, SessionCoherent, HeartbeatKeepsSession, DropAfterAttempts,
     SessionPlace, ExitPlace, ThreadsDone, IsJoined, NoToken, MAX_RETRIES,
     GrantsCarryTokens, RequestsFollowLabels, OpAt
<1> QED
  BY <1>4, <1>5, <1>6, <1>7, <1>8, <1>9

LEMMA ExitReturnsInv ==
    ASSUME IInv, ExitReturns
    PROVE  IInv'
<1> USE DEF IInv, ExitReturns, HandleExit
<1>1. req' \in [Threads -> Request] /\ ans' \in [Threads -> Answer]
  BY Constructors, ClientAssumption DEF TypeOK, Threads, Ops, Tokens, NoToken,
     TokenRead, Torn, Receive, Answered
<1>2. /\ pc' \in [Threads -> Labels]
      /\ pending' \in Seq(Delta) /\ batch' \in [Threads -> Seq(Delta)]
      /\ mine' \subseteq Delta /\ posted' \subseteq Delta
  BY ClientAssumption DEF TypeOK, Threads, Labels, BatchHeld, Delta
<1>3. /\ payload' \in [Threads -> Payload] /\ doc' \in Text /\ content' \in Text
      /\ knowledge' \in Knowledge /\ seen' \in Nat /\ version' \in Nat
      /\ skipped' \in BOOLEAN
  BY Constructors DEF TypeOK, Threads, Text
<1>4. TypeOK'
  BY <1>1, <1>2, <1>3, ClientAssumption DEF TypeOK, Threads, NoToken, States,
     MAX_RETRIES, MaxAttempts, SessionPlace, IsJoined
<1>5. ThreadsOwnLabels' /\ BatchHeld'
  BY DEF TypeOK, Threads, ThreadsOwnLabels, BatchHeld, CallerLabels,
     HeartbeatLabels, PollLabels
<1>6. RequestsFollowLabels' /\ GrantsCarryTokens'
  BY DEF TypeOK, Threads, ThreadsOwnLabels, CallerLabels, HeartbeatLabels,
     PollLabels, RequestsFollowLabels, GrantsCarryTokens, OpAt, NoRequest, Waiting,
     Coauth, Receive, Answered
<1>7. SessionPlace' /\ ExitPlace'
  BY DEF TypeOK, Threads, SessionPlace, ExitPlace, ThreadsDone, IsJoined,
     MAX_RETRIES, MaxAttempts, ThreadsOwnLabels, CallerLabels, HeartbeatLabels,
     PollLabels, SessionCoherent, HeartbeatKeepsSession
<1>8. DeliveryPlace' /\ KnowledgeIsSeen'
  BY DEF TypeOK, Threads, DeliveryPlace, KnowledgeIsSeen, Root, Knowledge, Answer,
     Receive, Answered
<1>9. SessionCoherent' /\ HeartbeatKeepsSession' /\ DropAfterAttempts'
  BY DEF TypeOK, Threads, SessionCoherent, HeartbeatKeepsSession, DropAfterAttempts,
     SessionPlace, ExitPlace, ThreadsDone, IsJoined, NoToken, MAX_RETRIES,
     GrantsCarryTokens, RequestsFollowLabels, OpAt, Receive, Answered
<1> QED
  BY <1>4, <1>5, <1>6, <1>7, <1>8, <1>9

LEMMA HeartbeatWakesInv ==
    ASSUME IInv, HeartbeatWakes
    PROVE  IInv'
<1> USE DEF IInv, HeartbeatWakes, KeepsRunning
<1>1. req' \in [Threads -> Request] /\ ans' \in [Threads -> Answer]
  <2>1. "refresh" \in Ops /\ sessionToken \in Tokens
    BY DEF TypeOK, Ops, Tokens
  <2>3. Coauth("refresh", sessionToken) \in Request
    BY <2>1, Constructors
  <2>2. MarkLate \in [Threads -> Request]
    BY Constructors, ClientAssumption DEF TypeOK, MarkLate
  <2> QED
    BY <2>3, <2>2, Constructors DEF TypeOK
<1>2. /\ pc' \in [Threads -> Labels]
      /\ pending' \in Seq(Delta) /\ batch' \in [Threads -> Seq(Delta)]
      /\ mine' \subseteq Delta /\ posted' \subseteq Delta
  BY ClientAssumption DEF TypeOK, Threads, Labels, BatchHeld, Delta
<1>3. /\ payload' \in [Threads -> Payload] /\ doc' \in Text /\ content' \in Text
      /\ knowledge' \in Knowledge /\ seen' \in Nat /\ version' \in Nat
      /\ skipped' \in BOOLEAN
  BY Constructors DEF TypeOK, Threads, Text
<1>4. TypeOK'
  BY <1>1, <1>2, <1>3, ClientAssumption DEF TypeOK, Threads, NoToken, States,
     MAX_RETRIES, MaxAttempts, SessionPlace, IsJoined
<1>5. ThreadsOwnLabels' /\ BatchHeld'
  BY DEF TypeOK, Threads, ThreadsOwnLabels, BatchHeld, CallerLabels,
     HeartbeatLabels, PollLabels
<1>6. RequestsFollowLabels' /\ GrantsCarryTokens'
  <2>3. Coauth("refresh", sessionToken).op = "refresh"
    BY RequestOps DEF TypeOK, Ops, Tokens
  <2>4. \A t \in Threads : MarkLate[t].op = req[t].op
    <3> TAKE t \in Threads
    <3>1. (Timely /\ req[t].op # "none") \in BOOLEAN /\ req[t] \in Request
      BY ClientAssumption DEF TypeOK
    <3> QED
      BY <3>1, RequestOps DEF MarkLate
  <2>5. MarkLate = [t \in Threads |-> MarkLate[t]]
    BY DEF MarkLate
  <2>1. CASE running
    <3>1. OpAt("heartbeat")' = "refresh" /\ req'["heartbeat"].op = "refresh" /\ ans'["heartbeat"].kind # "ok"
      BY <2>1, <2>3, <2>4, <2>5, RequestOps DEF TypeOK, Threads, OpAt
    <3>2. \A s \in {"caller", "poll"} :
             OpAt(s)' = OpAt(s) /\ req'[s].op = req[s].op /\ ans'[s] = ans[s]
      BY <2>1, <2>3, <2>4, <2>5, RequestOps DEF TypeOK, Threads, OpAt
    <3> QED
      BY <3>1, <3>2 DEF RequestsFollowLabels, GrantsCarryTokens, Threads
  <2>2. CASE ~(running)
    BY <2>2, RequestOps DEF TypeOK, Threads, ThreadsOwnLabels, CallerLabels,
       HeartbeatLabels, PollLabels, RequestsFollowLabels, GrantsCarryTokens, OpAt
  <2> QED
    BY <2>1, <2>2
<1>7. SessionPlace' /\ ExitPlace'
  BY DEF TypeOK, Threads, SessionPlace, ExitPlace, ThreadsDone, IsJoined,
     MAX_RETRIES, MaxAttempts, ThreadsOwnLabels, CallerLabels, HeartbeatLabels,
     PollLabels, SessionCoherent, HeartbeatKeepsSession
<1>8. DeliveryPlace' /\ KnowledgeIsSeen'
  <2>1. UNCHANGED <<knowledge, seen, skipped>> /\ pc'["poll"] = pc["poll"]
    BY DEF TypeOK, Threads
  <2>2. ans'["poll"] = ans["poll"] /\ req'["poll"].know = req["poll"].know
    <3>1. MarkLate["poll"].know = req["poll"].know
      <4>1. (Timely /\ req["poll"].op # "none") \in BOOLEAN /\ req["poll"] \in Request
        BY ClientAssumption DEF TypeOK, Threads
      <4> QED
        BY <4>1, RequestOps DEF MarkLate, Threads
    <3>2. MarkLate = [t \in Threads |-> MarkLate[t]]
      BY DEF MarkLate
    <3> QED
      BY <3>1, <3>2 DEF TypeOK, Threads
  <2>3. DeliveryPlace /\ KnowledgeIsSeen
    OBVIOUS
  <2> HIDE DEF IInv, HeartbeatWakes
  <2> QED
    BY <2>1, <2>2, <2>3 DEF DeliveryPlace, KnowledgeIsSeen
<1>9. SessionCoherent' /\ HeartbeatKeepsSession' /\ DropAfterAttempts'
  BY DEF TypeOK, Threads, SessionCoherent, HeartbeatKeepsSession, DropAfterAttempts,
     SessionPlace, ExitPlace, ThreadsDone, IsJoined, NoToken, MAX_RETRIES,
     GrantsCarryTokens, RequestsFollowLabels, OpAt
<1> QED
  BY <1>4, <1>5, <1>6, <1>7, <1>8, <1>9

LEMMA RefreshReturnsInv ==
    ASSUME IInv, RefreshReturns
    PROVE  IInv'
<1> USE DEF IInv, RefreshReturns, HandleRefreshSuccess, HandleRefreshFailure, RetriesExhausted
<1>1. req' \in [Threads -> Request] /\ ans' \in [Threads -> Answer]
  BY Constructors, ClientAssumption DEF TypeOK, Threads, Ops, Tokens, NoToken,
     TokenRead, Torn, Receive, Answered
<1>2. /\ pc' \in [Threads -> Labels]
      /\ pending' \in Seq(Delta) /\ batch' \in [Threads -> Seq(Delta)]
      /\ mine' \subseteq Delta /\ posted' \subseteq Delta
  BY ClientAssumption DEF TypeOK, Threads, Labels, BatchHeld, Delta
<1>3. /\ payload' \in [Threads -> Payload] /\ doc' \in Text /\ content' \in Text
      /\ knowledge' \in Knowledge /\ seen' \in Nat /\ version' \in Nat
      /\ skipped' \in BOOLEAN
  BY Constructors DEF TypeOK, Threads, Text
<1>4. TypeOK'
  <2>1. IsJoined /\ retryCount \in 0 .. 2
    BY DEF TypeOK, HeartbeatKeepsSession, SessionPlace, MAX_RETRIES
  <2>2. /\ state' \in States /\ sessionToken' \in Nat
        /\ retryCount' \in 0 .. MAX_RETRIES /\ attempt' \in 0 .. MaxAttempts
    <3>1. CASE ans["heartbeat"].kind # "error"
      BY <3>1 DEF TypeOK, MAX_RETRIES
    <3>2. CASE ans["heartbeat"].kind = "error"
      BY <2>1, <3>2 DEF TypeOK, States, NoToken, MAX_RETRIES, MaxAttempts
    <3> QED
      BY <3>1, <3>2
  <2>3. /\ running' \in BOOLEAN /\ online' \in BOOLEAN /\ dropped' \in BOOLEAN
        /\ faults' \in 0 .. MaxFaults /\ clock' \in 0 .. MaxEdits
        /\ member' \in Nat /\ granted' \in Nat
    BY DEF TypeOK
  <2> HIDE DEF IInv, RefreshReturns
  <2> QED
    BY <1>1, <1>2, <1>3, <2>2, <2>3 DEF TypeOK
<1>5. ThreadsOwnLabels' /\ BatchHeld'
  BY DEF TypeOK, Threads, ThreadsOwnLabels, BatchHeld, CallerLabels,
     HeartbeatLabels, PollLabels
<1>6. RequestsFollowLabels' /\ GrantsCarryTokens'
  <2>1. /\ req' = [req EXCEPT !["heartbeat"] = NoRequest]
        /\ ans' = [ans EXCEPT !["heartbeat"] = Waiting]
        /\ pc'["heartbeat"] \in {"sleep", "forget"}
        /\ pc'["caller"] = pc["caller"] /\ pc'["poll"] = pc["poll"]
    BY DEF Receive, TypeOK, Threads
  <2>2. RequestsFollowLabels /\ GrantsCarryTokens /\ TypeOK
    OBVIOUS
  <2> HIDE DEF IInv, RefreshReturns
  <2> QED
    BY <2>1, <2>2, RequestOps DEF TypeOK, Threads, RequestsFollowLabels,
       GrantsCarryTokens, OpAt
<1>7. SessionPlace' /\ ExitPlace'
  BY DEF TypeOK, Threads, SessionPlace, ExitPlace, ThreadsDone, IsJoined,
     MAX_RETRIES, MaxAttempts, ThreadsOwnLabels, CallerLabels, HeartbeatLabels,
     PollLabels, SessionCoherent, HeartbeatKeepsSession
<1>8. DeliveryPlace' /\ KnowledgeIsSeen'
  BY DEF TypeOK, Threads, DeliveryPlace, KnowledgeIsSeen, Root, Knowledge, Answer,
     Receive, Answered
<1>9. SessionCoherent' /\ HeartbeatKeepsSession' /\ DropAfterAttempts'
  BY DEF TypeOK, Threads, SessionCoherent, HeartbeatKeepsSession, DropAfterAttempts,
     SessionPlace, ExitPlace, ThreadsDone, IsJoined, NoToken, MAX_RETRIES,
     GrantsCarryTokens, RequestsFollowLabels, OpAt, Receive, Answered
<1> QED
  BY <1>4, <1>5, <1>6, <1>7, <1>8, <1>9

LEMMA BackoffEndsInv ==
    ASSUME IInv, BackoffEnds
    PROVE  IInv'
<1> USE DEF IInv, BackoffEnds, KeepsRunning, SetJoining
<1>1. req' \in [Threads -> Request] /\ ans' \in [Threads -> Answer]
  <2>1. "join" \in Ops /\ NoToken \in Tokens
    BY DEF TypeOK, Ops, Tokens, NoToken
  <2>2. Coauth("join", NoToken) \in Request
    BY <2>1, Constructors
  <2>3. Post("heartbeat", Coauth("join", NoToken)) \/ UNCHANGED wireVars
    OBVIOUS
  <2>4. TypeOK /\ "heartbeat" \in Threads
    BY DEF Threads
  <2> HIDE DEF IInv, BackoffEnds
  <2> QED
    BY <2>2, <2>3, <2>4, PostTyped DEF TypeOK, wireVars
<1>2. /\ pc' \in [Threads -> Labels]
      /\ pending' \in Seq(Delta) /\ batch' \in [Threads -> Seq(Delta)]
      /\ mine' \subseteq Delta /\ posted' \subseteq Delta
  <2>1. pc' \in [Threads -> Labels]
    BY DEF TypeOK, Threads, Labels
  <2> QED
    BY <2>1 DEF TypeOK
<1>3. /\ payload' \in [Threads -> Payload] /\ doc' \in Text /\ content' \in Text
      /\ knowledge' \in Knowledge /\ seen' \in Nat /\ version' \in Nat
      /\ skipped' \in BOOLEAN
  BY Constructors DEF TypeOK, Threads, Text
<1>4. TypeOK'
  BY <1>1, <1>2, <1>3, ClientAssumption DEF TypeOK, Threads, NoToken, States,
     MAX_RETRIES, MaxAttempts, SessionPlace, IsJoined
<1>5. ThreadsOwnLabels' /\ BatchHeld'
  BY DEF TypeOK, Threads, ThreadsOwnLabels, BatchHeld, CallerLabels,
     HeartbeatLabels, PollLabels
<1>6. RequestsFollowLabels' /\ GrantsCarryTokens'
  <2>3. Coauth("join", NoToken).op = "join"
    BY RequestOps DEF Ops, Tokens, NoToken
  <2>1. CASE running
    <3>1. OpAt("heartbeat")' = "join" /\ req'["heartbeat"].op = "join" /\ ans'["heartbeat"].kind # "ok"
      BY <2>1, <2>3, RequestOps DEF TypeOK, Threads, OpAt, Post
    <3>2. \A s \in {"caller", "poll"} :
             OpAt(s)' = OpAt(s) /\ req'[s].op = req[s].op /\ ans'[s] = ans[s]
      BY <2>1, <2>3, RequestOps DEF TypeOK, Threads, OpAt, Post
    <3> QED
      BY <3>1, <3>2 DEF RequestsFollowLabels, GrantsCarryTokens, Threads
  <2>2. CASE ~(running)
    BY <2>2, RequestOps DEF TypeOK, Threads, ThreadsOwnLabels, CallerLabels,
       HeartbeatLabels, PollLabels, RequestsFollowLabels, GrantsCarryTokens, OpAt
  <2> QED
    BY <2>1, <2>2
<1>7. SessionPlace' /\ ExitPlace'
  BY DEF TypeOK, Threads, SessionPlace, ExitPlace, ThreadsDone, IsJoined,
     MAX_RETRIES, MaxAttempts, ThreadsOwnLabels, CallerLabels, HeartbeatLabels,
     PollLabels, SessionCoherent, HeartbeatKeepsSession
<1>8. DeliveryPlace' /\ KnowledgeIsSeen'
  <2>1. DeliveryPlace'
    BY DEF TypeOK, Threads, DeliveryPlace, Knowledge, Answer, Post
  <2>2. KnowledgeIsSeen'
    BY DEF TypeOK, Threads, KnowledgeIsSeen, Root, Knowledge, Answer, Post
  <2> QED
    BY <2>1, <2>2
<1>9. SessionCoherent' /\ HeartbeatKeepsSession' /\ DropAfterAttempts'
  BY DEF TypeOK, Threads, SessionCoherent, HeartbeatKeepsSession, DropAfterAttempts,
     SessionPlace, ExitPlace, ThreadsDone, IsJoined, NoToken, MAX_RETRIES,
     GrantsCarryTokens, RequestsFollowLabels, OpAt
<1> QED
  BY <1>4, <1>5, <1>6, <1>7, <1>8, <1>9

LEMMA RejoinReturnsInv ==
    ASSUME IInv, RejoinReturns
    PROVE  IInv'
<1> USE DEF IInv, RejoinReturns, TokenGranted, JoinRefused, LastAttempt, AfterRefusal
<1>1. req' \in [Threads -> Request] /\ ans' \in [Threads -> Answer]
  BY Constructors, ClientAssumption DEF TypeOK, Threads, Ops, Tokens, NoToken,
     TokenRead, Torn, Receive, Answered
<1>2. /\ pc' \in [Threads -> Labels]
      /\ pending' \in Seq(Delta) /\ batch' \in [Threads -> Seq(Delta)]
      /\ mine' \subseteq Delta /\ posted' \subseteq Delta
  BY ClientAssumption DEF TypeOK, Threads, Labels, BatchHeld, Delta
<1>3. /\ payload' \in [Threads -> Payload] /\ doc' \in Text /\ content' \in Text
      /\ knowledge' \in Knowledge /\ seen' \in Nat /\ version' \in Nat
      /\ skipped' \in BOOLEAN
  BY Constructors DEF TypeOK, Threads, Text
<1>4. TypeOK'
  <2>1. ans["heartbeat"].tok \in Nat
    BY DEF TypeOK, Threads, Answer
  <2>2. /\ state' \in States /\ sessionToken' \in Nat
        /\ retryCount' \in 0 .. MAX_RETRIES
        /\ attempt' \in 0 .. MaxAttempts /\ dropped' \in BOOLEAN
    <3>1. CASE ans["heartbeat"].kind = "ok"
      BY <2>1, <3>1 DEF TypeOK, States, MAX_RETRIES
    <3>2. CASE ans["heartbeat"].kind # "ok"
      BY <3>2 DEF TypeOK, States, NoToken, SessionPlace, MaxAttempts
    <3> QED
      BY <3>1, <3>2
  <2>3. /\ running' \in BOOLEAN /\ online' \in BOOLEAN
        /\ faults' \in 0 .. MaxFaults /\ clock' \in 0 .. MaxEdits
        /\ member' \in Nat /\ granted' \in Nat
    BY DEF TypeOK
  <2> HIDE DEF IInv, RejoinReturns
  <2> QED
    BY <1>1, <1>2, <1>3, <2>2, <2>3 DEF TypeOK
<1>5. ThreadsOwnLabels' /\ BatchHeld'
  BY DEF TypeOK, Threads, ThreadsOwnLabels, BatchHeld, CallerLabels,
     HeartbeatLabels, PollLabels
<1>6. RequestsFollowLabels' /\ GrantsCarryTokens'
  <2>1. /\ req'["heartbeat"].op = "none" /\ ans'["heartbeat"].kind = "waiting"
        /\ pc'["heartbeat"] \in {"granted", "backoff", "done"}
    BY DEF TypeOK, Threads, Receive, NoRequest, Waiting
  <2>2. \A s \in {"caller", "poll"} : pc'[s] = pc[s] /\ req'[s] = req[s] /\ ans'[s] = ans[s]
    BY DEF TypeOK, Threads, Receive
  <2> HIDE DEF RejoinReturns
  <2> QED
    BY <2>1, <2>2 DEF Threads, RequestsFollowLabels, GrantsCarryTokens, OpAt
<1>7. SessionPlace' /\ ExitPlace'
  BY DEF TypeOK, Threads, SessionPlace, ExitPlace, ThreadsDone, IsJoined,
     MAX_RETRIES, MaxAttempts, ThreadsOwnLabels, CallerLabels, HeartbeatLabels,
     PollLabels, SessionCoherent, HeartbeatKeepsSession
<1>8. DeliveryPlace' /\ KnowledgeIsSeen'
  BY DEF TypeOK, Threads, DeliveryPlace, KnowledgeIsSeen, Root, Knowledge, Answer,
     Receive, Answered
<1>9. SessionCoherent' /\ HeartbeatKeepsSession' /\ DropAfterAttempts'
  BY DEF TypeOK, Threads, SessionCoherent, HeartbeatKeepsSession, DropAfterAttempts,
     SessionPlace, ExitPlace, ThreadsDone, IsJoined, NoToken, MAX_RETRIES,
     GrantsCarryTokens, RequestsFollowLabels, OpAt, Receive, Answered
<1> QED
  BY <1>4, <1>5, <1>6, <1>7, <1>8, <1>9

LEMMA ForgetTokenInv ==
    ASSUME IInv, ForgetToken
    PROVE  IInv'
<1> USE DEF IInv, ForgetToken, TokenForgotten
<1>1. req' \in [Threads -> Request] /\ ans' \in [Threads -> Answer]
  BY DEF TypeOK
<1>2. /\ pc' \in [Threads -> Labels]
      /\ pending' \in Seq(Delta) /\ batch' \in [Threads -> Seq(Delta)]
      /\ mine' \subseteq Delta /\ posted' \subseteq Delta
  BY ClientAssumption DEF TypeOK, Threads, Labels, BatchHeld, Delta
<1>3. /\ payload' \in [Threads -> Payload] /\ doc' \in Text /\ content' \in Text
      /\ knowledge' \in Knowledge /\ seen' \in Nat /\ version' \in Nat
      /\ skipped' \in BOOLEAN
  BY Constructors DEF TypeOK, Threads, Text
<1>4. TypeOK'
  BY <1>1, <1>2, <1>3, ClientAssumption DEF TypeOK, Threads, NoToken, States,
     MAX_RETRIES, MaxAttempts, SessionPlace, IsJoined
<1>5. ThreadsOwnLabels' /\ BatchHeld'
  BY DEF TypeOK, Threads, ThreadsOwnLabels, BatchHeld, CallerLabels,
     HeartbeatLabels, PollLabels
<1>6. RequestsFollowLabels' /\ GrantsCarryTokens'
  BY DEF TypeOK, Threads, ThreadsOwnLabels, CallerLabels, HeartbeatLabels,
     PollLabels, RequestsFollowLabels, GrantsCarryTokens, OpAt, NoRequest, Waiting,
     Coauth
<1>7. SessionPlace' /\ ExitPlace'
  BY DEF TypeOK, Threads, SessionPlace, ExitPlace, ThreadsDone, IsJoined,
     MAX_RETRIES, MaxAttempts, ThreadsOwnLabels, CallerLabels, HeartbeatLabels,
     PollLabels, SessionCoherent, HeartbeatKeepsSession
<1>8. DeliveryPlace' /\ KnowledgeIsSeen'
  BY DEF TypeOK, Threads, DeliveryPlace, KnowledgeIsSeen, Root, Knowledge, Answer
<1>9. SessionCoherent' /\ HeartbeatKeepsSession' /\ DropAfterAttempts'
  BY DEF TypeOK, Threads, SessionCoherent, HeartbeatKeepsSession, DropAfterAttempts,
     SessionPlace, ExitPlace, ThreadsDone, IsJoined, NoToken, MAX_RETRIES,
     GrantsCarryTokens, RequestsFollowLabels, OpAt
<1> QED
  BY <1>4, <1>5, <1>6, <1>7, <1>8, <1>9

LEMMA RejoinedInv ==
    ASSUME IInv, Rejoined
    PROVE  IInv'
<1> USE DEF IInv, Rejoined, SessionJoined
<1>1. req' \in [Threads -> Request] /\ ans' \in [Threads -> Answer]
  BY DEF TypeOK
<1>2. /\ pc' \in [Threads -> Labels]
      /\ pending' \in Seq(Delta) /\ batch' \in [Threads -> Seq(Delta)]
      /\ mine' \subseteq Delta /\ posted' \subseteq Delta
  BY ClientAssumption DEF TypeOK, Threads, Labels, BatchHeld, Delta
<1>3. /\ payload' \in [Threads -> Payload] /\ doc' \in Text /\ content' \in Text
      /\ knowledge' \in Knowledge /\ seen' \in Nat /\ version' \in Nat
      /\ skipped' \in BOOLEAN
  BY Constructors DEF TypeOK, Threads, Text
<1>4. TypeOK'
  BY <1>1, <1>2, <1>3, ClientAssumption DEF TypeOK, Threads, NoToken, States,
     MAX_RETRIES, MaxAttempts, SessionPlace, IsJoined
<1>5. ThreadsOwnLabels' /\ BatchHeld'
  BY DEF TypeOK, Threads, ThreadsOwnLabels, BatchHeld, CallerLabels,
     HeartbeatLabels, PollLabels
<1>6. RequestsFollowLabels' /\ GrantsCarryTokens'
  BY DEF TypeOK, Threads, ThreadsOwnLabels, CallerLabels, HeartbeatLabels,
     PollLabels, RequestsFollowLabels, GrantsCarryTokens, OpAt, NoRequest, Waiting,
     Coauth
<1>7. SessionPlace' /\ ExitPlace'
  BY DEF TypeOK, Threads, SessionPlace, ExitPlace, ThreadsDone, IsJoined,
     MAX_RETRIES, MaxAttempts, ThreadsOwnLabels, CallerLabels, HeartbeatLabels,
     PollLabels, SessionCoherent, HeartbeatKeepsSession
<1>8. DeliveryPlace' /\ KnowledgeIsSeen'
  BY DEF TypeOK, Threads, DeliveryPlace, KnowledgeIsSeen, Root, Knowledge, Answer
<1>9. SessionCoherent' /\ HeartbeatKeepsSession' /\ DropAfterAttempts'
  BY DEF TypeOK, Threads, SessionCoherent, HeartbeatKeepsSession, DropAfterAttempts,
     SessionPlace, ExitPlace, ThreadsDone, IsJoined, NoToken, MAX_RETRIES,
     GrantsCarryTokens, RequestsFollowLabels, OpAt
<1> QED
  BY <1>4, <1>5, <1>6, <1>7, <1>8, <1>9

LEMMA ClearKnowledgeInv ==
    ASSUME IInv, ClearKnowledge
    PROVE  IInv'
<1> USE DEF IInv, ClearKnowledge
<1>1. req' \in [Threads -> Request] /\ ans' \in [Threads -> Answer]
  BY DEF TypeOK
<1>2. /\ pc' \in [Threads -> Labels]
      /\ pending' \in Seq(Delta) /\ batch' \in [Threads -> Seq(Delta)]
      /\ mine' \subseteq Delta /\ posted' \subseteq Delta
  BY ClientAssumption DEF TypeOK, Threads, Labels, BatchHeld, Delta
<1>3. /\ payload' \in [Threads -> Payload] /\ doc' \in Text /\ content' \in Text
      /\ knowledge' \in Knowledge /\ seen' \in Nat /\ version' \in Nat
      /\ skipped' \in BOOLEAN
  BY Constructors DEF TypeOK, Threads, Text
<1>4. TypeOK'
  BY <1>1, <1>2, <1>3, ClientAssumption DEF TypeOK, Threads, NoToken, States,
     MAX_RETRIES, MaxAttempts, SessionPlace, IsJoined
<1>5. ThreadsOwnLabels' /\ BatchHeld'
  BY DEF TypeOK, Threads, ThreadsOwnLabels, BatchHeld, CallerLabels,
     HeartbeatLabels, PollLabels
<1>6. RequestsFollowLabels' /\ GrantsCarryTokens'
  BY DEF TypeOK, Threads, ThreadsOwnLabels, CallerLabels, HeartbeatLabels,
     PollLabels, RequestsFollowLabels, GrantsCarryTokens, OpAt, NoRequest, Waiting,
     Coauth
<1>7. SessionPlace' /\ ExitPlace'
  BY DEF TypeOK, Threads, SessionPlace, ExitPlace, ThreadsDone, IsJoined,
     MAX_RETRIES, MaxAttempts, ThreadsOwnLabels, CallerLabels, HeartbeatLabels,
     PollLabels, SessionCoherent, HeartbeatKeepsSession
<1>8. DeliveryPlace' /\ KnowledgeIsSeen'
  BY DEF TypeOK, Threads, DeliveryPlace, KnowledgeIsSeen, Root, Knowledge, Answer
<1>9. SessionCoherent' /\ HeartbeatKeepsSession' /\ DropAfterAttempts'
  BY DEF TypeOK, Threads, SessionCoherent, HeartbeatKeepsSession, DropAfterAttempts,
     SessionPlace, ExitPlace, ThreadsDone, IsJoined, NoToken, MAX_RETRIES,
     GrantsCarryTokens, RequestsFollowLabels, OpAt
<1> QED
  BY <1>4, <1>5, <1>6, <1>7, <1>8, <1>9

LEMMA PollWakesInv ==
    ASSUME IInv, PollWakes
    PROVE  IInv'
<1> USE DEF IInv, PollWakes, PollStops, KeepsRunning
<1>1. req' \in [Threads -> Request] /\ ans' \in [Threads -> Answer]
  <2>1. [req["poll"] EXCEPT !.know = knowledge] \in Request
    BY Constructors DEF TypeOK, Threads
  <2> QED
    BY <2>1 DEF TypeOK
<1>2. /\ pc' \in [Threads -> Labels]
      /\ pending' \in Seq(Delta) /\ batch' \in [Threads -> Seq(Delta)]
      /\ mine' \subseteq Delta /\ posted' \subseteq Delta
  <2>1. pc' \in [Threads -> Labels]
    BY DEF TypeOK, Labels
  <2>2. pending' \in Seq(Delta) /\ batch' \in [Threads -> Seq(Delta)]
    BY DEF TypeOK
  <2>3. mine' \subseteq Delta /\ posted' \subseteq Delta
    BY DEF TypeOK
  <2> QED
    BY <2>1, <2>2, <2>3
<1>3. /\ payload' \in [Threads -> Payload] /\ doc' \in Text /\ content' \in Text
      /\ knowledge' \in Knowledge /\ seen' \in Nat /\ version' \in Nat
      /\ skipped' \in BOOLEAN
  BY Constructors DEF TypeOK, Threads, Text
<1>4. TypeOK'
  BY <1>1, <1>2, <1>3, ClientAssumption DEF TypeOK, Threads, NoToken, States,
     MAX_RETRIES, MaxAttempts, SessionPlace, IsJoined
<1>5. ThreadsOwnLabels' /\ BatchHeld'
  BY DEF TypeOK, Threads, ThreadsOwnLabels, BatchHeld, CallerLabels,
     HeartbeatLabels, PollLabels
<1>6. RequestsFollowLabels' /\ GrantsCarryTokens'
  <2>3. [req["poll"] EXCEPT !.know = knowledge].op = req["poll"].op
    BY RequestOps DEF TypeOK, Threads
  <2>4. req["poll"].op = "none" /\ (req["poll"].op = "join" => FALSE)
    BY DEF RequestsFollowLabels, OpAt, Threads
  <2>1. CASE pc' = [pc EXCEPT !["poll"] = "ask"]
    <3>1. OpAt("poll")' = "none" /\ req'["poll"].op = "none" 
      BY <2>1, <2>3, <2>4, RequestOps DEF TypeOK, Threads, OpAt
    <3>2. \A s \in {"caller", "heartbeat"} :
             OpAt(s)' = OpAt(s) /\ req'[s].op = req[s].op /\ ans'[s] = ans[s]
      BY <2>1, <2>3, <2>4, RequestOps DEF TypeOK, Threads, OpAt
    <3> QED
      BY <3>1, <3>2 DEF RequestsFollowLabels, GrantsCarryTokens, Threads
  <2>2. CASE ~(pc' = [pc EXCEPT !["poll"] = "ask"])
    BY <2>4, <2>2, RequestOps DEF TypeOK, Threads, ThreadsOwnLabels, CallerLabels,
       HeartbeatLabels, PollLabels, RequestsFollowLabels, GrantsCarryTokens, OpAt
  <2> QED
    BY <2>1, <2>2
<1>7. SessionPlace' /\ ExitPlace'
  BY DEF TypeOK, Threads, SessionPlace, ExitPlace, ThreadsDone, IsJoined,
     MAX_RETRIES, MaxAttempts, ThreadsOwnLabels, CallerLabels, HeartbeatLabels,
     PollLabels, SessionCoherent, HeartbeatKeepsSession
<1>8. DeliveryPlace' /\ KnowledgeIsSeen'
  <2>1. pc["poll"] = "sleep" /\ (knowledge <= seen \/ skipped)
    BY DEF KnowledgeIsSeen
  <2>2. UNCHANGED <<knowledge, seen, skipped>>
    OBVIOUS
  <2>3. \/ pc'["poll"] = "done"
        \/ pc'["poll"] = "ask" /\ req'["poll"].know = knowledge
    <3>1. \/ pc'["poll"] = "done"
          \/ /\ pc'["poll"] = "ask"
             /\ req' = [req EXCEPT !["poll"] = [req["poll"] EXCEPT !.know = knowledge]]
      BY DEF TypeOK, Threads
    <3>2. "poll" \in DOMAIN req /\ req["poll"] \in Request /\ knowledge \in Knowledge
      BY DEF TypeOK, Threads
    <3> HIDE DEF IInv, PollWakes
    <3>3. [req["poll"] EXCEPT !.know = knowledge].know = knowledge
      BY <3>2, RequestOps
    <3> QED
      BY <3>1, <3>2, <3>3
  <2> HIDE DEF IInv, PollWakes
  <2> QED
    BY <2>1, <2>2, <2>3 DEF DeliveryPlace, KnowledgeIsSeen
<1>9. SessionCoherent' /\ HeartbeatKeepsSession' /\ DropAfterAttempts'
  BY DEF TypeOK, Threads, SessionCoherent, HeartbeatKeepsSession, DropAfterAttempts,
     SessionPlace, ExitPlace, ThreadsDone, IsJoined, NoToken, MAX_RETRIES,
     GrantsCarryTokens, RequestsFollowLabels, OpAt
<1> QED
  BY <1>4, <1>5, <1>6, <1>7, <1>8, <1>9

LEMMA GetChangesInv ==
    ASSUME IInv, GetChanges
    PROVE  IInv'
<1> USE DEF IInv, GetChanges
<1>1. req' \in [Threads -> Request] /\ ans' \in [Threads -> Answer]
  <2>1. PICK token \in TokenRead : Post("poll", [req["poll"] EXCEPT !.op = "get", !.tok = token])
    OBVIOUS
  <2>2. token \in Tokens
    BY <2>1 DEF TokenRead, Tokens, TypeOK, Torn
  <2>3. [req["poll"] EXCEPT !.op = "get", !.tok = token] \in Request
    BY <2>2, Constructors DEF TypeOK, Ops, Threads
  <2> QED
    BY <2>1, <2>3, Constructors DEF TypeOK, Post, Threads
<1>2. /\ pc' \in [Threads -> Labels]
      /\ pending' \in Seq(Delta) /\ batch' \in [Threads -> Seq(Delta)]
      /\ mine' \subseteq Delta /\ posted' \subseteq Delta
  BY ClientAssumption DEF TypeOK, Threads, Labels, BatchHeld, Delta
<1>3. /\ payload' \in [Threads -> Payload] /\ doc' \in Text /\ content' \in Text
      /\ knowledge' \in Knowledge /\ seen' \in Nat /\ version' \in Nat
      /\ skipped' \in BOOLEAN
  BY Constructors DEF TypeOK, Threads, Text
<1>4. TypeOK'
  BY <1>1, <1>2, <1>3, ClientAssumption DEF TypeOK, Threads, NoToken, States,
     MAX_RETRIES, MaxAttempts, SessionPlace, IsJoined
<1>5. ThreadsOwnLabels' /\ BatchHeld'
  BY DEF TypeOK, Threads, ThreadsOwnLabels, BatchHeld, CallerLabels,
     HeartbeatLabels, PollLabels
<1>6. RequestsFollowLabels' /\ GrantsCarryTokens'
  BY DEF TypeOK, Threads, ThreadsOwnLabels, CallerLabels, HeartbeatLabels,
     PollLabels, RequestsFollowLabels, GrantsCarryTokens, OpAt, NoRequest, Waiting,
     Coauth, Post
<1>7. SessionPlace' /\ ExitPlace'
  BY DEF TypeOK, Threads, SessionPlace, ExitPlace, ThreadsDone, IsJoined,
     MAX_RETRIES, MaxAttempts, ThreadsOwnLabels, CallerLabels, HeartbeatLabels,
     PollLabels, SessionCoherent, HeartbeatKeepsSession
<1>8. DeliveryPlace' /\ KnowledgeIsSeen'
  BY DEF TypeOK, Threads, DeliveryPlace, KnowledgeIsSeen, Root, Knowledge, Answer,
     Post
<1>9. SessionCoherent' /\ HeartbeatKeepsSession' /\ DropAfterAttempts'
  BY DEF TypeOK, Threads, SessionCoherent, HeartbeatKeepsSession, DropAfterAttempts,
     SessionPlace, ExitPlace, ThreadsDone, IsJoined, NoToken, MAX_RETRIES,
     GrantsCarryTokens, RequestsFollowLabels, OpAt
<1> QED
  BY <1>4, <1>5, <1>6, <1>7, <1>8, <1>9

LEMMA ChangesArriveInv ==
    ASSUME IInv, ChangesArrive
    PROVE  IInv'
<1> USE DEF IInv, ChangesArrive
<1>1. req' \in [Threads -> Request] /\ ans' \in [Threads -> Answer]
  <2>1. Receive("poll") \/ UNCHANGED wireVars
    OBVIOUS
  <2>2. TypeOK /\ "poll" \in Threads
    BY DEF Threads
  <2> HIDE DEF IInv, ChangesArrive
  <2> QED
    BY <2>1, <2>2, ReceiveTyped DEF TypeOK, wireVars
<1>2. /\ pc' \in [Threads -> Labels]
      /\ pending' \in Seq(Delta) /\ batch' \in [Threads -> Seq(Delta)]
      /\ mine' \subseteq Delta /\ posted' \subseteq Delta
  <2>1. pc' \in [Threads -> Labels]
    BY DEF TypeOK, Labels
  <2>2. pending' = pending /\ batch' = batch /\ mine' = mine /\ posted' = posted
    OBVIOUS
  <2> HIDE DEF IInv, ChangesArrive
  <2>3. TypeOK
    BY DEF IInv
  <2> QED
    BY <2>1, <2>2, <2>3 DEF TypeOK
<1>3. /\ payload' \in [Threads -> Payload] /\ doc' \in Text /\ content' \in Text
      /\ knowledge' \in Knowledge /\ seen' \in Nat /\ version' \in Nat
      /\ skipped' \in BOOLEAN
  <2>1. ans["poll"].ver \in Knowledge
    BY DEF TypeOK, Threads, Answer, Knowledge
  <2> QED
    BY <2>1 DEF TypeOK
<1>4. TypeOK'
  BY <1>1, <1>2, <1>3, ClientAssumption DEF TypeOK, Threads, NoToken, States,
     MAX_RETRIES, MaxAttempts, SessionPlace, IsJoined
<1>5. ThreadsOwnLabels' /\ BatchHeld'
  BY DEF TypeOK, Threads, ThreadsOwnLabels, BatchHeld, CallerLabels,
     HeartbeatLabels, PollLabels
<1>6. RequestsFollowLabels' /\ GrantsCarryTokens'
  BY DEF TypeOK, Threads, ThreadsOwnLabels, CallerLabels, HeartbeatLabels,
     PollLabels, RequestsFollowLabels, GrantsCarryTokens, OpAt, NoRequest, Waiting,
     Coauth, Receive, Answered
<1>7. SessionPlace' /\ ExitPlace'
  BY DEF TypeOK, Threads, SessionPlace, ExitPlace, ThreadsDone, IsJoined,
     MAX_RETRIES, MaxAttempts, ThreadsOwnLabels, CallerLabels, HeartbeatLabels,
     PollLabels, SessionCoherent, HeartbeatKeepsSession
<1>8. DeliveryPlace' /\ KnowledgeIsSeen'
  <2>1. /\ pc["poll"] = "get" /\ (knowledge <= seen \/ skipped)
        /\ (req["poll"].know <= seen \/ skipped)
    BY DEF KnowledgeIsSeen, DeliveryPlace
  <2>2. seen' = seen /\ skipped' = (skipped \/ ans["poll"].kind = "cut")
    OBVIOUS
  <2>3. CASE ans["poll"].kind \in {"ok", "cut"}
    <3>1. /\ pc'["poll"] = "deliver" /\ UNCHANGED <<req, ans>>
          /\ knowledge' = ans["poll"].ver
      BY <2>3 DEF TypeOK, Threads
    <3>2. ans["poll"].ver \in Nat
      BY DEF TypeOK, Threads, Answer
    <3> HIDE DEF IInv, ChangesArrive
    <3>3. knowledge' <= ans["poll"].ver
      BY <3>1, <3>2
    <3>4. skipped => skipped'
      BY <2>2
    <3>5. ans["poll"].kind = "cut" => skipped'
      BY <2>2
    <3>6. req'["poll"].know = req["poll"].know /\ ans'["poll"] = ans["poll"]
      BY <3>1
    <3>7. req'["poll"].know <= seen' \/ skipped'
      BY <2>1, <2>2, <3>4, <3>6
    <3> QED
      BY <2>3, <3>1, <3>3, <3>5, <3>6, <3>7 DEF DeliveryPlace, KnowledgeIsSeen
  <2>4. CASE ~(ans["poll"].kind \in {"ok", "cut"})
    <3>1. pc'["poll"] = "sleep" /\ knowledge' = knowledge
      BY <2>4 DEF TypeOK, Threads
    <3> HIDE DEF IInv, ChangesArrive
    <3> QED
      BY <2>1, <2>2, <2>4, <3>1 DEF DeliveryPlace, KnowledgeIsSeen
  <2> QED
    BY <2>3, <2>4
<1>9. SessionCoherent' /\ HeartbeatKeepsSession' /\ DropAfterAttempts'
  BY DEF TypeOK, Threads, SessionCoherent, HeartbeatKeepsSession, DropAfterAttempts,
     SessionPlace, ExitPlace, ThreadsDone, IsJoined, NoToken, MAX_RETRIES,
     GrantsCarryTokens, RequestsFollowLabels, OpAt, Receive, Answered
<1> QED
  BY <1>4, <1>5, <1>6, <1>7, <1>8, <1>9

LEMMA DeliverChangesInv ==
    ASSUME IInv, DeliverChanges
    PROVE  IInv'
<1> USE DEF IInv, DeliverChanges, Handed, CatchesUp
<1>1. req' \in [Threads -> Request] /\ ans' \in [Threads -> Answer]
  BY Constructors, ClientAssumption DEF TypeOK, Threads, Ops, Tokens, NoToken,
     TokenRead, Torn, Receive, Answered
<1>2. /\ pc' \in [Threads -> Labels]
      /\ pending' \in Seq(Delta) /\ batch' \in [Threads -> Seq(Delta)]
      /\ mine' \subseteq Delta /\ posted' \subseteq Delta
  BY ClientAssumption DEF TypeOK, Threads, Labels, BatchHeld, Delta
<1>3. /\ payload' \in [Threads -> Payload] /\ doc' \in Text /\ content' \in Text
      /\ knowledge' \in Knowledge /\ seen' \in Nat /\ version' \in Nat
      /\ skipped' \in BOOLEAN
  <2>1. ans["poll"].ver \in Nat
    BY DEF TypeOK, Threads, Answer
  <2> QED
    BY <2>1 DEF TypeOK
<1>4. TypeOK'
  BY <1>1, <1>2, <1>3, ClientAssumption DEF TypeOK, Threads, NoToken, States,
     MAX_RETRIES, MaxAttempts, SessionPlace, IsJoined
<1>5. ThreadsOwnLabels' /\ BatchHeld'
  BY DEF TypeOK, Threads, ThreadsOwnLabels, BatchHeld, CallerLabels,
     HeartbeatLabels, PollLabels
<1>6. RequestsFollowLabels' /\ GrantsCarryTokens'
  BY DEF TypeOK, Threads, ThreadsOwnLabels, CallerLabels, HeartbeatLabels,
     PollLabels, RequestsFollowLabels, GrantsCarryTokens, OpAt, NoRequest, Waiting,
     Coauth, Receive, Answered
<1>7. SessionPlace' /\ ExitPlace'
  BY DEF TypeOK, Threads, SessionPlace, ExitPlace, ThreadsDone, IsJoined,
     MAX_RETRIES, MaxAttempts, ThreadsOwnLabels, CallerLabels, HeartbeatLabels,
     PollLabels, SessionCoherent, HeartbeatKeepsSession
<1>8. DeliveryPlace' /\ KnowledgeIsSeen'
  BY DEF TypeOK, Threads, DeliveryPlace, KnowledgeIsSeen, Root, Knowledge, Answer,
     Receive, Answered
<1>9. SessionCoherent' /\ HeartbeatKeepsSession' /\ DropAfterAttempts'
  BY DEF TypeOK, Threads, SessionCoherent, HeartbeatKeepsSession, DropAfterAttempts,
     SessionPlace, ExitPlace, ThreadsDone, IsJoined, NoToken, MAX_RETRIES,
     GrantsCarryTokens, RequestsFollowLabels, OpAt, Receive, Answered
<1> QED
  BY <1>4, <1>5, <1>6, <1>7, <1>8, <1>9

-----------------------------------------------------------------------------
(* The environment touches none of the client's own state.                 *)

LEMMA ServeInv ==
    ASSUME IInv, NEW t \in Threads, Serve(t)
    PROVE  IInv'
<1> USE DEF IInv, Serve
<1>1. PICK a \in Answer : /\ ans' = [ans EXCEPT ![t] = a]
                          /\ req[t].op = "join" /\ a.kind = "ok" => a.tok # NoToken
                          /\ req[t].op # "none" /\ ans[t].kind = "waiting"
  <2>1. CASE ServeJoin(t)
    <3>1. CASE Reply(t, [kind |-> "ok", tok |-> granted + 1, ver |-> 0])
      <4>1. /\ [kind |-> "ok", tok |-> granted + 1, ver |-> 0] \in Answer
            /\ granted + 1 # NoToken
        BY DEF TypeOK, Answer, NoToken
      <4> QED
        BY <2>1, <3>1, <4>1 DEF ServeJoin, Waits, Reply
    <3>2. CASE Reply(t, Refused)
      BY <2>1, <3>2, Constructors DEF ServeJoin, Waits, Reply, Refused, Waiting
    <3> QED
      BY <2>1, <3>1, <3>2 DEF ServeJoin
  <2>2. CASE ServeRefresh(t) \/ ServeExit(t) \/ ServePut(t)
    <3>1. PICK a \in {[Waiting EXCEPT !.kind = "ok"], Refused} : Reply(t, a)
      BY <2>2 DEF ServeRefresh, ServeExit, ServePut
    <3>2. a \in Answer
      BY <3>1, Constructors DEF Answer
    <3>3. req[t].op # "none" /\ req[t].op # "join" /\ ans[t].kind = "waiting"
      BY <2>2 DEF ServeRefresh, ServeExit, ServePut, Waits
    <3> QED
      BY <3>1, <3>2, <3>3 DEF Reply
  <2>3. CASE ServeGet(t)
    <3>1. PICK a \in {[kind |-> "ok", tok |-> member, ver |-> version], Refused} : Reply(t, a)
      BY <2>3 DEF ServeGet
    <3>4. [kind |-> "ok", tok |-> member, ver |-> version] \in Answer
      BY DEF Answer, TypeOK
    <3>2. a \in Answer
      BY <3>1, <3>4, Constructors
    <3>3. req[t].op = "get" /\ ans[t].kind = "waiting"
      BY <2>3 DEF ServeGet, Waits
    <3> QED
      BY <3>1, <3>2, <3>3 DEF Reply
  <2> QED
    BY <2>1, <2>2, <2>3 DEF Serve
<1>2. /\ faults' \in 0 .. MaxFaults /\ member' \in Nat /\ granted' \in Nat
      /\ content' \in Text /\ version' \in Nat
  <2>1. faults' \in 0 .. MaxFaults
    BY ClientAssumption DEF TypeOK, ServeJoin, ServeRefresh, ServeExit, ServePut,
       ServeGet, Fault, NoFault
  <2>2. member' \in Nat /\ granted' \in Nat
    BY DEF TypeOK, ServeJoin, ServeRefresh, ServeExit, ServePut, ServeGet, NoToken
  <2>3. version' \in Nat
    BY DEF TypeOK, ServeJoin, ServeRefresh, ServeExit, ServePut, ServeGet
  <2>4. content' \in Text
    <3>1. req[t].put.text \in Text
      BY DEF TypeOK, Request, Payload
    <3>2. CASE content' = content
      BY <3>2 DEF TypeOK
    <3>3. CASE content' = [k \in Keys |-> IF k \in req[t].put.part
                                          THEN req[t].put.text[k] ELSE content[k]]
      BY <3>1, <3>3 DEF TypeOK, Text
    <3> QED
      BY <3>2, <3>3 DEF ServeJoin, ServeRefresh, ServeExit, ServePut, ServeGet
  <2> QED
    BY <2>1, <2>2, <2>3, <2>4
<1>3. TypeOK'
  BY <1>1, <1>2 DEF TypeOK
<1>4. RequestsFollowLabels' /\ GrantsCarryTokens'
  BY <1>1 DEF TypeOK, RequestsFollowLabels, GrantsCarryTokens, OpAt
<1>5. DeliveryPlace'
  BY <1>1 DEF TypeOK, DeliveryPlace, Threads
<1> QED
  BY <1>3, <1>4, <1>5 DEF ThreadsOwnLabels, BatchHeld, SessionPlace, ExitPlace,
     ThreadsDone, SessionCoherent, HeartbeatKeepsSession, DropAfterAttempts,
     KnowledgeIsSeen, IsJoined

LEMMA LoseInv ==
    ASSUME IInv, NEW t \in Threads, Lose(t)
    PROVE  IInv'
<1> USE DEF IInv, Lose, Reply
<1>1. Lost \in Answer /\ Lost.kind = "none"
  BY Constructors DEF Lost, Waiting
<1>2. TypeOK'
  BY <1>1 DEF TypeOK
<1>3. RequestsFollowLabels' /\ GrantsCarryTokens' /\ DeliveryPlace'
  BY <1>1 DEF TypeOK, RequestsFollowLabels, GrantsCarryTokens, OpAt, DeliveryPlace,
     Threads
<1> QED
  BY <1>2, <1>3 DEF ThreadsOwnLabels, BatchHeld, SessionPlace, ExitPlace,
     ThreadsDone, SessionCoherent, HeartbeatKeepsSession, DropAfterAttempts,
     KnowledgeIsSeen, IsJoined

\* What happens to one request: its answer is cut off, its token call hangs or ends.
Mishap(t) == Cut(t) \/ TokenCallHangs(t) \/ TokenCallEnds(t)

LEMMA MishapInv ==
    ASSUME IInv, NEW t \in Threads, Mishap(t)
    PROVE  IInv'
<1> USE DEF IInv
<1>1. PICK a \in Answer : ans' = [ans EXCEPT ![t] = a] /\ a.kind # "ok"
                          /\ (t = "poll" => pc["poll"] # "deliver")
  <2>1. CASE Cut(t)
    <3>1. [ans[t] EXCEPT !.kind = "cut"] \in Answer
      BY DEF TypeOK, Answer
    <3>2. [ans[t] EXCEPT !.kind = "cut"].kind # "ok"
      BY DEF TypeOK, Answer
    <3> QED
      BY <2>1, <3>1, <3>2 DEF Cut, Reply
  <2>2. CASE TokenCallHangs(t)
    <3>1. [Waiting EXCEPT !.kind = "stuck"] \in Answer /\ [Waiting EXCEPT !.kind = "stuck"].kind # "ok"
      BY DEF Waiting, Answer, NoToken
    <3>2. t = "poll" => pc["poll"] # "deliver"
      BY <2>2 DEF TokenCallHangs, DeliveryPlace
    <3> QED
      BY <2>2, <3>1, <3>2 DEF TokenCallHangs, Reply
  <2>3. CASE TokenCallEnds(t)
    <3>1. t = "poll" => pc["poll"] # "deliver"
      BY <2>3 DEF TokenCallEnds, Stuck, DeliveryPlace
    <3> QED
      BY <2>3, <3>1, Constructors, RequestOps DEF TokenCallEnds, Reply
  <2> QED
    BY <2>1, <2>2, <2>3 DEF Mishap
<1>2. faults' \in 0 .. MaxFaults
  BY ClientAssumption DEF TypeOK, Mishap, Cut, TokenCallHangs, TokenCallEnds, Fault
<1>3. UNCHANGED <<clientVars, req, online, serverVars, clock>>
  BY DEF Mishap, Cut, TokenCallHangs, TokenCallEnds
<1>4. TypeOK'
  BY <1>1, <1>2, <1>3 DEF TypeOK
<1>5. RequestsFollowLabels' /\ GrantsCarryTokens' /\ DeliveryPlace'
  BY <1>1, <1>3 DEF TypeOK, RequestsFollowLabels, GrantsCarryTokens, OpAt,
     DeliveryPlace, Threads
<1> QED
  BY <1>3, <1>4, <1>5 DEF ThreadsOwnLabels, BatchHeld, SessionPlace, ExitPlace,
     ThreadsDone, SessionCoherent, HeartbeatKeepsSession, DropAfterAttempts,
     KnowledgeIsSeen, IsJoined

LEMMA EnvironmentInv ==
    ASSUME IInv, Environment
    PROVE  IInv'
<1> USE DEF IInv
<1>3. CASE \E t \in Threads : Mishap(t)
  BY <1>3, MishapInv DEF IInv
<1>4. CASE NetworkFails \/ NetworkRecovers \/ ServerForgets \/ \E k \in Keys : RemoteEdit(k)
  <2>1. TypeOK'
    <3>1. CASE NetworkFails \/ NetworkRecovers \/ ServerForgets
      <4>1. faults' \in 0 .. MaxFaults /\ member' \in Nat
        BY <3>1, ClientAssumption DEF TypeOK, NetworkFails, NetworkRecovers,
           ServerForgets, Fault, NoToken
      <4>2. online' \in BOOLEAN
        BY <3>1 DEF TypeOK, NetworkFails, NetworkRecovers, ServerForgets
      <4>3. UNCHANGED <<clientVars, wireVars, granted, content, version, clock>>
        BY <3>1 DEF NetworkFails, NetworkRecovers, ServerForgets
      <4> QED
        BY <4>1, <4>2, <4>3 DEF TypeOK
    <3>2. CASE \E k \in Keys : RemoteEdit(k)
      BY <3>2, ClientAssumption DEF TypeOK, RemoteEdit, Text, Stamps
    <3> QED
      BY <1>4, <3>1, <3>2
  <2>2. UNCHANGED <<clientVars, wireVars>>
    BY <1>4 DEF NetworkFails, NetworkRecovers, ServerForgets, RemoteEdit
  <2> QED
    BY <2>1, <2>2 DEF ThreadsOwnLabels, RequestsFollowLabels, GrantsCarryTokens, OpAt,
       BatchHeld, SessionPlace, ExitPlace, ThreadsDone, DeliveryPlace,
       SessionCoherent, HeartbeatKeepsSession, DropAfterAttempts, KnowledgeIsSeen,
       IsJoined
<1> QED
  BY <1>3, <1>4 DEF Environment, Mishap

LEMMA StutterInv ==
    ASSUME IInv, UNCHANGED vars
    PROVE  IInv'
<1>1. TypeOK'
  BY DEF IInv, vars, TypeOK
<1>2. ThreadsOwnLabels' /\ RequestsFollowLabels' /\ GrantsCarryTokens' /\ BatchHeld'
  BY DEF IInv, vars, ThreadsOwnLabels, RequestsFollowLabels, GrantsCarryTokens, OpAt,
     BatchHeld
<1>3. SessionPlace' /\ ExitPlace' /\ DeliveryPlace' /\ KnowledgeIsSeen'
  BY DEF IInv, vars, SessionPlace, ExitPlace, ThreadsDone, IsJoined, DeliveryPlace,
     KnowledgeIsSeen
<1>4. SessionCoherent' /\ HeartbeatKeepsSession' /\ DropAfterAttempts'
  BY DEF IInv, vars, SessionCoherent, HeartbeatKeepsSession, DropAfterAttempts, IsJoined
<1> QED
  BY <1>1, <1>2, <1>3, <1>4 DEF IInv

-----------------------------------------------------------------------------
(* The invariant and what it gives.                                        *)

LEMMA InitInv == Init => IInv
<1> SUFFICES ASSUME Init PROVE IInv
  OBVIOUS
<1>1. TypeOK
  BY TypeInit
<1> QED
  BY <1>1, RequestOps DEF Init, SessionInit, IInv, ThreadsOwnLabels,
     RequestsFollowLabels, GrantsCarryTokens, OpAt, BatchHeld, SessionPlace,
     ExitPlace, ThreadsDone, DeliveryPlace, SessionCoherent, HeartbeatKeepsSession,
     DropAfterAttempts, KnowledgeIsSeen, IsJoined, Threads, CallerLabels,
     HeartbeatLabels, PollLabels, Root, NoToken

LEMMA NextInv == IInv /\ [Next]_vars => IInv'
<1> SUFFICES ASSUME IInv, [Next]_vars PROVE IInv'
  OBVIOUS
<1>1. CASE Editor
  BY <1>1, JoinSessionInv, ExitSessionInv, SendDeltaInv DEF Editor
<1>2. CASE \E t \in {"caller", "heartbeat"} : Flush(t)
  BY <1>2, SwapPendingInv, ApplyDeltaInv, PutChangesInv, PutReturnsInv DEF Flush
<1>3. CASE Caller
  BY <1>2, <1>3, JoinReturnsInv, QueueDeltaInv, ThreadsJoinedInv, ExitReturnsInv DEF
     Caller
<1>4. CASE Heartbeat
  BY <1>2, <1>4, HeartbeatWakesInv, RefreshReturnsInv, ForgetTokenInv, BackoffEndsInv,
     RejoinReturnsInv, RejoinedInv, ClearKnowledgeInv DEF Heartbeat
<1>5. CASE Poll
  BY <1>5, PollWakesInv, GetChangesInv, ChangesArriveInv, DeliverChangesInv DEF Poll
<1>6. CASE \E t \in Threads : Wire(t)
  BY <1>6, ServeInv, LoseInv DEF Wire
<1>7. CASE Environment
  BY <1>7, EnvironmentInv
<1>8. CASE Closed \/ UNCHANGED vars
  BY <1>8, StutterInv DEF Closed
<1> QED
  BY <1>1, <1>3, <1>4, <1>5, <1>6, <1>7, <1>8 DEF Next

THEOREM Inductive == Spec => []IInv
BY InitInv, NextInv, PTL DEF Spec

\* Every variable keeps its type: retries and rejoin attempts stay within their limits.
THEOREM TypeCorrect == Spec => []TypeOK
<1>1. IInv => TypeOK
  BY DEF IInv
<1> QED
  BY <1>1, Inductive, PTL

\* FsshttpSession holds a token exactly while it is joined, whichever thread moved it.
THEOREM TokenIffJoined == Spec => []SessionCoherent
<1>1. IInv => SessionCoherent
  BY DEF IInv
<1> QED
  BY <1>1, Inductive, PTL

\* heartbeatLoop never sleeps, refreshes or flushes on a session that is lost.
THEOREM NoSilentLoss == Spec => []HeartbeatKeepsSession
<1>1. IInv => HeartbeatKeepsSession
  BY DEF IInv
<1> QED
  BY <1>1, Inductive, PTL

\* exitSession's request is the last thing the client does.
THEOREM NothingAfterExit == Spec => []ExitIsLast
<1>1. IInv => ExitIsLast
  BY DEF IInv, ExitIsLast, ExitPlace, ThreadsDone, RequestsFollowLabels, OpAt,
     Threads
<1> QED
  BY <1>1, Inductive, PTL

\* onSessionDropped comes of three refused rejoins, or of an exit.
THEOREM DropsAreEarned == Spec => []DropAfterAttempts
<1>1. IInv => DropAfterAttempts
  BY DEF IInv
<1> QED
  BY <1>1, Inductive, PTL

\* The knowledge sent with GetChanges covers only changes the editor was handed,
\* unless an answer that was cut off behind its knowledge has left a gap.
THEOREM NothingSkipped == Spec => []KnowledgeIsSeen
<1>1. IInv => KnowledgeIsSeen
  BY DEF IInv
<1> QED
  BY <1>1, Inductive, PTL

\* A client reported dropped never joins again.
THEOREM DropStays == Spec => DropIsFinal
<1>1. IInv /\ IInv' /\ [Next]_vars => [dropped => dropped' /\ ~IsJoined']_vars
  <2> SUFFICES ASSUME IInv, IInv', [Next]_vars, dropped PROVE dropped' /\ ~IsJoined'
    BY DEF vars
  <2>1. pc["heartbeat"] = "done"
    BY DEF IInv, SessionPlace
  <2>2. dropped'
    BY <2>1 DEF IInv, SessionPlace, Next, Editor, Caller, Heartbeat, Poll, Wire,
       Environment, Closed, vars, Flush, JoinSession, ExitSession, SendDelta,
       SwapPending, ApplyDelta, PutChanges, PutReturns, JoinReturns, QueueDelta,
       ThreadsJoined, ExitReturns, HeartbeatWakes, RefreshReturns, BackoffEnds,
       ForgetToken, RejoinReturns, Rejoined, ClearKnowledge, PollWakes, GetChanges,
       ChangesArrive, DeliverChanges, Serve, Lose, NetworkFails, NetworkRecovers,
       ServerForgets, RemoteEdit, Cut, TokenCallHangs, TokenCallEnds
  <2> QED
    BY <2>2 DEF IInv, SessionPlace, IsJoined
<1> QED
  BY <1>1, Inductive, PTL DEF Spec, DropIsFinal

-----------------------------------------------------------------------------
(* The deltas: their inductive invariant.                                  *)

Flushing == {"swap", "apply", "issue", "put"}

\* Only a thread with a delta to send holds any, a caller that queues has one,
\* and none is sent before the threads run.
BatchPlace ==
    /\ batch["poll"] = <<>>
    /\ \A t \in {"caller", "heartbeat"} :
          batch[t] # <<>> => pc[t] \in {"apply", "issue", "put", "push"}
    /\ pc["caller"] = "push" => Len(batch["caller"]) = 1
    /\ pc["caller"] \in Flushing => pc["heartbeat"] # "off"

NoRepeats(q) == \A i, j \in DOMAIN q : q[i] = q[j] => i = j

\* Every accepted delta is in one place, and there once; stamps are not reused.
OnePlace ==
    /\ mine = posted \cup SeqSet(pending) \cup SeqSet(batch["caller"])
                     \cup SeqSet(batch["heartbeat"])
    /\ posted \cap SeqSet(pending) = {}
    /\ \A t \in {"caller", "heartbeat"} :
          SeqSet(batch[t]) \cap (posted \cup SeqSet(pending)) = {}
    /\ SeqSet(batch["caller"]) \cap SeqSet(batch["heartbeat"]) = {}
    /\ NoRepeats(pending) /\ NoRepeats(batch["caller"]) /\ NoRepeats(batch["heartbeat"])
    /\ \A d \in mine : d.stamp <= clock
    /\ IsFiniteSet(mine)

ChannelInv == BatchPlace /\ OnePlace

-----------------------------------------------------------------------------
(* Sequences without repetition and their elements.                        *)

LEMMA NothingInEmpty == SeqSet(<<>>) = {} /\ NoRepeats(<<>>)
BY DEF SeqSet, NoRepeats

LEMMA OneInSingle ==
    ASSUME NEW d PROVE SeqSet(<<d>>) = {d} /\ NoRepeats(<<d>>)
BY DEF SeqSet, NoRepeats

LEMMA HeadAndTail ==
    ASSUME NEW S, NEW q \in Seq(S), q # <<>>, NoRepeats(q)
    PROVE  /\ SeqSet(q) = {Head(q)} \cup SeqSet(Tail(q))
           /\ Head(q) \notin SeqSet(Tail(q))
           /\ NoRepeats(Tail(q))
<1>1. /\ Len(q) \in Nat /\ Len(q) >= 1 /\ DOMAIN q = 1 .. Len(q)
      /\ Tail(q) \in Seq(S) /\ Len(Tail(q)) = Len(q) - 1
      /\ DOMAIN Tail(q) = 1 .. Len(q) - 1
      /\ Head(q) = q[1]
      /\ \A i \in 1 .. Len(q) - 1 : Tail(q)[i] = q[i + 1]
  OBVIOUS
<1>2. \A i \in DOMAIN q : i = 1 \/ (i - 1 \in DOMAIN Tail(q) /\ Tail(q)[i - 1] = q[i])
  BY <1>1
<1>3. SeqSet(q) = {Head(q)} \cup SeqSet(Tail(q))
  <2>1. ASSUME NEW x \in SeqSet(q) PROVE x \in {Head(q)} \cup SeqSet(Tail(q))
    <3>1. PICK i \in DOMAIN q : x = q[i]
      BY DEF SeqSet
    <3> QED
      BY <1>1, <1>2, <3>1 DEF SeqSet
  <2>2. ASSUME NEW x \in {Head(q)} \cup SeqSet(Tail(q)) PROVE x \in SeqSet(q)
    <3>1. CASE x = Head(q)
      BY <1>1, <3>1 DEF SeqSet
    <3>2. CASE x \in SeqSet(Tail(q))
      <4>1. PICK i \in DOMAIN Tail(q) : x = Tail(q)[i]
        BY <3>2 DEF SeqSet
      <4>2. i + 1 \in DOMAIN q /\ x = q[i + 1]
        BY <1>1, <4>1
      <4> QED
        BY <4>2 DEF SeqSet
    <3> QED
      BY <3>1, <3>2
  <2> QED
    BY <2>1, <2>2
<1>4. Head(q) \notin SeqSet(Tail(q))
  BY <1>1 DEF SeqSet, NoRepeats
<1>5. NoRepeats(Tail(q))
  <2> SUFFICES ASSUME NEW i \in DOMAIN Tail(q), NEW j \in DOMAIN Tail(q),
                      Tail(q)[i] = Tail(q)[j]
               PROVE  i = j
    BY DEF NoRepeats
  <2>1. i + 1 \in DOMAIN q /\ j + 1 \in DOMAIN q /\ q[i + 1] = q[j + 1]
    BY <1>1
  <2> QED
    BY <1>1, <2>1 DEF NoRepeats
<1> QED
  BY <1>3, <1>4, <1>5

LEMMA Appended ==
    ASSUME NEW S, NEW q \in Seq(S), NEW d \in S, NoRepeats(q), d \notin SeqSet(q)
    PROVE  SeqSet(Append(q, d)) = SeqSet(q) \cup {d} /\ NoRepeats(Append(q, d))
<1> DEFINE a == Append(q, d)
<1>1. /\ Len(q) \in Nat /\ DOMAIN q = 1 .. Len(q) /\ DOMAIN a = 1 .. Len(q) + 1
      /\ \A i \in 1 .. Len(q) : a[i] = q[i]
      /\ a[Len(q) + 1] = d
  OBVIOUS
<1> HIDE DEF a
<1>2. SeqSet(a) = SeqSet(q) \cup {d}
  <2>1. ASSUME NEW x \in SeqSet(a) PROVE x \in SeqSet(q) \cup {d}
    <3>1. PICK i \in DOMAIN a : x = a[i]
      BY DEF SeqSet
    <3>2. i \in DOMAIN q \/ i = Len(q) + 1
      BY <1>1
    <3> QED
      BY <1>1, <3>1, <3>2 DEF SeqSet
  <2>2. ASSUME NEW x \in SeqSet(q) \cup {d} PROVE x \in SeqSet(a)
    <3>1. CASE x = d
      BY <1>1, <3>1 DEF SeqSet
    <3>2. CASE x \in SeqSet(q)
      <4>1. PICK i \in DOMAIN q : x = q[i]
        BY <3>2 DEF SeqSet
      <4>2. i \in DOMAIN a /\ x = a[i]
        BY <1>1, <4>1
      <4> QED
        BY <4>2 DEF SeqSet
    <3> QED
      BY <3>1, <3>2
  <2> QED
    BY <2>1, <2>2
<1>3. NoRepeats(a)
  <2> SUFFICES ASSUME NEW i \in DOMAIN a, NEW j \in DOMAIN a, a[i] = a[j] PROVE i = j
    BY DEF NoRepeats
  <2>1. \A k \in DOMAIN q : a[k] # d
    BY <1>1 DEF SeqSet
  <2> QED
    BY <1>1, <2>1 DEF NoRepeats
<1> QED
  BY <1>2, <1>3 DEF a

LEMMA AsManyAsLong ==
    ASSUME NEW S, NEW q \in Seq(S), NoRepeats(q)
    PROVE  IsFiniteSet(SeqSet(q)) /\ Cardinality(SeqSet(q)) = Len(q)
<1>1. Len(q) \in Nat /\ DOMAIN q = 1 .. Len(q)
  OBVIOUS
<1>2. IsFiniteSet(1 .. Len(q)) /\ Cardinality(1 .. Len(q)) = Len(q)
  BY <1>1, FS_Interval
<1>3. q \in Bijection(1 .. Len(q), SeqSet(q))
  BY <1>1 DEF Bijection, Injection, Surjection, IsInjective, SeqSet, NoRepeats
<1>4. ExistsBijection(1 .. Len(q), SeqSet(q))
  BY <1>3 DEF ExistsBijection
<1> QED
  BY <1>2, <1>4, FS_Bijection

-----------------------------------------------------------------------------
(* The invariant is inductive.  Only the actions of sendDelta and of a     *)
(* flush touch the queue, the batches and what was accepted or put.        *)

USE DEF sessionVars, queueVars, docVars, controlVars, wireVars, serverVars,
        historyVars, clientVars, Goto, BetweenAssignments

Carriers == {"caller", "heartbeat"}
Carrying == {"apply", "issue", "put", "push"}

LEMMA ChannelInvInit == Init => ChannelInv
<1> SUFFICES ASSUME Init PROVE ChannelInv
  OBVIOUS
<1>1. /\ pending = <<>> /\ mine = {} /\ posted = {} /\ clock = 0
      /\ \A t \in Threads : batch[t] = <<>>
      /\ pc["caller"] = "idle"
  BY DEF Init, Threads
<1>2. BatchPlace
  BY <1>1 DEF BatchPlace, Flushing, Threads
<1>3. OnePlace
  BY <1>1, NothingInEmpty, FS_EmptySet DEF OnePlace, Threads
<1> QED
  BY <1>2, <1>3 DEF ChannelInv

\* A step that moves no delta keeps the invariant if no thread leaves the
\* sending of a delta by it, or starts to queue one.
LEMMA QuietStep ==
    ASSUME ChannelInv, UNCHANGED <<queueVars, mine, posted>>,
           clock \in Int, clock' \in Int, clock <= clock', mine \subseteq Delta,
           \A t \in Carriers :
              pc'[t] = pc[t] \/ (pc[t] \notin Carrying /\ pc'[t] # "push"),
           pc'["caller"] \in Flushing => pc'["heartbeat"] # "off"
    PROVE  ChannelInv'
<1>1. BatchPlace'
  BY DEF ChannelInv, BatchPlace, Carriers, Carrying
<1>2. \A d \in mine : d.stamp <= clock'
  <2> SUFFICES ASSUME NEW d \in mine PROVE d.stamp <= clock'
    OBVIOUS
  <2>1. d.stamp \in Int
    BY ClientAssumption DEF Delta
  <2> QED
    BY <2>1 DEF ChannelInv, OnePlace
<1>3. OnePlace'
  BY <1>2 DEF ChannelInv, OnePlace
<1> QED
  BY <1>1, <1>3 DEF ChannelInv

LEMMA CallerQuiet ==
    ASSUME IInv, ChannelInv,
           JoinSession \/ JoinReturns \/ ExitSession \/ ThreadsJoined \/ ExitReturns
    PROVE  ChannelInv'
<1>1. pc \in [Threads -> Labels] /\ clock \in Int /\ mine \subseteq Delta
  BY ClientAssumption DEF IInv, TypeOK
<1>2. UNCHANGED <<queueVars, mine, posted, clock>>
  BY DEF JoinSession, JoinReturns, ExitSession, ThreadsJoined, ExitReturns
<1>3. pc["caller"] = "join" => pc["heartbeat"] = "off"
  BY DEF IInv, SessionPlace
<1>4. /\ \A t \in Carriers :
            pc'[t] = pc[t] \/ (pc[t] \notin Carrying /\ pc'[t] # "push")
      /\ pc'["caller"] \in Flushing => pc'["heartbeat"] # "off"
  BY <1>1, <1>3 DEF JoinSession, JoinReturns, ExitSession, ThreadsJoined,
     ExitReturns, Carriers, Carrying, Flushing, Threads
<1> QED
  BY <1>1, <1>2, <1>4, QuietStep

LEMMA HeartbeatQuiet ==
    ASSUME IInv, ChannelInv,
           \/ HeartbeatWakes \/ RefreshReturns \/ ForgetToken \/ BackoffEnds
           \/ RejoinReturns \/ Rejoined \/ ClearKnowledge
    PROVE  ChannelInv'
<1>1. pc \in [Threads -> Labels] /\ clock \in Int /\ mine \subseteq Delta
  BY ClientAssumption DEF IInv, TypeOK
<1>2. UNCHANGED <<queueVars, mine, posted, clock>>
  BY DEF HeartbeatWakes, RefreshReturns, ForgetToken, BackoffEnds, RejoinReturns,
     Rejoined, ClearKnowledge
<1>4. /\ \A t \in Carriers :
            pc'[t] = pc[t] \/ (pc[t] \notin Carrying /\ pc'[t] # "push")
      /\ pc'["caller"] \in Flushing => pc'["heartbeat"] # "off"
  BY <1>1 DEF HeartbeatWakes, RefreshReturns, ForgetToken, BackoffEnds, RejoinReturns,
     Rejoined, ClearKnowledge, AfterRefusal, Carriers, Carrying, Flushing, Threads
<1> QED
  BY <1>1, <1>2, <1>4, QuietStep

LEMMA OthersQuiet ==
    ASSUME IInv, ChannelInv,
           Poll \/ (\E t \in Threads : Wire(t)) \/ Environment \/ UNCHANGED vars
    PROVE  ChannelInv'
<1>1. pc \in [Threads -> Labels] /\ clock \in Int /\ mine \subseteq Delta
  BY ClientAssumption DEF IInv, TypeOK
<1>2. UNCHANGED <<queueVars, mine, posted>>
  BY DEF Poll, PollWakes, GetChanges, ChangesArrive, DeliverChanges, Wire, Serve,
     Lose, Environment, Cut, TokenCallHangs, TokenCallEnds, NetworkFails,
     NetworkRecovers, ServerForgets, RemoteEdit, vars
<1>3. clock' = clock \/ clock' = clock + 1
  BY DEF Poll, PollWakes, GetChanges, ChangesArrive, DeliverChanges, Wire, Serve,
     Lose, Environment, Cut, TokenCallHangs, TokenCallEnds, NetworkFails,
     NetworkRecovers, ServerForgets, RemoteEdit, vars
<1>4. \A t \in Carriers : pc'[t] = pc[t]
  BY <1>1 DEF Poll, PollWakes, GetChanges, ChangesArrive, DeliverChanges, Wire, Serve,
     Lose, Environment, Cut, TokenCallHangs, TokenCallEnds, NetworkFails,
     NetworkRecovers, ServerForgets, RemoteEdit,
     vars, Carriers, Threads
<1>5. pc'["caller"] \in Flushing => pc'["heartbeat"] # "off"
  BY <1>4 DEF ChannelInv, BatchPlace, Carriers
<1> QED
  BY <1>1, <1>2, <1>3, <1>4, <1>5, QuietStep

LEMMA SendDeltaChannel ==
    ASSUME IInv, ChannelInv, NEW k \in Keys, SendDelta(k)
    PROVE  ChannelInv'
<1> DEFINE d == [key |-> k, stamp |-> clock + 1]
<1>1. /\ pc \in [Threads -> Labels] /\ batch \in [Threads -> Seq(Delta)]
      /\ clock \in Int /\ mine \subseteq Delta
  BY ClientAssumption DEF IInv, TypeOK
<1>2. \A e \in mine : e.stamp \in Int /\ e.stamp <= clock
  BY <1>1, ClientAssumption DEF ChannelInv, OnePlace, Delta
<1>3. d \notin mine
  BY <1>1, <1>2
<1>4. batch["caller"] = <<>>
  BY DEF ChannelInv, BatchPlace, SendDelta
<1>5. /\ mine' = mine \cup {d} /\ pending' = pending /\ posted' = posted
      /\ batch'["caller"] = <<d>> /\ batch'["heartbeat"] = batch["heartbeat"]
      /\ batch'["poll"] = batch["poll"] /\ clock' = clock + 1
  BY <1>1 DEF SendDelta, Threads
<1>6. /\ pc'["caller"] \in {"apply", "push"} /\ pc'["heartbeat"] = pc["heartbeat"]
      /\ pc'["caller"] = "apply" => IsJoined
  BY <1>1 DEF SendDelta, Threads
<1>7. IsJoined => pc["heartbeat"] # "off"
  BY DEF IInv, SessionPlace, IsJoined
<1>8. BatchPlace'
  BY <1>5, <1>6, <1>7 DEF ChannelInv, BatchPlace, Flushing
<1>9. SeqSet(batch'["caller"]) = {d} /\ NoRepeats(batch'["caller"])
  BY <1>5, OneInSingle
<1>10. SeqSet(batch["caller"]) = {}
  BY <1>4, NothingInEmpty
<1>11. \A e \in mine' : e.stamp <= clock'
  BY <1>1, <1>2, <1>5
<1>12. IsFiniteSet(mine')
  BY <1>5, FS_AddElement DEF ChannelInv, OnePlace
<1> HIDE DEF d
<1>13. OnePlace'
  BY <1>3, <1>5, <1>9, <1>10, <1>11, <1>12 DEF ChannelInv, OnePlace
<1> QED
  BY <1>8, <1>13 DEF ChannelInv

LEMMA QueueDeltaChannel ==
    ASSUME IInv, ChannelInv, QueueDelta
    PROVE  ChannelInv'
<1> DEFINE d == Head(batch["caller"])
<1>1. /\ pc \in [Threads -> Labels] /\ batch \in [Threads -> Seq(Delta)]
      /\ pending \in Seq(Delta)
  BY DEF IInv, TypeOK
<1>2. batch["caller"] \in Seq(Delta) /\ Len(batch["caller"]) = 1
  BY <1>1 DEF ChannelInv, BatchPlace, QueueDelta, Threads
<1>3. batch["caller"] = <<d>> /\ d \in Delta
  BY <1>2
<1>4. SeqSet(batch["caller"]) = {d}
  BY <1>3, OneInSingle
<1>5. /\ pending' = Append(pending, d) /\ mine' = mine /\ posted' = posted
      /\ batch'["caller"] = <<>> /\ batch'["heartbeat"] = batch["heartbeat"]
      /\ batch'["poll"] = batch["poll"] /\ clock' = clock
      /\ pc'["caller"] = "idle" /\ pc'["heartbeat"] = pc["heartbeat"]
  BY <1>1 DEF QueueDelta, Threads
<1>6. BatchPlace'
  BY <1>5 DEF ChannelInv, BatchPlace, Flushing
<1> HIDE DEF d
<1>7. d \notin SeqSet(pending) /\ d \notin posted /\ d \notin SeqSet(batch["heartbeat"])
  BY <1>4 DEF ChannelInv, OnePlace
<1>8. SeqSet(pending') = SeqSet(pending) \cup {d} /\ NoRepeats(pending')
  BY <1>1, <1>3, <1>5, <1>7, Appended DEF ChannelInv, OnePlace
<1>9. SeqSet(batch'["caller"]) = {} /\ NoRepeats(batch'["caller"])
  BY <1>5, NothingInEmpty
<1>10. OnePlace'
  BY <1>4, <1>5, <1>7, <1>8, <1>9 DEF ChannelInv, OnePlace
<1> QED
  BY <1>6, <1>10 DEF ChannelInv

LEMMA SwapPendingChannel ==
    ASSUME IInv, ChannelInv, NEW t \in Carriers, SwapPending(t)
    PROVE  ChannelInv'
<1>1. pc \in [Threads -> Labels] /\ batch \in [Threads -> Seq(Delta)]
  BY DEF IInv, TypeOK
<1>2. t \in Threads /\ batch[t] = <<>>
  BY DEF ChannelInv, BatchPlace, SwapPending, Carriers, Threads
<1>3. /\ pending' = <<>> /\ mine' = mine /\ posted' = posted /\ clock' = clock
      /\ batch'[t] = pending /\ \A u \in Threads \ {t} : batch'[u] = batch[u]
      /\ pc'[t] = IF pending = <<>> THEN Resume(t) ELSE "apply"
      /\ \A u \in Threads \ {t} : pc'[u] = pc[u]
      /\ pc[t] = "swap"
  BY <1>1, <1>2 DEF SwapPending
<1>4. BatchPlace'
  BY <1>2, <1>3 DEF ChannelInv, BatchPlace, Carriers, Threads, Flushing, Resume
<1>5. SeqSet(pending') = {} /\ NoRepeats(pending') /\ SeqSet(batch[t]) = {}
  BY <1>2, <1>3, NothingInEmpty
<1>6. OnePlace'
  BY <1>3, <1>5 DEF ChannelInv, OnePlace, Carriers, Threads
<1> QED
  BY <1>4, <1>6 DEF ChannelInv

LEMMA ApplyDeltaChannel ==
    ASSUME IInv, ChannelInv, NEW t \in Carriers, ApplyDelta(t)
    PROVE  ChannelInv'
<1>1. pc \in [Threads -> Labels] /\ t \in Threads
  BY DEF IInv, TypeOK, Carriers, Threads
<1>2. UNCHANGED <<queueVars, mine, posted, clock>>
  BY DEF ApplyDelta
<1>3. pc[t] = "apply" /\ pc'[t] = "issue" /\ \A u \in Threads \ {t} : pc'[u] = pc[u]
  BY <1>1 DEF ApplyDelta
<1>4. BatchPlace'
  BY <1>2, <1>3 DEF ChannelInv, BatchPlace, Carriers, Threads, Flushing
<1>5. OnePlace'
  BY <1>2 DEF ChannelInv, OnePlace
<1> QED
  BY <1>4, <1>5 DEF ChannelInv

LEMMA PutReturnsChannel ==
    ASSUME IInv, ChannelInv, NEW t \in Carriers, PutReturns(t)
    PROVE  ChannelInv'
<1>1. pc \in [Threads -> Labels] /\ t \in Threads
  BY DEF IInv, TypeOK, Carriers, Threads
<1>2. UNCHANGED <<queueVars, mine, posted, clock>>
  BY DEF PutReturns
<1>3. /\ pc[t] = "put" /\ \A u \in Threads \ {t} : pc'[u] = pc[u]
      /\ pc'[t] = IF batch[t] = <<>> THEN Resume(t) ELSE "apply"
  BY <1>1 DEF PutReturns
<1>4. BatchPlace'
  BY <1>2, <1>3 DEF ChannelInv, BatchPlace, Carriers, Threads, Flushing, Resume
<1>5. OnePlace'
  BY <1>2 DEF ChannelInv, OnePlace
<1> QED
  BY <1>4, <1>5 DEF ChannelInv

\* The delta put is the head of its batch, accepted and not put before.
LEMMA PutIsFresh ==
    ASSUME IInv, ChannelInv, NEW t \in Carriers, PutChanges(t)
    PROVE  /\ Head(batch[t]) \in mine \ posted
           /\ SeqSet(batch[t]) = {Head(batch[t])} \cup SeqSet(Tail(batch[t]))
           /\ Head(batch[t]) \notin SeqSet(Tail(batch[t]))
           /\ NoRepeats(Tail(batch[t]))
<1>1. batch[t] \in Seq(Delta) /\ batch[t] # <<>>
  BY DEF IInv, TypeOK, BatchHeld, PutChanges, Carriers, Threads
<1>2. NoRepeats(batch[t])
  BY DEF ChannelInv, OnePlace, Carriers
<1>3. /\ SeqSet(batch[t]) = {Head(batch[t])} \cup SeqSet(Tail(batch[t]))
      /\ Head(batch[t]) \notin SeqSet(Tail(batch[t]))
      /\ NoRepeats(Tail(batch[t]))
  BY <1>1, <1>2, HeadAndTail
<1>4. Head(batch[t]) \in mine \ posted
  BY <1>3 DEF ChannelInv, OnePlace, Carriers
<1> QED
  BY <1>3, <1>4

LEMMA PutChangesChannel ==
    ASSUME IInv, ChannelInv, NEW t \in Carriers, PutChanges(t)
    PROVE  ChannelInv'
<1> DEFINE d == Head(batch[t])
<1>1. /\ pc \in [Threads -> Labels] /\ batch \in [Threads -> Seq(Delta)]
      /\ t \in Threads
  BY DEF IInv, TypeOK, Carriers, Threads
<1>2. /\ pending' = pending /\ mine' = mine /\ posted' = posted \cup {d}
      /\ clock' = clock
      /\ batch'[t] = Tail(batch[t]) /\ \A u \in Threads \ {t} : batch'[u] = batch[u]
      /\ pc[t] = "issue" /\ pc'[t] = "put" /\ \A u \in Threads \ {t} : pc'[u] = pc[u]
  BY <1>1 DEF PutChanges
<1>3. BatchPlace'
  BY <1>2 DEF ChannelInv, BatchPlace, Carriers, Threads, Flushing
<1>4. /\ d \in mine \ posted
      /\ SeqSet(batch[t]) = {d} \cup SeqSet(batch'[t])
      /\ d \notin SeqSet(batch'[t]) /\ NoRepeats(batch'[t])
  BY <1>2, PutIsFresh
<1> HIDE DEF d
<1>5. OnePlace'
  BY <1>2, <1>4 DEF ChannelInv, OnePlace, Carriers, Threads
<1> QED
  BY <1>3, <1>5 DEF ChannelInv

LEMMA ChannelInvNext == IInv /\ ChannelInv /\ [Next]_vars => ChannelInv'
<1> SUFFICES ASSUME IInv, ChannelInv, [Next]_vars PROVE ChannelInv'
  OBVIOUS
<1>1. CASE Editor
  BY <1>1, CallerQuiet, SendDeltaChannel DEF Editor
<1>2. CASE \E t \in Carriers : Flush(t)
  BY <1>2, SwapPendingChannel, ApplyDeltaChannel, PutChangesChannel,
     PutReturnsChannel DEF Flush
<1>3. CASE Caller
  BY <1>2, <1>3, CallerQuiet, QueueDeltaChannel DEF Caller, Carriers
<1>4. CASE Heartbeat
  BY <1>2, <1>4, HeartbeatQuiet DEF Heartbeat, Carriers
<1>5. CASE Poll \/ (\E t \in Threads : Wire(t)) \/ Environment \/ Closed \/ UNCHANGED vars
  BY <1>5, OthersQuiet DEF Closed
<1> QED
  BY <1>1, <1>3, <1>4, <1>5 DEF Next

LEMMA ChannelInductive == Spec => [](IInv /\ ChannelInv)
BY InitInv, NextInv, ChannelInvInit, ChannelInvNext, PTL DEF Spec

-----------------------------------------------------------------------------
(* What the invariant gives.                                               *)

LEMMA DisjointSizes ==
    ASSUME NEW A, NEW B, IsFiniteSet(A), IsFiniteSet(B), A \cap B = {}
    PROVE  IsFiniteSet(A \cup B) /\ Cardinality(A \cup B) = Cardinality(A) + Cardinality(B)
<1>1. Cardinality(A) \in Nat /\ Cardinality(B) \in Nat
  BY FS_CardinalityType
<1>2. Cardinality(A \cap B) = 0
  BY FS_EmptySet
<1>3. IsFiniteSet(A \cup B)
  BY FS_Union, Zenon
<1>4. Cardinality(A \cup B) = Cardinality(A) + Cardinality(B) - Cardinality(A \cap B)
  BY FS_Union, Zenon
<1> QED
  BY <1>1, <1>2, <1>3, <1>4

\* Every delta sendDelta accepted is queued, in the hands of one thread or put on
\* the wire, and nowhere twice: no interleaving of sendDelta and the two flushes
\* loses one or doubles it.
THEOREM NoDeltaLostOrDoubled == Spec => []DeltaConservation
<1>1. IInv /\ ChannelInv => DeltaConservation
  <2> SUFFICES ASSUME IInv, ChannelInv PROVE DeltaConservation
    OBVIOUS
  <2> DEFINE P == SeqSet(pending)
             C == SeqSet(batch["caller"])
             H == SeqSet(batch["heartbeat"])
  <2>1. /\ pending \in Seq(Delta) /\ batch["caller"] \in Seq(Delta)
        /\ batch["heartbeat"] \in Seq(Delta)
    BY DEF IInv, TypeOK, Threads
  <2>2. /\ IsFiniteSet(P) /\ Cardinality(P) = Len(pending)
        /\ IsFiniteSet(C) /\ Cardinality(C) = Len(batch["caller"])
        /\ IsFiniteSet(H) /\ Cardinality(H) = Len(batch["heartbeat"])
    BY <2>1, AsManyAsLong DEF ChannelInv, OnePlace
  <2>3. UNION {SeqSet(batch[t]) : t \in Threads} = C \cup H
    <3>1. SeqSet(batch["poll"]) = {}
      BY NothingInEmpty DEF ChannelInv, BatchPlace
    <3> QED
      BY <3>1 DEF Threads
  <2>4. /\ mine = ((posted \cup P) \cup C) \cup H
        /\ posted \cap P = {} /\ (posted \cup P) \cap C = {}
        /\ ((posted \cup P) \cup C) \cap H = {}
    BY DEF ChannelInv, OnePlace
  <2>5. IsFiniteSet(posted)
    BY <2>4, FS_Subset DEF ChannelInv, OnePlace
  <2> HIDE DEF P, C, H
  <2>6. /\ IsFiniteSet(posted \cup P)
        /\ Cardinality(posted \cup P) = Cardinality(posted) + Cardinality(P)
    BY <2>2, <2>4, <2>5, DisjointSizes
  <2>7. /\ IsFiniteSet((posted \cup P) \cup C)
        /\ Cardinality((posted \cup P) \cup C) = Cardinality(posted \cup P) + Cardinality(C)
    BY <2>2, <2>4, <2>6, DisjointSizes
  <2>8. Cardinality(mine) = Cardinality((posted \cup P) \cup C) + Cardinality(H)
    BY <2>2, <2>4, <2>7, DisjointSizes
  <2>9. Cardinality(mine) = Cardinality(posted) + Len(pending)
                            + Len(batch["caller"]) + Len(batch["heartbeat"])
    BY <2>2, <2>6, <2>7, <2>8
  <2>10. mine = posted \cup SeqSet(pending) \cup UNION {SeqSet(batch[t]) : t \in Threads}
    BY <2>3, <2>4 DEF P
  <2> QED
    BY <2>9, <2>10 DEF DeltaConservation
<1> QED
  BY <1>1, ChannelInductive, PTL

-----------------------------------------------------------------------------
(* The refinement: each step of the client is a step of CoauthChannel or   *)
(* leaves it where it is.                                                  *)

CallerClosed == pc["caller"] = "closed"

LEMMA PhaseIs ==
    /\ CallerClosed => Phase = "closed"
    /\ ~CallerClosed /\ dropped => Phase = "dropped"
    /\ ~CallerClosed /\ ~dropped /\ IsJoined => Phase = "joined"
    /\ ~CallerClosed /\ ~dropped /\ ~IsJoined /\ pc["heartbeat"] = "off" => Phase = "new"
    /\ ~CallerClosed /\ ~dropped /\ ~IsJoined /\ pc["heartbeat"] # "off" => Phase = "lost"
BY DEF Phase, CallerClosed

LEMMA PhaseWillBe ==
    /\ CallerClosed' => Phase' = "closed"
    /\ ~CallerClosed' /\ dropped' => Phase' = "dropped"
    /\ ~CallerClosed' /\ ~dropped' /\ IsJoined' => Phase' = "joined"
    /\ ~CallerClosed' /\ ~dropped' /\ ~IsJoined' /\ pc'["heartbeat"] = "off" =>
          Phase' = "new"
    /\ ~CallerClosed' /\ ~dropped' /\ ~IsJoined' /\ pc'["heartbeat"] # "off" =>
          Phase' = "lost"
BY DEF Phase, CallerClosed

\* What a step may not change, to leave the phase as it was.
SamePhase ==
    /\ CallerClosed' = CallerClosed /\ dropped' = dropped /\ IsJoined' = IsJoined
    /\ (pc'["heartbeat"] = "off") = (pc["heartbeat"] = "off")

Unseen == SamePhase /\ UNCHANGED <<mine, posted>>

Simulated == [Channel!ChannelNext]_(Channel!channelVars)

LEMMA UnseenStep == TypeOK /\ Unseen => Simulated
<1> SUFFICES ASSUME TypeOK, Unseen PROVE Phase' = Phase
  BY DEF Unseen, Simulated, Channel!channelVars
<1>1. CallerClosed \in BOOLEAN /\ dropped \in BOOLEAN /\ IsJoined \in BOOLEAN
  BY DEF TypeOK, CallerClosed, IsJoined
<1> QED
  BY <1>1, PhaseIs, PhaseWillBe DEF Unseen, SamePhase

\* While the heartbeat thread lives the client is neither closed nor dropped.
LEMMA AliveIsOpen ==
    IInv /\ pc["heartbeat"] \notin {"off", "done"} => ~CallerClosed /\ ~dropped
BY DEF IInv, ExitPlace, ThreadsDone, SessionPlace, CallerClosed

\* Before the threads run there is no session, and nothing was dropped.
LEMMA OffIsNew ==
    IInv /\ pc["heartbeat"] = "off" => ~dropped /\ ~IsJoined
BY DEF IInv, SessionPlace, IsJoined

LEMMA FlushSimulated ==
    ASSUME IInv, ChannelInv, NEW t \in Carriers, Flush(t)
    PROVE  Simulated
<1>1. pc \in [Threads -> Labels] /\ t \in Threads /\ TypeOK
  BY DEF IInv, TypeOK, Carriers, Threads
<1>2. CASE SwapPending(t) \/ ApplyDelta(t) \/ PutReturns(t)
  <2>1. UNCHANGED <<mine, posted, state, dropped>>
    BY <1>2 DEF SwapPending, ApplyDelta, PutReturns
  <2>2. (pc'["heartbeat"] = "off") = (pc["heartbeat"] = "off")
    BY <1>1, <1>2 DEF SwapPending, ApplyDelta, PutReturns, Resume, Carriers, Threads
  <2>3. CallerClosed' = CallerClosed
    BY <1>1, <1>2 DEF SwapPending, ApplyDelta, PutReturns, Resume, Carriers, Threads,
       CallerClosed
  <2> QED
    BY <1>1, <2>1, <2>2, <2>3, UnseenStep DEF Unseen, SamePhase, IsJoined
<1>3. CASE PutChanges(t)
  <2> DEFINE d == Head(batch[t])
  <2>1. d \in mine \ posted
    BY <1>3, PutIsFresh
  <2>2. d \in Delta
    BY <1>1, <2>1 DEF TypeOK
  <2>3. posted' = posted \cup {d} /\ mine' = mine /\ UNCHANGED <<state, dropped>>
    BY <1>3 DEF PutChanges
  <2>4. /\ pc[t] = "issue" /\ pc'["heartbeat"] # "off" /\ pc["heartbeat"] # "off"
        /\ CallerClosed' = CallerClosed /\ ~CallerClosed
    <3>1. pc[t] = "issue" /\ pc'[t] = "put" /\ \A u \in Threads \ {t} : pc'[u] = pc[u]
      BY <1>1, <1>3 DEF PutChanges
    <3>2. pc["heartbeat"] # "off"
      BY <3>1 DEF ChannelInv, BatchPlace, Flushing, Carriers
    <3>3. ~CallerClosed
      BY <3>1, AliveIsOpen DEF CallerClosed, Carriers
    <3> QED
      BY <3>1, <3>2, <3>3 DEF Carriers, Threads, CallerClosed
  <2> HIDE DEF d
  <2>5. Phase' = Phase /\ Phase \in {"joined", "lost", "dropped"}
    <3>1. dropped \in BOOLEAN /\ IsJoined \in BOOLEAN /\ IsJoined' = IsJoined
      BY <1>1, <2>3 DEF TypeOK, IsJoined
    <3> QED
      BY <2>3, <2>4, <3>1, PhaseIs, PhaseWillBe
  <2>6. Channel!PutOnWire(d)
    BY <2>1, <2>3, <2>5 DEF Channel!PutOnWire
  <2> QED
    BY <2>2, <2>6 DEF Simulated, Channel!ChannelNext
<1> QED
  BY <1>2, <1>3 DEF Flush

LEMMA EditorSimulated ==
    ASSUME IInv, ChannelInv, Editor
    PROVE  Simulated
<1>1. pc \in [Threads -> Labels] /\ TypeOK
  BY DEF IInv, TypeOK
<1>2. CASE JoinSession \/ ExitSession
  <2>1. UNCHANGED <<mine, posted, dropped>>
    BY <1>2 DEF JoinSession, ExitSession
  <2>2. IsJoined' = IsJoined
    BY <1>2, OffIsNew DEF JoinSession, ExitSession, SetJoining, IsJoined
  <2>3. pc'["heartbeat"] = pc["heartbeat"] /\ CallerClosed' = CallerClosed
    BY <1>1, <1>2 DEF JoinSession, ExitSession, Threads, CallerClosed
  <2> QED
    BY <1>1, <2>1, <2>2, <2>3, UnseenStep DEF Unseen, SamePhase
<1>3. ASSUME NEW k \in Keys, SendDelta(k) PROVE Simulated
  <2> DEFINE d == [key |-> k, stamp |-> clock + 1]
  <2>1. clock \in 0 .. MaxEdits /\ clock < MaxEdits /\ MaxEdits \in Nat
    BY <1>1, <1>3, ClientAssumption DEF TypeOK, SendDelta
  <2>2. d \in Delta
    BY <2>1 DEF Delta
  <2>3. d \notin mine
    <3>1. \A e \in mine : e.stamp <= clock
      BY DEF ChannelInv, OnePlace
    <3> QED
      BY <2>1, <3>1
  <2>4. mine' = mine \cup {d} /\ UNCHANGED <<posted, state, dropped>>
    BY <1>3 DEF SendDelta
  <2>5. /\ pc'["heartbeat"] = pc["heartbeat"] /\ ~CallerClosed /\ ~CallerClosed'
    BY <1>1, <1>3 DEF SendDelta, Threads, CallerClosed
  <2> HIDE DEF d
  <2>6. Phase' = Phase /\ Phase # "closed"
    <3>1. dropped \in BOOLEAN /\ IsJoined \in BOOLEAN /\ IsJoined' = IsJoined
      BY <1>1, <2>4 DEF TypeOK, IsJoined
    <3> QED
      BY <2>4, <2>5, <3>1, PhaseIs, PhaseWillBe
  <2>7. Channel!Accept(d)
    BY <2>3, <2>4, <2>6 DEF Channel!Accept
  <2> QED
    BY <2>2, <2>7 DEF Simulated, Channel!ChannelNext
<1> QED
  BY <1>2, <1>3 DEF Editor

LEMMA CallerSimulated ==
    ASSUME IInv, ChannelInv, Caller
    PROVE  Simulated
<1>1. pc \in [Threads -> Labels] /\ TypeOK /\ dropped \in BOOLEAN
  BY DEF IInv, TypeOK
<1>2. CASE JoinReturns
  <2>1. pc["caller"] = "join" /\ pc["heartbeat"] = "off" /\ state = "Joining" /\ ~dropped
    BY <1>2 DEF JoinReturns, IInv, SessionPlace
  <2>2. Phase = "new"
    BY <2>1, PhaseIs DEF IsJoined, CallerClosed
  <2>3. UNCHANGED <<mine, posted, dropped>>
    BY <1>2 DEF JoinReturns
  <2>4. CASE ans["caller"].kind = "ok"
    <3>1. ~CallerClosed' /\ IsJoined' /\ ~dropped'
      BY <1>2, <2>1, <2>3, <2>4 DEF JoinReturns, JoinGranted, IsJoined, CallerClosed,
         Threads
    <3>2. Channel!Join
      BY <2>2, <2>3, <3>1, PhaseWillBe DEF Channel!Join, Channel!Move
    <3> QED
      BY <3>2 DEF Simulated, Channel!ChannelNext
  <2>5. CASE ans["caller"].kind # "ok"
    <3>1. Unseen
      BY <1>1, <1>2, <2>1, <2>3, <2>5 DEF JoinReturns, JoinRefused, Unseen, SamePhase,
         IsJoined, CallerClosed, Threads
    <3> QED
      BY <1>1, <3>1, UnseenStep
  <2> QED
    BY <2>4, <2>5
<1>3. CASE QueueDelta
  <2>1. Unseen
    BY <1>1, <1>3 DEF QueueDelta, Unseen, SamePhase, IsJoined, CallerClosed, Threads
  <2> QED
    BY <1>1, <2>1, UnseenStep
<1>4. CASE ThreadsJoined \/ ExitReturns
  <2>1. ~CallerClosed /\ UNCHANGED <<mine, posted, dropped>>
    BY <1>4 DEF ThreadsJoined, ExitReturns, CallerClosed
  <2>2. CASE CallerClosed'
    <3>1. Phase \in {"new", "joined", "lost", "dropped"} /\ Phase' = "closed"
      BY <1>1, <2>1, <2>2, PhaseIs, PhaseWillBe DEF IsJoined
    <3>2. Channel!Close
      BY <2>1, <3>1 DEF Channel!Close, Channel!Move
    <3> QED
      BY <3>2 DEF Simulated, Channel!ChannelNext
  <2>3. CASE ~CallerClosed'
    <3>1. Unseen
      BY <1>1, <1>4, <2>1, <2>3 DEF ThreadsJoined, ExitReturns, Unseen, SamePhase,
         IsJoined, CallerClosed, Threads
    <3> QED
      BY <1>1, <3>1, UnseenStep
  <2> QED
    BY <2>2, <2>3
<1> QED
  BY <1>2, <1>3, <1>4, FlushSimulated DEF Caller, Carriers

LEMMA HeartbeatSimulated ==
    ASSUME IInv, ChannelInv, Heartbeat
    PROVE  Simulated
<1>1. pc \in [Threads -> Labels] /\ TypeOK /\ dropped \in BOOLEAN
  BY DEF IInv, TypeOK
<1>2. CASE HeartbeatWakes \/ ForgetToken \/ ClearKnowledge
  <2>1. Unseen
    BY <1>1, <1>2 DEF HeartbeatWakes, ForgetToken, TokenForgotten, ClearKnowledge, Unseen,
       SamePhase, IsJoined, CallerClosed, Threads
  <2> QED
    BY <1>1, <2>1, UnseenStep
<1>3. CASE RefreshReturns \/ BackoffEnds \/ RejoinReturns \/ Rejoined
  <2>1. ~CallerClosed /\ ~dropped /\ pc["heartbeat"] \notin {"off", "done"}
    BY <1>3, AliveIsOpen DEF RefreshReturns, BackoffEnds, RejoinReturns, Rejoined
  <2>2. UNCHANGED <<mine, posted>> /\ ~CallerClosed' /\ pc'["heartbeat"] # "off"
    BY <1>1, <1>3, <2>1 DEF RefreshReturns, BackoffEnds, RejoinReturns, Rejoined, CallerClosed,
       Threads, AfterRefusal
  <2>3. IsJoined \in BOOLEAN /\ IsJoined' \in BOOLEAN /\ dropped' \in BOOLEAN
    BY <1>1, <1>3 DEF IsJoined, RefreshReturns, BackoffEnds, RejoinReturns, Rejoined,
       LastAttempt
  <2>4. CASE IsJoined /\ dropped' = dropped
    <3>1. Phase = "joined" /\ Phase' \in {"joined", "lost"}
      BY <2>1, <2>2, <2>3, <2>4, PhaseIs, PhaseWillBe
    <3>2. Channel!Lose \/ UNCHANGED Channel!channelVars
      BY <2>2, <3>1 DEF Channel!Lose, Channel!Move, Channel!channelVars
    <3> QED
      BY <3>2 DEF Simulated, Channel!ChannelNext
  <2>5. CASE ~IsJoined /\ ~(dropped' /\ IsJoined')
    <3>1. Phase = "lost" /\ Phase' \in {"joined", "lost", "dropped"}
      BY <2>1, <2>2, <2>3, <2>5, PhaseIs, PhaseWillBe
    <3>2. Channel!Rejoin \/ Channel!Drop \/ UNCHANGED Channel!channelVars
      BY <2>2, <3>1 DEF Channel!Rejoin, Channel!Drop, Channel!Move, Channel!channelVars
    <3> QED
      BY <3>2 DEF Simulated, Channel!ChannelNext
  <2>6. CASE RefreshReturns
    <3>1. IsJoined /\ dropped' = dropped
      BY <2>6 DEF RefreshReturns, IInv, HeartbeatKeepsSession
    <3> QED
      BY <2>4, <3>1
  <2>7. CASE BackoffEnds \/ RejoinReturns \/ Rejoined
    <3>1. ~IsJoined
      BY <2>7 DEF BackoffEnds, RejoinReturns, Rejoined, IInv, SessionPlace,
         SessionCoherent, IsJoined
    <3>2. ~(dropped' /\ IsJoined')
      BY <2>1, <2>7, <3>1 DEF BackoffEnds, RejoinReturns, Rejoined, JoinRefused,
         TokenGranted, SetJoining, IsJoined
    <3> QED
      BY <2>5, <3>1, <3>2
  <2> QED
    BY <1>3, <2>6, <2>7
<1> QED
  BY <1>2, <1>3, FlushSimulated DEF Heartbeat, Carriers

LEMMA OthersSimulated ==
    ASSUME IInv,
           Poll \/ (\E t \in Threads : Wire(t)) \/ Environment \/ UNCHANGED vars
    PROVE  Simulated
<1>1. pc \in [Threads -> Labels] /\ TypeOK
  BY DEF IInv, TypeOK
<1>2. UNCHANGED <<mine, posted, dropped, state>>
  BY DEF Poll, PollWakes, GetChanges, ChangesArrive, DeliverChanges, Wire, Serve,
     Lose, Environment, Cut, TokenCallHangs, TokenCallEnds, NetworkFails,
     NetworkRecovers, ServerForgets, RemoteEdit, vars
<1>3. pc'["caller"] = pc["caller"] /\ pc'["heartbeat"] = pc["heartbeat"]
  BY <1>1 DEF Poll, PollWakes, GetChanges, ChangesArrive, DeliverChanges, Wire, Serve,
     Lose, Environment, Cut, TokenCallHangs, TokenCallEnds, NetworkFails,
     NetworkRecovers, ServerForgets, RemoteEdit,
     vars, Threads
<1>4. Unseen
  BY <1>2, <1>3 DEF Unseen, SamePhase, CallerClosed, IsJoined
<1> QED
  BY <1>1, <1>4, UnseenStep

LEMMA StepSimulated == IInv /\ ChannelInv /\ [Next]_vars => Simulated
<1> SUFFICES ASSUME IInv, ChannelInv, [Next]_vars PROVE Simulated
  OBVIOUS
<1>1. CASE Poll \/ (\E t \in Threads : Wire(t)) \/ Environment \/ Closed \/ UNCHANGED vars
  BY <1>1, OthersSimulated DEF Closed
<1> QED
  BY <1>1, EditorSimulated, CallerSimulated, HeartbeatSimulated DEF Next

LEMMA InitSimulated == Init => Channel!ChannelInit
<1> SUFFICES ASSUME Init PROVE Channel!ChannelInit
  OBVIOUS
<1>1. /\ pc["caller"] = "idle" /\ pc["heartbeat"] = "off" /\ ~dropped /\ ~IsJoined
      /\ mine = {} /\ posted = {}
  BY DEF Init, SessionInit, Threads, IsJoined
<1>2. Phase = "new"
  BY <1>1, PhaseIs DEF CallerClosed
<1> QED
  BY <1>1, <1>2 DEF Channel!ChannelInit

\* The client implements CoauthChannel: whatever its threads, the network and the
\* server do, a delta is put at most once, never before the join or after the close,
\* and the session is lost, rejoined, reported dropped and closed only in that order.
THEOREM ClientImplementsChannel == Spec => ImplementsChannel
BY InitSimulated, StepSimulated, ChannelInductive, PTL DEF Spec, ImplementsChannel,
   Channel!ChannelSpec, Simulated

-----------------------------------------------------------------------------
(* The inductive invariant, as long as there is no fault.                  *)

\* The session between the caller, the heartbeat and the server: not asked for,
\* granted and not taken up, in use, given up, over.
Unjoined ==
    /\ granted = 0 /\ member = NoToken /\ pc["heartbeat"] = "off"
    /\ pc["caller"] \in {"idle", "push", "join", "stop", "closed"}
    /\ pc["caller"] = "join" => ans["caller"].kind = "waiting"
JoinGiven ==
    /\ granted # 0 /\ member # NoToken /\ pc["heartbeat"] = "off"
    /\ pc["caller"] = "join"
    /\ ans["caller"].kind = "ok" /\ ans["caller"].tok = member
InSession ==
    /\ granted # 0 /\ member # NoToken /\ sessionToken = member
    /\ pc["caller"] \in {"idle", "stop"} \cup Flushing
    /\ pc["heartbeat"] \in {"sleep", "refresh", "done"}
    /\ pc["heartbeat"] = "refresh" =>
          req["heartbeat"].tok = member /\ ans["heartbeat"].kind # "error"
    /\ pc["caller"] = "put" => req["caller"].tok = member
Leaving ==
    /\ granted # 0 /\ pc["caller"] = "exit"
    /\ IF ans["caller"].kind = "waiting"
       THEN member # NoToken /\ req["caller"].tok = member
       ELSE member = NoToken
Left == granted # 0 /\ pc["caller"] = "closed" /\ member = NoToken

SessionCalm ==
    /\ online
    /\ Unjoined \/ JoinGiven \/ InSession \/ Leaving \/ Left

\* A queue is in the order in which its deltas were made.
Ascending(q) == \A i, j \in DOMAIN q : i < j => q[i].stamp < q[j].stamp

\* Once joined and flushed, nothing is queued; what is queued or about to be put
\* is newer than all that was put; what is about to be queued is newest.
QueueInOrder ==
    /\ Ascending(pending) /\ Ascending(batch["caller"])
    /\ granted # 0 /\ pc["caller"] \notin {"join", "swap"} => pending = <<>>
    /\ \A d \in posted : \A e \in SeqSet(pending) \cup SeqSet(batch["caller"]) :
          d.stamp < e.stamp
    /\ pc["caller"] = "push" =>
          \A d \in SeqSet(pending) : d.stamp < Head(batch["caller"]).stamp

\* Paragraphs of a document that was not loaded are put as stubs.
Whole(k) == Loaded \/ k \in Comments

\* The document has the last text put of each key, and so has what is put next.
DocumentCurrent ==
    /\ \A d \in posted : Whole(d.key) => doc[d.key] >= d.stamp
    /\ pc["caller"] = "issue" =>
          LET d == Head(batch["caller"])
          IN  /\ payload["caller"].part = PartOf(d.key)
              /\ Whole(d.key) => doc[d.key] = d.stamp
              /\ \A k \in PartOf(d.key) : Whole(k) => payload["caller"].text[k] = doc[k]
    /\ pc["caller"] = "put" =>
          \A k \in req["caller"].put.part : Whole(k) => req["caller"].put.text[k] = doc[k]

OnTheWire(k) ==
    pc["caller"] = "put" /\ ans["caller"].kind = "waiting" /\ k \in req["caller"].put.part

\* What was put is on the server, or newer text is, or is on its way there.
PutsArrive ==
    \A d \in posted : Whole(d.key) => OnTheWire(d.key) \/ content[d.key] >= d.stamp

Calm == SessionCalm /\ QueueInOrder /\ DocumentCurrent /\ PutsArrive
\* No token call hangs.
NoneStuck == \A t \in Threads : ~Stuck(t)
CalmInv == faults = 0 => Calm /\ NoneStuck

-----------------------------------------------------------------------------
(* Which threads can be where.                                             *)

\* The heartbeat carries nothing, neither rejoins nor is refused, and once the
\* caller leaves it is done.
LEMMA CalmPlaces ==
    ASSUME IInv, ChannelInv, SessionCalm
    PROVE  /\ pc["heartbeat"] \in {"off", "sleep", "refresh", "done"}
           /\ pc["heartbeat"] \in {"sleep", "refresh"} => InSession
           /\ pc["caller"] \in Flushing => InSession
           /\ pc["caller"] = "push" => Unjoined
           /\ pc["heartbeat"] = "refresh" => ans["heartbeat"].kind # "error"
           /\ Unjoined => sessionToken = NoToken
           /\ batch["heartbeat"] = <<>> /\ batch["poll"] = <<>>
<1>1. pc["caller"] \in {"exit", "closed"} => pc["heartbeat"] \in {"off", "done"}
  BY DEF IInv, ExitPlace, ThreadsDone
<1>2. pc["heartbeat"] \in {"off", "sleep", "refresh", "done"}
  BY <1>1 DEF SessionCalm, Unjoined, JoinGiven, InSession, Leaving, Left
<1>3. pc["heartbeat"] \in {"sleep", "refresh"} => InSession
  BY <1>1 DEF SessionCalm, Unjoined, JoinGiven, Leaving, Left
<1>4. pc["caller"] \in Flushing => InSession
  BY DEF SessionCalm, Unjoined, JoinGiven, Leaving, Left, Flushing
<1>5. pc["caller"] = "push" => Unjoined
  BY DEF SessionCalm, JoinGiven, InSession, Leaving, Left, Flushing
<1>6. pc["heartbeat"] = "refresh" => ans["heartbeat"].kind # "error"
  BY <1>3 DEF InSession
<1>7. Unjoined => sessionToken = NoToken
  <2> SUFFICES ASSUME Unjoined PROVE sessionToken = NoToken
    OBVIOUS
  <2>1. state # "Joined"
    BY DEF Unjoined, IInv, SessionPlace
  <2>2. ~BetweenAssignments
    BY DEF Unjoined
  <2> QED
    BY <2>1, <2>2 DEF IInv, SessionCoherent
<1>8. batch["heartbeat"] = <<>> /\ batch["poll"] = <<>>
  BY <1>2 DEF ChannelInv, BatchPlace
<1> QED
  BY <1>2, <1>3, <1>4, <1>5, <1>6, <1>7, <1>8

-----------------------------------------------------------------------------
(* Steps that move no delta and put no text on the server.                 *)

LEMMA DeliveryKept ==
    ASSUME QueueInOrder, DocumentCurrent, PutsArrive,
           UNCHANGED <<pending, posted, doc>>,
           batch'["caller"] = batch["caller"], payload'["caller"] = payload["caller"],
           pc'["caller"] \in {"push", "issue", "put"} => pc'["caller"] = pc["caller"],
           pc'["caller"] = "put" => req'["caller"].put = req["caller"].put,
           granted' # 0 /\ pc'["caller"] \notin {"join", "swap"} => pending = <<>>,
           \A k \in Keys : OnTheWire(k) =>
              pc'["caller"] = "put" /\ ans'["caller"].kind = "waiting",
           \A d \in posted : content[d.key] >= d.stamp => content'[d.key] >= d.stamp,
           posted \subseteq Delta
    PROVE  QueueInOrder' /\ DocumentCurrent' /\ PutsArrive'
<1>1. QueueInOrder'
  BY DEF QueueInOrder
<1>2. DocumentCurrent'
  BY DEF DocumentCurrent
<1>3. PutsArrive'
  <2> SUFFICES ASSUME NEW d \in posted, Whole(d.key)
               PROVE  OnTheWire(d.key)' \/ content'[d.key] >= d.stamp
    BY DEF PutsArrive
  <2>1. d.key \in Keys
    BY DEF Delta
  <2>2. CASE OnTheWire(d.key)
    BY <2>1, <2>2 DEF OnTheWire
  <2>3. CASE content[d.key] >= d.stamp
    BY <2>3
  <2> QED
    BY <2>2, <2>3 DEF PutsArrive
<1> QED
  BY <1>1, <1>2, <1>3

\* A step of another thread, or of the environment, that leaves the caller alone.
LEMMA AsideStep ==
    ASSUME IInv, Calm, ChannelInv,
           UNCHANGED <<pending, posted, doc, granted>>,
           batch'["caller"] = batch["caller"], payload'["caller"] = payload["caller"],
           pc'["caller"] = pc["caller"], ans'["caller"] = ans["caller"],
           req'["caller"].put = req["caller"].put,
           \A d \in posted : content[d.key] >= d.stamp => content'[d.key] >= d.stamp
    PROVE  QueueInOrder' /\ DocumentCurrent' /\ PutsArrive'
<1>1. posted \subseteq Delta
  BY DEF IInv, TypeOK
<1>2. granted # 0 /\ pc["caller"] \notin {"join", "swap"} => pending = <<>>
  BY DEF Calm, QueueInOrder
<1> QED
  BY <1>1, <1>2, DeliveryKept DEF Calm, OnTheWire

LEMMA HeartbeatCalm ==
    ASSUME IInv, ChannelInv, Calm, Heartbeat PROVE Calm'
<1>1. /\ pc \in [Threads -> Labels] /\ req \in [Threads -> Request]
      /\ ans \in [Threads -> Answer]
  BY DEF IInv, TypeOK
<1>2. /\ pc["heartbeat"] \in {"off", "sleep", "refresh", "done"}
      /\ pc["heartbeat"] \in {"sleep", "refresh"} => InSession
      /\ pc["heartbeat"] = "refresh" => ans["heartbeat"].kind # "error"
  BY CalmPlaces DEF Calm
<1>3. HeartbeatWakes \/ RefreshReturns
  BY <1>2 DEF Heartbeat, ForgetToken, BackoffEnds, RejoinReturns, Rejoined, ClearKnowledge, Flush,
     SwapPending, ApplyDelta, PutChanges, PutReturns
<1>4. InSession
  BY <1>2, <1>3 DEF HeartbeatWakes, RefreshReturns
<1>5. /\ UNCHANGED <<pending, posted, doc, granted, member, content, online, batch, payload>>
      /\ pc'["caller"] = pc["caller"] /\ ans'["caller"] = ans["caller"]
      /\ sessionToken' = sessionToken
  BY <1>1, <1>2, <1>3 DEF HeartbeatWakes, RefreshReturns, HandleRefreshSuccess,
     Receive, Threads
<1>6. /\ req'["caller"].put = req["caller"].put
      /\ req'["caller"].tok = req["caller"].tok
  <2>1. MarkLate["caller"] = [req["caller"] EXCEPT !.late = Timely /\ req["caller"].op # "none"]
    BY DEF MarkLate, Threads
  <2>2. /\ MarkLate["caller"].put = req["caller"].put
        /\ MarkLate["caller"].tok = req["caller"].tok
    BY <1>1, <2>1 DEF Threads, Request
  <2>3. req'["caller"] = MarkLate["caller"] \/ req'["caller"] = req["caller"]
    <3>1. MarkLate \in [Threads -> {MarkLate[t] : t \in Threads}]
      BY DEF MarkLate
    <3> QED
      BY <1>1, <1>3, <3>1 DEF HeartbeatWakes, RefreshReturns, Receive, Threads
  <2> QED
    BY <2>2, <2>3
<1>7. InSession'
  <2>1. CASE HeartbeatWakes
    <3>1. /\ pc'["heartbeat"] \in {"refresh", "done"}
          /\ pc'["heartbeat"] = "refresh" =>
                req'["heartbeat"] = Coauth("refresh", sessionToken)
                /\ ans'["heartbeat"] = Waiting
      BY <1>1, <2>1 DEF HeartbeatWakes, MarkLate, Threads
    <3>2. Coauth("refresh", sessionToken).tok = sessionToken /\ Waiting.kind # "error"
      BY DEF Coauth, NoRequest, Waiting
    <3> QED
      BY <1>4, <1>5, <1>6, <3>1, <3>2 DEF InSession
  <2>2. CASE RefreshReturns
    <3>1. pc'["heartbeat"] = "sleep"
      BY <1>1, <1>2, <2>2 DEF RefreshReturns, Threads
    <3> QED
      BY <1>4, <1>5, <1>6, <3>1 DEF InSession
  <2> QED
    BY <1>3, <2>1, <2>2
<1>8. SessionCalm'
  BY <1>5, <1>7 DEF Calm, SessionCalm
<1> QED
  BY <1>5, <1>6, <1>8, AsideStep DEF Calm

\* What the session's place says of the caller, the heartbeat and the server.
LEMMA PlaceKept ==
    ASSUME SessionCalm,
           UNCHANGED <<online, granted, member, sessionToken>>,
           pc'["caller"] = pc["caller"], pc'["heartbeat"] = pc["heartbeat"],
           \A t \in {"caller", "heartbeat"} : req'[t] = req[t] /\ ans'[t] = ans[t]
    PROVE  SessionCalm'
BY DEF SessionCalm, Unjoined, JoinGiven, InSession, Leaving, Left

LEMMA PollCalm ==
    ASSUME IInv, ChannelInv, Calm, Poll PROVE Calm'
<1>1. /\ pc \in [Threads -> Labels] /\ req \in [Threads -> Request]
      /\ ans \in [Threads -> Answer]
  BY DEF IInv, TypeOK
<1>2. /\ UNCHANGED <<pending, posted, doc, granted, member, content, online, batch, payload>>
      /\ sessionToken' = sessionToken
  BY DEF Poll, PollWakes, GetChanges, ChangesArrive, DeliverChanges
<1>3. pc'["caller"] = pc["caller"] /\ pc'["heartbeat"] = pc["heartbeat"]
  BY <1>1 DEF Poll, PollWakes, GetChanges, ChangesArrive, DeliverChanges, Threads
<1>4. \A t \in {"caller", "heartbeat"} : req'[t] = req[t] /\ ans'[t] = ans[t]
  BY <1>1 DEF Poll, PollWakes, GetChanges, ChangesArrive, DeliverChanges, Receive,
     Post, Threads
<1>5. SessionCalm'
  BY <1>2, <1>3, <1>4, PlaceKept DEF Calm
<1> QED
  BY <1>2, <1>3, <1>4, <1>5, AsideStep DEF Calm

\* Of the environment only the remote author acts without a fault.
LEMMA EnvironmentCalm ==
    ASSUME IInv, ChannelInv, Calm, NoneStuck, Environment, faults' = faults PROVE Calm'
<1>1. faults \in Nat
  BY ClientAssumption DEF IInv, TypeOK
<1>2. PICK k \in Keys : RemoteEdit(k)
  <2>1. ~Fault
    BY <1>1 DEF Fault
  <2>2. /\ ~NetworkFails /\ ~ServerForgets
        /\ \A t \in Threads : ~Cut(t) /\ ~TokenCallHangs(t) /\ ~TokenCallEnds(t)
    BY <2>1, Zenon DEF NetworkFails, ServerForgets, Cut, TokenCallHangs, TokenCallEnds,
       NoneStuck
  <2>3. ~NetworkRecovers
    BY DEF NetworkRecovers, Calm, SessionCalm
  <2> QED
    BY <2>2, <2>3, Zenon DEF Environment
<1>3. \A d \in posted : content[d.key] >= d.stamp => content'[d.key] >= d.stamp
  <2> SUFFICES ASSUME NEW d \in posted, content[d.key] >= d.stamp
               PROVE  content'[d.key] >= d.stamp
    OBVIOUS
  <2>1. d \in Delta /\ d \in mine /\ content \in [Keys -> Int] /\ clock \in Int
    BY ClientAssumption DEF ChannelInv, OnePlace, IInv, TypeOK, Text, Stamps
  <2>2. d.stamp \in Int /\ d.stamp <= clock /\ d.key \in Keys
    BY <2>1, ClientAssumption DEF ChannelInv, OnePlace, Delta
  <2> QED
    BY <1>2, <2>1, <2>2 DEF RemoteEdit
<1>4. SessionCalm'
  BY <1>2, PlaceKept DEF Calm, RemoteEdit
<1> QED
  BY <1>2, <1>3, <1>4, AsideStep DEF Calm, RemoteEdit

-----------------------------------------------------------------------------
(* The caller's calls that move no delta.                                  *)

LEMMA JoinSessionCalm ==
    ASSUME IInv, ChannelInv, Calm, JoinSession PROVE Calm'
<1>1. /\ pc \in [Threads -> Labels] /\ req \in [Threads -> Request]
      /\ ans \in [Threads -> Answer] /\ posted \subseteq Delta
  BY DEF IInv, TypeOK
<1>2. Unjoined
  BY DEF JoinSession, Calm, SessionCalm, JoinGiven, InSession, Leaving, Left
<1>3. /\ UNCHANGED <<pending, posted, doc, granted, member, content, online, batch, payload>>
      /\ pc["caller"] = "idle"
      /\ pc'["caller"] = "join" /\ pc'["heartbeat"] = pc["heartbeat"]
      /\ ans'["caller"].kind = "waiting"
  BY <1>1 DEF JoinSession, Post, Waiting, Threads
<1>4. SessionCalm'
  BY <1>2, <1>3 DEF Calm, SessionCalm, Unjoined
<1>5. QueueInOrder' /\ DocumentCurrent' /\ PutsArrive'
  BY <1>1, <1>3, DeliveryKept DEF Calm, OnTheWire
<1> QED
  BY <1>4, <1>5 DEF Calm

LEMMA JoinReturnsCalm ==
    ASSUME IInv, ChannelInv, Calm, JoinReturns PROVE Calm'
<1>1. /\ pc \in [Threads -> Labels] /\ req \in [Threads -> Request]
      /\ ans \in [Threads -> Answer] /\ posted \subseteq Delta
  BY DEF IInv, TypeOK
<1>2. JoinGiven
  BY DEF JoinReturns, Receive, Answered, Calm, SessionCalm, Unjoined, InSession,
     Leaving, Left, Flushing
<1>3. /\ UNCHANGED <<pending, posted, doc, granted, member, content, online, batch, payload>>
      /\ pc["caller"] = "join"
      /\ pc'["caller"] = "swap" /\ pc'["heartbeat"] = "sleep"
      /\ sessionToken' = member
  BY <1>1, <1>2 DEF JoinReturns, JoinGranted, JoinGiven, Threads
<1>4. SessionCalm'
  BY <1>2, <1>3 DEF Calm, SessionCalm, JoinGiven, InSession, Flushing
<1>5. QueueInOrder' /\ DocumentCurrent' /\ PutsArrive'
  BY <1>1, <1>3, DeliveryKept DEF Calm, OnTheWire
<1> QED
  BY <1>4, <1>5 DEF Calm

LEMMA ExitSessionCalm ==
    ASSUME IInv, ChannelInv, Calm, ExitSession PROVE Calm'
<1>1. /\ pc \in [Threads -> Labels] /\ posted \subseteq Delta
  BY DEF IInv, TypeOK
<1>2. /\ UNCHANGED <<pending, posted, doc, granted, member, content, online, batch,
                     payload, sessionToken, req, ans>>
      /\ pc["caller"] = "idle"
      /\ pc'["caller"] = "stop" /\ pc'["heartbeat"] = pc["heartbeat"]
  BY <1>1 DEF ExitSession, Threads
<1>3. SessionCalm'
  BY <1>2 DEF Calm, SessionCalm, Unjoined, JoinGiven, InSession, Leaving, Left
<1>4. granted # 0 => pending = <<>>
  BY <1>2 DEF Calm, QueueInOrder
<1>5. QueueInOrder' /\ DocumentCurrent' /\ PutsArrive'
  BY <1>1, <1>2, <1>4, DeliveryKept DEF Calm, OnTheWire
<1> QED
  BY <1>3, <1>5 DEF Calm

LEMMA ThreadsJoinedCalm ==
    ASSUME IInv, ChannelInv, Calm, ThreadsJoined PROVE Calm'
<1>1. /\ pc \in [Threads -> Labels] /\ req \in [Threads -> Request]
      /\ ans \in [Threads -> Answer] /\ posted \subseteq Delta
  BY DEF IInv, TypeOK
<1>2. /\ UNCHANGED <<pending, posted, doc, granted, member, content, online, batch,
                     payload, sessionToken>>
      /\ pc["caller"] = "stop" /\ pc'["heartbeat"] = pc["heartbeat"]
      /\ pc'["caller"] \in {"exit", "closed"}
  BY <1>1 DEF ThreadsJoined, Threads
<1>3. SessionCalm'
  <2>1. CASE Unjoined
    <3>1. ~IsJoined
      BY <2>1, CalmPlaces DEF Calm, IInv, SessionCoherent, IsJoined
    <3>2. pc'["caller"] = "closed"
      BY <1>1, <3>1 DEF ThreadsJoined, Threads
    <3> QED
      BY <1>2, <2>1, <3>2 DEF Calm, SessionCalm, Unjoined
  <2>2. CASE InSession
    <3>1. IsJoined
      BY <2>2 DEF InSession, IInv, SessionCoherent, IsJoined
    <3>2. pc'["caller"] = "exit" /\ ans'["caller"].kind = "waiting"
      BY <1>1, <3>1 DEF ThreadsJoined, Post, Waiting, Threads
    <3>3. req'["caller"].tok = sessionToken
      <4>1. req'["caller"] = Coauth("exit", sessionToken)
        BY <1>1, <3>1 DEF ThreadsJoined, Post, Threads
      <4> QED
        BY <4>1 DEF Coauth, NoRequest
    <3> QED
      BY <1>2, <2>2, <3>2, <3>3 DEF Calm, SessionCalm, InSession, Leaving
  <2> QED
    BY <1>2, <2>1, <2>2 DEF Calm, SessionCalm, JoinGiven, Leaving, Left
<1>4. granted # 0 => pending = <<>>
  BY <1>2 DEF Calm, QueueInOrder
<1>5. QueueInOrder' /\ DocumentCurrent' /\ PutsArrive'
  BY <1>1, <1>2, <1>4, DeliveryKept DEF Calm, OnTheWire
<1> QED
  BY <1>3, <1>5 DEF Calm

LEMMA ExitReturnsCalm ==
    ASSUME IInv, ChannelInv, Calm, ExitReturns PROVE Calm'
<1>1. /\ pc \in [Threads -> Labels] /\ posted \subseteq Delta
  BY DEF IInv, TypeOK
<1>2. Leaving /\ member = NoToken
  BY DEF ExitReturns, Receive, Answered, Calm, SessionCalm, Unjoined, JoinGiven,
     InSession, Leaving, Left, Flushing
<1>3. /\ UNCHANGED <<pending, posted, doc, granted, member, content, online, batch, payload>>
      /\ pc["caller"] = "exit" /\ pc'["caller"] = "closed"
  BY <1>1 DEF ExitReturns, Threads
<1>4. SessionCalm'
  BY <1>2, <1>3 DEF Calm, SessionCalm, Leaving, Left
<1>5. granted # 0 => pending = <<>>
  BY <1>3 DEF Calm, QueueInOrder
<1>6. QueueInOrder' /\ DocumentCurrent' /\ PutsArrive'
  BY <1>1, <1>3, <1>5, DeliveryKept DEF Calm, OnTheWire
<1> QED
  BY <1>4, <1>6 DEF Calm

LEMMA PutReturnsCalm ==
    ASSUME IInv, ChannelInv, Calm, PutReturns("caller") PROVE Calm'
<1>1. /\ pc \in [Threads -> Labels] /\ posted \subseteq Delta
      /\ req \in [Threads -> Request] /\ ans \in [Threads -> Answer]
  BY DEF IInv, TypeOK
<1>2. InSession
  BY CalmPlaces DEF Calm, PutReturns, Flushing
<1>3. /\ UNCHANGED <<pending, posted, doc, granted, member, content, online, batch,
                     payload, sessionToken>>
      /\ pc["caller"] = "put" /\ ans["caller"].kind # "waiting"
      /\ pc'["caller"] \in {"idle", "apply"} /\ pc'["heartbeat"] = pc["heartbeat"]
      /\ req'["heartbeat"] = req["heartbeat"] /\ ans'["heartbeat"] = ans["heartbeat"]
  BY <1>1 DEF PutReturns, Receive, Answered, Resume, Threads
<1>4. SessionCalm'
  BY <1>2, <1>3 DEF Calm, SessionCalm, InSession, Flushing
<1>5. granted # 0 => pending = <<>>
  BY <1>3 DEF Calm, QueueInOrder
<1>6. QueueInOrder' /\ DocumentCurrent' /\ PutsArrive'
  BY <1>1, <1>3, <1>5, DeliveryKept DEF Calm, OnTheWire
<1> QED
  BY <1>4, <1>6 DEF Calm

-----------------------------------------------------------------------------
(* Queues in order.                                                        *)

LEMMA ShortInOrder == Ascending(<<>>) /\ \A d : Ascending(<<d>>)
BY DEF Ascending

LEMMA RestInOrder ==
    ASSUME NEW q \in Seq(Delta), q # <<>>, Ascending(q)
    PROVE  /\ Ascending(Tail(q))
           /\ \A e \in SeqSet(Tail(q)) : Head(q).stamp < e.stamp
<1>1. /\ Len(q) \in Nat /\ Len(q) >= 1 /\ DOMAIN q = 1 .. Len(q)
      /\ DOMAIN Tail(q) = 1 .. Len(q) - 1 /\ Head(q) = q[1]
      /\ \A i \in 1 .. Len(q) - 1 : Tail(q)[i] = q[i + 1]
  OBVIOUS
<1>2. Ascending(Tail(q))
  <2> SUFFICES ASSUME NEW i \in DOMAIN Tail(q), NEW j \in DOMAIN Tail(q), i < j
               PROVE  Tail(q)[i].stamp < Tail(q)[j].stamp
    BY DEF Ascending
  <2>1. i + 1 \in DOMAIN q /\ j + 1 \in DOMAIN q /\ i + 1 < j + 1
    BY <1>1
  <2> QED
    BY <1>1, <2>1 DEF Ascending
<1>3. ASSUME NEW e \in SeqSet(Tail(q)) PROVE Head(q).stamp < e.stamp
  <2>1. PICK i \in DOMAIN Tail(q) : e = Tail(q)[i]
    BY DEF SeqSet
  <2>2. i + 1 \in DOMAIN q /\ 1 \in DOMAIN q /\ 1 < i + 1 /\ e = q[i + 1]
    BY <1>1, <2>1
  <2> QED
    BY <1>1, <2>2 DEF Ascending
<1> QED
  BY <1>2, <1>3

LEMMA QueuedInOrder ==
    ASSUME NEW q \in Seq(Delta), NEW d \in Delta, Ascending(q),
           \A e \in SeqSet(q) : e.stamp < d.stamp
    PROVE  Ascending(Append(q, d))
<1> DEFINE a == Append(q, d)
<1>1. /\ Len(q) \in Nat /\ DOMAIN q = 1 .. Len(q) /\ DOMAIN a = 1 .. Len(q) + 1
      /\ \A i \in 1 .. Len(q) : a[i] = q[i]
      /\ a[Len(q) + 1] = d
  OBVIOUS
<1> HIDE DEF a
<1>2. SUFFICES ASSUME NEW i \in DOMAIN a, NEW j \in DOMAIN a, i < j
               PROVE  a[i].stamp < a[j].stamp
  BY DEF a, Ascending
<1>3. i \in DOMAIN q /\ a[i] = q[i] /\ q[i] \in SeqSet(q)
  BY <1>1, <1>2 DEF SeqSet
<1>4. CASE j \in DOMAIN q
  BY <1>1, <1>2, <1>3, <1>4 DEF Ascending
<1>5. CASE j = Len(q) + 1
  BY <1>1, <1>3, <1>5
<1> QED
  BY <1>1, <1>4, <1>5

-----------------------------------------------------------------------------
(* The steps of a delta.                                                   *)

LEMMA SendDeltaCalm ==
    ASSUME IInv, ChannelInv, Calm, NEW k \in Keys, SendDelta(k) PROVE Calm'
<1> DEFINE d == [key |-> k, stamp |-> clock + 1]
<1>1. /\ pc \in [Threads -> Labels] /\ batch \in [Threads -> Seq(Delta)]
      /\ posted \subseteq Delta /\ clock \in Int
  BY ClientAssumption DEF IInv, TypeOK
<1>2. /\ UNCHANGED <<pending, posted, doc, granted, member, content, online,
                     payload, sessionToken, req, ans>>
      /\ pc["caller"] = "idle" /\ pc'["heartbeat"] = pc["heartbeat"]
      /\ pc'["caller"] = (IF IsJoined THEN "apply" ELSE "push")
      /\ batch'["caller"] = <<d>>
  BY <1>1 DEF SendDelta, Threads
<1>3. \A e \in mine : e.stamp \in Int /\ e.stamp < clock + 1
  BY <1>1, ClientAssumption DEF ChannelInv, OnePlace, IInv, TypeOK, Delta
<1>4. posted \subseteq mine /\ SeqSet(pending) \subseteq mine
  BY DEF ChannelInv, OnePlace
<1>5. SessionCalm'
  <2>1. CASE Unjoined
    <3>1. ~IsJoined
      BY <2>1, CalmPlaces DEF Calm, IInv, SessionCoherent, IsJoined
    <3> QED
      BY <1>2, <2>1, <3>1 DEF Calm, SessionCalm, Unjoined
  <2>2. CASE InSession
    <3>1. IsJoined
      BY <2>2 DEF InSession, IInv, SessionCoherent, IsJoined
    <3> QED
      BY <1>2, <2>2, <3>1 DEF Calm, SessionCalm, InSession, Flushing
  <2> QED
    BY <1>2, <2>1, <2>2 DEF Calm, SessionCalm, JoinGiven, Leaving, Left
<1>6. QueueInOrder'
  <2>1. SeqSet(batch'["caller"]) = {d} /\ Ascending(batch'["caller"])
        /\ Head(batch'["caller"]) = d
    BY <1>2, OneInSingle, ShortInOrder
  <2>2. granted # 0 => pending = <<>>
    BY <1>2 DEF Calm, QueueInOrder
  <2>3. \A e \in posted \cup SeqSet(pending) : e.stamp < d.stamp
    BY <1>3, <1>4
  <2> HIDE DEF d
  <2>4. \A e \in posted : \A f \in SeqSet(pending) \cup {d} : e.stamp < f.stamp
    BY <2>3 DEF Calm, QueueInOrder
  <2> QED
    BY <1>2, <2>1, <2>2, <2>3, <2>4 DEF Calm, QueueInOrder
<1>7. DocumentCurrent' /\ PutsArrive'
  BY <1>2 DEF Calm, DocumentCurrent, PutsArrive, OnTheWire
<1> QED
  BY <1>5, <1>6, <1>7 DEF Calm

LEMMA QueueDeltaCalm ==
    ASSUME IInv, ChannelInv, Calm, QueueDelta PROVE Calm'
<1> DEFINE d == Head(batch["caller"])
<1>1. /\ pc \in [Threads -> Labels] /\ batch \in [Threads -> Seq(Delta)]
      /\ pending \in Seq(Delta)
  BY DEF IInv, TypeOK
<1>2. batch["caller"] = <<d>> /\ d \in Delta
  BY <1>1 DEF ChannelInv, BatchPlace, QueueDelta, Threads
<1>3. /\ UNCHANGED <<posted, doc, granted, member, content, online, sessionToken>>
      /\ pc["caller"] = "push" /\ pc'["heartbeat"] = pc["heartbeat"]
      /\ pc'["caller"] = "idle"
      /\ batch'["caller"] = <<>> /\ pending' = Append(pending, d)
  BY <1>1 DEF QueueDelta, Threads
<1>4. Unjoined
  BY <1>3, CalmPlaces DEF Calm
<1>5. SessionCalm'
  BY <1>3, <1>4 DEF Calm, SessionCalm, Unjoined
<1>6. QueueInOrder'
  <2>1. SeqSet(batch["caller"]) = {d}
    BY <1>2, OneInSingle
  <2>2. \A e \in SeqSet(pending) : e.stamp < d.stamp
    BY <1>3 DEF Calm, QueueInOrder
  <2>3. Ascending(pending')
    BY <1>1, <1>2, <1>3, <2>2, QueuedInOrder DEF Calm, QueueInOrder
  <2>4. SeqSet(pending') = SeqSet(pending) \cup {d}
    <3>1. d \notin SeqSet(pending) /\ NoRepeats(pending)
      BY <2>1 DEF ChannelInv, OnePlace
    <3> QED
      BY <1>1, <1>2, <1>3, <3>1, Appended
  <2>5. SeqSet(batch'["caller"]) = {} /\ Ascending(batch'["caller"])
    BY <1>3, NothingInEmpty, ShortInOrder
  <2>6. granted = 0
    BY <1>4 DEF Unjoined
  <2> HIDE DEF d
  <2> QED
    BY <1>3, <2>1, <2>3, <2>4, <2>5, <2>6 DEF Calm, QueueInOrder
<1>7. DocumentCurrent' /\ PutsArrive'
  BY <1>3 DEF Calm, DocumentCurrent, PutsArrive, OnTheWire
<1> QED
  BY <1>5, <1>6, <1>7 DEF Calm

LEMMA SwapPendingCalm ==
    ASSUME IInv, ChannelInv, Calm, SwapPending("caller") PROVE Calm'
<1>1. pc \in [Threads -> Labels] /\ batch \in [Threads -> Seq(Delta)]
  BY DEF IInv, TypeOK
<1>2. /\ UNCHANGED <<posted, doc, granted, member, content, online, sessionToken,
                     req, ans>>
      /\ pc["caller"] = "swap" /\ pc'["heartbeat"] = pc["heartbeat"]
      /\ pc'["caller"] \in {"idle", "apply"}
      /\ batch'["caller"] = pending /\ pending' = <<>>
  BY <1>1 DEF SwapPending, Resume, Threads
<1>3. InSession
  BY <1>2, CalmPlaces DEF Calm, Flushing
<1>4. SessionCalm'
  BY <1>2, <1>3 DEF Calm, SessionCalm, InSession, Flushing
<1>5. QueueInOrder'
  BY <1>2, NothingInEmpty, ShortInOrder DEF Calm, QueueInOrder
<1>6. DocumentCurrent' /\ PutsArrive'
  BY <1>2 DEF Calm, DocumentCurrent, PutsArrive, OnTheWire
<1> QED
  BY <1>4, <1>5, <1>6 DEF Calm

LEMMA ApplyDeltaCalm ==
    ASSUME IInv, ChannelInv, Calm, ApplyDelta("caller") PROVE Calm'
<1> DEFINE d == Head(batch["caller"])
<1>1. /\ pc \in [Threads -> Labels] /\ batch \in [Threads -> Seq(Delta)]
      /\ payload \in [Threads -> Payload] /\ posted \subseteq Delta
      /\ doc \in [Keys -> Int]
  BY DEF IInv, TypeOK, Text, Stamps
<1>2. /\ UNCHANGED <<posted, pending, batch, granted, member, content, online,
                     sessionToken, req, ans>>
      /\ pc["caller"] = "apply" /\ pc'["heartbeat"] = pc["heartbeat"]
      /\ pc'["caller"] = "issue"
      /\ doc' = IF Stubbed(d) THEN doc ELSE [doc EXCEPT ![d.key] = d.stamp]
      /\ payload'["caller"] = [part |-> PartOf(d.key), text |-> Serialized(d)]
  BY <1>1 DEF ApplyDelta, Threads
<1>3. d \in Delta /\ d \in SeqSet(batch["caller"])
  <2>1. batch["caller"] \in Seq(Delta) /\ batch["caller"] # <<>>
    BY <1>1, <1>2 DEF IInv, BatchHeld, Threads
  <2> QED
    BY <2>1, HeadAndTail DEF ChannelInv, OnePlace
<1>4. d.key \in Keys /\ d.stamp \in Int
  BY <1>3, ClientAssumption DEF Delta
<1>5. InSession
  BY <1>2, CalmPlaces DEF Calm, Flushing
<1>6. SessionCalm'
  BY <1>2, <1>5 DEF Calm, SessionCalm, InSession, Flushing
<1>7. QueueInOrder'
  BY <1>2 DEF Calm, QueueInOrder
<1>8. \A k \in Keys : Whole(k) <=> Loaded \/ k \notin Paragraphs
  BY ClientAssumption DEF Whole, Keys
<1>9. DocumentCurrent'
  <2>1. ASSUME NEW e \in posted, Whole(e.key) PROVE doc'[e.key] >= e.stamp
    <3>1. e.key \in Keys /\ e.stamp \in Int
      BY <1>1, ClientAssumption DEF Delta
    <3>2. doc[e.key] >= e.stamp
      BY <2>1 DEF Calm, DocumentCurrent
    <3>3. e.stamp < d.stamp
      BY <1>3 DEF Calm, QueueInOrder
    <3> HIDE DEF d
    <3> QED
      BY <1>1, <1>2, <1>4, <3>1, <3>2, <3>3
  <2>2. Whole(d.key) => doc'[d.key] = d.stamp
    BY <1>1, <1>2, <1>4, <1>8 DEF Stubbed
  <2>3. \A k \in PartOf(d.key) : Whole(k) => payload'["caller"].text[k] = doc'[k]
    <3>1. CASE Stubbed(d)
      BY <1>4, <1>8, <3>1, ClientAssumption DEF Stubbed, PartOf, Keys
    <3>2. CASE ~Stubbed(d)
      BY <1>2, <3>2 DEF Serialized
    <3> QED
      BY <3>1, <3>2
  <2>4. payload'["caller"].part = PartOf(d.key)
    BY <1>2
  <2> QED
    BY <1>2, <2>1, <2>2, <2>3, <2>4 DEF DocumentCurrent
<1>10. PutsArrive'
  BY <1>2 DEF Calm, PutsArrive, OnTheWire
<1> QED
  BY <1>6, <1>7, <1>9, <1>10 DEF Calm

LEMMA PutChangesCalm ==
    ASSUME IInv, ChannelInv, Calm, PutChanges("caller") PROVE Calm'
<1> DEFINE d == Head(batch["caller"])
<1>1. /\ pc \in [Threads -> Labels] /\ batch \in [Threads -> Seq(Delta)]
      /\ req \in [Threads -> Request] /\ ans \in [Threads -> Answer]
      /\ posted \subseteq Delta /\ doc \in [Keys -> Int]
  BY DEF IInv, TypeOK, Text, Stamps
<1>2. TokenRead = {sessionToken}
  BY CalmPlaces DEF Calm, TokenRead, HeartbeatAssignsToken
<1>3. /\ UNCHANGED <<pending, doc, granted, member, content, online, sessionToken>>
      /\ pc["caller"] = "issue" /\ pc'["heartbeat"] = pc["heartbeat"]
      /\ pc'["caller"] = "put" /\ posted' = posted \cup {d}
      /\ batch'["caller"] = Tail(batch["caller"])
      /\ req'["caller"] = [NoRequest EXCEPT !.op = "put", !.tok = sessionToken,
                                           !.put = payload["caller"]]
      /\ ans'["caller"] = Waiting
      /\ req'["heartbeat"] = req["heartbeat"] /\ ans'["heartbeat"] = ans["heartbeat"]
  BY <1>1, <1>2 DEF PutChanges, Post, Threads
<1>4. /\ req'["caller"].tok = sessionToken /\ req'["caller"].put = payload["caller"]
      /\ ans'["caller"].kind = "waiting"
  BY <1>3 DEF NoRequest, Waiting
<1>5. InSession
  BY <1>3, CalmPlaces DEF Calm, Flushing
<1>6. SessionCalm'
  BY <1>3, <1>4, <1>5 DEF Calm, SessionCalm, InSession, Flushing
<1>7. batch["caller"] \in Seq(Delta) /\ batch["caller"] # <<>>
  BY <1>1, <1>3 DEF IInv, BatchHeld, Threads
<1>8. /\ SeqSet(batch["caller"]) = {d} \cup SeqSet(batch'["caller"])
      /\ Ascending(batch'["caller"])
      /\ \A e \in SeqSet(batch'["caller"]) : d.stamp < e.stamp
  BY <1>3, <1>7, HeadAndTail, RestInOrder DEF Calm, QueueInOrder, ChannelInv, OnePlace
<1>9. d \in Delta
  BY <1>7
<1> HIDE DEF d
<1>10. d.key \in Keys /\ d.stamp \in Int
  BY <1>9, ClientAssumption DEF Delta
<1>11. QueueInOrder'
  <2>1. pending = <<>> /\ SeqSet(pending) = {}
    BY <1>3, <1>5, NothingInEmpty DEF Calm, QueueInOrder, InSession
  <2> QED
    BY <1>3, <1>8, <2>1 DEF Calm, QueueInOrder
<1>12. /\ payload["caller"].part = PartOf(d.key)
       /\ Whole(d.key) => doc[d.key] = d.stamp
       /\ \A k \in PartOf(d.key) : Whole(k) => payload["caller"].text[k] = doc[k]
  BY <1>3 DEF Calm, DocumentCurrent, d
<1>13. DocumentCurrent'
  <2>1. ASSUME NEW e \in posted', Whole(e.key) PROVE doc[e.key] >= e.stamp
    BY <1>3, <1>10, <1>12, <2>1 DEF Calm, DocumentCurrent
  <2> QED
    BY <1>3, <1>4, <1>12, <2>1 DEF DocumentCurrent
<1>14. PutsArrive'
  <2> SUFFICES ASSUME NEW e \in posted', Whole(e.key)
               PROVE  OnTheWire(e.key)' \/ content'[e.key] >= e.stamp
    BY DEF PutsArrive
  <2>1. CASE e = d
    <3>1. d.key \in PartOf(d.key)
      BY <1>10 DEF PartOf, Keys
    <3> QED
      BY <1>3, <1>4, <1>12, <2>1, <3>1 DEF OnTheWire
  <2>2. CASE e \in posted
    BY <1>3, <2>2 DEF Calm, PutsArrive, OnTheWire
  <2> QED
    BY <1>3, <2>1, <2>2
<1> QED
  BY <1>6, <1>11, <1>13, <1>14 DEF Calm

-----------------------------------------------------------------------------
(* The server.                                                             *)

LEMMA ServeJoinCalm ==
    ASSUME IInv, ChannelInv, Calm, NEW t \in Threads, Serve(t), ServeJoin(t),
           faults' = faults
    PROVE  Calm'
<1>1. /\ req \in [Threads -> Request] /\ ans \in [Threads -> Answer]
      /\ granted \in Nat /\ faults \in Nat /\ posted \subseteq Delta
  BY ClientAssumption DEF IInv, TypeOK
<1>2. t = "caller" /\ pc["caller"] = "join"
  <2>1. OpAt(t) = "join"
    BY DEF ServeJoin, Waits, IInv, RequestsFollowLabels
  <2>2. pc[t] \in {"join", "rejoin"}
    BY <2>1 DEF OpAt
  <2> QED
    BY <2>2, CalmPlaces DEF Calm, IInv, ThreadsOwnLabels, CallerLabels, PollLabels,
       Threads
<1>3. granted = 0 /\ Unjoined
  BY <1>2 DEF ServeJoin, Waits, Calm, SessionCalm, Unjoined, JoinGiven, InSession,
     Leaving, Left, Flushing
<1>4. /\ granted' = 1 /\ member' = 1
      /\ ans'["caller"] = [kind |-> "ok", tok |-> 1, ver |-> 0]
      /\ UNCHANGED <<pending, posted, doc, batch, payload, pc, req, content, online>>
  BY <1>1, <1>2, <1>3 DEF Serve, ServeJoin, Reply, Fault
<1>5. SessionCalm'
  BY <1>2, <1>3, <1>4 DEF Calm, SessionCalm, Unjoined, JoinGiven, NoToken
<1>6. QueueInOrder' /\ DocumentCurrent' /\ PutsArrive'
  BY <1>1, <1>2, <1>4, DeliveryKept DEF Calm, OnTheWire
<1> QED
  BY <1>5, <1>6 DEF Calm

LEMMA ServeRefreshCalm ==
    ASSUME IInv, ChannelInv, Calm, NEW t \in Threads, Serve(t), ServeRefresh(t),
           faults' = faults
    PROVE  Calm'
<1>1. req \in [Threads -> Request] /\ ans \in [Threads -> Answer] /\ faults \in Nat
  BY ClientAssumption DEF IInv, TypeOK
<1>2. t = "heartbeat" /\ pc["heartbeat"] = "refresh"
  <2>1. OpAt(t) = "refresh"
    BY DEF ServeRefresh, Waits, IInv, RequestsFollowLabels
  <2>2. pc[t] = "refresh"
    BY <2>1 DEF OpAt
  <2> QED
    BY <2>2 DEF IInv, ThreadsOwnLabels, CallerLabels, PollLabels, Threads
<1>3. InSession /\ Member(t)
  BY <1>2, CalmPlaces DEF Calm, InSession, Member
<1>4. /\ ans'["heartbeat"].kind = "ok" /\ ans'["caller"] = ans["caller"]
      /\ UNCHANGED <<pending, posted, doc, batch, payload, pc, req, content, online,
                     granted, member, sessionToken>>
  BY <1>1, <1>2, <1>3 DEF Serve, ServeRefresh, Reply, Fault, Waiting, Threads
<1>5. SessionCalm'
  BY <1>3, <1>4 DEF Calm, SessionCalm, InSession
<1> QED
  BY <1>4, <1>5, AsideStep DEF Calm

LEMMA ServeExitCalm ==
    ASSUME IInv, ChannelInv, Calm, NEW t \in Threads, Serve(t), ServeExit(t)
    PROVE  Calm'
<1>1. /\ req \in [Threads -> Request] /\ ans \in [Threads -> Answer]
      /\ posted \subseteq Delta
  BY DEF IInv, TypeOK
<1>2. t = "caller" /\ pc["caller"] = "exit"
  <2>1. OpAt(t) = "exit"
    BY DEF ServeExit, Waits, IInv, RequestsFollowLabels
  <2>2. pc[t] = "exit"
    BY <2>1 DEF OpAt
  <2> QED
    BY <2>2 DEF IInv, ThreadsOwnLabels, HeartbeatLabels, PollLabels, Threads
<1>3. Leaving /\ Member(t)
  BY <1>2 DEF ServeExit, Waits, Calm, SessionCalm, Unjoined, JoinGiven, InSession,
     Leaving, Left, Flushing, Member
<1>4. /\ ans'["caller"].kind = "ok" /\ member' = NoToken
      /\ UNCHANGED <<pending, posted, doc, batch, payload, pc, req, content, online,
                     granted>>
  BY <1>1, <1>2, <1>3 DEF Serve, ServeExit, Reply, Waiting, Threads
<1>5. SessionCalm'
  BY <1>3, <1>4 DEF Calm, SessionCalm, Leaving
<1>6. granted # 0 => pending = <<>>
  BY <1>2 DEF Calm, QueueInOrder
<1>7. QueueInOrder' /\ DocumentCurrent' /\ PutsArrive'
  BY <1>1, <1>2, <1>4, <1>6, DeliveryKept DEF Calm, OnTheWire
<1> QED
  BY <1>5, <1>7 DEF Calm

\* The text put is the document's, which has the last delta of each key.
LEMMA ServePutCalm ==
    ASSUME IInv, ChannelInv, Calm, NEW t \in Threads, Serve(t), ServePut(t)
    PROVE  Calm'
<1>1. /\ req \in [Threads -> Request] /\ ans \in [Threads -> Answer]
      /\ posted \subseteq Delta
  BY DEF IInv, TypeOK
<1>2. t = "caller" /\ pc["caller"] = "put"
  <2>1. OpAt(t) = "put"
    BY DEF ServePut, Waits, IInv, RequestsFollowLabels
  <2>2. pc[t] = "put"
    BY <2>1 DEF OpAt
  <2> QED
    BY <2>2, CalmPlaces DEF Calm, IInv, ThreadsOwnLabels, PollLabels, Threads
<1>3. InSession /\ Member(t)
  BY <1>2, CalmPlaces DEF Calm, InSession, Member, Flushing
<1>4. /\ ans'["caller"].kind = "ok" /\ ans'["heartbeat"] = ans["heartbeat"]
      /\ UNCHANGED <<pending, posted, doc, batch, payload, pc, req, online, granted,
                     member, sessionToken>>
      /\ content' = [k \in Keys |-> IF k \in req["caller"].put.part
                                     THEN req["caller"].put.text[k] ELSE content[k]]
  BY <1>1, <1>2, <1>3 DEF Serve, ServePut, Reply, Waiting, Threads
<1>5. SessionCalm'
  BY <1>2, <1>3, <1>4 DEF Calm, SessionCalm, InSession
<1>6. QueueInOrder' /\ DocumentCurrent'
  BY <1>2, <1>4 DEF Calm, QueueInOrder, DocumentCurrent
<1>7. PutsArrive'
  <2> SUFFICES ASSUME NEW d \in posted, Whole(d.key) PROVE content'[d.key] >= d.stamp
    BY <1>4 DEF PutsArrive
  <2>1. d.key \in Keys
    BY <1>1 DEF Delta
  <2>2. CASE d.key \in req["caller"].put.part
    BY <1>2, <1>4, <2>1, <2>2 DEF Calm, DocumentCurrent
  <2>3. CASE d.key \notin req["caller"].put.part
    BY <1>4, <2>1, <2>3 DEF Calm, PutsArrive, OnTheWire
  <2> QED
    BY <2>2, <2>3
<1> QED
  BY <1>5, <1>6, <1>7 DEF Calm

LEMMA ServeGetCalm ==
    ASSUME IInv, ChannelInv, Calm, NEW t \in Threads, Serve(t), ServeGet(t)
    PROVE  Calm'
<1>1. req \in [Threads -> Request] /\ ans \in [Threads -> Answer]
  BY DEF IInv, TypeOK
<1>2. t = "poll"
  <2>1. OpAt(t) = "get"
    BY DEF ServeGet, Waits, IInv, RequestsFollowLabels
  <2>2. pc[t] \in {"get", "deliver"}
    BY <2>1 DEF OpAt
  <2> QED
    BY <2>2 DEF IInv, ThreadsOwnLabels, CallerLabels, HeartbeatLabels, Threads
<1>3. /\ \A u \in {"caller", "heartbeat"} : req'[u] = req[u] /\ ans'[u] = ans[u]
      /\ UNCHANGED <<pending, posted, doc, batch, payload, pc, content, online,
                     granted, member, sessionToken>>
  BY <1>1, <1>2 DEF Serve, ServeGet, Reply, Threads
<1>4. SessionCalm'
  BY <1>3, PlaceKept DEF Calm
<1> QED
  BY <1>3, <1>4, AsideStep DEF Calm

-----------------------------------------------------------------------------
(* The theorem.                                                            *)

LEMMA CalmInit == Init => CalmInv
<1> SUFFICES ASSUME Init PROVE Calm /\ NoneStuck
  BY DEF CalmInv
<1>1. /\ pending = <<>> /\ batch["caller"] = <<>> /\ posted = {}
      /\ pc["caller"] = "idle" /\ pc["heartbeat"] = "off"
      /\ online /\ granted = 0 /\ member = NoToken
  BY DEF Init, Threads, NoToken
<1>2. SessionCalm
  BY <1>1 DEF SessionCalm, Unjoined
<1>3. QueueInOrder
  BY <1>1, ShortInOrder, NothingInEmpty DEF QueueInOrder
<1>4. DocumentCurrent /\ PutsArrive
  BY <1>1 DEF DocumentCurrent, PutsArrive
<1>5. NoneStuck
  BY DEF Init, NoneStuck, Stuck, Waiting
<1> QED
  BY <1>2, <1>3, <1>4, <1>5 DEF Calm

\* Only a fault makes a token call hang.
LEMMA NoneGetsStuck ==
    ASSUME TypeOK, NoneStuck, [Next]_vars, faults' = faults
    PROVE  NoneStuck'
<1>1. ans \in [Threads -> Answer] /\ faults \in Nat
  BY ClientAssumption DEF TypeOK
<1>2. Waiting.kind # "stuck" /\ Lost.kind # "stuck" /\ Refused.kind # "stuck"
  BY DEF Waiting, Lost, Refused
<1>3. SUFFICES ans' = ans \/ \E t \in Threads : \E a : ans' = [ans EXCEPT ![t] = a] /\ a.kind # "stuck"
  BY <1>1, <1>3 DEF NoneStuck, Stuck
<1>4. CASE Editor \/ Caller \/ Closed \/ UNCHANGED vars
  BY <1>2, <1>4 DEF Editor, Caller, Closed, vars, JoinSession, ExitSession, SendDelta,
     JoinReturns, QueueDelta, ThreadsJoined, ExitReturns, Flush, SwapPending,
     ApplyDelta, PutChanges, PutReturns, Post, Receive, Threads
<1>5. CASE Heartbeat \/ Poll
  BY <1>2, <1>5 DEF Heartbeat, Poll, HeartbeatWakes, RefreshReturns, ForgetToken,
     BackoffEnds, RejoinReturns, Rejoined, ClearKnowledge, Flush, SwapPending,
     ApplyDelta, PutChanges, PutReturns, PollWakes, GetChanges, ChangesArrive,
     DeliverChanges, Post, Receive, Threads
<1>6. CASE \E t \in Threads : Wire(t)
  BY <1>2, <1>6 DEF Wire, Serve, Lose, ServeJoin, ServeRefresh, ServeExit, ServePut,
     ServeGet, Reply, Waiting
<1>7. CASE Environment
  BY <1>1, <1>2, <1>7 DEF Environment, NetworkFails, NetworkRecovers, ServerForgets,
     RemoteEdit, Cut, TokenCallHangs, TokenCallEnds, Reply, Fault
<1> QED
  BY <1>4, <1>5, <1>6, <1>7 DEF Next

LEMMA FaultsRemain ==
    ASSUME TypeOK, [Next]_vars, faults' = 0 PROVE faults = 0
<1>1. faults \in Nat
  BY ClientAssumption DEF TypeOK
<1>2. faults' = faults \/ faults' = faults + 1
  <2>1. CASE Editor \/ Caller \/ Closed \/ UNCHANGED vars
    BY <2>1 DEF Editor, Caller, Closed, vars, JoinSession, ExitSession, SendDelta,
       JoinReturns, QueueDelta, ThreadsJoined, ExitReturns, Flush, SwapPending,
       ApplyDelta, PutChanges, PutReturns
  <2>2. CASE Heartbeat \/ Poll
    BY <2>2 DEF Heartbeat, Poll, HeartbeatWakes, RefreshReturns, ForgetToken,
       BackoffEnds, RejoinReturns, Rejoined, ClearKnowledge, Flush, SwapPending, ApplyDelta, PutChanges,
       PutReturns, PollWakes, GetChanges, ChangesArrive, DeliverChanges
  <2>3. CASE \E t \in Threads : Wire(t)
    BY <2>3 DEF Wire, Serve, Lose, ServeJoin, ServeRefresh, ServeExit, ServePut,
       ServeGet, Fault, NoFault
  <2>4. CASE Environment
    BY <2>4 DEF Environment, NetworkFails, NetworkRecovers, ServerForgets, RemoteEdit,
       Cut, TokenCallHangs, TokenCallEnds, Fault
  <2> QED
    BY <2>1, <2>2, <2>3, <2>4 DEF Next
<1> QED
  BY <1>1, <1>2

LEMMA CalmNext == IInv /\ ChannelInv /\ CalmInv /\ [Next]_vars => CalmInv'
<1> SUFFICES ASSUME IInv, ChannelInv, CalmInv, [Next]_vars, faults' = 0 PROVE Calm'
  BY FaultsRemain, NoneGetsStuck DEF CalmInv, IInv
<1>1. Calm /\ NoneStuck /\ faults' = faults
  BY FaultsRemain DEF CalmInv, IInv
<1>2. CASE Editor
  BY <1>1, <1>2, JoinSessionCalm, ExitSessionCalm, SendDeltaCalm DEF Editor
<1>3. CASE Caller
  BY <1>1, <1>3, JoinReturnsCalm, QueueDeltaCalm, ThreadsJoinedCalm, ExitReturnsCalm,
     SwapPendingCalm, ApplyDeltaCalm, PutChangesCalm, PutReturnsCalm DEF Caller, Flush
<1>4. CASE Heartbeat
  BY <1>1, <1>4, HeartbeatCalm
<1>5. CASE Poll
  BY <1>1, <1>5, PollCalm
<1>6. CASE \E t \in Threads : Wire(t)
  <2>1. PICK t \in Threads : Wire(t)
    BY <1>6
  <2>2. Serve(t)
    BY <1>1, <2>1 DEF Wire, Lose, Calm, SessionCalm
  <2>3. \/ ServeJoin(t) \/ ServeRefresh(t) \/ ServeExit(t) \/ ServePut(t)
        \/ ServeGet(t)
    BY <2>2 DEF Serve
  <2> QED
    BY <1>1, <2>2, <2>3, ServeJoinCalm, ServeRefreshCalm, ServeExitCalm, ServePutCalm,
       ServeGetCalm
<1>7. CASE Environment
  BY <1>1, <1>7, EnvironmentCalm
<1>8. CASE Closed \/ UNCHANGED vars
  <2>1. UNCHANGED vars
    BY <1>8 DEF Closed
  <2>2. SessionCalm'
    BY <1>1, <2>1, PlaceKept DEF vars, Calm
  <2> QED
    BY <1>1, <2>1, <2>2, AsideStep DEF vars, Calm
<1> QED
  BY <1>2, <1>3, <1>4, <1>5, <1>6, <1>7, <1>8 DEF Next

\* When nothing went wrong and the caller is in no call, every delta it handed over
\* has reached the server, and no later put took it back to an older text; and a
\* closed document has left the server's session.
THEOREM CalmClientDelivers == Spec => []CalmSessionDelivers
<1>1. IInv /\ ChannelInv /\ CalmInv => CalmSessionDelivers
  <2> SUFFICES ASSUME IInv, ChannelInv, Calm, granted > 0,
                      pc["caller"] \in {"idle", "closed"}
               PROVE  /\ pending = <<>>
                      /\ \A d \in mine : Loaded \/ d.key \in Comments =>
                                             content[d.key] >= d.stamp
                      /\ pc["caller"] = "closed" => member = NoToken
    BY DEF CalmInv, CalmSessionDelivers
  <2>1. pending = <<>>
    BY DEF Calm, QueueInOrder, IInv, TypeOK
  <2>2. batch["caller"] = <<>> /\ batch["heartbeat"] = <<>>
    BY CalmPlaces DEF Calm, ChannelInv, BatchPlace
  <2>3. mine = posted
    BY <2>1, <2>2, NothingInEmpty DEF ChannelInv, OnePlace
  <2>4. \A d \in mine : Whole(d.key) => content[d.key] >= d.stamp
    BY <2>3 DEF Calm, PutsArrive, OnTheWire
  <2>5. pc["caller"] = "closed" => member = NoToken
    BY DEF Calm, SessionCalm, Unjoined, JoinGiven, InSession, Leaving, Left, Flushing
  <2> QED
    BY <2>1, <2>4, <2>5 DEF Whole
<1>2. Spec => []CalmInv
  BY ChannelInductive, CalmInit, CalmNext, PTL DEF Spec
<1> QED
  BY <1>1, <1>2, ChannelInductive, PTL
=============================================================================
