--------------------------- MODULE FsshttpClient ----------------------------
(***************************************************************************)
(* One FsshttpClient: the caller (the editor's UI thread, which joins,     *)
(* sends deltas and exits), the 30 s heartbeat thread and the 5 s poll     *)
(* thread, with the network and the FSSHTTP server as environment.         *)
(*                                                                         *)
(* A local delta is a pair of a key (the paragraph or comment it sets) and *)
(* a stamp drawn from one clock shared with the remote co-author, so that  *)
(* of two texts of a key the one with the larger stamp is the newer.       *)
(* Reading a plain member of FsshttpSession is a step of its own, and so   *)
(* is each assignment to one that another thread can tell from the next.   *)
(* Taking and releasing a mutex is one atomic step, and post() is two: the *)
(* request goes on the wire, and later its response (or nothing, or the    *)
(* part of it that arrived) is read.                                       *)
(***************************************************************************)
EXTENDS FsshttpSession, Sequences, FiniteSets

CONSTANTS
    Paragraphs,     \* paragraph indices of the document; 0 is one of them
    Comments,       \* comment ids
    Loaded,         \* did loadDocument read the local .docx?
    MaxEdits,       \* bound: local and remote edits made
    MaxFaults,      \* bound: things that go wrong in the network and server
    Timely          \* do the sleeps and timeouts order steps? (see Quiet)

ASSUME ClientAssumption ==
    /\ Paragraphs \subseteq Nat /\ 0 \in Paragraphs
    /\ Comments \cap Paragraphs = {}
    /\ Loaded \in BOOLEAN /\ Timely \in BOOLEAN
    /\ MaxEdits \in Nat /\ MaxFaults \in Nat

VARIABLES
    running,        \* m_running
    pending,        \* m_pendingDeltas
    knowledge,      \* m_knowledgeB64
    doc,            \* m_document: the stamp of each key's text
    pc,             \* where each thread is
    attempt,        \* heartbeatLoop's attempt
    batch,          \* deltas a thread has taken and not yet put
    payload,        \* the part a thread serialized for the delta it sends
    req, ans,       \* each thread's request and what the wire answers
    dropped,        \* onSessionDropped was called
    online,         \* requests get through, with a bearer token
    faults,         \* how many things went wrong so far
    member,         \* the session token the server honours
    granted,        \* the last session token the server issued
    content,        \* the server's text of each key
    version,        \* counts the server's changes; what knowledge names
    clock,          \* the last stamp given out
    mine, posted,   \* local deltas: accepted by sendDelta, put on the wire
    seen,           \* up to which version the editor was handed every change
    skipped         \* knowledge was taken from an answer whose changes were cut off

queueVars   == <<pending, batch>>
docVars     == <<knowledge, doc>>
controlVars == <<running, attempt, dropped>>
wireVars    == <<req, ans>>
serverVars  == <<member, granted, content, version>>
historyVars == <<mine, posted, seen, skipped>>
vars == <<sessionVars, running, pending, knowledge, doc, pc, attempt, batch,
          payload, req, ans, dropped, online, faults, member, granted,
          content, version, clock, mine, posted, seen, skipped>>

-----------------------------------------------------------------------------
Threads == {"caller", "heartbeat", "poll"}
Keys    == Paragraphs \cup Comments
MaxAttempts == 3
Torn == -1          \* a sessionToken read while another thread assigns it
Gone == -1          \* a paragraph the stub document does not have

Stamps    == Int
Tokens    == Int
Delta     == [key: Keys, stamp: 1 .. MaxEdits]
Knowledge == Nat        \* up to which of the server's versions
Root      == 0          \* the empty knowledge
Text      == [Keys -> Stamps]
Payload   == [part: SUBSET Keys, text: Text]
NoPayload == [part |-> {}, text |-> [k \in Keys |-> 0]]

Ops       == {"none", "join", "refresh", "exit", "get", "put"}
Request   == [op: Ops, tok: Tokens, know: Knowledge, put: Payload, late: BOOLEAN]
NoRequest == [op |-> "none", tok |-> NoToken, know |-> Root, put |-> NoPayload,
              late |-> FALSE]

\* "stuck" is a request whose token provider is still calling the identity service;
\* "cut" an answer that arrived up to its CurrentKnowledge and no further.
Answer  == [kind: {"stuck", "waiting", "none", "error", "ok", "cut"}, tok: Nat, ver: Nat]
Waiting == [kind |-> "waiting", tok |-> NoToken, ver |-> 0]
Lost    == [Waiting EXCEPT !.kind = "none"]     \* post() returned ""
Refused == [Waiting EXCEPT !.kind = "error"]    \* an ErrorCode that is not Success

IsJoined == state = "Joined"

\* The package part a key lives in: a delta is put as its whole part.
PartOf(k) == IF k \in Comments THEN Comments ELSE Paragraphs

Init ==
    /\ SessionInit
    /\ running = FALSE /\ pending = <<>> /\ knowledge = Root
    /\ doc = [k \in Keys |-> 0]
    /\ pc = [t \in Threads |-> IF t = "caller" THEN "idle" ELSE "off"]
    /\ attempt = 0
    /\ batch = [t \in Threads |-> <<>>]
    /\ payload = [t \in Threads |-> NoPayload]
    /\ req = [t \in Threads |-> NoRequest] /\ ans = [t \in Threads |-> Waiting]
    /\ dropped = FALSE
    /\ online = TRUE /\ faults = 0
    /\ member = NoToken /\ granted = NoToken
    /\ content = [k \in Keys |-> 0] /\ version = 1
    /\ clock = 0 /\ mine = {} /\ posted = {} /\ seen = 0 /\ skipped = FALSE

-----------------------------------------------------------------------------
(* Threads and the wire.                                                   *)

Goto(t, label) == pc' = [pc EXCEPT ![t] = label]

\* The first half of post(): thread t's request is on the wire.
Post(t, r) ==
    /\ req' = [req EXCEPT ![t] = r]
    /\ ans' = [ans EXCEPT ![t] = Waiting]

\* The second half: t has its answer and the request is over.
Stuck(t) == ans[t].kind = "stuck"
Answered(t) == req[t].op # "none" /\ ans[t].kind # "waiting" /\ ~Stuck(t)
Receive(t) ==
    /\ Answered(t)
    /\ req' = [req EXCEPT ![t] = NoRequest]
    /\ ans' = [ans EXCEPT ![t] = Waiting]

Coauth(op, token) == [NoRequest EXCEPT !.op = op, !.tok = token]

\* heartbeatLoop is about to assign m_sessionToken, which nothing protects:
\* a thread copying the string at that moment may get neither value.
HeartbeatAssignsToken ==
    \/ pc["heartbeat"] = "rejoin" /\ Answered("heartbeat")
    \/ pc["heartbeat"] = "forget"

TokenRead == {sessionToken} \cup (IF HeartbeatAssignsToken THEN {Torn} ELSE {})

-----------------------------------------------------------------------------
(* flushPendingDeltas and sendDeltaImmediate, which the caller and the     *)
(* heartbeat both run.                                                     *)

Resume(t) == IF t = "caller" THEN "idle" ELSE "sleep"

SwapPending_LeavesQueue(t) ==
    /\ pc[t] = "swap"
    /\ batch' = [batch EXCEPT ![t] = pending]
    /\ Goto(t, IF pending = <<>> THEN Resume(t) ELSE "apply")
    /\ UNCHANGED <<sessionVars, pending, docVars, controlVars, wireVars, serverVars,
                   historyVars, payload, online, faults, clock>>

\* The queue is swapped for an empty one under m_deltaMutex.
SwapPending(t) ==
    /\ pc[t] = "swap"
    /\ batch' = [batch EXCEPT ![t] = pending]
    /\ pending' = <<>>
    /\ Goto(t, IF pending = <<>> THEN Resume(t) ELSE "apply")
    /\ UNCHANGED <<sessionVars, docVars, controlVars, wireVars, serverVars,
                   historyVars, payload, online, faults, clock>>

\* deltaToOoxmlStub: a document whose only paragraph is this one.
Stub(d) == [k \in Keys |-> IF k = 0 THEN d.stamp ELSE Gone]

\* The text serialized for a delta, after it is applied.
Stubbed(d) == d.key \in Paragraphs /\ ~Loaded
Serialized_BeforeApply(d) == IF Stubbed(d) THEN Stub(d) ELSE doc
Serialized(d) == IF Stubbed(d) THEN Stub(d) ELSE doc'

\* Under m_documentMutex: apply the delta, serialize the part it is in.
ApplyDelta(t) ==
    /\ pc[t] = "apply"
    /\ LET d == Head(batch[t])
       IN  /\ doc' = IF Stubbed(d) THEN doc ELSE [doc EXCEPT ![d.key] = d.stamp]
           /\ payload' = [payload EXCEPT ![t] =
                             [part |-> PartOf(d.key), text |-> Serialized(d)]]
    /\ Goto(t, "issue")
    /\ UNCHANGED <<sessionVars, queueVars, knowledge, controlVars, wireVars,
                   serverVars, historyVars, online, faults, clock>>

\* encodeCellPutChanges with the token of this moment, then post().
PutChanges(t) ==
    /\ pc[t] = "issue"
    /\ \E token \in TokenRead :
           Post(t, [NoRequest EXCEPT !.op = "put", !.tok = token, !.put = payload[t]])
    /\ payload' = [payload EXCEPT ![t] = NoPayload]
    /\ posted' = posted \cup {Head(batch[t])}
    /\ batch' = [batch EXCEPT ![t] = Tail(@)]
    /\ Goto(t, "put")
    /\ UNCHANGED <<sessionVars, pending, docVars, controlVars, serverVars,
                   online, faults, clock, mine, seen, skipped>>

\* The response is discarded; the flush goes on with its next delta.
PutReturns(t) ==
    /\ pc[t] = "put"
    /\ Receive(t)
    /\ Goto(t, IF batch[t] = <<>> THEN Resume(t) ELSE "apply")
    /\ UNCHANGED <<sessionVars, queueVars, docVars, controlVars, serverVars,
                   historyVars, payload, online, faults, clock>>

Flush(t) == SwapPending(t) \/ ApplyDelta(t) \/ PutChanges(t) \/ PutReturns(t)

-----------------------------------------------------------------------------
(* The caller: joinSession, sendDelta, exitSession.                        *)

JoinSession ==
    /\ pc["caller"] = "idle" /\ pc["heartbeat"] = "off"
    /\ SetJoining
    /\ Post("caller", Coauth("join", NoToken))
    /\ Goto("caller", "join")
    /\ UNCHANGED <<queueVars, docVars, controlVars, serverVars, historyVars,
                   payload, online, faults, clock>>

\* decodeJoinResponse: a grant carries a token; nothing, or an error, is a failure.
JoinReturns ==
    /\ pc["caller"] = "join"
    /\ Receive("caller")
    /\ IF ans["caller"].kind = "ok"
       THEN /\ JoinGranted(ans["caller"].tok)
            /\ knowledge' = Root
            /\ running' = TRUE
            /\ pc' = [t \in Threads |-> IF t = "caller" THEN "swap" ELSE "sleep"]
       ELSE /\ JoinRefused
            /\ Goto("caller", "idle")
            /\ UNCHANGED <<knowledge, running>>
    /\ UNCHANGED <<queueVars, doc, attempt, dropped, serverVars, historyVars,
                   payload, online, faults, clock>>

\* sendDelta tests isJoined() without a lock and then acts on what it saw.
SendDelta(k) ==
    /\ pc["caller"] = "idle"
    /\ clock < MaxEdits
    /\ clock' = clock + 1
    /\ LET d == [key |-> k, stamp |-> clock + 1]
       IN  /\ mine' = mine \cup {d}
           /\ batch' = [batch EXCEPT !["caller"] = <<d>>]
    /\ Goto("caller", IF IsJoined THEN "apply" ELSE "push")
    /\ UNCHANGED <<sessionVars, pending, docVars, controlVars, wireVars,
                   serverVars, payload, online, faults, posted, seen, skipped>>

QueueDelta ==
    /\ pc["caller"] = "push"
    /\ pending' = Append(pending, Head(batch["caller"]))
    /\ batch' = [batch EXCEPT !["caller"] = <<>>]
    /\ Goto("caller", "idle")
    /\ UNCHANGED <<sessionVars, docVars, controlVars, wireVars, serverVars,
                   historyVars, payload, online, faults, clock>>

ExitSession ==
    /\ pc["caller"] = "idle"
    /\ running' = FALSE
    /\ Goto("caller", "stop")
    /\ UNCHANGED <<sessionVars, queueVars, docVars, attempt, dropped, wireVars,
                   serverVars, historyVars, payload, online, faults, clock>>

\* Both threads are joinable no more: they never ran, or have returned.
ThreadsDone_PollOnly == pc["poll"] \in {"off", "done"}
ThreadsDone == \A t \in {"heartbeat", "poll"} : pc[t] \in {"off", "done"}

\* Both join() calls have returned; leave the session if there is one.
ThreadsJoined ==
    /\ pc["caller"] = "stop"
    /\ ThreadsDone
    /\ IF IsJoined
       THEN /\ Post("caller", Coauth("exit", sessionToken))
            /\ Goto("caller", "exit")
       ELSE /\ Goto("caller", "closed")
            /\ UNCHANGED wireVars
    /\ UNCHANGED <<sessionVars, queueVars, docVars, controlVars, serverVars,
                   historyVars, payload, online, faults, clock>>

ExitReturns ==
    /\ pc["caller"] = "exit"
    /\ Receive("caller")
    /\ HandleExit
    /\ Goto("caller", "closed")
    /\ UNCHANGED <<queueVars, docVars, controlVars, serverVars, historyVars,
                   payload, online, faults, clock>>

-----------------------------------------------------------------------------
(* heartbeatLoop.                                                          *)

\* The loops' test of m_running after each sleep.
KeepsRunning_Always == TRUE
KeepsRunning == running

\* Time, where it orders steps (Timely): the heartbeat sleeps longer than any run
\* of local steps takes, and its 30 s sleep outlasts post()'s 30 s timeout, so a
\* request out at one wake-up (late) has returned by the next, unless its token
\* provider, which has no timeout, is stuck.
Quiet(t) ==
    \/ req[t].op # "none" /\ (~req[t].late \/ Stuck(t))
    \/ pc[t] \in {"off", "idle", "sleep", "done", "stop", "closed"}
SleepOver == Timely => Quiet("caller") /\ Quiet("poll")

MarkLate == [t \in Threads |->
                [req[t] EXCEPT !.late = Timely /\ req[t].op # "none"]]

HeartbeatWakes ==
    /\ pc["heartbeat"] = "sleep" /\ SleepOver
    /\ IF KeepsRunning
       THEN /\ req' = [MarkLate EXCEPT !["heartbeat"] = Coauth("refresh", sessionToken)]
            /\ ans' = [ans EXCEPT !["heartbeat"] = Waiting]
            /\ Goto("heartbeat", "refresh")
       ELSE /\ Goto("heartbeat", "done")
            /\ UNCHANGED wireVars
    /\ UNCHANGED <<sessionVars, queueVars, docVars, controlVars, serverVars,
                   historyVars, payload, online, faults, clock>>

\* decodeRefreshResponse: no ErrorCode is success, and an empty response has none.
RefreshReturns ==
    /\ pc["heartbeat"] = "refresh"
    /\ Receive("heartbeat")
    /\ IF ans["heartbeat"].kind # "error"
       THEN HandleRefreshSuccess /\ Goto("heartbeat", "sleep")
       ELSE /\ HandleRefreshFailure
            /\ Goto("heartbeat", IF state' = "Disconnected" THEN "forget" ELSE "sleep")
    /\ UNCHANGED <<queueVars, docVars, controlVars, serverVars, historyVars,
                   payload, online, faults, clock>>

\* The rest of handleRefreshFailure, and the rejoin loop's first attempt.
ForgetToken ==
    /\ pc["heartbeat"] = "forget"
    /\ TokenForgotten
    /\ attempt' = 0
    /\ Goto("heartbeat", "backoff")
    /\ UNCHANGED <<queueVars, docVars, running, dropped, wireVars, serverVars,
                   historyVars, payload, online, faults, clock>>

\* The backoff sleep is over: stop if m_running was cleared, else ask to rejoin.
BackoffEnds ==
    /\ pc["heartbeat"] = "backoff" /\ SleepOver
    /\ IF KeepsRunning
       THEN /\ SetJoining
            /\ Post("heartbeat", Coauth("join", NoToken))
            /\ Goto("heartbeat", "rejoin")
            /\ UNCHANGED dropped
       ELSE /\ dropped' = TRUE
            /\ Goto("heartbeat", "done")
            /\ UNCHANGED <<sessionVars, wireVars>>
    /\ UNCHANGED <<queueVars, docVars, running, attempt, serverVars, historyVars,
                   payload, online, faults, clock>>

LastAttempt_OneShort == attempt + 2 = MaxAttempts
LastAttempt == attempt + 1 = MaxAttempts

AfterRefusal_LoopsOn == "backoff"
AfterRefusal_Breaks == "done"
AfterRefusal == IF LastAttempt THEN "done" ELSE "backoff"

RejoinReturns ==
    /\ pc["heartbeat"] = "rejoin"
    /\ Receive("heartbeat")
    /\ IF ans["heartbeat"].kind = "ok"
       THEN /\ TokenGranted(ans["heartbeat"].tok)
            /\ Goto("heartbeat", "granted")
            /\ UNCHANGED <<attempt, dropped>>
       ELSE /\ JoinRefused
            /\ attempt' = attempt + 1
            /\ dropped' = LastAttempt
            /\ Goto("heartbeat", AfterRefusal)
    /\ UNCHANGED <<queueVars, docVars, running, serverVars, historyVars,
                   payload, online, faults, clock>>

\* The rest of handleJoinResponse: from here on the others see the session joined.
Rejoined ==
    /\ pc["heartbeat"] = "granted"
    /\ SessionJoined
    /\ Goto("heartbeat", "clear")
    /\ UNCHANGED <<queueVars, docVars, controlVars, wireVars, serverVars, historyVars,
                   payload, online, faults, clock>>

ClearKnowledge ==
    /\ pc["heartbeat"] = "clear"
    /\ knowledge' = Root
    /\ Goto("heartbeat", "swap")
    /\ UNCHANGED <<sessionVars, queueVars, doc, controlVars, wireVars, serverVars,
                   historyVars, payload, online, faults, clock>>

-----------------------------------------------------------------------------
(* pollLoop and pollGetChanges.                                            *)

PollStops_WhenLost == ~KeepsRunning \/ ~IsJoined
PollStops == ~KeepsRunning

\* isJoined(), then a copy of the knowledge under m_knowledgeMutex.
PollWakes ==
    /\ pc["poll"] = "sleep"
    /\ \/ /\ PollStops
          /\ Goto("poll", "done")
          /\ UNCHANGED req
       \/ /\ ~PollStops /\ IsJoined
          /\ req' = [req EXCEPT !["poll"].know = knowledge]
          /\ Goto("poll", "ask")
    /\ UNCHANGED <<sessionVars, queueVars, docVars, controlVars, ans, serverVars,
                   historyVars, payload, online, faults, clock>>

GetChanges ==
    /\ pc["poll"] = "ask"
    /\ \E token \in TokenRead :
           Post("poll", [req["poll"] EXCEPT !.op = "get", !.tok = token])
    /\ Goto("poll", "get")
    /\ UNCHANGED <<sessionVars, queueVars, docVars, controlVars, serverVars,
                   historyVars, payload, online, faults, clock>>

\* Nothing, or an error: no knowledge and no blobs.  Otherwise, be the answer whole
\* or cut off behind its knowledge, the knowledge is stored under its mutex first,
\* and the blobs that came with it are handed over after it.
ChangesArrive ==
    /\ pc["poll"] = "get"
    /\ Answered("poll")
    /\ IF ans["poll"].kind \in {"ok", "cut"}
       THEN /\ knowledge' = ans["poll"].ver
            /\ Goto("poll", "deliver")
            /\ UNCHANGED wireVars
       ELSE Receive("poll") /\ Goto("poll", "sleep") /\ UNCHANGED knowledge
    /\ skipped' = (skipped \/ ans["poll"].kind = "cut")
    /\ UNCHANGED <<sessionVars, queueVars, doc, controlVars, serverVars, mine, posted,
                   seen, payload, online, faults, clock>>

\* onRemoteDelta is called for every delta of every blob.  The answer holds what
\* changed after the knowledge sent, so a whole one leaves no gap if that was seen.
CatchesUp == ans["poll"].kind = "ok" /\ req["poll"].know <= seen
Handed_WhileJoined == IF IsJoined /\ CatchesUp THEN ans["poll"].ver ELSE seen
Handed == IF CatchesUp THEN ans["poll"].ver ELSE seen

DeliverChanges ==
    /\ pc["poll"] = "deliver"
    /\ Receive("poll")
    /\ seen' = Handed
    /\ skipped' = (skipped /\ ~CatchesUp)
    /\ Goto("poll", "sleep")
    /\ UNCHANGED <<sessionVars, queueVars, docVars, controlVars, serverVars,
                   payload, online, faults, clock, mine, posted>>

-----------------------------------------------------------------------------
(* The server, the network and the remote co-author (external).            *)

clientVars == <<sessionVars, queueVars, docVars, controlVars, pc, payload, historyVars>>

Fault == faults < MaxFaults /\ faults' = faults + 1
NoFault == UNCHANGED faults

Reply(t, a) == ans' = [ans EXCEPT ![t] = a]

Waits(t, op) == req[t].op = op /\ ans[t].kind = "waiting"

Member(t) == member # NoToken /\ req[t].tok = member

\* A join is granted under a new token, or refused.
ServeJoin(t) ==
    /\ Waits(t, "join")
    /\ \/ /\ granted' = granted + 1 /\ member' = granted + 1
          /\ Reply(t, [kind |-> "ok", tok |-> granted + 1, ver |-> 0])
          /\ NoFault
       \/ /\ Reply(t, Refused) /\ Fault
          /\ UNCHANGED <<granted, member>>
    /\ UNCHANGED <<content, version>>

\* A refresh succeeds for the member; it may fail for a reason of the server's own.
ServeRefresh(t) ==
    /\ Waits(t, "refresh")
    /\ \/ Member(t) /\ Reply(t, [Waiting EXCEPT !.kind = "ok"]) /\ NoFault
       \/ ~Member(t) /\ Reply(t, Refused) /\ NoFault
       \/ Member(t) /\ Reply(t, Refused) /\ Fault
    /\ UNCHANGED serverVars

ServeExit(t) ==
    /\ Waits(t, "exit")
    /\ Reply(t, IF Member(t) THEN [Waiting EXCEPT !.kind = "ok"] ELSE Refused)
    /\ member' = IF Member(t) THEN NoToken ELSE member
    /\ NoFault
    /\ UNCHANGED <<granted, content, version>>

\* A put replaces the whole part it carries.
ServePut(t) ==
    /\ Waits(t, "put")
    /\ IF Member(t)
       THEN /\ content' = [k \in Keys |-> IF k \in req[t].put.part
                                          THEN req[t].put.text[k] ELSE content[k]]
            /\ version' = version + 1
            /\ Reply(t, [Waiting EXCEPT !.kind = "ok"])
       ELSE Reply(t, Refused) /\ UNCHANGED <<content, version>>
    /\ NoFault
    /\ UNCHANGED <<member, granted>>

\* The changes after the knowledge sent, and the knowledge of having them.
ServeGet(t) ==
    /\ Waits(t, "get")
    /\ Reply(t, IF Member(t) THEN [kind |-> "ok", tok |-> member, ver |-> version]
                ELSE Refused)
    /\ NoFault
    /\ UNCHANGED serverVars

Serve(t) ==
    /\ online
    /\ ServeJoin(t) \/ ServeRefresh(t) \/ ServeExit(t) \/ ServePut(t) \/ ServeGet(t)
    /\ UNCHANGED <<clientVars, req, online, clock>>

\* post() returns an empty string: no bearer token, no connection, 30 s without an
\* answer.  The server may have processed the request all the same.
Lose(t) ==
    /\ ~online
    /\ req[t].op # "none" /\ pc[t] # "deliver" /\ ans[t] # Lost /\ ~Stuck(t)
    /\ Reply(t, Lost)
    /\ UNCHANGED <<clientVars, req, online, faults, serverVars, clock>>

\* The connection breaks, or the 30 s are over, in the middle of an answer, and
\* post(), which ignores curl's result, returns the part that arrived.  Behind
\* CurrentKnowledge but in front of the blobs that is an answer of its own; cut
\* elsewhere, and for the other requests, it reads like a whole answer or like
\* none (a join without its token fails, a refresh without ErrorCode succeeds).
Cut(t) ==
    /\ req[t].op = "get" /\ ans[t].kind = "ok" /\ pc[t] # "deliver"
    /\ Reply(t, [ans[t] EXCEPT !.kind = "cut"])
    /\ Fault
    /\ UNCHANGED <<clientVars, req, online, serverVars, clock>>

\* The token provider that post() calls first asks the identity service for a new
\* token, with no timeout: it may hang there, and may or may not come back.
TokenCallHangs(t) ==
    /\ req[t].op # "none" /\ ans[t].kind = "waiting"
    /\ Reply(t, [Waiting EXCEPT !.kind = "stuck"])
    /\ Fault
    /\ UNCHANGED <<clientVars, req, online, serverVars, clock>>

TokenCallEnds(t) ==
    /\ Stuck(t)
    /\ Reply(t, Waiting)
    /\ UNCHANGED <<clientVars, req, online, faults, serverVars, clock>>

NetworkFails ==
    /\ online /\ Fault
    /\ online' = FALSE
    /\ UNCHANGED <<clientVars, wireVars, serverVars, clock>>

NetworkRecovers ==
    /\ ~online
    /\ online' = TRUE
    /\ UNCHANGED <<clientVars, wireVars, faults, serverVars, clock>>

\* The server's session table loses the client (its timeout, a restart).
ServerForgets ==
    /\ member # NoToken /\ Fault
    /\ member' = NoToken
    /\ UNCHANGED <<clientVars, wireVars, online, granted, content, version, clock>>

RemoteEdit(k) ==
    /\ clock < MaxEdits
    /\ clock' = clock + 1
    /\ content' = [content EXCEPT ![k] = clock + 1]
    /\ version' = version + 1
    /\ UNCHANGED <<clientVars, wireVars, online, faults, member, granted>>

-----------------------------------------------------------------------------
Caller ==
    \/ JoinReturns \/ QueueDelta \/ ThreadsJoined \/ ExitReturns \/ Flush("caller")
Heartbeat ==
    \/ HeartbeatWakes \/ RefreshReturns \/ ForgetToken \/ BackoffEnds
    \/ RejoinReturns \/ Rejoined \/ ClearKnowledge \/ Flush("heartbeat")
Poll == PollWakes \/ GetChanges \/ ChangesArrive \/ DeliverChanges
Wire(t) == Serve(t) \/ Lose(t)

\* What the editor asks of the client.
Editor == JoinSession \/ ExitSession \/ \E k \in Keys : SendDelta(k)

Environment ==
    \/ NetworkFails \/ NetworkRecovers \/ ServerForgets
    \/ \E t \in Threads : Cut(t) \/ TokenCallHangs(t) \/ TokenCallEnds(t)
    \/ \E k \in Keys : RemoteEdit(k)

\* The client object is gone; nothing of it is left to run.
Closed == pc["caller"] = "closed" /\ UNCHANGED vars

Next ==
    \/ Editor \/ Caller \/ Heartbeat \/ Poll
    \/ \E t \in Threads : Wire(t)
    \/ Environment
    \/ Closed

Spec == Init /\ [][Next]_vars

\* Each thread runs (its sleeps end), and a request that is on the wire is over in
\* 30 s: the server answers, or CURLOPT_TIMEOUT does.  Nothing is said of a token
\* call that hangs.
Fairness ==
    /\ WF_vars(Caller) /\ WF_vars(Heartbeat) /\ WF_vars(Poll)
    /\ \A t \in Threads : WF_vars(Wire(t))

FairSpec == Spec /\ Fairness
-----------------------------------------------------------------------------
(* Properties.                                                             *)

Labels == {"off", "idle", "sleep", "done", "swap", "apply", "issue", "put", "push",
           "join", "stop", "exit", "closed", "refresh", "backoff", "rejoin",
           "forget", "granted", "clear", "ask", "get", "deliver"}

\* Every variable has its type; retries and attempts stay within their limits.
TypeOK ==
    /\ state \in States /\ sessionToken \in Nat /\ retryCount \in 0 .. MAX_RETRIES
    /\ running \in BOOLEAN /\ dropped \in BOOLEAN /\ online \in BOOLEAN
    /\ pending \in Seq(Delta) /\ batch \in [Threads -> Seq(Delta)]
    /\ knowledge \in Knowledge /\ doc \in Text
    /\ pc \in [Threads -> Labels] /\ attempt \in 0 .. MaxAttempts
    /\ payload \in [Threads -> Payload]
    /\ req \in [Threads -> Request] /\ ans \in [Threads -> Answer]
    /\ faults \in 0 .. MaxFaults /\ clock \in 0 .. MaxEdits
    /\ member \in Nat /\ granted \in Nat
    /\ content \in Text /\ version \in Nat
    /\ mine \subseteq Delta /\ posted \subseteq Delta
    /\ seen \in Nat /\ skipped \in BOOLEAN

\* A session has a token exactly while it is joined, whichever of the caller and
\* the heartbeat made the last transition, except between the two assignments of
\* one: no request of a joined session goes out without a token, and no token
\* survives the session it was issued for.
BetweenAssignments == pc["heartbeat"] \in {"granted", "forget"}
SessionCoherent ==
    IF BetweenAssignments
    THEN sessionToken # NoToken /\ state # "Joined"
    ELSE (sessionToken # NoToken) <=> (state = "Joined")

\* The heartbeat never goes back to its 30 s sleep with the session lost: every
\* loss is either repaired or reported before the loop goes on.
HeartbeatKeepsSession ==
    pc["heartbeat"] \in {"sleep", "refresh", "clear", "swap", "apply", "issue", "put"}
        => IsJoined

SeqSet(q) == {q[i] : i \in DOMAIN q}

\* Every delta sendDelta accepted is in exactly one place: in the queue, in the
\* batch of one thread, or put on the wire, and in that place once.
DeltaConservation ==
    /\ mine = posted \cup SeqSet(pending) \cup UNION {SeqSet(batch[t]) : t \in Threads}
    /\ Cardinality(mine) = Cardinality(posted) + Len(pending)
                           + Len(batch["caller"]) + Len(batch["heartbeat"])

\* exitSession is last: once its request is on the wire both threads are done,
\* none has a request out, and after it the session is over.
ExitIsLast ==
    pc["caller"] \in {"exit", "closed"} =>
        /\ \A t \in {"heartbeat", "poll"} : pc[t] \in {"off", "done"} /\ req[t].op = "none"
        /\ ~running
        /\ pc["caller"] = "closed" => state = "Disconnected"

\* The knowledge sent with GetChanges never names changes the editor has not been
\* handed, except while the poll thread is handing them over, and from an answer
\* that was cut off behind its knowledge until the gap is closed: no lost answer,
\* lost session, rejoin or late reply makes the client skip a change.
KnowledgeIsSeen == knowledge <= seen \/ pc["poll"] = "deliver" \/ skipped

\* onSessionDropped comes of three failed rejoins, or of an exit during the backoff.
DropAfterAttempts == dropped => attempt = MaxAttempts \/ ~running

\* With no fault, whenever the caller is not in a call, every delta accepted since
\* the document was opened is on the server, or overwritten there by newer text;
\* closing the document then also leaves the server's session.
CalmSessionDelivers ==
    faults = 0 /\ granted > 0 /\ pc["caller"] \in {"idle", "closed"} =>
        /\ pending = <<>>
        /\ \A d \in mine : Loaded \/ d.key \in Comments => content[d.key] >= d.stamp
        /\ pc["caller"] = "closed" => member = NoToken

\* Once the session is reported dropped it is never joined again.
DropIsFinal == [][dropped => dropped' /\ ~IsJoined']_vars

\* No token request hangs for ever: what the code leaves to the identity service,
\* for AuthModule's requests have no timeout.
TokenCallsEnd == \A t \in Threads : []<>~Stuck(t)

\* Every call of the editor returns, unless a token request hangs for ever:
\* joinSession, sendDelta with its put, and exitSession, which waits for both
\* threads to notice m_running.
CallsReturn ==
    TokenCallsEnd =>
        (pc["caller"] \notin {"idle", "closed"} ~> pc["caller"] \in {"idle", "closed"})

\* If the network stays up and token requests end, whatever changed on the server
\* reaches the editor, unless the session is dropped or exited first, or an answer
\* that was cut off has taken the knowledge past it.
ChangesReachEditor ==
    TokenCallsEnd /\ <>[]online => \A v \in 1 .. 2 * MaxEdits + 1 :
        version >= v /\ running ~> seen >= v \/ dropped \/ ~running \/ skipped

-----------------------------------------------------------------------------
(* What the client promises the editor: CoauthChannel.  A client is "new"  *)
(* until its threads are started and "lost" while they have no session.    *)

Phase ==
    CASE pc["caller"] = "closed"  -> "closed"
      [] pc["caller"] # "closed" /\ dropped -> "dropped"
      [] pc["caller"] # "closed" /\ ~dropped /\ IsJoined -> "joined"
      [] pc["caller"] # "closed" /\ ~dropped /\ ~IsJoined ->
             IF pc["heartbeat"] = "off" THEN "new" ELSE "lost"

Channel == INSTANCE CoauthChannel
               WITH Deltas <- Delta, phase <- Phase, accepted <- mine

\* The client implements the channel: deltas are put at most once, none before the
\* join or after the exit, and sessions are lost, rejoined and dropped only as the
\* channel allows.
ImplementsChannel == Channel!ChannelSpec

\* With fair threads, and token requests that end, it also never leaves a lost
\* session unresolved: it is rejoined, reported dropped, or closed.
ImplementsFairChannel == TokenCallsEnd => Channel!Resolved

-----------------------------------------------------------------------------
(* What comments and documents of the repository say of the client, and    *)
(* the code does not keep.                                                 *)

\* Design document, lines 78-80: a co-author's delta reaches us from the server and
\* is applied.  So while the network stays up and the session lasts, it does, be it
\* that an answer was cut off.  (Without local edits, the versions after the first
\* are the co-author's.)
CoauthorsDeltaIsApplied ==
    TokenCallsEnd /\ <>[]online => \A v \in 2 .. MaxEdits + 1 :
        version >= v /\ running ~> seen >= v \/ dropped \/ ~running \/ mine # {}

\* Design document, line 102: on network loss, deltas are queued locally.  When no
\* put is under way a delta is on the server or queued.
LossIsQueued ==
    Loaded /\ granted > 0 /\ pc["caller"] = "idle" /\ pc["heartbeat"] = "sleep" =>
        \A d \in mine : d \in SeqSet(pending) \/ content[d.key] >= d.stamp

\* Design document, line 142: last write wins, paragraph by paragraph.  So a put
\* serialized when the editor has been handed all there is on the server does not
\* take a paragraph that no local delta ever named back to an older text.
UntouchedTextSurvives ==
    [][\A t \in Threads : seen = version /\ payload[t] = NoPayload =>
          \A k \in payload'[t].part :
              (\A d \in mine : d.key # k) => payload'[t].text[k] >= content[k]]_vars
=============================================================================
