-------------------------- MODULE AuthModuleProofs --------------------------
(***************************************************************************)
(* The keyring under concurrent refreshes, proved for any set of threads,  *)
(* any life time of tokens and any bounds: the types, that the refresh     *)
(* token left in the keyring is one the token endpoint accepts, and, for   *)
(* as long as no call is slow and no answer is cut off, that accessToken() *)
(* returns no expired token.                                               *)
(***************************************************************************)
EXTENDS AuthModule, SequenceTheorems, TLAPS

-----------------------------------------------------------------------------
(* The inductive invariant.                                                *)

USE DEF Secrets, Broken

\* The keyring writes q store v as the refresh token; q writes no secret twice.
Stores(q, v) == \E i \in 1 .. Len(q) : q[i] = <<"refresh", v>>
EachOnce(q)  == \A i, j \in 1 .. Len(q) : q[i][1] = q[j][1] => i = j

\* Thread t has been issued the refresh token v and has not stored it yet.
Holds(t, v) == v # None /\ (resp[t].refresh = v \/ Stores(todo[t], v))

\* A thread has read a refresh token exactly while it refreshes, has an answer
\* only while it waits for one, and writes each secret once.
Stages ==
    /\ \A t \in Threads : used[t] # None <=> pc[t] = "refresh"
    /\ \A t \in Threads : resp[t] # Waiting => pc[t] \in {"refresh", "login"}
    /\ \A t \in Threads : resp[t].kind # "ok" => resp[t] \in {Waiting, Failed}
    /\ \A t \in Threads : EachOnce(todo[t])

\* Every refresh token about was issued.
Numbered ==
    /\ keyring["refresh"] <= issued
    /\ \A t \in Threads : used[t] <= issued
    /\ \A t \in Threads, v \in Secrets : Holds(t, v) => v <= issued

\* A token not yet stored is accepted, is held by one thread, and is known to
\* no other; so nobody can have it replaced. A stored token that is accepted
\* no more has been replaced by one that is still on its way to the keyring.
Custody ==
    /\ \A t \in Threads, v \in Secrets : Holds(t, v) => v \in honoured
    /\ \A s, t \in Threads, v \in Secrets : Holds(s, v) /\ Holds(t, v) => s = t
    /\ \A s, t \in Threads, v \in Secrets : Holds(t, v) => used[s] # v
    /\ \A t \in Threads, v \in Secrets : Holds(t, v) => keyring["refresh"] # v
    /\ keyring["refresh"] \in honoured \cup {None}
           \/ \E t \in Threads, v \in Secrets : Holds(t, v)

IInv == TypeOK /\ Stages /\ Numbered /\ (Reliable => Custody)

-----------------------------------------------------------------------------
LEMMA InitEstablishes == Init => IInv
<1> USE AuthAssumption, MarginAssumption
<1> SUFFICES ASSUME Init PROVE IInv
    OBVIOUS
<1>1. TypeOK
    BY DEF Init, TypeOK, TokenStoreInit, Labels, Fields, None, Unset, Waiting, Response, Saving
<1>2. Stages
    BY DEF Init, Stages, EachOnce, Waiting, None
<1>3. keyring["refresh"] = None
    BY DEF Init, TokenStoreInit, Fields
<1>4. \A t \in Threads, v \in Secrets : ~Holds(t, v)
    BY DEF Init, Holds, Stores, Waiting, None
<1>5. Numbered
    BY <1>3, <1>4 DEF Init, Numbered, None
<1>6. Custody
    BY <1>3, <1>4 DEF Custody
<1> QED
    BY <1>1, <1>2, <1>5, <1>6 DEF IInv

-----------------------------------------------------------------------------
(* The types.                                                              *)

LEMMA WritesTyped ==
    ASSUME TypeOK, NEW r \in Response
    PROVE  /\ RefreshWrites(r) \in Seq(Fields \X Secrets) /\ RefreshWrites(r) # <<>>
           /\ LoginWrites(r) \in Seq(Fields \X Secrets) /\ LoginWrites(r) # <<>>
           /\ ClearWrites \in Seq(Fields \X Secrets) /\ ClearWrites # <<>>
<1>1. now + Lifetime \in Secrets /\ None \in Secrets
    BY AuthAssumption DEF TypeOK, None
<1>2. r.access \in Secrets /\ r.refresh \in Secrets
    BY DEF Response
<1>3. ASSUME NEW a \in Fields \X Secrets, NEW b \in Fields \X Secrets, NEW c \in Fields \X Secrets
      PROVE  /\ <<a, b>> \in Seq(Fields \X Secrets) /\ <<a, b>> # <<>>
             /\ <<a, b, c>> \in Seq(Fields \X Secrets) /\ <<a, b, c>> # <<>>
    OBVIOUS
<1>4. \A v \in Secrets : /\ <<"access", v>> \in Fields \X Secrets
                     /\ <<"refresh", v>> \in Fields \X Secrets
                     /\ <<"expires", v>> \in Fields \X Secrets
    BY DEF Fields
<1> QED
    BY <1>1, <1>2, <1>3, <1>4 DEF RefreshWrites, LoginWrites, ClearWrites, ExpiresAt

\* The start and the end of a call.
LEMMA CallsTyped ==
    ASSUME TypeOK, NEW t \in Threads
    PROVE  /\ \A label \in Labels : Begin(t, label) =>
                  /\ pc' \in [Threads -> Labels] /\ age' \in [Threads -> Nat]
                  /\ result' \in [Threads -> Int]
           /\ \A token \in Int : Return(t, token) =>
                  pc' \in [Threads -> Labels] /\ result' \in [Threads -> Int]
           /\ \A label \in Labels : Goto(t, label) => pc' \in [Threads -> Labels]
<1>1. Unset \in Int /\ "idle" \in Labels
    BY DEF Unset, Labels
<1>2. pc \in [Threads -> Labels] /\ age \in [Threads -> Nat] /\ result \in [Threads -> Int]
    BY DEF TypeOK
<1>3. \A label \in Labels : Goto(t, label) => pc' \in [Threads -> Labels]
    BY <1>2 DEF Goto
<1>4. \A token \in Int :
          result' = [result EXCEPT ![t] = token] => result' \in [Threads -> Int]
    BY <1>2
<1>5. age' = [age EXCEPT ![t] = 0] => age' \in [Threads -> Nat]
    BY <1>2
<1> QED
    BY <1>1, <1>3, <1>4, <1>5 DEF Begin, Return

\* A fault is recorded.
LEMMA FaultsTyped ==
    ASSUME TypeOK, NEW kind \in FaultKinds, Fault(kind)
    PROVE  faults' \in Seq(FaultKinds) /\ Len(faults') <= MaxFaults
BY AuthAssumption DEF TypeOK, Fault

\* What arrives of an answer: an answer, and at most a fault recorded.
LEMMA ArrivesTyped ==
    ASSUME TypeOK, NEW t \in Threads, NEW a \in Secrets, NEW v \in Secrets,
           Arrives(t, Tokens(a, v))
    PROVE  /\ \E b, w \in Secrets : Answer(t, Tokens(b, w))
           /\ resp' \in [Threads -> Response]
           /\ faults' \in Seq(FaultKinds) /\ Len(faults') <= MaxFaults
<1>1. PICK b \in Secrets, w \in Secrets : Answer(t, Tokens(b, w))
  <2>1. Broken \in Secrets /\ None \in Secrets /\ Tokens(a, v).access = a
      BY DEF None, Tokens
  <2> QED
      BY <2>1, Zenon DEF Arrives, Truncated
<1>2. Tokens(b, w) \in Response
    BY <1>1 DEF Response, Tokens
<1>3. resp' \in [Threads -> Response]
    BY <1>1, <1>2 DEF Answer, TypeOK
<1>4. faults' \in Seq(FaultKinds) /\ Len(faults') <= MaxFaults
  <2>1. CASE UNCHANGED faults
      BY <2>1 DEF TypeOK
  <2>2. CASE Fault("cut")
      BY <2>2, FaultsTyped DEF FaultKinds
  <2> QED
      BY <2>1, <2>2 DEF Arrives
<1> QED
    BY <1>1, <1>3, <1>4

\* An answer of the endpoint.
LEMMA AnswersTyped ==
    ASSUME TypeOK, NEW t \in Threads
    PROVE  /\ \A r \in Response : Answer(t, r) => resp' \in [Threads -> Response]
           /\ \A a, v \in Secrets : Tokens(a, v) \in Response
           /\ Waiting \in Response /\ Failed \in Response
<1>1. \A r \in Response : Answer(t, r) => resp' \in [Threads -> Response]
    BY DEF TypeOK, Answer
<1>2. Waiting \in Response /\ Failed \in Response
    BY DEF Response, Waiting, Failed, None
<1>3. \A a, v \in Secrets : Tokens(a, v) \in Response
    BY DEF Response, Tokens
<1> QED
    BY <1>1, <1>2, <1>3

\* The endpoint issues a token, and may stop accepting some.
LEMMA GrantsTyped ==
    ASSUME TypeOK
    PROVE  /\ issued \in Nat /\ honoured \subseteq 1 .. issued
           /\ issued + 1 \in Nat
           /\ \A S : S \subseteq honoured => S \cup {issued + 1} \subseteq 1 .. (issued + 1)
           /\ \A v : honoured \ {v} \subseteq honoured
<1>1. issued \in Nat /\ honoured \subseteq 1 .. issued
    BY DEF TypeOK
<1>2. issued + 1 \in Nat /\ issued + 1 \in 1 .. (issued + 1)
    BY <1>1
<1>3. \A v \in 1 .. issued : v \in 1 .. (issued + 1)
    BY <1>1
<1> QED
    BY <1>1, <1>2, <1>3

LEMMA TypePreserved == TypeOK /\ Stages /\ [Next]_vars => TypeOK'
<1> USE AuthAssumption, MarginAssumption DEF Labels, Saving
<1> SUFFICES ASSUME TypeOK, Stages, [Next]_vars PROVE TypeOK'
    OBVIOUS
<1> Waiting \in Response /\ Failed \in Response
    BY DEF Response, Waiting, Failed, None
<1> keyring["access"] \in Secrets /\ keyring["refresh"] \in Secrets
    BY DEF TypeOK, Fields
<1> Empty \in Int
    BY DEF Empty
<1>1. ASSUME NEW t \in Threads, AccessToken(t) PROVE TypeOK'
  <2>1. \A u \in Threads : Saving(u)' <=> todo'[u] # <<>>
      BY <1>1 DEF AccessToken, Begin, Goto, TypeOK
  <2> QED
      BY <1>1, <2>1, CallsTyped DEF AccessToken, TypeOK, serverVars
<1>2. ASSUME NEW t \in Threads, CheckExpiry(t) PROVE TypeOK'
    BY <1>2 DEF CheckExpiry, Goto, TypeOK, serverVars
<1>3. ASSUME NEW t \in Threads, ReadAccessToken(t) PROVE TypeOK'
  <2>1. \A u \in Threads : Saving(u)' <=> todo'[u] # <<>>
      BY <1>3 DEF ReadAccessToken, Return, Goto, TypeOK
  <2>2. pc' \in [Threads -> Labels] /\ result' \in [Threads -> Int]
      BY <1>3, CallsTyped DEF ReadAccessToken
  <2> QED
      BY <1>3, <2>1, <2>2 DEF ReadAccessToken, TypeOK, serverVars
<1>4. ASSUME NEW t \in Threads, ReadRefreshToken(t) PROVE TypeOK'
  <2>1. \A u \in Threads : Saving(u)' <=> todo'[u] # <<>>
      BY <1>4 DEF ReadRefreshToken, Return, Goto, TypeOK
  <2>2. pc' \in [Threads -> Labels] /\ result' \in [Threads -> Int]
      BY <1>4, CallsTyped DEF ReadRefreshToken, TypeOK
  <2>3. used' \in [Threads -> Secrets]
      BY <1>4 DEF ReadRefreshToken, TypeOK
  <2> QED
      BY <1>4, <2>1, <2>2, <2>3 DEF ReadRefreshToken, TypeOK, serverVars
<1>5. ASSUME NEW t \in Threads, RefreshAnswered(t) PROVE TypeOK'
  <2>1. /\ RefreshWrites(resp[t]) \in Seq(Fields \X Secrets)
        /\ RefreshWrites(resp[t]) # <<>>
      BY WritesTyped DEF TypeOK
  <2>2. used' \in [Threads -> Secrets] /\ resp' \in [Threads -> Response]
      BY <1>5 DEF RefreshAnswered, Forget, TypeOK, None
  <2>4. pc' \in [Threads -> Labels] /\ result' \in [Threads -> Int]
    <3>1. \/ Return(t, Empty)
          \/ Goto(t, "saveRefresh") /\ result' = result
        BY <1>5 DEF RefreshAnswered
    <3> QED
        BY <3>1, CallsTyped DEF TypeOK
  <2>3. /\ todo' \in [Threads -> Seq(Fields \X Secrets)]
        /\ \A u \in Threads : Saving(u)' <=> todo'[u] # <<>>
    <3>1. CASE resp[t].kind = "failed"
        BY <1>5, <3>1 DEF RefreshAnswered, Return, Goto, TypeOK
    <3>2. CASE resp[t].kind # "failed"
        BY <1>5, <2>1, <3>2 DEF RefreshAnswered, Goto, TypeOK
    <3> QED
        BY <3>1, <3>2
  <2> QED
      BY <1>5, <2>2, <2>3, <2>4 DEF RefreshAnswered, TypeOK, serverVars
<1>6. ASSUME NEW t \in Threads, Write(t) PROVE TypeOK'
  <2>1. todo[t] \in Seq(Fields \X Secrets) /\ todo[t] # <<>>
      BY <1>6 DEF Write, TypeOK
  <2>2. Head(todo[t]) \in Fields \X Secrets /\ Tail(todo[t]) \in Seq(Fields \X Secrets)
      BY <2>1, HeadTailProperties
  <2>3. keyring' \in [Fields -> Secrets]
    <3>1. Head(todo[t])[1] \in Fields /\ Head(todo[t])[2] \in Secrets
        BY <2>2
    <3> QED
        BY <1>6, <3>1 DEF Write, SecretSet, SecretSetFails, TypeOK
  <2>6. faults' \in Seq(FaultKinds) /\ Len(faults') <= MaxFaults
      BY <1>6, FaultsTyped DEF Write, TypeOK, FaultKinds
  <2>4. pc' \in [Threads -> Labels] /\ todo' \in [Threads -> Seq(Fields \X Secrets)]
      BY <1>6, <2>2 DEF Write, Goto, AfterWrites, TypeOK
  <2>5. \A u \in Threads : Saving(u)' <=> todo'[u] # <<>>
      BY <1>6 DEF Write, Goto, AfterWrites, TypeOK
  <2> QED
      BY <1>6, <2>3, <2>4, <2>5, <2>6 DEF Write, TypeOK, serverVars
<1>7. ASSUME Authenticate PROVE TypeOK'
  <2>1. \A u \in Threads : Saving(u)' <=> todo'[u] # <<>>
      BY <1>7 DEF Authenticate, Begin, Goto, TypeOK
  <2> QED
      BY <1>7, <2>1, CallsTyped DEF Authenticate, TypeOK, serverVars
<1>8. ASSUME LoginAnswered PROVE TypeOK'
  <2>1. LoginWrites(resp["ui"]) \in Seq(Fields \X Secrets) /\ LoginWrites(resp["ui"]) # <<>>
      BY WritesTyped DEF TypeOK
  <2>2. /\ pc' \in [Threads -> Labels] /\ used' \in [Threads -> Secrets]
        /\ resp' \in [Threads -> Response]
      BY <1>8 DEF LoginAnswered, Forget, Goto, TypeOK, None
  <2>3. /\ todo' \in [Threads -> Seq(Fields \X Secrets)]
        /\ \A u \in Threads : Saving(u)' <=> todo'[u] # <<>>
    <3>1. CASE resp["ui"].kind = "failed"
        BY <1>8, <3>1 DEF LoginAnswered, Goto, TypeOK
    <3>2. CASE resp["ui"].kind # "failed"
      <4>1. /\ todo' = [todo EXCEPT !["ui"] = LoginWrites(resp["ui"])]
            /\ pc' = [pc EXCEPT !["ui"] = "saveLogin"]
          BY <1>8, <3>2 DEF LoginAnswered, Goto
      <4> QED
          BY <2>1, <4>1 DEF TypeOK
    <3> QED
        BY <3>1, <3>2
  <2> QED
      BY <1>8, <2>2, <2>3 DEF LoginAnswered, TypeOK, serverVars
<1>9. ASSUME Logout PROVE TypeOK'
  <2>1. ClearWrites \in Seq(Fields \X Secrets) /\ ClearWrites # <<>>
    <3>1. PICK r \in Response : TRUE
        OBVIOUS
    <3> QED
        BY <3>1, WritesTyped
  <2>2. /\ pc' \in [Threads -> Labels] /\ age' \in [Threads -> Nat]
        /\ result' \in [Threads -> Int]
      BY <1>9, CallsTyped DEF Logout
  <2>3. /\ todo' \in [Threads -> Seq(Fields \X Secrets)]
        /\ \A u \in Threads : Saving(u)' <=> todo'[u] # <<>>
      BY <1>9, <2>1 DEF Logout, Begin, Goto, TypeOK
  <2> QED
      BY <1>9, <2>2, <2>3 DEF Logout, TypeOK, serverVars
<1>10. ASSUME NEW t \in Threads, GrantRefresh(t) PROVE TypeOK'
  <2>1. now + Lifetime \in Secrets /\ None \in Secrets /\ issued + 1 \in Secrets
      BY DEF TypeOK, None
  <2>5. \/ \E v \in Secrets : Arrives(t, Tokens(now + Lifetime, v))
        \/ Answer(t, Failed) /\ Fault("answer")
      BY <1>10, <2>1, Zenon DEF GrantRefresh
  <2>2. resp' \in [Threads -> Response]
      BY <2>1, <2>5, ArrivesTyped, AnswersTyped
  <2>3. faults' \in Seq(FaultKinds) /\ Len(faults') <= MaxFaults
      BY <2>1, <2>5, ArrivesTyped, FaultsTyped DEF FaultKinds
  <2>4. issued' \in Nat /\ honoured' \subseteq 1 .. issued'
      BY <1>10, GrantsTyped DEF GrantRefresh, serverVars
  <2> QED
      BY <1>10, <2>2, <2>3, <2>4 DEF GrantRefresh, TypeOK
<1>11. ASSUME NEW t \in Threads, RefuseRefresh(t) \/ NetworkFails(t) PROVE TypeOK'
  <2>1. resp' \in [Threads -> Response]
      BY <1>11, AnswersTyped DEF RefuseRefresh, NetworkFails
  <2>2. faults' \in Seq(FaultKinds) /\ Len(faults') <= MaxFaults
      BY <1>11, FaultsTyped DEF RefuseRefresh, NetworkFails, TypeOK, FaultKinds
  <2> QED
      BY <1>11, <2>1, <2>2 DEF RefuseRefresh, NetworkFails, TypeOK, serverVars
<1>12. ASSUME GrantLogin PROVE TypeOK'
  <2>1. now + Lifetime \in Secrets /\ issued + 1 \in Secrets
      BY DEF TypeOK
  <2>5. \/ Arrives("ui", Tokens(now + Lifetime, issued + 1))
        \/ Answer("ui", Failed) /\ UNCHANGED faults
      BY <1>12, Zenon DEF GrantLogin
  <2>2. resp' \in [Threads -> Response]
      BY <2>1, <2>5, ArrivesTyped, AnswersTyped
  <2>6. faults' \in Seq(FaultKinds) /\ Len(faults') <= MaxFaults
      BY <2>1, <2>5, ArrivesTyped DEF TypeOK
  <2>3. age' \in [Threads -> Nat]
      BY <1>12 DEF GrantLogin, TypeOK
  <2>4. issued' \in Nat /\ honoured' \subseteq 1 .. issued'
      BY <1>12, GrantsTyped DEF GrantLogin, serverVars
  <2> QED
      BY <1>12, <2>2, <2>3, <2>4, <2>6 DEF GrantLogin, TypeOK
<1>13. ASSUME Revoke PROVE TypeOK'
  <2>1. faults' \in Seq(FaultKinds) /\ Len(faults') <= MaxFaults
      BY <1>13, FaultsTyped DEF Revoke, FaultKinds
  <2> QED
      BY <1>13, <2>1 DEF Revoke, TypeOK
<1>14. ASSUME Restart PROVE TypeOK'
  <2>1. faults' \in Seq(FaultKinds) /\ Len(faults') <= MaxFaults
      BY <1>14, FaultsTyped DEF Restart, FaultKinds
  <2>2. /\ pc' \in [Threads -> Labels] /\ used' \in [Threads -> Secrets]
        /\ resp' \in [Threads -> Response] /\ age' \in [Threads -> Nat]
        /\ result' \in [Threads -> Int]
      BY <1>14 DEF Restart, None, Unset
  <2>3. /\ todo' \in [Threads -> Seq(Fields \X Secrets)]
        /\ \A u \in Threads : Saving(u)' <=> todo'[u] # <<>>
      BY <1>14 DEF Restart
  <2> QED
      BY <1>14, <2>1, <2>2, <2>3 DEF Restart, TypeOK, serverVars
<1>15. ASSUME Tick PROVE TypeOK'
  <2>1. now' \in Nat /\ UNCHANGED <<keyring, pc, used, resp, todo, result, serverVars>>
      BY <1>15 DEF Tick, TypeOK
  <2>4. faults' \in Seq(FaultKinds) /\ Len(faults') <= MaxFaults
      BY <1>15, FaultsTyped DEF Tick, TypeOK, FaultKinds
  <2>2. age' \in [Threads -> Nat]
      BY <1>15 DEF Tick, TypeOK
  <2>3. \A t \in Threads : Saving(t)' <=> todo'[t] # <<>>
      BY <2>1 DEF TypeOK, Saving
  <2> QED
      BY <2>1, <2>2, <2>3, <2>4 DEF TypeOK, serverVars
<1>16. ASSUME UNCHANGED vars PROVE TypeOK'
    BY <1>16 DEF vars, TypeOK
<1> QED
    BY <1>1, <1>2, <1>3, <1>4, <1>5, <1>6, <1>7, <1>8, <1>9, <1>10, <1>11, <1>12, <1>13,
       <1>14, <1>15, <1>16 DEF Next, Thread, Endpoint

-----------------------------------------------------------------------------
(* The writes.                                                             *)

\* What each queue of writes stores as the refresh token.
LEMMA WritesStore ==
    ASSUME NEW r \in Response
    PROVE  /\ EachOnce(RefreshWrites(r)) /\ EachOnce(LoginWrites(r)) /\ EachOnce(ClearWrites)
           /\ \A v \in Secrets \ {None} :
                 /\ Stores(RefreshWrites(r), v) <=> r.refresh = v
                 /\ Stores(LoginWrites(r), v) <=> r.refresh = v
                 /\ ~Stores(ClearWrites, v)
           /\ \A v \in Secrets : ~Stores(<<>>, v)
<1>1. EachOnce(LoginWrites(r)) /\ EachOnce(ClearWrites)
    BY DEF EachOnce, LoginWrites, ClearWrites
<1>2. EachOnce(RefreshWrites(r))
  <2>1. CASE r.refresh = None
      BY <2>1 DEF EachOnce, RefreshWrites
  <2>2. CASE r.refresh # None
      BY <2>2 DEF EachOnce, RefreshWrites
  <2> QED
      BY <2>1, <2>2
<1>3. ASSUME NEW v \in Secrets \ {None} PROVE Stores(LoginWrites(r), v) <=> r.refresh = v
  <2>1. LoginWrites(r)[2] = <<"refresh", r.refresh>> /\ 2 \in 1 .. Len(LoginWrites(r))
      BY DEF LoginWrites
  <2>2. ASSUME NEW i \in 1 .. Len(LoginWrites(r)), LoginWrites(r)[i] = <<"refresh", v>>
        PROVE  r.refresh = v
      BY <2>2 DEF LoginWrites
  <2> QED
      BY <2>1, <2>2 DEF Stores
<1>4. ASSUME NEW v \in Secrets \ {None} PROVE ~Stores(ClearWrites, v)
    BY DEF Stores, ClearWrites
<1>5. ASSUME NEW v \in Secrets \ {None} PROVE Stores(RefreshWrites(r), v) <=> r.refresh = v
  <2>1. CASE r.refresh = None
      BY <2>1 DEF Stores, RefreshWrites
  <2>2. CASE r.refresh # None
    <3>1. RefreshWrites(r)[3] = <<"refresh", r.refresh>> /\ 3 \in 1 .. Len(RefreshWrites(r))
        BY <2>2 DEF RefreshWrites
    <3>2. ASSUME NEW i \in 1 .. Len(RefreshWrites(r)), RefreshWrites(r)[i] = <<"refresh", v>>
          PROVE  r.refresh = v
        BY <2>2, <3>2 DEF RefreshWrites
    <3> QED
        BY <3>1, <3>2 DEF Stores
  <2> QED
      BY <2>1, <2>2
<1>6. \A v \in Secrets : ~Stores(<<>>, v)
    BY DEF Stores
<1> QED
    BY <1>1, <1>2, <1>3, <1>4, <1>5, <1>6

\* What is left to store after the first write.
LEMMA WritesLeft ==
    ASSUME NEW q \in Seq(Fields \X Secrets), q # <<>>, EachOnce(q)
    PROVE  /\ EachOnce(Tail(q))
           /\ \A v \in Secrets : Stores(q, v) <=> Head(q) = <<"refresh", v>> \/ Stores(Tail(q), v)
           /\ Head(q)[1] = "refresh" => \A v \in Secrets : ~Stores(Tail(q), v)
<1>1. /\ Len(q) \in Nat \ {0} /\ Head(q) = q[1]
      /\ Len(Tail(q)) = Len(q) - 1
      /\ \A i \in 1 .. Len(Tail(q)) : i + 1 \in 2 .. Len(q) /\ Tail(q)[i] = q[i + 1]
    BY HeadTailProperties, EmptySeq
<1>2. EachOnce(Tail(q))
    BY <1>1 DEF EachOnce
<1>3. ASSUME NEW v \in Secrets, NEW i \in 1 .. Len(q), q[i] = <<"refresh", v>>, i # 1
      PROVE  Stores(Tail(q), v)
  <2>1. i - 1 \in 1 .. Len(Tail(q)) /\ Tail(q)[i - 1] = q[i]
      BY <1>1, <1>3
  <2> QED
      BY <1>3, <2>1 DEF Stores
<1>4. ASSUME NEW v \in Secrets, Stores(Tail(q), v) PROVE \E i \in 2 .. Len(q) : q[i] = <<"refresh", v>>
    BY <1>1, <1>4 DEF Stores
<1>5. ASSUME NEW v \in Secrets, Head(q)[1] = "refresh" PROVE ~Stores(Tail(q), v)
    BY <1>1, <1>4, <1>5 DEF EachOnce
<1>6. ASSUME NEW v \in Secrets
      PROVE  Stores(q, v) <=> Head(q) = <<"refresh", v>> \/ Stores(Tail(q), v)
  <2>1. 1 \in 1 .. Len(q) /\ \A i \in 2 .. Len(q) : i \in 1 .. Len(q)
      BY <1>1
  <2> QED
      BY <1>1, <1>3, <1>4, <2>1 DEF Stores
<1> QED
    BY <1>2, <1>5, <1>6

-----------------------------------------------------------------------------
(* The stages of a call.                                                   *)

LEMMA StagesPreserved == TypeOK /\ Stages /\ [Next]_vars => Stages'
<1> USE DEF Saving
<1> SUFFICES ASSUME TypeOK, Stages, [Next]_vars PROVE Stages'
    OBVIOUS
<1> /\ pc \in [Threads -> Labels] /\ used \in [Threads -> Secrets]
    /\ resp \in [Threads -> Response] /\ todo \in [Threads -> Seq(Fields \X Secrets)]
    /\ "ui" \in Threads
    BY AuthAssumption DEF TypeOK
<1> Waiting.kind = "waiting" /\ Failed.kind = "failed"
    BY DEF Waiting, Failed
<1>1. ASSUME NEW t \in Threads,
             AccessToken(t) \/ CheckExpiry(t) \/ ReadAccessToken(t) \/ ReadRefreshToken(t)
      PROVE  Stages'
  <2>1. CASE AccessToken(t)
      BY <2>1 DEF AccessToken, Begin, Goto, Stages
  <2>2. CASE CheckExpiry(t)
      BY <2>2 DEF CheckExpiry, Goto, Stages
  <2>3. CASE ReadAccessToken(t)
      BY <2>3 DEF ReadAccessToken, Return, Goto, Stages
  <2>4. CASE ReadRefreshToken(t)
      BY <2>4 DEF ReadRefreshToken, Return, Goto, Stages
  <2> QED
      BY <1>1, <2>1, <2>2, <2>3, <2>4
<1>2. ASSUME NEW t \in Threads, RefreshAnswered(t) PROVE Stages'
  <2>1. \A u \in Threads : EachOnce(todo'[u])
    <3>1. EachOnce(RefreshWrites(resp[t]))
        BY WritesStore
    <3>2. todo' = todo \/ todo' = [todo EXCEPT ![t] = RefreshWrites(resp[t])]
        BY <1>2 DEF RefreshAnswered
    <3> QED
        BY <3>1, <3>2 DEF Stages
  <2>2. \A u \in Threads : used'[u] # None <=> pc'[u] = "refresh"
      BY <1>2 DEF RefreshAnswered, Return, Forget, Goto, Stages
  <2>3. /\ \A u \in Threads : resp'[u] # Waiting => pc'[u] \in {"refresh", "login"}
        /\ \A u \in Threads : resp'[u].kind # "ok" => resp'[u] \in {Waiting, Failed}
      BY <1>2 DEF RefreshAnswered, Return, Forget, Goto, Stages
  <2> QED
      BY <2>1, <2>2, <2>3 DEF Stages
<1>3. ASSUME NEW t \in Threads, Write(t) PROVE Stages'
  <2>1. todo[t] \in Seq(Fields \X Secrets) /\ todo[t] # <<>> /\ EachOnce(todo[t])
      BY <1>3 DEF Write, TypeOK, Stages
  <2>2. \A u \in Threads : EachOnce(todo'[u])
      BY <1>3, <2>1, WritesLeft DEF Write, Stages
  <2>3. /\ pc' = [pc EXCEPT ![t] = pc'[t]] /\ pc'[t] # "refresh"
        /\ pc[t] \notin {"refresh", "login"}
      BY <1>3 DEF Write, Goto, AfterWrites
  <2> QED
      BY <1>3, <2>2, <2>3 DEF Write, Stages
<1>4. ASSUME Authenticate PROVE Stages'
    BY <1>4 DEF Authenticate, Begin, Goto, Stages
<1>5. ASSUME LoginAnswered PROVE Stages'
  <2>1. \A u \in Threads : EachOnce(todo'[u])
    <3>1. EachOnce(LoginWrites(resp["ui"]))
        BY WritesStore
    <3>2. todo' = todo \/ todo' = [todo EXCEPT !["ui"] = LoginWrites(resp["ui"])]
        BY <1>5 DEF LoginAnswered
    <3> QED
        BY <3>1, <3>2 DEF Stages
  <2>2. \A u \in Threads : used'[u] # None <=> pc'[u] = "refresh"
      BY <1>5 DEF LoginAnswered, Forget, Goto, Stages
  <2>3. /\ \A u \in Threads : resp'[u] # Waiting => pc'[u] \in {"refresh", "login"}
        /\ \A u \in Threads : resp'[u].kind # "ok" => resp'[u] \in {Waiting, Failed}
      BY <1>5 DEF LoginAnswered, Forget, Goto, Stages
  <2> QED
      BY <2>1, <2>2, <2>3 DEF Stages
<1>6. ASSUME Logout PROVE Stages'
  <2>1. EachOnce(ClearWrites)
    <3>1. Waiting \in Response
        BY AnswersTyped
    <3> QED
        BY <3>1, WritesStore
  <2> QED
      BY <1>6, <2>1 DEF Logout, Begin, Goto, Stages
<1>7. ASSUME NEW t \in Threads, NEW r, Answer(t, r),
             pc[t] \in {"refresh", "login"}, r.kind = "ok" \/ r = Failed,
             UNCHANGED <<pc, used, todo>>
      PROVE  Stages'
    BY <1>7 DEF Answer, Stages
<1>8. \A a, v : Tokens(a, v).kind = "ok"
    BY DEF Tokens
<1>9. ASSUME NEW t \in Threads, Endpoint(t) PROVE Stages'
  <2>3. \A r : Arrives(t, r) /\ r.kind = "ok" => \E q : Answer(t, q) /\ q.kind = "ok"
      BY <1>8 DEF Arrives, Truncated
  <2>4. Answer(t, Failed) \/ \E v : Arrives(t, Tokens(now + Lifetime, v))
      BY <1>9, Zenon DEF Endpoint, GrantRefresh, RefuseRefresh, NetworkFails
  <2>1. \E r : Answer(t, r) /\ (r.kind = "ok" \/ r = Failed)
      BY <1>8, <2>3, <2>4
  <2>2. pc[t] \in {"refresh", "login"} /\ UNCHANGED <<pc, used, todo>>
      BY <1>9 DEF Endpoint, GrantRefresh, RefuseRefresh, NetworkFails
  <2> QED
      BY <1>7, <2>1, <2>2
<1>10. ASSUME GrantLogin PROVE Stages'
  <2>3. \A r : Arrives("ui", r) /\ r.kind = "ok" => \E q : Answer("ui", q) /\ q.kind = "ok"
      BY <1>8 DEF Arrives, Truncated
  <2>4. Answer("ui", Failed) \/ \E v : Arrives("ui", Tokens(now + Lifetime, v))
      BY <1>10, Zenon DEF GrantLogin
  <2>1. \E r : Answer("ui", r) /\ (r.kind = "ok" \/ r = Failed)
      BY <1>8, <2>3, <2>4
  <2> QED
      BY <1>7, <1>10, <2>1 DEF GrantLogin
<1>11. ASSUME Restart PROVE Stages'
    BY <1>11 DEF Restart, Stages, EachOnce
<1>12. ASSUME UNCHANGED <<pc, used, resp, todo>> PROVE Stages'
    BY <1>12 DEF Stages
<1> QED
    BY <1>1, <1>2, <1>3, <1>4, <1>5, <1>6, <1>9, <1>10, <1>11, <1>12
    DEF Next, Thread, Revoke, Tick, vars

-----------------------------------------------------------------------------
(* What a step does to the refresh tokens: nothing that matters, the issue *)
(* of one, its arrival in the keyring, or, when the program or the keyring *)
(* fails, the loss of one.                                                 *)

SameKeyring == keyring'["refresh"] = keyring["refresh"]
SameServer  == issued' = issued /\ honoured' = honoured
UsedIsKnown == \A s \in Threads : used'[s] \in {used[s], None, keyring["refresh"]}

Quiet ==
    /\ \A s \in Threads, v \in Secrets : Holds(s, v)' <=> Holds(s, v)
    /\ SameKeyring /\ SameServer /\ UsedIsKnown

Issues(t) ==
    /\ \A s \in Threads, v \in Secrets :
           Holds(s, v)' <=> Holds(s, v) \/ (s = t /\ v = issued + 1)
    /\ issued' = issued + 1
    /\ \A v \in honoured : v # used[t] => v \in honoured'
    /\ issued + 1 \in honoured'
    /\ SameKeyring /\ used' = used

Stored(t) ==
    /\ keyring'["refresh"] = None \/ Holds(t, keyring'["refresh"])
    /\ \A s \in Threads, v \in Secrets : Holds(s, v)' <=> Holds(s, v) /\ s # t
    /\ SameServer /\ used' = used

Loses ==
    /\ ~Reliable'
    /\ \A s \in Threads, v \in Secrets : Holds(s, v)' => Holds(s, v) \/ v = Broken
    /\ issued' \in {issued, issued + 1}
    /\ SameKeyring /\ UsedIsKnown

LEMMA FaultRecorded ==
    ASSUME TypeOK, NEW kind \in FaultKinds \ {"network", "delay"}, Fault(kind) PROVE ~Reliable'
<1>1. Len(faults') \in DOMAIN faults' /\ faults'[Len(faults')] = kind
    BY DEF TypeOK, Fault
<1> QED
    BY <1>1 DEF Reliable

\* What went wrong is not forgotten.
LEMMA FaultsKept == TypeOK /\ [Next]_vars /\ Reliable' => Reliable
<1> SUFFICES ASSUME TypeOK, [Next]_vars, Reliable' PROVE Reliable
    OBVIOUS
<1>1. faults' = faults \/ \E kind \in FaultKinds : Fault(kind)
    BY DEF Next, Thread, Endpoint, AccessToken, CheckExpiry, ReadAccessToken,
           ReadRefreshToken, RefreshAnswered, Write, Authenticate, LoginAnswered, Logout,
           GrantRefresh, RefuseRefresh, NetworkFails, Arrives, GrantLogin, Revoke,
           Restart, Tick, FaultKinds, serverVars, vars
<1>2. ASSUME NEW kind \in FaultKinds, Fault(kind), NEW i \in DOMAIN faults
      PROVE  i \in DOMAIN faults' /\ faults'[i] = faults[i]
    BY <1>2 DEF TypeOK, Fault
<1> QED
    BY <1>1, <1>2 DEF Reliable

LEMMA CallSteps ==
    ASSUME TypeOK, Stages, NEW t \in Threads,
           \/ AccessToken(t) \/ CheckExpiry(t) \/ ReadAccessToken(t) \/ ReadRefreshToken(t)
           \/ RefuseRefresh(t) \/ NetworkFails(t)
    PROVE  Quiet
<1>1. SameKeyring /\ SameServer
    BY DEF AccessToken, CheckExpiry, ReadAccessToken, ReadRefreshToken, RefuseRefresh,
           NetworkFails, SameKeyring, SameServer, serverVars
<1>2. UsedIsKnown
    BY DEF AccessToken, CheckExpiry, ReadAccessToken, ReadRefreshToken, RefuseRefresh,
           NetworkFails, UsedIsKnown, TypeOK
<1>3. todo' = todo /\ \A s \in Threads : resp'[s].refresh = resp[s].refresh
    BY DEF AccessToken, CheckExpiry, ReadAccessToken, ReadRefreshToken, RefuseRefresh,
           NetworkFails, Answer, Waiting, Failed, TypeOK
<1> QED
    BY <1>1, <1>2, <1>3 DEF Quiet, Holds

\* An answer's refresh token passes to the thread's writes.
LEMMA AnswerSteps ==
    ASSUME TypeOK, Stages, NEW t \in Threads,
           RefreshAnswered(t) \/ (t = "ui" /\ LoginAnswered)
    PROVE  Quiet
<1>1. SameKeyring /\ SameServer /\ UsedIsKnown
    BY DEF RefreshAnswered, LoginAnswered, Forget, SameKeyring, SameServer, UsedIsKnown,
           serverVars, TypeOK
<1>2. resp[t] \in Response /\ todo[t] = <<>>
    BY DEF RefreshAnswered, LoginAnswered, TypeOK, Saving
<1>3. resp' = [resp EXCEPT ![t] = Waiting]
    BY DEF RefreshAnswered, LoginAnswered, Forget
<1>4. ASSUME NEW v \in Secrets PROVE Holds(t, v)' <=> Holds(t, v)
  <2>1. resp'[t].refresh = None
      BY <1>3 DEF TypeOK, Waiting
  <2>2. CASE resp[t].kind = "failed"
    <3>1. todo' = todo /\ resp[t].refresh = None
        BY <2>2 DEF RefreshAnswered, LoginAnswered, Stages, Waiting, Failed
    <3> QED
        BY <2>1, <3>1 DEF Holds
  <2>3. CASE resp[t].kind # "failed"
    <3>1. todo'[t] = RefreshWrites(resp[t]) \/ todo'[t] = LoginWrites(resp[t])
        BY <2>3 DEF RefreshAnswered, LoginAnswered, TypeOK
    <3> QED
        BY <1>2, <2>1, <3>1, WritesStore DEF Holds
  <2> QED
      BY <2>2, <2>3
<1>5. ASSUME NEW s \in Threads, s # t, NEW v \in Secrets PROVE Holds(s, v)' <=> Holds(s, v)
  <2>1. todo'[s] = todo[s]
      BY <1>5 DEF RefreshAnswered, LoginAnswered, TypeOK
  <2>2. resp'[s] = resp[s]
      BY <1>3, <1>5 DEF TypeOK
  <2> QED
      BY <2>1, <2>2 DEF Holds
<1> QED
    BY <1>1, <1>4, <1>5 DEF Quiet

LEMMA EditorSteps ==
    ASSUME TypeOK, Stages, Authenticate \/ Logout PROVE Quiet
<1>1. SameKeyring /\ SameServer /\ UsedIsKnown
    BY DEF Authenticate, Logout, SameKeyring, SameServer, UsedIsKnown, serverVars
<1>2. CASE Authenticate
    BY <1>1, <1>2 DEF Authenticate, Quiet, Holds
<1>3. CASE Logout
  <2>1. /\ "ui" \in Threads /\ Waiting \in Response
        /\ todo["ui"] = <<>> /\ resp' = resp
        /\ todo' = [todo EXCEPT !["ui"] = ClearWrites]
      BY <1>3, AuthAssumption, AnswersTyped DEF Logout, Begin, TypeOK, Saving
  <2>2. \A v \in Secrets \ {None} : ~Stores(ClearWrites, v) /\ ~Stores(<<>>, v)
      BY <2>1, WritesStore
  <2>3. \A v \in Secrets : Holds("ui", v)' <=> Holds("ui", v)
      BY <2>1, <2>2 DEF Holds, TypeOK
  <2>4. \A s \in Threads \ {"ui"}, v \in Secrets : Holds(s, v)' <=> Holds(s, v)
      BY <2>1 DEF Holds, TypeOK
  <2> QED
      BY <1>1, <2>3, <2>4 DEF Quiet
<1> QED
    BY <1>2, <1>3

LEMMA WriteSteps ==
    ASSUME TypeOK, Stages, NEW t \in Threads, Write(t)
    PROVE  Quiet \/ Stored(t) \/ Loses
<1> None \in Secrets
    BY DEF None
<1> HIDE DEF Secrets, Broken
<1> DEFINE w == Head(todo[t])
<1>1. todo[t] \in Seq(Fields \X Secrets) /\ todo[t] # <<>> /\ EachOnce(todo[t])
    BY DEF Write, TypeOK, Stages
<1>2. w = <<w[1], w[2]>> /\ w[1] \in Fields /\ w[2] \in Secrets
    BY <1>1, HeadTailProperties
<1>3. /\ resp' = resp /\ used' = used /\ SameServer
      /\ todo' = [todo EXCEPT ![t] = Tail(todo[t])]
    BY DEF Write, SameServer, serverVars
<1>4. resp[t].refresh = None
    BY DEF Write, Saving, Stages, Waiting
<1>5. \A s \in Threads \ {t}, v \in Secrets : Holds(s, v)' <=> Holds(s, v)
    BY <1>3 DEF Holds, TypeOK
<1>6. \A v \in Secrets :
          /\ Holds(t, v)' <=> (v # None /\ Stores(Tail(todo[t]), v))
          /\ Holds(t, v) <=> (v # None /\ Stores(todo[t], v))
    BY <1>3, <1>4 DEF Holds, TypeOK
<1>7. /\ \A v \in Secrets :
             Stores(todo[t], v) <=> w = <<"refresh", v>> \/ Stores(Tail(todo[t]), v)
      /\ w[1] = "refresh" => \A v \in Secrets : ~Stores(Tail(todo[t]), v)
    BY <1>1, WritesLeft
<1>8. \/ SecretSet(w[1], w[2])
      \/ SecretSetFails /\ Fault("keyring")
    BY DEF Write
<1> HIDE DEF w
<1>9. CASE SecretSetFails /\ Fault("keyring")
  <2>1. ~Reliable'
      BY <1>9, FaultRecorded DEF FaultKinds
  <2>2. \A s \in Threads, v \in Secrets : Holds(s, v)' => Holds(s, v)
    <3>1. \A v \in Secrets : Holds(t, v)' => Holds(t, v)
        BY <1>6, <1>7
    <3> QED
        BY <1>5, <3>1
  <2>3. SameKeyring /\ UsedIsKnown /\ issued' = issued
      BY <1>3, <1>9 DEF SameServer, SameKeyring, SecretSetFails, UsedIsKnown
  <2> QED
      BY <2>1, <2>2, <2>3 DEF Loses
<1>10. CASE SecretSet(w[1], w[2]) /\ w[1] # "refresh"
  <2>1. \A v \in Secrets : w # <<"refresh", v>>
      BY <1>10
  <2>2. \A s \in Threads, v \in Secrets : Holds(s, v)' <=> Holds(s, v)
    <3>1. \A v \in Secrets : Holds(t, v)' <=> Holds(t, v)
        BY <1>6, <1>7, <2>1
    <3> QED
        BY <1>5, <3>1
  <2>3. SameKeyring
      BY <1>10 DEF SecretSet, SameKeyring, TypeOK, Fields
  <2> QED
      BY <1>3, <2>2, <2>3 DEF Quiet, UsedIsKnown
<1>11. CASE SecretSet(w[1], w[2]) /\ w[1] = "refresh"
  <2>1. keyring'["refresh"] = w[2]
      BY <1>11 DEF SecretSet, TypeOK, Fields
  <2>2. w[2] = None \/ Holds(t, w[2])
    <3>1. w = <<"refresh", w[2]>> /\ w[2] \in Secrets
        BY <1>2, <1>11
    <3>2. Stores(todo[t], w[2])
        BY <1>7, <3>1
    <3> QED
        BY <1>6, <3>1, <3>2
  <2>3. \A v \in Secrets : ~Holds(t, v)'
      BY <1>6, <1>11, <1>7
  <2> QED
      BY <1>3, <1>5, <2>1, <2>2, <2>3 DEF Stored
<1> QED
    BY <1>8, <1>9, <1>10, <1>11

\* The endpoint's answer with a new refresh token.
LEMMA TokensHeld ==
    ASSUME TypeOK, Stages, NEW t \in Threads, NEW a \in Secrets, NEW r \in Secrets,
           Answer(t, Tokens(a, r)), todo' = todo
    PROVE  \A s \in Threads, v \in Secrets \ {None} :
               Holds(s, v)' <=> Holds(s, v) \/ (s = t /\ v = r)
<1>1. resp[t].refresh = None /\ resp' = [resp EXCEPT ![t] = Tokens(a, r)]
    BY DEF Answer, Waiting
<1>2. Tokens(a, r).refresh = r
    BY DEF Tokens
<1>3. \A s \in Threads \ {t} : resp'[s] = resp[s]
    BY <1>1 DEF TypeOK
<1>4. resp'[t].refresh = r
    BY <1>1, <1>2 DEF TypeOK
<1> QED
    BY <1>1, <1>3, <1>4 DEF Holds

LEMMA GrantSteps ==
    ASSUME TypeOK, Stages, NEW t \in Threads,
           GrantRefresh(t) \/ (t = "ui" /\ GrantLogin)
    PROVE  Quiet \/ Issues(t) \/ Loses
<1>1. /\ SameKeyring /\ used' = used /\ todo' = todo
      /\ UsedIsKnown
    BY DEF GrantRefresh, GrantLogin, SameKeyring, UsedIsKnown
<1>2. /\ now + Lifetime \in Secrets /\ None \in Secrets /\ issued + 1 \in Secrets
      /\ issued + 1 # None
    BY AuthAssumption DEF TypeOK, None
<1>3. ASSUME Answer(t, Tokens(now + Lifetime, None)) \/ Answer(t, Failed)
      PROVE  \A s \in Threads, v \in Secrets : Holds(s, v)' <=> Holds(s, v)
  <2>1. \A s \in Threads : resp'[s].refresh = resp[s].refresh
    <3>1. PICK r : Answer(t, r) /\ r.refresh = None
        BY <1>3 DEF Failed, Waiting, Tokens
    <3>2. resp[t].refresh = None /\ resp' = [resp EXCEPT ![t] = r]
        BY <3>1 DEF Answer, Waiting
    <3> QED
        BY <3>1, <3>2 DEF TypeOK
  <2> QED
      BY <1>1, <2>1 DEF Holds
<1>4. ASSUME Answer(t, Tokens(now + Lifetime, issued + 1)),
             issued' = issued + 1,
             honoured' \in {(honoured \ {used[t]}) \cup {issued + 1}, honoured \cup {issued + 1}}
      PROVE  Issues(t)
  <2>1. \A s \in Threads, v \in Secrets :
            Holds(s, v)' <=> Holds(s, v) \/ (s = t /\ v = issued + 1)
    <3>1. \A s \in Threads : ~Holds(s, None) /\ ~Holds(s, None)'
        BY DEF Holds, None
    <3> QED
        BY <1>1, <1>2, <1>4, <3>1, TokensHeld
  <2>2. issued + 1 \in honoured' /\ \A v \in honoured : v # used[t] => v \in honoured'
      BY <1>4
  <2> QED
      BY <1>1, <1>4, <2>1, <2>2 DEF Issues
<1>7. ASSUME NEW a \in Secrets, NEW v \in Secrets, NEW part \in Truncated(Tokens(a, v)),
             Answer(t, part), Fault("cut"), issued' \in {issued, issued + 1}
      PROVE  Loses
  <2>1. part.refresh \in {None, Broken}
      BY <1>7 DEF Truncated, Tokens
  <2>2. resp[t].refresh = None /\ resp' = [resp EXCEPT ![t] = part]
      BY <1>7 DEF Answer, Waiting
  <2>3. \A s \in Threads : resp'[s].refresh \in {resp[s].refresh, None, Broken}
      BY <2>1, <2>2 DEF TypeOK
  <2>4. \A s \in Threads, w \in Secrets : Holds(s, w)' => Holds(s, w) \/ w = Broken
      BY <1>1, <2>3 DEF Holds
  <2>5. ~Reliable'
      BY <1>7, FaultRecorded DEF FaultKinds
  <2> QED
      BY <1>1, <1>7, <2>4, <2>5 DEF Loses
<1>8. ASSUME NEW v \in Secrets, Arrives(t, Tokens(now + Lifetime, v)),
             ~Answer(t, Tokens(now + Lifetime, v)), issued' \in {issued, issued + 1}
      PROVE  Loses
  <2>1. PICK part \in Truncated(Tokens(now + Lifetime, v)) : Answer(t, part) /\ Fault("cut")
      BY <1>8 DEF Arrives
  <2> QED
      BY <1>2, <1>7, <1>8, <2>1
<1>5. CASE GrantRefresh(t)
  <2>1. CASE Arrives(t, Tokens(now + Lifetime, None)) /\ UNCHANGED serverVars
    <3>1. CASE Answer(t, Tokens(now + Lifetime, None))
        BY <1>1, <1>3, <2>1, <3>1 DEF Quiet, SameServer, serverVars
    <3> QED
        BY <1>2, <1>8, <2>1, <3>1 DEF serverVars
  <2>2. CASE /\ issued' = issued + 1
             /\ \E kept \in {honoured, honoured \ {used[t]}} : honoured' = kept \cup {issued + 1}
             /\ Arrives(t, Tokens(now + Lifetime, issued + 1))
    <3>1. CASE Answer(t, Tokens(now + Lifetime, issued + 1))
        BY <1>4, <2>2, <3>1
    <3> QED
        BY <1>2, <1>8, <2>2, <3>1
  <2>3. CASE issued' = issued + 1 /\ Answer(t, Failed) /\ Fault("answer")
    <3>1. ~Reliable'
        BY <2>3, FaultRecorded DEF FaultKinds
    <3> QED
        BY <1>1, <1>3, <2>3, <3>1 DEF Loses
  <2> QED
      BY <1>5, <2>1, <2>2, <2>3 DEF GrantRefresh
<1>6. CASE t = "ui" /\ GrantLogin
  <2>1. CASE Answer("ui", Failed) /\ UNCHANGED serverVars
      BY <1>1, <1>3, <1>6, <2>1 DEF Quiet, SameServer, serverVars
  <2>2. CASE /\ issued' = issued + 1 /\ honoured' = honoured \cup {issued + 1}
             /\ Arrives("ui", Tokens(now + Lifetime, issued + 1))
    <3>1. CASE Answer("ui", Tokens(now + Lifetime, issued + 1))
        BY <1>4, <1>6, <2>2, <3>1
    <3> QED
        BY <1>2, <1>6, <1>8, <2>2, <3>1
  <2> QED
      BY <1>6, <2>1, <2>2 DEF GrantLogin
<1> QED
    BY <1>5, <1>6

LEMMA OtherSteps ==
    ASSUME TypeOK, Stages, Revoke \/ Restart \/ Tick \/ UNCHANGED vars
    PROVE  Quiet \/ Loses
<1>1. CASE Revoke
  <2>1. ~Reliable'
      BY <1>1, FaultRecorded DEF Revoke, FaultKinds
  <2> QED
      BY <1>1, <2>1 DEF Revoke, Loses, Holds, SameKeyring, UsedIsKnown
<1>2. CASE Restart
  <2>1. ~Reliable'
      BY <1>2, FaultRecorded DEF Restart, FaultKinds
  <2>2. \A s \in Threads, v \in Secrets : ~Holds(s, v)'
      BY <1>2 DEF Restart, Holds, Stores, Waiting
  <2> QED
      BY <1>2, <2>1, <2>2 DEF Restart, Loses, SameKeyring, UsedIsKnown, serverVars
<1>3. CASE Tick \/ UNCHANGED vars
    BY <1>3 DEF Tick, vars, Quiet, Holds, SameKeyring, SameServer, UsedIsKnown, serverVars
<1> QED
    BY <1>1, <1>2, <1>3

LEMMA EveryStep ==
    ASSUME TypeOK, Stages, [Next]_vars
    PROVE  Quiet \/ Loses \/ \E t \in Threads : Issues(t) \/ Stored(t)
<1>1. "ui" \in Threads
    BY AuthAssumption
<1> QED
    BY <1>1, CallSteps, AnswerSteps, EditorSteps, WriteSteps, GrantSteps, OtherSteps
    DEF Next, Thread, Endpoint

-----------------------------------------------------------------------------
(* The tokens' numbers and their custody.                                  *)

LEMMA NumberedPreserved == TypeOK /\ Stages /\ Numbered /\ TypeOK' /\ [Next]_vars => Numbered'
<1> SUFFICES ASSUME TypeOK, Stages, Numbered, TypeOK', [Next]_vars PROVE Numbered'
    OBVIOUS
<1>1. issued \in Nat /\ keyring["refresh"] \in Secrets /\ keyring'["refresh"] \in Secrets
    BY DEF TypeOK, Fields
<1>2. \A s \in Threads : used[s] \in Secrets /\ used'[s] \in Secrets
    BY DEF TypeOK
<1>3. CASE Quiet \/ Loses
  <2>1. issued' \in {issued, issued + 1} /\ SameKeyring /\ UsedIsKnown
      BY <1>3 DEF Quiet, Loses, SameServer
  <2>2. \A s \in Threads : used'[s] <= issued'
      BY <1>1, <1>2, <2>1 DEF UsedIsKnown, Numbered, None
  <2>3. \A s \in Threads, v \in Secrets : Holds(s, v)' => v <= issued'
      BY <1>1, <1>3, <2>1 DEF Quiet, Loses, Numbered
  <2> QED
      BY <1>1, <2>1, <2>2, <2>3 DEF SameKeyring, Numbered
<1>4. ASSUME NEW t \in Threads, Issues(t) PROVE Numbered'
  <2>1. \A s \in Threads : used'[s] <= issued'
      BY <1>1, <1>2, <1>4 DEF Issues, Numbered
  <2>2. \A s \in Threads, v \in Secrets : Holds(s, v)' => v <= issued'
      BY <1>1, <1>4 DEF Issues, Numbered
  <2> QED
      BY <1>1, <1>4, <2>1, <2>2 DEF Issues, SameKeyring, Numbered
<1>5. ASSUME NEW t \in Threads, Stored(t) PROVE Numbered'
  <2>1. issued' = issued /\ used' = used
      BY <1>5 DEF Stored, SameServer
  <2>2. keyring'["refresh"] <= issued
      BY <1>1, <1>5 DEF Stored, Numbered, None
  <2> QED
      BY <1>5, <2>1, <2>2 DEF Stored, Numbered
<1> QED
    BY <1>3, <1>4, <1>5, EveryStep

LEMMA CustodyPreserved ==
    ASSUME TypeOK, Stages, Numbered, Custody, TypeOK', Reliable', [Next]_vars
    PROVE  Custody'
<1>1. issued \in Nat /\ keyring["refresh"] \in Secrets /\ keyring'["refresh"] \in Secrets
    BY DEF TypeOK, Fields
<1>2. \A s \in Threads, v \in Secrets : (Holds(s, v) => v # None) /\ (Holds(s, v)' => v # None)
    BY DEF Holds
<1>3. CASE Quiet
  <2>1. /\ \A s \in Threads, v \in Secrets : Holds(s, v)' <=> Holds(s, v)
        /\ keyring'["refresh"] = keyring["refresh"] /\ honoured' = honoured
      BY <1>3 DEF Quiet, SameKeyring, SameServer
  <2>2. \A s, t \in Threads, v \in Secrets : Holds(t, v)' => used'[s] # v
      BY <1>2, <1>3, <2>1 DEF Quiet, UsedIsKnown, Custody
  <2> QED
      BY <2>1, <2>2 DEF Custody
<1>4. ASSUME NEW t \in Threads, Issues(t) PROVE Custody'
  <2> DEFINE n == issued + 1
  <2>1. /\ \A s \in Threads, v \in Secrets : Holds(s, v)' <=> Holds(s, v) \/ (s = t /\ v = n)
        /\ \A v \in honoured : v # used[t] => v \in honoured'
        /\ n \in honoured' /\ keyring'["refresh"] = keyring["refresh"] /\ used' = used
      BY <1>4 DEF Issues, SameKeyring
  <2>2. /\ \A s \in Threads : used[s] # n
        /\ \A s \in Threads : ~Holds(s, n)
        /\ keyring["refresh"] # n /\ n \in Nat
    <3>1. n \in Nat /\ n > issued /\ keyring["refresh"] # n
        BY <1>1 DEF Numbered
    <3>2. \A s \in Threads : used[s] # n
        BY <1>1, <3>1 DEF Numbered, TypeOK
    <3> HIDE DEF n
    <3>3. \A s \in Threads : ~Holds(s, n)
      <4>1. \A s \in Threads : Holds(s, n) => n <= issued
          BY <3>1 DEF Numbered
      <4> QED
          BY <1>1, <3>1, <4>1
    <3> QED
        BY <3>1, <3>2, <3>3
  <2>3. \A s \in Threads, v \in Secrets : Holds(s, v)' => v \in honoured'
      BY <2>1 DEF Custody
  <2>4. \A r, s \in Threads, v \in Secrets : Holds(r, v)' /\ Holds(s, v)' => r = s
      BY <2>1, <2>2 DEF Custody
  <2>5. \A r, s \in Threads, v \in Secrets : Holds(s, v)' => used'[r] # v
      BY <2>1, <2>2 DEF Custody
  <2>6. \A s \in Threads, v \in Secrets : Holds(s, v)' => keyring'["refresh"] # v
      BY <2>1, <2>2 DEF Custody
  <2>7. \E s \in Threads, v \in Secrets : Holds(s, v)'
      BY <2>1, <2>2
  <2> QED
      BY <2>2, <2>3, <2>4, <2>5, <2>6, <2>7 DEF Custody
<1>5. ASSUME NEW t \in Threads, Stored(t) PROVE Custody'
  <2>1. /\ \A s \in Threads, v \in Secrets : Holds(s, v)' <=> Holds(s, v) /\ s # t
        /\ keyring'["refresh"] = None \/ Holds(t, keyring'["refresh"])
        /\ honoured' = honoured /\ used' = used
      BY <1>5 DEF Stored, SameServer
  <2>2. keyring'["refresh"] \in honoured' \cup {None}
      BY <1>1, <2>1 DEF Custody
  <2>3. \A s \in Threads, v \in Secrets : Holds(s, v)' => keyring'["refresh"] # v
      BY <1>1, <1>2, <2>1 DEF Custody
  <2> QED
      BY <2>1, <2>2, <2>3 DEF Custody
<1>6. ~Loses
    BY DEF Loses
<1> QED
    BY <1>3, <1>4, <1>5, <1>6, EveryStep

LEMMA Inductive == Spec => []IInv
<1>1. Init => IInv
    BY InitEstablishes
<1>2. IInv /\ [Next]_vars => IInv'
  <2> SUFFICES ASSUME IInv, [Next]_vars PROVE IInv'
      OBVIOUS
  <2>1. TypeOK' /\ Stages'
      BY TypePreserved, StagesPreserved DEF IInv
  <2>2. Numbered'
      BY <2>1, NumberedPreserved DEF IInv
  <2>3. Reliable' => Reliable
      BY FaultsKept DEF IInv
  <2>4. Reliable' => Custody'
      BY <2>1, <2>3, CustodyPreserved DEF IInv
  <2> QED
      BY <2>1, <2>2, <2>4 DEF IInv
<1> QED
    BY <1>1, <1>2, PTL DEF Spec

-----------------------------------------------------------------------------
(* The results.                                                            *)

\* Every state of the keyring, the threads and the token endpoint has its type,
\* and a thread that saves has a write left to do.
THEOREM TypeCorrect == Spec => []TypeOK
<1>1. IInv => TypeOK
    BY DEF IInv
<1> QED
    BY <1>1, Inductive, PTL

\* However many threads refresh at the same time (AuthModule.cpp:228-231), and
\* even if the endpoint accepts a refresh token once, a stored refresh token is
\* one it accepts whenever no call is under way.
THEOREM RefreshTokenSurvives == Spec => []LoginSurvives
<1>1. IInv => LoginSurvives
  <2> SUFFICES ASSUME IInv, Reliable, \A t \in Threads : pc[t] = "idle"
               PROVE  keyring["refresh"] \in honoured \cup {None}
      BY DEF LoginSurvives
  <2>1. \A t \in Threads : resp[t] = Waiting /\ todo[t] = <<>>
      BY DEF IInv, Stages, TypeOK, Saving
  <2>2. \A t \in Threads, v \in Secrets : ~Holds(t, v)
      BY <2>1 DEF Holds, Stores, Waiting
  <2> QED
      BY <2>2 DEF IInv, Custody
<1> QED
    BY <1>1, Inductive, PTL

-----------------------------------------------------------------------------
(* That accessToken() returns no expired token, as long as no call takes   *)
(* more than half of the margin, and half of a token's life. Nothing       *)
(* orders the threads' writes of the two secrets it depends on.            *)

\* A call is slow beyond this: with the margin of 60 s, the 30 s of one tick.
PromptCalls == 2 * Patience <= Margin /\ 2 * Patience <= Lifetime

\* The token a is none, or was granted since t's call began.
Granted(t, a) == a = None \/ now - age[t] + Lifetime <= a

\* Queues of writes that begin with the access token's, or do not hold it.
AccessFirst(q) == \A i \in 1 .. Len(q) : q[i][1] = "access" => i = 1
AccessWritten(q) == \A i \in 1 .. Len(q) : q[i][1] # "access"

\* No call is too old, the tokens it brings were granted since it began, and no
\* expiry lies further ahead than the life of a token granted now.
Timed ==
    /\ \A t \in Threads : age[t] <= Patience
    /\ \A t \in Threads : resp[t].kind = "ok" => Granted(t, resp[t].access)
    /\ \A t \in Threads : AccessFirst(todo[t])
    /\ \A t \in Threads : \A i \in 1 .. Len(todo[t]) :
          /\ todo[t][i][1] = "access" => Granted(t, todo[t][i][2])
          /\ todo[t][i][1] = "expires" => todo[t][i][2] <= now + Lifetime
    /\ keyring["expires"] <= now + Lifetime

\* The stored access token is cleared, or lives until time v.
LivesUntil(v) == keyring["access"] = None \/ v <= keyring["access"]

\* The stored token outlives its expiry as stored, less the time of one call,
\* whichever threads wrote the two; so does it an expiry about to be stored by a
\* thread that has stored its token; and a call that will return the stored token
\* as it is may take its full time.
Matched ==
    /\ LivesUntil(keyring["expires"] - Patience)
    /\ \A t \in Threads : AccessWritten(todo[t]) =>
          \A i \in 1 .. Len(todo[t]) :
              todo[t][i][1] = "expires" => LivesUntil(todo[t][i][2] - Patience)
    /\ \A t \in Threads :
          \/ pc[t] = "readAccess"
          \/ pc[t] = "saveRefresh" /\ AccessWritten(todo[t])
          => LivesUntil(now - age[t] + Patience)

LifeInv == Timed /\ Matched

-----------------------------------------------------------------------------
LEMMA LifeInit == Init => LifeInv
<1> USE AuthAssumption
<1> SUFFICES ASSUME Init PROVE LifeInv
    OBVIOUS
<1>1. /\ keyring["expires"] = None /\ keyring["access"] = None /\ now = 1
      /\ \A t \in Threads : age[t] = 0 /\ resp[t].kind = "waiting" /\ todo[t] = <<>>
    BY DEF Init, TokenStoreInit, Fields, Waiting
<1>2. Timed
    BY <1>1 DEF Timed, AccessFirst, None
<1>3. Matched
    BY <1>1 DEF Matched, LivesUntil
<1> QED
    BY <1>2, <1>3 DEF LifeInv

LEMMA Numbers ==
    ASSUME TypeOK
    PROVE  /\ now \in Nat /\ Patience \in Nat /\ Lifetime \in Nat /\ Margin \in Nat
           /\ keyring["access"] \in Int /\ keyring["expires"] \in Int
           /\ \A t \in Threads : age[t] \in Nat /\ resp[t].access \in Int
           /\ \A t \in Threads : todo[t] \in Seq(Fields \X Secrets)
           /\ \A t \in Threads : \A i \in 1 .. Len(todo[t]) :
                 todo[t][i][1] \in Fields /\ todo[t][i][2] \in Int
<1>1. /\ now \in Nat /\ Patience \in Nat /\ Lifetime \in Nat /\ Margin \in Nat
      /\ keyring["access"] \in Int /\ keyring["expires"] \in Int
    BY AuthAssumption, MarginAssumption DEF TypeOK, Fields
<1>2. \A t \in Threads : age[t] \in Nat /\ resp[t].access \in Int
    BY DEF TypeOK, Response
<1>3. \A t \in Threads : todo[t] \in Seq(Fields \X Secrets)
    BY DEF TypeOK
<1>4. ASSUME NEW t \in Threads, NEW i \in 1 .. Len(todo[t])
      PROVE  todo[t][i][1] \in Fields /\ todo[t][i][2] \in Int
  <2>1. todo[t][i] \in Fields \X Secrets
      BY <1>3
  <2> QED
      BY <2>1
<1> QED
    BY <1>1, <1>2, <1>3, <1>4

LEMMA NumbersNext ==
    ASSUME TypeOK'
    PROVE  /\ now' \in Nat
           /\ keyring'["access"] \in Int /\ keyring'["expires"] \in Int
           /\ \A t \in Threads : age'[t] \in Nat /\ resp'[t].access \in Int
           /\ \A t \in Threads : todo'[t] \in Seq(Fields \X Secrets)
           /\ \A t \in Threads : \A i \in 1 .. Len(todo'[t]) :
                 todo'[t][i][1] \in Fields /\ todo'[t][i][2] \in Int
<1>1. now' \in Nat /\ keyring'["access"] \in Int /\ keyring'["expires"] \in Int
    BY DEF TypeOK, Fields
<1>2. \A t \in Threads : age'[t] \in Nat /\ resp'[t].access \in Int
    BY DEF TypeOK, Response
<1>3. \A t \in Threads : todo'[t] \in Seq(Fields \X Secrets)
    BY DEF TypeOK
<1>4. ASSUME NEW t \in Threads, NEW i \in 1 .. Len(todo'[t])
      PROVE  todo'[t][i][1] \in Fields /\ todo'[t][i][2] \in Int
  <2>1. todo'[t][i] \in Fields \X Secrets
      BY <1>3
  <2> QED
      BY <2>1
<1> QED
    BY <1>1, <1>2, <1>3, <1>4

\* A fault is not undone.
LEMMA FaultsStay == TypeOK /\ [Next]_vars /\ Mishap => Mishap'
<1> SUFFICES ASSUME TypeOK, [Next]_vars, NEW kind, Happened(kind) PROVE Happened(kind)'
    BY DEF Mishap
<1>1. faults' = faults \/ \E k \in FaultKinds : faults' = Append(faults, k)
    BY DEF Next, Thread, Endpoint, AccessToken, CheckExpiry, ReadAccessToken,
       ReadRefreshToken, RefreshAnswered, Write, GrantRefresh, RefuseRefresh, Arrives,
       NetworkFails, Authenticate, LoginAnswered, Logout, GrantLogin, Revoke, Restart,
       Tick, vars, Fault, FaultKinds
<1>2. faults \in Seq(FaultKinds)
    BY DEF TypeOK
<1>3. PICK i \in DOMAIN faults : faults[i] = kind
    BY DEF Happened
<1>4. i \in DOMAIN faults' /\ faults'[i] = faults[i]
    BY <1>1, <1>2
<1> QED
    BY <1>3, <1>4 DEF Happened

\* A fault of the kinds that matter is one.
LEMMA FaultShows ==
    ASSUME TypeOK, NEW kind \in {"keyring", "cut", "delay"}, Fault(kind) PROVE Mishap'
<1>1. Len(faults') \in DOMAIN faults' /\ faults'[Len(faults')] = kind
    BY DEF TypeOK, Fault
<1>2. Happened(kind)'
    BY <1>1 DEF Happened
<1> QED
    BY <1>2 DEF Mishap

-----------------------------------------------------------------------------
(* Steps that leave the keyring and the clock alone.                       *)

GrantedNext(t, a) == a = None \/ now' - age'[t] + Lifetime <= a

\* A queue just made for t: its first write is the token's.
Made(t, q) ==
    /\ AccessFirst(q)
    /\ q # <<>> => ~AccessWritten(q)
    /\ \A i \in 1 .. Len(q) :
          /\ q[i][1] = "access" => GrantedNext(t, q[i][2])
          /\ q[i][1] = "expires" => q[i][2] <= now + Lifetime

SameQueue(t) == todo'[t] = todo[t] /\ age'[t] = age[t]

LEMMA CallStep ==
    ASSUME TypeOK, TypeOK', LifeInv, keyring' = keyring, now' = now,
           \A t \in Threads : SameQueue(t) \/ (Made(t, todo'[t]) /\ age'[t] <= age[t]),
           \A t \in Threads : resp'[t].kind = "ok" => GrantedNext(t, resp'[t].access),
           \A t \in Threads : pc'[t] = "readAccess" =>
              \/ pc[t] = "readAccess" /\ age'[t] = age[t]
              \/ LivesUntil(now - age'[t] + Patience),
           \A t \in Threads : pc'[t] = "saveRefresh" =>
              \/ pc[t] = "saveRefresh" /\ SameQueue(t)
              \/ ~AccessWritten(todo'[t])
    PROVE  LifeInv'
<1> USE Numbers, NumbersNext
<1>1. Timed'
  <2>1. \A t \in Threads : age'[t] <= Patience
      BY DEF LifeInv, Timed, SameQueue
  <2>2. \A t \in Threads : resp'[t].kind = "ok" => GrantedNext(t, resp'[t].access)
      OBVIOUS
  <2>3. ASSUME NEW t \in Threads
        PROVE  /\ AccessFirst(todo'[t])
               /\ \A i \in 1 .. Len(todo'[t]) :
                     /\ todo'[t][i][1] = "access" => GrantedNext(t, todo'[t][i][2])
                     /\ todo'[t][i][1] = "expires" => todo'[t][i][2] <= now' + Lifetime
    <3>1. CASE SameQueue(t)
      <4>1. todo'[t] = todo[t] /\ age'[t] = age[t] /\ now' = now
          BY <3>1 DEF SameQueue
      <4>2. /\ AccessFirst(todo[t])
            /\ \A i \in 1 .. Len(todo[t]) :
                  /\ todo[t][i][1] = "access" => Granted(t, todo[t][i][2])
                  /\ todo[t][i][1] = "expires" => todo[t][i][2] <= now + Lifetime
          BY DEF LifeInv, Timed
      <4> QED
          BY <4>1, <4>2 DEF Granted, GrantedNext
    <3>2. CASE Made(t, todo'[t])
        BY <3>2 DEF Made
    <3> QED
        BY <3>1, <3>2
  <2>4. keyring'["expires"] <= now' + Lifetime
      BY DEF LifeInv, Timed
  <2> HIDE Numbers, NumbersNext
  <2> QED
      BY <2>1, <2>2, <2>3, <2>4 DEF Timed, AccessFirst, Granted, GrantedNext
<1>2. Matched'
  <2>1. Matched
      BY DEF LifeInv
  <2>2. \A v : LivesUntil(v)' <=> LivesUntil(v')
      BY DEF LivesUntil
  <2>3. LivesUntil(keyring["expires"] - Patience)'
      BY <2>1 DEF Matched, LivesUntil
  <2>4. ASSUME NEW t \in Threads, AccessWritten(todo'[t]), NEW i \in 1 .. Len(todo'[t]),
               todo'[t][i][1] = "expires"
        PROVE  LivesUntil(todo[t][i][2] - Patience)'
    <3>1. SameQueue(t)
        BY <2>4 DEF Made
    <3> QED
        BY <2>1, <2>4, <3>1 DEF Matched, LivesUntil, SameQueue
  <2>5. ASSUME NEW t \in Threads,
               pc'[t] = "readAccess" \/ (pc'[t] = "saveRefresh" /\ AccessWritten(todo'[t]))
        PROVE  LivesUntil(now - age[t] + Patience)'
    <3>1. CASE pc'[t] = "readAccess"
        BY <2>1, <3>1 DEF Matched, LivesUntil
    <3>2. CASE pc'[t] = "saveRefresh" /\ AccessWritten(todo'[t])
        BY <2>1, <3>2 DEF Matched, LivesUntil, SameQueue
    <3> QED
        BY <2>5, <3>1, <3>2
  <2> QED
      BY <2>3, <2>4, <2>5 DEF Matched, AccessWritten
<1> QED
    BY <1>1, <1>2 DEF LifeInv

\* Steps that leave every queue and age alone, and give no thread a new answer.
LEMMA IdleStep ==
    ASSUME TypeOK, TypeOK', LifeInv, keyring' = keyring, now' = now,
           UNCHANGED <<todo, age>>,
           \A t \in Threads : resp'[t] = resp[t] \/ resp'[t].kind # "ok",
           \A t \in Threads : pc'[t] \in {"readAccess", "saveRefresh"} =>
              \/ pc'[t] = pc[t]
              \/ /\ pc'[t] = "readAccess"
                 /\ LivesUntil(now - age[t] + Patience)
    PROVE  LifeInv'
<1>1. \A t \in Threads : SameQueue(t)
    BY DEF SameQueue
<1>2. ASSUME NEW t \in Threads, resp'[t].kind = "ok" PROVE GrantedNext(t, resp'[t].access)
  <2>1. Granted(t, resp[t].access) /\ resp'[t] = resp[t]
      BY <1>2 DEF LifeInv, Timed
  <2> QED
      BY <2>1 DEF Granted, GrantedNext
<1>3. \A t \in Threads : pc'[t] = "readAccess" =>
         \/ pc[t] = "readAccess" /\ age'[t] = age[t]
         \/ LivesUntil(now - age'[t] + Patience)
    OBVIOUS
<1>4. \A t \in Threads : pc'[t] = "saveRefresh" => pc[t] = "saveRefresh"
    OBVIOUS
<1> QED
    BY <1>1, <1>2, <1>3, <1>4, CallStep

\* A token whose stored expiry is not yet near lives for a call's time more.
LEMMA CheckLife ==
    ASSUME TypeOK, LifeInv, PromptCalls, NEW t \in Threads, CheckExpiry(t)
    PROVE  pc'[t] = "readAccess" => LivesUntil(now - age[t] + Patience)
<1> SUFFICES ASSUME pc'[t] = "readAccess"
             PROVE  LivesUntil(now - age[t] + Patience)
    OBVIOUS
<1>1. ~IsExpired
    BY DEF CheckExpiry, Goto, TypeOK
<1>2. LivesUntil(keyring["expires"] - Patience)
    BY DEF LifeInv, Matched
<1> QED
  <2>1. CASE keyring["access"] = None
      BY <2>1 DEF LivesUntil
  <2>2. CASE keyring["access"] # None
    <3>1. keyring["expires"] - Patience <= keyring["access"]
        BY <1>2, <2>2 DEF LivesUntil
    <3>2. 2 * Patience <= Margin
        BY DEF PromptCalls
    <3>3. /\ now \in Nat /\ Patience \in Nat /\ Margin \in Nat /\ age[t] \in Nat
          /\ keyring["access"] \in Int /\ keyring["expires"] \in Int
        BY Numbers, Zenon
    <3>4. now + Margin <= keyring["expires"]
        BY <1>1, <3>3 DEF IsExpired
    <3>5. now - age[t] + Patience <= keyring["access"]
        BY <3>1, <3>2, <3>3, <3>4
    <3> QED
        BY <3>5 DEF LivesUntil
  <2> QED
      BY <2>1, <2>2

LEMMA ReadsLife ==
    ASSUME TypeOK, TypeOK', Stages, LifeInv, PromptCalls,
           NEW t \in Threads,
           CheckExpiry(t) \/ ReadAccessToken(t) \/ ReadRefreshToken(t)
              \/ RefuseRefresh(t) \/ NetworkFails(t)
    PROVE  LifeInv'
<1>1. keyring' = keyring /\ now' = now /\ UNCHANGED <<todo, age>>
    BY DEF CheckExpiry, ReadAccessToken, ReadRefreshToken, RefuseRefresh, NetworkFails
<1>2. \A u \in Threads : resp'[u] = resp[u] \/ resp'[u].kind # "ok"
  <2>1. CASE CheckExpiry(t) \/ ReadAccessToken(t) \/ ReadRefreshToken(t)
      BY <2>1 DEF CheckExpiry, ReadAccessToken, ReadRefreshToken
  <2>2. CASE RefuseRefresh(t) \/ NetworkFails(t)
    <3>1. resp' = [resp EXCEPT ![t] = Failed]
        BY <2>2 DEF RefuseRefresh, NetworkFails, Answer
    <3> QED
        BY <3>1 DEF Failed, TypeOK
  <2> QED
      BY <2>1, <2>2
<1>3. ASSUME NEW u \in Threads, pc'[u] \in {"readAccess", "saveRefresh"}, pc'[u] # pc[u]
      PROVE  /\ pc'[u] = "readAccess"
             /\ LivesUntil(now - age[u] + Patience)
  <2>1. CheckExpiry(t) /\ u = t /\ pc'[u] = "readAccess"
      BY <1>3 DEF CheckExpiry, ReadAccessToken, ReadRefreshToken, RefuseRefresh,
         NetworkFails, Goto, Return, TypeOK
  <2> QED
      BY <2>1, CheckLife
<1> QED
    BY <1>1, <1>2, <1>3, IdleStep

\* A call that begins, or an answer that does not bring a token.
LEMMA StartsLife ==
    ASSUME TypeOK, TypeOK', Stages, LifeInv,
           \/ \E t \in Threads : AccessToken(t)
           \/ Authenticate \/ Logout
    PROVE  LifeInv'
<1>1. PICK t \in Threads : /\ AccessToken(t) \/ (t = "ui" /\ (Authenticate \/ Logout))
    BY AuthAssumption
<1>2. /\ keyring' = keyring /\ now' = now /\ resp' = resp
      /\ pc[t] = "idle" /\ pc'[t] \in {"check", "login", "clear"}
      /\ \A u \in Threads \ {t} : pc'[u] = pc[u] /\ SameQueue(u)
      /\ age'[t] = 0 /\ (todo'[t] = todo[t] \/ todo'[t] = ClearWrites)
    BY <1>1 DEF AccessToken, Authenticate, Logout, Begin, Goto, TypeOK, SameQueue
<1>3. todo[t] = <<>>
    BY <1>2 DEF TypeOK, Saving
<1>4. Made(t, <<>>) /\ Made(t, ClearWrites)
  <2>1. Made(t, <<>>)
      BY DEF Made, AccessFirst
  <2>2. /\ Len(ClearWrites) = 3 /\ ClearWrites[1] = <<"access", None>>
        /\ ClearWrites[2] = <<"refresh", None>> /\ ClearWrites[3] = <<"expires", None>>
      BY DEF ClearWrites
  <2>3. \A i \in 1 .. Len(ClearWrites) : i \in {1, 2, 3}
      BY <2>2
  <2>4. None <= now + Lifetime
      BY Numbers DEF None
  <2>5. AccessFirst(ClearWrites) /\ ~AccessWritten(ClearWrites)
      BY <2>2, <2>3 DEF AccessFirst, AccessWritten
  <2>6. \A i \in 1 .. Len(ClearWrites) :
           /\ ClearWrites[i][1] = "access" => GrantedNext(t, ClearWrites[i][2])
           /\ ClearWrites[i][1] = "expires" => ClearWrites[i][2] <= now + Lifetime
      BY <2>2, <2>3, <2>4 DEF GrantedNext
  <2> QED
      BY <2>1, <2>5, <2>6 DEF Made
<1>5. age'[t] <= age[t]
    BY <1>2, Numbers
<1>6. \A u \in Threads : SameQueue(u) \/ (Made(u, todo'[u]) /\ age'[u] <= age[u])
    BY <1>2, <1>3, <1>4, <1>5
<1>7. ASSUME NEW u \in Threads, resp'[u].kind = "ok" PROVE GrantedNext(u, resp'[u].access)
  <2>1. u # t
      BY <1>2, <1>7 DEF Stages, Waiting
  <2>2. Granted(u, resp[u].access) /\ resp'[u] = resp[u] /\ age'[u] = age[u]
      BY <1>2, <1>7, <2>1 DEF LifeInv, Timed, SameQueue
  <2> QED
      BY <1>2, <2>2 DEF Granted, GrantedNext
<1>8. \A u \in Threads : pc'[u] \in {"readAccess", "saveRefresh"} =>
          u # t /\ pc'[u] = pc[u] /\ SameQueue(u)
    BY <1>2
<1> QED
    BY <1>2, <1>6, <1>7, <1>8, CallStep DEF SameQueue

\* The endpoint grants a token now.
LEMMA GrantsLife ==
    ASSUME TypeOK, TypeOK', LifeInv, ~Mishap',
           (\E t \in Threads : GrantRefresh(t)) \/ GrantLogin
    PROVE  LifeInv'
<1>1. PICK t \in Threads : GrantRefresh(t) \/ (t = "ui" /\ GrantLogin)
    BY AuthAssumption
<1>2. /\ keyring' = keyring /\ now' = now /\ pc' = pc /\ todo' = todo
      /\ pc[t] \in {"refresh", "login"}
      /\ \A u \in Threads \ {t} : resp'[u] = resp[u] /\ age'[u] = age[u]
      /\ age'[t] = age[t] \/ age'[t] = 0
  <2>1. /\ keyring' = keyring /\ now' = now /\ pc' = pc /\ todo' = todo
        /\ pc[t] \in {"refresh", "login"}
      BY <1>1 DEF GrantRefresh, GrantLogin
  <2>2. \A u \in Threads \ {t} : resp'[u] = resp[u]
    <3>1. \E r : resp' = [resp EXCEPT ![t] = r]
        BY <1>1, Zenon DEF GrantRefresh, GrantLogin, Arrives, Answer
    <3> QED
        BY <3>1 DEF TypeOK
  <2>3. /\ \A u \in Threads \ {t} : age'[u] = age[u]
        /\ age'[t] = age[t] \/ age'[t] = 0
      BY <1>1 DEF GrantRefresh, GrantLogin, TypeOK
  <2> QED
      BY <2>1, <2>2, <2>3
<1>3. resp'[t].kind = "ok" => resp'[t].access = now + Lifetime
  <2>1. ~Fault("cut")
      BY FaultShows
  <2>2. Answer(t, Failed) \/ \E v : Answer(t, Tokens(now + Lifetime, v))
      BY <1>1, <2>1 DEF GrantRefresh, GrantLogin, Arrives
  <2>3. Failed.kind # "ok" /\ \A v : Tokens(now + Lifetime, v).access = now + Lifetime
      BY DEF Failed, Waiting, Tokens
  <2> QED
      BY <2>2, <2>3 DEF Answer, TypeOK
<1>4. todo[t] = <<>>
    BY <1>2 DEF TypeOK, Saving
<1>5. Made(t, todo'[t]) /\ age'[t] <= age[t]
    BY <1>2, <1>4, Numbers DEF Made, AccessFirst
<1>6. \A u \in Threads : SameQueue(u) \/ (Made(u, todo'[u]) /\ age'[u] <= age[u])
    BY <1>2, <1>5 DEF SameQueue
<1>7. ASSUME NEW u \in Threads, resp'[u].kind = "ok" PROVE GrantedNext(u, resp'[u].access)
  <2>1. CASE u = t
      BY <1>2, <1>3, <1>7, <2>1, Numbers, NumbersNext DEF GrantedNext
  <2>2. CASE u # t
    <3>1. Granted(u, resp[u].access) /\ resp'[u] = resp[u] /\ age'[u] = age[u]
        BY <1>2, <1>7, <2>2 DEF LifeInv, Timed
    <3> QED
        BY <1>2, <3>1 DEF Granted, GrantedNext
  <2> QED
      BY <2>1, <2>2
<1>8. \A u \in Threads : pc'[u] \in {"readAccess", "saveRefresh"} =>
          pc'[u] = pc[u] /\ SameQueue(u)
    BY <1>2 DEF SameQueue
<1> QED
    BY <1>2, <1>6, <1>7, <1>8, CallStep DEF SameQueue

\* The queues made of an answer with a token granted since the call began.
LEMMA QueuesMade ==
    ASSUME TypeOK, NEW t \in Threads, NEW r \in Response, Granted(t, r.access),
           now' = now, age' = age
    PROVE  Made(t, RefreshWrites(r)) /\ Made(t, LoginWrites(r))
<1>1. GrantedNext(t, r.access) /\ ExpiresAt <= now + Lifetime
    BY Numbers DEF Granted, GrantedNext, ExpiresAt
<1>2. ASSUME NEW a, GrantedNext(t, a[2]), a[1] = "access",
             NEW b, b[1] = "expires" => b[2] <= now + Lifetime, b[1] # "access"
      PROVE  /\ Made(t, <<a, b>>)
             /\ \A c : (c[1] = "expires" => c[2] <= now + Lifetime) /\ c[1] # "access"
                       => Made(t, <<a, b, c>>)
  <2>1. Made(t, <<a, b>>)
    <3> DEFINE q == <<a, b>>
    <3>1. Len(q) = 2 /\ q[1] = a /\ q[2] = b
        OBVIOUS
    <3>2. \A i \in 1 .. Len(q) : i = 1 \/ i = 2
        BY <3>1
    <3> HIDE DEF q
    <3>3. Made(t, q)
        BY <1>2, <3>1, <3>2 DEF Made, AccessFirst, AccessWritten
    <3> QED
        BY <3>3 DEF q
  <2>2. ASSUME NEW c, c[1] = "expires" => c[2] <= now + Lifetime, c[1] # "access"
        PROVE  Made(t, <<a, b, c>>)
    <3> DEFINE q == <<a, b, c>>
    <3>1. Len(q) = 3 /\ q[1] = a /\ q[2] = b /\ q[3] = c
        OBVIOUS
    <3>2. \A i \in 1 .. Len(q) : i = 1 \/ i = 2 \/ i = 3
        BY <3>1
    <3> HIDE DEF q
    <3>3. Made(t, q)
        BY <1>2, <2>2, <3>1, <3>2 DEF Made, AccessFirst, AccessWritten
    <3> QED
        BY <3>3 DEF q
  <2> QED
      BY <2>1, <2>2
<1>3. \A v : <<"access", v>>[1] = "access" /\ <<"expires", v>>[1] = "expires"
             /\ <<"refresh", v>>[1] = "refresh"
    OBVIOUS
<1>4. Made(t, << <<"access", r.access>>, <<"expires", ExpiresAt>> >>)
    BY <1>1, <1>2
<1>5. Made(t, << <<"access", r.access>>, <<"expires", ExpiresAt>>, <<"refresh", r.refresh>> >>)
    BY <1>1, <1>2
<1>6. Made(t, << <<"access", r.access>>, <<"refresh", r.refresh>>, <<"expires", ExpiresAt>> >>)
    BY <1>1, <1>2
<1> QED
    BY <1>4, <1>5, <1>6 DEF RefreshWrites, LoginWrites

LEMMA AnsweredLife ==
    ASSUME TypeOK, TypeOK', Stages, LifeInv,
           (\E t \in Threads : RefreshAnswered(t)) \/ LoginAnswered
    PROVE  LifeInv'
<1>1. PICK t \in Threads : RefreshAnswered(t) \/ (t = "ui" /\ LoginAnswered)
    BY AuthAssumption
<1>2. /\ keyring' = keyring /\ now' = now /\ age' = age
      /\ \A u \in Threads \ {t} : pc'[u] = pc[u] /\ resp'[u] = resp[u] /\ todo'[u] = todo[u]
      /\ resp'[t] = Waiting
  <2>1. keyring' = keyring /\ now' = now /\ age' = age
      BY <1>1 DEF RefreshAnswered, LoginAnswered
  <2>2. resp' = [resp EXCEPT ![t] = Waiting]
      BY <1>1 DEF RefreshAnswered, LoginAnswered, Forget
  <2>3. \A u \in Threads \ {t} : pc'[u] = pc[u]
      BY <1>1 DEF RefreshAnswered, LoginAnswered, Return, Goto, TypeOK
  <2>4. \A u \in Threads \ {t} : todo'[u] = todo[u]
      BY <1>1 DEF RefreshAnswered, LoginAnswered, TypeOK
  <2> QED
      BY <2>1, <2>2, <2>3, <2>4 DEF TypeOK
<1>3. resp[t] \in Response /\ (resp[t].kind = "ok" \/ resp[t].kind = "failed")
    BY <1>1 DEF TypeOK, RefreshAnswered, LoginAnswered, Response
<1>4. CASE resp[t].kind = "failed"
  <2>1. todo' = todo /\ pc'[t] = "idle"
      BY <1>1, <1>4 DEF RefreshAnswered, LoginAnswered, Return, Goto, TypeOK
  <2>2. \A u \in Threads : resp'[u] = resp[u] \/ resp'[u].kind # "ok"
      BY <1>2 DEF Waiting
  <2> QED
      BY <1>2, <2>1, <2>2, IdleStep
<1>5. CASE resp[t].kind = "ok"
  <2>1. \/ todo'[t] = RefreshWrites(resp[t]) /\ pc'[t] = "saveRefresh"
        \/ todo'[t] = LoginWrites(resp[t]) /\ pc'[t] = "saveLogin"
      BY <1>1, <1>5 DEF RefreshAnswered, LoginAnswered, Goto, TypeOK
  <2>2. Granted(t, resp[t].access)
      BY <1>5 DEF LifeInv, Timed
  <2>3. Made(t, todo'[t])
      BY <1>2, <1>3, <2>1, <2>2, QueuesMade
  <2>4. ~AccessWritten(todo'[t])
      BY <2>1, <2>3, NumbersNext, WritesTyped, <1>3 DEF Made
  <2>5. \A u \in Threads : SameQueue(u) \/ (Made(u, todo'[u]) /\ age'[u] <= age[u])
      BY <1>2, <2>3, Numbers DEF SameQueue
  <2>6. ASSUME NEW u \in Threads, resp'[u].kind = "ok" PROVE GrantedNext(u, resp'[u].access)
    <3>1. resp'[u] = resp[u] /\ Granted(u, resp[u].access)
        BY <1>2, <2>6 DEF LifeInv, Timed, Waiting
    <3> QED
        BY <1>2, <3>1 DEF Granted, GrantedNext
  <2>7. \A u \in Threads : pc'[u] = "readAccess" => pc[u] = "readAccess"
      BY <1>2, <2>1
  <2>8. \A u \in Threads : pc'[u] = "saveRefresh" =>
            (pc[u] = "saveRefresh" /\ SameQueue(u)) \/ ~AccessWritten(todo'[u])
      BY <1>2, <2>4 DEF SameQueue
  <2> QED
      BY <1>2, <2>5, <2>6, <2>7, <2>8, CallStep
<1> QED
    BY <1>3, <1>4, <1>5

LEMMA RestartLife ==
    ASSUME TypeOK, TypeOK', LifeInv,
           Restart \/ Revoke \/ UNCHANGED vars
    PROVE  LifeInv'
<1>1. CASE Restart
  <2>1. /\ keyring' = keyring /\ now' = now
        /\ \A t \in Threads : /\ pc'[t] = "idle" /\ resp'[t] = Waiting
                              /\ todo'[t] = <<>> /\ age'[t] = 0
      BY <1>1 DEF Restart
  <2>2. \A t \in Threads : Made(t, todo'[t]) /\ age'[t] <= age[t]
      BY <2>1, Numbers DEF Made, AccessFirst
  <2>3. \A t \in Threads : resp'[t].kind # "ok"
      BY <2>1 DEF Waiting
  <2> QED
      BY <2>1, <2>2, <2>3, CallStep
<1>2. CASE Revoke \/ UNCHANGED vars
  <2>1. keyring' = keyring /\ now' = now /\ UNCHANGED <<todo, age, resp, pc>>
      BY <1>2 DEF Revoke, vars
  <2> QED
      BY <2>1, IdleStep
<1> QED
    BY <1>1, <1>2

-----------------------------------------------------------------------------
(* Time passes: a call under way grows older by as much.                   *)

LEMMA TickLife ==
    ASSUME TypeOK, TypeOK', Stages, LifeInv, ~Mishap, ~Mishap', Tick
    PROVE  LifeInv'
<1> USE Numbers
<1>1. /\ keyring' = keyring /\ now' = now + 1
      /\ UNCHANGED <<pc, resp, todo>>
      /\ \A t \in Threads : age'[t] = IF Busy(t) THEN age[t] + 1 ELSE age[t]
      /\ \A t \in Threads : Busy(t) => age[t] < Patience
  <2>1. ~Fault("delay") /\ ~Happened("delay")
      BY FaultShows DEF Mishap
  <2>2. ~Slow
      BY <2>1 DEF Tick
  <2>3. \A t \in Threads : Busy(t) => age[t] < Patience
      BY <2>2 DEF Slow
  <2>4. /\ keyring' = keyring /\ now' = now + 1
        /\ UNCHANGED <<pc, resp, todo>>
        /\ \A t \in Threads :
              age'[t] = IF Busy(t) /\ age[t] <= Patience THEN age[t] + 1 ELSE age[t]
      BY DEF Tick
  <2>5. \A t \in Threads : age[t] < Patience => age[t] <= Patience
      OBVIOUS
  <2> HIDE Numbers
  <2> QED
      BY <2>3, <2>4, <2>5
<1>2. \A t \in Threads : Busy(t) => now' - age'[t] = now - age[t]
  <2>1. now \in Nat /\ \A t \in Threads : age[t] \in Nat
      BY Numbers, Zenon
  <2> HIDE Numbers
  <2> QED
      BY <1>1, <2>1
<1>3. \A t \in Threads : resp[t].kind = "ok" \/ todo[t] # <<>>
                         \/ pc[t] \in {"readAccess", "saveRefresh"} => Busy(t)
  <2> HIDE Numbers
  <2> SUFFICES ASSUME NEW t \in Threads,
                      resp[t].kind = "ok" \/ todo[t] # <<>>
                      \/ pc[t] \in {"readAccess", "saveRefresh"}
               PROVE  Busy(t)
      OBVIOUS
  <2>1. CASE resp[t].kind = "ok"
    <3>1. resp[t] # Waiting
        BY <2>1 DEF Waiting
    <3> QED
        BY <3>1 DEF Busy, Stages
  <2>2. CASE todo[t] # <<>> \/ pc[t] \in {"readAccess", "saveRefresh"}
      BY <2>2 DEF Busy, TypeOK, Saving
  <2> QED
      BY <2>1, <2>2
<1>4. Timed'
  <2>1. \A t \in Threads : age'[t] <= Patience
      BY <1>1 DEF LifeInv, Timed
  <2>2. ASSUME NEW t \in Threads, resp'[t].kind = "ok" PROVE Granted(t, resp[t].access)'
      BY <1>1, <1>2, <1>3, <2>2 DEF LifeInv, Timed, Granted
  <2>3. ASSUME NEW t \in Threads, NEW i \in 1 .. Len(todo[t])
        PROVE  /\ todo[t][i][1] = "access" => Granted(t, todo[t][i][2])'
               /\ todo[t][i][1] = "expires" => todo[t][i][2] <= now' + Lifetime
    <3>1. Busy(t)
        BY <1>3, <2>3
    <3>2. now' - age'[t] = now - age[t]
        BY <1>2, <3>1
    <3>3. /\ todo[t][i][1] = "access" => Granted(t, todo[t][i][2])
          /\ todo[t][i][1] = "expires" => todo[t][i][2] <= now + Lifetime
        BY DEF LifeInv, Timed
    <3>4. todo'[t] = todo[t]
        BY <1>1
    <3>5. todo[t][i][1] = "access" => Granted(t, todo[t][i][2])'
        BY <3>2, <3>3, <3>4 DEF Granted
    <3>6. todo[t][i][1] = "expires" => todo[t][i][2] <= now' + Lifetime
      <4>1. now \in Nat /\ Lifetime \in Nat /\ todo[t][i][2] \in Int
          BY Numbers, Zenon
      <4> HIDE Numbers
      <4> QED
          BY <1>1, <3>3, <4>1
    <3> QED
        BY <3>5, <3>6
  <2>4. keyring'["expires"] <= now' + Lifetime
      BY <1>1 DEF LifeInv, Timed
  <2>5. \A t \in Threads : AccessFirst(todo[t])
      BY DEF LifeInv, Timed
  <2> HIDE Numbers
  <2> QED
      BY <1>1, <2>1, <2>2, <2>3, <2>4, <2>5 DEF Timed, Granted
<1>5. Matched'
  <2>1. Matched
      BY DEF LifeInv
  <2>2. ASSUME NEW t \in Threads,
               pc[t] = "readAccess" \/ (pc[t] = "saveRefresh" /\ AccessWritten(todo[t]))
        PROVE  keyring["access"] = None \/ now' - age'[t] + Patience <= keyring["access"]
    <3>1. now' - age'[t] = now - age[t]
        BY <1>2, <1>3, <2>2
    <3> QED
        BY <2>1, <2>2, <3>1 DEF Matched, LivesUntil
  <2> QED
      BY <1>1, <2>1, <2>2 DEF Matched, LivesUntil, AccessWritten
<1> QED
    BY <1>4, <1>5 DEF LifeInv

-----------------------------------------------------------------------------
(* The writes.                                                             *)

\* What is left of t's queue, and where the first write of it went.
LEMMA WriteLeaves ==
    ASSUME TypeOK, LifeInv, NEW t \in Threads, Write(t)
    PROVE  /\ Len(todo[t]) \in Nat /\ 1 \in 1 .. Len(todo[t])
           /\ Head(todo[t]) = todo[t][1]
           /\ todo'[t] = Tail(todo[t]) /\ Len(todo'[t]) = Len(todo[t]) - 1
           /\ \A i \in 1 .. Len(todo'[t]) : todo'[t][i] = todo[t][i + 1]
                                            /\ i + 1 \in 1 .. Len(todo[t])
           /\ AccessWritten(todo'[t]) /\ AccessFirst(todo'[t])
           /\ AccessWritten(todo[t]) <=> todo[t][1][1] # "access"
<1>1. todo[t] \in Seq(Fields \X Secrets) /\ todo[t] # <<>>
    BY DEF Write, TypeOK
<1>2. /\ Len(todo[t]) \in Nat /\ 1 \in 1 .. Len(todo[t])
      /\ Head(todo[t]) = todo[t][1]
      /\ Len(Tail(todo[t])) = Len(todo[t]) - 1
      /\ \A i \in 1 .. Len(todo[t]) - 1 : Tail(todo[t])[i] = todo[t][i + 1]
    BY <1>1
<1>3. todo'[t] = Tail(todo[t])
    BY DEF Write, TypeOK
<1>4. \A i \in 1 .. Len(todo'[t]) : todo'[t][i] = todo[t][i + 1]
                                    /\ i + 1 \in 1 .. Len(todo[t]) /\ i + 1 # 1
    BY <1>2, <1>3
<1>5. AccessFirst(todo[t])
    BY DEF LifeInv, Timed
<1>6. AccessWritten(todo'[t])
    BY <1>4, <1>5 DEF AccessFirst, AccessWritten
<1>7. AccessWritten(todo[t]) <=> todo[t][1][1] # "access"
    BY <1>2, <1>5 DEF AccessFirst, AccessWritten
<1> QED
    BY <1>2, <1>3, <1>4, <1>6, <1>7 DEF AccessFirst, AccessWritten

LEMMA WriteLife ==
    ASSUME TypeOK, TypeOK', Stages, LifeInv, PromptCalls, ~Mishap',
           NEW t \in Threads, Write(t)
    PROVE  LifeInv'
<1> USE Numbers
<1> DEFINE f == todo[t][1][1]
           w == todo[t][1][2]
<1>1. /\ now' = now /\ age' = age /\ resp' = resp
      /\ \A u \in Threads \ {t} : pc'[u] = pc[u] /\ todo'[u] = todo[u]
      /\ pc[t] \in {"saveRefresh", "saveLogin", "clear"}
      /\ pc'[t] \in {"saveRefresh", "readAccess"} => pc[t] = "saveRefresh"
    BY DEF Write, Goto, AfterWrites, Saving, TypeOK
<1>2. f \in Fields /\ w \in Int
    BY WriteLeaves
<1>3. \/ keyring' = [keyring EXCEPT ![f] = w]
      \/ keyring' = keyring /\ Fault("keyring")
    BY WriteLeaves DEF Write, SecretSet, SecretSetFails
<1>4. /\ f = "access" => Granted(t, w)
      /\ f = "expires" => w <= now + Lifetime
    BY WriteLeaves DEF LifeInv, Timed
<1>5. Timed'
  <2>1. \A u \in Threads : age'[u] <= Patience
      BY <1>1 DEF LifeInv, Timed
  <2>2. \A u \in Threads : resp'[u].kind = "ok" => GrantedNext(u, resp'[u].access)
      BY <1>1 DEF LifeInv, Timed, Granted, GrantedNext
  <2>3. ASSUME NEW u \in Threads
        PROVE  /\ AccessFirst(todo'[u])
               /\ \A i \in 1 .. Len(todo'[u]) :
                     /\ todo'[u][i][1] = "access" => GrantedNext(u, todo'[u][i][2])
                     /\ todo'[u][i][1] = "expires" => todo'[u][i][2] <= now' + Lifetime
    <3>1. \A v \in Threads :
             /\ AccessFirst(todo[v])
             /\ \A i \in 1 .. Len(todo[v]) :
                   /\ todo[v][i][1] = "access" => Granted(v, todo[v][i][2])
                   /\ todo[v][i][1] = "expires" => todo[v][i][2] <= now + Lifetime
        BY DEF LifeInv, Timed
    <3>2. CASE u = t
      <4>1. AccessFirst(todo'[t])
          BY WriteLeaves
      <4>2. ASSUME NEW i \in 1 .. Len(todo'[t])
            PROVE  /\ todo'[t][i][1] = "access" => GrantedNext(t, todo'[t][i][2])
                   /\ todo'[t][i][1] = "expires" => todo'[t][i][2] <= now' + Lifetime
        <5>1. todo'[t][i] = todo[t][i + 1] /\ i + 1 \in 1 .. Len(todo[t])
            BY WriteLeaves
        <5> QED
          <6>1. /\ todo[t][i + 1][1] = "access" => Granted(t, todo[t][i + 1][2])
                /\ todo[t][i + 1][1] = "expires" => todo[t][i + 1][2] <= now + Lifetime
              BY <3>1, <5>1, Zenon
          <6> QED
              BY <1>1, <5>1, <6>1 DEF Granted, GrantedNext
      <4> QED
          BY <3>2, <4>1, <4>2
    <3>3. CASE u # t
        BY <1>1, <3>1, <3>3 DEF Granted, GrantedNext
    <3> QED
        BY <3>2, <3>3
  <2>4. keyring'["expires"] <= now' + Lifetime
    <3>1. keyring["expires"] <= now + Lifetime
        BY DEF LifeInv, Timed
    <3> QED
        BY <1>1, <1>2, <1>3, <1>4, <3>1 DEF TypeOK, Fields
  <2> HIDE Numbers
  <2> QED
      BY <2>1, <2>2, <2>3, <2>4 DEF Timed, AccessFirst, Granted, GrantedNext
<1>6. Matched'
  <2>1. Matched
      BY DEF LifeInv
  <2>2. keyring' = [keyring EXCEPT ![f] = w]
    <3>1. ~Fault("keyring")
        BY FaultShows
    <3> QED
        BY <1>3, <3>1
  <2>3. CASE f = "access"
    <3>1. keyring'["access"] = w /\ keyring'["expires"] = keyring["expires"]
        BY <2>2, <2>3 DEF TypeOK, Fields
    <3>2. w = None \/ now + Lifetime - Patience <= w
      <4>1. w = None \/ now - age[t] + Lifetime <= w
          BY <1>4, <2>3 DEF Granted
      <4>2. age[t] <= Patience /\ age[t] \in Nat
          BY DEF LifeInv, Timed
      <4> HIDE DEF w
      <4> QED
          BY <1>2, <4>1, <4>2
    <3> HIDE DEF w
    <3>3. \A v \in Int : v <= now + Lifetime =>
             keyring'["access"] = None \/ v - Patience <= keyring'["access"]
        BY <1>2, <3>1, <3>2
    <3>4. LivesUntil(keyring["expires"] - Patience)'
      <4>1. keyring["expires"] <= now + Lifetime /\ keyring["expires"] \in Int
          BY DEF LifeInv, Timed
      <4> QED
          BY <3>1, <3>3, <4>1 DEF LivesUntil
    <3>5. ASSUME NEW u \in Threads, NEW i \in 1 .. Len(todo'[u]), todo'[u][i][1] = "expires"
          PROVE  keyring'["access"] = None
                 \/ todo'[u][i][2] - Patience <= keyring'["access"]
      <4>1. todo'[u][i][2] <= now' + Lifetime
          BY <1>5, <3>5 DEF Timed
      <4>2. todo'[u][i][2] \in Int
        <5>1. todo'[u][i][2] \in Int
            BY NumbersNext, Zenon
        <5> QED
            BY <5>1
      <4> QED
          BY <1>1, <3>3, <4>1, <4>2
    <3>6. ASSUME NEW u \in Threads
          PROVE  keyring'["access"] = None \/ now' - age'[u] + Patience <= keyring'["access"]
      <4>1. /\ keyring'["access"] = None \/ now + Lifetime - Patience <= keyring'["access"]
            /\ now' = now /\ age'[u] = age[u]
          BY <1>1, <3>1, <3>2
      <4>2. keyring'["access"] \in Int /\ age[u] \in Nat
          BY Numbers, NumbersNext
      <4>3. 2 * Patience <= Lifetime
          BY DEF PromptCalls
      <4> QED
          BY <4>1, <4>2, <4>3
    <3> HIDE Numbers
    <3> QED
        BY <3>4, <3>5, <3>6 DEF Matched, LivesUntil, AccessWritten
  <2>4. CASE f # "access"
    <3>1. keyring'["access"] = keyring["access"] /\ AccessWritten(todo[t])
        BY <2>2, <2>4, WriteLeaves DEF TypeOK, Fields
    <3>2. LivesUntil(keyring["expires"] - Patience)'
      <4>1. CASE f = "expires"
        <5>1. keyring'["expires"] = w /\ LivesUntil(w - Patience)
            BY <2>1, <2>2, <3>1, <4>1, WriteLeaves DEF TypeOK, Fields, Matched
        <5> QED
            BY <3>1, <5>1 DEF LivesUntil
      <4>2. CASE f # "expires"
        <5>1. keyring'["expires"] = keyring["expires"]
            BY <2>2, <4>2 DEF TypeOK, Fields
        <5> QED
            BY <2>1, <3>1, <5>1 DEF Matched, LivesUntil
      <4> QED
          BY <4>1, <4>2
    <3>3. ASSUME NEW u \in Threads, AccessWritten(todo'[u]),
                 NEW i \in 1 .. Len(todo'[u]), todo'[u][i][1] = "expires"
          PROVE  keyring'["access"] = None
                 \/ todo'[u][i][2] - Patience <= keyring'["access"]
      <4>1. CASE u = t
        <5>1. i + 1 \in 1 .. Len(todo[t]) /\ todo'[u][i] = todo[t][i + 1]
            BY <3>3, <4>1, WriteLeaves
        <5>2. LivesUntil(todo[t][i + 1][2] - Patience)
            BY <2>1, <3>1, <3>3, <5>1 DEF Matched
        <5> QED
            BY <3>1, <5>1, <5>2 DEF LivesUntil
      <4>2. CASE u # t
          BY <1>1, <2>1, <3>1, <3>3, <4>2 DEF Matched, LivesUntil
      <4> QED
          BY <4>1, <4>2
    <3>4. ASSUME NEW u \in Threads,
                 pc'[u] = "readAccess" \/ (pc'[u] = "saveRefresh" /\ AccessWritten(todo'[u]))
          PROVE  keyring'["access"] = None \/ now' - age'[u] + Patience <= keyring'["access"]
      <4>1. pc[u] = "readAccess" \/ (pc[u] = "saveRefresh" /\ AccessWritten(todo[u]))
          BY <1>1, <3>1, <3>4
      <4>2. LivesUntil(now - age[u] + Patience)
          BY <2>1, <4>1 DEF Matched
      <4> QED
          BY <1>1, <3>1, <4>2 DEF LivesUntil
    <3> HIDE Numbers
    <3> QED
        BY <3>2, <3>3, <3>4 DEF Matched, LivesUntil, AccessWritten
  <2> QED
      BY <2>3, <2>4
<1> QED
    BY <1>5, <1>6 DEF LifeInv

-----------------------------------------------------------------------------
(* The result.                                                             *)

LEMMA LifeNext ==
    PromptCalls => (IInv /\ IInv' /\ (~Mishap => LifeInv) /\ [Next]_vars
                    => (~Mishap => LifeInv)')
<1> SUFFICES ASSUME PromptCalls, IInv, IInv', ~Mishap => LifeInv, [Next]_vars, ~Mishap'
             PROVE  LifeInv'
    OBVIOUS
<1>1. TypeOK /\ TypeOK' /\ Stages
    BY DEF IInv
<1>2. LifeInv /\ ~Mishap
    BY <1>1, FaultsStay
<1>3. ASSUME NEW t \in Threads, Thread(t) \/ Endpoint(t) PROVE LifeInv'
  <2>1. CASE AccessToken(t)
      BY <1>1, <1>2, <2>1, StartsLife
  <2>2. CASE CheckExpiry(t) \/ ReadAccessToken(t) \/ ReadRefreshToken(t)
             \/ RefuseRefresh(t) \/ NetworkFails(t)
      BY <1>1, <1>2, <2>2, ReadsLife
  <2>3. CASE RefreshAnswered(t)
      BY <1>1, <1>2, <2>3, AnsweredLife
  <2>4. CASE Write(t)
      BY <1>1, <1>2, <2>4, WriteLife
  <2>5. CASE GrantRefresh(t)
      BY <1>1, <1>2, <2>5, GrantsLife
  <2> QED
      BY <1>3, <2>1, <2>2, <2>3, <2>4, <2>5 DEF Thread, Endpoint
<1>4. CASE Authenticate \/ Logout
    BY <1>1, <1>2, <1>4, StartsLife
<1>5. CASE LoginAnswered
    BY <1>1, <1>2, <1>5, AnsweredLife
<1>6. CASE GrantLogin
    BY <1>1, <1>2, <1>6, GrantsLife
<1>7. CASE Restart \/ Revoke \/ UNCHANGED vars
    BY <1>1, <1>2, <1>7, RestartLife
<1>8. CASE Tick
    BY <1>1, <1>2, <1>8, TickLife
<1> QED
    BY <1>3, <1>4, <1>5, <1>6, <1>7, <1>8 DEF Next

\* AuthModule.h:17 "Returns a valid access token": until a call is slow, which is to
\* take more than half of the 60 s margin (nothing in the code prevents that), the
\* keyring fails or an answer is cut off, no thread is handed an expired token,
\* however the threads' refreshes, the logins, logouts and restarts interleave
\* between the writes of the token and of its expiry.
THEOREM ReturnedTokensAreLive == PromptCalls => (Spec => TokensAreLive)
<1> SUFFICES ASSUME PromptCalls PROVE Spec => TokensAreLive
    OBVIOUS
<1> DEFINE Unharmed == ~Mishap => LifeInv
<1>1. Init => Unharmed
    BY LifeInit
<1>2. IInv /\ IInv' /\ Unharmed /\ [Next]_vars => Unharmed'
    BY LifeNext
<1>3. IInv /\ Unharmed /\ [Next]_vars =>
          [\A t \in Threads : Returns(t) /\ result'[t] # Empty /\ ~Mishap
                              => result'[t] >= now]_vars
  <2> SUFFICES ASSUME IInv, LifeInv, [Next]_vars, NEW t \in Threads, Returns(t),
                      result'[t] # Empty, ~Mishap
               PROVE  result'[t] >= now
      BY DEF vars
  <2>1. TypeOK /\ Timed /\ Matched
      BY DEF IInv, LifeInv
  <2>2. ReadAccessToken(t)
    <3>1. result'[t] \notin {result[t], Unset, Empty}
        BY DEF Returns
    <3> QED
        BY <2>1, <3>1 DEF Next, Thread, Endpoint, AccessToken, CheckExpiry,
           ReadAccessToken, ReadRefreshToken, RefreshAnswered, Write, GrantRefresh,
           RefuseRefresh, NetworkFails, Authenticate, LoginAnswered, Logout,
           GrantLogin, Revoke, Restart, Tick, vars, Begin, Return, TypeOK
  <2>3. keyring["access"] # None /\ result'[t] = keyring["access"] /\ pc[t] = "readAccess"
      BY <2>1, <2>2 DEF ReadAccessToken, Return, TypeOK
  <2>4. now - age[t] + Patience <= keyring["access"] /\ age[t] <= Patience
      BY <2>1, <2>3 DEF Timed, Matched, LivesUntil
  <2> QED
      BY <2>1, <2>3, <2>4, Numbers
<1> HIDE DEF Unharmed
<1> QED
    BY <1>1, <1>2, <1>3, Inductive, PTL DEF Spec, TokensAreLive
=============================================================================
