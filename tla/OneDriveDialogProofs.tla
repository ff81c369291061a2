------------------------ MODULE OneDriveDialogProofs ------------------------
(***************************************************************************)
(* The dialog, proved for any drive whose names the scan can tell from the *)
(* text around them: no answer is misread, the tree shows the drive, and   *)
(* what is opened is what was chosen, refused, or what a full disk left of *)
(* it. The scan is followed through an answer by induction, item by item   *)
(* and, within one, brace by brace.                                        *)
(***************************************************************************)
EXTENDS OneDriveDialog, SequenceLemmas, SequenceTheorems, TLAPS

-----------------------------------------------------------------------------
(* The scan of an answer.                                                  *)

IsScan(f, answer, value, end) ==
    f = [i \in value .. end |-> IF i = value THEN ScanStart ELSE Scan(f[i - 1], answer[i])]

LEMMA ScanDefined ==
    ASSUME NEW answer, NEW value \in Nat, NEW n \in Nat
    PROVE  \E f : IsScan(f, answer, value, value + n)
<1> DEFINE T == {k \in Nat : \E f : IsScan(f, answer, value, value + k)}
<1>1. 0 \in T
  <2> DEFINE f == [i \in value .. value + 0 |-> ScanStart]
  <2>1. \A i \in value .. value + 0 : i = value
    OBVIOUS
  <2>2. f = [i \in value .. value + 0 |->
                IF i = value THEN ScanStart ELSE Scan(f[i - 1], answer[i])]
    BY <2>1, Zenon
  <2>3. IsScan(f, answer, value, value + 0)
    BY <2>2, Zenon DEF IsScan
  <2> QED
    BY <2>3
<1>2. ASSUME NEW k \in Nat, k \in T PROVE k + 1 \in T
  <2>1. PICK f : IsScan(f, answer, value, value + k)
    BY <1>2
  <2> DEFINE end == value + (k + 1)
             step(h, i) == IF i = value THEN ScanStart ELSE Scan(h[i - 1], answer[i])
             g == [i \in value .. end |-> step(f, i)]
  <2>2. /\ \A i \in value .. value + k : i \in value .. end
        /\ \A i \in value .. end : i # value => i - 1 \in value .. value + k
    OBVIOUS
  <2>3. \A i \in value .. value + k : f[i] = step(f, i)
    BY <2>1, Zenon DEF IsScan
  <2>4. \A i \in value .. value + k : g[i] = f[i]
    BY <2>2, <2>3, Zenon
  <2>5. \A i \in value .. end : step(f, i) = step(g, i)
    BY <2>2, <2>4, Zenon
  <2>6. g = [i \in value .. end |-> step(f, i)]
    OBVIOUS
  <2> HIDE DEF g
  <2>7. IsScan(g, answer, value, end)
    BY <2>5, <2>6, Zenon DEF IsScan
  <2>8. k + 1 \in Nat
    OBVIOUS
  <2> QED
    BY <2>7, <2>8, Zenon
<1> HIDE DEF T
<1>3. n \in T
  BY <1>1, <1>2, Induction
<1> QED
  BY <1>3 DEF T

\* The states after the characters of cs, as far as m, from the list's beginning on.
Runs(r, cs, m) ==
    /\ r[0] = ScanStart
    /\ \A i \in 1 .. m : r[i] = Scan(r[i - 1], cs[i])

Key(cs) == {i \in 1 .. Len(cs) : cs[i] = "value:["}

LEMMA ListOf ==
    ASSUME NEW cs, NEW m \in Nat, NEW answer, Len(answer) = m + 1, answer[1] = "value:[",
           \A i \in 1 .. m : answer[i + 1] = cs[i]
    PROVE  \E r : Runs(r, cs, m) /\ ListFolder(answer) = r[m].items
<1> DEFINE value == SelectInSeq(answer, LAMBDA c : c = "value:[")
           f == CHOOSE g : IsScan(g, answer, value, Len(answer))
<1>1. value = 1
  <2> DEFINE I == {i \in 1 .. Len(answer) : answer[i] = "value:["}
  <2>1. 1 \in I /\ I \in SUBSET Nat
    OBVIOUS
  <2>2. \A y \in I : 1 <= y
    OBVIOUS
  <2>3. value = IF I # {} THEN Min(I) ELSE 0
    BY DEF SelectInSeq
  <2> HIDE DEF value
  <2>4. Min(I) \in I /\ \A y \in I : Min(I) <= y
    <3> HIDE DEF I
    <3> QED
      BY <2>1, SmallestOf
  <2>5. I # {} /\ value = Min(I)
    BY <2>1, <2>3
  <2>6. Min(I) \in Nat /\ Min(I) <= 1 /\ 1 <= Min(I)
    <3> HIDE DEF I
    <3> QED
      BY <2>1, <2>2, <2>4
  <2> QED
    BY <2>5, <2>6
<1>2. ListFolder(answer) = f[Len(answer)].items
  <2>1. value # 0
    BY <1>1
  <2> QED
    BY <2>1, Zenon DEF ListFolder, IsScan
<1>3. \E g : IsScan(g, answer, 1, 1 + m)
  BY ScanDefined
<1>4. Len(answer) = 1 + m
  OBVIOUS
<1>5. IsScan(f, answer, 1, 1 + m)
  BY <1>1, <1>3, <1>4, Zenon
<1> HIDE DEF f, value
<1> DEFINE r == [i \in 0 .. m |-> f[i + 1]]
<1>6. /\ \A i \in 1 .. m : i \in 0 .. m /\ i - 1 \in 0 .. m /\ i + 1 \in 1 .. 1 + m /\ i + 1 # 1
                           /\ (i + 1) - 1 = i /\ (i - 1) + 1 = i
      /\ 0 \in 0 .. m /\ m \in 0 .. m /\ 1 \in 1 .. 1 + m /\ 0 + 1 = 1 /\ m + 1 = 1 + m
  OBVIOUS
<1>7. \A i \in 1 .. 1 + m : f[i] = IF i = 1 THEN ScanStart ELSE Scan(f[i - 1], answer[i])
  BY <1>5, Zenon DEF IsScan
<1>8. r[0] = ScanStart /\ r[m] = f[1 + m]
  BY <1>6, <1>7, Zenon
<1>9. ASSUME NEW i \in 1 .. m PROVE r[i] = Scan(r[i - 1], cs[i])
  <2>1. r[i] = f[i + 1] /\ r[i - 1] = f[i]
    BY <1>6, Zenon
  <2>2. f[i + 1] = Scan(f[i], answer[i + 1])
    BY <1>6, <1>7, Zenon
  <2> QED
    BY <2>1, <2>2, Zenon
<1> HIDE DEF r
<1>10. Runs(r, cs, m)
  BY <1>8, <1>9, Zenon DEF Runs
<1> QED
  BY <1>2, <1>4, <1>8, <1>10, Zenon

LEMMA NoList ==
    ASSUME NEW answer, \A i \in 1 .. Len(answer) : answer[i] # "value:["
    PROVE  ListFolder(answer) = <<>>
<1> DEFINE value == SelectInSeq(answer, LAMBDA c : c = "value:[")
<1>1. value = 0
  BY Zenon DEF SelectInSeq
<1> QED
  BY <1>1, Zenon DEF ListFolder

-----------------------------------------------------------------------------
(* One character.                                                          *)

\* The braces, by name: SMT cannot read them as strings.
Left == "{"
Right == "}"

\* Nor records in which truth values stand as such.
Yes == TRUE
No == FALSE

LEMMA Braces == Left # Right /\ "]" \notin {Left, Right}
BY Zenon DEF Left, Right

State(d, cur, on, its, done) ==
    [depth |-> d, current |-> cur, inObject |-> on, items |-> its, done |-> done]
Between(its) == State(0, <<>>, No, its, No)
Within(d, cur, its) == State(d, cur, Yes, its, No)

\* What a character does to a state's fields.
Opened(s, d, on, cur) == [s EXCEPT !.depth = d, !.inObject = on, !.current = cur]
Closed(s, d, cur) == [s EXCEPT !.depth = d, !.current = cur]
Read(s, cur) == [s EXCEPT !.current = cur]
Ended(s, d, cur, on, its) ==
    [s EXCEPT !.depth = d, !.current = cur, !.inObject = on, !.items = its]
Stopped(s, done) == [s EXCEPT !.done = done]

LEMMA UpdateOpened ==
    ASSUME NEW d, NEW cur, NEW on, NEW its, NEW done, NEW d2, NEW on2, NEW cur2
    PROVE  \A s : s = State(d, cur, on, its, done) =>
              Opened(s, d2, on2, cur2) = State(d2, cur2, on2, its, done)
<1> SUFFICES ASSUME NEW s, s = State(d, cur, on, its, done)
             PROVE Opened(s, d2, on2, cur2) = State(d2, cur2, on2, its, done)
    OBVIOUS
<1>1. [s EXCEPT !.depth = d2] = State(d2, cur, on, its, done)
  BY DEF State
<1>2. [State(d2, cur, on, its, done) EXCEPT !.inObject = on2] = State(d2, cur, on2, its, done)
  BY DEF State
<1>3. [State(d2, cur, on2, its, done) EXCEPT !.current = cur2] = State(d2, cur2, on2, its, done)
  BY DEF State
<1>4. Opened(s, d2, on2, cur2)
        = [[[s EXCEPT !.depth = d2] EXCEPT !.inObject = on2] EXCEPT !.current = cur2]
  BY DEF Opened
<1> QED
  BY <1>1, <1>2, <1>3, <1>4, Zenon

LEMMA UpdateClosed ==
    ASSUME NEW d, NEW cur, NEW on, NEW its, NEW done, NEW d2, NEW cur2
    PROVE  \A s : s = State(d, cur, on, its, done) =>
              Closed(s, d2, cur2) = State(d2, cur2, on, its, done)
<1> SUFFICES ASSUME NEW s, s = State(d, cur, on, its, done)
             PROVE Closed(s, d2, cur2) = State(d2, cur2, on, its, done)
    OBVIOUS
<1>1. [s EXCEPT !.depth = d2] = State(d2, cur, on, its, done)
  BY DEF State
<1>2. [State(d2, cur, on, its, done) EXCEPT !.current = cur2] = State(d2, cur2, on, its, done)
  BY DEF State
<1>3. Closed(s, d2, cur2)
        = [[s EXCEPT !.depth = d2] EXCEPT !.current = cur2]
  BY DEF Closed
<1> QED
  BY <1>1, <1>2, <1>3, Zenon

LEMMA UpdateRead ==
    ASSUME NEW d, NEW cur, NEW on, NEW its, NEW done, NEW cur2
    PROVE  \A s : s = State(d, cur, on, its, done) => Read(s, cur2) = State(d, cur2, on, its, done)
BY DEF State, Read

LEMMA UpdateEnded ==
    ASSUME NEW d, NEW cur, NEW on, NEW its, NEW done, NEW d2, NEW cur2, NEW on2, NEW its2
    PROVE  \A s : s = State(d, cur, on, its, done) =>
              Ended(s, d2, cur2, on2, its2) = State(d2, cur2, on2, its2, done)
<1> SUFFICES ASSUME NEW s, s = State(d, cur, on, its, done)
             PROVE Ended(s, d2, cur2, on2, its2) = State(d2, cur2, on2, its2, done)
    OBVIOUS
<1>1. [s EXCEPT !.depth = d2] = State(d2, cur, on, its, done)
  BY DEF State
<1>2. [State(d2, cur, on, its, done) EXCEPT !.current = cur2] = State(d2, cur2, on, its, done)
  BY DEF State
<1>3. [State(d2, cur2, on, its, done) EXCEPT !.inObject = on2] = State(d2, cur2, on2, its, done)
  BY DEF State
<1>4. [State(d2, cur2, on2, its, done) EXCEPT !.items = its2] = State(d2, cur2, on2, its2, done)
  BY DEF State
<1>5. Ended(s, d2, cur2, on2, its2)
        = [[[[s EXCEPT !.depth = d2] EXCEPT !.current = cur2] EXCEPT !.inObject = on2] EXCEPT !.items = its2]
  BY DEF Ended
<1> QED
  BY <1>1, <1>2, <1>3, <1>4, <1>5, Zenon

LEMMA UpdateStopped ==
    ASSUME NEW d, NEW cur, NEW on, NEW its, NEW done, NEW done2
    PROVE  \A s : s = State(d, cur, on, its, done) =>
              Stopped(s, done2) = State(d, cur, on, its, done2)
BY DEF State, Stopped

\* What a brace or another character does to a state that reads on.
LEMMA ScanCases ==
    ASSUME NEW s, ~s.done
    PROVE  /\ Scan(s, Left) = Opened(s, s.depth + 1, Yes, Append(s.current, Left))
           /\ s.inObject /\ s.depth # 1 =>
                 Scan(s, Right) = Closed(s, s.depth - 1, Append(s.current, Right))
           /\ s.inObject /\ s.depth = 1 =>
                 Scan(s, Right) = Ended(s, 0, <<>>, No,
                                    Append(s.items, ParseDriveItem(Append(s.current, Right))))
           /\ s.depth = 0 => Scan(s, "]") = Stopped(s, Yes)
           /\ \A c : c \notin {Left, Right} /\ s.inObject /\ s.depth # 0 =>
                 Scan(s, c) = Read(s, Append(s.current, c))
<1>1. Scan(s, Left) = Opened(s, s.depth + 1, Yes, Append(s.current, Left))
  BY Zenon DEF Scan, Opened, Yes, Left, Right
<1>2. s.inObject /\ s.depth # 1 =>
         Scan(s, Right) = Closed(s, s.depth - 1, Append(s.current, Right))
  BY Zenon DEF Scan, Closes, Closed, Left, Right
<1>3. s.inObject /\ s.depth = 1 =>
         Scan(s, Right) = Ended(s, 0, <<>>, No,
                             Append(s.items, ParseDriveItem(Append(s.current, Right))))
  BY Zenon DEF Scan, Closes, Ended, No, Left, Right
<1>4. s.depth = 0 => Scan(s, "]") = Stopped(s, Yes)
  BY Zenon DEF Scan, Stopped, Yes, Left, Right
<1>5. ASSUME NEW c, c \notin {Left, Right}, s.inObject, s.depth # 0
      PROVE  Scan(s, c) = Read(s, Append(s.current, c))
  BY <1>5, Zenon DEF Scan, Read, Left, Right
<1> QED
  BY <1>1, <1>2, <1>3, <1>4, <1>5

LEMMA Opens ==
    ASSUME NEW d \in Nat, NEW cur, NEW its
    PROVE  /\ Scan(Between(its), Left) = Within(1, <<Left>>, its)
           /\ Scan(Within(d, cur, its), Left) = Within(d + 1, Append(cur, Left), its)
<1>1. ASSUME NEW e, NEW c, NEW on
      PROVE  Scan(State(e, c, on, its, No), Left) = State(e + 1, Append(c, Left), Yes, its, No)
  <2> DEFINE s == State(e, c, on, its, No)
  <2>0. s = State(e, c, on, its, No)
    OBVIOUS
  <2> HIDE DEF s
  <2>1. ~s.done /\ s.depth = e /\ s.current = c
    BY <2>0 DEF State, Yes, No
  <2>2. Opened(s, e + 1, Yes, Append(c, Left)) = State(e + 1, Append(c, Left), Yes, its, No)
    BY <2>0, UpdateOpened
  <2>3. Scan(s, Left) = Opened(s, e + 1, Yes, Append(c, Left))
    BY <2>1, ScanCases, Zenon
  <2> QED
    BY <2>0, <2>2, <2>3, Zenon
<1>2. 0 + 1 = 1 /\ Append(<<>>, Left) = <<Left>>
  OBVIOUS
<1> QED
  BY <1>1, <1>2, Zenon DEF Between, Within

LEMMA GoesOnWithin ==
    ASSUME NEW d \in Nat, d > 0, NEW cur, NEW its, NEW c, c \notin {Left, Right}
    PROVE  Scan(Within(d, cur, its), c) = Within(d, Append(cur, c), its)
<1> DEFINE s == State(d, cur, Yes, its, No)
<1>0. s = State(d, cur, Yes, its, No)
  OBVIOUS
<1> HIDE DEF s
<1>1. ~s.done /\ s.depth = d /\ s.current = cur /\ s.inObject
  BY <1>0 DEF State, Yes, No
<1>2. Read(s, Append(cur, c)) = State(d, Append(cur, c), Yes, its, No)
  BY <1>0, UpdateRead
<1>3. d # 0
  OBVIOUS
<1>4. Scan(s, c) = Read(s, Append(cur, c))
  BY <1>1, <1>3, ScanCases, Zenon
<1> QED
  BY <1>0, <1>2, <1>4, Zenon DEF Within

LEMMA ClosesInner ==
    ASSUME NEW d \in Nat, d > 1, NEW cur, NEW its
    PROVE  Scan(Within(d, cur, its), Right) = Within(d - 1, Append(cur, Right), its)
<1> DEFINE s == State(d, cur, Yes, its, No)
<1>0. s = State(d, cur, Yes, its, No)
  OBVIOUS
<1> HIDE DEF s
<1>1. ~s.done /\ s.depth = d /\ s.current = cur /\ s.inObject
  BY <1>0 DEF State, Yes, No
<1>2. Closed(s, d - 1, Append(cur, Right)) = State(d - 1, Append(cur, Right), Yes, its, No)
  BY <1>0, UpdateClosed
<1>3. d # 1
  OBVIOUS
<1>4. Scan(s, Right) = Closed(s, d - 1, Append(cur, Right))
  BY <1>1, <1>3, ScanCases, Zenon
<1> QED
  BY <1>0, <1>2, <1>4, Zenon DEF Within

LEMMA ClosesItem ==
    ASSUME NEW cur, NEW its
    PROVE  Scan(Within(1, cur, its), Right)
              = Between(Append(its, ParseDriveItem(Append(cur, Right))))
<1> DEFINE s == State(1, cur, Yes, its, No)
           more == Append(its, ParseDriveItem(Append(cur, Right)))
<1>0. s = State(1, cur, Yes, its, No)
  OBVIOUS
<1> HIDE DEF s
<1>1. ~s.done /\ s.depth = 1 /\ s.current = cur /\ s.inObject /\ s.items = its
  BY <1>0 DEF State, Yes, No
<1>2. Scan(s, Right) = Ended(s, 0, <<>>, No, more)
  BY <1>1, ScanCases, Zenon
<1> HIDE DEF more
<1>3. Ended(s, 0, <<>>, No, more) = Between(more)
  BY <1>0, UpdateEnded DEF Between
<1> QED
  BY <1>0, <1>2, <1>3, Zenon DEF Within, more

LEMMA EndsList ==
    ASSUME NEW its
    PROVE  Scan(Between(its), "]").items = its
<1> DEFINE s == Between(its)
<1>0. s = Between(its)
  OBVIOUS
<1> HIDE DEF s
<1>1. ~s.done /\ s.depth = 0
  BY <1>0 DEF State, Between, Yes, No
<1>2. Stopped(s, Yes) = State(0, <<>>, No, its, Yes)
  BY <1>0, UpdateStopped DEF Between
<1>3. Scan(s, "]") = Stopped(s, Yes)
  BY <1>1, ScanCases, Zenon
<1>4. State(0, <<>>, No, its, Yes).items = its
  BY DEF State
<1> QED
  BY <1>0, <1>2, <1>3, <1>4, Zenon

\* An item's characters, from its brace on: depth[i] are open after i of them.
Nests(cs, m, depth) ==
    /\ cs[1] = Left /\ depth[1] = 1
    /\ \A i \in 2 .. m :
          /\ depth[i] \in Nat /\ depth[i] > 0
          /\ \/ cs[i] = Left /\ depth[i] = depth[i - 1] + 1
             \/ cs[i] = Right /\ depth[i] = depth[i - 1] - 1
             \/ cs[i] \notin {Left, Right} /\ depth[i] = depth[i - 1]

LEMMA FirstOf ==
    ASSUME NEW S, NEW cs \in Seq(S), 1 \in 1 .. Len(cs)
    PROVE  SubSeq(cs, 1, 1) = <<cs[1]>>
<1> DEFINE c == cs[1]
<1>1. SubSeq(cs, 1, 1) = Append(SubSeq(cs, 1, 0), c)
  OBVIOUS
<1>2. SubSeq(cs, 1, 0) = <<>>
  OBVIOUS
<1>3. Append(<<>>, c) = <<c>>
  OBVIOUS
<1> QED
  BY <1>1, <1>2, <1>3, Zenon

\* The states after m characters of cs, from the state after o on.
Follows(r, o, cs, m) == \A i \in 1 .. m : r[o + i] = Scan(r[o + i - 1], cs[i])
Walked(r, o, cs, m, depth, its) ==
    \A i \in 1 .. m : r[o + i] = Within(depth[i], SubSeq(cs, 1, i), its)

LEMMA Walks ==
    ASSUME NEW S, NEW cs \in Seq(S), NEW m \in 0 .. Len(cs), NEW depth, Nests(cs, m, depth),
           NEW o \in Nat, NEW its, NEW r, r[o] = Between(its), Follows(r, o, cs, m)
    PROVE  Walked(r, o, cs, m, depth, its)
<1> USE DEF Follows, Walked
<1> DEFINE T == {k \in Nat : k \in 1 .. m => /\ depth[k] \in Nat /\ depth[k] > 0
                                             /\ r[o + k] = Within(depth[k], SubSeq(cs, 1, k), its)}
<1>1. 0 \in T
  OBVIOUS
<1>2. ASSUME NEW k \in Nat, k \in T PROVE k + 1 \in T
  <2> SUFFICES ASSUME k + 1 \in 1 .. m
               PROVE  /\ depth[k + 1] \in Nat /\ depth[k + 1] > 0
                      /\ r[o + (k + 1)] = Within(depth[k + 1], SubSeq(cs, 1, k + 1), its)
    OBVIOUS
  <2>1. r[o + (k + 1)] = Scan(r[o + k], cs[k + 1])
    <3>1. r[o + (k + 1)] = Scan(r[o + (k + 1) - 1], cs[k + 1])
      OBVIOUS
    <3>2. o + (k + 1) - 1 = o + k
      OBVIOUS
    <3> QED
      BY <3>1, <3>2
  <2>2. CASE k = 0
    <3>1. k + 1 = 1 /\ o + k = o /\ 1 \in 1 .. Len(cs) /\ 1 \in Nat /\ 1 > 0 /\ 0 \in Nat
      BY <2>2
    <3>2. depth[1] = 1 /\ cs[1] = Left
      BY Zenon DEF Nests
    <3>3. SubSeq(cs, 1, 1) = <<cs[1]>>
      BY <3>1, FirstOf
    <3>4. r[o + (k + 1)] = Scan(Between(its), Left)
      BY <2>1, <3>1, <3>2, Zenon
    <3>5. r[o + (k + 1)] = Within(1, <<Left>>, its)
      BY <3>1, <3>4, Opens, Zenon
    <3> QED
      BY <3>1, <3>2, <3>3, <3>5, Zenon
  <2>3. CASE k # 0
    <3>1. k \in 1 .. m /\ k + 1 \in 2 .. m /\ (k + 1) - 1 = k /\ k + 1 \in 1 .. Len(cs)
      BY <2>3
    <3>2. /\ depth[k] \in Nat /\ depth[k] > 0
          /\ r[o + k] = Within(depth[k], SubSeq(cs, 1, k), its)
      BY <1>2, <3>1
    <3> DEFINE d == depth[k]
               e == depth[k + 1]
               c == cs[k + 1]
               cur == SubSeq(cs, 1, k)
    <3>3. SubSeq(cs, 1, k + 1) = Append(cur, c)
      BY <3>1
    <3>4. /\ e \in Nat /\ e > 0
          /\ \/ c = Left /\ e = d + 1
             \/ c = Right /\ e = d - 1
             \/ c \notin {Left, Right} /\ e = d
      BY <3>1, Zenon DEF Nests
    <3>5. r[o + (k + 1)] = Scan(Within(d, cur, its), c) /\ d \in Nat /\ d > 0
      BY <2>1, <3>2, Zenon
    <3> HIDE DEF d, e, c, cur
    <3>6. Scan(Within(d, cur, its), c) = Within(e, Append(cur, c), its)
      <4>1. CASE c = Left /\ e = d + 1
        BY <3>5, <4>1, Opens, Zenon
      <4>2. CASE c = Right /\ e = d - 1
        <5>1. d > 1
          <6>1. e = d - 1 /\ e > 0 /\ d \in Nat
            BY <3>4, <3>5, <4>2, Zenon
          <6> QED
            BY <6>1
        <5> QED
          BY <3>5, <4>2, <5>1, ClosesInner, Zenon
      <4>3. CASE c \notin {Left, Right} /\ e = d
        <5>1. Scan(Within(d, cur, its), c) = Within(d, Append(cur, c), its)
          BY <3>5, <4>3, GoesOnWithin
        <5> QED
          BY <4>3, <5>1, Zenon
      <4> QED
        BY <3>4, <4>1, <4>2, <4>3
    <3> QED
      BY <3>3, <3>4, <3>5, <3>6 DEF e
  <2> QED
    BY <2>2, <2>3
<1>3. \A k \in Nat : k \in T
  <2> HIDE DEF T
  <2> QED
    BY <1>1, <1>2, Induction
<1> QED
  BY <1>3


-----------------------------------------------------------------------------
(* An item.                                                                *)

Counts(cs, c) ==
    /\ Count(cs, c, 0) = 0
    /\ \A k \in Nat :
          /\ Count(cs, c, k) \in Nat
          /\ Count(cs, c, k + 1) = Count(cs, c, k) + (IF cs[k + 1] = c THEN 1 ELSE 0)

LEMMA CountStep ==
    ASSUME NEW cs, NEW c
    PROVE  Counts(cs, c)
<1> DEFINE At(k) == {i \in 1 .. k : cs[i] = c}
<1>1. Count(cs, c, 0) = 0
  <2>1. At(0) = {}
    OBVIOUS
  <2> QED
    BY <2>1, FS_EmptySet DEF Count
<1>2. ASSUME NEW k \in Nat
      PROVE  /\ Count(cs, c, k) \in Nat
             /\ Count(cs, c, k + 1) = Count(cs, c, k) + (IF cs[k + 1] = c THEN 1 ELSE 0)
  <2>1. IsFiniteSet(1 .. k)
    BY FS_Interval
  <2>2. IsFiniteSet(At(k))
    BY <2>1, FS_Subset
  <2>3. Cardinality(At(k)) \in Nat
    BY <2>2, FS_CardinalityType
  <2>4. CASE cs[k + 1] = c
    <3>1. At(k + 1) = At(k) \cup {k + 1} /\ k + 1 \notin At(k)
      BY <2>4
    <3> HIDE DEF At
    <3>2. Cardinality(At(k + 1)) = Cardinality(At(k)) + 1
      BY <3>1, <2>2, FS_AddElement
    <3> QED
      BY <2>3, <2>4, <3>2 DEF Count, At
  <2>5. CASE cs[k + 1] # c
    <3>1. At(k + 1) = At(k)
      BY <2>5
    <3>2. Cardinality(At(k + 1)) = Cardinality(At(k)) + 0
      BY <3>1, <2>3
    <3> QED
      BY <2>3, <2>5, <3>2 DEF Count
  <2> QED
    BY <2>4, <2>5
<1> QED
  BY <1>1, <1>2, Zenon DEF Counts

\* How deep a name's characters lie in its braces.
Deep(name, depth) ==
    /\ depth[0] = 0 /\ depth[Len(name)] = 0
    /\ \A k \in 0 .. Len(name) : depth[k] \in Nat
    /\ \A k \in 1 .. Len(name) :
          \/ name[k] = Left /\ depth[k] = depth[k - 1] + 1
          \/ name[k] = Right /\ depth[k] = depth[k - 1] - 1
          \/ name[k] \notin {Left, Right} /\ depth[k] = depth[k - 1]

LEMMA DepthOf ==
    ASSUME NEW name, Len(name) \in Nat, Balanced(name)
    PROVE  \E depth : Deep(name, depth)
<1> DEFINE n == Len(name)
           o(k) == Count(name, Left, k)
           c(k) == Count(name, Right, k)
           depth == [k \in 0 .. n |-> o(k) - c(k)]
<1>1. (\A k \in 1 .. n : c(k) <= o(k)) /\ c(n) = o(n)
  BY Zenon DEF Balanced, Left, Right
<1>2. /\ o(0) = 0 /\ c(0) = 0
      /\ \A k \in Nat :
            /\ o(k) \in Nat /\ o(k + 1) = o(k) + (IF name[k + 1] = Left THEN 1 ELSE 0)
            /\ c(k) \in Nat /\ c(k + 1) = c(k) + (IF name[k + 1] = Right THEN 1 ELSE 0)
  <2>1. Counts(name, Left)
    BY CountStep, Zenon
  <2>2. Counts(name, Right)
    BY CountStep, Zenon
  <2> QED
    BY <2>1, <2>2 DEF Counts
<1> HIDE DEF o, c
<1>3. ASSUME NEW k \in 1 .. n
      PROVE  \/ name[k] = Left /\ depth[k] = depth[k - 1] + 1
             \/ name[k] = Right /\ depth[k] = depth[k - 1] - 1
             \/ name[k] \notin {Left, Right} /\ depth[k] = depth[k - 1]
  <2>1. k - 1 \in Nat /\ k - 1 \in 0 .. n /\ k \in 0 .. n /\ (k - 1) + 1 = k
    OBVIOUS
  <2>2. /\ o(k - 1) \in Nat /\ o(k) = o(k - 1) + (IF name[k] = Left THEN 1 ELSE 0)
        /\ c(k - 1) \in Nat /\ c(k) = c(k - 1) + (IF name[k] = Right THEN 1 ELSE 0)
    BY <1>2, <2>1
  <2>3. depth[k] = o(k) - c(k) /\ depth[k - 1] = o(k - 1) - c(k - 1)
    BY <2>1
  <2> QED
    BY <2>2, <2>3, Braces
<1>4. \A k \in 0 .. n : depth[k] \in Nat
  <2> SUFFICES ASSUME NEW k \in 0 .. n PROVE o(k) - c(k) \in Nat
    OBVIOUS
  <2>1. k \in Nat /\ (k = 0 \/ k \in 1 .. n)
    OBVIOUS
  <2>2. o(k) \in Nat /\ c(k) \in Nat
    BY <1>2, <2>1
  <2>3. c(k) <= o(k)
    <3>1. o(0) = 0 /\ c(0) = 0
      BY <1>2, Zenon
    <3> QED
      BY <1>1, <2>1, <3>1
  <2> QED
    BY <2>2, <2>3
<1>5. depth[0] = 0 /\ depth[n] = 0
  <2>1. o(n) \in Nat /\ 0 \in 0 .. n /\ n \in 0 .. n
    BY <1>2
  <2>2. o(0) = 0 /\ c(0) = 0 /\ c(n) = o(n)
    BY <1>1, <1>2, Zenon
  <2>3. depth[0] = o(0) - c(0) /\ depth[n] = o(n) - c(n)
    BY <2>1
  <2> QED
    BY <2>1, <2>2, <2>3
<1> HIDE DEF depth
<1> QED
  BY <1>3, <1>4, <1>5 DEF Deep


NameKey == "name:"
Quote == "quote"
FolderKey == "folder:"
FileKey == "file:"

LEMMA Keys ==
    /\ NameKey \notin {Left, Right} /\ Quote \notin {Left, Right, NameKey}
    /\ FolderKey \notin {Left, Right, NameKey, Quote}
    /\ FileKey \notin {Left, Right, NameKey, Quote, FolderKey}
BY Zenon DEF Left, Right, NameKey, Quote, FolderKey, FileKey

Kind(item) == IF item.folder THEN FolderKey ELSE FileKey

\* An item's characters, one by one.
IsItem(J, name, kind) ==
    LET n == Len(name)
    IN  /\ Len(J) = n + 7
        /\ J[1] = Left /\ J[2] = NameKey
        /\ \A i \in 1 .. n : J[i + 2] = name[i]
        /\ J[n + 3] = Quote /\ J[n + 4] = kind
        /\ J[n + 5] = Left /\ J[n + 6] = Right /\ J[n + 7] = Right

IsJoin(J, S, a, t) ==
    /\ J \in Seq(S) /\ Len(J) = Len(a) + Len(t)
    /\ \A i \in 1 .. Len(a) : J[i] = a[i]
    /\ \A i \in 1 .. Len(t) : J[i + Len(a)] = t[i]

LEMMA Join == \A S : \A a, t \in Seq(S) : IsJoin(a \o t, S, a, t)
<1> SUFFICES ASSUME NEW S, NEW a \in Seq(S), NEW t \in Seq(S) PROVE IsJoin(a \o t, S, a, t)
  OBVIOUS
<1>1. a \o t \in Seq(S) /\ Len(a \o t) = Len(a) + Len(t)
  OBVIOUS
<1>2. \A i \in 1 .. Len(a) : (a \o t)[i] = a[i]
  OBVIOUS
<1>3. \A i \in 1 .. Len(t) : (a \o t)[i + Len(a)] = t[i]
  OBVIOUS
<1> QED
  BY <1>1, <1>2, <1>3 DEF IsJoin

\* J is the two letters a, the name, the letter t and the four letters e.
InParts(J, S, a, name, t, e) ==
    /\ J \in Seq(S) /\ Len(J) = Len(name) + 7 /\ J[1] = a[1] /\ J[2] = a[2]
    /\ \A i \in 1 .. Len(name) : J[i + 2] = name[i]
    /\ J[Len(name) + 3] = t[1] /\ J[Len(name) + 4] = e[1] /\ J[Len(name) + 5] = e[2]
    /\ J[Len(name) + 6] = e[3] /\ J[Len(name) + 7] = e[4]

LEMMA JoinedParts ==
    ASSUME NEW S, NEW a, NEW name \in Seq(S), NEW t, NEW e, NEW b, NEW c, NEW J,
           IsJoin(b, S, a, name), IsJoin(c, S, b, t), IsJoin(J, S, c, e),
           Len(a) = 2, Len(t) = 1, Len(e) = 4
    PROVE  InParts(J, S, a, name, t, e)
<1> DEFINE n == Len(name)
<1>1. n \in Nat
  OBVIOUS
<1>2. /\ Len(b) = n + 2 /\ b[1] = a[1] /\ b[2] = a[2]
      /\ \A i \in 1 .. n : b[i + 2] = name[i]
  BY DEF IsJoin
<1>3. /\ Len(c) = n + 3 /\ c[n + 3] = t[1]
      /\ \A i \in 1 .. n + 2 : c[i] = b[i]
  <2>1. 1 + (n + 2) = n + 3 /\ 1 \in 1 .. 1 /\ (n + 2) + 1 = n + 3
    BY <1>1
  <2> QED
    BY <1>2, <2>1 DEF IsJoin
<1>4. /\ Len(J) = n + 7
      /\ J[n + 4] = e[1] /\ J[n + 5] = e[2] /\ J[n + 6] = e[3] /\ J[n + 7] = e[4]
      /\ \A i \in 1 .. n + 3 : J[i] = c[i]
  <2>1. /\ 1 \in 1 .. 4 /\ 2 \in 1 .. 4 /\ 3 \in 1 .. 4 /\ 4 \in 1 .. 4
        /\ 1 + (n + 3) = n + 4 /\ 2 + (n + 3) = n + 5 /\ 3 + (n + 3) = n + 6
        /\ 4 + (n + 3) = n + 7 /\ (n + 3) + 4 = n + 7
    BY <1>1
  <2>2. \A i \in 1 .. 4 : J[i + (n + 3)] = e[i]
    BY <1>3 DEF IsJoin
  <2> QED
    BY <1>3, <2>1, <2>2 DEF IsJoin
<1>5. /\ 1 \in 1 .. n + 3 /\ 2 \in 1 .. n + 3 /\ n + 3 \in 1 .. n + 3
      /\ 1 \in 1 .. n + 2 /\ 2 \in 1 .. n + 2
      /\ \A i \in 1 .. n : i + 2 \in 1 .. n + 3 /\ i + 2 \in 1 .. n + 2
  BY <1>1
<1>6. J \in Seq(S)
  BY DEF IsJoin
<1> HIDE DEF n
<1>7. \A i \in 1 .. n : J[i + 2] = name[i]
  BY <1>2, <1>3, <1>4, <1>5, Zenon
<1>8. J[1] = a[1] /\ J[2] = a[2] /\ J[n + 3] = t[1]
  <2>1. J[1] = c[1] /\ J[2] = c[2] /\ J[n + 3] = c[n + 3]
    BY <1>4, <1>5, Zenon
  <2>2. c[1] = b[1] /\ c[2] = b[2]
    BY <1>3, <1>5, Zenon
  <2> QED
    BY <1>2, <1>3, <2>1, <2>2, Zenon
<1> QED
  BY <1>4, <1>6, <1>7, <1>8, Zenon DEF n, InParts

LEMMA Joined ==
    ASSUME NEW S, NEW l \in S, NEW k \in S, NEW name \in Seq(S), NEW q \in S, NEW kind \in S,
           NEW r \in S, NEW J, J = <<l, k>> \o name \o <<q>> \o <<kind, l, r, r>>
    PROVE  /\ J \in Seq(S) /\ Len(J) = Len(name) + 7 /\ J[1] = l /\ J[2] = k
           /\ \A i \in 1 .. Len(name) : J[i + 2] = name[i]
           /\ J[Len(name) + 3] = q /\ J[Len(name) + 4] = kind
           /\ J[Len(name) + 5] = l /\ J[Len(name) + 6] = r /\ J[Len(name) + 7] = r
<1> DEFINE a == <<l, k>>
           t == <<q>>
           e == <<kind, l, r, r>>
<1>1. a \in Seq(S) /\ Len(a) = 2 /\ a[1] = l /\ a[2] = k
  OBVIOUS
<1>2. e \in Seq(S) /\ Len(e) = 4 /\ e[1] = kind /\ e[2] = l /\ e[3] = r /\ e[4] = r
  OBVIOUS
<1>3. t \in Seq(S) /\ Len(t) = 1 /\ t[1] = q
  OBVIOUS
<1> DEFINE b == a \o name
           c == b \o t
<1>4. J = c \o e
  OBVIOUS
<1> HIDE DEF a, e, t
<1>5. IsJoin(b, S, a, name)
  BY <1>1, Join, Zenon
<1>6. b \in Seq(S)
  BY <1>5, Zenon DEF IsJoin
<1> HIDE DEF b
<1>7. IsJoin(c, S, b, t)
  BY <1>3, <1>6, Join, Zenon
<1>8. c \in Seq(S)
  BY <1>7, Zenon DEF IsJoin
<1> HIDE DEF c
<1>9. IsJoin(J, S, c, e)
  BY <1>2, <1>4, <1>8, Join, Zenon
<1>10. InParts(J, S, a, name, t, e)
  BY <1>1, <1>2, <1>3, <1>5, <1>7, <1>9, JoinedParts, Zenon
<1> QED
  BY <1>1, <1>2, <1>3, <1>10, Zenon DEF InParts

Letters(name) == ToSet(name) \cup {Left, Right, NameKey, Quote, FolderKey, FileKey}

LEMMA ItemAt ==
    ASSUME NEW item, item.name \in Seq(ToSet(item.name))
    PROVE  /\ Json(item) \in Seq(Letters(item.name))
           /\ IsItem(Json(item), item.name, Kind(item))
<1> DEFINE name == item.name
           J == Json(item)
           S == Letters(name)
           kind == Kind(item)
<1>1. J = <<Left, NameKey>> \o name \o <<Quote>> \o <<kind, Left, Right, Right>>
  BY Zenon DEF Json, Kind, Left, Right, NameKey, Quote, FolderKey, FileKey
<1>2. Left \in S /\ Right \in S /\ NameKey \in S /\ Quote \in S /\ kind \in S
  BY Zenon DEF Letters, Kind
<1>3. name \in Seq(S)
  <2>1. ToSet(name) \subseteq S
    BY Zenon DEF Letters
  <2> HIDE DEF S
  <2> QED
    BY <2>1
<1> HIDE DEF J, S, kind, name
<1>4. /\ J \in Seq(S) /\ Len(J) = Len(name) + 7 /\ J[1] = Left /\ J[2] = NameKey
      /\ \A i \in 1 .. Len(name) : J[i + 2] = name[i]
      /\ J[Len(name) + 3] = Quote /\ J[Len(name) + 4] = kind
      /\ J[Len(name) + 5] = Left /\ J[Len(name) + 6] = Right /\ J[Len(name) + 7] = Right
  BY <1>1, <1>2, <1>3, Joined
<1> QED
  BY <1>4, Zenon DEF IsItem, J, S, kind, name

LEMMA ItemNests ==
    ASSUME NEW J, NEW name, Len(name) \in Nat, NEW kind \in {FolderKey, FileKey},
           IsItem(J, name, kind), Balanced(name)
    PROVE  \E depth : Nests(J, Len(name) + 6, depth) /\ depth[Len(name) + 6] = 1
<1> DEFINE n == Len(name)
<1>1. PICK d : Deep(name, d)
  BY DepthOf
<1> DEFINE depth == [i \in 1 .. n + 6 |->
                        IF i \in 3 .. n + 2 THEN 1 + d[i - 2] ELSE IF i = n + 5 THEN 2 ELSE 1]
<1>2. n \in Nat /\ d[0] = 0 /\ d[n] = 0 /\ \A k \in 0 .. n : d[k] \in Nat
  BY <1>1 DEF Deep
<1>3. depth[1] = 1 /\ depth[n + 6] = 1
  BY <1>2
<1>4. \A i \in 1 .. n + 2 : i # 1 => depth[i] = 1 + d[i - 2]
  BY <1>2
<1>5. depth[n + 3] = 1 /\ depth[n + 4] = 1 /\ depth[n + 5] = 2
  BY <1>2
<1>6. J[1] = Left /\ J[2] = NameKey /\ J[n + 3] = Quote /\ J[n + 4] = kind
      /\ J[n + 5] = Left /\ J[n + 6] = Right
      /\ \A i \in 1 .. n : J[i + 2] = name[i]
  BY DEF IsItem
<1>7. NameKey \notin {Left, Right} /\ Quote \notin {Left, Right} /\ kind \notin {Left, Right}
  BY Keys, Zenon
<1> HIDE DEF depth
<1>8. ASSUME NEW i \in 2 .. n + 6
      PROVE  /\ depth[i] \in Nat /\ depth[i] > 0
             /\ \/ J[i] = Left /\ depth[i] = depth[i - 1] + 1
                \/ J[i] = Right /\ depth[i] = depth[i - 1] - 1
                \/ J[i] \notin {Left, Right} /\ depth[i] = depth[i - 1]
  <2>1. CASE i = 2
    <3>1. depth[2] = 1 + d[0]
      BY <1>2, <1>4
    <3>2. depth[2] = 1 /\ i - 1 = 1
      BY <1>2, <2>1, <3>1
    <3> QED
      BY <1>3, <1>6, <1>7, <2>1, <3>2
  <2>2. CASE i \in 3 .. n + 2
    <3> DEFINE k == i - 2
    <3>1. k \in 1 .. n /\ k \in 0 .. n /\ k - 1 \in 0 .. n /\ k + 2 = i /\ (i - 1) - 2 = k - 1
          /\ i \in 1 .. n + 2 /\ i # 1 /\ i - 1 \in 1 .. n + 2 /\ i - 1 # 1
      BY <1>2, <2>2
    <3>2. depth[i] = 1 + d[k] /\ depth[i - 1] = 1 + d[k - 1] /\ J[i] = name[k]
      <4>1. depth[i - 1] = 1 + d[(i - 1) - 2]
        BY <1>4, <3>1
      <4> QED
        BY <1>4, <1>6, <3>1, <4>1
    <3>3. \/ name[k] = Left /\ d[k] = d[k - 1] + 1
          \/ name[k] = Right /\ d[k] = d[k - 1] - 1
          \/ name[k] \notin {Left, Right} /\ d[k] = d[k - 1]
      BY <1>1, <3>1, Zenon DEF Deep
    <3>4. d[k] \in Nat /\ d[k - 1] \in Nat
      BY <1>2, <3>1
    <3> DEFINE p == d[k]
               q == d[k - 1]
    <3>5. p \in Nat => /\ 1 + p \in Nat /\ 1 + p > 0
                       /\ p = q + 1 => 1 + p = (1 + q) + 1
                       /\ p = q - 1 => 1 + p = (1 + q) - 1
      <4> HIDE DEF p, q
      <4> QED
        BY <3>4 DEF p, q
    <3>6. depth[i] = 1 + p /\ depth[i - 1] = 1 + q
      BY <3>2, Zenon
    <3> HIDE DEF k
    <3> QED
      BY <3>2, <3>3, <3>4, <3>5, <3>6, Zenon
  <2>3. CASE i = n + 3
    <3>1. depth[i - 1] = 1
      <4>1. i - 1 = n + 2 /\ n + 2 \in 1 .. n + 2 /\ n + 2 # 1 /\ (n + 2) - 2 = n
        BY <1>2, <2>3
      <4>2. depth[n + 2] = 1 + d[n]
        BY <1>4, <4>1
      <4> QED
        BY <1>2, <4>1, <4>2
    <3> QED
      BY <1>5, <1>6, <1>7, <2>3, <3>1
  <2>4. CASE i = n + 4
    <3>1. i - 1 = n + 3
      BY <1>2, <2>4
    <3> QED
      BY <1>5, <1>6, <1>7, <2>4, <3>1
  <2>5. CASE i = n + 5
    <3>1. i - 1 = n + 4
      BY <1>2, <2>5
    <3> QED
      BY <1>5, <1>6, <2>5, <3>1
  <2>6. CASE i = n + 6
    <3>1. i - 1 = n + 5
      BY <1>2, <2>6
    <3> QED
      BY <1>3, <1>5, <1>6, <2>6, <3>1
  <2>7. i = 2 \/ i \in 3 .. n + 2 \/ i = n + 3 \/ i = n + 4 \/ i = n + 5 \/ i = n + 6
    BY <1>2
  <2> QED
    BY <2>1, <2>2, <2>3, <2>4, <2>5, <2>6, <2>7
<1> QED
  BY <1>3, <1>6, <1>8 DEF Nests

\* The first place from a on where one finds c.
IsFirst(J, a, b, c, p) ==
    p \in a .. b /\ J[p] = c /\ \A i \in a .. p - 1 : J[i] # c

LEMMA FoundAt ==
    ASSUME NEW J, NEW a \in Nat, NEW b \in Nat, NEW c, NEW p, IsFirst(J, a, b, c, p)
    PROVE  LET I == {i \in a .. b : J[i] = c} IN I # {} /\ Min(I) = p
<1> DEFINE I == {i \in a .. b : J[i] = c}
<1>1. p \in I /\ I \in SUBSET Nat /\ \A y \in I : p <= y
  BY DEF IsFirst
<1> HIDE DEF I
<1>2. Min(I) \in I /\ \A y \in I : Min(I) <= y
  BY <1>1, SmallestOf
<1>3. Min(I) <= p /\ p <= Min(I) /\ Min(I) \in Nat /\ p \in Nat
  BY <1>1, <1>2
<1>4. Min(I) = p
  BY <1>3
<1> QED
  BY <1>1, <1>4 DEF I

LEMMA ItemParsed ==
    ASSUME NEW J, NEW name, name \in Seq(ToSet(name) \ {Quote, FolderKey}),
           NEW S, J \in Seq(S), NEW kind \in {FolderKey, FileKey}, IsItem(J, name, kind)
    PROVE  NameOf(J) = name /\ (Contains(J, FolderKey) <=> kind = FolderKey)
<1> DEFINE n == Len(name)
<1>1. n \in Nat /\ \A i \in 1 .. n : name[i] \notin {Quote, FolderKey}
  OBVIOUS
<1>2. /\ Len(J) = n + 7 /\ J[1] = Left /\ J[2] = NameKey
      /\ \A i \in 1 .. n : J[i + 2] = name[i]
      /\ J[n + 3] = Quote /\ J[n + 4] = kind
      /\ J[n + 5] = Left /\ J[n + 6] = Right /\ J[n + 7] = Right
  BY DEF IsItem
<1>3. \A i \in 3 .. n + 2 : J[i] \notin {Quote, FolderKey}
  <2> SUFFICES ASSUME NEW i \in 3 .. n + 2 PROVE J[i] \notin {Quote, FolderKey}
    OBVIOUS
  <2>1. i - 2 \in 1 .. n /\ (i - 2) + 2 = i
    BY <1>1
  <2>2. J[i] = name[i - 2]
    BY <1>2, <2>1
  <2> QED
    BY <1>1, <2>1, <2>2
<1>4. SelectInSeq(J, LAMBDA c : c = "name:") = 2
  <2> DEFINE I == {i \in 1 .. Len(J) : J[i] = NameKey}
  <2>1. IsFirst(J, 1, Len(J), NameKey, 2)
    BY <1>1, <1>2, Keys DEF IsFirst
  <2>2. Len(J) \in Nat /\ 1 \in Nat
    BY <1>1, <1>2
  <2>3. I # {} /\ Min(I) = 2
    BY <2>1, <2>2, FoundAt, Zenon
  <2> QED
    BY <2>3, Zenon DEF SelectInSeq, NameKey
<1>5. SelectInSubSeq(J, 3, Len(J), LAMBDA c : c = "quote") = n + 3
  <2> DEFINE I == {i \in 3 .. Len(J) : J[i] = Quote}
  <2>1. IsFirst(J, 3, Len(J), Quote, n + 3)
    BY <1>1, <1>2, <1>3 DEF IsFirst
  <2>2. Len(J) \in Nat /\ 3 \in Nat
    BY <1>1, <1>2
  <2>3. I # {} /\ Min(I) = n + 3
    BY <2>1, <2>2, FoundAt, Zenon
  <2> QED
    BY <2>3, Zenon DEF SelectInSubSeq, Quote
<1>6. NameOf(J) = SubSeq(J, 3, n + 2)
  <2>1. 2 + 1 = 3 /\ (n + 3) - 1 = n + 2
    BY <1>1
  <2> QED
    BY <1>4, <1>5, <2>1, Zenon DEF NameOf
<1>7. SubSeq(J, 3, n + 2) = name
  <2>1. /\ SubSeq(J, 3, n + 2) \in Seq(S) /\ Len(SubSeq(J, 3, n + 2)) = n
        /\ \A i \in 1 .. n : SubSeq(J, 3, n + 2)[i] = name[i]
    BY <1>1, <1>2
  <2> QED
    BY <2>1
<1>8. Contains(J, FolderKey) <=> kind = FolderKey
  <2>1. n + 4 \in 1 .. Len(J)
    BY <1>1, <1>2
  <2>2. ASSUME NEW i \in 1 .. Len(J), J[i] = FolderKey PROVE i = n + 4
    <3>1. FolderKey # Left /\ FolderKey # Right /\ FolderKey # NameKey /\ FolderKey # Quote
      BY Keys, Zenon
    <3>2. i = 1 \/ i = 2 \/ i \in 3 .. n + 2 \/ i = n + 3 \/ i = n + 4 \/ i = n + 5 \/ i = n + 6 \/ i = n + 7
      BY <1>1, <1>2
    <3> QED
      BY <1>2, <1>3, <2>2, <3>1, <3>2
  <2> QED
    BY <1>2, <2>1, <2>2, Zenon DEF Contains
<1> QED
  BY <1>6, <1>7, <1>8, Zenon


LEMMA ItemOf ==
    ASSUME NEW item \in Items, Fits(item.name)
    PROVE  /\ Json(item) \in Seq(Letters(item.name))
           /\ IsItem(Json(item), item.name, Kind(item))
           /\ item.name \in Seq(ToSet(item.name) \ {Quote, FolderKey})
           /\ Len(item.name) \in Nat
           /\ ParseDriveItem(Json(item)) = item
<1> DEFINE name == item.name
           J == Json(item)
<1>1. name \in Seq(ToSet(name) \ {Quote, FolderKey})
  BY Zenon DEF Fits, Quote, FolderKey
<1>2. name \in Seq(ToSet(name)) /\ Len(name) \in Nat
  BY <1>1
<1>3. J \in Seq(Letters(name)) /\ IsItem(J, name, Kind(item))
  BY <1>2, ItemAt, Zenon
<1>4. Kind(item) \in {FolderKey, FileKey} /\ (Kind(item) = FolderKey <=> item.folder)
  BY Keys, Zenon DEF Kind
<1>5. NameOf(J) = name /\ (Contains(J, FolderKey) <=> item.folder)
  BY <1>1, <1>3, <1>4, ItemParsed, Zenon
<1>6. ParseDriveItem(J) = item
  <2>1. Contains(J, FolderKey) \in BOOLEAN
    BY Zenon DEF Contains
  <2>2. item.folder \in BOOLEAN /\ item = [name |-> item.name, folder |-> item.folder]
    BY DEF Items
  <2>3. Contains(J, FolderKey) = item.folder
    BY <1>5, <2>1, <2>2, Zenon
  <2> QED
    BY <1>5, <2>2, <2>3, Zenon DEF ParseDriveItem, FolderKey
<1> QED
  BY <1>1, <1>2, <1>3, <1>6, Zenon

LEMMA ItemScanned ==
    ASSUME NEW item \in Items, Fits(item.name), NEW o \in Nat, NEW its, NEW r,
           r[o] = Between(its), NEW m \in 1 .. Len(Json(item)), Follows(r, o, Json(item), m)
    PROVE  /\ m < Len(Json(item)) => r[o + m].items = its
           /\ m = Len(Json(item)) => r[o + m] = Between(Append(its, item))
<1> DEFINE name == item.name
           J == Json(item)
           n == Len(name)
           S == Letters(name)
<1>1. J \in Seq(S) /\ Len(J) = n + 7 /\ J[n + 7] = Right /\ n \in Nat /\ ParseDriveItem(J) = item
  BY ItemOf, Zenon DEF IsItem
<1>2. PICK depth : Nests(J, n + 6, depth) /\ depth[n + 6] = 1
  <2>1. Kind(item) \in {FolderKey, FileKey}
    BY Zenon DEF Kind
  <2>2. IsItem(J, name, Kind(item)) /\ Len(name) \in Nat
    BY ItemOf, Zenon
  <2>3. Balanced(name)
    BY Zenon DEF Fits
  <2> QED
    BY <2>1, <2>2, <2>3, ItemNests
<1>3. \A i \in 1 .. m : r[o + i] = Scan(r[o + i - 1], J[i])
  BY Zenon DEF Follows
<1>4. m \in Nat /\ m >= 1 /\ m <= Len(J)
  BY <1>1
<1> HIDE DEF J, n, S, name
<1> DEFINE p == IF m = n + 7 THEN n + 6 ELSE m
<1>5. p \in Nat /\ p \in 1 .. n + 6 /\ p <= Len(J) /\ p <= m
  BY <1>1, <1>4
<1> HIDE DEF p
<1>6. Nests(J, p, depth)
  <2>1. \A i \in 2 .. p : i \in 2 .. n + 6
    BY <1>5, <1>1
  <2> QED
    BY <1>2, <2>1, Zenon DEF Nests
<1>7. \A i \in 1 .. p : r[o + i] = Scan(r[o + i - 1], J[i])
  <2>1. \A i \in 1 .. p : i \in 1 .. m
    BY <1>4, <1>5
  <2> QED
    BY <1>3, <2>1, Zenon
<1>8. \A i \in 1 .. p : r[o + i] = Within(depth[i], SubSeq(J, 1, i), its)
  <2>1. p \in 0 .. Len(J) /\ J \in Seq(S)
    BY <1>1, <1>5
  <2>2. Follows(r, o, J, p)
    BY <1>7, Zenon DEF Follows
  <2>3. Walked(r, o, J, p, depth, its)
    BY <1>6, <2>1, <2>2, Walks, Zenon
  <2> QED
    BY <2>3, Zenon DEF Walked
<1>9. p \in 1 .. p
  BY <1>5
<1>10. ASSUME m < n + 7 PROVE r[o + m].items = its
  <2>1. p = m
    BY <1>10, <1>1, <1>4 DEF p
  <2>2. r[o + m] = Within(depth[m], SubSeq(J, 1, m), its)
    BY <1>8, <1>9, <2>1, Zenon
  <2>3. \A d, cur : Within(d, cur, its).items = its
    BY DEF Within, State
  <2> QED
    BY <2>2, <2>3, Zenon
<1>11. ASSUME m = n + 7 PROVE r[o + m] = Between(Append(its, item))
  <2>1. p = n + 6 /\ o + m - 1 = o + (n + 6) /\ m \in 1 .. m
    BY <1>11, <1>1, <1>4 DEF p
  <2>2. r[o + (n + 6)] = Within(1, SubSeq(J, 1, n + 6), its)
    BY <1>2, <1>8, <1>9, <2>1, Zenon
  <2>3. r[o + m] = Scan(r[o + (n + 6)], Right)
    BY <1>1, <1>3, <1>11, <2>1, Zenon
  <2>4. Append(SubSeq(J, 1, n + 6), Right) = J
    <3>1. Append(SubSeq(J, 1, n + 6), J[n + 7]) = SubSeq(J, 1, n + 7)
      BY <1>1
    <3>2. SubSeq(J, 1, n + 7) = J
      BY <1>1
    <3> QED
      BY <1>1, <3>1, <3>2, Zenon
  <2> QED
    BY <1>1, <2>2, <2>3, <2>4, ClosesItem, Zenon
<1>12. Len(J) = n + 7
  BY <1>1
<1> QED
  BY <1>10, <1>11, <1>12, Zenon DEF J

-----------------------------------------------------------------------------
(* A page.                                                                 *)

Page == Seq({item \in Items : Fits(item.name)})
AllLetters == UNION {Letters(name) : name \in FileNames}
Texts(page) == [i \in DOMAIN page |-> Json(page[i])]
Text(page) == FlattenSeq(Texts(page))

LEMMA JsonTyped ==
    \A item \in Items : Fits(item.name) => Json(item) \in Seq(AllLetters)
<1> SUFFICES ASSUME NEW item \in Items, Fits(item.name) PROVE Json(item) \in Seq(AllLetters)
  OBVIOUS
<1>1. item.name \in FileNames
  BY DEF Items
<1>2. Letters(item.name) \subseteq AllLetters
  BY <1>1, Zenon DEF AllLetters
<1>3. Json(item) \in Seq(Letters(item.name))
  BY ItemOf, Zenon
<1> HIDE DEF AllLetters
<1> QED
  BY <1>2, <1>3

LEMMA TextOf ==
    ASSUME NEW page \in Page
    PROVE  Texts(page) \in Seq(Seq(AllLetters)) /\ Text(page) \in Seq(AllLetters)
<1>2. \A i \in DOMAIN page : Json(page[i]) \in Seq(AllLetters)
  <2>1. \A i \in DOMAIN page : page[i] \in Items /\ Fits(page[i].name)
    BY DEF Page
  <2> QED
    BY <2>1, JsonTyped, Zenon
<1>3. DOMAIN page = 1 .. Len(page) /\ Len(page) \in Nat
  BY DEF Page
<1>4. Texts(page) \in Seq(Seq(AllLetters))
  BY <1>2, <1>3 DEF Texts
<1> QED
  BY <1>4, FlattenTyped, Zenon DEF Text

LEMMA AppendIs ==
    ASSUME NEW S, NEW ts \in Seq(S), NEW e \in S
    PROVE  Append(ts, e) = [i \in 1 .. Len(ts) + 1 |-> IF i = Len(ts) + 1 THEN e ELSE ts[i]]
<1> DEFINE g == [i \in 1 .. Len(ts) + 1 |-> IF i = Len(ts) + 1 THEN e ELSE ts[i]]
<1>1. \A i \in 1 .. Len(ts) + 1 : (IF i = Len(ts) + 1 THEN e ELSE ts[i]) \in S
  OBVIOUS
<1>2. g \in Seq(S) /\ Len(g) = Len(ts) + 1
  BY <1>1
<1>3. \A i \in 1 .. Len(ts) + 1 : g[i] = Append(ts, e)[i]
  OBVIOUS
<1> HIDE DEF g
<1>4. Append(ts, e) \in Seq(S) /\ Len(Append(ts, e)) = Len(ts) + 1
  OBVIOUS
<1>5. g = Append(ts, e)
  BY <1>2, <1>3, <1>4
<1> QED
  BY <1>5 DEF g

LEMMA TextOfMore ==
    ASSUME NEW page \in Page, NEW item \in Items, Fits(item.name)
    PROVE  /\ Append(page, item) \in Page
           /\ Text(Append(page, item)) = Text(page) \o Json(item)
           /\ Json(item) \in Seq(AllLetters)
<1>1. Append(page, item) \in Page
  BY DEF Page
<1>2. DOMAIN page = 1 .. Len(page) /\ Len(page) \in Nat
  BY DEF Page
<1>3. Texts(Append(page, item)) = Append(Texts(page), Json(item))
  <2> DEFINE more == Append(page, item)
             n == Len(page)
  <2>1. /\ DOMAIN more = 1 .. n + 1 /\ more[n + 1] = item
        /\ \A i \in 1 .. n : more[i] = page[i]
    BY DEF Page
  <2>2. /\ Texts(page) \in Seq(Seq(AllLetters)) /\ Len(Texts(page)) = n
        /\ \A i \in 1 .. n : Texts(page)[i] = Json(page[i])
    <3>1. Texts(page) \in Seq(Seq(AllLetters))
      BY TextOf
    <3>2. DOMAIN Texts(page) = 1 .. n
      BY <1>2, Zenon DEF Texts
    <3>3. \A i \in 1 .. n : Texts(page)[i] = Json(page[i])
      BY <1>2, Zenon DEF Texts
    <3> QED
      BY <1>2, <3>1, <3>2, <3>3
  <2>3. Texts(more) = [i \in 1 .. n + 1 |-> Json(more[i])]
    BY <2>1, Zenon DEF Texts
  <2> HIDE DEF more
  <2> DEFINE e == Json(item)
             ts == Texts(page)
             x(i) == Json(more[i])
  <2>4. x(n + 1) = e /\ \A i \in 1 .. n : x(i) = ts[i]
    BY <2>1, <2>2, Zenon
  <2> HIDE DEF e, ts, x
  <2>5. [i \in 1 .. n + 1 |-> x(i)] = Append(ts, e)
    <3>1. ts \in Seq(Seq(AllLetters)) /\ Len(ts) = n
      BY <2>2, Zenon DEF ts
    <3>2. Append(ts, e) = [i \in 1 .. n + 1 |-> IF i = n + 1 THEN e ELSE ts[i]]
      <4>1. e \in Seq(AllLetters)
        BY JsonTyped, Zenon DEF e
      <4>2. Append(ts, e) = [i \in 1 .. Len(ts) + 1 |-> IF i = Len(ts) + 1 THEN e ELSE ts[i]]
        BY <3>1, <4>1, AppendIs
      <4> QED
        BY <3>1, <4>2
    <3>3. \A i \in 1 .. n + 1 : i = n + 1 \/ i \in 1 .. n
      BY <1>2
    <3>4. \A i \in 1 .. n + 1 : x(i) = IF i = n + 1 THEN e ELSE ts[i]
      BY <2>4, <3>3, Zenon
    <3> QED
      BY <3>2, <3>4, Zenon
  <2> QED
    BY <2>3, <2>5, Zenon DEF e, ts, x, more
<1>4. Json(item) \in Seq(AllLetters)
  BY JsonTyped, Zenon
<1> QED
  BY <1>1, <1>3, <1>4, TextOf, FlattenLast, Zenon DEF Text


\* Read as far as m, a page's text has given its first items; all of it, them all.
Reads(page) ==
    \A r : \A m \in 0 .. Len(Text(page)) :
        Runs(r, Text(page), m) =>
            /\ \E k \in 0 .. Len(page) : r[m].items = SubSeq(page, 1, k)
            /\ m = Len(Text(page)) => r[m] = Between(page)

LEMMA BetweenItems == \A its : Between(its).items = its
BY DEF Between, State

LEMMA StartsBetween == ScanStart = Between(<<>>)
BY Zenon DEF ScanStart, Between, State, No

LEMMA ReadsNothing == Reads(<<>>)
<1>1. Text(<<>>) = <<>>
  <2>1. Texts(<<>>) = <<>>
    BY DEF Texts
  <2> QED
    BY <2>1, FlattenEmpty DEF Text
<1>2. Len(<<>>) = 0 /\ 0 \in 0 .. 0 /\ \A m \in 0 .. 0 : m = 0
  OBVIOUS
<1>3. SubSeq(<<>>, 1, 0) = <<>>
  OBVIOUS
<1>4. ASSUME NEW r, NEW m \in 0 .. Len(Text(<<>>)), Runs(r, Text(<<>>), m)
      PROVE  /\ \E k \in 0 .. Len(<<>>) : r[m].items = SubSeq(<<>>, 1, k)
             /\ m = Len(Text(<<>>)) => r[m] = Between(<<>>)
  <2>1. m = 0
    BY <1>1, <1>2, <1>4, Zenon
  <2>2. r[m] = Between(<<>>)
    BY <1>4, <2>1, StartsBetween, Zenon DEF Runs
  <2>3. r[m].items = SubSeq(<<>>, 1, 0)
    BY <1>3, <2>2, BetweenItems, Zenon
  <2> QED
    BY <1>2, <2>2, <2>3, Zenon
<1> QED
  BY <1>4, Zenon DEF Reads

LEMMA ReadsMore ==
    ASSUME NEW page \in Page, NEW item \in Items, Fits(item.name), Reads(page)
    PROVE  Reads(Append(page, item))
<1> DEFINE cs == Text(page)
           L == Len(cs)
           J == Json(item)
           all == Text(Append(page, item))
           more == Append(page, item)
           N == Len(page)
<1>1. IsJoin(all, AllLetters, cs, J)
  BY TextOf, TextOfMore, Join, Zenon
<1>2. L \in Nat /\ Len(J) \in Nat /\ Len(J) > 0
  <2>1. cs \in Seq(AllLetters)
    BY TextOf, Zenon
  <2>2. Len(J) = Len(item.name) + 7 /\ Len(item.name) \in Nat
    BY ItemOf, Zenon DEF IsItem
  <2> HIDE DEF cs, J
  <2> QED
    BY <2>1, <2>2
<1>3. /\ Len(all) = L + Len(J)
      /\ \A i \in 1 .. L : all[i] = cs[i]
      /\ \A i \in 1 .. Len(J) : all[i + L] = J[i]
  BY <1>1, Zenon DEF IsJoin
<1>4. /\ N \in Nat /\ Len(more) = N + 1 /\ SubSeq(more, 1, N) = page
      /\ SubSeq(more, 1, N + 1) = more
      /\ \A k \in 0 .. N : SubSeq(more, 1, k) = SubSeq(page, 1, k)
  <2>1. page \in Seq(Items)
    BY DEF Page
  <2>2. N \in Nat /\ Len(more) = N + 1 /\ SubSeq(more, 1, N + 1) = more
    BY <2>1
  <2>3. SubSeq(more, 1, N) = page
    BY <2>1
  <2>4. \A k \in 0 .. N : SubSeq(more, 1, k) = SubSeq(page, 1, k)
    BY <2>1
  <2> QED
    BY <2>2, <2>3, <2>4
<1>5. \A r : \A m \in 0 .. L :
          Runs(r, cs, m) =>
            /\ \E k \in 0 .. N : r[m].items = SubSeq(page, 1, k)
            /\ m = L => r[m] = Between(page)
  BY Zenon DEF Reads
<1>6. ASSUME NEW o \in Nat, NEW its, NEW r, r[o] = Between(its), NEW m \in 1 .. Len(J),
             Follows(r, o, J, m)
      PROVE  /\ m < Len(J) => r[o + m].items = its
             /\ m = Len(J) => r[o + m] = Between(Append(its, item))
  BY <1>6, ItemScanned, Zenon
<1> HIDE DEF cs, J, all
<1>7. ASSUME NEW r, NEW m \in 0 .. Len(all), Runs(r, all, m)
      PROVE  /\ \E k \in 0 .. Len(more) : r[m].items = SubSeq(more, 1, k)
             /\ m = Len(all) => r[m] = Between(more)
  <2>0. r[0] = ScanStart /\ \A i \in 1 .. m : r[i] = Scan(r[i - 1], all[i])
    BY <1>7, Zenon DEF Runs
  <2>1. CASE m <= L
    <3>1. m \in 0 .. L /\ m # Len(all) /\ \A i \in 1 .. m : i \in 1 .. L
      BY <1>2, <1>3, <2>1
    <3>2. \A i \in 1 .. m : r[i] = Scan(r[i - 1], cs[i])
      BY <1>3, <2>0, <3>1, Zenon
    <3>3. Runs(r, cs, m)
      BY <2>0, <3>2, Zenon DEF Runs
    <3>4. PICK k \in 0 .. N : r[m].items = SubSeq(page, 1, k)
      BY <1>5, <3>1, <3>3, Zenon
    <3>5. k \in 0 .. Len(more) /\ r[m].items = SubSeq(more, 1, k)
      <4> HIDE DEF more, N
      <4>1. k \in 0 .. N + 1
        BY <1>4
      <4> QED
        BY <1>4, <3>4, <4>1, Zenon
    <3> QED
      BY <3>1, <3>5, Zenon
  <2>2. CASE m > L
    <3> DEFINE j == m - L
    <3>1. /\ j \in 1 .. Len(J) /\ L + j = m /\ L \in 0 .. L /\ (m = Len(all) <=> j = Len(J))
          /\ (j < Len(J) \/ j = Len(J))
          /\ \A i \in 1 .. L : i \in 1 .. m
          /\ \A i \in 1 .. j : i \in 1 .. Len(J) /\ L + i \in 1 .. m /\ L + i = i + L
      <4> DEFINE l == Len(J)
      <4>1. l \in Nat /\ L \in Nat /\ m \in Nat /\ m <= L + l /\ m > L /\ Len(all) = L + l
        BY <1>2, <1>3, <2>2
      <4> HIDE DEF l
      <4>2. j \in 1 .. l /\ L + j = m /\ L \in 0 .. L
        BY <4>1
      <4>3. (m = L + l <=> j = l) /\ (j < l \/ j = l)
        BY <4>1
      <4>4. \A i \in 1 .. L : i \in 1 .. m
        BY <4>1
      <4>5. \A i \in 1 .. j : i \in 1 .. l /\ L + i \in 1 .. m /\ L + i = i + L
        BY <4>1
      <4> HIDE DEF j
      <4>6. m = Len(all) <=> j = l
        BY <4>1, <4>3
      <4> QED
        BY <4>2, <4>3, <4>4, <4>5, <4>6, Zenon DEF l
    <3> HIDE DEF j
    <3>2. Runs(r, cs, L)
      <4>1. \A i \in 1 .. L : r[i] = Scan(r[i - 1], cs[i])
        BY <1>3, <2>0, <3>1, Zenon
      <4> QED
        BY <2>0, <4>1, Zenon DEF Runs
    <3>3. r[L] = Between(page)
      BY <1>5, <3>1, <3>2, Zenon
    <3>4. Follows(r, L, J, j)
      <4>1. ASSUME NEW i \in 1 .. j PROVE r[L + i] = Scan(r[L + i - 1], J[i])
        <5>1. r[L + i] = Scan(r[L + i - 1], all[L + i])
          <6>1. L + i \in 1 .. m
            BY <3>1, Zenon
          <6> DEFINE q == L + i
          <6>2. r[q] = Scan(r[q - 1], all[q])
            <7> HIDE DEF q
            <7> QED
              BY <2>0, <6>1, Zenon DEF q
          <6> QED
            BY <6>2
        <5>2. all[L + i] = J[i]
          BY <1>3, <3>1, Zenon
        <5> QED
          BY <5>1, <5>2, Zenon
      <4> QED
        BY <4>1, Zenon DEF Follows
    <3>5. /\ j < Len(J) => r[m].items = page
          /\ j = Len(J) => r[m] = Between(more)
      <4>1. L \in Nat /\ j \in 1 .. Len(J) /\ L + j = m
        BY <1>2, <3>1, Zenon
      <4>2. /\ j < Len(J) => r[L + j].items = page
            /\ j = Len(J) => r[L + j] = Between(Append(page, item))
        <5> HIDE DEF L
        <5> QED
          BY <1>6, <3>3, <3>4, <4>1, Zenon
      <4> QED
        BY <4>1, <4>2, Zenon
    <3>6. N \in 0 .. Len(more) /\ N + 1 \in 0 .. Len(more)
      BY <1>4
    <3>7. r[m].items = SubSeq(more, 1, N) \/ r[m].items = SubSeq(more, 1, N + 1)
      <4> HIDE DEF more, N
      <4> QED
        BY <1>4, <3>1, <3>5, BetweenItems, Zenon
    <3> QED
      BY <3>1, <3>5, <3>6, <3>7, Zenon
  <2> QED
    BY <1>2, <2>1, <2>2
<1> QED
  BY <1>7, Zenon DEF Reads, all

LEMMA PagesRead == \A page \in Page : Reads(page)
<1> DEFINE T == {item \in Items : Fits(item.name)}
           S == {page \in Page : Reads(page)}
<1>1. <<>> \in S
  BY ReadsNothing DEF Page
<1>2. ASSUME NEW r \in Seq(T), NEW e \in T, r \in S PROVE Append(r, e) \in S
  BY <1>2, ReadsMore, TextOfMore, Zenon DEF Page
<1> HIDE DEF S, T
<1>3. \A s \in Seq(T) : s \in S
  BY <1>1, <1>2, SequenceInduction
<1> QED
  BY <1>3, Zenon DEF S, T, Page

-----------------------------------------------------------------------------
(* An answer.                                                              *)

Begins == "value:["
Ends == "]"

LEMMA AnswerWhole ==
    ASSUME NEW page \in Page, NEW R, R = <<Begins>> \o Text(page) \o <<Ends>>
    PROVE  Len(R) \in Nat /\ SubSeq(R, 1, Len(R)) = R
<1> DEFINE S == AllLetters \cup {Begins, Ends}
           cs == Text(page)
           b == <<Begins>>
           e == <<Ends>>
<1>1. cs \in Seq(AllLetters)
  BY TextOf, Zenon
<1>2. R = (b \o cs) \o e
  OBVIOUS
<1>3. AllLetters \subseteq S /\ b \in Seq(S) /\ e \in Seq(S)
  OBVIOUS
<1> HIDE DEF S, cs, b, e
<1>4. cs \in Seq(S)
  BY <1>1, <1>3
<1>5. R \in Seq(S)
  <2> DEFINE c == b \o cs
  <2>1. c \in Seq(S)
    BY <1>3, <1>4, Join, Zenon DEF IsJoin
  <2> HIDE DEF c
  <2>2. c \o e \in Seq(S)
    BY <1>3, <2>1, Join, Zenon DEF IsJoin
  <2> QED
    BY <1>2, <2>2, Zenon DEF c
<1> QED
  BY <1>5

LEMMA AnswerRead ==
    ASSUME NEW page \in Page, NEW R, R = <<Begins>> \o Text(page) \o <<Ends>>,
           NEW n \in 0 .. Len(R)
    PROVE  \E k \in 0 .. Len(page) : ListFolder(SubSeq(R, 1, n)) = SubSeq(page, 1, k)
<1> DEFINE cs == Text(page)
           L == Len(cs)
           S == AllLetters \cup {Begins, Ends}
           answer == SubSeq(R, 1, n)
           text == cs \o <<Ends>>
<1>1. cs \in Seq(AllLetters)
  BY TextOf, Zenon
<1>2. cs \in Seq(S) /\ <<Ends>> \in Seq(S) /\ <<Begins>> \in Seq(S)
  <2>1. AllLetters \subseteq S /\ Ends \in S /\ Begins \in S
    OBVIOUS
  <2> HIDE DEF S, cs
  <2> QED
    BY <1>1, <2>1
<1>3. R = <<Begins>> \o text
  <2>1. R = (<<Begins>> \o cs) \o <<Ends>>
    OBVIOUS
  <2> DEFINE b == <<Begins>>
             e == <<Ends>>
  <2> HIDE DEF cs, S, b, e
  <2>2. (b \o cs) \o e = b \o (cs \o e)
    <3>1. b \in Seq(S) /\ e \in Seq(S) /\ cs \in Seq(S)
      BY <1>2, Zenon DEF b, e
    <3> QED
      <4>1. Regroups(b, cs, e)
        BY <3>1, Regrouped, Zenon
      <4> QED
        BY <4>1, Zenon DEF Regroups
  <2> QED
    BY <2>1, <2>2, Zenon DEF b, e
<1> HIDE DEF S, cs
<1>4. Len(<<Ends>>) = 1 /\ <<Ends>>[1] = Ends /\ Len(<<Begins>>) = 1 /\ <<Begins>>[1] = Begins
      /\ 1 \in 1 .. 1
  OBVIOUS
<1>5. IsJoin(text, S, cs, <<Ends>>)
  BY <1>2, Join, Zenon
<1>6. IsJoin(R, S, <<Begins>>, text)
  <2>1. text \in Seq(S)
    BY <1>5, Zenon DEF IsJoin
  <2> HIDE DEF text
  <2> QED
    BY <1>2, <1>3, <2>1, Join, Zenon
<1> HIDE DEF text
<1>7. L \in Nat
  BY <1>1
<1>8. /\ Len(text) = L + 1 /\ text[L + 1] = Ends /\ \A i \in 1 .. L : text[i] = cs[i]
  <2>1. 1 + L = L + 1
    BY <1>7
  <2> QED
    BY <1>4, <1>5, <2>1, Zenon DEF IsJoin
<1>9. R \in Seq(S) /\ Len(R) = L + 2 /\ R[1] = Begins /\ \A i \in 1 .. L + 1 : R[i + 1] = text[i]
  <2>1. 1 + (L + 1) = L + 2
    BY <1>7
  <2> QED
    BY <1>4, <1>6, <1>8, <2>1, Zenon DEF IsJoin
<1>10. n \in Nat /\ Len(answer) = n /\ \A i \in 1 .. n : answer[i] = R[i]
  BY <1>7, <1>9
<1> HIDE DEF answer
<1>11. 0 \in 0 .. Len(page) /\ SubSeq(page, 1, 0) = <<>> /\ Len(page) \in 0 .. Len(page)
       /\ SubSeq(page, 1, Len(page)) = page
  BY DEF Page
<1>12. CASE n = 0
  <2>1. \A i \in 1 .. Len(answer) : answer[i] # "value:["
    BY <1>10, <1>12
  <2>2. ListFolder(answer) = <<>>
    BY <2>1, NoList, Zenon
  <2> QED
    BY <1>11, <2>2, Zenon DEF answer
<1>13. CASE n # 0
  <2> DEFINE m == n - 1
  <2>1. m \in Nat /\ Len(answer) = m + 1 /\ m <= L + 1 /\ 1 \in 1 .. n
        /\ \A i \in 1 .. m : i + 1 \in 1 .. n /\ i \in 1 .. L + 1
    BY <1>7, <1>9, <1>10, <1>13
  <2>2. answer[1] = "value:["
    BY <1>9, <1>10, <2>1, Zenon DEF Begins
  <2>3. \A i \in 1 .. m : answer[i + 1] = text[i]
    BY <1>9, <1>10, <2>1, Zenon
  <2> HIDE DEF m
  <2>4. PICK r : Runs(r, text, m) /\ ListFolder(answer) = r[m].items
    BY <2>1, <2>2, <2>3, ListOf, Zenon
  <2>5. r[0] = ScanStart /\ \A i \in 1 .. m : r[i] = Scan(r[i - 1], text[i])
    BY <2>4, Zenon DEF Runs
  <2>6. \A l \in 0 .. L : Runs(r, cs, l) =>
            /\ \E k \in 0 .. Len(page) : r[l].items = SubSeq(page, 1, k)
            /\ l = L => r[l] = Between(page)
    BY PagesRead, Zenon DEF Reads, cs
  <2>7. CASE m <= L
    <3>1. m \in 0 .. L /\ \A i \in 1 .. m : i \in 1 .. L
      BY <1>7, <2>1, <2>7
    <3>2. Runs(r, cs, m)
      BY <1>8, <2>5, <3>1, Zenon DEF Runs
    <3> QED
      BY <2>4, <2>6, <3>1, <3>2, Zenon DEF answer
  <2>8. CASE m = L + 1
    <3>1. L \in 0 .. L /\ L + 1 \in 1 .. m /\ (L + 1) - 1 = L /\ \A i \in 1 .. L : i \in 1 .. m
      BY <1>7, <2>8
    <3>2. Runs(r, cs, L)
      BY <1>8, <2>5, <3>1, Zenon DEF Runs
    <3>3. r[L] = Between(page)
      BY <2>6, <3>1, <3>2, Zenon
    <3>4. r[m] = Scan(Between(page), "]")
      BY <1>8, <2>5, <2>8, <3>1, <3>3, Zenon DEF Ends
    <3>5. r[m].items = page
      BY <3>4, EndsList, Zenon
    <3> QED
      BY <1>11, <2>4, <3>5, Zenon DEF answer
  <2>9. m <= L \/ m = L + 1
    BY <1>7, <2>1
  <2> QED
    BY <2>7, <2>8, <2>9
<1> QED
  BY <1>12, <1>13

\* What a folder's answers are made of: the items of its page.
LEMMA PageOf ==
    ASSUME NamesFit, NEW path \in DOMAIN Drive
    PROVE  \E page \in Page :
              /\ Response(path) = <<Begins>> \o Text(page) \o <<Ends>>
              /\ Len(page) <= PageSize /\ Len(page) <= Len(Drive[path])
              /\ page = SubSeq(Drive[path], 1, Len(page))
<1> DEFINE K == Min({PageSize, Len(Drive[path])})
           page == SubSeq(Drive[path], 1, K)
<1>1. Drive[path] \in Seq(Items) /\ PageSize \in Nat
  BY DriveAssumption, Zenon
<1>2. K \in Nat /\ K <= PageSize /\ K <= Len(Drive[path])
  <2> DEFINE T == {PageSize, Len(Drive[path])}
  <2>1. T \in SUBSET Nat /\ T # {} /\ PageSize \in T /\ Len(Drive[path]) \in T
    BY <1>1
  <2> HIDE DEF T
  <2>2. Min(T) \in T /\ \A y \in T : Min(T) <= y
    BY <2>1, SmallestOf
  <2>3. Min(T) \in Nat /\ Min(T) <= PageSize /\ Min(T) <= Len(Drive[path])
    BY <2>1, <2>2
  <2> QED
    BY <2>3 DEF T
<1> HIDE DEF K
<1>3. Len(page) = K /\ page \in Seq(Items)
  BY <1>1, <1>2
<1>4. page \in Page
  <2>1. ASSUME NEW i \in 1 .. Len(page) PROVE page[i] \in {item \in Items : Fits(item.name)}
    <3>1. page[i] \in Items
      BY <1>3
    <3>2. page[i].name \in FileNames
      BY <3>1 DEF Items
    <3> QED
      BY <3>1, <3>2, Zenon DEF NamesFit
  <2> HIDE DEF page
  <2>2. page \in Seq({item \in Items : Fits(item.name)})
    BY <1>3, <2>1
  <2> QED
    BY <2>2, Zenon DEF Page
<1>5. Response(path) = <<Begins>> \o Text(page) \o <<Ends>>
  BY Zenon DEF Response, K, Text, Texts, Begins, Ends
<1> QED
  BY <1>2, <1>3, <1>4, <1>5

\* An answer without items, whatever its characters.
LEMMA Five ==
    ASSUME NEW a, NEW b, NEW c
    PROVE  \A i \in 1 .. Len(<<a, b, a, c, c>>) : <<a, b, a, c, c>>[i] \in {a, b, c}
OBVIOUS

LEMMA ErrorRead == ListFolder(ErrorAnswer) = <<>>
<1> DEFINE e == "error:"
<1>1. Left # "value:[" /\ Right # "value:[" /\ e # "value:["
  BY Zenon DEF Left, Right
<1>2. ErrorAnswer = <<Left, e, Left, Right, Right>>
  BY Zenon DEF ErrorAnswer, Left, Right
<1> HIDE DEF e
<1>3. \A i \in 1 .. Len(ErrorAnswer) : ErrorAnswer[i] \in {Left, e, Right}
  BY <1>2, Five, Zenon
<1>4. \A i \in 1 .. Len(ErrorAnswer) : ErrorAnswer[i] # "value:["
  BY <1>1, <1>3, Zenon
<1> QED
  BY <1>4, NoList, Zenon

ReadsPages == \A path \in DOMAIN Drive : ReadsPage(path)

LEMMA AnswersRead == NamesFit => ReadsPages
<1> SUFFICES ASSUME NamesFit, NEW path \in DOMAIN Drive,
                    NEW answer \in Answers(path) \cup {Response(path)}
             PROVE  /\ ListFolder(answer) \in Seq(Items)
                    /\ Len(ListFolder(answer)) <= PageSize
                    /\ IsPrefix(ListFolder(answer), Drive[path])
  BY Zenon DEF ReadsPages, ReadsPage
<1> DEFINE R == Response(path)
<1>1. PICK page \in Page :
          /\ R = <<Begins>> \o Text(page) \o <<Ends>>
          /\ Len(page) <= PageSize /\ Len(page) <= Len(Drive[path])
          /\ page = SubSeq(Drive[path], 1, Len(page))
  BY PageOf, Zenon
<1>2. Len(R) \in Nat /\ SubSeq(R, 1, Len(R)) = R
  BY <1>1, AnswerWhole, Zenon
<1>3. answer = ErrorAnswer \/ \E n \in 0 .. Len(R) : answer = SubSeq(R, 1, n)
  <2>1. Len(R) \in 0 .. Len(R) /\ \A n \in 0 .. Len(R) - 1 : n \in 0 .. Len(R)
    BY <1>2
  <2> QED
    BY <1>2, <2>1, Zenon DEF Answers
<1> HIDE DEF R
<1>4. Drive[path] \in Seq(Items) /\ PageSize \in Nat /\ page \in Seq(Items)
  BY DriveAssumption DEF Page
<1>5. \E k \in 0 .. Len(page) : ListFolder(answer) = SubSeq(page, 1, k)
  <2>1. CASE answer = ErrorAnswer
    <3>1. 0 \in 0 .. Len(page) /\ SubSeq(page, 1, 0) = <<>>
      BY <1>4
    <3> QED
      BY <2>1, <3>1, ErrorRead, Zenon
  <2>2. ASSUME NEW n \in 0 .. Len(R), answer = SubSeq(R, 1, n)
        PROVE  \E k \in 0 .. Len(page) : ListFolder(answer) = SubSeq(page, 1, k)
    BY <1>1, <2>2, AnswerRead, Zenon
  <2> QED
    BY <1>3, <2>1, <2>2, Zenon
<1>6. PICK k \in 0 .. Len(page) : ListFolder(answer) = SubSeq(page, 1, k)
  BY <1>5, Zenon
<1> DEFINE d == Drive[path]
           items == SubSeq(page, 1, k)
<1>7. d \in Seq(Items) /\ page = SubSeq(d, 1, Len(page)) /\ Len(page) <= Len(d)
      /\ Len(page) <= PageSize
  BY <1>1, <1>4
<1> HIDE DEF d
<1>8. items \in Seq(Items) /\ Len(items) = k /\ k \in Nat /\ k <= Len(page)
  BY <1>4
<1>9. items = SubSeq(d, 1, k)
  <2>1. \A i \in 1 .. k : items[i] = d[i]
    BY <1>4, <1>7
  <2>2. SubSeq(d, 1, k) \in Seq(Items) /\ Len(SubSeq(d, 1, k)) = k
        /\ \A i \in 1 .. k : SubSeq(d, 1, k)[i] = d[i]
    BY <1>4, <1>7, <1>8
  <2> HIDE DEF items
  <2> QED
    BY <1>8, <2>1, <2>2
<1>10. SubSeq(items, 1, k) = items
  <2> HIDE DEF items
  <2> QED
    BY <1>8
<1> HIDE DEF items
<1>11. Len(items) <= PageSize /\ IsPrefix(items, d)
  <2>1. Len(items) <= PageSize /\ Len(items) <= Len(d)
    BY <1>4, <1>7, <1>8
  <2>2. SubSeq(items, 1, Len(items)) = SubSeq(d, 1, Len(items))
    BY <1>8, <1>9, <1>10, Zenon
  <2> QED
    BY <2>1, <2>2, Zenon DEF IsPrefix
<1> QED
  BY <1>6, <1>8, <1>11, Zenon DEF items, d

-----------------------------------------------------------------------------
(* Paths, nodes and listings.                                              *)

Nodes == [name : FileNames, folder : BOOLEAN, enabled : BOOLEAN]
FolderNode(name) == [name |-> name, folder |-> TRUE, enabled |-> TRUE]

LEMMA PathParts ==
    ASSUME NEW S, NEW path \in Seq(S), NEW x \in S
    PROVE  /\ Append(path, x) \in Seq(S) /\ Append(path, x) # <<>>
           /\ Len(Append(path, x)) = Len(path) + 1
           /\ Front(Append(path, x)) = path /\ Last(Append(path, x)) = x
    BY DEF Front, Last

LEMMA NodeOf ==
    ASSUME NEW item \in Items
    PROVE  /\ Node(item) \in Nodes /\ Node(item) # Placeholder
           /\ Node(item).name = item.name /\ Node(item).folder = item.folder
           /\ Node(item).enabled <=> (item.folder \/ IsDocx(item.name))
           /\ item.folder => Node(item) = FolderNode(item.name)
<1>1. Node(item) \in Nodes
    BY DEF Node, Nodes, Items
<1>2. Node(item) # Placeholder
    BY <1>1, DriveAssumption DEF Nodes
<1>3. item.folder => Node(item) = FolderNode(item.name)
    BY DEF Node, FolderNode, Items
<1> QED
    BY <1>1, <1>2, <1>3 DEF Node

\* The nodes of a folder are the first items of its page, whole, in order.
Listed(path, nodes) ==
    /\ nodes \in Seq(Nodes)
    /\ Len(nodes) <= PageSize /\ Len(nodes) <= Len(Drive[path])
    /\ \A i \in 1 .. Len(nodes) : nodes[i] = Node(Drive[path][i])

LEMMA ListingOf ==
    ASSUME ReadsPages, NEW path \in DOMAIN Drive,
           NEW answer \in Answers(path) \cup {Response(path)}
    PROVE  LET items == ListFolder(answer)
           IN  /\ items \in Seq(Items)
               /\ Len(items) <= PageSize /\ Len(items) <= Len(Drive[path])
               /\ \A i \in 1 .. Len(items) : items[i] = Drive[path][i]
<1> DEFINE items == ListFolder(answer)
<1>1. items \in Seq(Items) /\ Len(items) <= PageSize /\ IsPrefix(items, Drive[path])
    BY DEF ReadsPages, ReadsPage
<1>2. Drive[path] \in Seq(Items)
    BY DriveAssumption
<1> HIDE DEF items
<1>3. Len(items) <= Len(Drive[path])
    BY <1>1 DEF IsPrefix
<1>4. \A i \in 1 .. Len(items) : items[i] = Drive[path][i]
  <2>1. SubSeq(items, 1, Len(items)) = SubSeq(Drive[path], 1, Len(items))
      BY <1>1 DEF IsPrefix
  <2>2. \A i \in 1 .. Len(items) :
            /\ SubSeq(items, 1, Len(items))[i] = items[i]
            /\ SubSeq(Drive[path], 1, Len(items))[i] = Drive[path][i]
      BY <1>1, <1>2, <1>3
  <2> QED
      BY <2>1, <2>2
<1> QED
    BY <1>1, <1>3, <1>4 DEF items

-----------------------------------------------------------------------------
(* The inductive invariant.                                                *)

\* In a tree, a folder is of the drive, was never expanded or lists its items,
\* and lies under the folder that shows it.
GoodTree(t) ==
    \A f \in DOMAIN t :
        /\ f \in DOMAIN Drive
        /\ (f # <<>> /\ t[f] = <<Placeholder>>) \/ Listed(f, t[f])
        /\ f # <<>> => /\ Front(f) \in DOMAIN t
                       /\ \E i \in 1 .. Len(t[Front(f)]) : t[Front(f)][i] = FolderNode(Last(f))

\* A path that the Open button may open.
Openable(path) ==
    /\ path \in Seq(FileNames) /\ path # <<>> /\ IsDocx(Last(path))
    /\ Front(path) \in DOMAIN Drive
    /\ \E item \in ToSet(Drive[Front(path)]) : item.name = Last(path) /\ ~item.folder

Chosen == openEnabled /\ selected # None => Openable(selected)

Accepted ==
    phase = "accepted" =>
        /\ selected # None /\ openEnabled /\ selectedWebUrl = selected
        /\ \/ files[selectedLocalPath] \in {selectedWebUrl, ErrorPage}
           \/ unwritten /\ files[selectedLocalPath] = Partial

Typed == files = [name \in FileNames |-> files[name]] /\ dialogs \in Nat /\ openEnabled \in BOOLEAN

IInv == Typed /\ GoodTree(tree) /\ Chosen /\ Accepted

-----------------------------------------------------------------------------
(* The tree.                                                               *)

LEMMA RootOnly == GoodTree(EmptyTree)
<1>1. DOMAIN EmptyTree = {<<>>} /\ EmptyTree[<<>>] = <<>>
    BY DEF EmptyTree
<1>2. Listed(<<>>, <<>>)
    BY DriveAssumption DEF Listed
<1> QED
    BY <1>1, <1>2, DriveAssumption DEF GoodTree

\* Nothing is shown below a folder that lists nothing yet.
LEMMA NothingBelow ==
    ASSUME NEW t, GoodTree(t), NEW path \in DOMAIN t, t[path] \in {<<>>, <<Placeholder>>},
           NEW f \in DOMAIN t, f # <<>>
    PROVE  Front(f) # path
<1>1. f \in Seq(FileNames)
    BY DriveAssumption DEF GoodTree
<1>2. FolderNode(Last(f)) # Placeholder
  <2>1. Last(f) \in FileNames
      BY <1>1 DEF Last
  <2>2. FolderNode(Last(f)) \in Nodes
      BY <2>1 DEF FolderNode, Nodes
  <2> QED
      BY <2>2, DriveAssumption DEF Nodes
<1>3. \E i \in 1 .. Len(t[Front(f)]) : t[Front(f)][i] = FolderNode(Last(f))
    BY DEF GoodTree
<1>4. \A i \in 1 .. Len(t[path]) : t[path][i] = Placeholder
    BY Zenon, SMT
<1> QED
    BY <1>2, <1>3, <1>4

\* The items of an answer put under a folder that lists nothing yet: a good tree
\* again, in which every other folder lists what it did.
LEMMA Populated ==
    ASSUME ReadsPages, NEW t, GoodTree(t), NEW path \in DOMAIN t,
           t[path] \in {<<>>, <<Placeholder>>},
           NEW nodes, DOMAIN nodes = DOMAIN t, nodes[path] = <<>>,
           \A f \in DOMAIN t \ {path} : nodes[f] = t[f],
           NEW answer \in Answers(path) \cup {Response(path)}
    PROVE  LET u == PopulateFolder(nodes, path, answer)
           IN  /\ GoodTree(u) /\ DOMAIN t \subseteq DOMAIN u
               /\ \A f \in DOMAIN t \ {path} : u[f] = t[f]
<1> DEFINE items == ListFolder(answer)
           folders == {Append(path, items[i].name) : i \in {j \in DOMAIN items : items[j].folder}}
           added == [i \in DOMAIN items |-> Node(items[i])]
           u == [f \in DOMAIN nodes \cup folders |->
                    IF f = path THEN nodes[path] \o added
                    ELSE IF f \in folders THEN <<Placeholder>> ELSE nodes[f]]
<1>1. u = PopulateFolder(nodes, path, answer)
    BY DEF PopulateFolder
<1>2. /\ path \in DOMAIN Drive /\ path \in Seq(FileNames) /\ Drive[path] \in Seq(Items)
      /\ items \in Seq(Items) /\ DOMAIN items = 1 .. Len(items)
      /\ Len(items) <= PageSize /\ Len(items) <= Len(Drive[path])
      /\ \A i \in 1 .. Len(items) : items[i] = Drive[path][i]
  <2>1. path \in DOMAIN Drive
      BY DEF GoodTree
  <2>2. /\ items \in Seq(Items) /\ Len(items) <= PageSize /\ Len(items) <= Len(Drive[path])
        /\ \A i \in 1 .. Len(items) : items[i] = Drive[path][i]
      BY <2>1, ListingOf
  <2> HIDE DEF items
  <2> QED
      BY <2>1, <2>2, DriveAssumption
<1> HIDE DEF items
<1>3. /\ added \in Seq(Nodes) /\ Len(added) = Len(items)
      /\ \A i \in 1 .. Len(items) : added[i] = Node(items[i])
  <2>1. \A i \in 1 .. Len(items) : Node(items[i]) \in Nodes
      BY <1>2, NodeOf
  <2> QED
      BY <1>2, <2>1
<1> HIDE DEF added
<1>4. nodes[path] \o added = added
    BY <1>3
<1>5. Listed(path, added)
    BY <1>2, <1>3 DEF Listed
<1>6. ASSUME NEW f \in folders
      PROVE  /\ f \in DOMAIN Drive /\ f # <<>> /\ Front(f) = path /\ Len(f) = Len(path) + 1
             /\ \E i \in 1 .. Len(added) : added[i] = FolderNode(Last(f))
  <2>1. PICK i \in 1 .. Len(items) : items[i].folder /\ f = Append(path, items[i].name)
      BY <1>2
  <2>2. items[i] \in Items /\ items[i].name \in FileNames
    <3>1. items[i] \in Items
        BY <1>2
    <3> QED
        BY <3>1 DEF Items
  <2>3. f \in DOMAIN Drive
    <3>1. i \in DOMAIN Drive[path] /\ Drive[path][i] = items[i]
        BY <1>2
    <3> QED
        BY <1>2, <2>1, <3>1, DriveAssumption
  <2>4. added[i] = FolderNode(items[i].name)
      BY <1>3, <2>1, <2>2, NodeOf
  <2>5. /\ f # <<>> /\ Len(f) = Len(path) + 1
        /\ Front(f) = path /\ Last(f) = items[i].name
      BY <1>2, <2>1, <2>2, PathParts
  <2>6. i \in 1 .. Len(added)
      BY <1>3
  <2> QED
      BY <2>3, <2>4, <2>5, <2>6
<1>7. \A f \in DOMAIN t : f \notin folders
    BY <1>6, NothingBelow
<1>8. /\ DOMAIN u = DOMAIN t \cup folders /\ u[path] = added
      /\ \A f \in folders : u[f] = <<Placeholder>>
      /\ \A f \in DOMAIN t \ {path} : u[f] = t[f]
    BY <1>4, <1>7
<1> HIDE DEF u, folders
<1>9. GoodTree(u)
  <2> SUFFICES ASSUME NEW f \in DOMAIN u
               PROVE  /\ f \in DOMAIN Drive
                      /\ (f # <<>> /\ u[f] = <<Placeholder>>) \/ Listed(f, u[f])
                      /\ f # <<>> => /\ Front(f) \in DOMAIN u
                                     /\ \E i \in 1 .. Len(u[Front(f)]) :
                                            u[Front(f)][i] = FolderNode(Last(f))
      BY DEF GoodTree
  <2>1. CASE f \in folders
      BY <1>6, <1>8, <2>1
  <2>2. CASE f \in DOMAIN t
    <3>1. f \in DOMAIN Drive /\ ((f # <<>> /\ u[f] = <<Placeholder>>) \/ Listed(f, u[f]))
        BY <1>5, <1>8, <2>2 DEF GoodTree
    <3>2. ASSUME f # <<>>
          PROVE  /\ Front(f) \in DOMAIN u
                 /\ \E i \in 1 .. Len(u[Front(f)]) : u[Front(f)][i] = FolderNode(Last(f))
      <4>1. Front(f) \in DOMAIN t \ {path}
          BY <2>2, <3>2, NothingBelow DEF GoodTree
      <4> QED
          BY <1>8, <2>2, <3>2, <4>1 DEF GoodTree
    <3> QED
        BY <3>1, <3>2
  <2> QED
      BY <1>8, <2>1, <2>2
<1> QED
    BY <1>1, <1>8, <1>9

-----------------------------------------------------------------------------
(* The steps.                                                              *)

LEMMA ConstructKeeps ==
    ASSUME ReadsPages, Typed, Construct
    PROVE  IInv'
<1>1. PICK answer \in Answers(<<>>) \cup {Response(<<>>)} :
          tree' = PopulateFolder(EmptyTree, <<>>, answer)
    BY DEF Construct
<1>2. GoodTree(tree')
  <2>1. DOMAIN EmptyTree = {<<>>} /\ EmptyTree[<<>>] = <<>>
      BY DEF EmptyTree
  <2> QED
      BY <1>1, <2>1, RootOnly, Populated
<1>3. dialogs' \in Nat
    BY DEF Typed, Construct
<1>4. Typed'
    BY <1>3 DEF Typed, Construct
<1>5. Chosen' /\ Accepted'
    BY DEF Construct, Chosen, Accepted
<1> QED
    BY <1>2, <1>3, <1>4, <1>5 DEF IInv

\* Expanding a folder: only a folder that lists nothing yet gets its items.
LEMMA Expanded ==
    ASSUME ReadsPages, IInv, NEW folder \in DOMAIN tree, OnItemExpanded(folder)
    PROVE  GoodTree(tree')
<1>1. CASE UNCHANGED tree
    BY <1>1 DEF IInv
<1>2. CASE NeverExpanded(folder)
  <2> DEFINE nodes == [tree EXCEPT ![folder] = Tail(@)]
  <2>1. PICK answer \in Answers(folder) \cup {Response(folder)} :
            tree' = PopulateFolder(nodes, folder, answer)
      BY <1>2 DEF OnItemExpanded
  <2>2. tree[folder] = <<Placeholder>> /\ Tail(tree[folder]) = <<>>
      BY <1>2 DEF NeverExpanded
  <2>3. /\ DOMAIN nodes = DOMAIN tree /\ nodes[folder] = <<>>
        /\ \A f \in DOMAIN tree \ {folder} : nodes[f] = tree[f]
      BY <2>2
  <2> HIDE DEF nodes
  <2> QED
      BY <2>1, <2>2, <2>3, Populated DEF IInv
<1> QED
    BY <1>1, <1>2 DEF OnItemExpanded

\* What can be selected and opened is a document of the folder that lists it.
LEMMA SelectKeeps ==
    ASSUME IInv, NEW folder \in DOMAIN tree, NEW i \in DOMAIN tree[folder], Select(folder, i)
    PROVE  IInv'
<1> DEFINE node == tree[folder][i]
<1>1. node # Placeholder
    BY DEF Select
<1>2. Listed(folder, tree[folder]) /\ folder \in DOMAIN Drive
  <2>1. tree[folder] # <<Placeholder>>
      BY <1>1
  <2> QED
      BY <2>1 DEF IInv, GoodTree
<1>3. /\ folder \in Seq(FileNames) /\ i \in DOMAIN Drive[folder]
      /\ Drive[folder][i] \in Items /\ node = Node(Drive[folder][i])
  <2>1. folder \in Seq(FileNames) /\ Drive[folder] \in Seq(Items)
      BY <1>2, DriveAssumption, Zenon
  <2>2. /\ tree[folder] \in Seq(Nodes) /\ Len(tree[folder]) <= Len(Drive[folder])
        /\ \A k \in 1 .. Len(tree[folder]) : tree[folder][k] = Node(Drive[folder][k])
      BY <1>2, Zenon DEF Listed
  <2>3. i \in 1 .. Len(tree[folder])
      BY <2>2
  <2>4. i \in 1 .. Len(Drive[folder]) /\ DOMAIN Drive[folder] = 1 .. Len(Drive[folder])
    <3>1. Len(tree[folder]) \in Nat /\ Len(Drive[folder]) \in Nat
        BY <2>1, <2>2
    <3>2. DOMAIN Drive[folder] = 1 .. Len(Drive[folder])
        BY <2>1
    <3> QED
        BY <2>2, <2>3, <3>1, <3>2
  <2>5. Drive[folder][i] \in Items
      BY <2>1, <2>4
  <2>6. node = Node(Drive[folder][i])
      BY <2>2, <2>3, Zenon
  <2> QED
      BY <2>1, <2>4, <2>5, <2>6, Zenon
<1> DEFINE item == Drive[folder][i]
<1>4. /\ node.name = item.name /\ node.folder = item.folder /\ item.name \in FileNames
      /\ node.enabled <=> (item.folder \/ IsDocx(item.name))
    BY <1>3, NodeOf DEF Items
<1>5. /\ selected' = Append(folder, node.name) /\ openEnabled' = ~node.folder /\ node.enabled
      /\ UNCHANGED <<tree, phase, files, unwritten, dialogs>> /\ phase = "browsing"
    BY DEF Select
<1>6. item \in ToSet(Drive[folder]) /\ item.folder \in BOOLEAN
    BY <1>3 DEF ToSet, Items
<1> HIDE DEF node, item
<1>7. Chosen'
  <2> SUFFICES ASSUME openEnabled' PROVE Openable(selected')
      BY DEF Chosen, Openable
  <2>1. ~item.folder /\ IsDocx(item.name)
      BY <1>4, <1>5
  <2>2. /\ selected' \in Seq(FileNames) /\ selected' # <<>>
        /\ Front(selected') = folder /\ Last(selected') = item.name
      BY <1>3, <1>4, <1>5, PathParts
  <2> QED
      BY <1>2, <1>6, <2>1, <2>2 DEF Openable
<1>8. Typed' /\ GoodTree(tree') /\ Accepted'
    BY <1>4, <1>5, <1>6 DEF IInv, Typed, Accepted
<1> QED
    BY <1>7, <1>8 DEF IInv

LEMMA OpenKeeps ==
    ASSUME IInv, OnOpenClicked
    PROVE  IInv'
<1>1. /\ Openable(selected) /\ selected # None /\ openEnabled
      /\ UNCHANGED <<tree, selected, openEnabled, dialogs>>
    BY DEF OnOpenClicked, IInv, Chosen
<1>2. PICK outcome \in Outcomes(selected) :
          /\ DownloadToTemp(selected, outcome)
          /\ IF Downloaded(outcome) THEN selectedWebUrl' = selected /\ phase' = "accepted"
                                    ELSE UNCHANGED <<selectedWebUrl, phase>>
    BY DEF OnOpenClicked
<1>3. TempPath(selected) \in FileNames
    BY <1>1 DEF TempPath, Openable, Last
<1>4. /\ files' = [files EXCEPT ![TempPath(selected)] = outcome.content]
      /\ selectedLocalPath' = TempPath(selected)
    BY <1>2 DEF DownloadToTemp
<1>5. Typed'
    BY <1>1, <1>3, <1>4 DEF IInv, Typed
<1>6. files'[selectedLocalPath'] = outcome.content
    BY <1>3, <1>4 DEF IInv, Typed
<1>7. CASE Downloaded(outcome)
  <2>1. \/ outcome.content \in {selected, ErrorPage}
        \/ unwritten' /\ outcome.content = Partial
      BY <1>2, <1>7 DEF Downloaded, DownloadToTemp, Outcomes, Outcome
  <2>2. Accepted'
      BY <1>1, <1>2, <1>6, <1>7, <2>1 DEF Accepted
  <2> QED
      BY <1>1, <1>5, <2>2 DEF IInv, Chosen
<1>8. CASE ~Downloaded(outcome)
  <2>1. phase' # "accepted"
      BY <1>2, <1>8 DEF OnOpenClicked
  <2> QED
      BY <1>1, <1>5, <2>1 DEF IInv, Chosen, Accepted
<1> QED
    BY <1>7, <1>8

LEMMA Inductive == ReadsPages => (IInv /\ [Next]_vars => IInv')
<1> SUFFICES ASSUME ReadsPages, IInv, [Next]_vars PROVE IInv'
    OBVIOUS
<1>1. ASSUME NextDialog PROVE IInv'
    BY <1>1, ConstructKeeps DEF NextDialog, IInv
<1>2. ASSUME Cancel PROVE IInv'
    BY <1>2 DEF Cancel, IInv, Typed, Chosen, Accepted
<1>3. ASSUME OnOpenClicked PROVE IInv'
    BY <1>3, OpenKeeps
<1>4. ASSUME NEW folder \in DOMAIN tree, OnItemExpanded(folder) PROVE IInv'
  <2>1. GoodTree(tree')
      BY <1>4, Expanded
  <2> QED
      BY <1>4, <2>1 DEF OnItemExpanded, IInv, Typed, Chosen, Accepted
<1>5. ASSUME NEW folder \in DOMAIN tree, NEW i \in DOMAIN tree[folder], Select(folder, i)
      PROVE  IInv'
    BY <1>5, SelectKeeps
<1>6. ASSUME UNCHANGED vars PROVE IInv'
    BY <1>6 DEF vars, dialogVars, IInv, Typed, Chosen, Accepted
<1> QED
    BY <1>1, <1>2, <1>3, <1>4, <1>5, <1>6 DEF Next

LEMMA Initially == Init => IInv
<1> SUFFICES ASSUME Init PROVE IInv
    OBVIOUS
<1>1. GoodTree(tree)
    BY RootOnly DEF Init
<1> QED
    BY <1>1 DEF Init, IInv, Typed, Chosen, Accepted

-----------------------------------------------------------------------------
(* The theorems.                                                           *)

\* Whatever was expanded, cut off, refused and expanded again, each folder in the
\* tree shows its placeholder or the first items of its page.
THEOREM TreeIsOfTheDrive == NamesFit => (Spec => []TreeShowsDrive)
<1> SUFFICES ASSUME NamesFit PROVE Spec => []TreeShowsDrive
    OBVIOUS
<1>0. ReadsPages
    BY AnswersRead
<1>1. Init => IInv
    BY Initially
<1>2. IInv /\ [Next]_vars => IInv'
    BY <1>0, Inductive
<1>3. IInv => TreeShowsDrive
  <2> SUFFICES ASSUME IInv, NEW f \in DOMAIN tree
               PROVE  /\ f \in DOMAIN Drive
                      /\ \/ f # <<>> /\ tree[f] = <<Placeholder>>
                         \/ /\ Len(tree[f]) <= PageSize
                            /\ IsPrefix(tree[f], [i \in DOMAIN Drive[f] |-> Node(Drive[f][i])])
                      /\ f # <<>> =>
                            \E i \in DOMAIN tree[Front(f)] :
                                tree[Front(f)][i] =
                                    [name |-> Last(f), folder |-> TRUE, enabled |-> TRUE]
      BY DEF TreeShowsDrive
  <2>1. f \in DOMAIN Drive /\ Drive[f] \in Seq(Items)
      BY DriveAssumption DEF IInv, GoodTree
  <2>2. ASSUME Listed(f, tree[f])
        PROVE  IsPrefix(tree[f], [i \in DOMAIN Drive[f] |-> Node(Drive[f][i])])
    <3> DEFINE d == [i \in DOMAIN Drive[f] |-> Node(Drive[f][i])]
               n == Len(tree[f])
    <3>1. d \in Seq(Nodes) /\ Len(d) = Len(Drive[f])
          /\ \A i \in 1 .. Len(Drive[f]) : d[i] = Node(Drive[f][i])
      <4>1. \A i \in 1 .. Len(Drive[f]) : Node(Drive[f][i]) \in Nodes
          BY <2>1, NodeOf
      <4> QED
          BY <2>1, <4>1
    <3> HIDE DEF d
    <3>2. n \in Nat /\ n <= Len(d) /\ tree[f] \in Seq(Nodes)
          /\ \A i \in 1 .. n : tree[f][i] = d[i]
        BY <2>1, <2>2, <3>1 DEF Listed
    <3>3. SubSeq(tree[f], 1, n) = SubSeq(d, 1, n)
        BY <3>1, <3>2
    <3> QED
        BY <3>2, <3>3 DEF IsPrefix, d
  <2>3. f # <<>> => \E i \in DOMAIN tree[Front(f)] : tree[Front(f)][i] = FolderNode(Last(f))
    <3> SUFFICES ASSUME f # <<>>
                 PROVE  \E i \in DOMAIN tree[Front(f)] : tree[Front(f)][i] = FolderNode(Last(f))
        OBVIOUS
    <3>1. Front(f) \in DOMAIN tree
          /\ \E i \in 1 .. Len(tree[Front(f)]) : tree[Front(f)][i] = FolderNode(Last(f))
        BY DEF IInv, GoodTree
    <3>2. tree[Front(f)] = <<Placeholder>> \/ tree[Front(f)] \in Seq(Nodes)
        BY <3>1 DEF IInv, GoodTree, Listed
    <3>3. DOMAIN tree[Front(f)] = 1 .. Len(tree[Front(f)])
        BY <3>2
    <3> QED
        BY <3>1, <3>3
  <2> QED
      BY <2>1, <2>2, <2>3 DEF IInv, GoodTree, Listed, FolderNode
<1> QED
    BY <1>1, <1>2, <1>3, PTL DEF Spec

\* Whatever the tree shows, no answer for it is misread: cut off anywhere, it gives
\* the first items of the folder's page, each as it is.
THEOREM NothingIsMisread == NamesFit => (Spec => []ShownPagesRead)
<1> SUFFICES ASSUME NamesFit PROVE Spec => []ShownPagesRead
    OBVIOUS
<1>0. ReadsPages
    BY AnswersRead
<1>1. Init => IInv
    BY Initially
<1>2. IInv /\ [Next]_vars => IInv'
    BY <1>0, Inductive
<1>3. IInv => ShownPagesRead
    BY <1>0 DEF IInv, GoodTree, ShownPagesRead, ReadsPages
<1> QED
    BY <1>1, <1>2, <1>3, PTL DEF Spec

\* An accepted dialog names the document that was selected, and its file holds it,
\* or what the server said in its place, or, if a write failed, a part of either.
THEOREM AcceptedWasChosen == NamesFit => (Spec => []AcceptedIsChosen)
<1> SUFFICES ASSUME NamesFit PROVE Spec => []AcceptedIsChosen
    OBVIOUS
<1>0. ReadsPages
    BY AnswersRead
<1>1. Init => IInv
    BY Initially
<1>2. IInv /\ [Next]_vars => IInv'
    BY <1>0, Inductive
<1>3. IInv => AcceptedIsChosen
  <2> SUFFICES ASSUME IInv, phase = "accepted" PROVE AcceptedIsChosen
      BY DEF AcceptedIsChosen
  <2>1. Openable(selected) /\ selectedWebUrl = selected
      BY DEF IInv, Chosen, Accepted
  <2>2. files[selectedLocalPath] \in {selectedWebUrl, ErrorPage} \cup IF unwritten THEN {Partial} ELSE {}
      BY DEF IInv, Accepted
  <2> QED
      BY <2>1, <2>2 DEF Openable, AcceptedIsChosen
<1> QED
    BY <1>1, <1>2, <1>3, PTL DEF Spec

=============================================================================
