---------------------------- MODULE SequenceLemmas ---------------------------
(***************************************************************************)
(* What the proofs about searches and texts need: induction over positions,*)
(* stated for sets, searches that go on behind what they found, and        *)
(* FlattenSeq.                                                             *)
(***************************************************************************)
EXTENDS Integers, SequencesExt, FiniteSetTheorems, SequenceTheorems,
        WellFoundedInduction, TLAPS

-----------------------------------------------------------------------------
(* Concatenation.                                                          *)

Regroups(x, y, z) == (x \o y) \o z = x \o (y \o z)

LEMMA Regrouped ==
    ASSUME NEW S, NEW x \in Seq(S), NEW y \in Seq(S), NEW z \in Seq(S)
    PROVE  Regroups(x, y, z)
BY ConcatAssociative DEF Regroups

-----------------------------------------------------------------------------
(* Induction.                                                              *)

LEMMA Induction ==
    ASSUME NEW S, 0 \in S, \A n \in Nat : n \in S => n + 1 \in S
    PROVE  \A n \in Nat : n \in S
<1> DEFINE T == Nat \ S
           R == OpToRel(<, Nat)
<1> SUFFICES ASSUME T # {} PROVE FALSE
  OBVIOUS
<1>1. \E m \in T : \A k \in T : ~(<<k, m>> \in R)
  <2> HIDE DEF T, R
  <2>1. IsWellFoundedOn(R, Nat)
    BY NatLessThanWellFounded DEF R
  <2>2. T \subseteq Nat
    BY DEF T
  <2> QED
    BY <2>1, <2>2, WFMin
<1>2. PICK m \in T : \A k \in T : ~(<<k, m>> \in R)
  BY <1>1
<1>3. \A x, y \in Nat : <<x, y>> \in R <=> x < y
  BY DEF OpToRel
<1>4. m # 0 /\ m \in Nat
  OBVIOUS
<1>5. m - 1 \in Nat /\ m - 1 < m /\ (m - 1) + 1 = m
  BY <1>4
<1>6. m - 1 \notin T
  BY <1>2, <1>3, <1>4, <1>5
<1> QED
  BY <1>5, <1>6

\* From the end of a sequence to its beginning.
LEMMA Backwards ==
    ASSUME NEW N \in Nat, NEW S,
           \A p \in 1 .. N + 1 : (\A q \in p + 1 .. N + 1 : q \in S) => p \in S
    PROVE  \A p \in 1 .. N + 1 : p \in S
<1> DEFINE T == {k \in Nat : \A p \in 1 .. N + 1 : p + k > N + 1 => p \in S}
<1>1. 0 \in T
  OBVIOUS
<1>2. ASSUME NEW k \in Nat, k \in T PROVE k + 1 \in T
  <2> SUFFICES ASSUME NEW p \in 1 .. N + 1, p + (k + 1) > N + 1 PROVE p \in S
    OBVIOUS
  <2>1. \A q \in p + 1 .. N + 1 : q \in 1 .. N + 1 /\ q + k > N + 1
    OBVIOUS
  <2>2. \A q \in p + 1 .. N + 1 : q \in S
    BY <1>2, <2>1
  <2> QED
    BY <2>2
<1>3. \A k \in Nat : k \in T
  <2> HIDE DEF T
  <2> QED
    BY <1>1, <1>2, Induction
<1>4. N + 1 \in T
  BY <1>3
<1> QED
  BY <1>4

\* A search from a position on: nothing where it stops, else what it finds and
\* the search from the next position. N is the last position it finds anything at.
IsSearch(f, stop, head, next) ==
    f = [p \in Nat |-> IF stop[p] THEN <<>> ELSE head[p] \o f[next[p]]]
GoesOn(N, stop, next) ==
    \A p \in Nat : ~stop[p] => p <= N /\ next[p] \in Nat /\ next[p] > p

LEMMA SearchDefined ==
    ASSUME NEW N \in Nat, NEW stop, NEW head, NEW next, GoesOn(N, stop, next)
    PROVE  \E f : IsSearch(f, stop, head, next)
<1> USE DEF IsSearch, GoesOn
<1> DEFINE D(k) == {p \in Nat : p + k > N}
           Is(g, k) == g = [p \in D(k) |-> IF stop[p] THEN <<>> ELSE head[p] \o g[next[p]]]
           T == {k \in Nat : \E g : Is(g, k)}
<1>1. 0 \in T
  <2> DEFINE g == [p \in D(0) |-> <<>>]
  <2>1. \A p \in D(0) : stop[p]
    OBVIOUS
  <2>2. Is(g, 0)
    BY <2>1
  <2> QED
    BY <2>2
<1>2. ASSUME NEW k \in Nat, k \in T PROVE k + 1 \in T
  <2>1. PICK g : Is(g, k)
    BY <1>2
  <2> DEFINE h == [p \in D(k + 1) |-> IF stop[p] THEN <<>> ELSE head[p] \o g[next[p]]]
  <2>2. D(k) \subseteq D(k + 1)
    OBVIOUS
  <2>3. \A p \in D(k) : h[p] = g[p]
    <3>1. \A p \in D(k) : g[p] = IF stop[p] THEN <<>> ELSE head[p] \o g[next[p]]
      BY <2>1, Zenon
    <3>2. \A p \in D(k) : h[p] = IF stop[p] THEN <<>> ELSE head[p] \o g[next[p]]
      BY <2>2, Zenon
    <3> QED
      BY <3>1, <3>2, Zenon
  <2>4. \A p \in D(k + 1) : ~stop[p] => next[p] \in D(k)
    OBVIOUS
  <2>5. \A p \in D(k + 1) : ~stop[p] => g[next[p]] = h[next[p]]
    BY <2>3, <2>4, Zenon
  <2>6. Is(h, k + 1)
    <3>1. \A p \in D(k + 1) : (IF stop[p] THEN <<>> ELSE head[p] \o g[next[p]])
                               = IF stop[p] THEN <<>> ELSE head[p] \o h[next[p]]
      BY <2>5, Zenon
    <3>2. h = [p \in D(k + 1) |-> IF stop[p] THEN <<>> ELSE head[p] \o g[next[p]]]
      OBVIOUS
    <3> HIDE DEF h
    <3> QED
      BY <3>1, <3>2, Zenon
  <2>7. k + 1 \in Nat
    OBVIOUS
  <2> QED
    BY <2>6, <2>7, Zenon
<1>3. N + 1 \in T
  <2> HIDE DEF T
  <2> QED
    BY <1>1, <1>2, Induction
<1>4. D(N + 1) = Nat
  OBVIOUS
<1>5. PICK g : Is(g, N + 1)
  BY <1>3
<1> QED
  BY <1>4, <1>5, Zenon

\* A sequence is empty or what was before its last element, and that element.
LEMMA LastOff ==
    ASSUME NEW T, NEW k \in Nat, NEW s \in Seq(T), Len(s) = k + 1
    PROVE  \E r \in Seq(T), e \in T : s = Append(r, e) /\ Len(r) = k
<1> DEFINE r == SubSeq(s, 1, k)
<1>1. r \in Seq(T) /\ Len(r) = k /\ s[k + 1] \in T
  OBVIOUS
<1>2. s = Append(r, s[k + 1])
  OBVIOUS
<1> QED
  BY <1>1, <1>2, Zenon

\* What holds of <<>> and of each sequence with one more element holds of all.
LEMMA SequenceInduction ==
    ASSUME NEW T, NEW S, <<>> \in S,
           \A r \in Seq(T), e \in T : r \in S => Append(r, e) \in S
    PROVE  \A s \in Seq(T) : s \in S
<1> DEFINE L == {k \in Nat : \A s \in Seq(T) : Len(s) = k => s \in S}
<1>1. 0 \in L
  OBVIOUS
<1>2. ASSUME NEW k \in Nat, k \in L PROVE k + 1 \in L
  <2> SUFFICES ASSUME NEW s \in Seq(T), Len(s) = k + 1 PROVE s \in S
    OBVIOUS
  <2>1. PICK r \in Seq(T), e \in T : s = Append(r, e) /\ Len(r) = k
    BY LastOff
  <2> QED
    BY <1>2, <2>1
<1>3. \A k \in Nat : k \in L
  <2> HIDE DEF L
  <2> QED
    BY <1>1, <1>2, Induction
<1> QED
  BY <1>3

-----------------------------------------------------------------------------
(* FlattenSeq.                                                             *)

\* The sums of the beginnings of ss.
IsFlatten(f, n, ss) ==
    f = [i \in 1 .. n |-> IF i = 1 THEN ss[i] ELSE f[i - 1] \o ss[i]]

LEMMA FlattenDefined ==
    ASSUME NEW n \in Nat, NEW ss
    PROVE  \E f : IsFlatten(f, n, ss)
<1> DEFINE T == {k \in Nat : \E f : IsFlatten(f, k, ss)}
<1>1. 0 \in T
  <2>1. IsFlatten([i \in {} |-> ss], 0, ss)
    BY DEF IsFlatten
  <2> QED
    BY <2>1
<1>2. ASSUME NEW k \in Nat, k \in T PROVE k + 1 \in T
  <2>1. PICK f : IsFlatten(f, k, ss)
    BY <1>2
  <2> DEFINE g == [i \in 1 .. k + 1 |-> IF i = 1 THEN ss[i] ELSE f[i - 1] \o ss[i]]
  <2>2. \A i \in 1 .. k : i \in 1 .. k + 1
    OBVIOUS
  <2>3. \A i \in 1 .. k : f[i] = IF i = 1 THEN ss[i] ELSE f[i - 1] \o ss[i]
    BY <2>1, Zenon DEF IsFlatten
  <2>4. \A i \in 1 .. k : g[i] = f[i]
    BY <2>2, <2>3, Zenon
  <2>5. \A i \in 1 .. k + 1 : i # 1 => i - 1 \in 1 .. k
    OBVIOUS
  <2>6. \A i \in 1 .. k + 1 : (IF i = 1 THEN ss[i] ELSE f[i - 1] \o ss[i])
                              = IF i = 1 THEN ss[i] ELSE g[i - 1] \o ss[i]
    BY <2>4, <2>5, Zenon
  <2>7. g = [i \in 1 .. k + 1 |-> IF i = 1 THEN ss[i] ELSE f[i - 1] \o ss[i]]
    OBVIOUS
  <2> HIDE DEF g
  <2>8. IsFlatten(g, k + 1, ss)
    BY <2>6, <2>7, Zenon DEF IsFlatten
  <2>9. k + 1 \in Nat
    OBVIOUS
  <2> QED
    BY <2>8, <2>9, Zenon
<1> HIDE DEF T
<1>3. n \in T
  BY <1>1, <1>2, Induction
<1> QED
  BY <1>3 DEF T

LEMMA FlattenIs ==
    ASSUME NEW n \in Nat \ {0}, NEW ss, Len(ss) = n
    PROVE  \E f : IsFlatten(f, n, ss) /\ FlattenSeq(ss) = f[n]
<1> DEFINE f == CHOOSE g : IsFlatten(g, n, ss)
<1>1. IsFlatten(f, n, ss)
  BY FlattenDefined, Zenon
<1>2. FlattenSeq(ss) = f[n]
  <2>1. n # 0
    OBVIOUS
  <2> QED
    BY <2>1, Zenon DEF FlattenSeq, IsFlatten
<1> QED
  BY <1>1, <1>2, Zenon

\* Two functions that agree on the first n positions.
Agree(n, f, g) == \A i \in 1 .. n : f[i] = g[i]

\* Sequences that agree up to n are flattened alike up to n.
LEMMA FlattenAgree ==
    ASSUME NEW n \in Nat, NEW m \in Nat, n <= m, NEW ss, NEW tt, Agree(n, ss, tt),
           NEW f, NEW g, IsFlatten(f, n, ss), IsFlatten(g, m, tt)
    PROVE  Agree(n, f, g)
<1> DEFINE S == {i \in Nat : i \in 1 .. n => f[i] = g[i]}
<1>1. \A i \in 1 .. n : f[i] = IF i = 1 THEN ss[i] ELSE f[i - 1] \o ss[i]
  BY Zenon DEF IsFlatten
<1>2. \A i \in 1 .. m : g[i] = IF i = 1 THEN tt[i] ELSE g[i - 1] \o tt[i]
  BY Zenon DEF IsFlatten
<1>3. 0 \in S
  OBVIOUS
<1>4. ASSUME NEW k \in Nat, k \in S PROVE k + 1 \in S
  <2> SUFFICES ASSUME k + 1 \in 1 .. n PROVE f[k + 1] = g[k + 1]
    OBVIOUS
  <2>1. k + 1 \in 1 .. m /\ (k + 1 # 1 => k \in 1 .. n) /\ (k + 1) - 1 = k
    OBVIOUS
  <2>2. k + 1 # 1 => f[k] = g[k]
    BY <1>4, <2>1
  <2>3. f[k + 1] = IF k + 1 = 1 THEN ss[k + 1] ELSE f[k] \o ss[k + 1]
    BY <1>1, <2>1
  <2>4. g[k + 1] = IF k + 1 = 1 THEN tt[k + 1] ELSE g[k] \o tt[k + 1]
    BY <1>2, <2>1
  <2>5. ss[k + 1] = tt[k + 1]
    BY Zenon DEF Agree
  <2> QED
    BY <2>2, <2>3, <2>4, <2>5, Zenon
<1>5. \A i \in Nat : i \in S
  <2> HIDE DEF S
  <2> QED
    BY <1>3, <1>4, Induction
<1> QED
  BY <1>5 DEF Agree

LEMMA FlattenEmpty == FlattenSeq(<<>>) = <<>>
BY DEF FlattenSeq

LEMMA FlattenLast ==
    ASSUME NEW S, NEW ss \in Seq(Seq(S)), NEW e \in Seq(S)
    PROVE  FlattenSeq(Append(ss, e)) = FlattenSeq(ss) \o e
<1> DEFINE n == Len(ss)
           tt == Append(ss, e)
<1>1. n \in Nat /\ n + 1 \in Nat \ {0} /\ n <= n + 1 /\ n + 1 \in 1 .. n + 1 /\ n + 1 - 1 = n
  OBVIOUS
<1>2. Len(tt) = n + 1 /\ tt[n + 1] = e /\ \A i \in 1 .. n : ss[i] = tt[i]
  OBVIOUS
<1> HIDE DEF n, tt
<1>3. PICK g : IsFlatten(g, n + 1, tt) /\ FlattenSeq(tt) = g[n + 1]
  BY <1>1, <1>2, FlattenIs, Zenon
<1>4. g[n + 1] = IF n + 1 = 1 THEN tt[n + 1] ELSE g[n] \o tt[n + 1]
  <2>1. \A i \in 1 .. n + 1 : g[i] = IF i = 1 THEN tt[i] ELSE g[i - 1] \o tt[i]
    BY <1>3, Zenon DEF IsFlatten
  <2> QED
    BY <1>1, <2>1
<1>5. CASE n = 0
  <2>1. ss = <<>>
    BY <1>5 DEF n
  <2>2. g[n + 1] = e
    BY <1>2, <1>4, <1>5
  <2> QED
    BY <1>3, <2>1, <2>2, FlattenEmpty DEF tt
<1>6. CASE n # 0
  <2>1. n \in Nat \ {0} /\ n + 1 # 1 /\ n \in 1 .. n
    BY <1>1, <1>6
  <2>2. PICK f : IsFlatten(f, n, ss) /\ FlattenSeq(ss) = f[n]
    BY <2>1, FlattenIs, Zenon DEF n
  <2>3. \A i \in 1 .. n : f[i] = g[i]
    <3> DEFINE m == n + 1
    <3>1. n \in Nat /\ m \in Nat /\ n <= m
      BY <1>1
    <3>2. Agree(n, ss, tt)
      BY <1>2, Zenon DEF Agree
    <3>3. IsFlatten(f, n, ss) /\ IsFlatten(g, m, tt)
      BY <1>3, <2>2
    <3> HIDE DEF m
    <3>4. Agree(n, f, g)
      BY <3>1, <3>2, <3>3, FlattenAgree, Zenon
    <3> QED
      BY <3>4, Zenon DEF Agree
  <2> QED
    BY <1>1, <1>2, <1>3, <1>4, <2>1, <2>2, <2>3, Zenon DEF tt
<1> QED
  BY <1>5, <1>6

LEMMA FlattenTyped ==
    ASSUME NEW S, NEW ss \in Seq(Seq(S))
    PROVE  FlattenSeq(ss) \in Seq(S)
<1> DEFINE T == {r \in Seq(Seq(S)) : FlattenSeq(r) \in Seq(S)}
<1>1. <<>> \in T
  <2>1. <<>> \in Seq(Seq(S)) /\ <<>> \in Seq(S)
    OBVIOUS
  <2> QED
    BY <2>1, FlattenEmpty
<1>2. ASSUME NEW r \in Seq(Seq(S)), NEW e \in Seq(S), r \in T PROVE Append(r, e) \in T
  <2>1. Append(r, e) \in Seq(Seq(S)) /\ FlattenSeq(r) \in Seq(S)
    BY <1>2
  <2>2. FlattenSeq(Append(r, e)) = FlattenSeq(r) \o e
    BY FlattenLast
  <2>3. FlattenSeq(r) \o e \in Seq(S)
    BY <2>1
  <2> QED
    BY <2>1, <2>2, <2>3
<1>3. \A r \in Seq(Seq(S)) : r \in T
  <2> HIDE DEF T
  <2> QED
    BY <1>1, <1>2, SequenceInduction
<1> QED
  BY <1>3

LEMMA FlattenOne ==
    ASSUME NEW S, NEW e \in Seq(S)
    PROVE  FlattenSeq(<<e>>) = e
<1>1. <<>> \in Seq(Seq(S)) /\ <<e>> = Append(<<>>, e)
  OBVIOUS
<1>2. FlattenSeq(Append(<<>>, e)) = <<>> \o e
  BY <1>1, FlattenLast, FlattenEmpty
<1> QED
  BY <1>1, <1>2

LEMMA FlattenJoined ==
    ASSUME NEW S, NEW ss \in Seq(Seq(S)), NEW tt \in Seq(Seq(S))
    PROVE  FlattenSeq(ss \o tt) = FlattenSeq(ss) \o FlattenSeq(tt)
<1> DEFINE T == {r \in Seq(Seq(S)) : FlattenSeq(ss \o r) = FlattenSeq(ss) \o FlattenSeq(r)}
<1>1. <<>> \in T
  <2>1. ss \o <<>> = ss /\ FlattenSeq(ss) \in Seq(S)
    BY FlattenTyped
  <2>2. FlattenSeq(ss) \o <<>> = FlattenSeq(ss)
    BY <2>1
  <2> QED
    BY <2>1, <2>2, FlattenEmpty
<1>2. ASSUME NEW r \in Seq(Seq(S)), NEW e \in Seq(S), r \in T PROVE Append(r, e) \in T
  <2>1. ss \o Append(r, e) = Append(ss \o r, e) /\ ss \o r \in Seq(Seq(S))
    OBVIOUS
  <2>2. FlattenSeq(Append(ss \o r, e)) = FlattenSeq(ss \o r) \o e
    BY <2>1, FlattenLast
  <2>3. FlattenSeq(Append(r, e)) = FlattenSeq(r) \o e
    BY FlattenLast
  <2>4. FlattenSeq(ss) \in Seq(S) /\ FlattenSeq(r) \in Seq(S)
    BY FlattenTyped
  <2>5. (FlattenSeq(ss) \o FlattenSeq(r)) \o e = FlattenSeq(ss) \o (FlattenSeq(r) \o e)
    <3>1. Regroups(FlattenSeq(ss), FlattenSeq(r), e)
      BY <2>4, Regrouped, Zenon
    <3> QED
      BY <3>1, Zenon DEF Regroups
  <2>6. Append(r, e) \in Seq(Seq(S))
    OBVIOUS
  <2> QED
    BY <1>2, <2>1, <2>2, <2>3, <2>5, <2>6, Zenon
<1>3. \A r \in Seq(Seq(S)) : r \in T
  <2> HIDE DEF T
  <2> QED
    BY <1>1, <1>2, SequenceInduction
<1> QED
  BY <1>3

\* Of sequences of one element, and of nothing.
LEMMA FlattenSingles ==
    ASSUME NEW S, NEW s \in Seq(S)
    PROVE  FlattenSeq([i \in DOMAIN s |-> <<s[i]>>]) = s
<1> DEFINE of(r) == [i \in DOMAIN r |-> <<r[i]>>]
           T == {r \in Seq(S) : FlattenSeq(of(r)) = r}
<1>1. <<>> \in T
  <2>1. of(<<>>) = <<>>
    OBVIOUS
  <2> QED
    BY <2>1, FlattenEmpty
<1>2. ASSUME NEW r \in Seq(S), NEW e \in S, r \in T PROVE Append(r, e) \in T
  <2>1. of(r) \in Seq(Seq(S)) /\ <<e>> \in Seq(S)
    <3>1. Len(r) \in Nat /\ DOMAIN r = 1 .. Len(r) /\ \A i \in DOMAIN r : r[i] \in S
      OBVIOUS
    <3>2. \A x \in S : <<x>> \in Seq(S)
      OBVIOUS
    <3>3. \A i \in 1 .. Len(r) : <<r[i]>> \in Seq(S)
      BY <3>1, <3>2
    <3>4. [i \in 1 .. Len(r) |-> <<r[i]>>] \in Seq(Seq(S))
      BY <3>1, <3>3
    <3> QED
      BY <3>1, <3>2, <3>4
  <2>2. of(Append(r, e)) = Append(of(r), <<e>>)
    OBVIOUS
  <2>3. FlattenSeq(Append(of(r), <<e>>)) = FlattenSeq(of(r)) \o <<e>>
    BY <2>1, FlattenLast
  <2>4. Append(r, e) \in Seq(S) /\ r \o <<e>> = Append(r, e) /\ FlattenSeq(of(r)) = r
    BY <1>2
  <2> HIDE DEF of
  <2> QED
    BY <2>2, <2>3, <2>4
<1>3. \A r \in Seq(S) : r \in T
  <2> HIDE DEF T
  <2> QED
    BY <1>1, <1>2, SequenceInduction
<1> QED
  BY <1>3, Zenon

LEMMA FlattenNothing ==
    ASSUME NEW n \in Nat
    PROVE  FlattenSeq([i \in 1 .. n |-> <<>>]) = <<>>
<1> DEFINE of(k) == [i \in 1 .. k |-> <<>>]
           T == {k \in Nat : FlattenSeq(of(k)) = <<>>}
<1>1. 0 \in T
  <2>1. of(0) = <<>>
    OBVIOUS
  <2> QED
    BY <2>1, FlattenEmpty
<1>2. ASSUME NEW k \in Nat, k \in T PROVE k + 1 \in T
  <2>1. of(k) \in Seq(Seq({})) /\ <<>> \in Seq({}) /\ of(k + 1) = Append(of(k), <<>>)
    OBVIOUS
  <2>2. FlattenSeq(of(k + 1)) = FlattenSeq(of(k)) \o <<>>
    BY <2>1, FlattenLast
  <2>3. FlattenSeq(of(k)) = <<>>
    BY <1>2
  <2> QED
    BY <2>2, <2>3
<1>3. \A k \in Nat : k \in T
  <2> HIDE DEF T
  <2> QED
    BY <1>1, <1>2, Induction
<1> QED
  BY <1>3, Zenon

LEMMA AppendAt ==
    ASSUME NEW S, NEW s \in Seq(S), NEW e
    PROVE  /\ Len(s) \in Nat /\ DOMAIN s = 1 .. Len(s)
           /\ DOMAIN Append(s, e) = 1 .. Len(s) + 1
           /\ Append(s, e)[Len(s) + 1] = e
           /\ \A i \in 1 .. Len(s) : i # Len(s) + 1 /\ i \in 1 .. Len(s) + 1
                                     /\ Append(s, e)[i] = s[i]
           /\ \A i \in 1 .. Len(s) + 1 : i = Len(s) + 1 \/ i \in 1 .. Len(s)
           /\ Len(s) + 1 \in 1 .. Len(s) + 1 /\ Len(s) + 1 \notin 1 .. Len(s)
OBVIOUS

LEMMA ElementsJoined ==
    ASSUME NEW S, NEW s \in Seq(S), NEW t \in Seq(S)
    PROVE  \A x : x \in ToSet(s \o t) <=> x \in ToSet(s) \/ x \in ToSet(t)
<1>1. /\ DOMAIN s = 1 .. Len(s) /\ DOMAIN t = 1 .. Len(t)
      /\ DOMAIN (s \o t) = 1 .. Len(s) + Len(t) /\ Len(s) \in Nat /\ Len(t) \in Nat
  OBVIOUS
<1>2. ASSUME NEW i \in DOMAIN (s \o t)
      PROVE  \/ i \in DOMAIN s /\ (s \o t)[i] = s[i]
             \/ i - Len(s) \in DOMAIN t /\ (s \o t)[i] = t[i - Len(s)]
  OBVIOUS
<1>3. ASSUME NEW i \in DOMAIN s PROVE i \in DOMAIN (s \o t) /\ (s \o t)[i] = s[i]
  OBVIOUS
<1>4. ASSUME NEW i \in DOMAIN t
      PROVE  Len(s) + i \in DOMAIN (s \o t) /\ (s \o t)[Len(s) + i] = t[i]
  OBVIOUS
<1>5. \A u, x : x \in ToSet(u) <=> \E i \in DOMAIN u : u[i] = x
  BY DEF ToSet
<1>6. ASSUME NEW x, x \in ToSet(s \o t) PROVE x \in ToSet(s) \/ x \in ToSet(t)
  <2>1. PICK i \in DOMAIN (s \o t) : (s \o t)[i] = x
    BY <1>5, <1>6
  <2> QED
    BY <1>2, <1>5, <2>1, Zenon
<1>7. ASSUME NEW x, x \in ToSet(s) PROVE x \in ToSet(s \o t)
  <2>1. PICK i \in DOMAIN s : s[i] = x
    BY <1>5, <1>7
  <2>2. i \in DOMAIN (s \o t) /\ (s \o t)[i] = x
    BY <1>3, <2>1
  <2> QED
    BY <1>5, <2>2
<1>8. ASSUME NEW x, x \in ToSet(t) PROVE x \in ToSet(s \o t)
  <2>1. PICK i \in DOMAIN t : t[i] = x
    BY <1>5, <1>8
  <2>2. Len(s) + i \in DOMAIN (s \o t) /\ (s \o t)[Len(s) + i] = x
    BY <1>4, <2>1
  <2> QED
    BY <1>5, <2>2
<1> QED
  BY <1>6, <1>7, <1>8, Zenon

\* What is in the whole is in one of its parts.
LEMMA FlattenElements ==
    ASSUME NEW S, NEW ss \in Seq(Seq(S))
    PROVE  \A x : x \in ToSet(FlattenSeq(ss)) <=> \E i \in DOMAIN ss : x \in ToSet(ss[i])
<1> DEFINE In(r, x) == \E i \in DOMAIN r : x \in ToSet(r[i])
           T == {r \in Seq(Seq(S)) : \A x : x \in ToSet(FlattenSeq(r)) <=> In(r, x)}
<1>1. <<>> \in T
  <2>1. <<>> \in Seq(Seq(S)) /\ \A x : ~In(<<>>, x) /\ x \notin ToSet(<<>>)
    BY DEF ToSet
  <2> QED
    BY <2>1, FlattenEmpty
<1>2. ASSUME NEW r \in Seq(Seq(S)), NEW e \in Seq(S), r \in T PROVE Append(r, e) \in T
  <2>1. Append(r, e) \in Seq(Seq(S)) /\ FlattenSeq(r) \in Seq(S)
    BY FlattenTyped
  <2>2. FlattenSeq(Append(r, e)) = FlattenSeq(r) \o e
    BY FlattenLast
  <2>3. \A x : x \in ToSet(FlattenSeq(r) \o e) <=> x \in ToSet(FlattenSeq(r)) \/ x \in ToSet(e)
    BY <2>1, ElementsJoined
  <2>4. \A x : In(Append(r, e), x) <=> In(r, x) \/ x \in ToSet(e)
    <3> DEFINE n == Len(r)
               q == Append(r, e)
    <3>1. /\ DOMAIN r = 1 .. n /\ DOMAIN q = 1 .. n + 1 /\ q[n + 1] = e
          /\ \A i \in 1 .. n : i \in 1 .. n + 1 /\ q[i] = r[i]
          /\ \A i \in 1 .. n + 1 : i = n + 1 \/ i \in 1 .. n
          /\ n + 1 \in 1 .. n + 1
      BY AppendAt
    <3> HIDE DEF n, q
    <3>2. ASSUME NEW x, NEW i \in 1 .. n + 1, x \in ToSet(q[i])
          PROVE  (\E j \in 1 .. n : x \in ToSet(r[j])) \/ x \in ToSet(e)
      BY <3>1, <3>2
    <3>3. ASSUME NEW x, NEW i \in 1 .. n, x \in ToSet(r[i])
          PROVE  \E j \in 1 .. n + 1 : x \in ToSet(q[j])
      BY <3>1, <3>3
    <3> QED
      BY <3>1, <3>2, <3>3, Zenon DEF q
  <2>5. \A x : x \in ToSet(FlattenSeq(r)) <=> In(r, x)
    BY <1>2, Zenon
  <2> HIDE DEF In
  <2> QED
    BY <2>1, <2>2, <2>3, <2>4, <2>5, Zenon
<1>3. \A r \in Seq(Seq(S)) : r \in T
  <2> HIDE DEF T
  <2> QED
    BY <1>1, <1>2, SequenceInduction
<1> QED
  BY <1>3, Zenon

\* Where each part is one element or nothing, the parts that are an element count.
LEMMA FlattenCount ==
    ASSUME NEW S, NEW ss \in Seq(Seq(S)), \A i \in DOMAIN ss : Len(ss[i]) \in {0, 1}
    PROVE  Len(FlattenSeq(ss)) = Cardinality({i \in DOMAIN ss : Len(ss[i]) = 1})
<1> DEFINE Ones(r) == {i \in DOMAIN r : Len(r[i]) = 1}
           Small(r) == \A i \in DOMAIN r : Len(r[i]) \in {0, 1}
           T == {r \in Seq(Seq(S)) : Small(r) => /\ IsFiniteSet(Ones(r))
                                                 /\ Len(FlattenSeq(r)) = Cardinality(Ones(r))}
<1>1. <<>> \in T
  <2>1. <<>> \in Seq(Seq(S)) /\ Ones(<<>>) = {} /\ Len(<<>>) = 0
    OBVIOUS
  <2> QED
    BY <2>1, FlattenEmpty, FS_EmptySet
<1>2. ASSUME NEW r \in Seq(Seq(S)), NEW e \in Seq(S), r \in T PROVE Append(r, e) \in T
  <2>1. Append(r, e) \in Seq(Seq(S)) /\ FlattenSeq(r) \in Seq(S)
    BY FlattenTyped
  <2>2. FlattenSeq(Append(r, e)) = FlattenSeq(r) \o e
    BY FlattenLast
  <2>3. Len(FlattenSeq(r) \o e) = Len(FlattenSeq(r)) + Len(e) /\ Len(FlattenSeq(r)) \in Nat
    BY <2>1
  <2>4. /\ Len(r) \in Nat /\ DOMAIN r = 1 .. Len(r)
        /\ DOMAIN Append(r, e) = 1 .. Len(r) + 1
        /\ Append(r, e)[Len(r) + 1] = e
        /\ \A i \in 1 .. Len(r) : Append(r, e)[i] = r[i]
    BY AppendAt
  <2>5. Small(Append(r, e)) => Small(r) /\ Len(e) \in {0, 1}
    <3>1. /\ Len(r) + 1 \in 1 .. Len(r) + 1
          /\ \A i \in 1 .. Len(r) : i \in 1 .. Len(r) + 1
      BY AppendAt
    <3> QED
      BY <2>4, <3>1, Zenon
  <2>6. Ones(Append(r, e)) = IF Len(e) = 1 THEN Ones(r) \cup {Len(r) + 1} ELSE Ones(r)
    BY <2>4
  <2>7. Len(r) + 1 \notin Ones(r)
    BY <2>4
  <2>8. Small(r) => IsFiniteSet(Ones(r)) /\ Len(FlattenSeq(r)) = Cardinality(Ones(r))
    BY <1>2, Zenon
  <2> HIDE DEF Ones, Small
  <2>9. ASSUME Small(r)
        PROVE  /\ IsFiniteSet(Ones(r) \cup {Len(r) + 1})
               /\ Cardinality(Ones(r) \cup {Len(r) + 1}) = Cardinality(Ones(r)) + 1
    BY <2>7, <2>8, <2>9, FS_AddElement
  <2>10. Small(Append(r, e)) =>
            /\ IsFiniteSet(Ones(Append(r, e)))
            /\ Len(FlattenSeq(Append(r, e))) = Cardinality(Ones(Append(r, e)))
    <3>1. CASE Len(e) = 1
      BY <2>2, <2>3, <2>5, <2>6, <2>8, <2>9, <3>1
    <3>2. CASE Len(e) = 0
      BY <2>2, <2>3, <2>5, <2>6, <2>8, <3>2
    <3> QED
      BY <2>5, <3>1, <3>2
  <2> QED
    BY <2>1, <2>10
<1>3. \A r \in Seq(Seq(S)) : r \in T
  <2> HIDE DEF T
  <2> QED
    BY <1>1, <1>2, SequenceInduction
<1> QED
  BY <1>3, Zenon

LEMMA Adjacent ==
    ASSUME NEW T, NEW s \in Seq(T), NEW p \in Nat, NEW m \in Nat, NEW n \in Nat,
           1 <= p, p <= m + 1, m <= n, n <= Len(s)
    PROVE  SubSeq(s, p, m) \o SubSeq(s, m + 1, n) = SubSeq(s, p, n)
<1>1. p \in 1 .. Len(s) + 1 /\ m \in p - 1 .. Len(s) /\ n \in m .. Len(s)
  OBVIOUS
<1> QED
  BY <1>1, ConcatAdjacentSubSeq

\* From position p on the first that is not empty is at i, and all is empty from
\* there to j.
LEMMA FlattenSplit ==
    ASSUME NEW S, NEW ss \in Seq(Seq(S)), NEW p \in Nat \ {0}, NEW i \in p .. Len(ss),
           NEW j \in i .. Len(ss), \A k \in p .. j : k # i => ss[k] = <<>>
    PROVE  FlattenSeq(SubSeq(ss, p, Len(ss)))
              = ss[i] \o FlattenSeq(SubSeq(ss, j + 1, Len(ss)))
<1> DEFINE N == Len(ss)
           a == SubSeq(ss, p, i - 1)
           b == SubSeq(ss, i + 1, j)
           c == SubSeq(ss, j + 1, N)
<1>1. N \in Nat /\ ss[i] \in Seq(S)
  OBVIOUS
<1>2. a \in Seq(Seq(S)) /\ b \in Seq(Seq(S)) /\ c \in Seq(Seq(S)) /\ <<ss[i]>> \in Seq(Seq(S))
  BY <1>1
<1>3. SubSeq(ss, p, N) = a \o (<<ss[i]>> \o (b \o c))
  <2>1. /\ N \in Nat /\ p \in 1 .. N + 1 /\ i - 1 \in p - 1 .. N /\ N \in i - 1 .. N
        /\ (i - 1) + 1 = i /\ i \in 1 .. N /\ N \in i .. N
        /\ i + 1 \in 1 .. N + 1 /\ j \in i + 1 - 1 .. N /\ N \in j .. N
    OBVIOUS
  <2>2. SubSeq(ss, p, i - 1) \o SubSeq(ss, (i - 1) + 1, N) = SubSeq(ss, p, N)
    BY <2>1, ConcatAdjacentSubSeq
  <2>3. SubSeq(ss, i, N) = <<ss[i]>> \o SubSeq(ss, i + 1, N)
    BY <2>1, SubSeqRecursiveFirst
  <2>4. SubSeq(ss, i + 1, j) \o SubSeq(ss, j + 1, N) = SubSeq(ss, i + 1, N)
    <3>1. i + 1 \in Nat /\ j \in Nat /\ 1 <= i + 1 /\ i + 1 <= j + 1 /\ j <= N /\ N <= Len(ss)
      OBVIOUS
    <3> QED
      BY <2>1, <3>1, Adjacent
  <2> HIDE DEF N
  <2> QED
    BY <2>1, <2>2, <2>3, <2>4
<1>4. FlattenSeq(a) = <<>>
  <2>1. i - p \in Nat /\ a = [k \in 1 .. i - p |-> <<>>]
    OBVIOUS
  <2> HIDE DEF a
  <2> QED
    BY <2>1, FlattenNothing
<1>5. FlattenSeq(b) = <<>>
  <2>1. j - i \in Nat /\ b \in Seq(Seq(S)) /\ Len(b) = j - i
        /\ \A k \in 1 .. j - i : b[k] = ss[i + k]
    <3>1. j - i \in Nat /\ i + 1 \in 1 .. Len(ss) + 1 /\ j \in i .. Len(ss)
      OBVIOUS
    <3>2. Len(b) = j - i /\ \A k \in 1 .. j - i : b[k] = ss[i + k]
      <4>1. j - (i + 1) + 1 = j - i /\ \A k \in 1 .. j - i : (i + 1) + k - 1 = i + k
        OBVIOUS
      <4>2. Len(b) = j - (i + 1) + 1 /\ \A k \in 1 .. j - (i + 1) + 1 : b[k] = ss[(i + 1) + k - 1]
        OBVIOUS
      <4> HIDE DEF b
      <4> QED
        BY <4>1, <4>2
    <3> QED
      BY <1>2, <3>1, <3>2, Zenon
  <2>2. \A k \in 1 .. j - i : i + k \in p .. j /\ i + k # i
    OBVIOUS
  <2>3. \A k \in 1 .. j - i : b[k] = <<>>
    BY <2>1, <2>2
  <2>4. b = [k \in 1 .. j - i |-> <<>>]
    <3> HIDE DEF b
    <3> QED
      BY <2>1, <2>3
  <2> HIDE DEF b
  <2> QED
    BY <2>1, <2>4, FlattenNothing
<1>6. FlattenSeq(<<ss[i]>>) = ss[i]
  BY <1>1, FlattenOne
<1> HIDE DEF a, b, c, N
<1>7. b \o c \in Seq(Seq(S)) /\ <<ss[i]>> \o (b \o c) \in Seq(Seq(S))
  BY <1>2
<1>8. FlattenSeq(b \o c) = <<>> \o FlattenSeq(c)
  BY <1>2, <1>5, FlattenJoined
<1>9. FlattenSeq(<<ss[i]>> \o (b \o c)) = ss[i] \o FlattenSeq(b \o c)
  BY <1>2, <1>6, <1>7, FlattenJoined
<1>10. FlattenSeq(a \o (<<ss[i]>> \o (b \o c))) = <<>> \o FlattenSeq(<<ss[i]>> \o (b \o c))
  BY <1>2, <1>4, <1>7, FlattenJoined
<1>11. FlattenSeq(c) \in Seq(S)
  BY <1>2, FlattenTyped
<1>12. FlattenSeq(b \o c) = FlattenSeq(c)
  BY <1>8, <1>11
<1>13. FlattenSeq(a \o (<<ss[i]>> \o (b \o c))) = ss[i] \o FlattenSeq(c)
  <2>1. ss[i] \o FlattenSeq(c) \in Seq(S)
    BY <1>1, <1>11
  <2>2. <<>> \o (ss[i] \o FlattenSeq(c)) = ss[i] \o FlattenSeq(c)
    BY <2>1, ConcatEmptySeq
  <2> QED
    BY <1>9, <1>10, <1>12, <2>2, Zenon
<1> QED
  BY <1>3, <1>13 DEF N, c

LEMMA FlattenAllEmpty ==
    ASSUME NEW S, NEW ss \in Seq(Seq(S)), NEW p \in 1 .. Len(ss) + 1,
           \A k \in p .. Len(ss) : ss[k] = <<>>
    PROVE  FlattenSeq(SubSeq(ss, p, Len(ss))) = <<>>
<1> DEFINE a == SubSeq(ss, p, Len(ss))
           n == Len(ss) + 1 - p
<1>1. n \in Nat /\ a = [k \in 1 .. n |-> <<>>]
  OBVIOUS
<1> HIDE DEF a, n
<1>2. FlattenSeq(a) = <<>>
  BY <1>1, FlattenNothing
<1> QED
  BY <1>2 DEF a

\* A search from position to position collects what is at each: where it stops
\* nothing is left, and what it goes on behind holds one element only.
StopsAtNothing(N, B, stop) ==
    \A p \in 1 .. N + 1 : stop[p] => \A k \in p .. N : B[k] = <<>>
FindsNext(N, B, stop, head, next) ==
    \A p \in 1 .. N + 1 : ~stop[p] =>
       \E i \in p .. N, j \in p .. N :
          /\ i <= j /\ next[p] = j + 1 /\ head[p] = B[i]
          /\ \A k \in p .. j : k # i => B[k] = <<>>

LEMMA SearchCollects ==
    ASSUME NEW S, NEW B \in Seq(Seq(S)), NEW N, N = Len(B),
           NEW stop, NEW head, NEW next, NEW f,
           IsSearch(f, stop, head, next), StopsAtNothing(N, B, stop),
           FindsNext(N, B, stop, head, next)
    PROVE  f[1] = FlattenSeq(B)
<1> USE DEF IsSearch, StopsAtNothing, FindsNext
<1> DEFINE T == {p \in Nat : f[p] = FlattenSeq(SubSeq(B, p, N))}
<1>1. N \in Nat /\ \A p \in 1 .. N + 1 : p \in Nat
  OBVIOUS
<1>2. \A p \in Nat : f[p] = IF stop[p] THEN <<>> ELSE head[p] \o f[next[p]]
  BY Zenon
<1>3. ASSUME NEW p \in 1 .. N + 1, \A q \in p + 1 .. N + 1 : q \in T PROVE p \in T
  <2>1. f[p] = IF stop[p] THEN <<>> ELSE head[p] \o f[next[p]]
    BY <1>1, <1>2, Zenon
  <2>2. CASE stop[p]
    <3>1. \A k \in p .. N : B[k] = <<>>
      BY <2>2, Zenon
    <3>2. FlattenSeq(SubSeq(B, p, N)) = <<>>
      BY <3>1, FlattenAllEmpty
    <3>3. f[p] = <<>>
      BY <2>1, <2>2, Zenon
    <3> QED
      BY <1>1, <3>2, <3>3
  <2>3. CASE ~stop[p]
    <3>1. PICK i \in p .. N, j \in p .. N :
             /\ i <= j /\ next[p] = j + 1 /\ head[p] = B[i]
             /\ \A k \in p .. j : k # i => B[k] = <<>>
      BY <2>3, Zenon
    <3>2. f[p] = B[i] \o f[j + 1]
      BY <2>1, <2>3, <3>1, Zenon
    <3>3. j + 1 \in p + 1 .. N + 1 /\ p \in Nat \ {0} /\ j \in i .. N
      BY <1>1, <3>1
    <3>4. f[j + 1] = FlattenSeq(SubSeq(B, j + 1, N))
      BY <1>3, <3>3
    <3>5. FlattenSeq(SubSeq(B, p, N)) = B[i] \o FlattenSeq(SubSeq(B, j + 1, N))
      <4>1. i \in p .. Len(B) /\ j \in i .. Len(B) /\ \A k \in p .. j : k # i => B[k] = <<>>
        BY <3>1, <3>3
      <4>2. FlattenSeq(SubSeq(B, p, Len(B))) = B[i] \o FlattenSeq(SubSeq(B, j + 1, Len(B)))
        <5> USE ONLY B \in Seq(Seq(S)), <3>3, <4>1
        <5> QED
          BY FlattenSplit
      <4> QED
        BY <4>2
    <3>6. f[p] = FlattenSeq(SubSeq(B, p, N))
      BY <3>2, <3>4, <3>5, Zenon
    <3> QED
      BY <1>1, <3>6
  <2> QED
    BY <2>2, <2>3
<1>4. \A p \in 1 .. N + 1 : p \in T
  <2> HIDE DEF T
  <2> QED
    BY <1>1, <1>3, Backwards
<1>5. f[1] = FlattenSeq(SubSeq(B, 1, N))
  <2>1. 1 \in 1 .. N + 1
    BY <1>1
  <2> QED
    BY <1>4, <2>1
<1>6. SubSeq(B, 1, N) = B
  BY SubSeqFull
<1> QED
  BY <1>5, <1>6

-----------------------------------------------------------------------------
(* Sets of positions.                                                      *)

LEMMA Positions ==
    ASSUME NEW N \in Nat, NEW P \in SUBSET (1 .. N)
    PROVE  IsFiniteSet(P) /\ Cardinality(P) \in Nat
<1>1. IsFiniteSet(1 .. N)
  BY FS_Interval
<1>2. IsFiniteSet(P)
  BY <1>1, FS_Subset
<1> QED
  BY <1>2, FS_CardinalityType

LEMMA SmallestOf ==
    ASSUME NEW T \in SUBSET Nat, T # {}
    PROVE  Min(T) \in T /\ \A y \in T : Min(T) <= y
<1> DEFINE R == OpToRel(<, Nat)
<1>1. IsWellFoundedOn(R, Nat)
  BY NatLessThanWellFounded
<1>2. \A x, y \in Nat : <<x, y>> \in R <=> x < y
  BY DEF OpToRel
<1> HIDE DEF R
<1>3. \E x \in T : \A y \in T : ~(<<y, x>> \in R)
  BY <1>1, WFMin
<1>4. \E x \in T : \A y \in T : x =< y
  <2>1. PICK x \in T : \A y \in T : ~(<<y, x>> \in R)
    BY <1>3
  <2>2. ASSUME NEW y \in T PROVE x =< y
    <3>1. x \in Nat /\ y \in Nat /\ ~(y < x)
      BY <1>2, <2>1
    <3> QED
      BY <3>1
  <2> QED
    BY <2>2
<1> QED
  BY <1>4 DEF Min

LEMMA LargestOf ==
    ASSUME NEW n \in Nat, NEW T \in SUBSET (0 .. n), T # {}
    PROVE  Max(T) \in T /\ \A y \in T : y <= Max(T)
<1> DEFINE U == {n - x : x \in T}
<1>1. U \in SUBSET Nat /\ U # {}
  <2>1. ASSUME NEW x \in T PROVE n - x \in Nat
    <3>1. x \in 0 .. n
      OBVIOUS
    <3> QED
      BY <3>1
  <2>2. PICK x \in T : TRUE
    OBVIOUS
  <2>3. n - x \in U
    OBVIOUS
  <2> QED
    BY <2>1, <2>3
<1>2. Min(U) \in U /\ \A y \in U : Min(U) <= y
  BY <1>1, SmallestOf
<1>3. PICK x \in T : Min(U) = n - x
  BY <1>2
<1>4. \A y \in T : x >= y
  BY <1>2, <1>3
<1>5. \E z \in T : \A y \in T : z >= y
  BY <1>4
<1> QED
  BY <1>5 DEF Max

\* Where there are more than n positions, one has n before it.
LEMMA Ranked ==
    ASSUME NEW N \in Nat, NEW P \in SUBSET (1 .. N), NEW n \in Nat, n < Cardinality(P)
    PROVE  \E s \in P : Cardinality({r \in P : r < s}) = n
<1> DEFINE T == {k \in Nat : \A Q \in SUBSET (1 .. k) : n < Cardinality(Q) =>
                                \E s \in Q : Cardinality({r \in Q : r < s}) = n}
<1>1. 0 \in T
  <2>1. \A Q \in SUBSET (1 .. 0) : Q = {}
    OBVIOUS
  <2>2. Cardinality({}) = 0 /\ ~(n < 0)
    BY FS_EmptySet
  <2> QED
    BY <2>1, <2>2
<1>2. ASSUME NEW k \in Nat, k \in T PROVE k + 1 \in T
  <2> SUFFICES ASSUME NEW Q \in SUBSET (1 .. k + 1), n < Cardinality(Q)
               PROVE  \E s \in Q : Cardinality({r \in Q : r < s}) = n
    OBVIOUS
  <2> DEFINE R == Q \ {k + 1}
  <2>1. R \in SUBSET (1 .. k) /\ k + 1 \notin R
    OBVIOUS
  <2>2. IsFiniteSet(R) /\ Cardinality(R) \in Nat
    BY <2>1, Positions
  <2>3. CASE n < Cardinality(R)
    <3>1. PICK s \in R : Cardinality({r \in R : r < s}) = n
      BY <1>2, <2>1, <2>3
    <3>2. {r \in Q : r < s} = {r \in R : r < s} /\ s \in Q
      BY <2>1
    <3> QED
      BY <3>1, <3>2
  <2>4. CASE ~(n < Cardinality(R))
    <3>1. Q # R
      BY <2>4
    <3>2. Q = R \cup {k + 1} /\ k + 1 \in Q
      BY <3>1
    <3>3. Cardinality(Q) = Cardinality(R) + 1
      BY <2>1, <2>2, <3>2, FS_AddElement
    <3>4. n = Cardinality(R)
      BY <2>2, <2>4, <3>3
    <3>5. {r \in Q : r < k + 1} = R
      <4>1. \A r \in Q : r \in Int /\ r <= k + 1
        OBVIOUS
      <4>2. \A r \in Q : r < k + 1 <=> r # k + 1
        BY <4>1
      <4> QED
        BY <4>2
    <3> QED
      BY <3>2, <3>4, <3>5
  <2> QED
    BY <2>3, <2>4
<1>3. \A k \in Nat : k \in T
  <2> HIDE DEF T
  <2> QED
    BY <1>1, <1>2, Induction
<1> QED
  BY <1>3
=============================================================================
