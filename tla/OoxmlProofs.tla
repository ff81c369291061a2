----------------------------- MODULE OoxmlProofs -----------------------------
(***************************************************************************)
(* What holds of the two parts of a document for any file that is, any     *)
(* paragraphs, comments and texts, and any number of edits: they stay well *)
(* formed, a peer reads the editor's own paragraph indices in them, and    *)
(* every edit is one edit of the list of paragraphs and of the comments    *)
(* that a peer reads (PackageParts).                                       *)
(*                                                                         *)
(* A part is cut only outside a pair of tags, so that what is before the   *)
(* cut and what is behind it is balanced, and balanced pieces make a       *)
(* balanced part. What a peer reads of a balanced part is a list that      *)
(* flattens one short list for each tag of it; so what is read of joined   *)
(* pieces is what is read of each, joined.                                 *)
(***************************************************************************)
EXTENDS OoxmlDocument, SequenceLemmas

-----------------------------------------------------------------------------
(* Pieces of a part.                                                       *)

LEMMA Pieces ==
    ASSUME NEW xml \in Seq(Elements), NEW i \in 1 .. Len(xml) + 1
    PROVE  /\ Upto(xml, i - 1) \in Seq(Elements) /\ From(xml, i) \in Seq(Elements)
           /\ Len(Upto(xml, i - 1)) = i - 1 /\ Len(From(xml, i)) = Len(xml) + 1 - i
           /\ \A k \in 1 .. i - 1 : Upto(xml, i - 1)[k] = xml[k]
           /\ \A k \in 1 .. Len(xml) + 1 - i : From(xml, i)[k] = xml[i - 1 + k]
BY DEF Upto, From

LEMMA Joined ==
    ASSUME NEW s \in Seq(Elements), NEW t \in Seq(Elements)
    PROVE  /\ s \o t \in Seq(Elements)
           /\ Len(s \o t) = Len(s) + Len(t)
           /\ \A k \in 1 .. Len(s) : (s \o t)[k] = s[k]
           /\ \A k \in 1 .. Len(t) : (s \o t)[Len(s) + k] = t[k]
OBVIOUS

LEMMA JoinedAt ==
    ASSUME NEW s \in Seq(Elements), NEW t \in Seq(Elements)
    PROVE  /\ Len(s) \in Nat /\ Len(t) \in Nat
           /\ DOMAIN (s \o t) = 1 .. Len(s) + Len(t)
           /\ s \o t \in Seq(Elements) /\ Len(s \o t) = Len(s) + Len(t)
           /\ DOMAIN s = 1 .. Len(s) /\ DOMAIN t = 1 .. Len(t)
           /\ \A k \in DOMAIN s : (s \o t)[k] = s[k]
           /\ \A k \in DOMAIN (s \o t) :
                 /\ k \in Int
                 /\ k = Len(s \o t) <=> k - Len(s) = Len(t)
                 /\ k \notin DOMAIN s => /\ k - Len(s) \in DOMAIN t /\ k > Len(s)
                                        /\ (s \o t)[k] = t[k - Len(s)]
OBVIOUS

LEMMA NothingBetween ==
    ASSUME NEW xml, NEW open, NEW close, NEW i \in Int, NEW j \in Int,
           Pair(xml, open, close, i, j)
    PROVE  \A k \in Int : i < k /\ k < j => xml[k].tag \notin {open, close}
BY DEF Pair

\* No pair has its opening tag before position i and its closing tag behind.
Outside(xml, open, close, i) ==
    \A o, c \in DOMAIN xml : Pair(xml, open, close, o, c) => ~(o < i /\ i <= c)

LEMMA CutBalanced ==
    ASSUME NEW xml \in Seq(Elements), NEW i \in 1 .. Len(xml) + 1,
           NEW open, NEW close, NEW single,
           Balanced(xml, open, close, single), Outside(xml, open, close, i)
    PROVE  /\ Balanced(Upto(xml, i - 1), open, close, single)
           /\ Balanced(From(xml, i), open, close, single)
<1> DEFINE s == Upto(xml, i - 1)
           t == From(xml, i)
           m == i - 1
<1>1. /\ Len(xml) \in Nat /\ i \in Int /\ m \in Nat /\ m + 1 = i
      /\ DOMAIN xml = 1 .. Len(xml) /\ DOMAIN s = 1 .. m /\ DOMAIN t = 1 .. Len(xml) - m
      /\ m <= Len(xml)
      /\ \A k \in 1 .. m : s[k] = xml[k]
      /\ \A k \in 1 .. Len(xml) - m : t[k] = xml[m + k]
  <2>1. Len(xml) \in Nat /\ i \in Int /\ m \in Nat /\ m + 1 = i /\ m <= Len(xml)
    OBVIOUS
  <2>2. /\ s \in Seq(Elements) /\ t \in Seq(Elements)
        /\ Len(s) = m /\ Len(t) = Len(xml) + 1 - i
        /\ \A k \in 1 .. m : s[k] = xml[k]
        /\ \A k \in 1 .. Len(xml) + 1 - i : t[k] = xml[m + k]
    BY Pieces, Zenon
  <2>3. Len(xml) + 1 - i = Len(xml) - m
    BY <2>1
  <2> HIDE DEF s, t, m
  <2> QED
    BY <2>1, <2>2, <2>3
<1> HIDE DEF s, t, m
<1>2. ASSUME NEW j \in DOMAIN s, NEW k \in DOMAIN s
      PROVE  Pair(s, open, close, j, k) <=> Pair(xml, open, close, j, k)
  BY <1>1 DEF Pair
<1>3. ASSUME NEW j \in DOMAIN t, NEW k \in DOMAIN t
      PROVE  Pair(t, open, close, j, k) <=> Pair(xml, open, close, m + j, m + k)
  <2>1. ASSUME Pair(t, open, close, j, k) PROVE Pair(xml, open, close, m + j, m + k)
    <3>1. ASSUME NEW n \in m + j + 1 .. m + k - 1
          PROVE  xml[n].tag \notin {open, close}
      <4>1. n - m \in j + 1 .. k - 1 /\ t[n - m] = xml[n]
        BY <1>1
      <4> QED
        BY <2>1, <4>1 DEF Pair
    <3>2. j < k /\ t[j].tag = open /\ t[k].tag = close
      BY <2>1 DEF Pair
    <3>3. m + j \in DOMAIN xml /\ m + k \in DOMAIN xml /\ m + j < m + k
      BY <1>1, <3>2
    <3>4. xml[m + j].tag = open /\ xml[m + k].tag = close
      BY <1>1, <3>2
    <3>5. m \in Int /\ j \in Int /\ k \in Int
      BY <1>1
    <3> QED
      BY <3>1, <3>3, <3>4, <3>5, SMT DEF Pair
  <2>2. ASSUME Pair(xml, open, close, m + j, m + k) PROVE Pair(t, open, close, j, k)
    <3>1. \A x \in Int : m + j < x /\ x < m + k => xml[x].tag \notin {open, close}
      <4>1. m + j \in Int /\ m + k \in Int
        BY <1>1
      <4> QED
        BY <2>2, <4>1, NothingBetween
    <3>2. ASSUME NEW n \in j + 1 .. k - 1 PROVE t[n].tag \notin {open, close}
      <4>1. m + n \in Int /\ m + j < m + n /\ m + n < m + k /\ n \in DOMAIN t
        BY <1>1
      <4>2. t[n] = xml[m + n]
        BY <1>1, <4>1
      <4>3. xml[m + n].tag \notin {open, close}
        BY <3>1, <4>1
      <4> QED
        BY <4>2, <4>3
    <3>3. m + j < m + k => j < k
      BY <1>1
    <3>4. xml[m + j] = t[j] /\ xml[m + k] = t[k]
      BY <1>1
    <3>5. m + j < m + k /\ xml[m + j].tag = open /\ xml[m + k].tag = close
      BY <2>2 DEF Pair
    <3> QED
      BY <3>2, <3>3, <3>4, <3>5 DEF Pair
  <2> QED
    BY <2>1, <2>2
<1>4. Alternate(s, open, close)
  <2>1. ASSUME NEW j \in DOMAIN s, s[j].tag = open
        PROVE  \E k \in DOMAIN s : Pair(s, open, close, j, k)
    <3>1. PICK k \in DOMAIN xml : Pair(xml, open, close, j, k)
      BY <1>1, <2>1 DEF Balanced, Alternate
    <3>2. k \in DOMAIN s
      BY <1>1, <3>1 DEF Outside
    <3> QED
      BY <1>2, <3>1, <3>2
  <2>2. ASSUME NEW k \in DOMAIN s, s[k].tag = close
        PROVE  \E j \in DOMAIN s : Pair(s, open, close, j, k)
    <3>1. PICK j \in DOMAIN xml : Pair(xml, open, close, j, k)
      BY <1>1, <2>2 DEF Balanced, Alternate
    <3>2. j \in DOMAIN s
      BY <1>1, <3>1 DEF Pair
    <3> QED
      BY <1>2, <3>1, <3>2
  <2> QED
    BY <2>1, <2>2 DEF Alternate
<1>5. Alternate(t, open, close)
  <2>1. ASSUME NEW j \in DOMAIN t, t[j].tag = open
        PROVE  \E k \in DOMAIN t : Pair(t, open, close, j, k)
    <3>1. PICK n \in DOMAIN xml : Pair(xml, open, close, m + j, n)
      <4>1. m + j \in DOMAIN xml
        BY <1>1
      <4>2. xml[m + j].tag = open
        BY <1>1, <2>1
      <4>3. Alternate(xml, open, close)
        BY Zenon DEF Balanced
      <4> QED
        BY <4>1, <4>2, <4>3, Zenon DEF Alternate
    <3>2. m + j < n
      BY <3>1 DEF Pair
    <3>3. n - m \in DOMAIN t /\ m + (n - m) = n
      <4>1. n \in 1 .. Len(xml) /\ j \in 1 .. Len(xml) - m
        BY <1>1, Zenon
      <4>2. n - m \in 1 .. Len(xml) - m /\ m + (n - m) = n
        <5>1. m \in Nat /\ Len(xml) \in Nat
          BY <1>1, Zenon
        <5> QED
          BY <3>2, <4>1, <5>1
      <4> QED
        BY <1>1, <4>2, Zenon
    <3> QED
      BY <1>3, <3>1, <3>3
  <2>2. ASSUME NEW k \in DOMAIN t, t[k].tag = close
        PROVE  \E j \in DOMAIN t : Pair(t, open, close, j, k)
    <3>1. PICK n \in DOMAIN xml : Pair(xml, open, close, n, m + k)
      BY <1>1, <2>2 DEF Balanced, Alternate
    <3>2. ~(n < i /\ i <= m + k)
      BY <1>1, <3>1 DEF Outside
    <3>3. n - m \in DOMAIN t /\ m + (n - m) = n
      BY <1>1, <3>2
    <3> QED
      BY <1>3, <3>1, <3>3
  <2> QED
    BY <2>1, <2>2 DEF Alternate
<1>6. Flat(s, open, close, single)
  BY <1>1, <1>2 DEF Balanced, Flat
<1>7. Flat(t, open, close, single)
  <2> SUFFICES ASSUME NEW j \in DOMAIN t, NEW k \in DOMAIN t, NEW n \in DOMAIN t,
                      Pair(t, open, close, j, k), j < n, n < k
               PROVE  t[n].tag # single
    BY DEF Flat
  <2>1. Pair(xml, open, close, m + j, m + k)
    BY <1>3
  <2>2. /\ m + j \in DOMAIN xml /\ m + k \in DOMAIN xml /\ m + n \in DOMAIN xml
        /\ m + j < m + n /\ m + n < m + k /\ t[n] = xml[m + n]
    BY <1>1
  <2> QED
    BY <2>1, <2>2 DEF Balanced, Flat
<1> QED
  BY <1>4, <1>5, <1>6, <1>7 DEF Balanced, s, t

LEMMA JoinedBalanced ==
    ASSUME NEW s \in Seq(Elements), NEW t \in Seq(Elements),
           NEW open, NEW close, NEW single,
           Balanced(s, open, close, single), Balanced(t, open, close, single)
    PROVE  Balanced(s \o t, open, close, single)
<1> DEFINE xml == s \o t
           m == Len(s)
<1>1. /\ m \in Nat /\ Len(t) \in Nat /\ DOMAIN xml = 1 .. m + Len(t)
      /\ DOMAIN s = 1 .. m /\ DOMAIN t = 1 .. Len(t)
      /\ \A k \in 1 .. m : xml[k] = s[k]
      /\ \A k \in 1 .. Len(t) : xml[m + k] = t[k]
  BY Joined
<1> HIDE DEF xml, m
<1>2. ASSUME NEW j \in DOMAIN s, NEW k \in DOMAIN s
      PROVE  Pair(xml, open, close, j, k) <=> Pair(s, open, close, j, k)
  BY <1>1 DEF Pair
<1>3. ASSUME NEW j \in DOMAIN t, NEW k \in DOMAIN t
      PROVE  Pair(xml, open, close, m + j, m + k) <=> Pair(t, open, close, j, k)
  <2>1. ASSUME Pair(t, open, close, j, k) PROVE Pair(xml, open, close, m + j, m + k)
    <3>1. ASSUME NEW n \in m + j + 1 .. m + k - 1
          PROVE  xml[n].tag \notin {open, close}
      <4>1. n - m \in j + 1 .. k - 1 /\ n - m \in 1 .. Len(t) /\ m + (n - m) = n
        BY <1>1
      <4>2. t[n - m] = xml[n]
        BY <1>1, <4>1
      <4> QED
        BY <2>1, <4>1, <4>2 DEF Pair
    <3>2. j < k /\ t[j].tag = open /\ t[k].tag = close
      BY <2>1 DEF Pair
    <3>3. m + j \in DOMAIN xml /\ m + k \in DOMAIN xml /\ m + j < m + k
      BY <1>1, <3>2
    <3>4. xml[m + j].tag = open /\ xml[m + k].tag = close
      BY <1>1, <3>2
    <3>5. m \in Int /\ j \in Int /\ k \in Int
      BY <1>1
    <3> QED
      BY <3>1, <3>3, <3>4, <3>5, SMT DEF Pair
  <2>2. ASSUME Pair(xml, open, close, m + j, m + k) PROVE Pair(t, open, close, j, k)
    <3>1. \A x \in Int : m + j < x /\ x < m + k => xml[x].tag \notin {open, close}
      <4>1. m + j \in Int /\ m + k \in Int
        BY <1>1
      <4> QED
        BY <2>2, <4>1, NothingBetween
    <3>2. ASSUME NEW n \in j + 1 .. k - 1 PROVE t[n].tag \notin {open, close}
      <4>1. m + n \in Int /\ m + j < m + n /\ m + n < m + k /\ n \in DOMAIN t
        BY <1>1
      <4>2. t[n] = xml[m + n]
        BY <1>1, <4>1
      <4>3. xml[m + n].tag \notin {open, close}
        BY <3>1, <4>1
      <4> QED
        BY <4>2, <4>3
    <3>3. m + j < m + k => j < k
      BY <1>1
    <3>4. xml[m + j] = t[j] /\ xml[m + k] = t[k]
      BY <1>1
    <3>5. m + j < m + k /\ xml[m + j].tag = open /\ xml[m + k].tag = close
      BY <2>2 DEF Pair
    <3> QED
      BY <3>2, <3>3, <3>4, <3>5 DEF Pair
  <2> QED
    BY <2>1, <2>2
\* Where a pair can be: what opens in one piece is closed there.
<1>4. ASSUME NEW j \in DOMAIN xml, NEW k \in DOMAIN xml, Pair(xml, open, close, j, k)
      PROVE  \/ j \in DOMAIN s /\ k \in DOMAIN s
             \/ j - m \in DOMAIN t /\ k - m \in DOMAIN t
  <2>1. CASE j \in DOMAIN s
    <3>1. PICK n \in DOMAIN s : Pair(s, open, close, j, n)
      BY <1>1, <1>4, <2>1 DEF Balanced, Alternate, Pair
    <3>2. j < n /\ xml[n].tag = close
      BY <1>1, <3>1 DEF Pair
    <3>3. ~(n < k)
      BY <1>1, <1>4, <3>2 DEF Pair
    <3> QED
      BY <1>1, <2>1, <3>3
  <2>2. CASE j \notin DOMAIN s
    BY <1>1, <1>4, <2>2 DEF Pair
  <2> QED
    BY <2>1, <2>2
<1>5. Alternate(xml, open, close)
  <2>1. ASSUME NEW j \in DOMAIN xml, xml[j].tag = open
        PROVE  \E k \in DOMAIN xml : Pair(xml, open, close, j, k)
    <3>1. CASE j \in DOMAIN s
      <4>1. PICK k \in DOMAIN s : Pair(s, open, close, j, k)
        BY <1>1, <2>1, <3>1 DEF Balanced, Alternate
      <4> QED
        BY <1>1, <1>2, <3>1, <4>1
    <3>2. CASE j \notin DOMAIN s
      <4>1. j - m \in DOMAIN t /\ t[j - m].tag = open /\ m + (j - m) = j
        BY <1>1, <2>1, <3>2
      <4>2. PICK k \in DOMAIN t : Pair(t, open, close, j - m, k)
        BY <4>1 DEF Balanced, Alternate
      <4>3. Pair(xml, open, close, m + (j - m), m + k)
        BY <1>3, <4>1, <4>2
      <4>4. m + k \in DOMAIN xml
        BY <1>1
      <4>5. Pair(xml, open, close, j, m + k)
        BY <4>1, <4>3
      <4> QED
        BY <4>4, <4>5
    <3> QED
      BY <3>1, <3>2
  <2>2. ASSUME NEW k \in DOMAIN xml, xml[k].tag = close
        PROVE  \E j \in DOMAIN xml : Pair(xml, open, close, j, k)
    <3>1. CASE k \in DOMAIN s
      <4>1. PICK j \in DOMAIN s : Pair(s, open, close, j, k)
        BY <1>1, <2>2, <3>1 DEF Balanced, Alternate
      <4> QED
        BY <1>1, <1>2, <3>1, <4>1
    <3>2. CASE k \notin DOMAIN s
      <4>1. k - m \in DOMAIN t /\ t[k - m].tag = close /\ m + (k - m) = k
        BY <1>1, <2>2, <3>2
      <4>2. PICK j \in DOMAIN t : Pair(t, open, close, j, k - m)
        BY <4>1 DEF Balanced, Alternate
      <4>3. Pair(xml, open, close, m + j, m + (k - m))
        BY <1>3, <4>1, <4>2
      <4>4. m + j \in DOMAIN xml
        BY <1>1
      <4>5. Pair(xml, open, close, m + j, k)
        BY <4>1, <4>3
      <4> QED
        BY <4>4, <4>5
    <3> QED
      BY <3>1, <3>2
  <2> QED
    BY <2>1, <2>2 DEF Alternate
<1>6. Flat(xml, open, close, single)
  <2> SUFFICES ASSUME NEW j \in DOMAIN xml, NEW k \in DOMAIN xml, NEW n \in DOMAIN xml,
                      Pair(xml, open, close, j, k), j < n, n < k
               PROVE  xml[n].tag # single
    BY DEF Flat
  <2>1. CASE j \in DOMAIN s /\ k \in DOMAIN s
    <3>1. n \in DOMAIN s /\ xml[n] = s[n] /\ Pair(s, open, close, j, k)
      BY <1>1, <1>2, <2>1
    <3> QED
      BY <2>1, <3>1 DEF Balanced, Flat
  <2>2. CASE j - m \in DOMAIN t /\ k - m \in DOMAIN t
    <3>1. /\ n - m \in DOMAIN t /\ j - m < n - m /\ n - m < k - m
          /\ m + (j - m) = j /\ m + (k - m) = k /\ m + (n - m) = n
      BY <1>1, <2>2
    <3>2. Pair(t, open, close, j - m, k - m) /\ xml[n] = t[n - m]
      BY <1>1, <1>3, <2>2, <3>1
    <3> QED
      BY <2>2, <3>1, <3>2 DEF Balanced, Flat
  <2> QED
    BY <1>4, <2>1, <2>2
<1> QED
  BY <1>5, <1>6 DEF Balanced, xml

\* A part may be cut before a tag that opens, behind one that closes, at a single
\* tag, and at its end.
LEMMA Cuts ==
    ASSUME NEW xml \in Seq(Elements), NEW open, NEW close, NEW single, open # close,
           single \notin {open, close}, Flat(xml, open, close, single)
    PROVE  /\ \A i \in DOMAIN xml : xml[i].tag = open => Outside(xml, open, close, i)
           /\ \A i \in DOMAIN xml : xml[i].tag = close => Outside(xml, open, close, i + 1)
           /\ \A i \in DOMAIN xml : xml[i].tag = single => Outside(xml, open, close, i)
           /\ Outside(xml, open, close, Len(xml) + 1)
           /\ Len(xml) > 0 /\ xml[Len(xml)].tag # close =>
                 Outside(xml, open, close, Len(xml))
<1>1. DOMAIN xml = 1 .. Len(xml) /\ Len(xml) \in Nat
  OBVIOUS
<1>2. ASSUME NEW i \in DOMAIN xml, NEW o \in DOMAIN xml, NEW c \in DOMAIN xml,
             Pair(xml, open, close, o, c)
      PROVE  /\ xml[i].tag = open => ~(o < i /\ i <= c)
             /\ xml[i].tag = close => ~(o < i + 1 /\ i + 1 <= c)
             /\ xml[i].tag = single => ~(o < i /\ i <= c)
  <2>1. o < i /\ i < c => xml[i].tag \notin {open, close, single}
    BY <1>1, <1>2, NothingBetween DEF Flat
  <2>2. o < c /\ xml[o].tag = open /\ xml[c].tag = close
    BY <1>2 DEF Pair
  <2> QED
    BY <1>1, <2>1, <2>2
<1>3. \A o, c \in DOMAIN xml : Pair(xml, open, close, o, c) => xml[c].tag = close
  BY DEF Pair
<1> QED
  BY <1>1, <1>2, <1>3 DEF Outside

-----------------------------------------------------------------------------
(* Searches.                                                               *)

LEMMA Found ==
    ASSUME NEW xml \in Seq(Elements), NEW names, NEW from \in Nat \ {0}
    PROVE  \/ Find(xml, names, from) = npos
           \/ /\ Find(xml, names, from) \in from .. Len(xml)
              /\ xml[Find(xml, names, from)].tag \in names
<1> DEFINE I == {i \in from .. Len(xml) : xml[i].tag \in names}
<1>1. Find(xml, names, from) = IF I # {} THEN Min(I) ELSE 0
  BY DEF Find, SelectInSubSeq
<1>2. I \in SUBSET Nat
  OBVIOUS
<1>3. I # {} => Min(I) \in I
  BY <1>2, SmallestOf
<1> QED
  BY <1>1, <1>3 DEF npos

LEMMA FoundLast ==
    ASSUME NEW xml \in Seq(Elements), NEW name
    PROVE  \/ RFind(xml, name) = npos /\ \A i \in DOMAIN xml : xml[i].tag # name
           \/ /\ RFind(xml, name) \in DOMAIN xml
              /\ xml[RFind(xml, name)].tag = name
<1> DEFINE I == {i \in 1 .. Len(xml) : xml[i].tag = name}
<1>1. RFind(xml, name) = IF I # {} THEN Max(I) ELSE 0
  BY DEF RFind, SelectLastInSeq
<1>2. Len(xml) \in Nat /\ I \in SUBSET (0 .. Len(xml)) /\ DOMAIN xml = 1 .. Len(xml)
  OBVIOUS
<1>3. I # {} => Max(I) \in I
  BY <1>2, LargestOf
<1> QED
  BY <1>1, <1>2, <1>3 DEF npos

-----------------------------------------------------------------------------
(* What the edits put in.                                                  *)

LEMMA Fresh ==
    ASSUME NEW first \in Elements, NEW last \in Elements, NEW text \in Seq(Words)
    PROVE  /\ <<first>> \o Runs(text) \o <<last>> \in Seq(Elements)
           /\ Len(<<first>> \o Runs(text) \o <<last>>) = Len(text) + 2
           /\ (<<first>> \o Runs(text) \o <<last>>)[1] = first
           /\ (<<first>> \o Runs(text) \o <<last>>)[Len(text) + 2] = last
           /\ \A k \in 2 .. Len(text) + 1 :
                 (<<first>> \o Runs(text) \o <<last>>)[k].tag = "t"
<1> DEFINE r == Runs(text)
           fr == <<first>> \o r
<1>1. ASSUME NEW word \in Words PROVE Run(XmlEscape(word)) \in Elements
  <2>1. XmlEscape(word) \in Words
    BY DEF XmlEscape, Words
  <2> QED
    BY <2>1 DEF Run, Tags, Elements
<1>2. /\ r \in Seq(Elements) /\ Len(r) = Len(text)
      /\ \A k \in 1 .. Len(text) : r[k].tag = "t"
  <2>1. DOMAIN text = 1 .. Len(text) /\ Len(text) \in Nat
    OBVIOUS
  <2>2. \A k \in 1 .. Len(text) : r[k] = Run(XmlEscape(text[k])) /\ text[k] \in Words
    BY <2>1 DEF Runs
  <2>3. r \in [1 .. Len(text) -> Elements]
    BY <1>1, <2>1, <2>2 DEF Runs
  <2> HIDE DEF r
  <2> QED
    BY <2>1, <2>2, <2>3 DEF Run
<1> HIDE DEF r
<1>3. /\ fr \in Seq(Elements) /\ Len(fr) = Len(text) + 1 /\ fr[1] = first
      /\ \A k \in 2 .. Len(text) + 1 : fr[k].tag = "t"
  <2>1. <<first>> \in Seq(Elements) /\ Len(<<first>>) = 1 /\ <<first>>[1] = first
    OBVIOUS
  <2>2. /\ fr \in Seq(Elements) /\ Len(fr) = 1 + Len(r) /\ fr[1] = first
        /\ \A k \in 1 .. Len(r) : fr[1 + k] = r[k]
    BY <1>2, <2>1, Joined
  <2>3. ASSUME NEW k \in 2 .. Len(text) + 1 PROVE fr[k].tag = "t"
    <3>1. k - 1 \in 1 .. Len(text) /\ 1 + (k - 1) = k
      OBVIOUS
    <3> QED
      BY <1>2, <2>2, <3>1
  <2> QED
    BY <1>2, <2>2, <2>3
<1> HIDE DEF fr
<1>4. /\ <<last>> \in Seq(Elements) /\ Len(<<last>>) = 1 /\ <<last>>[1] = last
  OBVIOUS
<1>5. /\ fr \o <<last>> \in Seq(Elements) /\ Len(fr \o <<last>>) = Len(fr) + 1
      /\ \A k \in 1 .. Len(fr) : (fr \o <<last>>)[k] = fr[k]
      /\ (fr \o <<last>>)[Len(fr) + 1] = last
  BY <1>3, <1>4, Joined
<1>6. Len(text) \in Nat
  OBVIOUS
<1>7. /\ fr \o <<last>> \in Seq(Elements) /\ Len(fr \o <<last>>) = Len(text) + 2
      /\ (fr \o <<last>>)[1] = first /\ (fr \o <<last>>)[Len(text) + 2] = last
      /\ \A k \in 2 .. Len(text) + 1 : (fr \o <<last>>)[k].tag = "t"
  BY <1>3, <1>5, <1>6
<1> QED
  BY <1>7, Zenon DEF fr, r

LEMMA OnePair ==
    ASSUME NEW xml \in Seq(Elements), NEW open, NEW close, NEW single,
           open # close, "t" \notin {open, close, single}, Len(xml) > 1,
           xml[1].tag = open, xml[Len(xml)].tag = close,
           \A k \in 2 .. Len(xml) - 1 : xml[k].tag = "t"
    PROVE  Balanced(xml, open, close, single)
<1>1. DOMAIN xml = 1 .. Len(xml) /\ Len(xml) \in Nat
  OBVIOUS
<1>2. Pair(xml, open, close, 1, Len(xml))
  BY <1>1 DEF Pair
<1>3. \A i \in DOMAIN xml : /\ xml[i].tag = open => i = 1
                            /\ xml[i].tag = close => i = Len(xml)
                            /\ 1 < i /\ i < Len(xml) => xml[i].tag = "t"
  BY <1>1
<1>4. Alternate(xml, open, close)
  BY <1>1, <1>2, <1>3 DEF Alternate
<1>5. Flat(xml, open, close, single)
  BY <1>1, <1>3 DEF Flat, Pair
<1> QED
  BY <1>4, <1>5 DEF Balanced

LEMMA FreshParagraph ==
    ASSUME NEW text \in Seq(Words)
    PROVE  /\ NewParagraph(text) \in Seq(Elements)
           /\ Balanced(NewParagraph(text), "p", "/p", "p .../")
           /\ \A i \in DOMAIN NewParagraph(text) :
                 NewParagraph(text)[i].tag \in {"p", "t", "/p"}
<1> DEFINE xml == NewParagraph(text)
<1>1. Tag("p") \in Elements /\ Tag("/p") \in Elements
  BY DEF Tag, Tags, Elements
<1>2. Len(text) \in Nat
  OBVIOUS
<1>3. /\ xml \in Seq(Elements) /\ Len(xml) = Len(text) + 2
      /\ xml[1].tag = "p" /\ xml[Len(xml)].tag = "/p"
      /\ \A k \in 2 .. Len(xml) - 1 : xml[k].tag = "t"
  <2>1. /\ xml \in Seq(Elements) /\ Len(xml) = Len(text) + 2
        /\ xml[1] = Tag("p") /\ xml[Len(text) + 2] = Tag("/p")
        /\ \A k \in 2 .. Len(text) + 1 : xml[k].tag = "t"
    BY <1>1, Fresh DEF NewParagraph
  <2> HIDE DEF xml
  <2> QED
    BY <1>2, <2>1 DEF Tag
<1> HIDE DEF xml
<1>4. Balanced(xml, "p", "/p", "p .../")
  <2>1. Len(xml) > 1
    BY <1>2, <1>3
  <2> QED
    BY <1>3, <2>1, OnePair
<1>5. \A i \in DOMAIN xml : xml[i].tag \in {"p", "t", "/p"}
  BY <1>2, <1>3
<1> QED
  BY <1>3, <1>4, <1>5 DEF xml

LEMMA FreshEntry ==
    ASSUME NEW id \in Ids, NEW author \in Authors, NEW text \in Seq(Words)
    PROVE  /\ Entry(id, author, text) \in Seq(Elements)
           /\ Balanced(Entry(id, author, text), "comment", "/comment", "comment/")
           /\ \A i \in DOMAIN Entry(id, author, text) :
                 Entry(id, author, text)[i].tag \notin {"comments", "/comments"}
<1> DEFINE xml == Entry(id, author, text)
           first == [tag |-> "comment", id |-> id, author |-> XmlEscape(author)]
           last == Tag("/comment")
<1>1. first \in Elements /\ last \in Elements
  <2>1. id \in Int /\ XmlEscape(author) \in Words
    BY FilesAssumption DEF XmlEscape, Words
  <2> QED
    BY <2>1 DEF Tag, Tags, Elements
<1>2. Len(text) \in Nat
  OBVIOUS
<1>3. /\ xml \in Seq(Elements) /\ Len(xml) = Len(text) + 2
      /\ xml[1].tag = "comment" /\ xml[Len(xml)].tag = "/comment"
      /\ \A k \in 2 .. Len(xml) - 1 : xml[k].tag = "t"
  <2>1. xml = <<first>> \o Runs(text) \o <<last>>
    BY DEF Entry
  <2>2. first.tag = "comment" /\ last.tag = "/comment"
    BY DEF Tag
  <2> HIDE DEF xml, first
  <2> HIDE DEF last
  <2>3. /\ xml \in Seq(Elements) /\ Len(xml) = Len(text) + 2
        /\ xml[1] = first /\ xml[Len(text) + 2] = last
        /\ \A k \in 2 .. Len(text) + 1 : xml[k].tag = "t"
    <3>1. /\ <<first>> \o Runs(text) \o <<last>> \in Seq(Elements)
          /\ Len(<<first>> \o Runs(text) \o <<last>>) = Len(text) + 2
          /\ (<<first>> \o Runs(text) \o <<last>>)[1] = first
          /\ (<<first>> \o Runs(text) \o <<last>>)[Len(text) + 2] = last
          /\ \A k \in 2 .. Len(text) + 1 :
                (<<first>> \o Runs(text) \o <<last>>)[k].tag = "t"
      BY <1>1, Fresh
    <3> QED
      BY <2>1, <3>1
  <2> QED
    BY <1>2, <2>2, <2>3
<1> HIDE DEF xml
<1>4. Balanced(xml, "comment", "/comment", "comment/")
  <2>1. Len(xml) > 1
    BY <1>2, <1>3
  <2> QED
    BY <1>3, <2>1, OnePair
<1>5. \A i \in DOMAIN xml : xml[i].tag \notin {"comments", "/comments"}
  BY <1>2, <1>3
<1> QED
  BY <1>3, <1>4, <1>5 DEF xml

-----------------------------------------------------------------------------
(* Paragraphs.                                                             *)

Lacks(xml, names) == \A i \in DOMAIN xml : xml[i].tag \notin names

\* What holds of a document whatever its paragraphs are: those that are opened are
\* closed, and nothing is behind its body.
Paired(xml) ==
    /\ Balanced(xml, "p", "/p", "p .../")
    /\ \A i \in DOMAIN xml : xml[i].tag = "/body" => i = Len(xml)

LEMMA GoodIsPaired == ASSUME NEW xml, GoodDocument(xml) PROVE Paired(xml)
<1>1. CASE xml = <<>>
  BY <1>1 DEF Paired, Balanced, Alternate, Flat
<1>2. CASE xml # <<>>
  BY <1>2 DEF GoodDocument, Paired, Rooted
<1> QED
  BY <1>1, <1>2

LEMMA DocumentCut ==
    ASSUME NEW xml \in Seq(Elements), Paired(xml),
           NEW i \in 1 .. Len(xml) + 1, Outside(xml, "p", "/p", i)
    PROVE  /\ Upto(xml, i - 1) \in Seq(Elements) /\ From(xml, i) \in Seq(Elements)
           /\ Balanced(Upto(xml, i - 1), "p", "/p", "p .../")
           /\ i <= Len(xml) \/ Lacks(xml, {"/body"}) => Lacks(Upto(xml, i - 1), {"/body"})
           /\ Paired(From(xml, i))
<1> DEFINE s == Upto(xml, i - 1)
           t == From(xml, i)
<1>1. /\ s \in Seq(Elements) /\ t \in Seq(Elements)
      /\ Len(s) = i - 1 /\ Len(t) = Len(xml) + 1 - i
      /\ \A k \in 1 .. i - 1 : s[k] = xml[k]
      /\ \A k \in 1 .. Len(xml) + 1 - i : t[k] = xml[i - 1 + k]
  BY Pieces
<1>2. Balanced(s, "p", "/p", "p .../") /\ Balanced(t, "p", "/p", "p .../")
  BY CutBalanced DEF Paired
<1> HIDE DEF s, t
<1>3. /\ Len(xml) \in Nat /\ DOMAIN xml = 1 .. Len(xml) /\ i \in Int
      /\ DOMAIN s = 1 .. i - 1 /\ DOMAIN t = 1 .. Len(xml) + 1 - i
  <2>1. DOMAIN s = 1 .. Len(s) /\ DOMAIN t = 1 .. Len(t)
    BY <1>1
  <2> QED
    BY <1>1, <2>1
<1>4. ASSUME NEW k \in DOMAIN s
      PROVE  /\ k \in DOMAIN xml /\ k # Len(xml) + 1 /\ s[k] = xml[k]
             /\ (i <= Len(xml) => k # Len(xml))
  BY <1>1, <1>3
<1>5. i <= Len(xml) \/ Lacks(xml, {"/body"}) => Lacks(s, {"/body"})
  BY <1>4 DEF Paired, Lacks
<1>6. ASSUME NEW k \in DOMAIN t, t[k].tag = "/body" PROVE k = Len(t)
  <2>1. k \in 1 .. Len(xml) + 1 - i
    BY <1>3
  <2>2. i - 1 + k \in DOMAIN xml /\ k \in Int
    BY <1>3, <2>1
  <2>3. xml[i - 1 + k] = t[k]
    BY <1>1, <2>1
  <2>4. i - 1 + k = Len(xml)
    BY <1>6, <2>2, <2>3 DEF Paired
  <2> QED
    BY <1>1, <1>3, <2>2, <2>4
<1> QED
  BY <1>1, <1>2, <1>5, <1>6 DEF Paired, s, t

LEMMA DocumentJoined ==
    ASSUME NEW s \in Seq(Elements), NEW t \in Seq(Elements),
           Balanced(s, "p", "/p", "p .../"), Lacks(s, {"/body"}), Paired(t)
    PROVE  /\ s \o t \in Seq(Elements) /\ Paired(s \o t)
           /\ Lacks(t, {"/body"}) => Lacks(s \o t, {"/body"})
<1> DEFINE xml == s \o t
           m == Len(s)
<1>1. /\ m \in Nat /\ Len(t) \in Nat /\ DOMAIN xml = 1 .. m + Len(t)
      /\ xml \in Seq(Elements) /\ Len(xml) = m + Len(t)
      /\ DOMAIN s = 1 .. m /\ DOMAIN t = 1 .. Len(t)
      /\ \A k \in DOMAIN s : xml[k] = s[k]
      /\ \A k \in DOMAIN xml : /\ k \in Int
                               /\ k = Len(xml) <=> k - m = Len(t)
                               /\ k \notin DOMAIN s => k - m \in DOMAIN t /\ xml[k] = t[k - m]
  BY JoinedAt, Zenon
<1>2. Balanced(xml, "p", "/p", "p .../")
  BY JoinedBalanced DEF Paired
<1> HIDE DEF xml, m
<1>3. ASSUME NEW k \in DOMAIN xml, xml[k].tag = "/body"
      PROVE  k - m \in DOMAIN t /\ xml[k] = t[k - m] /\ k \in Int
  <2>1. k \notin DOMAIN s
    BY <1>1, <1>3 DEF Lacks
  <2> QED
    BY <1>1, <2>1
<1>4. ASSUME NEW k \in DOMAIN xml, xml[k].tag = "/body" PROVE k = Len(xml)
  <2>1. k - m = Len(t)
    BY <1>3, <1>4 DEF Paired
  <2> QED
    BY <1>1, <2>1
<1>5. Lacks(t, {"/body"}) => Lacks(xml, {"/body"})
  BY <1>3 DEF Lacks
<1> QED
  BY <1>1, <1>2, <1>4, <1>5 DEF Paired, xml

LEMMA DocumentCuts ==
    ASSUME NEW xml \in Seq(Elements), Paired(xml)
    PROVE  /\ \A i \in DOMAIN xml : xml[i].tag \in ParagraphStarts => Outside(xml, "p", "/p", i)
           /\ \A i \in DOMAIN xml : xml[i].tag = "/p" => Outside(xml, "p", "/p", i + 1)
           /\ Outside(xml, "p", "/p", Len(xml) + 1)
           /\ Len(xml) > 0 /\ xml[Len(xml)].tag # "/p" => Outside(xml, "p", "/p", Len(xml))
<1> DEFINE open == "p"
           close == "/p"
           single == "p .../"
<1>1. open # close /\ single \notin {open, close} /\ ParagraphStarts = {open, single}
  BY DEF ParagraphStarts
<1>2. Flat(xml, open, close, single)
  BY DEF Paired, Balanced
<1> HIDE DEF open, close, single
<1>3. /\ \A i \in DOMAIN xml : xml[i].tag = open => Outside(xml, open, close, i)
      /\ \A i \in DOMAIN xml : xml[i].tag = close => Outside(xml, open, close, i + 1)
      /\ \A i \in DOMAIN xml : xml[i].tag = single => Outside(xml, open, close, i)
      /\ Outside(xml, open, close, Len(xml) + 1)
      /\ Len(xml) > 0 /\ xml[Len(xml)].tag # close => Outside(xml, open, close, Len(xml))
  BY <1>1, <1>2, Cuts
<1>4. \A i \in DOMAIN xml : xml[i].tag \in ParagraphStarts => Outside(xml, open, close, i)
  BY <1>1, <1>3
<1> QED
  BY <1>3, <1>4 DEF open, close

LEMMA ParagraphFound ==
    ASSUME NEW xml \in Seq(Elements), NEW n
    PROVE  \/ FindNthParagraphStart(xml, n) = npos
           \/ /\ FindNthParagraphStart(xml, n) \in DOMAIN xml
              /\ xml[FindNthParagraphStart(xml, n)].tag \in ParagraphStarts
<1> DEFINE starts == {i \in DOMAIN xml : xml[i].tag \in ParagraphStarts}
           nth == {s \in starts : Cardinality({r \in starts : r < s}) = n}
<1>1. FindNthParagraphStart(xml, n) = IF nth = {} THEN npos ELSE CHOOSE s \in nth : TRUE
  BY Zenon DEF FindNthParagraphStart
<1>2. nth # {} => (CHOOSE s \in nth : TRUE) \in nth
  <2> HIDE DEF nth
  <2> QED
    OBVIOUS
<1>3. \A s \in nth : s \in DOMAIN xml /\ xml[s].tag \in ParagraphStarts
  OBVIOUS
<1> HIDE DEF nth
<1> QED
  BY <1>1, <1>2, <1>3

LEMMA ParagraphInserted ==
    ASSUME NEW xml \in Seq(Elements), Paired(xml), NEW text \in Seq(Words)
    PROVE  /\ InsertBefore(xml, "/body", NewParagraph(text)) \in Seq(Elements)
           /\ Paired(InsertBefore(xml, "/body", NewParagraph(text)))
<1> DEFINE new == NewParagraph(text)
           at == IF RFind(xml, "/body") = npos THEN Len(xml) + 1 ELSE RFind(xml, "/body")
           s == Upto(xml, at - 1)
           t == From(xml, at)
<1>1. InsertBefore(xml, "/body", new) = s \o new \o t
  BY DEF InsertBefore
<1>2. Len(xml) \in Nat /\ DOMAIN xml = 1 .. Len(xml)
  OBVIOUS
<1>3. /\ at \in 1 .. Len(xml) + 1 /\ Outside(xml, "p", "/p", at)
      /\ at <= Len(xml) \/ Lacks(xml, {"/body"})
  <2>1. /\ Outside(xml, "p", "/p", Len(xml) + 1)
        /\ Len(xml) > 0 /\ xml[Len(xml)].tag # "/p" => Outside(xml, "p", "/p", Len(xml))
    BY DocumentCuts
  <2>2. CASE RFind(xml, "/body") = npos
    BY <1>2, <2>1, <2>2, FoundLast DEF Lacks, npos
  <2>3. CASE RFind(xml, "/body") # npos
    <3>1. /\ RFind(xml, "/body") \in DOMAIN xml
          /\ xml[RFind(xml, "/body")].tag = "/body"
      BY <2>3, FoundLast
    <3>2. RFind(xml, "/body") = Len(xml)
      BY <3>1 DEF Paired
    <3>3. Len(xml) > 0 /\ xml[Len(xml)].tag = "/body"
      BY <1>2, <3>1, <3>2
    <3> QED
      BY <1>2, <2>1, <2>3, <3>2, <3>3
  <2> QED
    BY <2>2, <2>3
<1> HIDE DEF at
<1>4. /\ s \in Seq(Elements) /\ Balanced(s, "p", "/p", "p .../") /\ Lacks(s, {"/body"})
      /\ t \in Seq(Elements) /\ Paired(t)
  BY <1>3, DocumentCut
<1>5. /\ new \in Seq(Elements) /\ Paired(new) /\ Lacks(new, {"/body"})
  BY FreshParagraph DEF Paired, Lacks
<1> HIDE DEF s, t, new
<1>6. /\ s \o new \in Seq(Elements) /\ Paired(s \o new)
      /\ Lacks(s \o new, {"/body"})
  BY <1>4, <1>5, DocumentJoined
<1>7. s \o new \o t \in Seq(Elements) /\ Paired(s \o new \o t)
  <2>1. Balanced(s \o new, "p", "/p", "p .../")
    BY <1>6 DEF Paired
  <2> QED
    BY <1>4, <1>6, <2>1, DocumentJoined
<1> QED
  BY <1>1, <1>7 DEF new

LEMMA ParagraphApplied ==
    ASSUME NEW xml \in Seq(Elements), Paired(xml), NEW n, NEW text \in Seq(Words)
    PROVE  /\ ApplyParagraphDelta(xml, n, text) \in Seq(Elements)
           /\ Paired(ApplyParagraphDelta(xml, n, text))
<1> DEFINE new == NewParagraph(text)
           start == FindNthParagraphStart(xml, n)
           close == Find(xml, {"/p"}, start)
<1>1. Len(xml) \in Nat /\ DOMAIN xml = 1 .. Len(xml)
  OBVIOUS
<1>2. CASE start = npos
  <2>1. ApplyParagraphDelta(xml, n, text) = InsertBefore(xml, "/body", new)
    BY <1>2 DEF ApplyParagraphDelta
  <2> QED
    BY <2>1, ParagraphInserted
<1>3. CASE start # npos
  <2>1. start \in DOMAIN xml /\ xml[start].tag \in ParagraphStarts
    BY <1>3, ParagraphFound
  <2>2. start \in 1 .. Len(xml) + 1 /\ start <= Len(xml) /\ start \in Nat \ {0}
    <3> HIDE DEF start
    <3> QED
      BY <1>1, <2>1
  <2>3. Outside(xml, "p", "/p", start)
    <3> HIDE DEF start
    <3> QED
      BY <2>1, DocumentCuts DEF ParagraphStarts
  <2> DEFINE s == Upto(xml, start - 1)
  <2>4. s \in Seq(Elements) /\ Balanced(s, "p", "/p", "p .../") /\ Lacks(s, {"/body"})
    <3> HIDE DEF start
    <3> QED
      BY <2>2, <2>3, DocumentCut
  <2>5. /\ new \in Seq(Elements) /\ Paired(new) /\ Lacks(new, {"/body"})
    BY FreshParagraph DEF Paired, Lacks
  <2>6. /\ s \o new \in Seq(Elements) /\ Paired(s \o new)
        /\ Lacks(s \o new, {"/body"})
    <3> HIDE DEF s, new
    <3> QED
      BY <2>4, <2>5, DocumentJoined
  <2>7. CASE close = npos
    <3>1. ApplyParagraphDelta(xml, n, text) = s \o new
      BY <1>3, <2>7 DEF ApplyParagraphDelta
    <3> QED
      BY <2>6, <3>1
  <2>8. CASE close # npos
    <3>1. close \in DOMAIN xml /\ xml[close].tag = "/p"
      <4> HIDE DEF start
      <4>1. close \in start .. Len(xml) /\ xml[close].tag \in {"/p"}
        BY <2>2, <2>8, Found
      <4> HIDE DEF close
      <4> QED
        BY <1>1, <2>2, <4>1
    <3> DEFINE t == From(xml, close + 1)
    <3>2. t \in Seq(Elements) /\ Paired(t)
      <4> HIDE DEF close
      <4>1. Outside(xml, "p", "/p", close + 1)
        BY <3>1, DocumentCuts
      <4>2. close + 1 \in 1 .. Len(xml) + 1
        BY <1>1, <3>1
      <4> QED
        BY <4>1, <4>2, DocumentCut
    <3>3. s \o new \o t \in Seq(Elements) /\ Paired(s \o new \o t)
      <4>1. Balanced(s \o new, "p", "/p", "p .../")
        BY <2>6 DEF Paired
      <4> HIDE DEF s, new, t
      <4> QED
        BY <2>6, <3>2, <4>1, DocumentJoined
    <3>4. \/ ApplyParagraphDelta(xml, n, text) = xml
          \/ ApplyParagraphDelta(xml, n, text) = s \o new \o t
      BY <1>3, <2>8 DEF ApplyParagraphDelta
    <3> HIDE DEF s, new, t
    <3> QED
      BY <3>3, <3>4
  <2> QED
    BY <2>7, <2>8
<1> QED
  BY <1>2, <1>3

-----------------------------------------------------------------------------
(* Comments.                                                               *)

Root == {"comments", "/comments"}

\* The first part of a rooted text, and the rest of it.
Opening(s, open, close) ==
    /\ Len(s) > 0
    /\ \A i \in DOMAIN s : (s[i].tag = open <=> i = 1) /\ s[i].tag # close
Ending(t, open, close) ==
    /\ Len(t) > 0
    /\ \A i \in DOMAIN t : t[i].tag # open /\ (t[i].tag = close <=> i = Len(t))

LEMMA Inside ==
    ASSUME NEW n \in Nat, NEW i \in 1 .. n
    PROVE  (i # 1 => i \in 2 .. n) /\ (i # n => i + 1 \in 2 .. n)
OBVIOUS

LEMMA RootedCut ==
    ASSUME NEW xml \in Seq(Elements), NEW open, NEW close, Rooted(xml, open, close),
           NEW i \in 2 .. Len(xml)
    PROVE  Opening(Upto(xml, i - 1), open, close) /\ Ending(From(xml, i), open, close)
<1> DEFINE s == Upto(xml, i - 1)
           t == From(xml, i)
<1>1. /\ Len(xml) \in Nat /\ DOMAIN xml = 1 .. Len(xml)
      /\ i \in Int /\ i > 1 /\ i <= Len(xml) /\ i \in 1 .. Len(xml) + 1
  OBVIOUS
<1>2. /\ s \in Seq(Elements) /\ t \in Seq(Elements)
      /\ Len(s) = i - 1 /\ Len(t) = Len(xml) + 1 - i
      /\ \A k \in 1 .. i - 1 : s[k] = xml[k]
      /\ \A k \in 1 .. Len(xml) + 1 - i : t[k] = xml[i - 1 + k]
  BY <1>1, Pieces
<1> HIDE DEF s, t
<1>3. DOMAIN s = 1 .. i - 1 /\ DOMAIN t = 1 .. Len(xml) + 1 - i
  <2>1. DOMAIN s = 1 .. Len(s) /\ DOMAIN t = 1 .. Len(t)
    BY <1>2
  <2> QED
    BY <1>2, <2>1
<1>4. ASSUME NEW k \in DOMAIN s
      PROVE  k \in DOMAIN xml /\ k # Len(xml) /\ s[k] = xml[k]
  BY <1>1, <1>2, <1>3
<1>5. ASSUME NEW k \in DOMAIN t
      PROVE  /\ i - 1 + k \in DOMAIN xml /\ i - 1 + k # 1 /\ t[k] = xml[i - 1 + k]
             /\ i - 1 + k = Len(xml) <=> k = Len(t)
  <2>1. k \in 1 .. Len(xml) + 1 - i
    BY <1>3
  <2>2. t[k] = xml[i - 1 + k]
    BY <1>2, <2>1
  <2> QED
    BY <1>1, <1>2, <2>1, <2>2
<1>6. Len(s) > 0 /\ Len(t) > 0
  BY <1>1, <1>2
<1> QED
  BY <1>4, <1>5, <1>6 DEF Rooted, Opening, Ending, s, t

LEMMA RootedJoined ==
    ASSUME NEW s \in Seq(Elements), NEW t \in Seq(Elements), NEW open, NEW close,
           Opening(s, open, close)
    PROVE  /\ Lacks(t, {open, close}) => Opening(s \o t, open, close)
           /\ Ending(t, open, close) => Rooted(s \o t, open, close)
<1> DEFINE xml == s \o t
           m == Len(s)
<1>1. /\ m \in Nat /\ Len(t) \in Nat /\ DOMAIN xml = 1 .. m + Len(t)
      /\ Len(xml) = m + Len(t) /\ DOMAIN s = 1 .. m /\ DOMAIN t = 1 .. Len(t)
      /\ \A k \in DOMAIN s : xml[k] = s[k]
      /\ \A k \in DOMAIN xml :
            /\ k = Len(xml) <=> k - m = Len(t)
            /\ k \notin DOMAIN s => k - m \in DOMAIN t /\ k > m /\ xml[k] = t[k - m]
  BY JoinedAt, Zenon
<1> HIDE DEF xml, m
<1>2. m > 0
  BY DEF Opening, m
<1>3. ASSUME NEW k \in DOMAIN xml, k \notin DOMAIN s
      PROVE  k # 1 /\ (k = Len(xml) <=> k - m = Len(t))
  <2>1. k > m
    BY <1>1, <1>3
  <2> QED
    BY <1>1, <1>2, <2>1
<1>4. ASSUME NEW k \in DOMAIN s, Len(t) > 0 PROVE k # Len(xml)
  BY <1>1, <1>4
<1>5. Lacks(t, {open, close}) => Opening(xml, open, close)
  <2>1. Len(xml) > 0
    BY <1>1, <1>2
  <2> QED
    BY <1>1, <1>3, <2>1 DEF Opening, Lacks
<1>6. Ending(t, open, close) => Rooted(xml, open, close)
  <2> SUFFICES ASSUME Ending(t, open, close) PROVE Rooted(xml, open, close)
    OBVIOUS
  <2>1. Len(t) > 0
    BY DEF Ending
  <2>2. Len(xml) > 1
    BY <1>1, <1>2, <2>1
  <2> QED
    BY <1>1, <1>3, <1>4, <2>1, <2>2 DEF Opening, Ending, Rooted
<1> QED
  BY <1>5, <1>6 DEF xml

\* Of the comments' part.
OpensRoot(s)  == Opening(s, "comments", "/comments")
ClosesRoot(t) == Ending(t, "comments", "/comments")

LEMMA CommentsCut ==
    ASSUME NEW xml \in Seq(Elements), Rooted(xml, "comments", "/comments"),
           NEW i \in 2 .. Len(xml)
    PROVE  OpensRoot(Upto(xml, i - 1)) /\ ClosesRoot(From(xml, i))
BY RootedCut, Zenon DEF OpensRoot, ClosesRoot

LEMMA CommentsJoined ==
    ASSUME NEW s \in Seq(Elements), NEW t \in Seq(Elements), OpensRoot(s)
    PROVE  /\ Lacks(t, Root) => OpensRoot(s \o t)
           /\ ClosesRoot(t) => Rooted(s \o t, "comments", "/comments")
BY RootedJoined, Zenon DEF OpensRoot, ClosesRoot, Root

LEMMA CommentsCuts ==
    ASSUME NEW xml \in Seq(Elements), Balanced(xml, "comment", "/comment", "comment/")
    PROVE  /\ \A i \in DOMAIN xml : xml[i].tag \in {"comment", "comment/"} =>
                 Outside(xml, "comment", "/comment", i)
           /\ \A i \in DOMAIN xml : xml[i].tag = "/comment" =>
                 Outside(xml, "comment", "/comment", i + 1)
           /\ Len(xml) > 0 /\ xml[Len(xml)].tag # "/comment" =>
                 Outside(xml, "comment", "/comment", Len(xml))
<1> DEFINE open == "comment"
           close == "/comment"
           single == "comment/"
<1>1. open # close /\ single \notin {open, close}
  OBVIOUS
<1>2. Flat(xml, open, close, single)
  BY DEF Balanced
<1> HIDE DEF open, close, single
<1>3. /\ \A i \in DOMAIN xml : xml[i].tag = open => Outside(xml, open, close, i)
      /\ \A i \in DOMAIN xml : xml[i].tag = close => Outside(xml, open, close, i + 1)
      /\ \A i \in DOMAIN xml : xml[i].tag = single => Outside(xml, open, close, i)
      /\ Len(xml) > 0 /\ xml[Len(xml)].tag # close => Outside(xml, open, close, Len(xml))
  BY <1>1, <1>2, Cuts
<1>4. \A i \in DOMAIN xml : xml[i].tag \in {open, single} => Outside(xml, open, close, i)
  BY <1>3
<1> QED
  BY <1>3, <1>4 DEF open, close, single

\* What the part is made of when it is there.
Comments(xml) ==
    /\ xml \in Seq(Elements)
    /\ Rooted(xml, "comments", "/comments")
    /\ Balanced(xml, "comment", "/comment", "comment/")

LEMMA CommentTakenOut ==
    ASSUME NEW xml, Comments(xml), NEW id
    PROVE  Comments(WithoutComment(xml, id))
<1> DEFINE I == {i \in 1 .. Len(xml) :
                    xml[i].tag \in {"comment", "comment/"} /\ xml[i].id = id}
           start == SelectInSeq(xml, LAMBDA x : x.tag \in {"comment", "comment/"} /\ x.id = id)
           end == Find(xml, {"/comment"}, start)
<1>1. /\ xml \in Seq(Elements) /\ Len(xml) \in Nat /\ DOMAIN xml = 1 .. Len(xml)
      /\ Rooted(xml, "comments", "/comments")
      /\ Balanced(xml, "comment", "/comment", "comment/")
  BY DEF Comments
<1>2. start = IF I # {} THEN Min(I) ELSE 0
  BY DEF SelectInSeq
<1>3. \/ start = npos
      \/ start \in DOMAIN xml /\ xml[start].tag \in {"comment", "comment/"}
  <2>1. I \in SUBSET Nat
    OBVIOUS
  <2>2. I # {} => Min(I) \in I
    <3> HIDE DEF I
    <3> QED
      BY <2>1, SmallestOf
  <2> HIDE DEF start
  <2> QED
    BY <1>1, <1>2, <2>2 DEF npos
<1>4. WithoutComment(xml, id) = IF start = npos \/ end = npos THEN xml
                                ELSE Upto(xml, start - 1) \o From(xml, end + 1)
  BY DEF WithoutComment
<1> HIDE DEF start
<1>5. CASE start # npos /\ end # npos
  <2>1. /\ start \in DOMAIN xml /\ xml[start].tag \in {"comment", "comment/"}
        /\ start \in Nat \ {0}
    BY <1>1, <1>3, <1>5
  <2>2. end \in start .. Len(xml) /\ xml[end].tag \in {"/comment"}
    BY <1>1, <1>5, <2>1, Found
  <2> HIDE DEF end
  <2>3. end \in DOMAIN xml /\ xml[end].tag = "/comment"
    BY <1>1, <2>1, <2>2
  <2>4. start # 1 /\ end # Len(xml)
    BY <1>1, <2>1, <2>3 DEF Rooted
  <2>5. start \in 2 .. Len(xml) /\ end + 1 \in 2 .. Len(xml)
    BY <1>1, <2>1, <2>3, <2>4, Inside
  <2>6. start \in 1 .. Len(xml) + 1 /\ end + 1 \in 1 .. Len(xml) + 1
    BY <1>1, <2>5
  <2>7. /\ Outside(xml, "comment", "/comment", start)
        /\ Outside(xml, "comment", "/comment", end + 1)
    BY <1>1, <2>1, <2>3, CommentsCuts
  <2> DEFINE s == Upto(xml, start - 1)
             t == From(xml, end + 1)
  <2>8. /\ s \in Seq(Elements) /\ OpensRoot(s) /\ Balanced(s, "comment", "/comment", "comment/")
        /\ t \in Seq(Elements) /\ ClosesRoot(t) /\ Balanced(t, "comment", "/comment", "comment/")
    <3>1. s \in Seq(Elements) /\ t \in Seq(Elements)
      BY <1>1, <2>6, Pieces
    <3>2. OpensRoot(s) /\ ClosesRoot(t)
      BY <1>1, <2>5, CommentsCut
    <3>3. /\ Balanced(s, "comment", "/comment", "comment/")
          /\ Balanced(t, "comment", "/comment", "comment/")
      BY <1>1, <2>6, <2>7, CutBalanced
    <3> QED
      BY <3>1, <3>2, <3>3
  <2> HIDE DEF s, t
  <2>9. Comments(s \o t)
    BY <2>8, Joined, JoinedBalanced, CommentsJoined DEF Comments
  <2> QED
    BY <1>4, <1>5, <2>9 DEF s, t
<1> QED
  BY <1>4, <1>5

LEMMA CommentInserted ==
    ASSUME NEW xml, Comments(xml), NEW id \in Ids, NEW author \in Authors,
           NEW text \in Seq(Words)
    PROVE  Comments(InsertBefore(xml, "/comments", Entry(id, author, text)))
<1> DEFINE new == Entry(id, author, text)
           s == Upto(xml, Len(xml) - 1)
           t == From(xml, Len(xml))
<1>1. /\ xml \in Seq(Elements) /\ Len(xml) \in Nat /\ DOMAIN xml = 1 .. Len(xml)
      /\ Rooted(xml, "comments", "/comments") /\ Len(xml) > 1
      /\ Balanced(xml, "comment", "/comment", "comment/")
  BY DEF Comments, Rooted
<1>2. Len(xml) \in DOMAIN xml /\ Len(xml) \in 2 .. Len(xml) /\ Len(xml) \in 1 .. Len(xml) + 1
  BY <1>1
<1>3. xml[Len(xml)].tag = "/comments"
  BY <1>1, <1>2 DEF Rooted
<1>4. RFind(xml, "/comments") = Len(xml) /\ RFind(xml, "/comments") # npos
  <2>1. /\ RFind(xml, "/comments") \in DOMAIN xml
        /\ xml[RFind(xml, "/comments")].tag = "/comments"
    BY <1>1, <1>2, <1>3, FoundLast
  <2> QED
    BY <1>1, <2>1 DEF Rooted, npos
<1>5. InsertBefore(xml, "/comments", new) = s \o new \o t
  BY <1>4 DEF InsertBefore
<1>6. Outside(xml, "comment", "/comment", Len(xml))
  BY <1>1, <1>3, CommentsCuts
<1>7. /\ s \in Seq(Elements) /\ OpensRoot(s) /\ Balanced(s, "comment", "/comment", "comment/")
      /\ t \in Seq(Elements) /\ ClosesRoot(t) /\ Balanced(t, "comment", "/comment", "comment/")
  <2>1. s \in Seq(Elements) /\ t \in Seq(Elements)
    BY <1>1, <1>2, Pieces
  <2>2. OpensRoot(s) /\ ClosesRoot(t)
    BY <1>1, <1>2, CommentsCut
  <2>3. /\ Balanced(s, "comment", "/comment", "comment/")
        /\ Balanced(t, "comment", "/comment", "comment/")
    BY <1>1, <1>2, <1>6, CutBalanced
  <2> QED
    BY <2>1, <2>2, <2>3
<1>8. /\ new \in Seq(Elements) /\ Lacks(new, Root)
      /\ Balanced(new, "comment", "/comment", "comment/")
  BY FreshEntry DEF Lacks, Root
<1> HIDE DEF s, t, new
<1>9. /\ s \o new \in Seq(Elements) /\ OpensRoot(s \o new)
      /\ Balanced(s \o new, "comment", "/comment", "comment/")
  BY <1>7, <1>8, Joined, JoinedBalanced, CommentsJoined
<1>10. Comments(s \o new \o t)
  BY <1>7, <1>9, Joined, JoinedBalanced, CommentsJoined DEF Comments
<1> QED
  BY <1>5, <1>10 DEF new

LEMMA SkeletonIsGood == Comments(Skeleton)
<1> DEFINE xml == Skeleton
<1>1. Tag("comments") \in Elements /\ Tag("/comments") \in Elements
  BY DEF Tag, Tags, Elements
<1>2. /\ xml \in Seq(Elements) /\ Len(xml) = 2 /\ DOMAIN xml = {1, 2}
      /\ xml[1].tag = "comments" /\ xml[2].tag = "/comments"
  <2>1. /\ xml \in Seq(Elements) /\ Len(xml) = 2
        /\ xml[1] = Tag("comments") /\ xml[2] = Tag("/comments")
    BY <1>1 DEF Skeleton
  <2>2. DOMAIN xml = 1 .. 2
    BY <2>1
  <2> HIDE DEF xml
  <2> QED
    BY <2>1, <2>2 DEF Tag
<1> HIDE DEF xml
<1>3. Rooted(xml, "comments", "/comments")
  BY <1>2 DEF Rooted
<1>4. Balanced(xml, "comment", "/comment", "comment/")
  BY <1>2 DEF Balanced, Alternate, Flat, Pair
<1> QED
  BY <1>2, <1>3, <1>4 DEF Comments, xml

-----------------------------------------------------------------------------
(* The parts.                                                              *)

IInv ==
    /\ documentXml \in Seq(Elements) /\ commentsXml \in Seq(Elements)
    /\ Paired(documentXml) /\ GoodComments(commentsXml)

LEMMA InitGood == Init => IInv
<1> SUFFICES ASSUME Init PROVE IInv
  OBVIOUS
<1>1. PICK file \in Files \cup {[document |-> <<>>, comments |-> <<>>]} :
         documentXml = file.document /\ commentsXml = file.comments
  BY DEF Init
<1>2. CASE file \in Files
  BY <1>1, <1>2, FilesAssumption, GoodIsPaired DEF IInv
<1>3. CASE file = [document |-> <<>>, comments |-> <<>>]
  <2>1. documentXml = <<>> /\ commentsXml = <<>>
    BY <1>1, <1>3
  <2> QED
    BY <2>1 DEF IInv, Paired, GoodComments, Balanced, Alternate, Flat
<1> QED
  BY <1>2, <1>3

LEMMA NextGood == IInv /\ [Next]_vars => IInv'
<1> SUFFICES ASSUME IInv, [Next]_vars PROVE IInv'
  OBVIOUS
<1> USE DEF IInv
<1>1. ASSUME NEW n \in Indices, NEW text \in Texts, EditParagraph(n, text) PROVE IInv'
  <2>1. text \in Seq(Words)
    BY FilesAssumption
  <2>2. /\ documentXml' = ApplyParagraphDelta(documentXml, n, text)
        /\ commentsXml' = commentsXml
    BY <1>1 DEF EditParagraph
  <2> QED
    BY <2>1, <2>2, ParagraphApplied
<1>2. ASSUME NEW id \in Ids, NEW author \in Authors, NEW text \in Texts,
             EditComment(id, author, text)
      PROVE  IInv'
  <2>1. text \in Seq(Words)
    BY FilesAssumption
  <2>2. /\ commentsXml' = ApplyCommentDelta(commentsXml, id, author, text)
        /\ documentXml' = documentXml
    BY <1>2 DEF EditComment
  <2> DEFINE old == IF commentsXml = <<>> THEN Skeleton ELSE commentsXml
  <2>3. Comments(old)
    BY SkeletonIsGood DEF GoodComments, Comments
  <2>4. commentsXml' = InsertBefore(WithoutComment(old, id), "/comments",
                                    Entry(id, author, text))
    BY <2>2 DEF ApplyCommentDelta
  <2> HIDE DEF old
  <2>5. Comments(commentsXml')
    BY <2>1, <2>3, <2>4, CommentTakenOut, CommentInserted
  <2> QED
    BY <2>2, <2>5 DEF Comments, GoodComments
<1>3. CASE UNCHANGED vars
  BY <1>3 DEF vars
<1> QED
  BY <1>1, <1>2, <1>3 DEF Next

-----------------------------------------------------------------------------
(* What a search finds.                                                    *)

LEMMA FoundFirst ==
    ASSUME NEW xml \in Seq(Elements), NEW names, NEW from \in Nat
    PROVE  /\ Find(xml, names, from) = npos =>
                 from = 0 \/ \A k \in from .. Len(xml) : xml[k].tag \notin names
           /\ Find(xml, names, from) # npos =>
                 /\ Find(xml, names, from) \in from .. Len(xml)
                 /\ xml[Find(xml, names, from)].tag \in names
                 /\ \A k \in from .. Len(xml) :
                       xml[k].tag \in names => Find(xml, names, from) <= k
<1> DEFINE I == {i \in from .. Len(xml) : xml[i].tag \in names}
<1>1. Find(xml, names, from) = IF I # {} THEN Min(I) ELSE 0
  BY DEF Find, SelectInSubSeq
<1>2. I \in SUBSET Nat
  OBVIOUS
<1>3. I # {} => Min(I) \in I /\ \A k \in I : Min(I) <= k
  <2> HIDE DEF I
  <2> QED
    BY <1>2, SmallestOf
<1>4. \A i \in I : i = 0 => from = 0
  OBVIOUS
<1>5. CASE I = {}
  BY <1>1, <1>5 DEF npos
<1>6. CASE I # {}
  <2>1. Min(I) = npos => from = 0
    BY <1>3, <1>4, <1>6 DEF npos
  <2>2. /\ Min(I) \in from .. Len(xml) /\ xml[Min(I)].tag \in names
        /\ \A k \in from .. Len(xml) : xml[k].tag \in names => Min(I) <= k
    BY <1>3, <1>6, Zenon
  <2> HIDE DEF I
  <2> QED
    BY <1>1, <1>6, <2>1, <2>2
<1> QED
  BY <1>5, <1>6

\* The first of the tags looked for is where nothing before it is one.
LEMMA FoundAt ==
    ASSUME NEW xml \in Seq(Elements), NEW names, NEW from \in Nat \ {0},
           NEW i \in from .. Len(xml), xml[i].tag \in names,
           \A k \in from .. i - 1 : xml[k].tag \notin names
    PROVE  Find(xml, names, from) = i /\ i # npos
<1> DEFINE at == Find(xml, names, from)
<1>1. /\ at = npos => from = 0 \/ \A k \in from .. Len(xml) : xml[k].tag \notin names
      /\ at # npos => /\ at \in from .. Len(xml) /\ xml[at].tag \in names
                      /\ \A k \in from .. Len(xml) : xml[k].tag \in names => at <= k
  BY FoundFirst, Zenon
<1> HIDE DEF at
<1>2. at # npos
  BY <1>1
<1>3. at \in from .. Len(xml) /\ at <= i /\ xml[at].tag \in names
  BY <1>1, <1>2
<1>4. ~(at \in from .. i - 1)
  BY <1>3
<1>5. at = i
  BY <1>3, <1>4
<1> QED
  BY <1>2, <1>5 DEF at

\* The tag that closes an open one is the next of its name.
LEMMA ClosedBy ==
    ASSUME NEW xml \in Seq(Elements), NEW open, NEW close, open # close,
           NEW i \in DOMAIN xml, NEW j \in DOMAIN xml, Pair(xml, open, close, i, j)
    PROVE  Find(xml, {close}, i) = j /\ j # npos /\ i < j
<1>1. /\ DOMAIN xml = 1 .. Len(xml) /\ Len(xml) \in Nat
  OBVIOUS
<1>2. /\ i < j /\ xml[i].tag = open /\ xml[j].tag = close
      /\ \A k \in i + 1 .. j - 1 : xml[k].tag \notin {open, close}
  BY DEF Pair
<1>3. \A k \in i .. j - 1 : xml[k].tag \notin {close}
  BY <1>1, <1>2
<1>4. i \in Nat \ {0} /\ j \in i .. Len(xml)
  BY <1>1, <1>2
<1> QED
  BY <1>2, <1>3, <1>4, FoundAt

-----------------------------------------------------------------------------
(* What a peer reads in a document: a block at each paragraph's start.     *)

Even(xml) ==
    /\ xml \in Seq(Elements) /\ Alternate(xml, "p", "/p")
    /\ Lacks(xml, {"p .../"})

BlockAt(xml, i) ==
    IF xml[i].tag = "p" THEN << SubSeq(xml, i, Find(xml, {"/p"}, i)) >> ELSE <<>>
BlocksOf(xml) == [i \in 1 .. Len(xml) |-> BlockAt(xml, i)]

LEMMA BlocksTyped ==
    ASSUME NEW xml, Even(xml)
    PROVE  /\ BlocksOf(xml) \in Seq(Seq(Seq(Elements))) /\ Len(BlocksOf(xml)) = Len(xml)
           /\ \A i \in 1 .. Len(xml) : BlocksOf(xml)[i] = BlockAt(xml, i)
           /\ \A i \in 1 .. Len(xml) : BlockAt(xml, i) \in Seq(Seq(Elements))
<1>1. xml \in Seq(Elements) /\ Len(xml) \in Nat /\ DOMAIN xml = 1 .. Len(xml)
  <2>1. xml \in Seq(Elements)
    BY DEF Even
  <2> QED
    BY <2>1
<1>2. ASSUME NEW i \in 1 .. Len(xml) PROVE BlockAt(xml, i) \in Seq(Seq(Elements))
  <2>1. CASE xml[i].tag = "p"
    <3>1. PICK j \in DOMAIN xml : Pair(xml, "p", "/p", i, j)
      BY <1>1, <2>1 DEF Even, Alternate
    <3>2. Find(xml, {"/p"}, i) = j
      BY <1>1, <3>1, ClosedBy
    <3>3. SubSeq(xml, i, j) \in Seq(Elements)
      BY <1>1
    <3> QED
      BY <2>1, <3>2, <3>3 DEF BlockAt
  <2>2. CASE xml[i].tag # "p"
    BY <2>2 DEF BlockAt
  <2> QED
    BY <2>1, <2>2
<1>3. BlocksOf(xml) \in Seq(Seq(Seq(Elements))) /\ Len(BlocksOf(xml)) = Len(xml)
  <2> DEFINE S == Seq(Seq(Elements))
  <2>1. BlocksOf(xml) \in [1 .. Len(xml) -> S]
    BY <1>2 DEF BlocksOf
  <2> HIDE DEF S
  <2>2. BlocksOf(xml) \in Seq(S) /\ Len(BlocksOf(xml)) = Len(xml)
    BY <1>1, <2>1
  <2> QED
    BY <2>2 DEF S
<1> QED
  BY <1>2, <1>3 DEF BlocksOf

\* A peer reads the block of each tag that opens a paragraph.
LEMMA PeerReads ==
    ASSUME NEW xml, Even(xml)
    PROVE  ParagraphBlocks(xml) = FlattenSeq(BlocksOf(xml))
<1> DEFINE N == Len(xml)
           B == BlocksOf(xml)
           start(p) == Find(xml, ParagraphStarts, p)
           close(p) == Find(xml, {"/p"}, start(p))
           F(g) == [pos \in Nat |->
                      IF start(pos) = npos \/ close(pos) = npos THEN <<>>
                      ELSE << SubSeq(xml, start(pos), close(pos)) >> \o g[close(pos) + 1]]
           stop == [p \in Nat |-> start(p) = npos \/ close(p) = npos]
           head == [p \in Nat |-> << SubSeq(xml, start(p), close(p)) >>]
           next == [p \in Nat |-> close(p) + 1]
<1>1. /\ xml \in Seq(Elements) /\ N \in Nat /\ DOMAIN xml = 1 .. N
      /\ \A p \in 1 .. N + 1 : p \in Nat \ {0}
  <2>1. xml \in Seq(Elements)
    BY DEF Even
  <2> QED
    BY <2>1
<1>2. ASSUME NEW g
      PROVE  g = F(g) <=> IsSearch(g, stop, head, next)
  <2>1. ASSUME NEW p \in Nat
        PROVE  (IF start(p) = npos \/ close(p) = npos THEN <<>>
                ELSE << SubSeq(xml, start(p), close(p)) >> \o g[close(p) + 1])
               = IF stop[p] THEN <<>> ELSE head[p] \o g[next[p]]
    <3>1. /\ stop[p] = (start(p) = npos \/ close(p) = npos)
          /\ head[p] = << SubSeq(xml, start(p), close(p)) >>
          /\ next[p] = close(p) + 1
      OBVIOUS
    <3> HIDE DEF stop, head, next
    <3> QED
      BY <3>1, Zenon
  <2> QED
    BY <2>1, Zenon DEF IsSearch
<1>3. ASSUME NEW p \in Nat, start(p) # npos
      PROVE  /\ start(p) \in p .. N /\ start(p) \in DOMAIN xml /\ start(p) # npos
             /\ xml[start(p)].tag = "p"
             /\ \A k \in p .. N : xml[k].tag = "p" => start(p) <= k
  <2> DEFINE s == start(p)
  <2>1. /\ s \in p .. N /\ xml[s].tag \in ParagraphStarts
        /\ \A k \in p .. N : xml[k].tag \in ParagraphStarts => s <= k
    BY <1>1, <1>3, FoundFirst
  <2>2. s # npos
    BY <1>3
  <2> HIDE DEF s
  <2>3. s \in DOMAIN xml
    BY <1>1, <2>1, <2>2 DEF npos
  <2>4. xml[s].tag = "p"
    BY <1>1, <2>1, <2>3 DEF Even, Lacks, ParagraphStarts
  <2> QED
    BY <2>1, <2>2, <2>3, <2>4 DEF ParagraphStarts, s
<1>4. ASSUME NEW p \in Nat, start(p) # npos
      PROVE  /\ close(p) \in DOMAIN xml /\ close(p) # npos /\ start(p) < close(p)
             /\ Pair(xml, "p", "/p", start(p), close(p))
  <2>1. start(p) \in DOMAIN xml /\ xml[start(p)].tag = "p"
    BY <1>3, <1>4
  <2> HIDE DEF start
  <2>2. PICK j \in DOMAIN xml : Pair(xml, "p", "/p", start(p), j)
    BY <2>1 DEF Even, Alternate
  <2>3. Find(xml, {"/p"}, start(p)) = j /\ j # npos /\ start(p) < j
    BY <1>1, <2>1, <2>2, ClosedBy
  <2> QED
    BY <2>2, <2>3
<1>5. \E f : f = F(f)
  <2>1. GoesOn(N, stop, next)
    <3> SUFFICES ASSUME NEW p \in Nat, ~stop[p]
                 PROVE  p <= N /\ next[p] \in Nat /\ next[p] > p
      BY DEF GoesOn
    <3>1. start(p) # npos /\ next[p] = close(p) + 1
      OBVIOUS
    <3>2. /\ start(p) \in p .. N /\ close(p) \in 1 .. N /\ start(p) < close(p)
      BY <1>1, <1>3, <1>4, <3>1
    <3> HIDE DEF start, close, next
    <3> QED
      BY <1>1, <3>1, <3>2
  <2>2. N \in Nat
    BY <1>1
  <2> HIDE DEF stop, head, next, F, N
  <2>3. \E f : IsSearch(f, stop, head, next)
    BY <2>1, <2>2, SearchDefined
  <2> QED
    BY <1>2, <2>3, Zenon
<1> DEFINE f == CHOOSE g : g = F(g)
<1>6. ParagraphBlocks(xml) = f[1]
  BY Zenon DEF ParagraphBlocks
<1>7. f = F(f)
  BY <1>5, Zenon
<1>8. IsSearch(f, stop, head, next)
  <2> HIDE DEF F, f, stop, head, next
  <2> QED
    BY <1>2, <1>7, Zenon
<1>9. /\ B \in Seq(Seq(Seq(Elements))) /\ Len(B) = N
      /\ \A i \in 1 .. N : B[i] = BlockAt(xml, i)
  BY BlocksTyped
<1> HIDE DEF f, F, B
<1>10. ASSUME NEW p \in 1 .. N + 1, stop[p] PROVE \A k \in p .. N : B[k] = <<>>
  <2>1. p \in Nat /\ p # 0
    BY <1>1
  <2>2. start(p) = npos
    <3>1. start(p) = npos \/ close(p) = npos
      BY <1>10, <2>1
    <3> QED
      BY <1>4, <2>1, <3>1
  <2>3. \A k \in p .. N : xml[k].tag \notin ParagraphStarts
    BY <1>1, <2>1, <2>2, FoundFirst
  <2>4. \A k \in p .. N : k \in 1 .. N
    BY <1>1
  <2>5. \A k \in p .. N : xml[k].tag # "p"
    BY <2>3 DEF ParagraphStarts
  <2> QED
    BY <1>9, <2>4, <2>5 DEF BlockAt
<1>11. ASSUME NEW p \in 1 .. N + 1, ~stop[p]
       PROVE  \E i \in p .. N, j \in p .. N :
                 /\ i <= j /\ next[p] = j + 1 /\ head[p] = B[i]
                 /\ \A k \in p .. j : k # i => B[k] = <<>>
  <2> DEFINE i == start(p)
             j == close(p)
  <2>1. p \in Nat /\ p # 0
    BY <1>1
  <2>2. i # npos /\ next[p] = j + 1 /\ head[p] = << SubSeq(xml, i, j) >>
    BY <1>11, <2>1
  <2>3. /\ i \in p .. N /\ xml[i].tag = "p" /\ j \in 1 .. N /\ i < j
        /\ Pair(xml, "p", "/p", i, j)
        /\ \A k \in p .. N : xml[k].tag = "p" => i <= k
    BY <1>1, <1>3, <1>4, <2>1, <2>2
  <2>4. j = Find(xml, {"/p"}, i)
    OBVIOUS
  <2> HIDE DEF stop, head, next, i, j
  <2>5. ASSUME NEW k \in p .. j, k # i PROVE B[k] = <<>>
    <3>1. k \in 1 .. N /\ k \in p .. N
      BY <1>1, <2>3
    <3>2. xml[k].tag # "p"
      <4>1. CASE k < i
        BY <1>1, <2>3, <3>1, <4>1
      <4>2. CASE i < k /\ k < j
        BY <1>1, <2>3, <3>1, <4>2, NothingBetween
      <4>3. CASE k = j
        BY <2>3, <4>3 DEF Pair
      <4> QED
        BY <1>1, <2>3, <2>5, <3>1, <4>1, <4>2, <4>3
    <3> QED
      BY <1>9, <3>1, <3>2 DEF BlockAt
  <2>6. head[p] = B[i]
    <3>1. i \in 1 .. N
      BY <1>1, <2>3
    <3> QED
      BY <1>9, <2>2, <2>3, <2>4, <3>1 DEF BlockAt
  <2>7. j \in p .. N /\ i <= j
    BY <1>1, <2>3
  <2> QED
    BY <2>2, <2>3, <2>5, <2>6, <2>7
<1>12. f[1] = FlattenSeq(B)
  <2> HIDE DEF stop, head, next, N
  <2> DEFINE S == Seq(Elements)
  <2>1. B \in Seq(Seq(S)) /\ N = Len(B)
    BY <1>9
  <2> HIDE DEF S
  <2>2. StopsAtNothing(N, B, stop)
    BY <1>10, Zenon DEF StopsAtNothing
  <2>3. FindsNext(N, B, stop, head, next)
    BY <1>11, Zenon DEF FindsNext
  <2> QED
    BY <1>8, <2>1, <2>2, <2>3, SearchCollects
<1> QED
  BY <1>6, <1>12 DEF B

LEMMA EvenTyped ==
    ASSUME NEW xml, Even(xml)
    PROVE  xml \in Seq(Elements) /\ Len(xml) \in Nat /\ DOMAIN xml = 1 .. Len(xml)
<1>1. xml \in Seq(Elements)
  BY DEF Even
<1> QED
  BY <1>1

\* A peer reads the paragraphs of a document where each has a tag of its own
\* to open and to close it.
Singles == {"p/", "p .../"}

LEMMA ReadsParagraphs ==
    ASSUME NEW xml \in Seq(Elements), Paired(xml), Lacks(xml, Singles)
    PROVE  /\ ParseParagraphDeltas(xml) = ParagraphTexts(xml)
           /\ ParagraphBlocks(xml) = Paragraphs(xml)
<1>1. Even(xml) /\ DOMAIN xml = 1 .. Len(xml)
  <2>1. Alternate(xml, "p", "/p") /\ Lacks(xml, {"p .../"})
    BY DEF Paired, Balanced, Lacks, Singles
  <2>2. DOMAIN xml = 1 .. Len(xml)
    OBVIOUS
  <2> QED
    BY <2>1, <2>2 DEF Even
<1>2. ASSUME NEW i \in DOMAIN xml
      PROVE  (CASE xml[i].tag = "p"                -> <<SubSeq(xml, i, Find(xml, {"/p"}, i))>>
                [] xml[i].tag \in {"p/", "p .../"} -> << <<>> >>
                [] OTHER                           -> <<>>)
             = BlockAt(xml, i)
  <2>1. xml[i].tag \notin {"p/", "p .../"}
    BY DEF Lacks, Singles
  <2> QED
    BY <2>1 DEF BlockAt
<1>3. [i \in DOMAIN xml |->
          CASE xml[i].tag = "p"                -> <<SubSeq(xml, i, Find(xml, {"/p"}, i))>>
            [] xml[i].tag \in {"p/", "p .../"} -> << <<>> >>
            [] OTHER                           -> <<>>]
      = BlocksOf(xml)
  BY <1>1, <1>2, Zenon DEF BlocksOf
<1>4. Paragraphs(xml) = FlattenSeq(BlocksOf(xml))
  BY <1>3, Zenon DEF Paragraphs
<1>5. ParagraphBlocks(xml) = Paragraphs(xml)
  BY <1>1, <1>4, PeerReads
<1> QED
  BY <1>5, Zenon DEF ParseParagraphDeltas, ParagraphTexts

\* Whatever the editor changed before, the index a peer reads for a paragraph is
\* the paragraph's own, as long as none is written as a single tag.
THEOREM IndicesAlwaysMatch == Spec => []IndicesMatch
<1>1. IInv => IndicesMatch
  <2> SUFFICES ASSUME IInv, Find(documentXml, Singles, 1) = npos
               PROVE  ParseParagraphDeltas(documentXml) = ParagraphTexts(documentXml)
    BY DEF IndicesMatch, Singles
  <2> DEFINE xml == documentXml
  <2>1. xml \in Seq(Elements)
    BY DEF IInv
  <2>2. Paired(xml) /\ Find(xml, Singles, 1) = npos
    BY DEF IInv
  <2> HIDE DEF xml
  <2>3. Lacks(xml, Singles)
    <3>1. \A k \in 1 .. Len(xml) : xml[k].tag \notin Singles
      <4>1. 1 \in Nat /\ 1 # 0
        OBVIOUS
      <4> QED
        BY <2>1, <2>2, <4>1, FoundFirst
    <3>2. DOMAIN xml = 1 .. Len(xml)
      BY <2>1
    <3> QED
      BY <3>1, <3>2 DEF Lacks
  <2> QED
    BY <2>1, <2>2, <2>3, ReadsParagraphs DEF xml
<1> QED
  BY <1>1, InitGood, NextGood, PTL DEF Spec

-----------------------------------------------------------------------------
(* Where a document is cut and joined, its blocks are.                     *)

LEMMA BlocksJoined ==
    ASSUME NEW s, NEW t, Even(s), Even(t)
    PROVE  Even(s \o t) /\ BlocksOf(s \o t) = BlocksOf(s) \o BlocksOf(t)
<1> DEFINE xml == s \o t
           m == Len(s)
<1>1. s \in Seq(Elements) /\ t \in Seq(Elements)
  BY EvenTyped
<1>2. /\ m \in Nat /\ Len(t) \in Nat /\ DOMAIN xml = 1 .. m + Len(t)
      /\ xml \in Seq(Elements) /\ Len(xml) = m + Len(t)
      /\ DOMAIN s = 1 .. m /\ DOMAIN t = 1 .. Len(t)
      /\ \A k \in 1 .. m : xml[k] = s[k]
      /\ \A k \in 1 .. Len(t) : xml[m + k] = t[k]
  BY <1>1, Joined
<1>3. Even(xml)
  <2>1. Balanced(s, "p", "/p", "p .../") /\ Balanced(t, "p", "/p", "p .../")
    BY DEF Balanced, Flat, Even, Lacks
  <2>2. Balanced(xml, "p", "/p", "p .../")
    BY <1>1, <2>1, JoinedBalanced
  <2> HIDE DEF xml, m
  <2>3. ASSUME NEW k \in DOMAIN xml PROVE xml[k].tag \notin {"p .../"}
    <3>1. CASE k \in 1 .. m
      BY <1>2, <3>1 DEF Even, Lacks
    <3>2. CASE k \notin 1 .. m
      <4>1. k - m \in 1 .. Len(t) /\ m + (k - m) = k
        BY <1>2, <3>2
      <4>2. xml[k] = t[k - m]
        BY <1>2, <4>1
      <4> QED
        BY <1>2, <4>1, <4>2 DEF Even, Lacks
    <3> QED
      BY <3>1, <3>2
  <2> QED
    BY <1>2, <2>2, <2>3 DEF Balanced, Even, Lacks
<1>4. /\ SubSeq(xml, 1, m) = s
      /\ \A i, j \in 1 .. m : SubSeq(xml, i, j) = SubSeq(s, i, j)
      /\ \A i, j \in 1 .. Len(t) : SubSeq(xml, m + i, m + j) = SubSeq(t, i, j)
  <2>1. \A i, j \in 1 .. m : SubSeq(xml, i, j) = SubSeq(s, i, j)
    BY <1>1, SubSeqOfConcat1
  <2>2. ASSUME NEW i \in 1 .. Len(t), NEW j \in 1 .. Len(t)
        PROVE  SubSeq(xml, m + i, m + j) = SubSeq(t, i, j)
    <3>1. /\ m + i \in Len(s) + 1 .. Len(s) + Len(t) /\ m + j \in Len(s) + 1 .. Len(s) + Len(t)
          /\ m + i - Len(s) = i /\ m + j - Len(s) = j
      BY <1>2
    <3>2. SubSeq(s \o t, m + i, m + j) = SubSeq(t, m + i - Len(s), m + j - Len(s))
      BY <1>1, <3>1, SubSeqOfConcat2
    <3> QED
      BY <3>1, <3>2
  <2>3. SubSeq(xml, 1, m) = s
    BY <1>1
  <2> QED
    BY <2>1, <2>2, <2>3
<1> HIDE DEF xml, m
\* What opens in a piece is closed in it.
<1>5. ASSUME NEW i \in 1 .. m PROVE BlockAt(xml, i) = BlockAt(s, i)
  <2>1. xml[i] = s[i]
    BY <1>2
  <2>2. CASE s[i].tag = "p"
    <3>1. PICK j \in DOMAIN s : Pair(s, "p", "/p", i, j)
      BY <1>2, <2>2 DEF Even, Alternate
    <3>2. Pair(xml, "p", "/p", i, j) /\ j \in DOMAIN xml /\ i \in DOMAIN xml
      BY <1>2, <3>1 DEF Pair
    <3>3. Find(s, {"/p"}, i) = j
      BY <1>1, <1>2, <3>1, ClosedBy
    <3>4. Find(xml, {"/p"}, i) = j
      BY <1>2, <3>2, ClosedBy
    <3> QED
      BY <1>2, <1>4, <2>1, <3>1, <3>3, <3>4 DEF BlockAt
  <2>3. CASE s[i].tag # "p"
    BY <2>1, <2>3 DEF BlockAt
  <2> QED
    BY <2>2, <2>3
<1>6. ASSUME NEW i \in 1 .. Len(t) PROVE BlockAt(xml, m + i) = BlockAt(t, i)
  <2>1. xml[m + i] = t[i]
    BY <1>2
  <2>2. CASE t[i].tag = "p"
    <3>1. PICK j \in DOMAIN t : Pair(t, "p", "/p", i, j)
      BY <1>2, <2>2 DEF Even, Alternate
    <3>2. Find(t, {"/p"}, i) = j /\ i < j
      BY <1>1, <1>2, <3>1, ClosedBy
    <3>3. /\ m + i \in Nat \ {0} /\ m + j \in m + i .. Len(xml)
          /\ xml[m + j].tag \in {"/p"}
      <4>1. xml[m + j] = t[j] /\ t[j].tag = "/p"
        BY <1>2, <3>1 DEF Pair
      <4>2. m + i \in Nat \ {0} /\ m + j \in m + i .. Len(xml)
        BY <1>2, <3>2
      <4> QED
        BY <4>1, <4>2
    <3> DEFINE a == m + i
               b == m + j
    <3>4. ASSUME NEW k \in a .. b - 1 PROVE xml[k].tag \notin {"/p"}
      <4>1. k - m \in 1 .. Len(t) /\ m + (k - m) = k /\ k - m \in Int /\ i <= k - m /\ k - m < j
        BY <1>2, <3>2
      <4>2. xml[k] = t[k - m]
        BY <1>2, <4>1
      <4>3. CASE i = k - m
        BY <2>2, <4>2, <4>3
      <4>4. CASE i < k - m
        <5>1. \A x \in Int : i < x /\ x < j => t[x].tag \notin {"p", "/p"}
          BY <3>1, NothingBetween
        <5> QED
          BY <4>1, <4>2, <4>4, <5>1
      <4> QED
        BY <4>1, <4>3, <4>4
    <3>5. Find(xml, {"/p"}, m + i) = m + j
      <4>1. xml \in Seq(Elements)
        BY <1>2
      <4>2. a \in Nat \ {0} /\ b \in a .. Len(xml) /\ xml[b].tag \in {"/p"}
        BY <3>3
      <4> HIDE DEF a, b
      <4>3. Find(xml, {"/p"}, a) = b
        BY <3>4, <4>1, <4>2, FoundAt
      <4> QED
        BY <4>3 DEF a, b
    <3> QED
      BY <1>2, <1>4, <2>1, <3>2, <3>5 DEF BlockAt
  <2>3. CASE t[i].tag # "p"
    BY <2>1, <2>3 DEF BlockAt
  <2> QED
    BY <2>2, <2>3
<1>7. BlocksOf(xml) = BlocksOf(s) \o BlocksOf(t)
  <2> DEFINE S == Seq(Seq(Elements))
             u == BlocksOf(s)
             v == BlocksOf(t)
             w == BlocksOf(xml)
  <2>1. /\ u \in Seq(S) /\ Len(u) = m /\ \A i \in 1 .. m : u[i] = BlockAt(s, i)
        /\ v \in Seq(S) /\ Len(v) = Len(t) /\ \A i \in 1 .. Len(t) : v[i] = BlockAt(t, i)
        /\ w \in Seq(S) /\ Len(w) = m + Len(t)
        /\ \A i \in 1 .. m + Len(t) : w[i] = BlockAt(xml, i)
    BY <1>2, <1>3, BlocksTyped DEF m
  <2> HIDE DEF u, v, w, S
  <2>2. ASSUME NEW i \in 1 .. m + Len(t) PROVE w[i] = IF i <= m THEN u[i] ELSE v[i - m]
    <3>1. CASE i <= m
      BY <1>2, <1>5, <2>1, <3>1
    <3>2. CASE ~(i <= m)
      <4>1. i - m \in 1 .. Len(t) /\ m + (i - m) = i
        BY <1>2, <3>2
      <4>2. w[i] = BlockAt(xml, i) /\ v[i - m] = BlockAt(t, i - m)
        BY <2>1, <4>1
      <4> QED
        BY <1>6, <3>2, <4>1, <4>2
    <3> QED
      BY <3>1, <3>2
  <2>3. /\ u \o v \in Seq(S) /\ Len(u \o v) = m + Len(t)
        /\ \A i \in 1 .. m + Len(t) : (u \o v)[i] = IF i <= m THEN u[i] ELSE v[i - m]
    <3>1. /\ u \o v \in Seq(S) /\ Len(u \o v) = Len(u) + Len(v)
          /\ \A i \in 1 .. Len(u) + Len(v) :
                (u \o v)[i] = IF i <= Len(u) THEN u[i] ELSE v[i - Len(u)]
      <4>1. u \in Seq(S) /\ v \in Seq(S)
        BY <2>1
      <4> QED
        BY ONLY <4>1, ConcatProperties
    <3> QED
      BY <2>1, <3>1, Zenon
  <2>4. w = u \o v
    <3> DEFINE z == u \o v
    <3>1. m + Len(t) = Len(w) /\ m + Len(t) = Len(z)
      BY <2>1, <2>3, Zenon
    <3>2. \A i \in 1 .. Len(w) : w[i] = z[i]
      BY <2>2, <2>3, <3>1, Zenon
    <3> HIDE DEF z
    <3>3. w \in Seq(S) /\ z \in Seq(S) /\ Len(w) = Len(z)
      BY <2>1, <2>3, <3>1, Zenon DEF z
    <3> QED
      BY <3>2, <3>3, SeqEqual DEF z
  <2> QED
    BY <2>4 DEF u, v, w
<1> QED
  BY <1>3, <1>7 DEF xml

LEMMA BlocksOfJoined ==
    ASSUME NEW s, NEW t, Even(s), Even(t)
    PROVE  /\ Even(s \o t)
           /\ ParagraphBlocks(s \o t) = ParagraphBlocks(s) \o ParagraphBlocks(t)
<1> DEFINE S == Seq(Elements)
           u == BlocksOf(s)
           v == BlocksOf(t)
<1>1. u \in Seq(Seq(S)) /\ v \in Seq(Seq(S))
  BY BlocksTyped
<1>2. Even(s \o t) /\ BlocksOf(s \o t) = u \o v
  BY BlocksJoined
<1>3. /\ ParagraphBlocks(s) = FlattenSeq(u) /\ ParagraphBlocks(t) = FlattenSeq(v)
      /\ ParagraphBlocks(s \o t) = FlattenSeq(u \o v)
  BY <1>2, PeerReads
<1> HIDE DEF S, u, v
<1>4. FlattenSeq(u \o v) = FlattenSeq(u) \o FlattenSeq(v)
  BY <1>1, FlattenJoined
<1> QED
  BY <1>2, <1>3, <1>4

\* A text between a tag that opens a paragraph and the one that closes it.
IsParagraph(xml) ==
    /\ xml \in Seq(Elements) /\ Len(xml) > 1
    /\ xml[1].tag = "p" /\ xml[Len(xml)].tag = "/p"
    /\ \A k \in 2 .. Len(xml) - 1 : xml[k].tag \notin {"p", "/p", "p .../"}

LEMMA OneBlock ==
    ASSUME NEW xml, IsParagraph(xml)
    PROVE  Even(xml) /\ ParagraphBlocks(xml) = <<xml>>
<1> DEFINE N == Len(xml)
           B == BlocksOf(xml)
<1>1. xml \in Seq(Elements)
  BY DEF IsParagraph
<1>2. /\ N \in Nat /\ DOMAIN xml = 1 .. N /\ N > 1 /\ 1 \in DOMAIN xml /\ N \in DOMAIN xml
  <2>1. N > 1
    BY DEF IsParagraph
  <2> QED
    BY <1>1, <2>1
<1>3. /\ xml[1].tag = "p" /\ xml[N].tag = "/p"
      /\ \A k \in 2 .. N - 1 : xml[k].tag \notin {"p", "/p", "p .../"}
  BY DEF IsParagraph
<1>4. Pair(xml, "p", "/p", 1, N)
  <2> HIDE DEF N
  <2>1. \A k \in 1 + 1 .. N - 1 : xml[k].tag \notin {"p", "/p"}
    <3>1. \A k \in 2 .. N - 1 : xml[k].tag \notin {"p", "/p"}
      BY <1>3, Zenon
    <3>2. 1 + 1 = 2
      OBVIOUS
    <3> QED
      BY <3>1, <3>2, Zenon
  <2> QED
    BY <1>2, <1>3, <2>1 DEF Pair
<1>5. \A k \in DOMAIN xml : /\ xml[k].tag = "p" => k = 1
                            /\ xml[k].tag = "/p" => k = N
                            /\ xml[k].tag # "p .../"
  <2> SUFFICES ASSUME NEW k \in 1 .. N
               PROVE  /\ xml[k].tag = "p" => k = 1
                      /\ xml[k].tag = "/p" => k = N
                      /\ xml[k].tag # "p .../"
    BY <1>2
  <2>1. k = 1 \/ k = N \/ k \in 2 .. N - 1
    <3> HIDE DEF N
    <3> QED
      BY <1>2
  <2> QED
    BY <1>3, <2>1
<1>6. Even(xml)
  BY <1>1, <1>2, <1>4, <1>5 DEF Even, Alternate, Lacks
<1>7. Find(xml, {"/p"}, 1) = N
  BY <1>1, <1>2, <1>4, ClosedBy
<1>8. SubSeq(xml, 1, N) = xml
  BY <1>1, SubSeqFull
<1>9. /\ B \in Seq(Seq(Seq(Elements))) /\ Len(B) = N
      /\ \A i \in 1 .. N : B[i] = BlockAt(xml, i)
  BY <1>6, BlocksTyped
<1> HIDE DEF B
<1>10. B[1] = <<xml>>
  BY <1>2, <1>3, <1>7, <1>8, <1>9 DEF BlockAt
<1>11. \A k \in 1 .. N : k # 1 => B[k] = <<>>
  BY <1>2, <1>5, <1>9 DEF BlockAt
<1>12. FlattenSeq(B) = <<xml>>
  <2> DEFINE S == Seq(Elements)
  <2>1. /\ B \in Seq(Seq(S)) /\ 1 \in Nat \ {0} /\ 1 \in 1 .. Len(B) /\ Len(B) \in 1 .. Len(B)
        /\ \A k \in 1 .. Len(B) : k # 1 => B[k] = <<>>
    BY <1>2, <1>9, <1>11
  <2> HIDE DEF S
  <2>2. FlattenSeq(SubSeq(B, 1, Len(B))) = B[1] \o FlattenSeq(SubSeq(B, Len(B) + 1, Len(B)))
    BY <2>1, FlattenSplit
  <2>3. SubSeq(B, Len(B) + 1, Len(B)) = <<>> /\ SubSeq(B, 1, Len(B)) = B
    BY <2>1, SubSeqEmpty, SubSeqFull
  <2>4. FlattenSeq(B) = <<xml>> \o <<>>
    BY <1>10, <2>2, <2>3, FlattenEmpty
  <2> QED
    BY <2>4
<1> QED
  BY <1>6, <1>12, PeerReads DEF B

LEMMA EvenCut ==
    ASSUME NEW xml, Even(xml), NEW i \in 1 .. Len(xml) + 1, Outside(xml, "p", "/p", i)
    PROVE  /\ Even(Upto(xml, i - 1)) /\ Even(From(xml, i))
           /\ xml = Upto(xml, i - 1) \o From(xml, i)
<1> DEFINE s == Upto(xml, i - 1)
           t == From(xml, i)
<1>1. xml \in Seq(Elements) /\ Len(xml) \in Nat /\ DOMAIN xml = 1 .. Len(xml)
  BY EvenTyped
<1>2. Balanced(xml, "p", "/p", "p .../")
  BY DEF Balanced, Flat, Even, Lacks
<1>3. Balanced(s, "p", "/p", "p .../") /\ Balanced(t, "p", "/p", "p .../")
  BY <1>1, <1>2, CutBalanced
<1>4. /\ s \in Seq(Elements) /\ t \in Seq(Elements)
      /\ Len(s) = i - 1 /\ Len(t) = Len(xml) + 1 - i
      /\ \A k \in 1 .. i - 1 : s[k] = xml[k]
      /\ \A k \in 1 .. Len(xml) + 1 - i : t[k] = xml[i - 1 + k]
  BY <1>1, Pieces
<1>5. xml = s \o t
  <2>1. 1 \in Nat /\ i - 1 \in Nat /\ 1 <= i - 1 + 1 /\ i - 1 <= Len(xml) /\ (i - 1) + 1 = i
    BY <1>1
  <2> DEFINE m == i - 1
             n == Len(xml)
  <2>2. SubSeq(xml, 1, m) \o SubSeq(xml, m + 1, n) = SubSeq(xml, 1, n)
    <3>1. 1 \in Nat /\ m \in Nat /\ n \in Nat /\ 1 <= m + 1 /\ m <= n /\ n <= Len(xml) /\ 1 <= 1
      BY <1>1, <2>1
    <3> HIDE DEF m, n
    <3> QED
      BY <1>1, <3>1, Adjacent
  <2>3. SubSeq(xml, 1, Len(xml)) = xml
    BY <1>1, SubSeqFull
  <2> QED
    BY <2>1, <2>2, <2>3, Zenon DEF Upto, From
<1> HIDE DEF s, t
<1>6. Lacks(s, {"p .../"})
  <2>1. \A k \in DOMAIN s : k \in DOMAIN xml /\ s[k] = xml[k]
    BY <1>1, <1>4
  <2> QED
    BY <2>1 DEF Even, Lacks
<1>7. Lacks(t, {"p .../"})
  <2>1. \A k \in DOMAIN t : i - 1 + k \in DOMAIN xml /\ t[k] = xml[i - 1 + k]
    <3>1. DOMAIN t = 1 .. Len(xml) + 1 - i
      <4>1. DOMAIN t = 1 .. Len(t)
        BY <1>4
      <4> QED
        BY <1>4, <4>1
    <3>2. \A k \in 1 .. Len(xml) + 1 - i : i - 1 + k \in 1 .. Len(xml)
      BY <1>1
    <3> QED
      BY <1>1, <1>4, <3>1, <3>2
  <2> QED
    BY <2>1 DEF Even, Lacks
<1> QED
  BY <1>3, <1>4, <1>5, <1>6, <1>7 DEF Even, Balanced, s, t

\* A document around one of its paragraphs.
LEMMA AroundParagraph ==
    ASSUME NEW xml, Even(xml), NEW start \in DOMAIN xml, xml[start].tag = "p",
           NEW close, close = Find(xml, {"/p"}, start)
    PROVE  /\ close # npos /\ close \in start + 1 .. Len(xml)
           /\ Even(Upto(xml, start - 1)) /\ Even(From(xml, close + 1))
           /\ IsParagraph(SubSeq(xml, start, close))
           /\ xml = Upto(xml, start - 1) \o (SubSeq(xml, start, close) \o From(xml, close + 1))
<1> DEFINE m == SubSeq(xml, start, close)
           s == Upto(xml, start - 1)
           t == From(xml, close + 1)
<1>1. xml \in Seq(Elements) /\ Len(xml) \in Nat /\ DOMAIN xml = 1 .. Len(xml)
  BY EvenTyped
<1>2. PICK j \in DOMAIN xml : Pair(xml, "p", "/p", start, j)
  BY DEF Even, Alternate
<1>3. close = j /\ close # npos /\ start < close
  BY <1>1, <1>2, ClosedBy
<1>4. start \in 1 .. Len(xml) /\ close \in start + 1 .. Len(xml) /\ close \in DOMAIN xml
  BY <1>1, <1>2, <1>3
<1>5. /\ xml[close].tag = "/p"
      /\ \A k \in Int : start < k /\ k < close => xml[k].tag \notin {"p", "/p"}
  <2>1. xml[close].tag = "/p"
    BY <1>2, <1>3 DEF Pair
  <2>2. \A k \in Int : start < k /\ k < close => xml[k].tag \notin {"p", "/p"}
    <3>1. Pair(xml, "p", "/p", start, close) /\ start \in Int /\ close \in Int
      BY <1>1, <1>2, <1>3
    <3> QED
      BY <3>1, NothingBetween
  <2> QED
    BY <2>1, <2>2
<1>6. Outside(xml, "p", "/p", start) /\ Outside(xml, "p", "/p", close + 1)
  <2>1. Flat(xml, "p", "/p", "p .../")
    BY DEF Flat, Even, Lacks
  <2> DEFINE o == "p"
             c == "/p"
             x == "p .../"
  <2>2. o # c /\ x \notin {o, c} /\ xml[start].tag = o /\ xml[close].tag = c /\ Flat(xml, o, c, x)
    BY <1>5, <2>1
  <2> HIDE DEF o, c, x
  <2>3. Outside(xml, o, c, start) /\ Outside(xml, o, c, close + 1)
    BY <1>1, <1>4, <2>2, Cuts
  <2> QED
    BY <2>3 DEF o, c
<1>7. Even(s) /\ xml = s \o From(xml, start)
  <2>1. start \in 1 .. Len(xml) + 1
    BY <1>1, <1>4
  <2> QED
    BY <1>6, <2>1, EvenCut
<1>8. Even(t)
  <2>1. close + 1 \in 1 .. Len(xml) + 1
    BY <1>1, <1>4
  <2> QED
    BY <1>6, <2>1, EvenCut
<1>9. From(xml, start) = m \o t
  <2>1. /\ start \in Nat /\ close \in Nat /\ 1 <= start /\ start <= close + 1
        /\ close <= Len(xml) /\ Len(xml) <= Len(xml)
    BY <1>1, <1>4
  <2>2. SubSeq(xml, start, close) \o SubSeq(xml, close + 1, Len(xml))
          = SubSeq(xml, start, Len(xml))
    BY <1>1, <2>1, Adjacent
  <2> QED
    BY <2>2, Zenon DEF From
<1>10. IsParagraph(m)
  <2> DEFINE n == close - start + 1
  <2>1. m \in Seq(Elements) /\ Len(m) = n /\ \A k \in 1 .. n : m[k] = xml[start + k - 1]
    BY <1>1, <1>4
  <2> HIDE DEF m
  <2>2. n > 1 /\ start + 1 - 1 = start /\ start + n - 1 = close /\ 1 \in 1 .. n /\ n \in 1 .. n
    BY <1>1, <1>4
  <2>3. m[1].tag = "p" /\ m[n].tag = "/p"
    BY <1>5, <2>1, <2>2
  <2>4. ASSUME NEW k \in 2 .. n - 1 PROVE m[k].tag \notin {"p", "/p", "p .../"}
    <3>1. /\ k \in 1 .. n /\ start + k - 1 \in Int
          /\ start < start + k - 1 /\ start + k - 1 < close /\ start + k - 1 \in DOMAIN xml
      BY <1>1, <1>4
    <3>2. xml[start + k - 1].tag \notin {"p", "/p"}
      BY <1>5, <3>1
    <3>3. xml[start + k - 1].tag # "p .../"
      BY <3>1 DEF Even, Lacks
    <3> QED
      BY <2>1, <3>1, <3>2, <3>3
  <2> HIDE DEF n
  <2> QED
    BY <2>1, <2>2, <2>3, <2>4 DEF IsParagraph
<1> QED
  BY <1>3, <1>4, <1>7, <1>8, <1>9, <1>10

-----------------------------------------------------------------------------
(* The text of a block.                                                    *)

\* A word comes back as it was put in.
LEMMA WordComesBack ==
    ASSUME NEW word \in Words
    PROVE  XmlUnescape(XmlEscape(word)) = word
<1>1. CASE word \in Plain
  BY <1>1 DEF XmlEscape, XmlUnescape
<1>2. CASE word \notin Plain
  <2>1. word \in Nat /\ XmlEscape(word) = word + 1
    BY <1>2 DEF Words, XmlEscape
  <2>2. word + 1 \in Nat /\ word + 1 # 0 /\ word + 1 - 1 = word
    BY <2>1
  <2>3. word + 1 \notin Plain
    BY <2>2, FilesAssumption
  <2> QED
    BY <2>1, <2>2, <2>3 DEF XmlUnescape
<1> QED
  BY <1>1, <1>2

IsExtract(f, N, xml) ==
    f = [n \in 0 .. N |->
            IF n = 0 THEN <<>>
            ELSE IF xml[n].tag = "t" THEN Append(f[n - 1], XmlUnescape(xml[n].word))
            ELSE f[n - 1]]

LEMMA ExtractDefined ==
    ASSUME NEW N \in Nat, NEW xml
    PROVE  \E f : IsExtract(f, N, xml)
<1> DEFINE T == {k \in Nat : \E f : IsExtract(f, k, xml)}
<1>1. 0 \in T
  <2> DEFINE f == [n \in 0 .. 0 |-> <<>>]
  <2>1. IsExtract(f, 0, xml)
    <3>1. \A n \in 0 .. 0 : n = 0
      OBVIOUS
    <3> QED
      BY <3>1, Zenon DEF IsExtract
  <2> QED
    BY <2>1
<1>2. ASSUME NEW k \in Nat, k \in T PROVE k + 1 \in T
  <2>1. PICK f : IsExtract(f, k, xml)
    BY <1>2
  <2> DEFINE g == [n \in 0 .. k + 1 |->
                      IF n = 0 THEN <<>>
                      ELSE IF xml[n].tag = "t" THEN Append(f[n - 1], XmlUnescape(xml[n].word))
                      ELSE f[n - 1]]
  <2>2. \A n \in 0 .. k : n \in 0 .. k + 1
    OBVIOUS
  <2>3. \A n \in 0 .. k : f[n] = IF n = 0 THEN <<>>
                                 ELSE IF xml[n].tag = "t"
                                      THEN Append(f[n - 1], XmlUnescape(xml[n].word))
                                 ELSE f[n - 1]
    BY <2>1, Zenon DEF IsExtract
  <2>4. \A n \in 0 .. k : g[n] = f[n]
    BY <2>2, <2>3, Zenon
  <2>5. \A n \in 0 .. k + 1 : n # 0 => n - 1 \in 0 .. k
    OBVIOUS
  <2>6. \A n \in 0 .. k + 1 : n # 0 => f[n - 1] = g[n - 1]
    BY <2>4, <2>5, Zenon
  <2>7. \A n \in 0 .. k + 1 : g[n] = IF n = 0 THEN <<>>
                                     ELSE IF xml[n].tag = "t"
                                          THEN Append(f[n - 1], XmlUnescape(xml[n].word))
                                     ELSE f[n - 1]
    BY Zenon
  <2>8. \A n \in 0 .. k + 1 : g[n] = IF n = 0 THEN <<>>
                                     ELSE IF xml[n].tag = "t"
                                          THEN Append(g[n - 1], XmlUnescape(xml[n].word))
                                     ELSE g[n - 1]
    <3> HIDE DEF g
    <3> QED
      BY <2>6, <2>7, Zenon
  <2>9. g = [n \in 0 .. k + 1 |-> g[n]]
    BY Zenon
  <2> HIDE DEF g
  <2>10. IsExtract(g, k + 1, xml)
    BY <2>8, <2>9, Zenon DEF IsExtract
  <2>11. k + 1 \in Nat
    OBVIOUS
  <2> QED
    BY <2>10, <2>11, Zenon
<1> HIDE DEF T
<1>3. N \in T
  BY <1>1, <1>2, Induction
<1> QED
  BY <1>3 DEF T

LEMMA ExtractIs ==
    ASSUME NEW xml, Len(xml) \in Nat
    PROVE  \E f : IsExtract(f, Len(xml), xml) /\ ExtractParaText(xml) = f[Len(xml)]
<1> DEFINE f == CHOOSE g : IsExtract(g, Len(xml), xml)
<1>1. IsExtract(f, Len(xml), xml)
  BY ExtractDefined, Zenon
<1>2. ExtractParaText(xml) = f[Len(xml)]
  BY Zenon DEF ExtractParaText, IsExtract
<1> QED
  BY <1>1, <1>2, Zenon

\* A part of one run for each piece of a text, between two tags that hold no text.
Wraps(xml, text) ==
    /\ Len(xml) = Len(text) + 2 /\ xml[1].tag # "t" /\ xml[Len(text) + 2].tag # "t"
    /\ \A k \in 1 .. Len(text) : xml[k + 1] = Run(XmlEscape(text[k]))

\* The text put in is the text read.
LEMMA TextComesBack ==
    ASSUME NEW text \in Seq(Words), NEW xml, Wraps(xml, text)
    PROVE  ExtractParaText(xml) = text
<1>0. /\ Len(xml) = Len(text) + 2 /\ xml[1].tag # "t" /\ xml[Len(text) + 2].tag # "t"
      /\ \A k \in 1 .. Len(text) : xml[k + 1] = Run(XmlEscape(text[k]))
  BY Zenon DEF Wraps
<1> USE <1>0
<1> DEFINE N == Len(text) + 2
<1>1. Len(text) \in Nat /\ N \in Nat
  OBVIOUS
<1>2. PICK f : IsExtract(f, N, xml) /\ ExtractParaText(xml) = f[N]
  BY <1>1, ExtractIs
<1>3. \A n \in 0 .. N : f[n] = IF n = 0 THEN <<>>
                               ELSE IF xml[n].tag = "t"
                                    THEN Append(f[n - 1], XmlUnescape(xml[n].word))
                               ELSE f[n - 1]
  BY <1>2, Zenon DEF IsExtract
<1>4. f[0] = <<>> /\ f[1] = <<>>
  <2>1. 0 \in 0 .. N /\ 1 \in 0 .. N /\ 1 # 0 /\ 1 - 1 = 0
    BY <1>1
  <2>2. f[0] = <<>>
    BY <1>3, <2>1, Zenon
  <2>3. f[1] = f[1 - 1]
    BY <1>3, <2>1, Zenon
  <2> QED
    BY <2>1, <2>2, <2>3
<1> DEFINE U == {k \in Nat : k <= Len(text) => f[k + 1] = SubSeq(text, 1, k)}
<1>5. 0 \in U
  <2>1. SubSeq(text, 1, 0) = <<>> /\ 0 + 1 = 1 /\ 0 \in Nat
    OBVIOUS
  <2>2. f[0 + 1] = SubSeq(text, 1, 0)
    BY <1>4, <2>1
  <2> QED
    BY <2>1, <2>2, Zenon
<1>6. ASSUME NEW k \in Nat, k \in U PROVE k + 1 \in U
  <2> SUFFICES ASSUME k + 1 <= Len(text) PROVE f[k + 1 + 1] = SubSeq(text, 1, k + 1)
    OBVIOUS
  <2>1. f[k + 1] = SubSeq(text, 1, k)
    BY <1>1, <1>6
  <2>2. /\ k + 1 \in 1 .. Len(text) /\ k + 1 + 1 \in 0 .. N /\ k + 1 + 1 # 0
        /\ k + 1 + 1 - 1 = k + 1 /\ 1 \in 1 .. Len(text) /\ k + 1 \in 1 .. Len(text)
        /\ k + 1 - 1 = k
    BY <1>1
  <2>3. xml[k + 1 + 1] = Run(XmlEscape(text[k + 1])) /\ text[k + 1] \in Words
    BY <2>2
  <2>4. xml[k + 1 + 1].tag = "t" /\ XmlUnescape(xml[k + 1 + 1].word) = text[k + 1]
    BY <2>3, WordComesBack DEF Run
  <2>5. f[k + 1 + 1] = Append(f[k + 1 + 1 - 1], XmlUnescape(xml[k + 1 + 1].word))
    <3> DEFINE n == k + 1 + 1
    <3>1. n \in 0 .. N /\ n # 0 /\ xml[n].tag = "t"
      BY <2>2, <2>4
    <3> HIDE DEF n, N
    <3>2. f[n] = Append(f[n - 1], XmlUnescape(xml[n].word))
      BY <1>3, <3>1, Zenon
    <3> QED
      BY <3>2 DEF n
  <2>6. f[k + 1 + 1] = Append(SubSeq(text, 1, k), text[k + 1])
    BY <2>1, <2>2, <2>4, <2>5
  <2>7. SubSeq(text, 1, k + 1) = SubSeq(text, 1, k + 1 - 1) \o << text[k + 1] >>
    BY <2>2, SubSeqRecursiveSecond
  <2>8. Append(SubSeq(text, 1, k), text[k + 1]) = SubSeq(text, 1, k) \o << text[k + 1] >>
    <3>1. SubSeq(text, 1, k) \in Seq(Words)
      BY <2>2
    <3> QED
      BY <2>3, <3>1, AppendIsConcat
  <2> QED
    BY <2>2, <2>6, <2>7, <2>8
<1>7. \A k \in Nat : k \in U
  <2> HIDE DEF U
  <2> QED
    BY <1>5, <1>6, Induction
<1>8. f[Len(text) + 1] = text
  <2>1. f[Len(text) + 1] = SubSeq(text, 1, Len(text))
    BY <1>1, <1>7
  <2>2. SubSeq(text, 1, Len(text)) = text
    BY SubSeqFull
  <2> QED
    BY <2>1, <2>2
<1>9. f[N] = f[Len(text) + 1]
  <2>1. N \in 0 .. N /\ N # 0 /\ N - 1 = Len(text) + 1
    BY <1>1
  <2>2. f[N] = f[N - 1]
    BY <1>3, <2>1, Zenon
  <2> QED
    BY <2>1, <2>2
<1> QED
  BY <1>2, <1>8, <1>9

\* Between two tags: what Fresh says, and the words themselves.
LEMMA FreshRuns ==
    ASSUME NEW first \in Elements, NEW last \in Elements, NEW text \in Seq(Words)
    PROVE  \A k \in 1 .. Len(text) :
              (<<first>> \o Runs(text) \o <<last>>)[k + 1] = Run(XmlEscape(text[k]))
<1> DEFINE r == Runs(text)
<1>1. ASSUME NEW word \in Words PROVE Run(XmlEscape(word)) \in Elements
  <2>1. XmlEscape(word) \in Words
    BY DEF XmlEscape, Words
  <2> QED
    BY <2>1 DEF Run, Tags, Elements
<1>2. DOMAIN text = 1 .. Len(text) /\ Len(text) \in Nat
  OBVIOUS
<1>3. \A k \in 1 .. Len(text) : r[k] = Run(XmlEscape(text[k])) /\ text[k] \in Words
  BY <1>2 DEF Runs
<1>4. r \in [1 .. Len(text) -> Elements]
  BY <1>1, <1>2, <1>3 DEF Runs
<1> HIDE DEF r
<1>5. r \in Seq(Elements) /\ Len(r) = Len(text)
  BY <1>2, <1>4
<1>6. /\ <<first>> \in Seq(Elements) /\ Len(<<first>>) = 1
      /\ <<last>> \in Seq(Elements) /\ Len(<<last>>) = 1
  OBVIOUS
<1>7. ASSUME NEW k \in 1 .. Len(text) PROVE (<<first>> \o r \o <<last>>)[k + 1] = r[k]
  <2> DEFINE u == <<first>> \o r
  <2>1. /\ u \in Seq(Elements) /\ Len(u) = 1 + Len(text) /\ u[1 + k] = r[k]
    BY <1>5, <1>6, Joined
  <2> HIDE DEF u
  <2>2. k + 1 \in 1 .. Len(u) /\ 1 + k = k + 1
    BY <1>2, <2>1
  <2>3. (u \o <<last>>)[k + 1] = u[k + 1]
    BY <1>6, <2>1, <2>2, Joined
  <2> QED
    BY <2>1, <2>2, <2>3 DEF u
<1> QED
  BY <1>3, <1>7 DEF r

-----------------------------------------------------------------------------
(* The paragraph an index names.                                           *)

StartsIn(xml) == {i \in DOMAIN xml : xml[i].tag \in ParagraphStarts}

LEMMA BlocksCounted ==
    ASSUME NEW xml, Even(xml)
    PROVE  Len(ParagraphBlocks(xml)) = Cardinality(StartsIn(xml))
<1> DEFINE B == BlocksOf(xml)
           S == Seq(Elements)
<1>1. /\ B \in Seq(Seq(S)) /\ Len(B) = Len(xml)
      /\ \A i \in 1 .. Len(xml) : B[i] = BlockAt(xml, i)
  BY BlocksTyped
<1>2. xml \in Seq(Elements) /\ DOMAIN xml = 1 .. Len(xml)
  BY EvenTyped
<1>3. DOMAIN B = 1 .. Len(xml)
  BY Zenon DEF BlocksOf
<1> HIDE DEF B, S
<1>4. ASSUME NEW i \in 1 .. Len(xml)
      PROVE  Len(B[i]) \in {0, 1} /\ (Len(B[i]) = 1 <=> xml[i].tag \in ParagraphStarts)
  <2>1. xml[i].tag # "p .../"
    BY <1>2 DEF Even, Lacks
  <2>2. xml[i].tag \in ParagraphStarts <=> xml[i].tag = "p"
    BY <2>1 DEF ParagraphStarts
  <2>3. CASE xml[i].tag = "p"
    <3> DEFINE b == SubSeq(xml, i, Find(xml, {"/p"}, i))
    <3>1. B[i] = << b >>
      BY <1>1, <2>3 DEF BlockAt
    <3> HIDE DEF b
    <3>2. Len(B[i]) = 1
      BY <3>1
    <3> QED
      BY <2>2, <2>3, <3>2
  <2>4. CASE xml[i].tag # "p"
    <3>1. B[i] = <<>>
      BY <1>1, <2>4 DEF BlockAt
    <3>2. Len(B[i]) = 0
      BY <3>1
    <3> QED
      BY <2>2, <2>4, <3>2
  <2> QED
    BY <2>3, <2>4
<1>5. \A i \in DOMAIN B : Len(B[i]) \in {0, 1}
  BY <1>3, <1>4
<1>6. Len(FlattenSeq(B)) = Cardinality({i \in DOMAIN B : Len(B[i]) = 1})
  BY <1>1, <1>5, FlattenCount
<1>7. {i \in DOMAIN B : Len(B[i]) = 1} = StartsIn(xml)
  BY <1>2, <1>3, <1>4 DEF StartsIn
<1> QED
  BY <1>6, <1>7, PeerReads DEF B

LEMMA BlocksAreBlocks ==
    ASSUME NEW xml, Even(xml)
    PROVE  /\ ParagraphBlocks(xml) \in Seq(Seq(Elements))
           /\ Len(ParagraphBlocks(xml)) \in Nat
           /\ DOMAIN ParagraphBlocks(xml) = 1 .. Len(ParagraphBlocks(xml))
<1> DEFINE B == BlocksOf(xml)
           S == Seq(Elements)
<1>1. B \in Seq(Seq(S))
  BY BlocksTyped
<1> HIDE DEF S, B
<1>2. FlattenSeq(B) \in Seq(S)
  BY <1>1, FlattenTyped
<1>3. ParagraphBlocks(xml) \in Seq(S)
  BY <1>2, PeerReads DEF B
<1> HIDE DEF S
<1>4. /\ Len(ParagraphBlocks(xml)) \in Nat
      /\ DOMAIN ParagraphBlocks(xml) = 1 .. Len(ParagraphBlocks(xml))
  BY <1>3
<1> QED
  BY <1>3, <1>4 DEF S

\* The n-th start has n blocks before it; there is none if there are no more than n.
LEMMA NthStart ==
    ASSUME NEW xml, Even(xml), NEW n \in Nat, NEW start, start = FindNthParagraphStart(xml, n)
    PROVE  /\ start = npos <=> ~(n < Len(ParagraphBlocks(xml)))
           /\ start # npos => /\ start \in DOMAIN xml /\ xml[start].tag = "p"
                              /\ Len(ParagraphBlocks(Upto(xml, start - 1))) = n
<1> DEFINE starts == {i \in DOMAIN xml : xml[i].tag \in ParagraphStarts}
           nth == {s \in starts : Cardinality({r \in starts : r < s}) = n}
<1>1. xml \in Seq(Elements) /\ Len(xml) \in Nat /\ DOMAIN xml = 1 .. Len(xml)
  BY EvenTyped
<1>2. start = IF nth = {} THEN npos ELSE CHOOSE s \in nth : TRUE
  BY Zenon DEF FindNthParagraphStart
<1>3. nth # {} => (CHOOSE s \in nth : TRUE) \in nth
  <2> HIDE DEF nth
  <2> QED
    OBVIOUS
<1>4. starts = StartsIn(xml) /\ starts \in SUBSET (1 .. Len(xml))
  BY <1>1 DEF StartsIn
<1>5. IsFiniteSet(starts) /\ Cardinality(starts) \in Nat
  BY <1>1, <1>4, Positions
<1>6. Len(ParagraphBlocks(xml)) = Cardinality(starts)
  BY <1>4, BlocksCounted
<1>7. \A s \in nth : s \in starts /\ Cardinality({r \in starts : r < s}) = n
  OBVIOUS
<1>8. n < Cardinality(starts) => nth # {}
  <2> SUFFICES ASSUME n < Cardinality(starts) PROVE nth # {}
    OBVIOUS
  <2> HIDE DEF starts
  <2>1. PICK s \in starts : Cardinality({r \in starts : r < s}) = n
    BY <1>1, <1>4, Ranked
  <2> QED
    BY <2>1
<1>9. npos \notin starts
  BY <1>4 DEF npos
<1>10. CASE nth = {}
  BY <1>2, <1>6, <1>8, <1>10
<1>11. CASE nth # {}
  <2>1. start \in nth
    BY <1>2, <1>3, <1>11
  <2>2. start \in starts /\ Cardinality({r \in starts : r < start}) = n
    BY <1>7, <2>1
  <2>3. start \in DOMAIN xml /\ start # npos /\ xml[start].tag \in ParagraphStarts
    BY <1>9, <2>2
  <2>4. xml[start].tag = "p"
    BY <2>3 DEF Even, Lacks, ParagraphStarts
  <2> DEFINE before == {r \in starts : r < start}
  <2>5. before \subseteq starts /\ start \notin before
    BY <1>1, <2>3
  <2>6. n < Cardinality(starts)
    <3>1. before # starts
      BY <2>2, <2>5
    <3> HIDE DEF before, starts
    <3>2. Cardinality(before) < Cardinality(starts)
      <4>1. before \in SUBSET starts
        BY <2>5
      <4>2. Cardinality(before) <= Cardinality(starts) /\ Cardinality(before) # Cardinality(starts)
        BY <1>5, <3>1, <4>1, FS_Subset
      <4>3. Cardinality(before) \in Nat
        BY <2>2 DEF before
      <4> QED
        BY <1>5, <4>2, <4>3
    <3> QED
      BY <2>2, <3>2 DEF before
  <2>7. Len(ParagraphBlocks(Upto(xml, start - 1))) = n
    <3> DEFINE s == Upto(xml, start - 1)
               close == Find(xml, {"/p"}, start)
    <3>1. Even(s)
      BY <2>3, <2>4, AroundParagraph
    <3>2. Len(s) = start - 1 /\ \A k \in 1 .. start - 1 : s[k] = xml[k]
      <4>1. start \in 1 .. Len(xml) + 1
        BY <1>1, <2>3
      <4> QED
        BY <1>1, <4>1, Pieces
    <3>3. DOMAIN s = 1 .. start - 1
      <4>1. DOMAIN s = 1 .. Len(s)
        BY <3>1, EvenTyped
      <4> QED
        BY <3>2, <4>1
    <3> HIDE DEF s
    <3>4. StartsIn(s) = before
      BY <1>1, <2>3, <3>2, <3>3 DEF StartsIn
    <3>5. Len(ParagraphBlocks(s)) = Cardinality(before)
      BY <3>1, <3>4, BlocksCounted
    <3> QED
      BY <2>2, <3>5 DEF s
  <2> HIDE DEF starts
  <2> QED
    BY <1>6, <2>3, <2>4, <2>6, <2>7
<1> QED
  BY <1>10, <1>11

-----------------------------------------------------------------------------
(* The list of paragraphs that the part stands for.                        *)

Standing(block) == [text     |-> ExtractParaText(block),
                    equation |-> Find(block, {"oMath"}, 1) # npos]
Listed(blocks) == [k \in DOMAIN blocks |-> Standing(blocks[k])]

\* One of a list in the place of another.
IsReplaced(new, old, k, item) == new = [old EXCEPT ![k] = item]

LEMMA ListedReplaced ==
    ASSUME NEW S, NEW u \in Seq(S), NEW v \in Seq(S), NEW a \in S, NEW b \in S,
           NEW n, n = Len(u)
    PROVE  /\ IsReplaced(Listed(u \o (<<b>> \o v)), Listed(u \o (<<a>> \o v)),
                         n + 1, Standing(b))
           /\ Listed(u \o (<<a>> \o v))[n + 1] = Standing(a)
<1> DEFINE x == u \o (<<a>> \o v)
           y == u \o (<<b>> \o v)
           N == n + 1 + Len(v)
<1>1. n \in Nat /\ Len(v) \in Nat /\ N \in Nat /\ n + 1 \in 1 .. N
  OBVIOUS
<1>2. /\ DOMAIN x = 1 .. N /\ DOMAIN y = 1 .. N /\ x[n + 1] = a /\ y[n + 1] = b
      /\ \A k \in 1 .. N : k # n + 1 => x[k] = y[k]
  <2>1. /\ <<a>> \o v \in Seq(S) /\ Len(<<a>> \o v) = 1 + Len(v) /\ (<<a>> \o v)[1] = a
        /\ <<b>> \o v \in Seq(S) /\ Len(<<b>> \o v) = 1 + Len(v) /\ (<<b>> \o v)[1] = b
    OBVIOUS
  <2>2. \A k \in 2 .. 1 + Len(v) : (<<a>> \o v)[k] = (<<b>> \o v)[k]
    OBVIOUS
  <2> DEFINE c == <<a>> \o v
             d == <<b>> \o v
  <2> HIDE DEF c, d
  <2>3. /\ DOMAIN (u \o c) = 1 .. N /\ DOMAIN (u \o d) = 1 .. N
        /\ (u \o c)[n + 1] = a /\ (u \o d)[n + 1] = b
    BY <1>1, <2>1 DEF c, d
  <2>4. ASSUME NEW k \in 1 .. N, k # n + 1 PROVE (u \o c)[k] = (u \o d)[k]
    <3>1. c \in Seq(S) /\ d \in Seq(S) /\ Len(c) = 1 + Len(v) /\ Len(d) = 1 + Len(v)
      BY <2>1 DEF c, d
    <3>2. \A j \in 2 .. 1 + Len(v) : c[j] = d[j]
      BY <2>2 DEF c, d
    <3>3. CASE k <= n
      BY <3>1, <3>3
    <3>4. CASE ~(k <= n)
      <4>1. k - n \in 2 .. 1 + Len(v)
        BY <1>1, <2>4, <3>4
      <4>2. (u \o c)[k] = c[k - n] /\ (u \o d)[k] = d[k - n]
        BY <1>1, <2>4, <3>1, <3>4
      <4> QED
        BY <3>2, <4>1, <4>2
    <3> QED
      BY <3>3, <3>4
  <2> QED
    BY <2>3, <2>4 DEF c, d
<1> HIDE DEF x, y, N
<1>3. /\ Listed(x) = [k \in 1 .. N |-> Standing(x[k])]
      /\ Listed(y) = [k \in 1 .. N |-> Standing(y[k])]
  BY <1>2 DEF Listed
<1>4. Listed(y) = [Listed(x) EXCEPT ![n + 1] = Standing(b)]
  <2>1. \A k \in 1 .. N : Listed(y)[k] = IF k = n + 1 THEN Standing(b) ELSE Listed(x)[k]
    BY <1>2, <1>3
  <2> QED
    BY <1>1, <1>3, <2>1
<1>5. Listed(x)[n + 1] = Standing(a)
  BY <1>1, <1>2, <1>3
<1> QED
  BY <1>4, <1>5 DEF IsReplaced, x, y, N

LEMMA ListedAppended ==
    ASSUME NEW S, NEW u \in Seq(S), NEW b \in S
    PROVE  Listed(u \o <<b>>) = Append(Listed(u), Standing(b))
<1> DEFINE y == u \o <<b>>
           n == Len(u)
<1>1. /\ n \in Nat /\ DOMAIN u = 1 .. n /\ DOMAIN y = 1 .. n + 1 /\ y[n + 1] = b
      /\ \A k \in 1 .. n : y[k] = u[k]
  OBVIOUS
<1> HIDE DEF y, n
<1>2. /\ Listed(u) = [k \in 1 .. n |-> Standing(u[k])]
      /\ Listed(y) = [k \in 1 .. n + 1 |-> Standing(y[k])]
  BY <1>1 DEF Listed
<1>3. Len(Listed(u)) = n
  BY <1>1, <1>2
<1>4. Append(Listed(u), Standing(b))
        = [k \in 1 .. n + 1 |-> IF k = n + 1 THEN Standing(b) ELSE Listed(u)[k]]
  <2> DEFINE q == Standing(b)
             l == Listed(u)
             Q == {Standing(u[k]) : k \in 1 .. n}
  <2>1. Len(l) = n /\ n \in Nat /\ l \in Seq(Q)
    BY <1>1, <1>2, <1>3
  <2> HIDE DEF q, l, Q
  <2>2. Append(l, q) = [k \in 1 .. n + 1 |-> IF k = n + 1 THEN q ELSE l[k]]
    <3> DEFINE R == Q \cup {q}
               w == Append(l, q)
    <3>1. l \in Seq(R) /\ q \in R
      BY <2>1
    <3>2. w \in Seq(R) /\ Len(w) = n + 1 /\ \A k \in 1 .. n : w[k] = l[k]
      BY <2>1, <3>1, AppendProperties
    <3>3. w[n + 1] = q
      BY <2>1, <3>1, AppendProperties
    <3> HIDE DEF w, R
    <3>4. w = [k \in 1 .. n + 1 |-> w[k]]
      BY <3>2
    <3>5. \A k \in 1 .. n + 1 : w[k] = IF k = n + 1 THEN q ELSE l[k]
      BY <2>1, <3>2, <3>3
    <3>6. w = [k \in 1 .. n + 1 |-> IF k = n + 1 THEN q ELSE l[k]]
      BY <3>4, <3>5, Zenon
    <3> QED
      BY <3>6 DEF w
  <2> QED
    BY <2>2 DEF q, l
<1>5. \A k \in 1 .. n + 1 : Standing(y[k]) = IF k = n + 1 THEN Standing(b) ELSE Listed(u)[k]
  <2>1. \A k \in 1 .. n + 1 : k = n + 1 \/ k \in 1 .. n
    BY <1>1
  <2> QED
    BY <1>1, <1>2, <2>1
<1> QED
  BY <1>2, <1>4, <1>5 DEF y

Plainly(words) == [text |-> words, equation |-> FALSE]

LEMMA NewIsParagraph ==
    ASSUME NEW text \in Seq(Words)
    PROVE  /\ IsParagraph(NewParagraph(text))
           /\ Standing(NewParagraph(text)) = Plainly(text)
<1> DEFINE xml == NewParagraph(text)
           N == Len(text) + 2
<1>1. Tag("p") \in Elements /\ Tag("/p") \in Elements
  BY DEF Tag, Tags, Elements
<1>2. Len(text) \in Nat /\ N \in Nat /\ N > 1
  OBVIOUS
<1>3. /\ xml \in Seq(Elements) /\ Len(xml) = N
      /\ xml[1] = Tag("p") /\ xml[N] = Tag("/p")
      /\ \A k \in 2 .. Len(text) + 1 : xml[k].tag = "t"
  BY <1>1, Fresh DEF NewParagraph
<1>4. \A k \in 1 .. Len(text) : xml[k + 1] = Run(XmlEscape(text[k]))
  BY <1>1, FreshRuns DEF NewParagraph
<1> HIDE DEF xml
<1>5. IsParagraph(xml)
  <2>1. N - 1 = Len(text) + 1
    BY <1>2
  <2> HIDE DEF N
  <2>2. \A k \in 2 .. N - 1 : xml[k].tag = "t"
    BY <1>3, <2>1
  <2>3. \A k \in 2 .. N - 1 : xml[k].tag \notin {"p", "/p", "p .../"}
    BY <2>2, Zenon
  <2>4. xml[1].tag = "p" /\ xml[N].tag = "/p"
    BY <1>3 DEF Tag
  <2> QED
    BY <1>2, <1>3, <2>3, <2>4, Zenon DEF IsParagraph
<1>6. ExtractParaText(xml) = text
  <2>1. Tag("p").tag # "t" /\ Tag("/p").tag # "t"
    BY DEF Tag
  <2>2. Wraps(xml, text)
    BY <1>3, <1>4, <2>1, Zenon DEF Wraps
  <2> QED
    BY <2>2, TextComesBack, Zenon
<1>7. Find(xml, {"oMath"}, 1) = npos
  <2>1. \A k \in 1 .. Len(xml) : xml[k].tag \notin {"oMath"}
    <3> SUFFICES ASSUME NEW k \in 1 .. N PROVE xml[k].tag # "oMath"
      BY <1>3
    <3>1. k = 1 \/ k = N \/ k \in 2 .. Len(text) + 1
      BY <1>2
    <3> QED
      BY <1>3, <3>1 DEF Tag
  <2>2. 1 \in Nat \ {0}
    OBVIOUS
  <2> QED
    BY <1>3, <2>1, <2>2, Found
<1> QED
  BY <1>5, <1>6, <1>7 DEF Standing, Plainly, xml

LEMMA EquationIn ==
    ASSUME NEW xml \in Seq(Elements), NEW i \in 1 .. Len(xml), NEW j \in i .. Len(xml)
    PROVE  Standing(SubSeq(xml, i, j)).equation <=> \E k \in i .. j : xml[k].tag = "oMath"
<1> DEFINE m == SubSeq(xml, i, j)
           at == Find(m, {"oMath"}, 1)
<1>1. /\ m \in Seq(Elements) /\ Len(m) = j - i + 1
      /\ \A k \in 1 .. j - i + 1 : m[k] = xml[i + k - 1]
  OBVIOUS
<1>2. Standing(m).equation = (at # npos)
  BY DEF Standing
<1> HIDE DEF m
<1>3. /\ at = npos => 1 = 0 \/ \A k \in 1 .. Len(m) : m[k].tag \notin {"oMath"}
      /\ at # npos => at \in 1 .. Len(m) /\ m[at].tag \in {"oMath"}
  <2>1. 1 \in Nat
    OBVIOUS
  <2> QED
    BY <1>1, <2>1, FoundFirst
<1> HIDE DEF at
<1>4. ASSUME at # npos PROVE \E k \in i .. j : xml[k].tag = "oMath"
  <2>1. at \in 1 .. j - i + 1 /\ m[at].tag = "oMath"
    BY <1>1, <1>3, <1>4
  <2>2. i + at - 1 \in i .. j /\ m[at] = xml[i + at - 1]
    BY <1>1, <2>1
  <2> QED
    BY <2>1, <2>2
<1>5. ASSUME NEW k \in i .. j, xml[k].tag = "oMath" PROVE at # npos
  <2>1. k - i + 1 \in 1 .. j - i + 1 /\ i + (k - i + 1) - 1 = k
    OBVIOUS
  <2>2. m[k - i + 1] = xml[k] /\ k - i + 1 \in 1 .. Len(m)
    BY <1>1, <2>1
  <2> QED
    BY <1>3, <1>5, <2>2
<1> QED
  BY <1>2, <1>4, <1>5 DEF m

\* An edit, as a peer reads it from the part.
LEMMA EditShown ==
    ASSUME NEW xml, Even(xml), Paired(xml), NEW n \in Nat, NEW text \in Seq(Words),
           NEW new, new = ApplyParagraphDelta(xml, n, text),
           NEW P, P = Listed(ParagraphBlocks(xml)), NEW Q, Q = Listed(ParagraphBlocks(new))
    PROVE  /\ Even(new)
           /\ n < Len(P) => IF P[n + 1].equation THEN new = xml
                            ELSE IsReplaced(Q, P, n + 1, Plainly(text))
           /\ ~(n < Len(P)) => Q = Append(P, Plainly(text))
<1> DEFINE S == Seq(Elements)
           para == NewParagraph(text)
           start == FindNthParagraphStart(xml, n)
           close == Find(xml, {"/p"}, start)
<1>1. xml \in Seq(Elements) /\ Len(xml) \in Nat /\ DOMAIN xml = 1 .. Len(xml)
  BY EvenTyped
<1>2. /\ para \in S /\ Even(para) /\ ParagraphBlocks(para) = << para >>
      /\ Standing(para) = Plainly(text)
  <2>1. IsParagraph(para) /\ Standing(para) = Plainly(text)
    BY NewIsParagraph
  <2> QED
    BY <2>1, OneBlock DEF IsParagraph
<1>3. Len(P) = Len(ParagraphBlocks(xml))
  <2> DEFINE b == ParagraphBlocks(xml)
  <2>1. DOMAIN b = 1 .. Len(b) /\ Len(b) \in Nat
    BY BlocksAreBlocks
  <2>2. P = [k \in DOMAIN b |-> Standing(b[k])]
    BY DEF Listed
  <2> HIDE DEF b
  <2> QED
    BY <2>1, <2>2 DEF b
<1>4. /\ start = npos <=> ~(n < Len(P))
      /\ start # npos => /\ start \in DOMAIN xml /\ xml[start].tag = "p"
                         /\ Len(ParagraphBlocks(Upto(xml, start - 1))) = n
  BY <1>3, NthStart
<1> HIDE DEF start
<1>5. CASE start = npos
  <2> DEFINE at == IF RFind(xml, "/body") = npos THEN Len(xml) + 1 ELSE RFind(xml, "/body")
             s == Upto(xml, at - 1)
             t == From(xml, at)
  <2>1. new = s \o para \o t
    <3>1. new = InsertBefore(xml, "/body", para)
      BY <1>5 DEF ApplyParagraphDelta, start
    <3> QED
      BY <3>1 DEF InsertBefore
  <2>2. at \in 1 .. Len(xml) + 1 /\ Outside(xml, "p", "/p", at)
        /\ \A k \in at .. Len(xml) : xml[k].tag = "/body"
    <3>1. /\ Outside(xml, "p", "/p", Len(xml) + 1)
          /\ Len(xml) > 0 /\ xml[Len(xml)].tag # "/p" => Outside(xml, "p", "/p", Len(xml))
      BY <1>1, DocumentCuts
    <3>2. CASE RFind(xml, "/body") = npos
      BY <1>1, <3>1, <3>2
    <3>3. CASE RFind(xml, "/body") # npos
      <4>1. /\ RFind(xml, "/body") \in DOMAIN xml
            /\ xml[RFind(xml, "/body")].tag = "/body"
        BY <1>1, <3>3, FoundLast
      <4>2. RFind(xml, "/body") = Len(xml)
        BY <4>1 DEF Paired
      <4>3. Len(xml) > 0 /\ xml[Len(xml)].tag = "/body" /\ at = Len(xml)
        BY <1>1, <3>3, <4>1, <4>2
      <4> HIDE DEF at
      <4> QED
        BY <1>1, <3>1, <4>3
    <3> QED
      BY <3>2, <3>3
  <2> HIDE DEF at
  <2>3. Even(s) /\ Even(t) /\ xml = s \o t
    BY <2>2, EvenCut
  <2>4. ParagraphBlocks(t) = <<>>
    <3>1. /\ Len(t) = Len(xml) + 1 - at /\ \A k \in 1 .. Len(xml) + 1 - at : t[k] = xml[at - 1 + k]
      BY <1>1, <2>2, Pieces
    <3>2. DOMAIN t = 1 .. Len(t)
      BY <2>3, EvenTyped
    <3> HIDE DEF t
    <3>3. ASSUME NEW k \in 1 .. Len(xml) + 1 - at PROVE t[k].tag = "/body"
      <4>1. at - 1 + k \in at .. Len(xml)
        BY <1>1, <2>2
      <4> QED
        BY <2>2, <3>1, <4>1
    <3>4. StartsIn(t) = {}
      BY <3>1, <3>2, <3>3 DEF StartsIn, ParagraphStarts
    <3>5. Len(ParagraphBlocks(t)) = 0
      BY <2>3, <3>4, BlocksCounted, FS_EmptySet
    <3>6. ParagraphBlocks(t) \in Seq(S)
      BY <2>3, BlocksAreBlocks
    <3> HIDE DEF S
    <3> QED
      BY <3>5, <3>6
  <2> HIDE DEF s, t, para
  <2> DEFINE u == ParagraphBlocks(s)
  <2>5. u \in Seq(S)
    BY <2>3, BlocksAreBlocks
  <2>6. ParagraphBlocks(xml) = u
    <3>1. ParagraphBlocks(xml) = u \o <<>>
      BY <2>3, <2>4, BlocksOfJoined
    <3> HIDE DEF u, S
    <3> QED
      BY <2>5, <3>1
  <2>7. Even(s \o para) /\ ParagraphBlocks(s \o para) = u \o << para >>
    BY <1>2, <2>3, BlocksOfJoined
  <2>8. Even(new) /\ ParagraphBlocks(new) = (u \o << para >>) \o <<>>
    BY <2>1, <2>3, <2>4, <2>7, BlocksOfJoined
  <2>9. ParagraphBlocks(new) = u \o << para >>
    <3> HIDE DEF u, S
    <3> QED
      BY <1>2, <2>5, <2>8
  <2> HIDE DEF u, S
  <2>10. Listed(u \o << para >>) = Append(Listed(u), Standing(para))
    BY <1>2, <2>5, ListedAppended
  <2> QED
    BY <1>2, <1>4, <1>5, <2>6, <2>8, <2>9, <2>10
<1>6. CASE start # npos
  <2> DEFINE s == Upto(xml, start - 1)
             m == SubSeq(xml, start, close)
             t == From(xml, close + 1)
             u == ParagraphBlocks(s)
             v == ParagraphBlocks(t)
  <2>1. start \in DOMAIN xml /\ xml[start].tag = "p" /\ Len(u) = n /\ n < Len(P)
    BY <1>4, <1>6
  <2>2. /\ close # npos /\ close \in start + 1 .. Len(xml)
        /\ Even(s) /\ Even(t) /\ IsParagraph(m) /\ xml = s \o (m \o t)
    BY <2>1, AroundParagraph
  <2>3. m \in S /\ Even(m) /\ ParagraphBlocks(m) = << m >>
    BY <2>2, OneBlock DEF IsParagraph
  <2>4. new = IF \E i \in start .. close : xml[i].tag = "oMath" THEN xml
              ELSE s \o para \o t
    BY <1>6, <2>2 DEF ApplyParagraphDelta, start
  <2>5. Standing(m).equation <=> \E i \in start .. close : xml[i].tag = "oMath"
    <3>1. start \in 1 .. Len(xml) /\ close \in start .. Len(xml)
      BY <1>1, <2>1, <2>2
    <3> QED
      BY <1>1, <3>1, EquationIn
  <2>6. u \in Seq(S) /\ v \in Seq(S) /\ n = Len(u)
    BY <2>1, <2>2, BlocksAreBlocks
  <2> HIDE DEF s, t, close
  <2>7. ParagraphBlocks(xml) = u \o (<< m >> \o v)
    <3>1. Even(m \o t) /\ ParagraphBlocks(m \o t) = << m >> \o v
      BY <2>2, <2>3, BlocksOfJoined
    <3> HIDE DEF m
    <3> QED
      BY <2>2, <3>1, BlocksOfJoined
  <2> HIDE DEF m
  <2>8. Even(s \o para \o t) /\ ParagraphBlocks(s \o para \o t) = u \o (<< para >> \o v)
    <3>1. Even(s \o para) /\ ParagraphBlocks(s \o para) = u \o << para >>
      BY <1>2, <2>2, BlocksOfJoined
    <3> HIDE DEF para
    <3>2. /\ Even((s \o para) \o t)
          /\ ParagraphBlocks((s \o para) \o t) = (u \o << para >>) \o v
      BY <2>2, <3>1, BlocksOfJoined
    <3>3. (u \o << para >>) \o v = u \o (<< para >> \o v)
      <4>1. << para >> \in Seq(S)
        BY <1>2
      <4> HIDE DEF S, u, v
      <4> QED
        BY <2>6, <4>1, ConcatAssociative
    <3> QED
      BY <3>2, <3>3
  <2> HIDE DEF u, v, S, para
  <2>9. /\ IsReplaced(Listed(u \o (<< para >> \o v)), Listed(u \o (<< m >> \o v)),
                      n + 1, Standing(para))
        /\ Listed(u \o (<< m >> \o v))[n + 1] = Standing(m)
    <3>1. para \in S /\ m \in S
      BY <1>2, <2>3
    <3> QED
      BY <2>6, <3>1, ListedReplaced
  <2>10. P[n + 1] = Standing(m)
    BY <2>7, <2>9
  <2>11. CASE Standing(m).equation
    <3>1. new = xml
      BY <2>4, <2>5, <2>11
    <3> QED
      BY <2>1, <2>10, <2>11, <3>1
  <2>12. CASE ~Standing(m).equation
    <3>1. new = s \o para \o t
      BY <2>4, <2>5, <2>12
    <3>2. IsReplaced(Q, P, n + 1, Standing(para))
      BY <2>7, <2>8, <2>9, <3>1
    <3> QED
      BY <1>2, <2>1, <2>8, <2>10, <2>12, <3>1, <3>2
  <2> QED
    BY <2>11, <2>12
<1> QED
  BY <1>5, <1>6

-----------------------------------------------------------------------------
(* What paragraphs stand in.                                               *)

FrameAt(x)  == IF x.tag \in Cells THEN <<x.tag>> ELSE <<>>
Frames(xml) == [i \in 1 .. Len(xml) |-> FrameAt(xml[i])]

LEMMA FramesTyped ==
    ASSUME NEW xml \in Seq(Elements)
    PROVE  Frame(xml) = FlattenSeq(Frames(xml)) /\ Frames(xml) \in Seq(Seq(Cells))
<1>1. \A x : FrameAt(x) \in Seq(Cells)
  BY DEF FrameAt
<1>2. Len(xml) \in Nat /\ Frames(xml) \in [1 .. Len(xml) -> Seq(Cells)]
  BY <1>1 DEF Frames
<1>3. Frames(xml) \in Seq(Seq(Cells))
  <2> DEFINE S == Seq(Cells)
             f == Frames(xml)
             n == Len(xml)
  <2>1. n \in Nat /\ f \in [1 .. n -> S]
    BY <1>2
  <2> HIDE DEF S, f, n
  <2>2. f \in Seq(S)
    BY <2>1
  <2> QED
    BY <2>2 DEF S, f
<1>4. Frame(xml) = FlattenSeq(Frames(xml))
  BY Zenon DEF Frame, Frames, FrameAt
<1> QED
  BY <1>3, <1>4

LEMMA FrameJoined ==
    ASSUME NEW s \in Seq(Elements), NEW t \in Seq(Elements)
    PROVE  Frame(s) \in Seq(Cells) /\ Frame(s \o t) = Frame(s) \o Frame(t)
<1> DEFINE u == Frames(s)
           v == Frames(t)
           S == Cells
<1>1. u \in Seq(Seq(S)) /\ v \in Seq(Seq(S)) /\ Frame(s) = FlattenSeq(u) /\ Frame(t) = FlattenSeq(v)
  BY FramesTyped
<1>2. s \o t \in Seq(Elements)
  OBVIOUS
<1>3. Frames(s \o t) = u \o v
  <2>1. /\ Len(s) \in Nat /\ Len(t) \in Nat /\ Len(s \o t) = Len(s) + Len(t)
        /\ \A k \in 1 .. Len(s) : (s \o t)[k] = s[k]
        /\ \A k \in 1 .. Len(t) : (s \o t)[Len(s) + k] = t[k]
    BY Joined
  <2>2. /\ Len(u) = Len(s) /\ \A k \in 1 .. Len(s) : u[k] = FrameAt(s[k])
        /\ Len(v) = Len(t) /\ \A k \in 1 .. Len(t) : v[k] = FrameAt(t[k])
    <3>1. Len(s) \in Nat /\ Len(t) \in Nat
      BY <2>1
    <3> QED
      BY <3>1 DEF Frames
  <2>3. /\ u \o v \in Seq(Seq(S)) /\ Len(u \o v) = Len(s) + Len(t)
        /\ \A k \in 1 .. Len(s) + Len(t) :
              (u \o v)[k] = IF k <= Len(s) THEN u[k] ELSE v[k - Len(s)]
    <3> DEFINE Q == Seq(S)
    <3>1. u \in Seq(Q) /\ v \in Seq(Q)
      BY <1>1
    <3> HIDE DEF u, v, Q
    <3>2. /\ u \o v \in Seq(Q) /\ Len(u \o v) = Len(u) + Len(v)
          /\ \A k \in 1 .. Len(u) + Len(v) :
                (u \o v)[k] = IF k <= Len(u) THEN u[k] ELSE v[k - Len(u)]
      BY ONLY <3>1, ConcatProperties
    <3> QED
      BY <2>2, <3>2, Zenon DEF Q
  <2>4. ASSUME NEW k \in 1 .. Len(s) + Len(t)
        PROVE  FrameAt((s \o t)[k]) = IF k <= Len(s) THEN u[k] ELSE v[k - Len(s)]
    <3>1. CASE k <= Len(s)
      <4>1. k \in 1 .. Len(s)
        BY <2>1, <3>1
      <4> QED
        BY <2>1, <2>2, <3>1, <4>1
    <3>2. CASE ~(k <= Len(s))
      <4>1. k - Len(s) \in 1 .. Len(t) /\ Len(s) + (k - Len(s)) = k
        BY <2>1, <3>2
      <4>2. (s \o t)[k] = t[k - Len(s)]
        BY <2>1, <4>1
      <4> QED
        BY <2>2, <3>2, <4>1, <4>2
    <3> QED
      BY <3>1, <3>2
  <2> DEFINE w == Frames(s \o t)
             z == u \o v
  <2>5. /\ w \in Seq(Seq(S)) /\ Len(w) = Len(s) + Len(t)
        /\ \A k \in 1 .. Len(s) + Len(t) : w[k] = FrameAt((s \o t)[k])
    <3>1. w \in Seq(Seq(S))
      BY <1>2, FramesTyped
    <3>2. /\ Len(w) = Len(s) + Len(t)
          /\ \A k \in 1 .. Len(s) + Len(t) : w[k] = FrameAt((s \o t)[k])
      BY <2>1 DEF Frames
    <3> QED
      BY <3>1, <3>2
  <2>6. z \in Seq(Seq(S)) /\ Len(z) = Len(s) + Len(t)
    BY <2>3
  <2>7. \A k \in 1 .. Len(s) + Len(t) : w[k] = z[k]
    BY <2>3, <2>4, <2>5, Zenon
  <2> HIDE DEF w, z
  <2>8. w = z
    BY <2>5, <2>6, <2>7, SeqEqual
  <2> QED
    BY <2>8 DEF w, z
<1>4. FlattenSeq(u \o v) = FlattenSeq(u) \o FlattenSeq(v) /\ FlattenSeq(u) \in Seq(S)
  <2> HIDE DEF u, v, S
  <2> QED
    BY <1>1, FlattenJoined, FlattenTyped
<1>5. Frame(s \o t) = FlattenSeq(u \o v)
  BY <1>2, <1>3, FramesTyped
<1> QED
  BY <1>1, <1>4, <1>5

LEMMA FrameOfNothing ==
    ASSUME NEW s \in Seq(Elements), Lacks(s, Cells)
    PROVE  Frame(s) = <<>>
<1> DEFINE T == {r \in Seq(Elements) : Lacks(r, Cells) => Frame(r) = <<>>}
<1>1. <<>> \in T
  <2>1. Frames(<<>>) = <<>> /\ <<>> \in Seq(Elements)
    BY DEF Frames
  <2> QED
    BY <2>1, FramesTyped, FlattenEmpty
<1>2. ASSUME NEW r \in Seq(Elements), NEW e \in Elements, r \in T PROVE Append(r, e) \in T
  <2>1. /\ Append(r, e) = r \o <<e>> /\ <<e>> \in Seq(Elements) /\ Append(r, e) \in Seq(Elements)
        /\ Len(<<e>>) = 1 /\ <<e>>[1] = e
    OBVIOUS
  <2>2. Frame(Append(r, e)) = Frame(r) \o Frame(<<e>>)
    BY <2>1, FrameJoined
  <2>3. ASSUME Lacks(Append(r, e), Cells) PROVE Lacks(r, Cells) /\ e.tag \notin Cells
    <3>1. /\ DOMAIN Append(r, e) = 1 .. Len(r) + 1 /\ Len(r) \in Nat /\ DOMAIN r = 1 .. Len(r)
          /\ Append(r, e)[Len(r) + 1] = e
          /\ \A k \in 1 .. Len(r) : Append(r, e)[k] = r[k]
      OBVIOUS
    <3> QED
      BY <2>3, <3>1 DEF Lacks
  <2>4. ASSUME e.tag \notin Cells PROVE Frame(<<e>>) = <<>>
    <3>1. FrameAt(e) = <<>>
      BY <2>4 DEF FrameAt
    <3>2. Frames(<<e>>) = << <<>> >>
      BY <2>1, <3>1 DEF Frames
    <3>3. <<>> \in Seq(Cells)
      OBVIOUS
    <3> QED
      BY <2>1, <3>2, <3>3, FramesTyped, FlattenOne
  <2>5. <<>> \o <<>> = <<>>
    OBVIOUS
  <2> QED
    BY <1>2, <2>1, <2>2, <2>3, <2>4, <2>5
<1>3. \A r \in Seq(Elements) : r \in T
  <2> HIDE DEF T
  <2> QED
    BY <1>1, <1>2, SequenceInduction
<1> QED
  BY <1>3

\* An edit that is not refused takes a paragraph out of a document, or nothing, and
\* puts the new one in its place.
IsCut(xml, new, para, i, j) ==
    /\ i \in 2 .. Len(xml) /\ j \in 2 .. Len(xml)
    /\ Outside(xml, "p", "/p", i) /\ Outside(xml, "p", "/p", j)
    /\ (i = j \/ (i < j /\ Pair(xml, "p", "/p", i, j - 1)))
    /\ xml = Upto(xml, i - 1) \o (SubSeq(xml, i, j - 1) \o From(xml, j))
    /\ new = Upto(xml, i - 1) \o para \o From(xml, j)

LEMMA EditCuts ==
    ASSUME NEW xml, Even(xml), GoodDocument(xml), xml # <<>>, NEW n \in Nat, NEW text,
           NEW new, new = ApplyParagraphDelta(xml, n, text), new # xml
    PROVE  \E i, j \in 2 .. Len(xml) : IsCut(xml, new, NewParagraph(text), i, j)
<1> DEFINE para == NewParagraph(text)
           start == FindNthParagraphStart(xml, n)
           close == Find(xml, {"/p"}, start)
           end == Len(xml)
<1>1. xml \in Seq(Elements) /\ end \in Nat /\ DOMAIN xml = 1 .. end
  BY EvenTyped
<1>2. /\ end > 1
      /\ \A k \in DOMAIN xml : (xml[k].tag = "body" <=> k = 1) /\ (xml[k].tag = "/body" <=> k = end)
  BY DEF GoodDocument, Rooted
<1>3. Paired(xml)
  BY GoodIsPaired
<1>4. end \in 2 .. end /\ end \in DOMAIN xml
  BY <1>1, <1>2
<1>5. CASE start = npos
  <2>1. RFind(xml, "/body") = end /\ end # npos
    <3>1. /\ RFind(xml, "/body") \in DOMAIN xml
          /\ xml[RFind(xml, "/body")].tag = "/body"
      BY <1>1, <1>2, <1>4, FoundLast
    <3> DEFINE at == RFind(xml, "/body")
    <3> HIDE DEF at
    <3>2. at = end
      BY <1>2, <3>1, Zenon DEF at
    <3>3. end # npos
      BY <1>1, <1>2 DEF npos
    <3> QED
      BY <3>2, <3>3 DEF at
  <2>2. new = Upto(xml, end - 1) \o para \o From(xml, end)
    <3>1. new = InsertBefore(xml, "/body", para)
      BY <1>5 DEF ApplyParagraphDelta
    <3> QED
      BY <2>1, <3>1 DEF InsertBefore
  <2>3. Outside(xml, "p", "/p", end)
    <3>1. xml[end].tag # "/p" /\ end > 0
      BY <1>2, <1>4
    <3> QED
      BY <1>1, <1>3, <3>1, DocumentCuts
  <2>4. xml = Upto(xml, end - 1) \o (SubSeq(xml, end, end - 1) \o From(xml, end))
    <3>1. end \in 1 .. end + 1
      BY <1>1, <1>2
    <3>2. xml = Upto(xml, end - 1) \o From(xml, end) /\ From(xml, end) \in Seq(Elements)
      BY <1>1, <2>3, <3>1, EvenCut, Pieces
    <3>3. SubSeq(xml, end, end - 1) = <<>>
      BY <1>1
    <3>4. <<>> \o From(xml, end) = From(xml, end)
      BY <3>2
    <3> QED
      BY <3>2, <3>3, <3>4, Zenon
  <2> HIDE DEF end, para
  <2>5. IsCut(xml, new, para, end, end)
    BY <1>4, <2>2, <2>3, <2>4, Zenon DEF IsCut, end
  <2> QED
    BY <1>4, <2>5 DEF end, para
<1>6. CASE start # npos
  <2>1. start \in DOMAIN xml /\ xml[start].tag = "p"
    BY <1>6, NthStart
  <2> HIDE DEF start
  <2>2. PICK j \in DOMAIN xml : Pair(xml, "p", "/p", start, j)
    BY <2>1 DEF Even, Alternate
  <2>3. close = j /\ close # npos /\ start < close
    BY <1>1, <2>1, <2>2, ClosedBy
  <2>4. xml[close].tag = "/p" /\ close \in DOMAIN xml
    BY <2>2, <2>3 DEF Pair
  <2>5. xml = Upto(xml, start - 1) \o (SubSeq(xml, start, close) \o From(xml, close + 1))
    BY <2>1, AroundParagraph
  <2> HIDE DEF close
  <2>6. new = Upto(xml, start - 1) \o para \o From(xml, close + 1)
    BY <1>6, <2>3 DEF ApplyParagraphDelta, start, close
  <2>7. start # 1 /\ close # end
    <3> HIDE DEF end
    <3>1. "p" # "body" /\ "/p" # "/body"
      OBVIOUS
    <3>2. xml[start].tag # "body" /\ xml[close].tag # "/body"
      BY <2>1, <2>4, <3>1
    <3> QED
      BY <1>2, <2>1, <2>4, <3>2, Zenon
  <2>8. start \in 2 .. end /\ close + 1 \in 2 .. end /\ (close + 1) - 1 = close /\ start < close + 1
    BY <1>1, <2>1, <2>3, <2>4, <2>7
  <2>9. Outside(xml, "p", "/p", start) /\ Outside(xml, "p", "/p", close + 1)
    BY <1>1, <1>3, <2>1, <2>4, DocumentCuts DEF ParagraphStarts
  <2>10. IsCut(xml, new, para, start, close + 1)
    <3> HIDE DEF para
    <3> QED
      BY <2>2, <2>3, <2>5, <2>6, <2>8, <2>9, Zenon DEF IsCut, end
  <2> QED
    BY <2>8, <2>10
<1> QED
  BY <1>5, <1>6

LEMMA BalancedWith ==
    ASSUME NEW xml, Balanced(xml, "p", "/p", "p .../"), NEW single, Flat(xml, "p", "/p", single)
    PROVE  Balanced(xml, "p", "/p", single)
BY DEF Balanced

LEMMA LackingIsFlat ==
    ASSUME NEW xml, NEW open, NEW close, NEW single, Lacks(xml, {single})
    PROVE  Flat(xml, open, close, single)
BY DEF Flat, Lacks

LEMMA LacksJoined ==
    ASSUME NEW s \in Seq(Elements), NEW t \in Seq(Elements), NEW names,
           Lacks(s, names), Lacks(t, names)
    PROVE  Lacks(s \o t, names)
BY JoinedAt DEF Lacks

LEMMA LacksCut ==
    ASSUME NEW xml \in Seq(Elements), NEW i \in 1 .. Len(xml) + 1, NEW names, Lacks(xml, names)
    PROVE  Lacks(Upto(xml, i - 1), names) /\ Lacks(From(xml, i), names)
<1> DEFINE s == Upto(xml, i - 1)
           t == From(xml, i)
<1>1. /\ Len(xml) \in Nat /\ DOMAIN xml = 1 .. Len(xml)
      /\ s \in Seq(Elements) /\ t \in Seq(Elements)
      /\ Len(s) = i - 1 /\ Len(t) = Len(xml) + 1 - i
      /\ \A k \in 1 .. i - 1 : s[k] = xml[k]
      /\ \A k \in 1 .. Len(xml) + 1 - i : t[k] = xml[i - 1 + k]
  <2>1. Len(xml) \in Nat /\ DOMAIN xml = 1 .. Len(xml)
    OBVIOUS
  <2>2. /\ s \in Seq(Elements) /\ t \in Seq(Elements)
        /\ Len(s) = i - 1 /\ Len(t) = Len(xml) + 1 - i
        /\ \A k \in 1 .. i - 1 : s[k] = xml[k]
        /\ \A k \in 1 .. Len(xml) + 1 - i : t[k] = xml[i - 1 + k]
    BY Pieces, Zenon
  <2> HIDE DEF s, t
  <2> QED
    BY <2>1, <2>2
<1> HIDE DEF s, t
<1>2. DOMAIN s = 1 .. i - 1 /\ DOMAIN t = 1 .. Len(xml) + 1 - i
  <2>1. DOMAIN s = 1 .. Len(s) /\ DOMAIN t = 1 .. Len(t)
    BY <1>1
  <2> QED
    BY <1>1, <2>1
<1>3. /\ \A k \in DOMAIN s : k \in DOMAIN xml /\ s[k] = xml[k]
      /\ \A k \in DOMAIN t : i - 1 + k \in DOMAIN xml /\ t[k] = xml[i - 1 + k]
  <2>1. /\ \A k \in 1 .. i - 1 : k \in 1 .. Len(xml)
        /\ \A k \in 1 .. Len(xml) + 1 - i : i - 1 + k \in 1 .. Len(xml)
    BY <1>1
  <2> QED
    BY <1>1, <1>2, <2>1
<1> QED
  BY <1>3 DEF Lacks, s, t

\* A new paragraph brings its own tags and no others.
LEMMA NewTags ==
    ASSUME NEW text \in Seq(Words)
    PROVE  /\ NewParagraph(text) \in Seq(Elements)
           /\ Lacks(NewParagraph(text), {"body", "/body"})
           /\ Lacks(NewParagraph(text), Cells) /\ Lacks(NewParagraph(text), {"p/"})
           /\ \A single \in {"p .../"} \cup Cells :
                 Balanced(NewParagraph(text), "p", "/p", single)
<1> DEFINE para == NewParagraph(text)
<1>1. /\ para \in Seq(Elements) /\ Balanced(para, "p", "/p", "p .../")
      /\ \A k \in DOMAIN para : para[k].tag \in {"p", "t", "/p"}
  BY FreshParagraph
<1> HIDE DEF para
<1>2. /\ Lacks(para, {"body", "/body"}) /\ Lacks(para, Cells) /\ Lacks(para, {"p/"})
      /\ \A cell \in Cells : Lacks(para, {cell})
  BY <1>1 DEF Lacks, Cells
<1>3. \A cell \in Cells : Balanced(para, "p", "/p", cell)
  BY <1>1, <1>2, LackingIsFlat, BalancedWith
<1> QED
  BY <1>1, <1>2, <1>3 DEF para

LEMMA EditKeepsGood ==
    ASSUME NEW xml \in Seq(Elements), GoodDocument(xml), xml # <<>>, NEW text \in Seq(Words),
           NEW new, NEW i \in 2 .. Len(xml), NEW j \in 2 .. Len(xml),
           IsCut(xml, new, NewParagraph(text), i, j)
    PROVE  /\ GoodDocument(new) /\ new # <<>>
           /\ Lacks(xml, {"p/"}) => Lacks(new, {"p/"})
<1> DEFINE para == NewParagraph(text)
           s == Upto(xml, i - 1)
           m == SubSeq(xml, i, j - 1)
           t == From(xml, j)
           Single == {"p .../"} \cup Cells
<1>1. /\ Rooted(xml, "body", "/body") /\ Nested(Frame(xml))
      /\ \A single \in Single : Balanced(xml, "p", "/p", single)
      /\ \A cell \in Cells : Flat(xml, "p", "/p", cell)
  BY BalancedWith DEF GoodDocument
<1>2. /\ Len(xml) \in Nat /\ DOMAIN xml = 1 .. Len(xml)
      /\ i \in 1 .. Len(xml) + 1 /\ j \in 1 .. Len(xml) + 1
  OBVIOUS
<1>3. s \in Seq(Elements) /\ t \in Seq(Elements) /\ m \in Seq(Elements)
  <2>1. s \in Seq(Elements) /\ t \in Seq(Elements)
    BY <1>2, Pieces
  <2>2. m \in Seq(Elements)
    BY <1>2
  <2> QED
    BY <2>1, <2>2
<1>4. /\ xml = s \o (m \o t) /\ new = s \o para \o t
      /\ Outside(xml, "p", "/p", i) /\ Outside(xml, "p", "/p", j)
      /\ (i = j \/ (i < j /\ Pair(xml, "p", "/p", i, j - 1)))
  BY Zenon DEF IsCut
<1>5. /\ para \in Seq(Elements) /\ Lacks(para, {"body", "/body"}) /\ Lacks(para, Cells)
      /\ Lacks(para, {"p/"}) /\ \A single \in Single : Balanced(para, "p", "/p", single)
  BY NewTags, Zenon
<1>6. Opening(s, "body", "/body") /\ Ending(t, "body", "/body")
  BY <1>1, RootedCut
<1>7. \A single \in Single : Balanced(s, "p", "/p", single) /\ Balanced(t, "p", "/p", single)
  BY <1>1, <1>2, <1>4, CutBalanced
<1>8. Lacks(m, Cells)
  <2> SUFFICES ASSUME NEW k \in DOMAIN m PROVE m[k].tag \notin Cells
    BY DEF Lacks
  <2>1. m = [l \in 1 .. j - i |-> xml[i + l - 1]] \/ j < i
    BY <1>2
  <2>2. i < j /\ Pair(xml, "p", "/p", i, j - 1)
    <3>1. i = j => m = <<>>
      BY <1>2
    <3> QED
      BY <1>4, <3>1
  <2>3. k \in 1 .. j - i /\ m[k] = xml[i + k - 1]
    BY <1>2, <2>1, <2>2
  <2>4. i + k - 1 \in i .. j - 1 /\ i + k - 1 \in DOMAIN xml /\ j - 1 \in DOMAIN xml
    BY <1>2, <2>2, <2>3
  <2>5. xml[i].tag = "p" /\ xml[j - 1].tag = "/p"
    BY <2>2 DEF Pair
  <2>6. CASE i + k - 1 = i \/ i + k - 1 = j - 1
    BY <2>3, <2>5, <2>6 DEF Cells
  <2>7. CASE i < i + k - 1 /\ i + k - 1 < j - 1
    <3>1. \A cell \in Cells : xml[i + k - 1].tag # cell
      <4> DEFINE h == i + k - 1
                 l == j - 1
      <4>1. h \in DOMAIN xml /\ l \in DOMAIN xml /\ i \in DOMAIN xml /\ i < h /\ h < l
            /\ Pair(xml, "p", "/p", i, l)
        BY <1>2, <2>2, <2>4, <2>7
      <4> HIDE DEF h, l
      <4>2. \A cell \in Cells : xml[h].tag # cell
        BY <1>1, <4>1, Zenon DEF Flat
      <4> QED
        BY <4>2 DEF h
    <3> QED
      BY <2>3, <3>1
  <2> QED
    BY <1>2, <2>4, <2>6, <2>7
<1> HIDE DEF s, m, t, para
<1>9. /\ s \o para \in Seq(Elements) /\ new \in Seq(Elements) /\ m \o t \in Seq(Elements)
  BY <1>3, <1>4, <1>5, Joined
<1>10. Rooted(new, "body", "/body")
  BY <1>3, <1>4, <1>5, <1>6, <1>9, RootedJoined
<1>11. \A single \in Single : Balanced(new, "p", "/p", single)
  <2>1. \A single \in Single : Balanced(s \o para, "p", "/p", single)
    BY <1>3, <1>5, <1>7, JoinedBalanced
  <2> QED
    BY <1>3, <1>4, <1>7, <1>9, <2>1, JoinedBalanced
<1>12. Frame(new) = Frame(xml)
  <2>1. Frame(m) = <<>> /\ Frame(para) = <<>>
    BY <1>3, <1>5, <1>8, FrameOfNothing
  <2>2. Frame(s) \in Seq(Cells) /\ Frame(t) \in Seq(Cells)
    BY <1>3, FrameJoined
  <2>3. Frame(xml) = Frame(s) \o (<<>> \o Frame(t))
    <3>1. Frame(m \o t) = Frame(m) \o Frame(t)
      BY <1>3, FrameJoined, Zenon
    <3>2. Frame(s \o (m \o t)) = Frame(s) \o Frame(m \o t)
      BY <1>3, <1>9, FrameJoined, Zenon
    <3> QED
      BY <1>4, <2>1, <3>1, <3>2, Zenon
  <2>4. Frame(new) = (Frame(s) \o <<>>) \o Frame(t)
    <3>1. Frame(s \o para) = Frame(s) \o Frame(para)
      BY <1>3, <1>5, FrameJoined, Zenon
    <3>2. Frame((s \o para) \o t) = Frame(s \o para) \o Frame(t)
      BY <1>3, <1>9, FrameJoined, Zenon
    <3> QED
      BY <1>4, <2>1, <3>1, <3>2, Zenon
  <2>5. <<>> \o Frame(t) = Frame(t) /\ Frame(s) \o <<>> = Frame(s)
    BY <2>2
  <2> QED
    BY <2>3, <2>4, <2>5, Zenon
<1>13. GoodDocument(new)
  BY <1>1, <1>10, <1>11, <1>12 DEF GoodDocument, Balanced
<1>14. Lacks(xml, {"p/"}) => Lacks(new, {"p/"})
  <2> SUFFICES ASSUME Lacks(xml, {"p/"}) PROVE Lacks(new, {"p/"})
    OBVIOUS
  <2>1. Lacks(s, {"p/"}) /\ Lacks(t, {"p/"})
    BY <1>2, LacksCut DEF s, t
  <2> QED
    BY <1>3, <1>4, <1>5, <1>9, <2>1, LacksJoined
<1>15. new # <<>>
  BY <1>10 DEF Rooted
<1> QED
  BY <1>13, <1>14, <1>15

\* No paragraph of the files is written <w:p .../>: its end would be taken for the
\* end of the next one, or of the document.
NoSingleTags == \A file \in Files : Lacks(file.document, {"p .../"})

WInv == IInv /\ Even(documentXml) /\ GoodDocument(documentXml)

LEMMA InitWhole == ASSUME NoSingleTags, Init PROVE WInv
<1>1. PICK file \in Files \cup {[document |-> <<>>, comments |-> <<>>]} :
         documentXml = file.document /\ commentsXml = file.comments
  BY DEF Init
<1>2. IInv
  BY InitGood
<1>3. CASE file \in Files
  <2>1. GoodDocument(documentXml) /\ Lacks(documentXml, {"p .../"})
    BY <1>1, <1>3, FilesAssumption DEF NoSingleTags
  <2> QED
    BY <1>2, <2>1 DEF WInv, IInv, Paired, Balanced, Even
<1>4. CASE file = [document |-> <<>>, comments |-> <<>>]
  <2>1. documentXml = <<>>
    BY <1>1, <1>4
  <2> QED
    BY <1>2, <2>1 DEF WInv, GoodDocument, Even, Lacks, Alternate
<1> QED
  BY <1>3, <1>4

\* What an edit of a paragraph does to a document.
LEMMA EditWhole ==
    ASSUME WInv, NEW n \in Indices, NEW text \in Texts, EditParagraph(n, text)
    PROVE  /\ Even(documentXml') /\ GoodDocument(documentXml')
           /\ Lacks(documentXml, {"p/"}) => Lacks(documentXml', {"p/"})
<1> DEFINE xml == documentXml
           new == documentXml'
<1>1. text \in Seq(Words) /\ n \in Nat
  BY FilesAssumption
<1>2. new = ApplyParagraphDelta(xml, n, text) /\ xml # <<>>
  BY DEF EditParagraph, IsLoaded
<1>3. Even(xml) /\ GoodDocument(xml) /\ xml \in Seq(Elements) /\ Paired(xml)
  BY DEF WInv, IInv
<1> HIDE DEF xml, new
<1>4. Even(new)
  BY <1>1, <1>2, <1>3, EditShown
<1>5. CASE new = xml
  BY <1>3, <1>5 DEF xml, new
<1>6. CASE new # xml
  <2>1. PICK i \in 2 .. Len(xml), j \in 2 .. Len(xml) : IsCut(xml, new, NewParagraph(text), i, j)
    BY <1>1, <1>2, <1>3, <1>6, EditCuts
  <2>2. GoodDocument(new) /\ (Lacks(xml, {"p/"}) => Lacks(new, {"p/"}))
    BY <1>1, <1>2, <1>3, <2>1, EditKeepsGood
  <2> QED
    BY <1>4, <2>2 DEF xml, new
<1> QED
  BY <1>5, <1>6

LEMMA NextWhole == WInv /\ [Next]_vars => WInv'
<1> SUFFICES ASSUME WInv, [Next]_vars PROVE WInv'
  OBVIOUS
<1>1. IInv'
  BY NextGood DEF WInv
<1>2. CASE documentXml' = documentXml
  BY <1>1, <1>2 DEF WInv
<1>3. ASSUME NEW n \in Indices, NEW text \in Texts, EditParagraph(n, text) PROVE WInv'
  BY <1>1, <1>3, EditWhole DEF WInv
<1> QED
  BY <1>2, <1>3 DEF Next, EditComment, vars

\* However often the editor changes paragraphs and comments of a file that was
\* well formed, both parts stay so: applyParagraphDelta and applyCommentDelta cut
\* outside the pairs only, although they find their place by searching for tags.
THEOREM PartsStayWellFormed == NoSingleTags => (Spec => []WellFormed)
<1>1. NoSingleTags /\ Init => WInv
  BY InitWhole
<1>2. WInv => WellFormed
  BY DEF WInv, IInv, WellFormed
<1>3. NoSingleTags' <=> NoSingleTags
  BY DEF NoSingleTags, Lacks
<1> QED
  BY <1>1, <1>2, <1>3, NextWhole, PTL DEF Spec

-----------------------------------------------------------------------------
(* What a peer reads in the comments' part: a delta at each entry.         *)

Opens  == {"comment", "comment/"}
Closes == {"/comment"}

\* Entries that open and close in turn, none inside another.
Entries(xml) == xml \in Seq(Elements) /\ Balanced(xml, "comment", "/comment", "comment/")

DeltaFrom(open, words) == [id |-> open.id, author |-> open.author, text |-> words]
DeltaAt(xml, i) ==
    DeltaFrom(xml[i], IF xml[i].tag = "comment/" THEN <<>>
                      ELSE ExtractParaText(SubSeq(xml, i, Find(xml, Closes, i))))
DeltasAt(xml, i) == IF xml[i].tag \in Opens THEN << DeltaAt(xml, i) >> ELSE <<>>
DeltasOf(xml)    == [i \in 1 .. Len(xml) |-> DeltasAt(xml, i)]
AnyText  == {ExtractParaText(x) : x \in Seq(Elements)} \cup {<<>>}
AnyDelta == {DeltaFrom(o[1], o[2]) : o \in Elements \X AnyText}

LEMMA EntriesTyped ==
    ASSUME NEW xml, Entries(xml)
    PROVE  xml \in Seq(Elements) /\ Len(xml) \in Nat /\ DOMAIN xml = 1 .. Len(xml)
<1>1. xml \in Seq(Elements)
  BY DEF Entries
<1> QED
  BY <1>1

\* Where an entry with a body ends, and that nothing begins before.
LEMMA EntryClosed ==
    ASSUME NEW xml, Entries(xml), NEW i \in DOMAIN xml, xml[i].tag = "comment",
           NEW j, j = Find(xml, Closes, i)
    PROVE  /\ j # npos /\ j \in DOMAIN xml /\ i < j /\ xml[j].tag = "/comment"
           /\ Pair(xml, "comment", "/comment", i, j)
           /\ \A k \in i + 1 .. j : xml[k].tag \notin Opens
           /\ SubSeq(xml, i, j) \in Seq(Elements)
<1>1. xml \in Seq(Elements) /\ Len(xml) \in Nat /\ DOMAIN xml = 1 .. Len(xml)
  BY EntriesTyped
<1> DEFINE o == "comment"
           c == "/comment"
           x == "comment/"
<1>2. o # c /\ xml[i].tag = o /\ Alternate(xml, o, c) /\ Flat(xml, o, c, x)
      /\ Opens = {o, x} /\ Closes = {c} /\ c # x
  BY DEF Entries, Balanced, Opens, Closes
<1> HIDE DEF o, c, x
<1>3. PICK k \in DOMAIN xml : Pair(xml, o, c, i, k)
  BY <1>2 DEF Alternate
<1>4. j = k /\ j # npos /\ i < j
  BY <1>1, <1>2, <1>3, ClosedBy
<1>5. xml[j].tag = c
  BY <1>3, <1>4 DEF Pair
<1>6. ASSUME NEW n \in i + 1 .. j PROVE xml[n].tag \notin Opens
  <2>1. n \in DOMAIN xml /\ n \in Int /\ i < n /\ n <= j
    BY <1>1, <1>3, <1>4
  <2>2. CASE n = j
    BY <1>2, <1>5, <2>2
  <2>3. CASE n # j
    <3>1. n < j /\ i \in Int /\ j \in Int
      BY <1>1, <1>3, <1>4, <2>1, <2>3
    <3>2. xml[n].tag \notin {o, c}
      BY <1>3, <1>4, <2>1, <3>1, NothingBetween
    <3>3. xml[n].tag # x
      BY <1>2, <1>3, <1>4, <2>1, <3>1 DEF Flat
    <3> QED
      BY <1>2, <3>2, <3>3
  <2> QED
    BY <2>2, <2>3
<1>7. SubSeq(xml, i, j) \in Seq(Elements)
  BY <1>1, <1>3, <1>4
<1> QED
  BY <1>3, <1>4, <1>5, <1>6, <1>7 DEF o, c

LEMMA DeltasTyped ==
    ASSUME NEW xml, Entries(xml)
    PROVE  /\ DeltasOf(xml) \in Seq(Seq(AnyDelta)) /\ Len(DeltasOf(xml)) = Len(xml)
           /\ \A i \in 1 .. Len(xml) : DeltasOf(xml)[i] = DeltasAt(xml, i)
<1>1. xml \in Seq(Elements) /\ Len(xml) \in Nat /\ DOMAIN xml = 1 .. Len(xml)
  BY EntriesTyped
<1>2. \A open \in Elements, words \in AnyText : DeltaFrom(open, words) \in AnyDelta
  <2> SUFFICES ASSUME NEW open \in Elements, NEW words \in AnyText
               PROVE  DeltaFrom(open, words) \in AnyDelta
    OBVIOUS
  <2> DEFINE o == <<open, words>>
  <2>1. o \in Elements \X AnyText /\ o[1] = open /\ o[2] = words
    OBVIOUS
  <2> HIDE DEF o
  <2> QED
    BY <2>1, Zenon DEF AnyDelta
<1>3. ASSUME NEW i \in 1 .. Len(xml) PROVE DeltasAt(xml, i) \in Seq(AnyDelta)
  <2>1. CASE xml[i].tag \in Opens
    <3>1. xml[i] \in Elements
      BY <1>1
    <3>2. DeltaAt(xml, i) \in AnyDelta
      <4>1. CASE xml[i].tag = "comment/"
        <5>1. DeltaAt(xml, i) = DeltaFrom(xml[i], <<>>)
          BY <4>1, Zenon DEF DeltaAt
        <5>2. <<>> \in AnyText
          BY Zenon DEF AnyText
        <5> QED
          BY <1>2, <3>1, <5>1, <5>2, Zenon
      <4>2. CASE xml[i].tag # "comment/"
        <5>1. xml[i].tag = "comment"
          BY <2>1, <4>2, Zenon DEF Opens
        <5> DEFINE b == SubSeq(xml, i, Find(xml, Closes, i))
        <5>2. b \in Seq(Elements)
          BY <1>1, <5>1, EntryClosed
        <5>3. DeltaAt(xml, i) = DeltaFrom(xml[i], ExtractParaText(b))
          BY <4>2, Zenon DEF DeltaAt
        <5> HIDE DEF b
        <5>4. ExtractParaText(b) \in AnyText
          BY <5>2, Zenon DEF AnyText
        <5> QED
          BY <1>2, <3>1, <5>3, <5>4, Zenon
      <4> QED
        BY <4>1, <4>2, Zenon
    <3> DEFINE d == DeltaAt(xml, i)
               S == AnyDelta
    <3> HIDE DEF d, S
    <3>3. d \in S
      BY <3>2 DEF d, S
    <3>4. << d >> \in Seq(S)
      BY <3>3
    <3> QED
      BY <2>1, <3>4, Zenon DEF DeltasAt, d, S
  <2>2. CASE xml[i].tag \notin Opens
    <3>1. DeltasAt(xml, i) = <<>>
      BY <2>2, Zenon DEF DeltasAt
    <3> DEFINE S == AnyDelta
    <3> HIDE DEF S
    <3>2. <<>> \in Seq(S)
      OBVIOUS
    <3> QED
      BY <3>1, <3>2 DEF S
  <2> QED
    BY <2>1, <2>2, Zenon
<1>4. DeltasOf(xml) \in Seq(Seq(AnyDelta))  /\ Len(DeltasOf(xml)) = Len(xml)
  <2> DEFINE S == Seq(AnyDelta)
             D == DeltasOf(xml)
  <2>1. D \in [1 .. Len(xml) -> S]
    BY <1>3, Zenon DEF DeltasOf
  <2> HIDE DEF S, D
  <2>2. D \in Seq(S) /\ Len(D) = Len(xml)
    BY <1>1, <2>1
  <2> QED
    BY <2>2 DEF S, D
<1>5. \A i \in 1 .. Len(xml) : DeltasOf(xml)[i] = DeltasAt(xml, i)
  BY Zenon DEF DeltasOf
<1> QED
  BY <1>4, <1>5

\* A peer reads the delta of each tag that opens an entry.
LEMMA PeerReadsComments ==
    ASSUME NEW xml, Entries(xml), Find(xml, {"comments"}, 1) # npos
    PROVE  ParseCommentDeltas(xml) = FlattenSeq(DeltasOf(xml))
<1> DEFINE N == Len(xml)
           B == DeltasOf(xml)
           start(p) == Find(xml, Opens, p)
           close(p) == Find(xml, Closes, start(p))
           bare(p) == xml[start(p)].tag = "comment/"
           whole(p) == DeltaFrom(xml[start(p)], ExtractParaText(SubSeq(xml, start(p), close(p))))
           F(g) == [pos \in Nat |->
                      IF start(pos) = npos THEN <<>>
                      ELSE IF bare(pos)
                      THEN << DeltaFrom(xml[start(pos)], <<>>) >> \o g[start(pos) + 1]
                      ELSE IF close(pos) = npos THEN <<>>
                      ELSE << whole(pos) >> \o g[close(pos) + 1]]
           stop == [p \in Nat |-> start(p) = npos \/ (~bare(p) /\ close(p) = npos)]
           head == [p \in Nat |-> IF bare(p) THEN << DeltaFrom(xml[start(p)], <<>>) >>
                                             ELSE << whole(p) >>]
           next == [p \in Nat |-> IF bare(p) THEN start(p) + 1 ELSE close(p) + 1]
<1>1. /\ xml \in Seq(Elements) /\ N \in Nat /\ DOMAIN xml = 1 .. N
      /\ \A p \in 1 .. N + 1 : p \in Nat \ {0}
  <2>1. xml \in Seq(Elements)
    BY EntriesTyped
  <2> QED
    BY <2>1
<1>2. ASSUME NEW g
      PROVE  g = F(g) <=> IsSearch(g, stop, head, next)
  <2>1. ASSUME NEW p \in Nat
        PROVE  (IF start(p) = npos THEN <<>>
                ELSE IF bare(p)
                THEN << DeltaFrom(xml[start(p)], <<>>) >> \o g[start(p) + 1]
                ELSE IF close(p) = npos THEN <<>>
                ELSE << whole(p) >> \o g[close(p) + 1])
               = IF stop[p] THEN <<>> ELSE head[p] \o g[next[p]]
    <3>1. stop[p] = (start(p) = npos \/ (~bare(p) /\ close(p) = npos))
      BY Zenon
    <3>2. head[p] = IF bare(p) THEN << DeltaFrom(xml[start(p)], <<>>) >> ELSE << whole(p) >>
      BY Zenon
    <3>3. next[p] = IF bare(p) THEN start(p) + 1 ELSE close(p) + 1
      BY Zenon
    <3> HIDE DEF stop, head, next, start, close, bare, whole
    <3>4. CASE bare(p)
      BY <3>1, <3>2, <3>3, <3>4, Zenon
    <3>5. CASE ~bare(p)
      BY <3>1, <3>2, <3>3, <3>5, Zenon
    <3> QED
      BY <3>4, <3>5, Zenon
  <2> QED
    BY <2>1, Zenon DEF IsSearch
<1>3. ASSUME NEW p \in Nat, start(p) # npos
      PROVE  /\ start(p) \in p .. N /\ start(p) \in DOMAIN xml
             /\ xml[start(p)].tag \in Opens
             /\ \A k \in p .. N : xml[k].tag \in Opens => start(p) <= k
  <2> DEFINE s == start(p)
  <2>1. /\ s \in p .. N /\ xml[s].tag \in Opens
        /\ \A k \in p .. N : xml[k].tag \in Opens => s <= k
    BY <1>1, <1>3, FoundFirst
  <2>2. s # npos
    BY <1>3
  <2> HIDE DEF s
  <2>3. s \in DOMAIN xml
    BY <1>1, <2>1, <2>2 DEF npos
  <2> QED
    BY <2>1, <2>3 DEF s
<1>4. ASSUME NEW p \in Nat, start(p) # npos, ~bare(p)
      PROVE  /\ close(p) \in DOMAIN xml /\ close(p) # npos /\ start(p) < close(p)
             /\ \A k \in start(p) + 1 .. close(p) : xml[k].tag \notin Opens
  <2>1. start(p) \in DOMAIN xml /\ xml[start(p)].tag \in Opens
    BY <1>3, <1>4
  <2>2. xml[start(p)].tag = "comment"
    BY <1>4, <2>1, Zenon DEF Opens
  <2> HIDE DEF start
  <2> QED
    BY <2>1, <2>2, EntryClosed
<1>5. \E f : f = F(f)
  <2>1. GoesOn(N, stop, next)
    <3> SUFFICES ASSUME NEW p \in Nat, ~stop[p]
                 PROVE  p <= N /\ next[p] \in Nat /\ next[p] > p
      BY DEF GoesOn
    <3>1. start(p) # npos
      BY Zenon
    <3>2. next[p] = IF bare(p) THEN start(p) + 1 ELSE close(p) + 1
      BY Zenon
    <3>3. start(p) \in p .. N
      BY <1>3, <3>1
    <3>4. ~bare(p) => close(p) \in 1 .. N /\ start(p) < close(p)
      BY <1>1, <1>4, <3>1
    <3> HIDE DEF start, close, next, bare
    <3>5. CASE bare(p)
      BY <1>1, <3>2, <3>3, <3>5
    <3>6. CASE ~bare(p)
      BY <1>1, <3>2, <3>3, <3>4, <3>6
    <3> QED
      BY <3>5, <3>6
  <2>2. N \in Nat
    BY <1>1
  <2> HIDE DEF stop, head, next, F, N
  <2>3. \E f : IsSearch(f, stop, head, next)
    BY <2>1, <2>2, SearchDefined
  <2> QED
    BY <1>2, <2>3, Zenon
<1> DEFINE f == CHOOSE g : g = F(g)
<1>6. ParseCommentDeltas(xml) = f[1]
  BY Zenon DEF ParseCommentDeltas, DeltaFrom, Opens, Closes
<1>7. f = F(f)
  BY <1>5, Zenon
<1>8. IsSearch(f, stop, head, next)
  <2> HIDE DEF F, f, stop, head, next
  <2> QED
    BY <1>2, <1>7, Zenon
<1>9. /\ B \in Seq(Seq(AnyDelta)) /\ Len(B) = N
      /\ \A i \in 1 .. N : B[i] = DeltasAt(xml, i)
  BY DeltasTyped
<1> HIDE DEF f, F, B
<1>10. ASSUME NEW p \in 1 .. N + 1, stop[p] PROVE \A k \in p .. N : B[k] = <<>>
  <2>1. p \in Nat /\ p # 0
    BY <1>1
  <2>2. start(p) = npos
    <3>1. start(p) = npos \/ (~bare(p) /\ close(p) = npos)
      BY <1>10, <2>1, Zenon
    <3> QED
      BY <1>4, <2>1, <3>1
  <2>3. \A k \in p .. N : xml[k].tag \notin Opens
    BY <1>1, <2>1, <2>2, FoundFirst
  <2>4. \A k \in p .. N : k \in 1 .. N
    BY <1>1
  <2> QED
    BY <1>9, <2>3, <2>4, Zenon DEF DeltasAt
<1>11. ASSUME NEW p \in 1 .. N + 1, ~stop[p]
       PROVE  \E i \in p .. N, j \in p .. N :
                 /\ i <= j /\ next[p] = j + 1 /\ head[p] = B[i]
                 /\ \A k \in p .. j : k # i => B[k] = <<>>
  <2> DEFINE i == start(p)
             j == IF bare(p) THEN start(p) ELSE close(p)
  <2>1. p \in Nat /\ p # 0
    BY <1>1
  <2>2. i # npos
    BY <1>11, <2>1, Zenon
  <2>3. next[p] = j + 1
    <3>1. next[p] = IF bare(p) THEN start(p) + 1 ELSE close(p) + 1
      BY <2>1, Zenon
    <3> QED
      BY <3>1, Zenon
  <2>4. i \in p .. N /\ i \in 1 .. N /\ xml[i].tag \in Opens
        /\ \A k \in p .. N : xml[k].tag \in Opens => i <= k
    BY <1>1, <1>3, <2>1, <2>2
  <2>5. j \in p .. N /\ i <= j /\ \A k \in i + 1 .. j : xml[k].tag \notin Opens
    <3>1. CASE bare(p)
      <4>1. j = i
        BY <3>1, Zenon
      <4> HIDE DEF i, j
      <4> QED
        BY <1>1, <2>4, <4>1
    <3>2. CASE ~bare(p)
      <4>1. j = close(p)
        BY <3>2, Zenon
      <4>2. /\ close(p) \in 1 .. N /\ i < close(p)
            /\ \A k \in i + 1 .. close(p) : xml[k].tag \notin Opens
        BY <1>1, <1>4, <2>1, <2>2, <3>2
      <4> HIDE DEF i, j, close
      <4> QED
        BY <1>1, <2>4, <4>1, <4>2
    <3> QED
      BY <3>1, <3>2
  <2>6. head[p] = << DeltaAt(xml, i) >>
    <3>1. head[p] = IF bare(p) THEN << DeltaFrom(xml[start(p)], <<>>) >> ELSE << whole(p) >>
      BY <2>1, Zenon
    <3> QED
      BY <3>1, Zenon DEF DeltaAt
  <2>7. head[p] = B[i]
    BY <1>9, <2>4, <2>6, Zenon DEF DeltasAt
  <2> HIDE DEF stop, head, next, i, j
  <2>8. ASSUME NEW k \in p .. j, k # i PROVE B[k] = <<>>
    <3>1. k \in 1 .. N /\ k \in p .. N /\ (k < i \/ k \in i + 1 .. j)
      BY <1>1, <2>4, <2>5, <2>8
    <3>2. xml[k].tag \notin Opens
      BY <1>1, <2>4, <2>5, <3>1
    <3> QED
      BY <1>9, <3>1, <3>2, Zenon DEF DeltasAt
  <2> QED
    BY <2>3, <2>4, <2>5, <2>7, <2>8, Zenon
<1>12. f[1] = FlattenSeq(B)
  <2> HIDE DEF stop, head, next, N
  <2> DEFINE S == AnyDelta
  <2>1. B \in Seq(Seq(S)) /\ N = Len(B)
    BY <1>9
  <2> HIDE DEF S
  <2>2. StopsAtNothing(N, B, stop)
    BY <1>10, Zenon DEF StopsAtNothing
  <2>3. FindsNext(N, B, stop, head, next)
    BY <1>11, Zenon DEF FindsNext
  <2> QED
    BY <1>8, <2>1, <2>2, <2>3, SearchCollects
<1> QED
  BY <1>6, <1>12 DEF B

-----------------------------------------------------------------------------
(* The set of what is read in the comments' part.                          *)

Shown(xml) == {DeltaAt(xml, i) : i \in {j \in DOMAIN xml : xml[j].tag \in Opens}}

\* As a set, what is read is what is shown.
LEMMA ShownIsRead ==
    ASSUME NEW xml, Entries(xml), Find(xml, {"comments"}, 1) # npos
    PROVE  ToSet(ParseCommentDeltas(xml)) = Shown(xml)
<1> DEFINE B == DeltasOf(xml)
<1>1. /\ B \in Seq(Seq(AnyDelta))
      /\ \A i \in 1 .. Len(xml) : B[i] = DeltasAt(xml, i)
  BY DeltasTyped
<1>2. DOMAIN xml = 1 .. Len(xml) /\ DOMAIN B = 1 .. Len(xml)
  BY EntriesTyped DEF DeltasOf
<1>3. ParseCommentDeltas(xml) = FlattenSeq(B)
  BY PeerReadsComments
<1> HIDE DEF B
<1>4. \A x : x \in ToSet(FlattenSeq(B)) <=> \E i \in DOMAIN B : x \in ToSet(B[i])
  BY <1>1, FlattenElements
<1>5. ASSUME NEW i \in 1 .. Len(xml), NEW x
      PROVE  x \in ToSet(B[i]) <=> xml[i].tag \in Opens /\ x = DeltaAt(xml, i)
  <2>1. CASE xml[i].tag \in Opens
    <3> DEFINE d == DeltaAt(xml, i)
    <3>1. B[i] = << d >>
      BY <1>1, <2>1, Zenon DEF DeltasAt
    <3> HIDE DEF d
    <3>2. ToSet(<< d >>) = {d}
      BY DEF ToSet
    <3> QED
      BY <2>1, <3>1, <3>2 DEF d
  <2>2. CASE xml[i].tag \notin Opens
    <3>1. B[i] = <<>>
      BY <1>1, <2>2, Zenon DEF DeltasAt
    <3>2. ToSet(<<>>) = {}
      BY DEF ToSet
    <3> QED
      BY <2>2, <3>1, <3>2
  <2> QED
    BY <2>1, <2>2
<1>6. \A x : x \in ToSet(FlattenSeq(B)) <=>
               \E i \in 1 .. Len(xml) : xml[i].tag \in Opens /\ x = DeltaAt(xml, i)
  BY <1>2, <1>4, <1>5, Zenon
<1>7. \A x : x \in Shown(xml) <=>
               \E i \in 1 .. Len(xml) : xml[i].tag \in Opens /\ x = DeltaAt(xml, i)
  BY <1>2, Zenon DEF Shown
<1> QED
  BY <1>3, <1>6, <1>7, Zenon

LEMMA ShownIs ==
    ASSUME NEW xml, Entries(xml)
    PROVE  \A x : x \in Shown(xml) <=>
                    \E i \in DOMAIN xml : xml[i].tag \in Opens /\ x = DeltaAt(xml, i)
BY Zenon DEF Shown

LEMMA EntriesJoined ==
    ASSUME NEW s, NEW t, Entries(s), Entries(t)
    PROVE  Entries(s \o t)
BY JoinedBalanced, Joined DEF Entries

\* What is shown by what is joined.
LEMMA ShownJoined ==
    ASSUME NEW s, NEW t, Entries(s), Entries(t)
    PROVE  Shown(s \o t) = Shown(s) \cup Shown(t)
<1> DEFINE xml == s \o t
           m == Len(s)
<1>1. s \in Seq(Elements) /\ t \in Seq(Elements)
  BY EntriesTyped
<1>2. /\ m \in Nat /\ Len(t) \in Nat /\ DOMAIN xml = 1 .. m + Len(t)
      /\ xml \in Seq(Elements) /\ Len(xml) = m + Len(t)
      /\ DOMAIN s = 1 .. m /\ DOMAIN t = 1 .. Len(t)
      /\ \A k \in 1 .. m : xml[k] = s[k]
      /\ \A k \in 1 .. Len(t) : xml[m + k] = t[k]
  BY <1>1, Joined
<1>3. Entries(xml)
  BY EntriesJoined
<1>4. /\ \A i, j \in 1 .. m : SubSeq(xml, i, j) = SubSeq(s, i, j)
      /\ \A i, j \in 1 .. Len(t) : SubSeq(xml, m + i, m + j) = SubSeq(t, i, j)
  <2>1. \A i, j \in 1 .. m : SubSeq(xml, i, j) = SubSeq(s, i, j)
    BY <1>1, SubSeqOfConcat1
  <2>2. ASSUME NEW i \in 1 .. Len(t), NEW j \in 1 .. Len(t)
        PROVE  SubSeq(xml, m + i, m + j) = SubSeq(t, i, j)
    <3>1. /\ m + i \in Len(s) + 1 .. Len(s) + Len(t) /\ m + j \in Len(s) + 1 .. Len(s) + Len(t)
          /\ m + i - Len(s) = i /\ m + j - Len(s) = j
      BY <1>2
    <3>2. SubSeq(s \o t, m + i, m + j) = SubSeq(t, m + i - Len(s), m + j - Len(s))
      BY <1>1, <3>1, SubSeqOfConcat2
    <3> QED
      BY <3>1, <3>2
  <2> QED
    BY <2>1, <2>2
<1> HIDE DEF xml, m
<1>5. ASSUME NEW i \in 1 .. m, s[i].tag \in Opens PROVE DeltaAt(xml, i) = DeltaAt(s, i)
  <2>1. xml[i] = s[i]
    BY <1>2
  <2>2. CASE s[i].tag = "comment/"
    BY <2>1, <2>2, Zenon DEF DeltaAt
  <2>3. CASE s[i].tag # "comment/"
    <3>1. s[i].tag = "comment" /\ i \in DOMAIN s /\ i \in DOMAIN xml
      BY <1>2, <1>5, <2>3 DEF Opens
    <3> DEFINE j == Find(s, Closes, i)
               k == Find(xml, Closes, i)
    <3>2. j \in DOMAIN s /\ i < j /\ Pair(s, "comment", "/comment", i, j)
      BY <3>1, EntryClosed
    <3> HIDE DEF j
    <3>3. Pair(xml, "comment", "/comment", i, j) /\ j \in DOMAIN xml
      BY <1>2, <3>1, <3>2 DEF Pair
    <3>4. k = j
      BY <1>2, <3>1, <3>3, ClosedBy DEF Closes
    <3> HIDE DEF k
    <3>5. SubSeq(xml, i, k) = SubSeq(s, i, j)
      BY <1>2, <1>4, <3>2, <3>4
    <3> QED
      BY <2>1, <3>5, Zenon DEF DeltaAt, j, k
  <2> QED
    BY <2>2, <2>3
<1>6. ASSUME NEW i \in 1 .. Len(t), t[i].tag \in Opens
      PROVE  DeltaAt(xml, m + i) = DeltaAt(t, i)
  <2>1. xml[m + i] = t[i]
    BY <1>2
  <2>2. CASE t[i].tag = "comment/"
    BY <2>1, <2>2, Zenon DEF DeltaAt
  <2>3. CASE t[i].tag # "comment/"
    <3>1. t[i].tag = "comment" /\ i \in DOMAIN t /\ m + i \in DOMAIN xml
      BY <1>2, <1>6, <2>3 DEF Opens
    <3> DEFINE j == Find(t, Closes, i)
               k == Find(xml, Closes, m + i)
    <3>2. /\ j \in DOMAIN t /\ i < j /\ t[j].tag = "/comment"
          /\ Pair(t, "comment", "/comment", i, j)
      BY <3>1, EntryClosed
    <3> HIDE DEF j
    <3> DEFINE a == m + i
               b == m + j
    <3>3. a \in Nat \ {0} /\ b \in a .. Len(xml) /\ xml[b].tag \in Closes
      <4>1. xml[b] = t[j]
        BY <1>2, <3>2
      <4>2. a \in Nat \ {0} /\ b \in a .. Len(xml)
        BY <1>2, <3>2
      <4> QED
        BY <3>2, <4>1, <4>2 DEF Closes
    <3>4. ASSUME NEW n \in a .. b - 1 PROVE xml[n].tag \notin Closes
      <4>1. /\ n - m \in 1 .. Len(t) /\ m + (n - m) = n /\ n - m \in Int
            /\ i <= n - m /\ n - m < j /\ i \in Int /\ j \in Int
        BY <1>2, <3>2
      <4>2. xml[n] = t[n - m]
        BY <1>2, <4>1
      <4>3. CASE i = n - m
        BY <3>1, <4>2, <4>3 DEF Closes
      <4>4. CASE i < n - m
        <5>1. \A x \in Int : i < x /\ x < j => t[x].tag \notin {"comment", "/comment"}
          BY <3>2, <4>1, NothingBetween
        <5> QED
          BY <4>1, <4>2, <4>4, <5>1 DEF Closes
      <4> QED
        BY <4>1, <4>3, <4>4
    <3>5. k = b
      <4> HIDE DEF a, b
      <4>1. Find(xml, Closes, a) = b
        BY <1>2, <3>3, <3>4, FoundAt
      <4> QED
        BY <4>1 DEF a
    <3> HIDE DEF k
    <3>6. SubSeq(xml, m + i, k) = SubSeq(t, i, j)
      BY <1>2, <1>4, <3>2, <3>5
    <3> QED
      BY <2>1, <3>6, Zenon DEF DeltaAt, j, k
  <2> QED
    BY <2>2, <2>3
<1>7. ASSUME NEW x, x \in Shown(xml) PROVE x \in Shown(s) \cup Shown(t)
  <2>1. PICK i \in DOMAIN xml : xml[i].tag \in Opens /\ x = DeltaAt(xml, i)
    BY <1>3, <1>7, ShownIs
  <2>2. CASE i \in 1 .. m
    <3>1. i \in DOMAIN s /\ s[i].tag \in Opens /\ x = DeltaAt(s, i)
      BY <1>2, <1>5, <2>1, <2>2
    <3> QED
      BY <3>1, ShownIs
  <2>3. CASE i \notin 1 .. m
    <3>1. i - m \in 1 .. Len(t) /\ m + (i - m) = i
      BY <1>2, <2>3
    <3>2. xml[i] = t[i - m]
      BY <1>2, <3>1
    <3>3. i - m \in DOMAIN t /\ t[i - m].tag \in Opens /\ x = DeltaAt(t, i - m)
      BY <1>2, <1>6, <2>1, <3>1, <3>2
    <3> QED
      BY <3>3, ShownIs
  <2> QED
    BY <2>2, <2>3
<1>8. ASSUME NEW x, x \in Shown(s) PROVE x \in Shown(xml)
  <2>1. PICK i \in DOMAIN s : s[i].tag \in Opens /\ x = DeltaAt(s, i)
    BY <1>8, ShownIs
  <2>2. i \in DOMAIN xml /\ xml[i].tag \in Opens /\ x = DeltaAt(xml, i)
    BY <1>2, <1>5, <2>1
  <2> QED
    BY <1>3, <2>2, ShownIs
<1>9. ASSUME NEW x, x \in Shown(t) PROVE x \in Shown(xml)
  <2>1. PICK i \in DOMAIN t : t[i].tag \in Opens /\ x = DeltaAt(t, i)
    BY <1>9, ShownIs
  <2>2. m + i \in DOMAIN xml /\ xml[m + i].tag \in Opens /\ x = DeltaAt(xml, m + i)
    BY <1>2, <1>6, <2>1
  <2> QED
    BY <1>3, <2>2, ShownIs
<1>10. Shown(xml) = Shown(s) \cup Shown(t)
  BY <1>7, <1>8, <1>9, Zenon
<1> QED
  BY <1>10 DEF xml

-----------------------------------------------------------------------------
(* The entries of an id.                                                   *)

Named(xml, id) == {i \in DOMAIN xml : xml[i].tag \in Opens /\ xml[i].id = id}

\* Each of the editor's ids has one entry at most, and that has a body.
Once(xml) ==
    \A id \in Ids : \A i, j \in Named(xml, id) : i = j /\ xml[i].tag = "comment"

LEMMA NamedJoined ==
    ASSUME NEW s \in Seq(Elements), NEW t \in Seq(Elements), NEW id
    PROVE  \A i : i \in Named(s \o t, id) <=>
                    i \in Named(s, id) \/ (i \in Int /\ i - Len(s) \in Named(t, id))
<1> DEFINE xml == s \o t
           m == Len(s)
<1>1. /\ m \in Nat /\ Len(t) \in Nat /\ DOMAIN xml = 1 .. m + Len(t)
      /\ DOMAIN s = 1 .. m /\ DOMAIN t = 1 .. Len(t)
      /\ \A k \in 1 .. m : xml[k] = s[k]
      /\ \A k \in 1 .. Len(t) : xml[m + k] = t[k]
  BY Joined
<1> HIDE DEF xml, m
<1>2. ASSUME NEW i, i \in Named(xml, id)
      PROVE  i \in Named(s, id) \/ (i \in Int /\ i - m \in Named(t, id))
  <2>1. i \in 1 .. m + Len(t) /\ xml[i].tag \in Opens /\ xml[i].id = id
    BY <1>1, <1>2 DEF Named
  <2>2. CASE i \in 1 .. m
    BY <1>1, <2>1, <2>2 DEF Named
  <2>3. CASE i \notin 1 .. m
    <3>1. i - m \in 1 .. Len(t) /\ m + (i - m) = i /\ i \in Int
      BY <1>1, <2>1, <2>3
    <3>2. xml[i] = t[i - m]
      BY <1>1, <3>1
    <3> QED
      BY <1>1, <2>1, <3>1, <3>2 DEF Named
  <2> QED
    BY <2>2, <2>3
<1>3. ASSUME NEW i, i \in Named(s, id) PROVE i \in Named(xml, id)
  BY <1>1, <1>3 DEF Named
<1>4. ASSUME NEW i \in Int, i - m \in Named(t, id) PROVE i \in Named(xml, id)
  <2>1. i - m \in 1 .. Len(t) /\ t[i - m].tag \in Opens /\ t[i - m].id = id
    BY <1>1, <1>4 DEF Named
  <2>2. m + (i - m) = i /\ i \in 1 .. m + Len(t)
    BY <1>1, <2>1
  <2>3. xml[i] = t[i - m]
    BY <1>1, <2>1, <2>2
  <2> QED
    BY <1>1, <2>1, <2>2, <2>3 DEF Named
<1> QED
  BY <1>2, <1>3, <1>4, Zenon DEF xml, m

LEMMA OnceJoined ==
    ASSUME NEW s \in Seq(Elements), NEW t \in Seq(Elements)
    PROVE  /\ \A id : Named(s \o t, id) = {} <=> Named(s, id) = {} /\ Named(t, id) = {}
           /\ Once(s \o t) <=> /\ Once(s) /\ Once(t)
                               /\ \A id \in Ids : Named(s, id) = {} \/ Named(t, id) = {}
<1> DEFINE xml == s \o t
           m == Len(s)
<1>1. /\ m \in Nat /\ Len(t) \in Nat /\ DOMAIN xml = 1 .. m + Len(t)
      /\ DOMAIN s = 1 .. m /\ DOMAIN t = 1 .. Len(t)
      /\ \A k \in 1 .. m : xml[k] = s[k]
      /\ \A k \in 1 .. Len(t) : xml[m + k] = t[k]
  BY Joined
<1>2. \A id : \A i : i \in Named(xml, id) <=>
                       i \in Named(s, id) \/ (i \in Int /\ i - m \in Named(t, id))
  BY NamedJoined
<1>3. \A id : /\ \A i \in Named(s, id) : i \in 1 .. m
              /\ \A i \in Named(t, id) : i \in 1 .. Len(t)
  BY <1>1 DEF Named
<1> HIDE DEF xml, m
<1>4. ASSUME NEW id PROVE Named(xml, id) = {} <=> Named(s, id) = {} /\ Named(t, id) = {}
  <2>1. \A i \in Named(t, id) : m + i \in Named(xml, id)
    <3> TAKE i \in Named(t, id)
    <3>1. i \in 1 .. Len(t) /\ m + i \in Int /\ (m + i) - m = i
      BY <1>1, <1>3
    <3> QED
      BY <1>2, <3>1
  <2> QED
    BY <1>2, <2>1
<1>5. ASSUME Once(xml)
      PROVE  /\ Once(s) /\ Once(t)
             /\ \A id \in Ids : Named(s, id) = {} \/ Named(t, id) = {}
  <2>1. ASSUME NEW id \in Ids, NEW i \in Named(s, id), NEW j \in Named(s, id)
        PROVE  i = j /\ s[i].tag = "comment"
    <3>1. i \in Named(xml, id) /\ j \in Named(xml, id) /\ xml[i] = s[i]
      BY <1>1, <1>2, <1>3
    <3> QED
      BY <1>5, <3>1 DEF Once
  <2>2. ASSUME NEW id \in Ids, NEW i \in Named(t, id), NEW j \in Named(t, id)
        PROVE  i = j /\ t[i].tag = "comment"
    <3>1. /\ i \in 1 .. Len(t) /\ j \in 1 .. Len(t) /\ m + i \in Int /\ m + j \in Int
          /\ (m + i) - m = i /\ (m + j) - m = j
      BY <1>1, <1>3
    <3>2. m + i \in Named(xml, id) /\ m + j \in Named(xml, id) /\ xml[m + i] = t[i]
      BY <1>1, <1>2, <3>1
    <3>3. m + i = m + j /\ xml[m + i].tag = "comment"
      BY <1>5, <3>2 DEF Once
    <3> QED
      BY <1>1, <3>1, <3>2, <3>3
  <2>3. ASSUME NEW id \in Ids, NEW i \in Named(s, id), NEW j \in Named(t, id) PROVE FALSE
    <3>1. /\ i \in 1 .. m /\ j \in 1 .. Len(t) /\ m + j \in Int
          /\ (m + j) - m = j /\ i # m + j
      BY <1>1, <1>3
    <3>2. i \in Named(xml, id) /\ m + j \in Named(xml, id)
      BY <1>2, <3>1
    <3> QED
      BY <1>5, <3>1, <3>2 DEF Once
  <2>4. Once(s)
    BY <2>1, Zenon DEF Once
  <2>5. Once(t)
    BY <2>2, Zenon DEF Once
  <2> QED
    BY <2>3, <2>4, <2>5, Zenon
<1>6. ASSUME Once(s), Once(t), \A id \in Ids : Named(s, id) = {} \/ Named(t, id) = {}
      PROVE  Once(xml)
  <2> SUFFICES ASSUME NEW id \in Ids, NEW i \in Named(xml, id), NEW j \in Named(xml, id)
               PROVE  i = j /\ xml[i].tag = "comment"
    BY Zenon DEF Once
  <2>1. CASE Named(s, id) = {}
    <3>1. /\ i \in Int /\ j \in Int /\ i - m \in Named(t, id) /\ j - m \in Named(t, id)
      BY <1>2, <2>1
    <3>2. i - m = j - m /\ t[i - m].tag = "comment"
      BY <1>6, <3>1 DEF Once
    <3>3. i - m \in 1 .. Len(t) /\ m + (i - m) = i
      BY <1>1, <1>3, <3>1
    <3>4. xml[i] = t[i - m]
      BY <1>1, <3>3
    <3> QED
      BY <1>1, <3>1, <3>2, <3>4
  <2>2. CASE Named(t, id) = {}
    <3>1. i \in Named(s, id) /\ j \in Named(s, id)
      BY <1>2, <2>2
    <3>2. xml[i] = s[i]
      BY <1>1, <1>3, <3>1
    <3> QED
      BY <1>6, <3>1, <3>2 DEF Once
  <2> QED
    BY <1>6, <2>1, <2>2
<1> QED
  BY <1>4, <1>5, <1>6, Zenon DEF xml

\* What is shown of an id is at an entry of that id.
LEMMA ShownIsNamed ==
    ASSUME NEW xml, Entries(xml), NEW d, d \in Shown(xml)
    PROVE  Named(xml, d.id) # {}
<1>1. PICK i \in DOMAIN xml : xml[i].tag \in Opens /\ d = DeltaAt(xml, i)
  BY ShownIs
<1>2. d.id = xml[i].id
  BY <1>1 DEF DeltaAt, DeltaFrom
<1> QED
  BY <1>1, <1>2 DEF Named

\* An entry with a body, as it stands in a part.
IsEntry(xml) ==
    /\ xml \in Seq(Elements) /\ Len(xml) > 1
    /\ xml[1].tag = "comment" /\ xml[Len(xml)].tag = "/comment"
    /\ \A k \in 2 .. Len(xml) - 1 : xml[k].tag \notin {"comment", "/comment", "comment/"}

\* An entry is read as one delta, and bears one id.
LEMMA EntryAlone ==
    ASSUME NEW xml, IsEntry(xml)
    PROVE  /\ Entries(xml)
           /\ Shown(xml) = {DeltaFrom(xml[1], ExtractParaText(xml))}
           /\ \A id : \A i : i \in Named(xml, id) <=> i = 1 /\ xml[1].id = id
<1> DEFINE o == "comment"
           c == "/comment"
           x == "comment/"
           N == Len(xml)
<1>1. /\ xml \in Seq(Elements) /\ N \in Nat /\ DOMAIN xml = 1 .. N /\ N > 1
      /\ 1 \in DOMAIN xml /\ N \in DOMAIN xml
  <2>1. xml \in Seq(Elements) /\ N > 1
    BY DEF IsEntry
  <2> QED
    BY <2>1
<1>2. /\ xml[1].tag = o /\ xml[N].tag = c
      /\ \A k \in 2 .. N - 1 : xml[k].tag \notin {o, c, x}
  BY DEF IsEntry
<1>3. o # c /\ x \notin {o, c} /\ Opens = {o, x} /\ Closes = {c}
  BY DEF Opens, Closes
<1>4. \A i \in DOMAIN xml : /\ i \in Int
                            /\ xml[i].tag \in Opens <=> i = 1
                            /\ xml[i].tag = o <=> i = 1
                            /\ xml[i].tag = c <=> i = N
                            /\ xml[i].tag # x
  <2> HIDE DEF o, c, x, N
  <2> SUFFICES ASSUME NEW i \in DOMAIN xml
               PROVE  /\ i \in Int
                      /\ xml[i].tag \in Opens <=> i = 1
                      /\ xml[i].tag = o <=> i = 1
                      /\ xml[i].tag = c <=> i = N
                      /\ xml[i].tag # x
    OBVIOUS
  <2>1. i \in Int /\ (i = 1 \/ i = N \/ i \in 2 .. N - 1) /\ 1 # N
    BY <1>1
  <2> QED
    BY <1>2, <1>3, <2>1
<1>5. Pair(xml, o, c, 1, N)
  <2>1. \A k \in 1 + 1 .. N - 1 : xml[k].tag \notin {o, c}
    BY <1>2
  <2>2. 1 < N
    BY <1>1
  <2> HIDE DEF o, c, x, N
  <2> QED
    BY <1>1, <1>2, <2>1, <2>2 DEF Pair
<1>6. Entries(xml)
  <2> HIDE DEF o, c, x, N
  <2>1. Alternate(xml, o, c)
    BY <1>1, <1>4, <1>5 DEF Alternate
  <2>2. Flat(xml, o, c, x)
    BY <1>4 DEF Flat
  <2> QED
    BY <1>1, <2>1, <2>2 DEF Entries, Balanced, o, c, x
<1>7. Find(xml, Closes, 1) = N
  <2> HIDE DEF o, c, N
  <2> QED
    BY <1>1, <1>3, <1>5, ClosedBy
<1>8. DeltaAt(xml, 1) = DeltaFrom(xml[1], ExtractParaText(xml))
  <2>1. SubSeq(xml, 1, N) = xml
    BY <1>1, SubSeqFull
  <2>2. xml[1].tag # "comment/"
    BY <1>2
  <2> QED
    BY <1>7, <2>1, <2>2, Zenon DEF DeltaAt
<1>9. \A d : d \in Shown(xml) <=> d = DeltaAt(xml, 1)
  <2>1. \A d : d \in Shown(xml) <=>
                 \E i \in DOMAIN xml : xml[i].tag \in Opens /\ d = DeltaAt(xml, i)
    BY <1>6, ShownIs
  <2>2. \A i \in DOMAIN xml : xml[i].tag \in Opens <=> i = 1
    BY <1>4
  <2>3. 1 \in DOMAIN xml
    BY <1>1
  <2> QED
    BY <2>1, <2>2, <2>3, Zenon
<1>10. \A id : \A i : i \in Named(xml, id) <=> i = 1 /\ xml[1].id = id
  BY <1>1, <1>4, Zenon DEF Named
<1> QED
  BY <1>6, <1>8, <1>9, <1>10, Zenon

LEMMA EntriesCut ==
    ASSUME NEW xml, Entries(xml), NEW i \in 1 .. Len(xml) + 1,
           Outside(xml, "comment", "/comment", i)
    PROVE  Entries(Upto(xml, i - 1)) /\ Entries(From(xml, i))
<1>1. xml \in Seq(Elements) /\ Balanced(xml, "comment", "/comment", "comment/")
  BY DEF Entries
<1> QED
  BY <1>1, CutBalanced, Pieces DEF Entries

\* A part around one of its entries.
LEMMA AroundEntry ==
    ASSUME NEW xml, Entries(xml), NEW start \in DOMAIN xml, xml[start].tag = "comment",
           NEW end, end = Find(xml, Closes, start)
    PROVE  /\ end # npos /\ end \in DOMAIN xml /\ end \in start + 1 .. Len(xml)
           /\ Entries(Upto(xml, start - 1)) /\ Entries(From(xml, end + 1))
           /\ IsEntry(SubSeq(xml, start, end))
           /\ xml = Upto(xml, start - 1) \o (SubSeq(xml, start, end) \o From(xml, end + 1))
<1> DEFINE m == SubSeq(xml, start, end)
           s == Upto(xml, start - 1)
           t == From(xml, end + 1)
<1>1. xml \in Seq(Elements) /\ Len(xml) \in Nat /\ DOMAIN xml = 1 .. Len(xml)
  BY EntriesTyped
<1>2. /\ end # npos /\ end \in DOMAIN xml /\ start < end /\ xml[end].tag = "/comment"
      /\ Pair(xml, "comment", "/comment", start, end)
      /\ \A k \in start + 1 .. end : xml[k].tag \notin Opens
      /\ m \in Seq(Elements)
  BY EntryClosed
<1>3. start \in 1 .. Len(xml) /\ end \in start + 1 .. Len(xml)
  BY <1>1, <1>2
<1>4. /\ Outside(xml, "comment", "/comment", start)
      /\ Outside(xml, "comment", "/comment", end + 1)
  BY <1>1, <1>2, CommentsCuts DEF Entries
<1>5. Entries(s)
  <2>1. start \in 1 .. Len(xml) + 1
    BY <1>1, <1>3
  <2> QED
    BY <1>4, <2>1, EntriesCut
<1>6. Entries(t)
  <2>1. end + 1 \in 1 .. Len(xml) + 1
    BY <1>1, <1>3
  <2> QED
    BY <1>4, <2>1, EntriesCut
<1>7. xml = s \o (m \o t)
  <2> DEFINE i == start - 1
             n == Len(xml)
  <2>1. /\ 1 \in Nat /\ i \in Nat /\ n \in Nat /\ i + 1 = start /\ 1 <= i + 1 /\ i <= n
        /\ n <= Len(xml) /\ end \in Nat /\ start \in Nat /\ start <= end + 1 /\ end <= n
        /\ 1 <= start /\ 1 <= 1
    BY <1>1, <1>3
  <2>2. SubSeq(xml, 1, n) = xml
    BY <1>1, SubSeqFull
  <2> HIDE DEF i, n
  <2>3. SubSeq(xml, 1, i) \o SubSeq(xml, i + 1, n) = SubSeq(xml, 1, n)
    BY <1>1, <2>1, Adjacent
  <2> HIDE DEF m, s, t
  <2>4. SubSeq(xml, start, end) \o SubSeq(xml, end + 1, n) = SubSeq(xml, start, n)
    <3>1. /\ start \in Nat /\ end \in Nat /\ n \in Nat /\ 1 <= start /\ start <= end + 1
          /\ end <= n /\ n <= Len(xml) /\ xml \in Seq(Elements)
      BY <1>1, <2>1
    <3> QED
      BY <3>1, Adjacent
  <2> QED
    BY <2>1, <2>2, <2>3, <2>4, Zenon DEF Upto, From, i, n, m, s, t
<1>8. IsEntry(m)
  <2> DEFINE n == end - start + 1
  <2>1. Len(m) = n /\ \A k \in 1 .. n : m[k] = xml[start + k - 1]
    BY <1>1, <1>3
  <2>2. n > 1 /\ start + 1 - 1 = start /\ start + n - 1 = end /\ 1 \in 1 .. n /\ n \in 1 .. n
    BY <1>1, <1>3
  <2> HIDE DEF m
  <2>3. ASSUME NEW k \in 2 .. n - 1
        PROVE  m[k].tag \notin {"comment", "/comment", "comment/"}
    <3>1. k \in 1 .. n /\ start + k - 1 \in start + 1 .. end /\ start + k - 1 \in Int
          /\ start < start + k - 1 /\ start + k - 1 < end /\ start \in Int /\ end \in Int
      BY <1>1, <1>3
    <3>2. m[k].tag \notin Opens
      BY <1>2, <2>1, <3>1
    <3> DEFINE a == start + k - 1
    <3>3. a \in Int /\ start < a /\ a < end /\ m[k] = xml[a]
      BY <2>1, <3>1
    <3> HIDE DEF a
    <3>4. xml[a].tag \notin {"comment", "/comment"}
      BY <1>2, <3>1, <3>3, NothingBetween
    <3> QED
      BY <3>2, <3>3, <3>4, Zenon DEF Opens
  <2>4. m[1] = xml[start] /\ m[n] = xml[end]
    <3>1. m[1] = xml[start + 1 - 1] /\ m[n] = xml[start + n - 1]
      BY <2>1, <2>2
    <3> QED
      BY <2>2, <3>1
  <2> HIDE DEF n
  <2> QED
    BY <1>2, <2>1, <2>2, <2>3, <2>4 DEF IsEntry
<1> QED
  BY <1>2, <1>3, <1>5, <1>6, <1>7, <1>8

\* Two sets of deltas that differ in those of an id only.
SameOthers(D, E, id) == \A d : d.id # id => (d \in D <=> d \in E)

\* Taking out the entry of an id takes what is shown of it, and no other.
LEMMA OneTakenOut ==
    ASSUME NEW xml, Comments(xml), Once(xml), NEW id \in Ids,
           NEW out, out = WithoutComment(xml, id)
    PROVE  Once(out) /\ Named(out, id) = {} /\ SameOthers(Shown(out), Shown(xml), id)
<1> DEFINE I == {i \in 1 .. Len(xml) : xml[i].tag \in Opens /\ xml[i].id = id}
           start == SelectInSeq(xml, LAMBDA x : x.tag \in Opens /\ x.id = id)
           end == Find(xml, Closes, start)
<1>1. Entries(xml)
  BY DEF Comments, Entries
<1>2. xml \in Seq(Elements) /\ Len(xml) \in Nat /\ DOMAIN xml = 1 .. Len(xml)
  BY <1>1, EntriesTyped
<1>3. I = Named(xml, id)
  BY <1>2 DEF Named
<1>4. start = IF I # {} THEN Min(I) ELSE 0
  BY DEF SelectInSeq
<1>5. I # {} => start \in I
  <2>1. I \in SUBSET Nat
    OBVIOUS
  <2> HIDE DEF I, start
  <2> QED
    BY <1>4, <2>1, SmallestOf
<1>6. out = IF start = npos \/ end = npos THEN xml
            ELSE Upto(xml, start - 1) \o From(xml, end + 1)
  BY Zenon DEF WithoutComment, Opens, Closes
<1> HIDE DEF start, I
<1>7. CASE I = {}
  <2>1. out = xml
    BY <1>4, <1>6, <1>7 DEF npos
  <2> QED
    BY <1>3, <1>7, <2>1, Zenon DEF SameOthers
<1>8. CASE I # {}
  <2>1. start \in Named(xml, id) /\ start \in DOMAIN xml /\ xml[start].id = id
        /\ xml[start].tag = "comment" /\ start # npos
    <3>1. start \in Named(xml, id)
      BY <1>3, <1>5, <1>8
    <3>2. start \in DOMAIN xml /\ xml[start].id = id
      BY <3>1, Zenon DEF Named
    <3>3. xml[start].tag = "comment"
      BY <3>1, Zenon DEF Once
    <3> QED
      BY <1>2, <3>1, <3>2, <3>3 DEF npos
  <2> DEFINE s == Upto(xml, start - 1)
             m == SubSeq(xml, start, end)
             t == From(xml, end + 1)
  <2>2. end # npos /\ Entries(s) /\ Entries(t) /\ IsEntry(m) /\ xml = s \o (m \o t)
        /\ end \in DOMAIN xml /\ end \in start + 1 .. Len(xml)
    BY <1>1, <2>1, AroundEntry
  <2>3. out = s \o t
    BY <1>6, <2>1, <2>2
  <2>4. m[1] = xml[start]
    BY <1>2, <2>1, <2>2
  <2> HIDE DEF s, m, t, end
  <2>5. Entries(m) /\ Shown(m) = {DeltaFrom(m[1], ExtractParaText(m))}
        /\ \A n : \A i : i \in Named(m, n) <=> i = 1 /\ m[1].id = n
    BY <2>2, EntryAlone
  <2>6. Entries(m \o t) /\ s \in Seq(Elements) /\ t \in Seq(Elements)
        /\ m \in Seq(Elements) /\ m \o t \in Seq(Elements)
    BY <2>2, <2>5, EntriesJoined, EntriesTyped
  <2>7. Shown(xml) = Shown(s) \cup (Shown(m) \cup Shown(t))
    BY <2>2, <2>5, <2>6, ShownJoined
  <2>8. Shown(out) = Shown(s) \cup Shown(t)
    BY <2>2, <2>3, ShownJoined
  <2>9. SameOthers(Shown(out), Shown(xml), id)
    <3> SUFFICES ASSUME NEW d, d.id # id PROVE d \in Shown(out) <=> d \in Shown(xml)
      BY DEF SameOthers
    <3>1. d \notin Shown(m)
      BY <2>1, <2>4, <2>5 DEF DeltaFrom
    <3> QED
      BY <2>7, <2>8, <3>1
  <2>10. /\ Once(s) /\ Once(m \o t)
         /\ \A n \in Ids : Named(s, n) = {} \/ Named(m \o t, n) = {}
    BY <2>2, <2>6, OnceJoined
  <2>11. /\ Once(t) /\ \A n \in Ids : Named(m, n) = {} \/ Named(t, n) = {}
         /\ \A n : Named(m \o t, n) = {} <=> Named(m, n) = {} /\ Named(t, n) = {}
    BY <2>6, <2>10, OnceJoined
  <2>12. Once(out)
    <3>1. \A n \in Ids : Named(s, n) = {} \/ Named(t, n) = {}
      BY <2>10, <2>11, Zenon
    <3> QED
      BY <2>3, <2>6, <2>10, <2>11, <3>1, OnceJoined
  <2>13. Named(m, id) # {}
    BY <2>1, <2>4, <2>5
  <2>14. Named(s, id) = {} /\ Named(t, id) = {}
    BY <2>10, <2>11, <2>13, Zenon
  <2>15. Named(out, id) = {}
    BY <2>3, <2>6, <2>14, OnceJoined
  <2> QED
    BY <2>9, <2>12, <2>15
<1> QED
  BY <1>7, <1>8

\* What the editor puts in is an entry, and is read with the author and the text.
LEMMA NewIsEntry ==
    ASSUME NEW id \in Ids, NEW author \in Authors, author \in Plain,
           NEW text \in Seq(Words), NEW xml, xml = Entry(id, author, text)
    PROVE  /\ IsEntry(xml)
           /\ xml[1].id = id
           /\ DeltaFrom(xml[1], ExtractParaText(xml))
                = [id |-> id, author |-> author, text |-> text]
<1> DEFINE N == Len(text) + 2
           first == [tag |-> "comment", id |-> id, author |-> XmlEscape(author)]
           last == Tag("/comment")
<1>1. first \in Elements /\ last \in Elements
  <2>1. "comment" \in Tags /\ "/comment" \in Tags
    BY DEF Tags
  <2>2. XmlEscape(author) \in Words /\ id \in Int
    BY FilesAssumption DEF XmlEscape, Words
  <2>3. first \in [tag : Tags, id : Int, author : Words] /\ last \in [tag : Tags]
    BY <2>1, <2>2 DEF Tag
  <2> QED
    BY <2>3, Zenon DEF Elements
<1>2. first.tag = "comment" /\ last.tag = "/comment" /\ first.id = id /\ first.author = author
  BY DEF Tag, XmlEscape
<1>3. Len(text) \in Nat /\ N \in Nat /\ N > 1 /\ Len(text) + 1 = N - 1
  OBVIOUS
<1>4. xml = <<first>> \o Runs(text) \o <<last>>
  BY DEF Entry
<1> HIDE DEF first, last
<1>5. /\ xml \in Seq(Elements) /\ Len(xml) = N
      /\ xml[1] = first /\ xml[N] = last
      /\ \A k \in 2 .. Len(text) + 1 : xml[k].tag = "t"
  BY <1>1, <1>4, Fresh
<1>6. \A k \in 1 .. Len(text) : xml[k + 1] = Run(XmlEscape(text[k]))
  <2>1. \A k \in 1 .. Len(text) :
           (<<first>> \o Runs(text) \o <<last>>)[k + 1] = Run(XmlEscape(text[k]))
    BY <1>1, FreshRuns
  <2> QED
    BY <1>4, <2>1, Zenon
<1>7. IsEntry(xml)
  <2> HIDE DEF N
  <2>1. \A k \in 2 .. N - 1 : xml[k].tag = "t"
    BY <1>3, <1>5
  <2>2. \A k \in 2 .. N - 1 : xml[k].tag \notin {"comment", "/comment", "comment/"}
    BY <2>1, Zenon
  <2> QED
    BY <1>2, <1>3, <1>5, <2>2, Zenon DEF IsEntry
<1>8. ExtractParaText(xml) = text
  <2>1. first.tag # "t" /\ last.tag # "t"
    BY <1>2
  <2>2. Wraps(xml, text)
    BY <1>5, <1>6, <2>1, Zenon DEF Wraps
  <2> QED
    BY <2>2, TextComesBack, Zenon
<1> QED
  BY <1>2, <1>5, <1>7, <1>8 DEF DeltaFrom

\* An entry put in before the end of the part is shown with what was shown before.
LEMMA OnePutIn ==
    ASSUME NEW xml, Comments(xml), Once(xml), NEW id \in Ids, Named(xml, id) = {},
           NEW author \in Authors, author \in Plain, NEW text \in Seq(Words),
           NEW new, new = InsertBefore(xml, "/comments", Entry(id, author, text))
    PROVE  /\ Once(new)
           /\ Shown(new) = Shown(xml) \cup {[id |-> id, author |-> author, text |-> text]}
<1> DEFINE N == Len(xml)
           e == Entry(id, author, text)
           d == [id |-> id, author |-> author, text |-> text]
           s == Upto(xml, N - 1)
           t == From(xml, N)
<1>1. /\ Entries(xml) /\ xml \in Seq(Elements) /\ N \in Nat /\ N > 1 /\ DOMAIN xml = 1 .. N
      /\ \A i \in DOMAIN xml : xml[i].tag = "/comments" <=> i = N
  <2>1. Entries(xml) /\ N > 1 /\ \A i \in DOMAIN xml : xml[i].tag = "/comments" <=> i = N
    BY DEF Comments, Entries, Rooted
  <2> QED
    BY <2>1, EntriesTyped
<1>2. N \in DOMAIN xml /\ N \in 1 .. Len(xml) + 1 /\ xml[N].tag = "/comments" /\ N # npos
  BY <1>1 DEF npos
<1>3. RFind(xml, "/comments") = N
  BY <1>1, <1>2, FoundLast
<1>4. new = s \o e \o t
  BY <1>2, <1>3 DEF InsertBefore
<1>5. Outside(xml, "comment", "/comment", N)
  BY <1>1, <1>2, CommentsCuts DEF Entries
<1>6. Entries(s) /\ Entries(t)
  BY <1>1, <1>2, <1>5, EntriesCut
<1>7. xml = s \o t
  <2> DEFINE n == N - 1
  <2>1. /\ 1 \in Nat /\ n \in Nat /\ N \in Nat /\ n + 1 = N /\ 1 <= n + 1 /\ n <= N
        /\ N <= Len(xml) /\ 1 <= 1
    BY <1>1
  <2>2. xml \in Seq(Elements)
    BY <1>1, Zenon
  <2>3. SubSeq(xml, 1, N) = xml
    <3>1. SubSeq(xml, 1, Len(xml)) = xml
      BY <2>2, SubSeqFull, Zenon
    <3> QED
      BY <3>1, Zenon DEF N
  <2>5. s = SubSeq(xml, 1, n) /\ t = SubSeq(xml, N, N)
    BY DEF Upto, From
  <2> HIDE DEF s, t, n, N
  <2>4. SubSeq(xml, 1, n) \o SubSeq(xml, n + 1, N) = SubSeq(xml, 1, N)
    BY <2>1, <2>2, Adjacent
  <2> QED
    BY <2>1, <2>3, <2>4, <2>5, Zenon
<1>8. IsEntry(e) /\ e[1].id = id /\ DeltaFrom(e[1], ExtractParaText(e)) = d
  BY NewIsEntry
<1> HIDE DEF s, t, e, d, N
<1>9. /\ Entries(e) /\ Shown(e) = {d}
      /\ \A n : \A i : i \in Named(e, n) <=> i = 1 /\ id = n
  BY <1>8, EntryAlone
<1>10. /\ Entries(s \o e) /\ s \in Seq(Elements) /\ e \in Seq(Elements) /\ t \in Seq(Elements)
       /\ s \o e \in Seq(Elements)
  BY <1>6, <1>9, EntriesJoined, EntriesTyped
<1>11. Shown(new) = Shown(xml) \cup {d}
  <2>1. Shown(new) = Shown(s) \cup {d} \cup Shown(t)
    <3>1. Shown(s \o e) = Shown(s) \cup Shown(e)
      BY <1>6, <1>9, ShownJoined
    <3>2. Shown((s \o e) \o t) = Shown(s \o e) \cup Shown(t)
      BY <1>6, <1>10, ShownJoined
    <3> QED
      BY <1>4, <1>9, <3>1, <3>2
  <2>2. Shown(xml) = Shown(s) \cup Shown(t)
    BY <1>6, <1>7, ShownJoined
  <2> QED
    BY <2>1, <2>2
<1>12. /\ Once(s) /\ Once(t) /\ Named(s, id) = {} /\ Named(t, id) = {}
       /\ \A n \in Ids : Named(s, n) = {} \/ Named(t, n) = {}
  <2>1. /\ Named(s \o t, id) = {} <=> Named(s, id) = {} /\ Named(t, id) = {}
        /\ Once(s \o t) <=> /\ Once(s) /\ Once(t)
                            /\ \A n \in Ids : Named(s, n) = {} \/ Named(t, n) = {}
    BY <1>10, OnceJoined, Zenon
  <2>2. Once(s \o t) /\ Named(s \o t, id) = {}
    BY <1>7, Zenon
  <2> QED
    BY <2>1, <2>2, Zenon
<1>13. Once(e) /\ \A n : Named(e, n) # {} => n = id
  <2>1. e[1].tag = "comment"
    BY <1>8 DEF IsEntry
  <2> QED
    BY <1>9, <2>1 DEF Once
<1>14. Once(s \o e) /\ \A n : Named(s \o e, n) = {} <=> Named(s, n) = {} /\ Named(e, n) = {}
  <2>1. \A n \in Ids : Named(s, n) = {} \/ Named(e, n) = {}
    BY <1>12, <1>13
  <2> QED
    BY <1>10, <1>12, <1>13, <2>1, OnceJoined
<1>15. Once(new)
  <2>1. \A n \in Ids : Named(s \o e, n) = {} \/ Named(t, n) = {}
    BY <1>12, <1>13, <1>14
  <2> QED
    <3> DEFINE r == s \o e
    <3>1. r \in Seq(Elements) /\ Once(r) /\ \A n \in Ids : Named(r, n) = {} \/ Named(t, n) = {}
      BY <1>10, <1>14, <2>1
    <3> HIDE DEF r
    <3>2. Once(r \o t)
      BY <1>10, <1>12, <3>1, OnceJoined
    <3> QED
      BY <1>4, <3>2 DEF r
<1> QED
  BY <1>11, <1>15 DEF d

-----------------------------------------------------------------------------
(* The comments that a peer reads, by their ids.                           *)

ById(D) == [id \in Ids |-> {[author |-> d.author, text |-> d.text] : d \in {e \in D : e.id = id}}]

\* Taking out what bears an id and putting in one changes the comments of that id.
LEMMA ByIdReplaced ==
    ASSUME NEW D, NEW E, NEW F, NEW id \in Ids, NEW author, NEW text,
           SameOthers(E, D, id), \A d \in E : d.id # id,
           F = E \cup {[id |-> id, author |-> author, text |-> text]}
    PROVE  IsReplaced(ById(F), ById(D), id, {[author |-> author, text |-> text]})
<1> DEFINE x == [id |-> id, author |-> author, text |-> text]
           c(d) == [author |-> d.author, text |-> d.text]
           of(G, n) == {c(d) : d \in {e \in G : e.id = n}}
<1>1. x.id = id /\ c(x) = [author |-> author, text |-> text]
  OBVIOUS
<1>2. \A G : ById(G) = [n \in Ids |-> of(G, n)]
  BY Zenon DEF ById
<1> HIDE DEF x, c
<1>3. of(F, id) = {c(x)}
  BY <1>1 DEF x
<1>4. ASSUME NEW n \in Ids, n # id PROVE of(F, n) = of(D, n)
  <2>1. {e \in F : e.id = n} = {e \in D : e.id = n}
    BY <1>1, <1>4 DEF SameOthers, x
  <2> QED
    BY <2>1, Zenon
<1> HIDE DEF of
<1>5. [n \in Ids |-> of(F, n)] = [[n \in Ids |-> of(D, n)] EXCEPT ![id] = {c(x)}]
  BY <1>3, <1>4
<1> QED
  BY <1>1, <1>2, <1>5, Zenon DEF IsReplaced

\* A part that is there shows its entries, one that is not shows none.
LEMMA ReadIs ==
    /\ \A xml : Comments(xml) => ToSet(ParseCommentDeltas(xml)) = Shown(xml)
    /\ ToSet(ParseCommentDeltas(<<>>)) = {}
<1>1. ASSUME NEW xml, Comments(xml) PROVE ToSet(ParseCommentDeltas(xml)) = Shown(xml)
  <2>1. Entries(xml) /\ xml \in Seq(Elements) /\ Len(xml) > 1 /\ xml[1].tag = "comments"
    <3>1. xml \in Seq(Elements) /\ Len(xml) > 1
      BY <1>1 DEF Comments, Rooted
    <3>2. 1 \in DOMAIN xml
      BY <3>1
    <3> QED
      BY <1>1, <3>1, <3>2 DEF Comments, Rooted, Entries
  <2> DEFINE T == {"comments"}
  <2>2. Find(xml, T, 1) # npos
    <3>1. xml[1].tag \in T
      BY <2>1
    <3>2. 1 \in Nat \ {0} /\ 1 \in 1 .. Len(xml) /\ 1 .. 1 - 1 = {}
      BY <2>1
    <3> HIDE DEF T
    <3> QED
      BY <2>1, <3>1, <3>2, FoundAt
  <2> QED
    BY <2>1, <2>2, ShownIsRead
<1>2. ToSet(ParseCommentDeltas(<<>>)) = {}
  <2> DEFINE T == {"comments"}
             xml == <<>>
  <2>1. xml \in Seq(Elements) /\ Len(xml) = 0
    OBVIOUS
  <2>2. Find(xml, T, 1) = npos
    <3>1. 1 \in Nat \ {0} /\ 1 .. 0 = {}
      OBVIOUS
    <3> HIDE DEF T, xml
    <3>2. \/ Find(xml, T, 1) = npos
          \/ Find(xml, T, 1) \in 1 .. Len(xml)
      BY <2>1, <3>1, Found
    <3> QED
      BY <2>1, <3>1, <3>2
  <2>3. ParseCommentDeltas(<<>>) = <<>>
    BY <2>2, Zenon DEF ParseCommentDeltas
  <2> QED
    BY <2>3 DEF ToSet
<1> QED
  BY <1>1, <1>2, Zenon

LEMMA SkeletonShowsNothing ==
    Once(Skeleton) /\ Shown(Skeleton) = {}
<1> DEFINE xml == Skeleton
<1>1. \A i \in DOMAIN xml : xml[i].tag \notin Opens
  <2>1. DOMAIN xml = {1, 2} /\ xml[1].tag = "comments" /\ xml[2].tag = "/comments"
    BY DEF Skeleton, Tag
  <2> HIDE DEF xml
  <2> QED
    BY <2>1 DEF Opens
<1> HIDE DEF xml
<1>2. Shown(xml) = {} /\ \A id : Named(xml, id) = {}
  BY <1>1, Zenon DEF Shown, Named
<1> QED
  BY <1>2, Zenon DEF Once, xml

\* What a change of a comment does to what a peer reads.
LEMMA CommentShown ==
    ASSUME NEW xml \in Seq(Elements), GoodComments(xml), xml # <<>> => Once(xml),
           NEW id \in Ids, NEW author \in Authors, author \in Plain, NEW text \in Seq(Words),
           NEW new, new = ApplyCommentDelta(xml, id, author, text)
    PROVE  /\ Comments(new) /\ Once(new)
           /\ IsReplaced(ById(ToSet(ParseCommentDeltas(new))), ById(ToSet(ParseCommentDeltas(xml))),
                         id, {[author |-> author, text |-> text]})
<1> DEFINE old == IF xml = <<>> THEN Skeleton ELSE xml
           out == WithoutComment(old, id)
           x == [id |-> id, author |-> author, text |-> text]
<1>1. Comments(old) /\ Once(old) /\ Shown(old) = ToSet(ParseCommentDeltas(xml))
  <2>1. CASE xml = <<>>
    BY <2>1, SkeletonIsGood, SkeletonShowsNothing, ReadIs
  <2>2. CASE xml # <<>>
    BY <2>2, ReadIs DEF GoodComments, Comments
  <2> QED
    BY <2>1, <2>2
<1>2. new = InsertBefore(out, "/comments", Entry(id, author, text))
  BY DEF ApplyCommentDelta
<1> HIDE DEF old
<1>3. Comments(out)
  BY <1>1, CommentTakenOut
<1>4. Once(out) /\ Named(out, id) = {} /\ SameOthers(Shown(out), Shown(old), id)
  BY <1>1, OneTakenOut
<1> HIDE DEF out
<1>5. Comments(new)
  BY <1>2, <1>3, CommentInserted
<1>6. Once(new) /\ Shown(new) = Shown(out) \cup {x}
  BY <1>2, <1>3, <1>4, OnePutIn
<1>7. \A d \in Shown(out) : d.id # id
  <2>1. Entries(out)
    BY <1>3 DEF Comments, Entries
  <2> QED
    BY <1>4, <2>1, ShownIsNamed
<1>8. ToSet(ParseCommentDeltas(new)) = Shown(new)
  BY <1>5, ReadIs
<1>9. IsReplaced(ById(Shown(new)), ById(Shown(old)), id, {[author |-> author, text |-> text]})
  BY <1>4, <1>6, <1>7, ByIdReplaced
<1> QED
  BY <1>1, <1>5, <1>6, <1>8, <1>9

-----------------------------------------------------------------------------
(* The list of paragraphs and the comments that peers share.              *)

\* What is needed of the authors and of the files to begin with. Each is needed:
\* an author with reserved characters is read as it is written, escaped; <w:p/> is
\* not counted, and the end of the next paragraph is taken for that of <w:p .../>;
\* and taking out an entry without a body takes the next entry with it.
PlainFiles ==
    /\ Authors \subseteq Plain
    /\ \A file \in Files : Lacks(file.document, Singles) /\ Once(file.comments)

\* The inductive invariant: well formed parts in which no paragraph is a single tag
\* and each of the editor's ids is borne by one entry at most.
SharedInv == WInv /\ Lacks(documentXml, {"p/"}) /\ Once(commentsXml)

SharedParagraphs == Listed(Paragraphs(documentXml))
SharedComments   == ById(ToSet(ParseCommentDeltas(commentsXml)))

\* The refinement mapping, as the lemmas name it.
LEMMA SharedVars ==
    /\ Parts!partsVars = <<SharedParagraphs, SharedComments, asked>>
    /\ Parts!partsVars' = <<SharedParagraphs', SharedComments', asked'>>
BY Zenon DEF Parts!partsVars, SharedParagraphs, SharedComments, Listed, Standing, ById

\* A peer reads the editor's own list.
LEMMA SharedIsRead ==
    /\ SharedInv => SharedParagraphs = Listed(ParagraphBlocks(documentXml))
    /\ SharedInv' => SharedParagraphs' = Listed(ParagraphBlocks(documentXml'))
<1>1. ASSUME NEW xml, Even(xml), Paired(xml), Lacks(xml, {"p/"})
      PROVE  Paragraphs(xml) = ParagraphBlocks(xml)
  <2>1. xml \in Seq(Elements)
    BY <1>1, EvenTyped
  <2>2. Lacks(xml, Singles)
    BY <1>1 DEF Even, Lacks, Singles
  <2> QED
    BY <1>1, <2>1, <2>2, ReadsParagraphs
<1>2. /\ SharedInv => Paragraphs(documentXml) = ParagraphBlocks(documentXml)
      /\ SharedInv' => Paragraphs(documentXml') = ParagraphBlocks(documentXml')
  BY <1>1 DEF SharedInv, WInv, IInv
<1> QED
  BY <1>2, Zenon DEF SharedParagraphs

LEMMA SharedAdd ==
    ASSUME NEW text, SharedParagraphs' = Append(SharedParagraphs, Plainly(text))
    PROVE  Parts!Add(text)
BY Zenon DEF Parts!Add, Parts!Paragraph, Plainly, SharedParagraphs, Listed, Standing

LEMMA SharedReplace ==
    ASSUME NEW n, NEW text, ~SharedParagraphs[n + 1].equation,
           IsReplaced(SharedParagraphs', SharedParagraphs, n + 1, Plainly(text))
    PROVE  Parts!Replace(n, text)
BY Zenon DEF Parts!Replace, Parts!Paragraph, IsReplaced, Plainly, SharedParagraphs, Listed, Standing

LEMMA SharedComment ==
    ASSUME NEW id \in Ids, NEW author \in Authors, NEW text \in Texts,
           IsReplaced(SharedComments', SharedComments, id, {[author |-> author, text |-> text]}),
           SharedParagraphs' = SharedParagraphs, asked' = <<"comment", id, author, text>>
    PROVE  Parts!Comment
<1>1. SharedComments' = [SharedComments EXCEPT ![id] = {[author |-> author, text |-> text]}]
  BY Zenon DEF IsReplaced
<1>2. \E i \in Ids, a \in Authors, words \in Texts :
         /\ asked' = <<"comment", i, a, words>>
         /\ SharedComments' = [SharedComments EXCEPT ![i] = {[author |-> a, text |-> words]}]
  BY <1>1, Zenon
<1>3. \E i \in Ids, a \in Authors, words \in Texts :
         /\ asked' = <<"comment", i, a, words>>
         /\ ById(ToSet(ParseCommentDeltas(commentsXml)))' =
               [ById(ToSet(ParseCommentDeltas(commentsXml)))
                   EXCEPT ![i] = {[author |-> a, text |-> words]}]
  BY <1>2, Zenon DEF SharedComments
<1> QED
  BY <1>3, Zenon DEF Parts!Comment, SharedParagraphs, Listed, Standing, ById

LEMMA SharedEdit ==
    ASSUME NEW n \in Indices, NEW text \in Texts, SharedComments' = SharedComments,
           asked' = <<"paragraph", n, text>>,
           \/ n >= Len(SharedParagraphs) /\ Parts!Add(text)
           \/ n < Len(SharedParagraphs) /\ Parts!Replace(n, text)
           \/ /\ n < Len(SharedParagraphs) /\ SharedParagraphs[n + 1].equation
              /\ SharedParagraphs' = SharedParagraphs
    PROVE  Parts!Edit
<1>1. \E i \in Indices, words \in Texts :
         /\ asked' = <<"paragraph", i, words>>
         /\ \/ i >= Len(SharedParagraphs) /\ Parts!Add(words)
            \/ i < Len(SharedParagraphs) /\ Parts!Replace(i, words)
            \/ /\ i < Len(SharedParagraphs) /\ SharedParagraphs[i + 1].equation
               /\ SharedParagraphs' = SharedParagraphs
  BY Zenon
<1> QED
  BY <1>1, Zenon DEF Parts!Edit, SharedComments, ById, SharedParagraphs, Listed, Standing

LEMMA SharedFirst ==
    ASSUME \A id \in Ids : \A c, d \in SharedComments[id] : c = d
    PROVE  Parts!PartsInit
BY Zenon DEF Parts!PartsInit, SharedComments, ById

\* Where an id has one entry at most, one comment at most is read of it.
LEMMA OnceShown ==
    ASSUME NEW xml, Comments(xml), Once(xml), NEW id \in Ids
    PROVE  \A c, d \in ById(Shown(xml))[id] : c = d
<1>1. Entries(xml)
  BY DEF Comments, Entries
<1>2. ASSUME NEW d \in Shown(xml), NEW e \in Shown(xml), d.id = id, e.id = id PROVE d = e
  <2>1. PICK i \in DOMAIN xml : xml[i].tag \in Opens /\ d = DeltaAt(xml, i)
    BY <1>1, ShownIs
  <2>2. PICK j \in DOMAIN xml : xml[j].tag \in Opens /\ e = DeltaAt(xml, j)
    BY <1>1, ShownIs
  <2>3. xml[i].id = id /\ xml[j].id = id
    BY <1>2, <2>1, <2>2 DEF DeltaAt, DeltaFrom
  <2>4. i \in Named(xml, id) /\ j \in Named(xml, id)
    BY <2>1, <2>2, <2>3, Zenon DEF Named
  <2>5. i = j
    BY <2>4, Zenon DEF Once
  <2> QED
    BY <2>1, <2>2, <2>5
<1>3. ById(Shown(xml))[id] = {[author |-> d.author, text |-> d.text] :
                                d \in {e \in Shown(xml) : e.id = id}}
  BY Zenon DEF ById
<1>4. \A c \in ById(Shown(xml))[id] :
         \E d \in Shown(xml) : d.id = id /\ c = [author |-> d.author, text |-> d.text]
  BY <1>3, Zenon
<1> QED
  BY <1>2, <1>4, Zenon

LEMMA SharedInit == ASSUME PlainFiles, Init PROVE SharedInv /\ Parts!PartsInit
<1>1. PICK file \in Files \cup {[document |-> <<>>, comments |-> <<>>]} :
         documentXml = file.document /\ commentsXml = file.comments
  BY DEF Init
<1>2. WInv
  <2>1. NoSingleTags
    BY DEF PlainFiles, NoSingleTags, Lacks, Singles
  <2> QED
    BY <2>1, InitWhole
<1>3. Lacks(documentXml, {"p/"}) /\ Once(commentsXml)
  <2>1. CASE file \in Files
    BY <1>1, <2>1 DEF PlainFiles, Lacks, Singles
  <2>2. CASE file = [document |-> <<>>, comments |-> <<>>]
    BY <1>1, <2>2 DEF Lacks, Once, Named
  <2> QED
    BY <2>1, <2>2
<1>4. SharedInv
  BY <1>2, <1>3 DEF SharedInv
<1>5. \A id \in Ids : \A c, d \in SharedComments[id] : c = d
  <2> TAKE id \in Ids
  <2>1. CASE commentsXml = <<>>
    <3>1. ById({})[id] = {}
      BY DEF ById
    <3> QED
      BY <2>1, <3>1, ReadIs DEF SharedComments
  <2>2. CASE commentsXml # <<>>
    <3>1. Comments(commentsXml)
      BY <1>2, <2>2 DEF WInv, IInv, GoodComments, Comments
    <3> QED
      BY <1>3, <3>1, ReadIs, OnceShown DEF SharedComments
  <2> QED
    BY <2>1, <2>2
<1> QED
  BY <1>4, <1>5, SharedFirst

LEMMA SharedStep ==
    ASSUME PlainFiles, SharedInv, [Next]_vars
    PROVE  SharedInv' /\ [Parts!PartsNext]_Parts!partsVars
<1>1. WInv'
  BY NextWhole DEF SharedInv
<1>2. /\ Even(documentXml) /\ Paired(documentXml) /\ Lacks(documentXml, {"p/"}) /\ WInv
      /\ commentsXml \in Seq(Elements) /\ GoodComments(commentsXml) /\ Once(commentsXml)
  BY DEF SharedInv, WInv, IInv
<1>3. ASSUME NEW n \in Indices, NEW text \in Texts, EditParagraph(n, text)
      PROVE  SharedInv' /\ [Parts!PartsNext]_Parts!partsVars
  <2>1. text \in Seq(Words) /\ n \in Nat
    BY FilesAssumption
  <2>2. /\ documentXml' = ApplyParagraphDelta(documentXml, n, text)
        /\ commentsXml' = commentsXml /\ asked' = <<"paragraph", n, text>>
    BY <1>3 DEF EditParagraph, Change
  <2>3. SharedInv'
    BY <1>1, <1>2, <1>3, <2>2, EditWhole DEF SharedInv
  <2> DEFINE P == SharedParagraphs
             Q == SharedParagraphs'
  <2>4. P = Listed(ParagraphBlocks(documentXml)) /\ Q = Listed(ParagraphBlocks(documentXml'))
    BY <2>3, SharedIsRead
  <2>5. Len(P) \in Nat
    <3> DEFINE blocks == ParagraphBlocks(documentXml)
    <3>1. DOMAIN blocks = 1 .. Len(blocks) /\ Len(blocks) \in Nat
      BY <1>2, BlocksAreBlocks
    <3>2. P = [k \in DOMAIN blocks |-> Standing(blocks[k])]
      BY <2>4, Zenon DEF Listed
    <3> HIDE DEF blocks, P
    <3> QED
      BY <3>1, <3>2
  <2> HIDE DEF P, Q
  <2>6. /\ n < Len(P) => IF P[n + 1].equation THEN documentXml' = documentXml
                         ELSE IsReplaced(Q, P, n + 1, Plainly(text))
        /\ ~(n < Len(P)) => Q = Append(P, Plainly(text))
    BY <1>2, <2>1, <2>2, <2>4, EditShown
  <2>7. SharedComments' = SharedComments
    BY <2>2 DEF SharedComments
  <2>8. CASE n < Len(P) /\ P[n + 1].equation
    <3>1. Q = P
      BY <2>4, <2>6, <2>8
    <3> QED
      BY <2>2, <2>3, <2>7, <2>8, <3>1, SharedEdit DEF Parts!PartsNext, P, Q
  <2>9. CASE n < Len(P) /\ ~P[n + 1].equation
    <3>1. Parts!Replace(n, text)
      BY <2>6, <2>9, SharedReplace DEF P, Q
    <3> QED
      BY <2>2, <2>3, <2>7, <2>9, <3>1, SharedEdit DEF Parts!PartsNext, P
  <2>10. CASE ~(n < Len(P))
    <3>1. Parts!Add(text)
      BY <2>6, <2>10, SharedAdd DEF P, Q
    <3>2. n >= Len(P)
      BY <2>1, <2>5, <2>10
    <3> QED
      BY <2>2, <2>3, <2>7, <3>1, <3>2, SharedEdit DEF Parts!PartsNext, P
  <2> QED
    BY <2>8, <2>9, <2>10
<1>4. ASSUME NEW id \in Ids, NEW author \in Authors, NEW text \in Texts,
             EditComment(id, author, text)
      PROVE  SharedInv' /\ [Parts!PartsNext]_Parts!partsVars
  <2>1. text \in Seq(Words) /\ author \in Plain
    BY FilesAssumption DEF PlainFiles
  <2>2. /\ commentsXml' = ApplyCommentDelta(commentsXml, id, author, text)
        /\ documentXml' = documentXml /\ asked' = <<"comment", id, author, text>>
    BY <1>4 DEF EditComment, Change
  <2>3. /\ Once(commentsXml')
        /\ IsReplaced(ById(ToSet(ParseCommentDeltas(commentsXml'))),
                      ById(ToSet(ParseCommentDeltas(commentsXml))),
                      id, {[author |-> author, text |-> text]})
    BY <1>2, <2>1, <2>2, CommentShown
  <2>4. SharedInv'
    BY <1>1, <1>2, <2>2, <2>3 DEF SharedInv
  <2>5. IsReplaced(SharedComments', SharedComments, id, {[author |-> author, text |-> text]})
        /\ SharedParagraphs' = SharedParagraphs
    BY <2>2, <2>3 DEF SharedComments, SharedParagraphs
  <2>6. Parts!Comment
    BY <2>2, <2>5, SharedComment
  <2> QED
    BY <2>4, <2>6, Zenon DEF Parts!PartsNext
<1>5. CASE UNCHANGED vars
  <2>1. documentXml' = documentXml /\ commentsXml' = commentsXml /\ asked' = asked
    BY <1>5 DEF vars
  <2>2. SharedInv'
    BY <1>1, <1>2, <2>1 DEF SharedInv
  <2>3. Parts!partsVars' = Parts!partsVars
    BY <2>1, SharedVars DEF SharedParagraphs, SharedComments
  <2> QED
    BY <2>2, <2>3
<1> QED
  BY <1>3, <1>4, <1>5 DEF Next

\* However the editor's changes follow one another, each changes the paragraph or
\* the comment that was asked for and no other, as the editor counts them and as a
\* peer reads them from the part, and no paragraph that holds an equation:
\* applyParagraphDelta and applyCommentDelta, which search for tags,
\* and parseParagraphDeltas and parseCommentDeltas, which search again, implement
\* the list and the comments of PackageParts.
THEOREM PartsAreImplemented == PlainFiles => (Spec => ImplementsParts)
<1>1. PlainFiles /\ Init => SharedInv /\ Parts!PartsInit
  BY SharedInit
<1>2. PlainFiles /\ SharedInv /\ [Next]_vars => SharedInv' /\ [Parts!PartsNext]_Parts!partsVars
  BY SharedStep
<1>3. PlainFiles' <=> PlainFiles
  BY DEF PlainFiles, Lacks, Singles, Once, Named
<1> QED
  BY <1>1, <1>2, <1>3, PTL DEF Spec, ImplementsParts, Parts!PartsSpec
=============================================================================
