----------------------------- MODULE TextProofs -----------------------------
(***************************************************************************)
(* That the text of a paragraph and of a comment arrives as it was typed,  *)
(* whatever it is made of: each writer escapes what its reader would take  *)
(* for an end, so each key is found where it was written and nowhere else, *)
(* and each string is read to its own end.                                 *)
(***************************************************************************)
EXTENDS MCCodecs, SequenceLemmas, SequenceTheorems

-----------------------------------------------------------------------------
(* Characters, by name.                                                    *)

Quote == "quote"
Backslash == "backslash"
Newline == "newline"
Control == "control"
LetterN == "n"
LetterU == "u0001"
Amp == "amp"
Lt == "lt"
AmpEntity == "amp;"
LtEntity == "lt;"
QuoteEntity == "quot;"

LEMMA FourFields ==
    ASSUME NEW a, NEW b, NEW c, NEW d
    PROVE  LET e == [quote |-> a, backslash |-> b, newline |-> c, control |-> d]
           IN  /\ DOMAIN e = {"quote", "backslash", "newline", "control"}
               /\ e["quote"] = a /\ e["backslash"] = b /\ e["newline"] = c /\ e["control"] = d
OBVIOUS

LEMMA ThreeFields ==
    ASSUME NEW a, NEW b, NEW c
    PROVE  LET e == [amp |-> a, lt |-> b, quote |-> c]
           IN  /\ DOMAIN e = {"amp", "lt", "quote"}
               /\ e["amp"] = a /\ e["lt"] = b /\ e["quote"] = c
OBVIOUS

LEMMA EscapeIs ==
    /\ DOMAIN Escape = {Quote, Backslash, Newline, Control}
    /\ Escape[Quote] = Quote /\ Escape[Backslash] = Backslash
    /\ Escape[Newline] = LetterN /\ Escape[Control] = LetterU
    /\ Quote \notin {Backslash, Newline, Control, LetterN, LetterU}
    /\ Backslash \notin {Newline, Control, LetterN, LetterU}
    /\ Newline \notin {Control, LetterN, LetterU} /\ Control \notin {LetterN, LetterU}
    /\ LetterN # LetterU
<1>1. /\ DOMAIN Escape = {Quote, Backslash, Newline, Control}
      /\ Escape[Quote] = Quote /\ Escape[Backslash] = Backslash
      /\ Escape[Newline] = LetterN /\ Escape[Control] = LetterU
  BY FourFields, Zenon DEF Escape, Quote, Backslash, Newline, Control, LetterN, LetterU
<1>2. /\ Quote \notin {Backslash, Newline, Control, LetterN, LetterU}
      /\ Backslash \notin {Newline, Control, LetterN, LetterU}
      /\ Newline \notin {Control, LetterN, LetterU} /\ Control \notin {LetterN, LetterU}
      /\ LetterN # LetterU
  BY Zenon DEF Quote, Backslash, Newline, Control, LetterN, LetterU
<1> QED
  BY <1>1, <1>2, Zenon

LEMMA EntityIs ==
    /\ DOMAIN Entity = {Amp, Lt, Quote}
    /\ Entity[Amp] = AmpEntity /\ Entity[Lt] = LtEntity /\ Entity[Quote] = QuoteEntity
    /\ AmpEntity # LtEntity /\ LtEntity # QuoteEntity /\ AmpEntity # QuoteEntity
    /\ Amp \notin {Lt, Quote, AmpEntity, LtEntity, QuoteEntity} /\ Lt # Quote
<1>1. /\ DOMAIN Entity = {Amp, Lt, Quote}
      /\ Entity[Amp] = AmpEntity /\ Entity[Lt] = LtEntity /\ Entity[Quote] = QuoteEntity
  BY ThreeFields, Zenon DEF Entity, Amp, Lt, Quote, AmpEntity, LtEntity, QuoteEntity
<1>2. /\ AmpEntity # LtEntity /\ LtEntity # QuoteEntity /\ AmpEntity # QuoteEntity
      /\ Amp \notin {Lt, Quote, AmpEntity, LtEntity, QuoteEntity} /\ Lt # Quote
  BY Zenon DEF Amp, Lt, Quote, AmpEntity, LtEntity, QuoteEntity
<1> QED
  BY <1>1, <1>2, Zenon

-----------------------------------------------------------------------------
(* Texts spelled block by block.                                           *)

\* What stands for each character of a text, one behind another.
Spelled(b, text) == FlattenSeq([i \in DOMAIN text |-> b[text[i]]])

LEMMA AppendIs ==
    ASSUME NEW S, NEW ts \in Seq(S), NEW e \in S
    PROVE  Append(ts, e) = [i \in 1 .. Len(ts) + 1 |-> IF i = Len(ts) + 1 THEN e ELSE ts[i]]
<1> DEFINE g == [i \in 1 .. Len(ts) + 1 |-> IF i = Len(ts) + 1 THEN e ELSE ts[i]]
<1>1. \A i \in 1 .. Len(ts) + 1 : (IF i = Len(ts) + 1 THEN e ELSE ts[i]) \in S
  OBVIOUS
<1>2. g \in Seq(S) /\ Len(g) = Len(ts) + 1
  BY <1>1
<1>3. \A i \in 1 .. Len(ts) + 1 : g[i] = Append(ts, e)[i]
  OBVIOUS
<1> HIDE DEF g
<1>4. Append(ts, e) \in Seq(S) /\ Len(Append(ts, e)) = Len(ts) + 1
  OBVIOUS
<1>5. g = Append(ts, e)
  BY <1>2, <1>3, <1>4
<1> QED
  BY <1>5 DEF g

IsSpelling(b, T, S) == b \in [T -> Seq(S)]

LEMMA SpelledMore ==
    ASSUME NEW T, NEW S, NEW b, IsSpelling(b, T, S), NEW text \in Seq(T), NEW c \in T
    PROVE  /\ Spelled(b, <<>>) = <<>> /\ Spelled(b, text) \in Seq(S)
           /\ Spelled(b, Append(text, c)) = Spelled(b, text) \o b[c]
<1> USE DEF IsSpelling
<1> DEFINE m(u) == [i \in DOMAIN u |-> b[u[i]]]
<1>1. m(<<>>) = <<>>
  OBVIOUS
<1>2. m(text) \in Seq(Seq(S)) /\ Len(m(text)) = Len(text) /\ b[c] \in Seq(S)
  <2>1. DOMAIN text = 1 .. Len(text) /\ Len(text) \in Nat /\ b[c] \in Seq(S)
    OBVIOUS
  <2>2. \A i \in 1 .. Len(text) : b[text[i]] \in Seq(S)
    OBVIOUS
  <2>3. m(text) = [i \in 1 .. Len(text) |-> b[text[i]]]
    BY <2>1, Zenon
  <2>4. \A n \in Nat : \A g : (\A i \in 1 .. n : g[i] \in Seq(S)) =>
           [i \in 1 .. n |-> g[i]] \in Seq(Seq(S)) /\ Len([i \in 1 .. n |-> g[i]]) = n
    OBVIOUS
  <2> HIDE DEF m
  <2>5. /\ [i \in 1 .. Len(text) |-> b[text[i]]] \in Seq(Seq(S))
        /\ Len([i \in 1 .. Len(text) |-> b[text[i]]]) = Len(text)
    BY <2>1, <2>2
  <2> QED
    BY <2>1, <2>3, <2>5
<1>3. m(Append(text, c)) = Append(m(text), b[c])
  <2> DEFINE more == Append(text, c)
             n == Len(text)
             ts == m(text)
             e == b[c]
  <2>1. DOMAIN more = 1 .. n + 1 /\ more[n + 1] = c /\ \A i \in 1 .. n : more[i] = text[i]
    OBVIOUS
  <2>2. DOMAIN text = 1 .. n /\ n \in Nat
    OBVIOUS
  <2>3. \A i \in 1 .. n : ts[i] = b[text[i]]
    BY <2>2
  <2>4. Append(ts, e) = [i \in 1 .. n + 1 |-> IF i = n + 1 THEN e ELSE ts[i]]
    <3>1. ts \in Seq(Seq(S)) /\ Len(ts) = n /\ e \in Seq(S)
      BY <1>2
    <3> HIDE DEF ts, e
    <3>2. Append(ts, e) = [i \in 1 .. Len(ts) + 1 |-> IF i = Len(ts) + 1 THEN e ELSE ts[i]]
      BY <3>1, AppendIs
    <3> QED
      BY <3>1, <3>2
  <2> HIDE DEF more, ts
  <2>5. m(more) = [i \in 1 .. n + 1 |-> b[more[i]]]
    BY <2>1, Zenon
  <2>6. \A i \in 1 .. n + 1 : b[more[i]] = IF i = n + 1 THEN e ELSE ts[i]
    <3>1. \A i \in 1 .. n + 1 : i = n + 1 \/ i \in 1 .. n
      BY <2>2
    <3> QED
      BY <2>1, <2>3, <3>1, Zenon
  <2> HIDE DEF m, e, n
  <2> QED
    BY <2>4, <2>5, <2>6, Zenon DEF more, ts, e
<1> HIDE DEF m
<1>4. FlattenSeq(m(text)) \in Seq(S)
  BY <1>2, FlattenTyped
<1>5. FlattenSeq(Append(m(text), b[c])) = FlattenSeq(m(text)) \o b[c]
  BY <1>2, FlattenLast
<1> QED
  BY <1>1, <1>3, <1>4, <1>5, FlattenEmpty, Zenon DEF m, Spelled

-----------------------------------------------------------------------------
(* What stands in a sequence, behind its first p elements.                 *)

StandsAt(json, p, a) == \A k \in 1 .. Len(a) : p + k \in 1 .. Len(json) /\ json[p + k] = a[k]

\* The text e stands behind position p, and a quote behind it.
QuotedAt(json, p, e) == StandsAt(json, p, e) /\ StandsAt(json, p + Len(e), <<Quote>>)

LEMMA StandsParts ==
    ASSUME NEW S, NEW a \in Seq(S), NEW b \in Seq(S), NEW json, NEW p \in Nat,
           StandsAt(json, p, a \o b)
    PROVE  /\ StandsAt(json, p, a) /\ StandsAt(json, p + Len(a), b)
           /\ Len(a \o b) = Len(a) + Len(b) /\ Len(a) \in Nat /\ Len(b) \in Nat
           /\ a \o b \in Seq(S)
<1>1. Len(a \o b) = Len(a) + Len(b) /\ Len(a) \in Nat /\ Len(b) \in Nat /\ a \o b \in Seq(S)
  OBVIOUS
<1>2. ASSUME NEW k \in 1 .. Len(a)
      PROVE  p + k \in 1 .. Len(json) /\ json[p + k] = a[k]
  <2>1. k \in 1 .. Len(a \o b) /\ (a \o b)[k] = a[k]
    OBVIOUS
  <2> QED
    BY <2>1, Zenon DEF StandsAt
<1>3. ASSUME NEW k \in 1 .. Len(b)
      PROVE  (p + Len(a)) + k \in 1 .. Len(json) /\ json[(p + Len(a)) + k] = b[k]
  <2>1. Len(a) + k \in 1 .. Len(a \o b) /\ (a \o b)[Len(a) + k] = b[k]
    OBVIOUS
  <2>2. p + (Len(a) + k) = (p + Len(a)) + k
    BY <1>1
  <2>3. p + (Len(a) + k) \in 1 .. Len(json) /\ json[p + (Len(a) + k)] = b[k]
    BY <2>1, Zenon DEF StandsAt
  <2> QED
    BY <2>2, <2>3, Zenon
<1> QED
  BY <1>1, <1>2, <1>3, Zenon DEF StandsAt

LEMMA StandsWhole ==
    ASSUME NEW S, NEW a \in Seq(S)
    PROVE  StandsAt(a, 0, a)
BY DEF StandsAt

LEMMA StandsOne ==
    ASSUME NEW json, NEW p \in Nat, NEW x, StandsAt(json, p, <<x>>)
    PROVE  p + 1 \in 1 .. Len(json) /\ json[p + 1] = x
<1>1. Len(<<x>>) = 1 /\ <<x>>[1] = x /\ 1 \in 1 .. 1
  OBVIOUS
<1> QED
  BY <1>1, Zenon DEF StandsAt

LEMMA StandsTwo ==
    ASSUME NEW json, NEW p \in Nat, NEW x, NEW y, StandsAt(json, p, <<x, y>>)
    PROVE  /\ p + 1 \in 1 .. Len(json) /\ json[p + 1] = x
           /\ p + 2 \in 1 .. Len(json) /\ json[p + 2] = y
<1>1. Len(<<x, y>>) = 2 /\ <<x, y>>[1] = x /\ <<x, y>>[2] = y /\ 1 \in 1 .. 2 /\ 2 \in 1 .. 2
  OBVIOUS
<1> QED
  BY <1>1, Zenon DEF StandsAt

-----------------------------------------------------------------------------
(* Escaped texts.                                                          *)

\* An alphabet has what escaping puts into a text.
IsAlphabet(S) == {Quote, Backslash, Newline, LetterN, LetterU, Amp, Lt, AmpEntity, LtEntity,
                  QuoteEntity} \subseteq S

\* Quotes and backslashes are escaped by all who escape.
Escapes(chars) == {Quote, Backslash} \subseteq chars /\ chars \subseteq DOMAIN Escape

EscapeBlocks(S, chars) ==
    [c \in S |-> IF c \in chars THEN <<Backslash, Escape[c]>> ELSE <<c>>]

LEMMA BothEscape == Escapes(DOMAIN Escape) /\ Escapes(DOMAIN Escape \ {Control})
BY EscapeIs, Zenon DEF Escapes

LEMMA EscapeBlocksAre ==
    ASSUME NEW S, IsAlphabet(S), NEW chars, Escapes(chars)
    PROVE  /\ EscapeBlocks(S, chars) \in [S -> Seq(S)]
           /\ \A c \in S : c \in chars => EscapeBlocks(S, chars)[c] = <<Backslash, Escape[c]>>
           /\ \A c \in S : c \notin chars => EscapeBlocks(S, chars)[c] = <<c>>
           /\ \A c \in chars : Escape[c] \in S
<1>1. \A c \in chars : Escape[c] \in S /\ Backslash \in S
  BY EscapeIs, Zenon DEF IsAlphabet, Escapes
<1>2. \A x, y \in S : <<x, y>> \in Seq(S) /\ <<x>> \in Seq(S)
  OBVIOUS
<1>3. \A c \in S : (IF c \in chars THEN <<Backslash, Escape[c]>> ELSE <<c>>) \in Seq(S)
  BY <1>1, <1>2, Zenon
<1> QED
  BY <1>1, <1>3, Zenon DEF EscapeBlocks

LEMMA EscapeAllIs ==
    ASSUME NEW S, IsAlphabet(S), NEW chars, Escapes(chars), NEW text \in Seq(S)
    PROVE  EscapeAll(text, chars) = Spelled(EscapeBlocks(S, chars), text)
<1>1. \A i \in DOMAIN text : text[i] \in S
  OBVIOUS
<1>2. [i \in DOMAIN text |-> IF text[i] \in chars
                              THEN <<Backslash, Escape[text[i]]>> ELSE <<text[i]>>]
        = [i \in DOMAIN text |-> EscapeBlocks(S, chars)[text[i]]]
  BY <1>1, Zenon DEF EscapeBlocks
<1> QED
  BY <1>2, Zenon DEF EscapeAll, Spelled, Backslash

\* Escaping one more character of a text adds what that character gives.
EscapesNext(text, chars, c) ==
    /\ c \in chars => EscapeAll(Append(text, c), chars)
                         = EscapeAll(text, chars) \o <<Backslash, Escape[c]>>
    /\ c \notin chars => EscapeAll(Append(text, c), chars)
                         = EscapeAll(text, chars) \o <<c>>

LEMMA EscapedMore ==
    ASSUME NEW S, IsAlphabet(S), NEW chars, Escapes(chars), NEW text \in Seq(S), NEW c \in S
    PROVE  /\ EscapeAll(<<>>, chars) = <<>>
           /\ EscapeAll(text, chars) \in Seq(S)
           /\ EscapesNext(text, chars, c)
<1>1. <<>> \in Seq(S) /\ Append(text, c) \in Seq(S)
  OBVIOUS
<1> DEFINE b == EscapeBlocks(S, chars)
<1>2. /\ b \in [S -> Seq(S)]
      /\ c \in chars => b[c] = <<Backslash, Escape[c]>>
      /\ c \notin chars => b[c] = <<c>>
  BY EscapeBlocksAre
<1>3. /\ EscapeAll(<<>>, chars) = Spelled(b, <<>>)
      /\ EscapeAll(text, chars) = Spelled(b, text)
      /\ EscapeAll(Append(text, c), chars) = Spelled(b, Append(text, c))
  BY <1>1, EscapeAllIs, Zenon
<1> HIDE DEF b
<1>4. /\ Spelled(b, <<>>) = <<>> /\ Spelled(b, text) \in Seq(S)
      /\ Spelled(b, Append(text, c)) = Spelled(b, text) \o b[c]
  <2>1. IsSpelling(b, S, S) /\ text \in Seq(S) /\ c \in S
    BY <1>2, Zenon DEF IsSpelling
  <2> USE ONLY <2>1
  <2> QED
    BY SpelledMore
<1> QED
  BY <1>2, <1>3, <1>4, Zenon DEF EscapesNext

LEMMA EscapedTyped ==
    ASSUME NEW S, IsAlphabet(S), NEW chars, Escapes(chars), NEW text \in Seq(S)
    PROVE  EscapeAll(text, chars) \in Seq(S)
<1>1. Quote \in S
  BY Zenon DEF IsAlphabet
<1> QED
  BY <1>1, EscapedMore

\* A quote in an escaped text has a backslash before it.
QuotesHidden(E) ==
    \A k \in 1 .. Len(E) : E[k] = Quote => k - 1 \in 1 .. Len(E) /\ E[k - 1] = Backslash

LEMMA QuotesHiddenMore ==
    ASSUME NEW S, NEW e \in Seq(S), QuotesHidden(e), NEW x \in S
    PROVE  /\ x # Quote => QuotesHidden(e \o <<x>>)
           /\ Backslash \in S /\ Backslash # Quote => QuotesHidden(e \o <<Backslash, x>>)
           /\ QuotesHidden(<<>>)
<1> USE DEF QuotesHidden
<1>1. ASSUME x # Quote PROVE QuotesHidden(e \o <<x>>)
  <2> DEFINE f == e \o <<x>>
  <2>1. Len(f) = Len(e) + 1 /\ f[Len(e) + 1] = x /\ Len(e) \in Nat /\ \A k \in 1 .. Len(e) : f[k] = e[k]
    OBVIOUS
  <2> HIDE DEF f
  <2>2. QuotesHidden(f)
    BY <1>1, <2>1
  <2> QED
    BY <2>2 DEF f
<1>2. ASSUME Backslash \in S, Backslash # Quote PROVE QuotesHidden(e \o <<Backslash, x>>)
  <2> DEFINE f == e \o <<Backslash, x>>
  <2>1. /\ Len(f) = Len(e) + 2 /\ f[Len(e) + 1] = Backslash /\ f[Len(e) + 2] = x /\ Len(e) \in Nat
        /\ \A k \in 1 .. Len(e) : f[k] = e[k]
    BY <1>2
  <2> HIDE DEF f
  <2>2. QuotesHidden(f)
    BY <1>2, <2>1
  <2> QED
    BY <2>2 DEF f
<1>3. QuotesHidden(<<>>)
  OBVIOUS
<1> QED
  BY <1>1, <1>2, <1>3, Zenon

LEMMA EscapedHidesQuotes ==
    ASSUME NEW S, IsAlphabet(S), NEW chars, Escapes(chars)
    PROVE  \A text \in Seq(S) : QuotesHidden(EscapeAll(text, chars))
<1> DEFINE T == {t \in Seq(S) : QuotesHidden(EscapeAll(t, chars))}
<1>1. <<>> \in T
  <2>1. <<>> \in Seq(S) /\ Quote \in S
    BY Zenon, EmptySeq DEF IsAlphabet
  <2>2. EscapeAll(<<>>, chars) = <<>>
    BY <2>1, EscapedMore, Zenon
  <2>3. QuotesHidden(<<>>)
    BY DEF QuotesHidden
  <2> QED
    BY <2>1, <2>2, <2>3, Zenon
<1>2. ASSUME NEW t \in Seq(S), NEW c \in S, t \in T PROVE Append(t, c) \in T
  <2> DEFINE e == EscapeAll(t, chars)
  <2>1. /\ e \in Seq(S) /\ QuotesHidden(e)
        /\ c \in chars => EscapeAll(Append(t, c), chars) = e \o <<Backslash, Escape[c]>>
        /\ c \notin chars => EscapeAll(Append(t, c), chars) = e \o <<c>>
    <3>1. e \in Seq(S) /\ EscapesNext(t, chars, c)
      BY EscapedMore, Zenon
    <3>2. QuotesHidden(e)
      BY <1>2, Zenon
    <3> QED
      BY <3>1, <3>2, Zenon DEF EscapesNext
  <2>2. Append(t, c) \in Seq(S)
    OBVIOUS
  <2>3. Backslash \in S /\ Backslash # Quote /\ (c \in chars => Escape[c] \in S)
        /\ (c \notin chars => c # Quote)
    <3>1. Backslash \in S
      BY Zenon DEF IsAlphabet
    <3>2. Backslash # Quote
      BY EscapeIs, Zenon
    <3>3. c \in chars => Escape[c] \in S
      BY EscapeBlocksAre, Zenon
    <3>4. c \notin chars => c # Quote
      BY Zenon DEF Escapes
    <3> QED
      BY <3>1, <3>2, <3>3, <3>4, Zenon
  <2> HIDE DEF e
  <2>4. CASE c \in chars
    <3>1. QuotesHidden(e \o <<Backslash, Escape[c]>>)
      BY <2>1, <2>3, <2>4, QuotesHiddenMore, Zenon
    <3> QED
      BY <2>1, <2>2, <2>4, <3>1, Zenon
  <2>5. CASE c \notin chars
    <3>1. QuotesHidden(e \o <<c>>)
      BY <2>1, <2>3, <2>5, QuotesHiddenMore, Zenon
    <3> QED
      BY <2>1, <2>2, <2>5, <3>1, Zenon
  <2> QED
    BY <2>4, <2>5
<1>3. \A t \in Seq(S) : t \in T
  <2> HIDE DEF T
  <2> QED
    BY <1>1, <1>2, SequenceInduction
<1> QED
  BY <1>3, Zenon

-----------------------------------------------------------------------------
(* A string is read character by character.                                *)

Yes == TRUE
No == FALSE
Reader(out, escaped, done) == [out |-> out, escaped |-> escaped, done |-> done]

Flagged(s) == [s EXCEPT !.escaped = Yes]
Ended(s) == [s EXCEPT !.done = Yes]
Taking(s, out) == [s EXCEPT !.out = out]
Unflagged(s, out) == [s EXCEPT !.escaped = No, !.out = out]

LEMMA ReaderUpdates ==
    ASSUME NEW o, NEW e, NEW d, NEW o2
    PROVE  \A s : s = Reader(o, e, d) =>
              /\ Flagged(s) = Reader(o, Yes, d) /\ Ended(s) = Reader(o, e, Yes)
              /\ Taking(s, o2) = Reader(o2, e, d) /\ Unflagged(s, o2) = Reader(o2, No, d)
<1> SUFFICES ASSUME NEW s, s = Reader(o, e, d)
             PROVE  /\ Flagged(s) = Reader(o, Yes, d) /\ Ended(s) = Reader(o, e, Yes)
                    /\ Taking(s, o2) = Reader(o2, e, d) /\ Unflagged(s, o2) = Reader(o2, No, d)
  OBVIOUS
<1>1. Flagged(s) = Reader(o, Yes, d)
  BY DEF Reader, Flagged
<1>2. Ended(s) = Reader(o, e, Yes)
  BY DEF Reader, Ended
<1>3. Taking(s, o2) = Reader(o2, e, d)
  BY DEF Reader, Taking
<1>4. Unflagged(s, o2) = Reader(o2, No, d)
  <2>1. [s EXCEPT !.escaped = No] = Reader(o, No, d)
    BY DEF Reader
  <2>2. [Reader(o, No, d) EXCEPT !.out = o2] = Reader(o2, No, d)
    BY DEF Reader
  <2>3. Unflagged(s, o2) = [[s EXCEPT !.escaped = No] EXCEPT !.out = o2]
    BY DEF Unflagged
  <2> QED
    BY <2>1, <2>2, <2>3, Zenon
<1> QED
  BY <1>1, <1>2, <1>3, <1>4, Zenon

LEMMA ReadCharCases ==
    ASSUME NEW s, NEW c
    PROVE  /\ s.done => ReadChar(s, c) = s
           /\ ~s.done /\ s.escaped =>
                 ReadChar(s, c) = Unflagged(s, Append(s.out, IF c = LetterN THEN Newline ELSE c))
           /\ ~s.done /\ ~s.escaped /\ c = Backslash => ReadChar(s, c) = Flagged(s)
           /\ ~s.done /\ ~s.escaped /\ c = Quote => ReadChar(s, c) = Ended(s)
           /\ ~s.done /\ ~s.escaped /\ c # Backslash /\ c # Quote =>
                 ReadChar(s, c) = Taking(s, Append(s.out, c))
<1>1. s.done => ReadChar(s, c) = s
  BY Zenon DEF ReadChar
<1>2. ~s.done /\ s.escaped =>
         ReadChar(s, c) = Unflagged(s, Append(s.out, IF c = LetterN THEN Newline ELSE c))
  BY Zenon DEF ReadChar, Unflagged, LetterN, Newline, No
<1>3. ~s.done /\ ~s.escaped /\ c = Backslash => ReadChar(s, c) = Flagged(s)
  BY Zenon DEF ReadChar, Flagged, Yes, Backslash
<1>4. ~s.done /\ ~s.escaped /\ c = Quote => ReadChar(s, c) = Ended(s)
  BY Zenon DEF ReadChar, Ended, Yes, Quote
<1>5. ~s.done /\ ~s.escaped /\ c # Backslash /\ c # Quote =>
         ReadChar(s, c) = Taking(s, Append(s.out, c))
  BY Zenon DEF ReadChar, Taking, Backslash, Quote
<1> QED
  BY <1>1, <1>2, <1>3, <1>4, <1>5, Zenon

LEMMA ReadsNothingMore ==
    ASSUME NEW o, NEW e, NEW c
    PROVE  ReadChar(Reader(o, e, Yes), c) = Reader(o, e, Yes)
<1> DEFINE s == Reader(o, e, Yes)
<1>1. s.done
  BY DEF Reader, Yes
<1> HIDE DEF s
<1>2. ReadChar(s, c) = s
  BY <1>1, ReadCharCases, Zenon
<1> QED
  BY <1>2, Zenon DEF s

LEMMA ReadsEscaped ==
    ASSUME NEW o, NEW c
    PROVE  ReadChar(Reader(o, Yes, No), c)
              = Reader(Append(o, IF c = LetterN THEN Newline ELSE c), No, No)
<1> DEFINE s == Reader(o, Yes, No)
           x == IF c = LetterN THEN Newline ELSE c
<1>0. s = Reader(o, Yes, No)
  OBVIOUS
<1> HIDE DEF s, x
<1>1. ~s.done /\ s.escaped /\ s.out = o
  BY <1>0 DEF Reader, Yes, No
<1>2. Unflagged(s, Append(o, x)) = Reader(Append(o, x), No, No)
  BY <1>0, ReaderUpdates
<1>3. ReadChar(s, c) = Unflagged(s, Append(o, x))
  BY <1>1, ReadCharCases, Zenon DEF x
<1> QED
  BY <1>0, <1>2, <1>3, Zenon DEF x

LEMMA ReadsPlain ==
    ASSUME NEW o, NEW c
    PROVE  /\ c = Backslash => ReadChar(Reader(o, No, No), c) = Reader(o, Yes, No)
           /\ c = Quote => ReadChar(Reader(o, No, No), c) = Reader(o, No, Yes)
           /\ c # Backslash /\ c # Quote =>
                 ReadChar(Reader(o, No, No), c) = Reader(Append(o, c), No, No)
<1> DEFINE s == Reader(o, No, No)
<1>0. s = Reader(o, No, No)
  OBVIOUS
<1> HIDE DEF s
<1>1. ~s.done /\ ~s.escaped /\ s.out = o
  BY <1>0 DEF Reader, No
<1>2. /\ Flagged(s) = Reader(o, Yes, No) /\ Ended(s) = Reader(o, No, Yes)
      /\ Taking(s, Append(o, c)) = Reader(Append(o, c), No, No)
  BY <1>0, ReaderUpdates
<1>3. /\ c = Backslash => ReadChar(s, c) = Flagged(s)
      /\ c = Quote => ReadChar(s, c) = Ended(s)
      /\ c # Backslash /\ c # Quote => ReadChar(s, c) = Taking(s, Append(o, c))
  BY <1>1, ReadCharCases, Zenon
<1> QED
  BY <1>0, <1>2, <1>3, Zenon

IsReading(f, json, from) ==
    f = [i \in from - 1 .. Len(json) |->
            IF i < from THEN Reader(<<>>, No, No) ELSE ReadChar(f[i - 1], json[i])]

LEMMA ReadingDefined ==
    ASSUME NEW json, NEW from \in Nat, Len(json) \in Nat
    PROVE  \E f : IsReading(f, json, from)
<1> DEFINE D(k) == {i \in from - 1 .. Len(json) : i < from + k}
           Is(f, k) == f = [i \in D(k) |-> IF i < from THEN Reader(<<>>, No, No)
                                                     ELSE ReadChar(f[i - 1], json[i])]
           T == {k \in Nat : \E f : Is(f, k)}
<1>1. 0 \in T
  <2> DEFINE g == [i \in D(0) |-> Reader(<<>>, No, No)]
  <2>1. \A i \in D(0) : i < from
    OBVIOUS
  <2>2. Is(g, 0)
    BY <2>1, Zenon
  <2> QED
    BY <2>2
<1>2. ASSUME NEW k \in Nat, k \in T PROVE k + 1 \in T
  <2>1. PICK f : Is(f, k)
    BY <1>2
  <2> DEFINE g == [i \in D(k + 1) |-> IF i < from THEN Reader(<<>>, No, No)
                                                 ELSE ReadChar(f[i - 1], json[i])]
  <2>2. D(k) \subseteq D(k + 1)
    OBVIOUS
  <2>3. \A i \in D(k) : f[i] = IF i < from THEN Reader(<<>>, No, No)
                                            ELSE ReadChar(f[i - 1], json[i])
    BY <2>1, Zenon
  <2>4. \A i \in D(k) : g[i] = f[i]
    BY <2>2, <2>3, Zenon
  <2>5. \A i \in D(k + 1) : ~(i < from) => i - 1 \in D(k)
    OBVIOUS
  <2>6. \A i \in D(k + 1) :
           (IF i < from THEN Reader(<<>>, No, No) ELSE ReadChar(f[i - 1], json[i]))
              = IF i < from THEN Reader(<<>>, No, No) ELSE ReadChar(g[i - 1], json[i])
    BY <2>4, <2>5, Zenon
  <2>7. g = [i \in D(k + 1) |-> IF i < from THEN Reader(<<>>, No, No)
                                           ELSE ReadChar(f[i - 1], json[i])]
    OBVIOUS
  <2>8. k + 1 \in Nat
    OBVIOUS
  <2> HIDE DEF g, D
  <2>9. Is(g, k + 1)
    BY <2>6, <2>7, Zenon
  <2> QED
    BY <2>8, <2>9, Zenon
<1>3. Len(json) + 1 \in T
  <2> HIDE DEF T
  <2> QED
    BY <1>1, <1>2, Induction
<1>4. D(Len(json) + 1) = from - 1 .. Len(json)
  OBVIOUS
<1>5. PICK f : Is(f, Len(json) + 1)
  BY <1>3
<1> QED
  BY <1>4, <1>5, Zenon DEF IsReading

LEMMA ReadStringIs ==
    ASSUME NEW json, NEW from \in Nat, Len(json) \in Nat
    PROVE  \E f : IsReading(f, json, from) /\ ReadJsonString(json, from) = f[Len(json)].out
<1> DEFINE f == CHOOSE g : IsReading(g, json, from)
<1>1. IsReading(f, json, from)
  BY ReadingDefined, Zenon
<1>2. ReadJsonString(json, from) = f[Len(json)].out
  BY Zenon DEF ReadJsonString, IsReading, Reader, No
<1> QED
  BY <1>1, <1>2, Zenon

LEMMA ReadingStep ==
    ASSUME NEW json, NEW from \in Nat \ {0}, Len(json) \in Nat, NEW f, IsReading(f, json, from)
    PROVE  /\ from - 1 <= Len(json) => f[from - 1] = Reader(<<>>, No, No)
           /\ \A i \in from .. Len(json) : f[i] = ReadChar(f[i - 1], json[i])
<1>1. \A i \in from - 1 .. Len(json) : f[i] = IF i < from THEN Reader(<<>>, No, No)
                                                      ELSE ReadChar(f[i - 1], json[i])
  BY Zenon DEF IsReading
<1>2. from - 1 < from /\ (from - 1 <= Len(json) => from - 1 \in from - 1 .. Len(json))
  OBVIOUS
<1>3. \A i \in from .. Len(json) : i \in from - 1 .. Len(json) /\ ~(i < from)
  OBVIOUS
<1> QED
  BY <1>1, <1>2, <1>3, Zenon

\* An escaped text is read as that text.
LEMMA EscapedIsRead ==
    ASSUME NEW S, IsAlphabet(S), NEW chars, Escapes(chars), NEW U \in SUBSET S, Control \notin U,
           NEW json, NEW from \in Nat \ {0}, Len(json) \in Nat, NEW f, IsReading(f, json, from),
           NEW p \in Nat, p >= from - 1, f[p] = Reader(<<>>, No, No)
    PROVE  \A text \in Seq(U) : StandsAt(json, p, EscapeAll(text, chars)) =>
              f[p + Len(EscapeAll(text, chars))] = Reader(text, No, No)
<1> DEFINE E(t) == EscapeAll(t, chars)
           T == {t \in Seq(U) : StandsAt(json, p, E(t)) => f[p + Len(E(t))] = Reader(t, No, No)}
<1>1. <<>> \in T
  <2>1. <<>> \in Seq(U) /\ <<>> \in Seq(S) /\ Quote \in S
    BY Zenon, EmptySeq DEF IsAlphabet
  <2>2. E(<<>>) = <<>>
    BY <2>1, EscapedMore, Zenon
  <2>3. p + Len(<<>>) = p
    OBVIOUS
  <2> QED
    BY <2>1, <2>2, <2>3, Zenon
<1>2. ASSUME NEW t \in Seq(U), NEW c \in U, t \in T PROVE Append(t, c) \in T
  <2>1. t \in Seq(S) /\ c \in S /\ Append(t, c) \in Seq(U) /\ c # Control
    OBVIOUS
  <2> DEFINE e == E(t)
             l == Len(e)
  <2>2. /\ e \in Seq(S)
        /\ c \in chars => E(Append(t, c)) = e \o <<Backslash, Escape[c]>>
        /\ c \notin chars => E(Append(t, c)) = e \o <<c>>
    <3>1. EscapeAll(t, chars) \in Seq(S)
      BY <2>1, EscapedTyped
    <3>2. EscapesNext(t, chars, c)
      BY <2>1, EscapedMore, Zenon
    <3> QED
      BY <3>1, <3>2, Zenon DEF EscapesNext
  <2>3. StandsAt(json, p, e) => f[p + l] = Reader(t, No, No)
    BY <1>2, Zenon
  <2>4. \A i \in from .. Len(json) : f[i] = ReadChar(f[i - 1], json[i])
    BY ReadingStep, Zenon
  <2> HIDE DEF E, e, T
  <2>5. l \in Nat
    BY <2>2
  <2>6. CASE c \in chars
    <3> DEFINE b == <<Backslash, Escape[c]>>
    <3>1. b \in Seq(S) /\ Len(b) = 2
      <4>1. Escape[c] \in S /\ Backslash \in S
        BY <2>6, EscapeBlocksAre, Zenon DEF IsAlphabet
      <4> QED
        BY <4>1
    <3> SUFFICES ASSUME StandsAt(json, p, e \o b)
                 PROVE  f[p + Len(e \o b)] = Reader(Append(t, c), No, No)
      BY <2>1, <2>2, <2>6, Zenon DEF T
    <3>2. StandsAt(json, p, e) /\ StandsAt(json, p + l, b) /\ Len(e \o b) = l + 2
      <4> HIDE DEF b
      <4> QED
        BY <2>2, <3>1, StandsParts
    <3> DEFINE q == p + l
    <3>3. q \in Nat /\ q >= from - 1
      BY <2>5
    <3>4. /\ q + 1 \in 1 .. Len(json) /\ json[q + 1] = Backslash
          /\ q + 2 \in 1 .. Len(json) /\ json[q + 2] = Escape[c]
      <4> HIDE DEF q
      <4> QED
        BY <3>2, <3>3, StandsTwo DEF q, b
    <3> HIDE DEF q
    <3>5. /\ q + 1 \in from .. Len(json) /\ q + 2 \in from .. Len(json)
          /\ (q + 1) - 1 = q /\ (q + 2) - 1 = q + 1
      BY <3>3, <3>4
    <3>6. f[q + 1] = Reader(t, Yes, No)
      <4>1. f[q] = Reader(t, No, No)
        BY <2>3, <3>2, Zenon DEF q
      <4>2. f[q + 1] = ReadChar(f[(q + 1) - 1], json[q + 1])
        BY <2>4, <3>5, Zenon
      <4> QED
        BY <3>4, <3>5, <4>1, <4>2, ReadsPlain, Zenon
    <3>7. c = IF Escape[c] = LetterN THEN Newline ELSE Escape[c]
      <4>1. c \in {Quote, Backslash, Newline}
        BY <2>1, <2>6, EscapeIs, Zenon DEF Escapes
      <4> QED
        BY <4>1, EscapeIs, Zenon
    <3>8. f[q + 2] = Reader(Append(t, c), No, No)
      <4>1. f[q + 2] = ReadChar(f[(q + 2) - 1], json[q + 2])
        BY <2>4, <3>5, Zenon
      <4>2. f[q + 2] = ReadChar(Reader(t, Yes, No), Escape[c])
        BY <3>4, <3>5, <3>6, <4>1, Zenon
      <4> QED
        BY <3>7, <4>2, ReadsEscaped, Zenon
    <3>9. p + (l + 2) = q + 2
      BY <2>5 DEF q
    <3> QED
      BY <3>2, <3>8, <3>9, Zenon
  <2>7. CASE c \notin chars
    <3> DEFINE b == <<c>>
    <3>1. b \in Seq(S) /\ Len(b) = 1
      BY <2>1
    <3> SUFFICES ASSUME StandsAt(json, p, e \o b)
                 PROVE  f[p + Len(e \o b)] = Reader(Append(t, c), No, No)
      BY <2>1, <2>2, <2>7, Zenon DEF T
    <3>2. StandsAt(json, p, e) /\ StandsAt(json, p + l, b) /\ Len(e \o b) = l + 1
      <4> HIDE DEF b
      <4> QED
        BY <2>2, <3>1, StandsParts
    <3> DEFINE q == p + l
    <3>3. q \in Nat /\ q >= from - 1
      BY <2>5
    <3>4. q + 1 \in 1 .. Len(json) /\ json[q + 1] = c
      <4> HIDE DEF q
      <4> QED
        BY <3>2, <3>3, StandsOne, Zenon DEF q
    <3> HIDE DEF q
    <3>5. q + 1 \in from .. Len(json) /\ (q + 1) - 1 = q
      BY <3>3, <3>4
    <3>6. c # Quote /\ c # Backslash
      BY <2>7, Zenon DEF Escapes
    <3>7. f[q + 1] = Reader(Append(t, c), No, No)
      <4>1. f[q] = Reader(t, No, No)
        BY <2>3, <3>2, Zenon DEF q
      <4>2. f[q + 1] = ReadChar(f[(q + 1) - 1], json[q + 1])
        BY <2>4, <3>5, Zenon
      <4> QED
        BY <3>4, <3>5, <3>6, <4>1, <4>2, ReadsPlain
    <3>8. p + (l + 1) = q + 1
      BY <2>5 DEF q
    <3> QED
      BY <3>2, <3>7, <3>8, Zenon
  <2> QED
    BY <2>6, <2>7
<1>3. \A t \in Seq(U) : t \in T
  <2> HIDE DEF T
  <2> QED
    BY <1>1, <1>2, SequenceInduction
<1> QED
  BY <1>3, Zenon

\* With a quote behind it, it is all that is read.
LEMMA StringReadsBack ==
    ASSUME NEW S, IsAlphabet(S), NEW chars, Escapes(chars), NEW U \in SUBSET S, Control \notin U,
           NEW text \in Seq(U), NEW json, NEW from \in Nat \ {0}, Len(json) \in Nat,
           QuotedAt(json, from - 1, EscapeAll(text, chars))
    PROVE  ReadJsonString(json, from) = text
<1> DEFINE e == EscapeAll(text, chars)
           q == from - 1 + Len(e)
<1>0. StandsAt(json, from - 1, e) /\ StandsAt(json, q, <<Quote>>)
  BY Zenon DEF QuotedAt
<1>1. PICK f : IsReading(f, json, from) /\ ReadJsonString(json, from) = f[Len(json)].out
  BY ReadStringIs
<1>2. /\ from - 1 <= Len(json) => f[from - 1] = Reader(<<>>, No, No)
      /\ \A i \in from .. Len(json) : f[i] = ReadChar(f[i - 1], json[i])
  BY <1>1, ReadingStep, Zenon
<1>3. from - 1 \in Nat /\ from - 1 >= from - 1 /\ Len(e) \in Nat /\ q \in Nat /\ q >= from - 1
  <2>1. text \in Seq(S)
    OBVIOUS
  <2>2. e \in Seq(S)
    BY <2>1, EscapedTyped
  <2> HIDE DEF e
  <2> QED
    BY <2>2
<1>5. q + 1 \in 1 .. Len(json) /\ json[q + 1] = Quote
  BY <1>0, <1>3, StandsOne
<1>4. f[q] = Reader(text, No, No)
  <2>1. f[from - 1] = Reader(<<>>, No, No)
    BY <1>2, <1>3, <1>5
  <2> QED
    BY <1>0, <1>1, <1>3, <2>1, EscapedIsRead
<1> HIDE DEF q
<1>6. f[q + 1] = Reader(text, No, Yes)
  <2>1. q + 1 \in from .. Len(json) /\ (q + 1) - 1 = q
    BY <1>3, <1>5
  <2> QED
    <3>1. f[q + 1] = ReadChar(f[(q + 1) - 1], json[q + 1])
      BY <1>2, <2>1, Zenon
    <3> QED
      BY <1>4, <1>5, <2>1, <3>1, ReadsPlain, Zenon
<1> DEFINE T == {k \in Nat : q + 1 + k <= Len(json) => f[q + 1 + k] = Reader(text, No, Yes)}
<1>7. \A k \in Nat : k \in T
  <2>1. 0 \in T
    <3>1. q + 1 + 0 = q + 1
      BY <1>3
    <3> QED
      BY <1>6, <3>1
  <2>2. ASSUME NEW k \in Nat, k \in T PROVE k + 1 \in T
    <3> SUFFICES ASSUME q + 1 + (k + 1) <= Len(json)
                 PROVE  f[q + 1 + (k + 1)] = Reader(text, No, Yes)
      OBVIOUS
    <3>1. /\ q + 1 + (k + 1) \in from .. Len(json) /\ (q + 1 + (k + 1)) - 1 = q + 1 + k
          /\ q + 1 + k <= Len(json)
      BY <1>3
    <3>2. f[q + 1 + k] = Reader(text, No, Yes)
      BY <2>2, <3>1
    <3> QED
      <4>1. f[q + 1 + (k + 1)]
               = ReadChar(f[(q + 1 + (k + 1)) - 1], json[q + 1 + (k + 1)])
        BY <1>2, <3>1, Zenon
      <4> QED
        BY <3>1, <3>2, <4>1, ReadsNothingMore, Zenon
  <2> HIDE DEF T
  <2> QED
    BY <2>1, <2>2, Induction
<1>8. f[Len(json)] = Reader(text, No, Yes)
  <2>1. Len(json) - (q + 1) \in Nat /\ q + 1 + (Len(json) - (q + 1)) = Len(json)
        /\ q + 1 + (Len(json) - (q + 1)) <= Len(json)
    BY <1>3, <1>5
  <2> QED
    BY <1>7, <2>1
<1>9. Reader(text, No, Yes).out = text
  BY DEF Reader
<1> QED
  BY <1>1, <1>8, <1>9, Zenon

-----------------------------------------------------------------------------
(* What is escaped for XML is unescaped.                                   *)

XmlBlocks(S) == [c \in S |-> IF c \in DOMAIN Entity THEN <<Amp, Entity[c]>> ELSE <<c>>]

LEMMA XmlBlocksAre ==
    ASSUME NEW S, IsAlphabet(S)
    PROVE  /\ IsSpelling(XmlBlocks(S), S, S)
           /\ \A c \in S : c \in DOMAIN Entity => XmlBlocks(S)[c] = <<Amp, Entity[c]>>
           /\ \A c \in S : c \notin DOMAIN Entity => XmlBlocks(S)[c] = <<c>>
           /\ \A c \in DOMAIN Entity : c \in S /\ Entity[c] \in S
<1>1. Amp \in S /\ \A c \in DOMAIN Entity : c \in S /\ Entity[c] \in S
  BY EntityIs, Zenon DEF IsAlphabet
<1>2. \A x, y \in S : <<x, y>> \in Seq(S) /\ <<x>> \in Seq(S)
  OBVIOUS
<1>3. \A c \in S : (IF c \in DOMAIN Entity THEN <<Amp, Entity[c]>> ELSE <<c>>) \in Seq(S)
  BY <1>1, <1>2, Zenon
<1> QED
  BY <1>1, <1>3, Zenon DEF XmlBlocks, IsSpelling

LEMMA XmlEscapedMore ==
    ASSUME NEW S, IsAlphabet(S), NEW text \in Seq(S), NEW c \in S
    PROVE  /\ XmlEscape(<<>>) = <<>>
           /\ XmlEscape(text) \in Seq(S)
           /\ c \in DOMAIN Entity =>
                 XmlEscape(Append(text, c)) = XmlEscape(text) \o <<Amp, Entity[c]>>
           /\ c \notin DOMAIN Entity =>
                 XmlEscape(Append(text, c)) = XmlEscape(text) \o <<c>>
<1> DEFINE b == XmlBlocks(S)
<1>1. ASSUME NEW t \in Seq(S) PROVE XmlEscape(t) = Spelled(b, t)
  <2>1. \A i \in DOMAIN t : t[i] \in S
    OBVIOUS
  <2>2. [i \in DOMAIN t |-> IF t[i] \in DOMAIN Entity
                             THEN <<Amp, Entity[t[i]]>> ELSE <<t[i]>>]
           = [i \in DOMAIN t |-> b[t[i]]]
    BY <2>1, Zenon DEF XmlBlocks
  <2> QED
    BY <2>2, Zenon DEF XmlEscape, Spelled, Amp
<1>2. /\ IsSpelling(b, S, S)
      /\ c \in DOMAIN Entity => b[c] = <<Amp, Entity[c]>>
      /\ c \notin DOMAIN Entity => b[c] = <<c>>
  BY XmlBlocksAre, Zenon
<1>3. <<>> \in Seq(S) /\ Append(text, c) \in Seq(S)
  OBVIOUS
<1> HIDE DEF b
<1>4. /\ Spelled(b, <<>>) = <<>> /\ Spelled(b, text) \in Seq(S)
      /\ Spelled(b, Append(text, c)) = Spelled(b, text) \o b[c]
  <2> USE ONLY <1>2
  <2> QED
    BY SpelledMore
<1> QED
  BY <1>1, <1>2, <1>3, <1>4, Zenon

LEMMA PlainStays ==
    ASSUME NEW S, NEW text \in Seq(S), \A i \in DOMAIN text : text[i] \notin DOMAIN Entity
    PROVE  XmlEscape(text) = text
<1>1. [i \in DOMAIN text |-> IF text[i] \in DOMAIN Entity
                              THEN <<Amp, Entity[text[i]]>> ELSE <<text[i]>>]
         = [i \in DOMAIN text |-> <<text[i]>>]
  BY Zenon
<1>2. FlattenSeq([i \in DOMAIN text |-> <<text[i]>>]) = text
  BY FlattenSingles
<1> QED
  BY <1>1, <1>2, Zenon DEF XmlEscape, Amp

\* The parts of an unescaped text, one for each character of the escaped one.
StandsFor(u, i, c) == i > 1 /\ u[i - 1] = Amp /\ u[i] = Entity[c]
EndsEntity(u, i) == \E c \in DOMAIN Entity : StandsFor(u, i, c)
Meant(u, i) == CHOOSE c \in DOMAIN Entity : StandsFor(u, i, c)
PartAt(u, i) ==
    IF EndsEntity(u, i) THEN <<Meant(u, i)>>
    ELSE IF i < Len(u) /\ EndsEntity(u, i + 1) THEN <<>> ELSE <<u[i]>>
Parts(u) == [i \in DOMAIN u |-> PartAt(u, i)]

LEMMA UnescapeIs ==
    ASSUME NEW u
    PROVE  XmlUnescape(u) = FlattenSeq(Parts(u))
BY Zenon DEF XmlUnescape, UnescapeOnly, Parts, PartAt, Meant, EndsEntity, StandsFor, Amp

LEMMA MeantIs ==
    ASSUME NEW u, NEW i, NEW c \in DOMAIN Entity, StandsFor(u, i, c)
    PROVE  EndsEntity(u, i) /\ Meant(u, i) = c
<1>1. EndsEntity(u, i)
  BY Zenon DEF EndsEntity
<1>2. Meant(u, i) \in DOMAIN Entity /\ StandsFor(u, i, Meant(u, i))
  BY <1>1, Zenon DEF EndsEntity, Meant
<1>3. Entity[Meant(u, i)] = Entity[c]
  BY <1>2, Zenon DEF StandsFor
<1>4. \A x, y \in DOMAIN Entity : Entity[x] = Entity[y] => x = y
  BY EntityIs, Zenon
<1> QED
  BY <1>1, <1>2, <1>3, <1>4, Zenon

LEMMA PartsTyped ==
    ASSUME NEW S, IsAlphabet(S), NEW u \in Seq(S)
    PROVE  Parts(u) \in Seq(Seq(S)) /\ Len(Parts(u)) = Len(u)
<1>1. ASSUME NEW i \in 1 .. Len(u) PROVE PartAt(u, i) \in Seq(S)
  <2>1. u[i] \in S
    OBVIOUS
  <2>2. EndsEntity(u, i) => Meant(u, i) \in S
    <3>1. EndsEntity(u, i) => Meant(u, i) \in DOMAIN Entity
      BY Zenon DEF EndsEntity, Meant
    <3> QED
      BY <3>1, XmlBlocksAre, Zenon
  <2>3. \A x \in S : <<x>> \in Seq(S)
    OBVIOUS
  <2>4. <<>> \in Seq(S)
    OBVIOUS
  <2> QED
    BY <2>1, <2>2, <2>3, <2>4, Zenon DEF PartAt
<1>2. DOMAIN u = 1 .. Len(u) /\ Len(u) \in Nat
  OBVIOUS
<1>3. Parts(u) = [i \in 1 .. Len(u) |-> PartAt(u, i)]
  BY <1>2, Zenon DEF Parts
<1>4. /\ [i \in 1 .. Len(u) |-> PartAt(u, i)] \in Seq(Seq(S))
      /\ Len([i \in 1 .. Len(u) |-> PartAt(u, i)]) = Len(u)
  BY <1>1, <1>2
<1> QED
  BY <1>3, <1>4, Zenon

LEMMA PartsKept ==
    ASSUME NEW S, NEW u \in Seq(S), NEW v \in Seq(S), Len(v) > Len(u),
           \A i \in 1 .. Len(u) : v[i] = u[i], ~EndsEntity(v, Len(u) + 1)
    PROVE  \A i \in 1 .. Len(u) : PartAt(v, i) = PartAt(u, i)
<1>1. ASSUME NEW i \in 1 .. Len(u), NEW c PROVE StandsFor(v, i, c) <=> StandsFor(u, i, c)
  <2>1. i > 1 => i - 1 \in 1 .. Len(u)
    OBVIOUS
  <2> QED
    BY <2>1, Zenon DEF StandsFor
<1>2. ASSUME NEW i \in 1 .. Len(u) PROVE EndsEntity(v, i) <=> EndsEntity(u, i)
  BY <1>1, Zenon DEF EndsEntity
<1>3. ASSUME NEW i \in 1 .. Len(u), EndsEntity(u, i) PROVE Meant(v, i) = Meant(u, i)
  <2>1. PICK c \in DOMAIN Entity : StandsFor(u, i, c)
    BY <1>3, Zenon DEF EndsEntity
  <2>2. StandsFor(v, i, c)
    BY <1>1, <2>1, Zenon
  <2> QED
    BY <2>1, <2>2, MeantIs, Zenon
<1>4. ASSUME NEW i \in 1 .. Len(u)
      PROVE  (i < Len(v) /\ EndsEntity(v, i + 1)) <=> (i < Len(u) /\ EndsEntity(u, i + 1))
  <2>1. CASE i = Len(u)
    <3>1. ~(i < Len(u))
      BY <2>1
    <3> QED
      BY <2>1, <3>1, Zenon
  <2>2. CASE i # Len(u)
    <3>1. i < Len(u) /\ i < Len(v) /\ i + 1 \in 1 .. Len(u)
      BY <2>2
    <3> QED
      BY <1>2, <3>1, Zenon
  <2> QED
    BY <2>1, <2>2
<1> QED
  BY <1>2, <1>3, <1>4, Zenon DEF PartAt

\* Nothing escaped ends in an ampersand that waits for its entity.
Complete(u) == u = <<>> \/ u[Len(u)] # Amp

LEMMA UnescapeOne ==
    ASSUME NEW S, IsAlphabet(S), NEW u \in Seq(S), Complete(u), NEW c \in S, c \notin DOMAIN Entity
    PROVE  /\ XmlUnescape(u \o <<c>>) = XmlUnescape(u) \o <<c>>
           /\ Complete(u \o <<c>>)
<1> DEFINE v == u \o <<c>>
           n == Len(u)
<1>1. /\ v \in Seq(S) /\ Len(v) = n + 1 /\ n \in Nat /\ v[n + 1] = c
      /\ \A i \in 1 .. n : v[i] = u[i]
      /\ DOMAIN u = 1 .. n /\ DOMAIN v = 1 .. n + 1 /\ v # <<>> /\ Len(v) > n
      /\ ~(n + 1 < n + 1)
  OBVIOUS
<1>2. Complete(v)
  <2>1. c # Amp
    BY EntityIs, Zenon
  <2> HIDE DEF v
  <2> QED
    BY <1>1, <2>1, Zenon DEF Complete
<1>3. ~EndsEntity(v, n + 1)
  <2> SUFFICES ASSUME NEW d \in DOMAIN Entity, StandsFor(v, n + 1, d) PROVE FALSE
    BY Zenon DEF EndsEntity
  <2>1. n + 1 > 1 /\ v[(n + 1) - 1] = Amp
    BY Zenon DEF StandsFor
  <2>2. n \in 1 .. n /\ (n + 1) - 1 = n /\ u # <<>>
    BY <1>1, <2>1
  <2>3. u[n] = Amp
    <3> HIDE DEF v
    <3> QED
      BY <1>1, <2>1, <2>2, Zenon
  <2> QED
    BY <2>2, <2>3, Zenon DEF Complete
<1>4. \A i \in 1 .. n : PartAt(v, i) = PartAt(u, i)
  <2> HIDE DEF v
  <2> QED
    BY <1>1, <1>3, PartsKept
<1>5. PartAt(v, n + 1) = <<c>>
  <2> HIDE DEF v
  <2> QED
    BY <1>1, <1>3, Zenon DEF PartAt
<1>6. Parts(u) \in Seq(Seq(S)) /\ Len(Parts(u)) = n /\ Parts(v) \in Seq(Seq(S))
      /\ Len(Parts(v)) = n + 1 /\ <<c>> \in Seq(S)
  <2>1. <<c>> \in Seq(S)
    OBVIOUS
  <2> HIDE DEF v
  <2> QED
    BY <1>1, <2>1, PartsTyped
<1>7. Parts(v) = Append(Parts(u), <<c>>)
  <2> HIDE DEF v, n
  <2>1. \A i \in 1 .. n : Parts(v)[i] = Parts(u)[i]
    <3>1. \A i \in 1 .. n : i \in 1 .. n + 1
      BY <1>1
    <3> QED
      BY <1>1, <1>4, <3>1, Zenon DEF Parts
  <2>2. Parts(v)[n + 1] = <<c>>
    <3>1. n + 1 \in 1 .. n + 1
      BY <1>1
    <3> QED
      BY <1>1, <1>5, <3>1, Zenon DEF Parts
  <2> DEFINE p == Parts(u)
             q == Parts(v)
             x == <<c>>
  <2>3. /\ p \in Seq(Seq(S)) /\ Len(p) = n /\ q \in Seq(Seq(S)) /\ Len(q) = n + 1
        /\ x \in Seq(S) /\ q[n + 1] = x /\ \A i \in 1 .. n : q[i] = p[i]
    BY <1>6, <2>1, <2>2
  <2> HIDE DEF p, q, x
  <2>4. q = Append(p, x)
    BY <1>1, <2>3
  <2> QED
    BY <2>4 DEF p, q, x
<1>8. FlattenSeq(Append(Parts(u), <<c>>)) = FlattenSeq(Parts(u)) \o <<c>>
  <2> USE ONLY <1>6
  <2> QED
    BY FlattenLast
<1> QED
  BY <1>2, <1>7, <1>8, UnescapeIs, Zenon

LEMMA UnescapeEntity ==
    ASSUME NEW S, IsAlphabet(S), NEW u \in Seq(S), NEW c \in DOMAIN Entity
    PROVE  /\ XmlUnescape(u \o <<Amp, Entity[c]>>) = XmlUnescape(u) \o <<c>>
           /\ Complete(u \o <<Amp, Entity[c]>>)
<1> DEFINE x == Entity[c]
           v == u \o <<Amp, x>>
           n == Len(u)
<1>0. x \in S /\ Amp \in S /\ c \in S
  BY XmlBlocksAre, Zenon DEF IsAlphabet
<1>1. /\ v \in Seq(S) /\ Len(v) = n + 2 /\ n \in Nat /\ v[n + 1] = Amp /\ v[n + 2] = x
      /\ \A i \in 1 .. n : v[i] = u[i]
      /\ DOMAIN u = 1 .. n /\ DOMAIN v = 1 .. n + 2 /\ v # <<>> /\ Len(v) > n
      /\ n + 1 < n + 2 /\ n + 2 > 1 /\ (n + 2) - 1 = n + 1 /\ (n + 1) + 1 = n + 2
  <2> HIDE DEF x
  <2> QED
    BY <1>0
<1>2. \A d \in DOMAIN Entity : Entity[d] # Amp
  BY EntityIs, Zenon
<1> HIDE DEF v, n
<1>3. Complete(v)
  BY <1>1, <1>2, Zenon DEF Complete, x
<1>4. ~EndsEntity(v, n + 1)
  BY <1>1, <1>2, Zenon DEF EndsEntity, StandsFor
<1>5. EndsEntity(v, n + 2) /\ Meant(v, n + 2) = c
  <2>1. StandsFor(v, n + 2, c)
    BY <1>1, Zenon DEF StandsFor, x
  <2> QED
    BY <2>1, MeantIs, Zenon
<1>6. \A i \in 1 .. n : PartAt(v, i) = PartAt(u, i)
  BY <1>1, <1>4, PartsKept DEF n
<1>7. PartAt(v, n + 1) = <<>> /\ PartAt(v, n + 2) = <<c>>
  BY <1>1, <1>4, <1>5, Zenon DEF PartAt
<1>8. Parts(u) \in Seq(Seq(S)) /\ Len(Parts(u)) = n /\ Parts(v) \in Seq(Seq(S))
      /\ Len(Parts(v)) = n + 2 /\ <<c>> \in Seq(S) /\ <<>> \in Seq(S)
  <2>1. <<c>> \in Seq(S) /\ <<>> \in Seq(S)
    BY <1>0
  <2> QED
    BY <1>1, <2>1, PartsTyped DEF n
<1>9. Parts(v) = Append(Append(Parts(u), <<>>), <<c>>)
  <2>1. \A i \in 1 .. n : Parts(v)[i] = Parts(u)[i]
    <3>1. \A i \in 1 .. n : i \in 1 .. n + 2
      BY <1>1
    <3> QED
      BY <1>1, <1>6, <3>1, Zenon DEF Parts
  <2>2. Parts(v)[n + 1] = <<>> /\ Parts(v)[n + 2] = <<c>>
    <3>1. n + 1 \in 1 .. n + 2 /\ n + 2 \in 1 .. n + 2
      BY <1>1
    <3> QED
      BY <1>1, <1>7, <3>1, Zenon DEF Parts
  <2> DEFINE p == Parts(u)
             q == Parts(v)
             e == <<c>>
             z == <<>>
  <2>3. /\ p \in Seq(Seq(S)) /\ Len(p) = n /\ q \in Seq(Seq(S)) /\ Len(q) = n + 2
        /\ e \in Seq(S) /\ z \in Seq(S) /\ q[n + 1] = z /\ q[n + 2] = e
        /\ \A i \in 1 .. n : q[i] = p[i]
    BY <1>8, <2>1, <2>2
  <2> HIDE DEF p, q, e, z
  <2>4. q = Append(Append(p, z), e)
    BY <1>1, <2>3
  <2> QED
    BY <2>4 DEF p, q, e, z
<1>10. FlattenSeq(Append(Append(Parts(u), <<>>), <<c>>)) = (FlattenSeq(Parts(u)) \o <<>>) \o <<c>>
  <2> DEFINE p == Parts(u)
             e == <<c>>
             z == <<>>
  <2>1. p \in Seq(Seq(S)) /\ e \in Seq(S) /\ z \in Seq(S)
    BY <1>8
  <2> HIDE DEF p, e, z
  <2>2. Append(p, z) \in Seq(Seq(S))
    BY <2>1
  <2>3. FlattenSeq(Append(Append(p, z), e)) = FlattenSeq(Append(p, z)) \o e
    BY <2>1, <2>2, FlattenLast
  <2>4. FlattenSeq(Append(p, z)) = FlattenSeq(p) \o z
    BY <2>1, FlattenLast
  <2> QED
    BY <2>3, <2>4 DEF p, e, z
<1>11. FlattenSeq(Parts(u)) \o <<>> = FlattenSeq(Parts(u))
  <2>1. FlattenSeq(Parts(u)) \in Seq(S)
    BY <1>8, FlattenTyped
  <2> QED
    BY <2>1, ConcatEmptySeq
<1> QED
  BY <1>3, <1>9, <1>10, <1>11, UnescapeIs, Zenon DEF v, x

LEMMA XmlReadsBack ==
    ASSUME NEW S, IsAlphabet(S)
    PROVE  \A text \in Seq(S) : XmlUnescape(XmlEscape(text)) = text
<1> DEFINE T == {t \in Seq(S) : XmlUnescape(XmlEscape(t)) = t /\ Complete(XmlEscape(t))}
<1>1. <<>> \in T
  <2>1. <<>> \in Seq(S) /\ Quote \in S
    BY Zenon, EmptySeq DEF IsAlphabet
  <2>2. XmlEscape(<<>>) = <<>>
    BY <2>1, XmlEscapedMore, Zenon
  <2>3. Parts(<<>>) = <<>>
    BY DEF Parts
  <2>4. XmlUnescape(<<>>) = <<>>
    BY <2>3, UnescapeIs, FlattenEmpty, Zenon
  <2> QED
    BY <2>1, <2>2, <2>4, Zenon DEF Complete
<1>2. ASSUME NEW t \in Seq(S), NEW c \in S, t \in T PROVE Append(t, c) \in T
  <2>1. Append(t, c) \in Seq(S) /\ t \o <<c>> = Append(t, c)
    OBVIOUS
  <2>2. /\ XmlEscape(t) \in Seq(S)
        /\ c \in DOMAIN Entity =>
              XmlEscape(Append(t, c)) = XmlEscape(t) \o <<Amp, Entity[c]>>
        /\ c \notin DOMAIN Entity => XmlEscape(Append(t, c)) = XmlEscape(t) \o <<c>>
    BY XmlEscapedMore
  <2>3. XmlUnescape(XmlEscape(t)) = t /\ Complete(XmlEscape(t))
    BY <1>2, Zenon
  <2>4. CASE c \in DOMAIN Entity
    <3>1. /\ XmlUnescape(XmlEscape(t) \o <<Amp, Entity[c]>>) = XmlUnescape(XmlEscape(t)) \o <<c>>
          /\ Complete(XmlEscape(t) \o <<Amp, Entity[c]>>)
      BY <2>2, <2>4, UnescapeEntity, Zenon
    <3> QED
      BY <2>1, <2>2, <2>3, <2>4, <3>1, Zenon
  <2>5. CASE c \notin DOMAIN Entity
    <3>1. /\ XmlUnescape(XmlEscape(t) \o <<c>>) = XmlUnescape(XmlEscape(t)) \o <<c>>
          /\ Complete(XmlEscape(t) \o <<c>>)
      BY <2>2, <2>3, <2>5, UnescapeOne, Zenon
    <3> QED
      BY <2>1, <2>2, <2>3, <2>5, <3>1, Zenon
  <2> QED
    BY <2>4, <2>5
<1>3. \A t \in Seq(S) : t \in T
  <2> HIDE DEF T
  <2> QED
    BY <1>1, <1>2, SequenceInduction
<1> QED
  BY <1>3, Zenon

-----------------------------------------------------------------------------
(* Searches in a JSON text.                                                *)

Opens == "{"
Closes == "}"
Comma == ","
Colon == ":"
KeyIndex == "paragraphIndex"
KeyContent == "content"
KeyType == "type"
KeyId == "commentId"
KeyAuthor == "author"
KeyText == "text"
WordComment == "comment"

LEMMA StandsFour ==
    ASSUME NEW json, NEW p \in Nat, NEW x, NEW y, NEW z, NEW w, StandsAt(json, p, <<x, y, z, w>>)
    PROVE  /\ p + 1 \in 1 .. Len(json) /\ json[p + 1] = x
           /\ p + 2 \in 1 .. Len(json) /\ json[p + 2] = y
           /\ p + 3 \in 1 .. Len(json) /\ json[p + 3] = z
           /\ p + 4 \in 1 .. Len(json) /\ json[p + 4] = w
<1>1. /\ Len(<<x, y, z, w>>) = 4 /\ <<x, y, z, w>>[1] = x /\ <<x, y, z, w>>[2] = y
      /\ <<x, y, z, w>>[3] = z /\ <<x, y, z, w>>[4] = w
      /\ 1 \in 1 .. 4 /\ 2 \in 1 .. 4 /\ 3 \in 1 .. 4 /\ 4 \in 1 .. 4
  OBVIOUS
<1> QED
  BY <1>1, Zenon DEF StandsAt

LEMMA FoundStands ==
    ASSUME NEW S, NEW json \in Seq(S), NEW pattern \in Seq(S), Len(pattern) > 0,
           NEW i \in DOMAIN json
    PROVE  (i + Len(pattern) - 1 <= Len(json) /\ SubSeq(json, i, i + Len(pattern) - 1) = pattern)
              <=> StandsAt(json, i - 1, pattern)
<1> DEFINE n == Len(pattern)
           s == SubSeq(json, i, i + n - 1)
<1>1. n \in Nat /\ Len(json) \in Nat /\ DOMAIN json = 1 .. Len(json) /\ i \in 1 .. Len(json)
  OBVIOUS
<1>2. ASSUME i + n - 1 <= Len(json)
      PROVE  s \in Seq(S) /\ Len(s) = n /\ \A k \in 1 .. n : s[k] = json[i + k - 1]
  BY <1>1, <1>2
<1> HIDE DEF s
<1>3. ASSUME i + n - 1 <= Len(json), s = pattern PROVE StandsAt(json, i - 1, pattern)
  <2>1. \A k \in 1 .. n : (i - 1) + k \in 1 .. Len(json) /\ i + k - 1 = (i - 1) + k
    BY <1>1, <1>3
  <2> QED
    BY <1>2, <1>3, <2>1, Zenon DEF StandsAt
<1>4. ASSUME StandsAt(json, i - 1, pattern) PROVE i + n - 1 <= Len(json) /\ s = pattern
  <2>1. \A k \in 1 .. n : (i - 1) + k \in 1 .. Len(json) /\ json[(i - 1) + k] = pattern[k]
    BY <1>4, Zenon DEF StandsAt
  <2>2. n \in 1 .. n
    BY <1>1
  <2>3. i + n - 1 <= Len(json)
    <3>1. (i - 1) + n \in 1 .. Len(json)
      BY <2>1, <2>2, Zenon
    <3> HIDE DEF n
    <3> QED
      BY <1>1, <3>1
  <2>4. \A k \in 1 .. n : i + k - 1 = (i - 1) + k
    BY <1>1
  <2>5. \A k \in 1 .. n : s[k] = pattern[k]
    BY <1>2, <2>1, <2>3, <2>4, Zenon
  <2>6. s \in Seq(S) /\ Len(s) = n
    BY <1>2, <2>3
  <2>7. s = pattern
    BY <2>5, <2>6
  <2> QED
    BY <2>3, <2>7
<1> QED
  BY <1>3, <1>4, Zenon DEF s, n

LEMMA FindIs ==
    ASSUME NEW S, NEW json \in Seq(S), NEW pattern \in Seq(S), Len(pattern) > 0
    PROVE  /\ (\A j \in 1 .. Len(json) : ~StandsAt(json, j - 1, pattern)) =>
                 FindIn(json, pattern) = 0
           /\ \A i \in 1 .. Len(json) :
                 StandsAt(json, i - 1, pattern)
                 /\ (\A j \in 1 .. Len(json) : StandsAt(json, j - 1, pattern) => j = i) =>
                       FindIn(json, pattern) = i
<1> DEFINE at == {i \in DOMAIN json : /\ i + Len(pattern) - 1 <= Len(json)
                                      /\ SubSeq(json, i, i + Len(pattern) - 1) = pattern}
           st == {i \in DOMAIN json : StandsAt(json, i - 1, pattern)}
<1>1. at = st
  BY FoundStands, Zenon
<1>2. FindIn(json, pattern) = IF at = {} THEN 0 ELSE Min(at)
  BY Zenon DEF FindIn
<1>3. DOMAIN json = 1 .. Len(json)
  OBVIOUS
<1> HIDE DEF at
<1>4. (\A j \in 1 .. Len(json) : ~StandsAt(json, j - 1, pattern)) => st = {}
  BY <1>3, Zenon
<1>5. ASSUME NEW i \in 1 .. Len(json), StandsAt(json, i - 1, pattern),
             \A j \in 1 .. Len(json) : StandsAt(json, j - 1, pattern) => j = i
      PROVE  st # {} /\ Min(st) = i
  <2>1. i \in st /\ \A j \in st : j = i
    BY <1>3, <1>5, Zenon
  <2>2. st \in SUBSET Nat
    BY <1>3
  <2> HIDE DEF st
  <2>3. Min(st) \in st
    BY <2>1, <2>2, SmallestOf
  <2> QED
    BY <2>1, <2>3, Zenon
<1> QED
  BY <1>1, <1>2, <1>4, <1>5, Zenon

\* A key with its quotes and the colon.
KeyAt(json, i, key) ==
    /\ i \in 1 .. Len(json) /\ i + 3 \in 1 .. Len(json)
    /\ json[i] = Quote /\ json[i + 1] = key /\ json[i + 2] = Quote /\ json[i + 3] = Colon

KeyMark(key) == <<Quote, key, Quote, Colon>>

LEMMA MemberIs ==
    ASSUME NEW S, {Quote, Colon} \subseteq S, NEW key \in S, NEW v \in Seq(S)
    PROVE  /\ Member(key, v) = KeyMark(key) \o v /\ KeyMark(key) \in Seq(S) /\ Len(KeyMark(key)) = 4
           /\ Member(key, v) \in Seq(S) /\ Len(Member(key, v)) > 0
           /\ Len(Member(key, v)) = 4 + Len(v)
           /\ Member(key, <<>>) = KeyMark(key)
<1>1. \A w : Member(key, w) = KeyMark(key) \o w
  BY Zenon DEF Member, KeyMark, Quote, Colon
<1> DEFINE m == KeyMark(key)
<1>2. m \in Seq(S) /\ Len(m) = 4
  BY DEF KeyMark
<1> HIDE DEF m
<1>3. /\ m \o v \in Seq(S) /\ Len(m \o v) = 4 + Len(v) /\ Len(v) \in Nat /\ m \o <<>> = m
  <2>1. m \o v \in Seq(S) /\ Len(m \o v) = Len(m) + Len(v) /\ Len(v) \in Nat
    <3>1. m \in Seq(S)
      BY <1>2
    <3> QED
      BY <3>1
  <2>2. m \o <<>> = m
    BY <1>2, ConcatEmptySeq
  <2> QED
    BY <1>2, <2>1, <2>2
<1>4. 4 + Len(v) > 0
  BY <1>3
<1> QED
  BY <1>1, <1>2, <1>3, <1>4, Zenon DEF m

LEMMA KeyStands ==
    ASSUME NEW S, {Quote, Colon} \subseteq S, NEW key \in S, NEW json \in Seq(S),
           NEW i \in 1 .. Len(json)
    PROVE  /\ StandsAt(json, i - 1, KeyMark(key)) <=> KeyAt(json, i, key)
           /\ \A v \in Seq(S) : StandsAt(json, i - 1, Member(key, v)) => KeyAt(json, i, key)
<1>1. ASSUME StandsAt(json, i - 1, KeyMark(key)) PROVE KeyAt(json, i, key)
  <2>1. /\ i - 1 \in Nat /\ (i - 1) + 1 = i /\ (i - 1) + 2 = i + 1 /\ (i - 1) + 3 = i + 2
        /\ (i - 1) + 4 = i + 3
    OBVIOUS
  <2>2. /\ json[(i - 1) + 1] = Quote /\ json[(i - 1) + 2] = key /\ json[(i - 1) + 3] = Quote
        /\ (i - 1) + 4 \in 1 .. Len(json) /\ json[(i - 1) + 4] = Colon
    BY <1>1, <2>1, StandsFour, Zenon DEF KeyMark
  <2> QED
    BY <2>1, <2>2, Zenon DEF KeyAt
<1>2. ASSUME KeyAt(json, i, key) PROVE StandsAt(json, i - 1, KeyMark(key))
  <2> DEFINE m == KeyMark(key)
  <2>1. Len(m) = 4 /\ m[1] = Quote /\ m[2] = key /\ m[3] = Quote /\ m[4] = Colon
    BY DEF KeyMark
  <2> HIDE DEF m
  <2>2. \A k \in 1 .. 4 : (i - 1) + k \in 1 .. Len(json) /\ json[(i - 1) + k] = m[k]
    BY <1>2, <2>1 DEF KeyAt
  <2> QED
    BY <2>1, <2>2, Zenon DEF StandsAt, m
<1>3. ASSUME NEW v \in Seq(S), StandsAt(json, i - 1, Member(key, v)) PROVE KeyAt(json, i, key)
  <2>1. Member(key, v) = KeyMark(key) \o v /\ KeyMark(key) \in Seq(S)
    BY MemberIs
  <2>2. i - 1 \in Nat
    OBVIOUS
  <2>3. StandsAt(json, i - 1, KeyMark(key))
    <3> DEFINE m == KeyMark(key)
               w == Member(key, v)
    <3>1. m \in Seq(S) /\ w = m \o v /\ StandsAt(json, i - 1, w)
      BY <1>3, <2>1
    <3> HIDE DEF m, w
    <3>2. StandsAt(json, i - 1, m)
      BY <2>2, <3>1, StandsParts
    <3> QED
      BY <3>2 DEF m
  <2> QED
    BY <1>1, <2>3, Zenon
<1> QED
  BY <1>1, <1>2, <1>3, Zenon

\* Where a key occurs once, it is found there.
LEMMA KeyFound ==
    ASSUME NEW S, {Quote, Colon} \subseteq S, NEW key \in S, NEW json \in Seq(S),
           NEW i \in 1 .. Len(json), KeyAt(json, i, key),
           \A j \in 1 .. Len(json) : KeyAt(json, j, key) => j = i
    PROVE  FindIn(json, Member(key, <<>>)) = i
<1>1. Member(key, <<>>) = KeyMark(key) /\ Member(key, <<>>) \in Seq(S)
      /\ Len(Member(key, <<>>)) > 0
  <2>1. <<>> \in Seq(S)
    OBVIOUS
  <2> QED
    BY <2>1, MemberIs, Zenon
<1>2. StandsAt(json, i - 1, Member(key, <<>>))
  BY <1>1, KeyStands, Zenon
<1>3. \A j \in 1 .. Len(json) : StandsAt(json, j - 1, Member(key, <<>>)) => j = i
  BY <1>1, KeyStands, Zenon
<1> DEFINE pattern == Member(key, <<>>)
<1> HIDE DEF pattern
<1>4. FindIn(json, pattern) = i
  BY <1>1, <1>2, <1>3, FindIs DEF pattern
<1> QED
  BY <1>4 DEF pattern

LEMMA KeyMissing ==
    ASSUME NEW S, {Quote, Colon} \subseteq S, NEW key \in S, NEW json \in Seq(S), NEW v \in Seq(S),
           \A j \in 1 .. Len(json) : ~KeyAt(json, j, key)
    PROVE  FindIn(json, Member(key, v)) = 0
<1>1. Member(key, v) \in Seq(S) /\ Len(Member(key, v)) > 0
  BY MemberIs, Zenon
<1>2. \A j \in 1 .. Len(json) : ~StandsAt(json, j - 1, Member(key, v))
  BY KeyStands, Zenon
<1> DEFINE pattern == Member(key, v)
<1> HIDE DEF pattern
<1>3. FindIn(json, pattern) = 0
  BY <1>1, <1>2, FindIs DEF pattern
<1> QED
  BY <1>3 DEF pattern

\* The value of a key found.
LEMMA QuoteOpens ==
    ASSUME NEW json, Len(json) \in Nat, NEW from \in 1 .. Len(json), json[from] = Quote
    PROVE  SelectInSubSeq(json, from, Len(json), LAMBDA c : c = Quote) = from
<1> DEFINE I == {i \in from .. Len(json) : json[i] = Quote}
<1>1. from \in I /\ I \in SUBSET Nat /\ \A i \in I : from <= i
  OBVIOUS
<1>2. SelectInSubSeq(json, from, Len(json), LAMBDA c : c = Quote) = IF I # {} THEN Min(I) ELSE 0
  BY Zenon DEF SelectInSubSeq
<1> HIDE DEF I
<1>3. Min(I) \in I /\ Min(I) <= from
  BY <1>1, SmallestOf
<1>4. Min(I) = from
  <2>1. Min(I) \in Nat /\ from <= Min(I)
    BY <1>1, <1>3
  <2> QED
    BY <1>3, <2>1
<1> QED
  BY <1>1, <1>2, <1>4, Zenon

LEMMA FieldStrIs ==
    ASSUME NEW S, IsAlphabet(S), NEW chars, Escapes(chars), NEW U \in SUBSET S, Control \notin U,
           NEW text \in Seq(U), NEW json \in Seq(S), NEW key, NEW i \in 1 .. Len(json),
           FindIn(json, Member(key, <<>>)) = i,
           StandsAt(json, i + 3, <<Quote>>),
           QuotedAt(json, i + 4, EscapeAll(text, chars))
    PROVE  FieldStr(json, key) = text
<1> DEFINE open == SelectInSubSeq(json, i + 4, Len(json), LAMBDA c : c = Quote)
<1>1. Len(json) \in Nat /\ i # 0 /\ i + 3 \in Nat /\ (i + 3) + 1 = i + 4 /\ i + 4 # 0
      /\ (i + 4) + 1 \in Nat \ {0} /\ (i + 4) + 1 - 1 = i + 4
  OBVIOUS
<1>2. i + 4 \in 1 .. Len(json) /\ json[i + 4] = Quote
  <2>1. (i + 3) + 1 \in 1 .. Len(json) /\ json[(i + 3) + 1] = Quote
    BY <1>1, StandsOne
  <2> QED
    BY <1>1, <2>1, Zenon
<1>3. open = i + 4
  BY <1>1, <1>2, QuoteOpens
<1>4. FieldStr(json, key) = IF i = 0 \/ open = 0 THEN <<>> ELSE ReadJsonString(json, open + 1)
  BY Zenon DEF FieldStr, Quote
<1>5. FieldStr(json, key) = ReadJsonString(json, (i + 4) + 1)
  BY <1>1, <1>3, <1>4, Zenon
<1> DEFINE from == (i + 4) + 1
<1>6. from \in Nat \ {0} /\ from - 1 = i + 4
  BY <1>1
<1> HIDE DEF from, open
<1>7. QuotedAt(json, from - 1, EscapeAll(text, chars))
  BY <1>6, Zenon
<1>8. ReadJsonString(json, from) = text
  BY <1>1, <1>6, <1>7, StringReadsBack
<1> QED
  BY <1>5, <1>8, Zenon DEF from

LEMMA FieldIntIs ==
    ASSUME NEW json, NEW key, NEW i \in Nat \ {0}, FindIn(json, Member(key, <<>>)) = i
    PROVE  FieldInt(json, key) = json[i + 4]
<1>1. i # 0
  OBVIOUS
<1> QED
  BY <1>1, Zenon DEF FieldInt

-----------------------------------------------------------------------------
(* What stands where in an object.                                         *)

LEMMA FlattenTwo ==
    ASSUME NEW S, NEW a \in Seq(S), NEW b \in Seq(S)
    PROVE  FlattenSeq(<<a, b>>) = a \o b /\ <<a, b>> \in Seq(Seq(S))
<1>1. <<a>> \in Seq(Seq(S)) /\ <<a, b>> = Append(<<a>>, b) /\ <<a, b>> \in Seq(Seq(S))
  OBVIOUS
<1>2. FlattenSeq(Append(<<a>>, b)) = FlattenSeq(<<a>>) \o b
  BY <1>1, FlattenLast
<1>3. FlattenSeq(<<a>>) = a
  BY FlattenOne
<1> QED
  BY <1>1, <1>2, <1>3, Zenon

Four(a, b, c, d) == <<a, b, c, d>>
Joined(a, b, c) == (a \o b) \o c
IsFour(s, a, b, c, d) == s = Joined(a, b, c) \o d
IsFourMembers(s, a, b, c, d) == s = (<<Opens>> \o (Joined(a, b, c) \o d)) \o <<Closes>>

LEMMA FlattenFour ==
    ASSUME NEW S, NEW a \in Seq(S), NEW b \in Seq(S), NEW c \in Seq(S), NEW d \in Seq(S)
    PROVE  IsFour(FlattenSeq(Four(a, b, c, d)), a, b, c, d)
<1>1. <<a, b>> \in Seq(Seq(S)) /\ FlattenSeq(<<a, b>>) = a \o b
  BY FlattenTwo, Zenon
<1>2. <<a, b, c>> \in Seq(Seq(S)) /\ <<a, b, c>> = Append(<<a, b>>, c)
      /\ Four(a, b, c, d) = Append(<<a, b, c>>, d)
  BY DEF Four
<1>3. FlattenSeq(Append(<<a, b>>, c)) = FlattenSeq(<<a, b>>) \o c
  BY <1>1, FlattenLast
<1>4. FlattenSeq(Append(<<a, b, c>>, d)) = FlattenSeq(<<a, b, c>>) \o d
  BY <1>2, FlattenLast
<1>5. FlattenSeq(<<a, b, c>>) = Joined(a, b, c)
  BY <1>1, <1>2, <1>3, Zenon DEF Joined
<1> QED
  BY <1>2, <1>4, <1>5, Zenon DEF IsFour

LEMMA TwoMembers ==
    ASSUME NEW S, {Opens, Closes, Comma} \subseteq S, NEW m1 \in Seq(S), NEW m2 \in Seq(S)
    PROVE  JsonObject(<<m1, m2>>) = (<<Opens>> \o (m1 \o (<<Comma>> \o m2))) \o <<Closes>>
<1> DEFINE ms == <<m1, m2>>
           c == <<Comma>>
           g == [i \in DOMAIN ms |-> (IF i = 1 THEN <<>> ELSE c) \o ms[i]]
<1>1. c \in Seq(S) /\ <<>> \o m1 = m1
  BY ConcatEmptySeq
<1>2. ms[1] = m1 /\ ms[2] = m2 /\ DOMAIN ms = 1 .. 2
  OBVIOUS
<1> HIDE DEF c, ms
<1>3. c \o m2 \in Seq(S)
  BY <1>1
<1>4. g = <<m1, c \o m2>>
  <2>1. g = [i \in 1 .. 2 |-> (IF i = 1 THEN <<>> ELSE c) \o ms[i]]
    BY <1>2, Zenon
  <2>2. \A x, y : (\A i \in 1 .. 2 : g[i] = IF i = 1 THEN x ELSE y) => g = <<x, y>>
    BY <2>1
  <2>3. \A i \in 1 .. 2 : i # 1 => i = 2
    OBVIOUS
  <2>4. \A i \in 1 .. 2 : g[i] = (IF i = 1 THEN <<>> ELSE c) \o ms[i]
    BY <2>1, Zenon
  <2>5. \A i \in 1 .. 2 : g[i] = IF i = 1 THEN m1 ELSE c \o m2
    BY <1>1, <1>2, <2>3, <2>4, Zenon
  <2> QED
    BY <2>2, <2>5, Zenon
<1> HIDE DEF g
<1>5. FlattenSeq(<<m1, c \o m2>>) = m1 \o (c \o m2)
  BY <1>3, FlattenTwo
<1>6. JsonObject(ms) = (<<Opens>> \o FlattenSeq(g)) \o <<Closes>>
  BY Zenon DEF JsonObject, Opens, Closes, Comma, c, g
<1> QED
  BY <1>4, <1>5, <1>6, Zenon DEF c, ms

LEMMA FourTuple ==
    ASSUME NEW g, NEW x, NEW y, NEW z, NEW w, g = [i \in 1 .. 4 |-> g[i]],
           g[1] = x, g[2] = y, g[3] = z, g[4] = w
    PROVE  g = Four(x, y, z, w)
<1> DEFINE t == <<x, y, z, w>>
<1>1. t = [i \in 1 .. 4 |-> t[i]]
  OBVIOUS
<1>2. t[1] = x /\ t[2] = y /\ t[3] = z /\ t[4] = w
  OBVIOUS
<1>3. \A i \in 1 .. 4 : i = 1 \/ i = 2 \/ i = 3 \/ i = 4
  OBVIOUS
<1> HIDE DEF t
<1>4. \A i \in 1 .. 4 : g[i] = t[i]
  BY <1>2, <1>3, Zenon
<1>5. g = t
  BY <1>1, <1>4, Zenon
<1> QED
  BY <1>5 DEF t, Four

LEMMA FourParts ==
    ASSUME NEW S, NEW a \in Seq(S), NEW b \in Seq(S), NEW c \in Seq(S), NEW d \in Seq(S),
           NEW g, g = [i \in 1 .. 4 |-> g[i]], g[1] = a, g[2] = b, g[3] = c, g[4] = d
    PROVE  IsFour(FlattenSeq(g), a, b, c, d)
<1>1. g = Four(a, b, c, d)
  BY FourTuple
<1>2. IsFour(FlattenSeq(Four(a, b, c, d)), a, b, c, d)
  BY FlattenFour, Zenon
<1> QED
  BY <1>1, <1>2, Zenon

LEMMA FourMembers ==
    ASSUME NEW S, NEW m1 \in Seq(S), NEW m2, NEW m3, NEW m4,
           NEW b2 \in Seq(S), NEW b3 \in Seq(S), NEW b4 \in Seq(S),
           b2 = <<Comma>> \o m2, b3 = <<Comma>> \o m3, b4 = <<Comma>> \o m4
    PROVE  IsFourMembers(JsonObject(Four(m1, m2, m3, m4)), m1, b2, b3, b4)
<1> DEFINE ms == Four(m1, m2, m3, m4)
           c == <<Comma>>
           g == [i \in DOMAIN ms |-> (IF i = 1 THEN <<>> ELSE c) \o ms[i]]
<1>1. <<>> \o m1 = m1
  BY ConcatEmptySeq
<1>2. ms[1] = m1 /\ ms[2] = m2 /\ ms[3] = m3 /\ ms[4] = m4 /\ DOMAIN ms = 1 .. 4
  BY DEF Four
<1>3. b2 = c \o m2 /\ b3 = c \o m3 /\ b4 = c \o m4
  BY Zenon
<1> HIDE DEF c, ms
<1>4. g = [i \in 1 .. 4 |-> (IF i = 1 THEN <<>> ELSE c) \o ms[i]]
  BY <1>2, Zenon
<1>5. g = [i \in 1 .. 4 |-> g[i]]
  BY <1>4, Zenon
<1>6. 1 \in 1 .. 4 /\ 2 \in 1 .. 4 /\ 3 \in 1 .. 4 /\ 4 \in 1 .. 4 /\ 2 # 1 /\ 3 # 1 /\ 4 # 1
  OBVIOUS
<1>7. \A i \in 1 .. 4 : g[i] = (IF i = 1 THEN <<>> ELSE c) \o ms[i]
  BY <1>4, Zenon
<1>8. g[1] = m1 /\ g[2] = b2 /\ g[3] = b3 /\ g[4] = b4
  BY <1>1, <1>2, <1>3, <1>6, <1>7, Zenon
<1>9. JsonObject(ms) = (<<Opens>> \o FlattenSeq(g)) \o <<Closes>>
  BY Zenon DEF JsonObject, Opens, Closes, Comma, c, g
<1> HIDE DEF g
<1>10. IsFour(FlattenSeq(g), m1, b2, b3, b4)
  BY <1>5, <1>8, FourParts, Zenon
<1> QED
  BY <1>9, <1>10, Zenon DEF ms, IsFour, IsFourMembers

Has(a, S, n) == a \in Seq(S) /\ Len(a) = n /\ n \in Nat

LEMMA HasOne ==
    ASSUME NEW S, NEW x \in S
    PROVE  Has(<<x>>, S, 1)
BY DEF Has

LEMMA HasJoined ==
    ASSUME NEW S, NEW a, NEW b, NEW m, NEW n, Has(a, S, m), Has(b, S, n)
    PROVE  Has(a \o b, S, m + n)
BY DEF Has

LEMMA StandsJoined ==
    ASSUME NEW S, NEW a, NEW b, NEW m, NEW n, Has(a, S, m), Has(b, S, n),
           NEW json, NEW p \in Nat, NEW q, q = p + m, StandsAt(json, p, a \o b)
    PROVE  StandsAt(json, p, a) /\ StandsAt(json, q, b)
<1>1. a \in Seq(S) /\ b \in Seq(S) /\ Len(a) = m
  BY Zenon DEF Has
<1>2. StandsAt(json, p, a) /\ StandsAt(json, p + Len(a), b)
  BY <1>1, StandsParts, Zenon
<1> QED
  BY <1>1, <1>2, Zenon

LEMMA QuotedStands ==
    ASSUME NEW S, Quote \in S, NEW e, NEW n \in Nat, Has(e, S, n)
    PROVE  /\ Has(Quoted(e), S, n + 2)
           /\ \A json : \A p \in Nat : StandsAt(json, p, Quoted(e)) =>
                 /\ StandsAt(json, p, <<Quote>>) /\ StandsAt(json, p + 1, e)
                 /\ StandsAt(json, p + 1 + n, <<Quote>>)
<1> DEFINE q == <<Quote>>
<1>1. Has(q, S, 1)
  BY HasOne, Zenon
<1>2. Quoted(e) = (q \o e) \o q
  BY Zenon DEF Quoted, Quote
<1> HIDE DEF q
<1>3. Has(q \o e, S, 1 + n)
  BY <1>1, HasJoined, Zenon
<1>4. Has((q \o e) \o q, S, (1 + n) + 1)
  BY <1>1, <1>3, HasJoined, Zenon
<1>5. (1 + n) + 1 = n + 2
  OBVIOUS
<1>6. ASSUME NEW json, NEW p \in Nat, StandsAt(json, p, (q \o e) \o q)
      PROVE  /\ StandsAt(json, p, q) /\ StandsAt(json, p + 1, e)
             /\ StandsAt(json, p + 1 + n, q)
  <2>1. StandsAt(json, p, q \o e) /\ StandsAt(json, p + (1 + n), q)
    BY <1>1, <1>3, <1>6, StandsJoined
  <2>2. StandsAt(json, p, q) /\ StandsAt(json, p + 1, e)
    BY <1>1, <2>1, StandsJoined
  <2>3. p + (1 + n) = p + 1 + n
    OBVIOUS
  <2> QED
    BY <2>1, <2>2, <2>3, Zenon
<1> QED
  BY <1>2, <1>4, <1>5, <1>6, Zenon DEF q

LEMMA MemberHas ==
    ASSUME NEW S, {Quote, Colon} \subseteq S, NEW key \in S, NEW v, NEW n, Has(v, S, n)
    PROVE  Has(Member(key, v), S, n + 4)
<1>1. Has(KeyMark(key), S, 4) /\ Member(key, v) = KeyMark(key) \o v
  <2>1. v \in Seq(S)
    BY Zenon DEF Has
  <2>2. /\ KeyMark(key) \in Seq(S) /\ Len(KeyMark(key)) = 4
        /\ Member(key, v) = KeyMark(key) \o v
    BY <2>1, MemberIs, Zenon
  <2>3. 4 \in Nat
    OBVIOUS
  <2> QED
    BY <2>2, <2>3, Zenon DEF Has
<1>2. Has(KeyMark(key) \o v, S, 4 + n)
  BY <1>1, HasJoined, Zenon
<1>3. n \in Nat
  BY Zenon DEF Has
<1>4. 4 + n = n + 4
  BY <1>3
<1> QED
  BY <1>1, <1>2, <1>4, Zenon

\* What JSON texts are written with.
HasMarks(S) ==
    {Quote, Backslash, Opens, Closes, Comma, Colon, KeyIndex, KeyContent, KeyType, KeyId,
     KeyAuthor, KeyText, WordComment} \subseteq S

\* An object of two members and one of four, in a JSON text.
LEMMA TwoMembersStand ==
    ASSUME NEW S, {Opens, Closes, Comma} \subseteq S, NEW m1, NEW m2, NEW n1 \in Nat, NEW n2 \in Nat,
           Has(m1, S, n1), Has(m2, S, n2), NEW json, json = JsonObject(<<m1, m2>>)
    PROVE  /\ Has(json, S, n1 + n2 + 3)
           /\ StandsAt(json, 0, <<Opens>>) /\ StandsAt(json, 1, m1)
           /\ StandsAt(json, 1 + n1, <<Comma>>) /\ StandsAt(json, 2 + n1, m2)
           /\ StandsAt(json, 2 + n1 + n2, <<Closes>>)
<1> DEFINE o == <<Opens>>
           c == <<Comma>>
           z == <<Closes>>
<1>1. Has(o, S, 1) /\ Has(c, S, 1) /\ Has(z, S, 1)
  BY HasOne, Zenon
<1>2. json = (o \o (m1 \o (c \o m2))) \o z
  <2>1. m1 \in Seq(S) /\ m2 \in Seq(S)
    BY Zenon DEF Has
  <2> QED
    BY <2>1, TwoMembers, Zenon
<1> HIDE DEF o, c, z
<1>3. Has(c \o m2, S, 1 + n2)
  BY <1>1, HasJoined, Zenon
<1>4. Has(m1 \o (c \o m2), S, n1 + (1 + n2))
  BY <1>3, HasJoined, Zenon
<1>5. Has(o \o (m1 \o (c \o m2)), S, 1 + (n1 + (1 + n2)))
  BY <1>1, <1>4, HasJoined, Zenon
<1>6. Has(json, S, (1 + (n1 + (1 + n2))) + 1)
  BY <1>1, <1>2, <1>5, HasJoined, Zenon
<1>7. StandsAt(json, 0, json)
  <2>1. json \in Seq(S)
    BY <1>6, Zenon DEF Has
  <2> QED
    BY <2>1, StandsWhole
<1>8. (1 + (n1 + (1 + n2))) + 1 = n1 + n2 + 3
  OBVIOUS
<1>9. StandsAt(json, 0, o \o (m1 \o (c \o m2))) /\ StandsAt(json, 2 + n1 + n2, z)
  <2>1. 0 \in Nat /\ 2 + n1 + n2 = 0 + (1 + (n1 + (1 + n2)))
    OBVIOUS
  <2>2. StandsAt(json, 0, (o \o (m1 \o (c \o m2))) \o z)
    BY <1>2, <1>7, Zenon
  <2> QED
    BY <1>1, <1>5, <2>1, <2>2, StandsJoined
<1>10. StandsAt(json, 0, o) /\ StandsAt(json, 1, m1 \o (c \o m2))
  <2>1. 0 \in Nat /\ 1 = 0 + 1
    OBVIOUS
  <2> QED
    BY <1>1, <1>4, <1>9, <2>1, StandsJoined
<1>11. StandsAt(json, 1, m1) /\ StandsAt(json, 1 + n1, c \o m2)
  <2>1. 1 \in Nat
    OBVIOUS
  <2> QED
    BY <1>3, <1>10, <2>1, StandsJoined
<1>12. StandsAt(json, 1 + n1, c) /\ StandsAt(json, 2 + n1, m2)
  <2>1. 1 + n1 \in Nat /\ 2 + n1 = (1 + n1) + 1
    OBVIOUS
  <2> QED
    BY <1>1, <1>11, <2>1, StandsJoined
<1> QED
  BY <1>6, <1>8, <1>9, <1>10, <1>11, <1>12, Zenon DEF o, c, z

\* An object's text of the members m1 to m4, of n1 to n4 characters.
FourStand(json, S, m1, n1, m2, n2, m3, n3, m4, n4) ==
    /\ Has(json, S, n1 + n2 + n3 + n4 + 5)
    /\ StandsAt(json, 0, <<Opens>>) /\ StandsAt(json, 1, m1)
    /\ StandsAt(json, 1 + n1, <<Comma>>) /\ StandsAt(json, 2 + n1, m2)
    /\ StandsAt(json, 2 + n1 + n2, <<Comma>>) /\ StandsAt(json, 3 + n1 + n2, m3)
    /\ StandsAt(json, 3 + n1 + n2 + n3, <<Comma>>)
    /\ StandsAt(json, 4 + n1 + n2 + n3, m4)
    /\ StandsAt(json, 4 + n1 + n2 + n3 + n4, <<Closes>>)

LEMMA FourMembersStand ==
    ASSUME NEW S, {Opens, Closes, Comma} \subseteq S, NEW m1, NEW m2, NEW m3, NEW m4,
           NEW n1 \in Nat, NEW n2 \in Nat, NEW n3 \in Nat, NEW n4 \in Nat,
           Has(m1, S, n1), Has(m2, S, n2), Has(m3, S, n3), Has(m4, S, n4),
           NEW json, json = JsonObject(Four(m1, m2, m3, m4))
    PROVE  FourStand(json, S, m1, n1, m2, n2, m3, n3, m4, n4)
<1> DEFINE o == <<Opens>>
           c == <<Comma>>
           z == <<Closes>>
<1>1. Has(o, S, 1) /\ Has(c, S, 1) /\ Has(z, S, 1)
  BY HasOne, Zenon
<1> DEFINE b2 == c \o m2
           b3 == c \o m3
           b4 == c \o m4
<1> HIDE DEF o, c, z
<1>3. Has(b2, S, 1 + n2) /\ Has(b3, S, 1 + n3) /\ Has(b4, S, 1 + n4)
  BY <1>1, HasJoined, Zenon
<1>2. json = (o \o (Joined(m1, b2, b3) \o b4)) \o z
  <2>1. b2 = <<Comma>> \o m2 /\ b3 = <<Comma>> \o m3 /\ b4 = <<Comma>> \o m4
    BY Zenon DEF c, b2, b3, b4
  <2> HIDE DEF b2, b3, b4
  <2>2. m1 \in Seq(S) /\ b2 \in Seq(S) /\ b3 \in Seq(S) /\ b4 \in Seq(S)
    BY <1>3, Zenon DEF Has
  <2>3. IsFourMembers(JsonObject(Four(m1, m2, m3, m4)), m1, b2, b3, b4)
    BY <2>1, <2>2, FourMembers, Zenon
  <2> QED
    BY <2>3, Zenon DEF o, z, IsFourMembers
<1>4. Has(m1 \o b2, S, n1 + (1 + n2))
  BY <1>3, HasJoined, Zenon
<1>5. Has(Joined(m1, b2, b3), S, (n1 + (1 + n2)) + (1 + n3))
  BY <1>3, <1>4, HasJoined, Zenon DEF Joined
<1> DEFINE r3 == Joined(m1, b2, b3)
           l3 == (n1 + (1 + n2)) + (1 + n3)
           r4 == r3 \o b4
           l4 == l3 + (1 + n4)
<1>6. Has(r4, S, l4)
  BY <1>3, <1>5, HasJoined, Zenon
<1>7. Has(o \o r4, S, 1 + l4)
  BY <1>1, <1>6, HasJoined, Zenon
<1>8. Has(json, S, (1 + l4) + 1)
  BY <1>1, <1>2, <1>7, HasJoined, Zenon
<1>9. StandsAt(json, 0, json)
  <2>1. json \in Seq(S)
    BY <1>8, Zenon DEF Has
  <2> QED
    BY <2>1, StandsWhole
<1>10. (1 + l4) + 1 = n1 + n2 + n3 + n4 + 5
  OBVIOUS
<1>11. StandsAt(json, 0, o \o r4) /\ StandsAt(json, 4 + n1 + n2 + n3 + n4, z)
  <2>1. 0 \in Nat /\ 4 + n1 + n2 + n3 + n4 = 0 + (1 + l4)
    OBVIOUS
  <2>2. StandsAt(json, 0, (o \o r4) \o z)
    BY <1>2, <1>9, Zenon
  <2> QED
    BY <1>1, <1>7, <2>1, <2>2, StandsJoined
<1>12. StandsAt(json, 0, o) /\ StandsAt(json, 1, r4)
  <2>1. 0 \in Nat /\ 1 = 0 + 1
    OBVIOUS
  <2> QED
    BY <1>1, <1>6, <1>11, <2>1, StandsJoined
<1>13. StandsAt(json, 1, r3) /\ StandsAt(json, 3 + n1 + n2 + n3, b4)
  <2>1. 1 \in Nat /\ 3 + n1 + n2 + n3 = 1 + l3
    OBVIOUS
  <2> QED
    BY <1>3, <1>5, <1>12, <2>1, StandsJoined
<1>14. StandsAt(json, 3 + n1 + n2 + n3, c) /\ StandsAt(json, 4 + n1 + n2 + n3, m4)
  <2>1. 3 + n1 + n2 + n3 \in Nat /\ 4 + n1 + n2 + n3 = (3 + n1 + n2 + n3) + 1
    OBVIOUS
  <2> QED
    BY <1>1, <1>13, <2>1, StandsJoined
<1>15. StandsAt(json, 1, m1 \o b2) /\ StandsAt(json, 2 + n1 + n2, b3)
  <2>1. 1 \in Nat /\ 2 + n1 + n2 = 1 + (n1 + (1 + n2))
    OBVIOUS
  <2>2. StandsAt(json, 1, (m1 \o b2) \o b3)
    BY <1>13, Zenon DEF Joined
  <2> QED
    BY <1>3, <1>4, <2>1, <2>2, StandsJoined
<1>16. StandsAt(json, 2 + n1 + n2, c) /\ StandsAt(json, 3 + n1 + n2, m3)
  <2>1. 2 + n1 + n2 \in Nat /\ 3 + n1 + n2 = (2 + n1 + n2) + 1
    OBVIOUS
  <2> QED
    BY <1>1, <1>15, <2>1, StandsJoined
<1>17. StandsAt(json, 1, m1) /\ StandsAt(json, 1 + n1, b2)
  <2>1. 1 \in Nat
    OBVIOUS
  <2> QED
    BY <1>3, <1>15, <2>1, StandsJoined
<1>18. StandsAt(json, 1 + n1, c) /\ StandsAt(json, 2 + n1, m2)
  <2>1. 1 + n1 \in Nat /\ 2 + n1 = (1 + n1) + 1
    OBVIOUS
  <2> QED
    BY <1>1, <1>17, <2>1, StandsJoined
<1> QED
  BY <1>8, <1>10, <1>11, <1>12, <1>14, <1>16, <1>17, <1>18, Zenon DEF o, c, z, FourStand

-----------------------------------------------------------------------------
(* The texts of a paragraph and of a comment, place by place.              *)

LEMMA MemberStands ==
    ASSUME NEW S, {Quote, Colon} \subseteq S, NEW key \in S, NEW v, NEW n, Has(v, S, n),
           NEW json, NEW p \in Nat, StandsAt(json, p, Member(key, v)),
           NEW q, q = p + 1, NEW r, r = p + 4
    PROVE  KeyAt(json, q, key) /\ StandsAt(json, r, v)
<1> DEFINE m == KeyMark(key)
<1>1. Has(m, S, 4) /\ Member(key, v) = m \o v
  <2>1. v \in Seq(S)
    BY Zenon DEF Has
  <2>2. m \in Seq(S) /\ Len(m) = 4 /\ Member(key, v) = m \o v
    BY <2>1, MemberIs, Zenon
  <2>3. 4 \in Nat
    OBVIOUS
  <2> QED
    BY <2>2, <2>3, Zenon DEF Has
<1> HIDE DEF m
<1>2. StandsAt(json, p, m) /\ StandsAt(json, r, v)
  BY <1>1, StandsJoined
<1>3. KeyAt(json, q, key)
  <2>1. /\ p + 1 \in 1 .. Len(json) /\ json[p + 1] = Quote /\ json[p + 2] = key
        /\ json[p + 3] = Quote /\ p + 4 \in 1 .. Len(json) /\ json[p + 4] = Colon
    BY <1>2, StandsFour, Zenon DEF KeyMark, m
  <2>2. q + 1 = p + 2 /\ q + 2 = p + 3 /\ q + 3 = p + 4
    OBVIOUS
  <2> QED
    BY <2>1, <2>2, Zenon DEF KeyAt
<1> QED
  BY <1>2, <1>3, Zenon

\* What stands at a place as the only one.
LEMMA StandsThere ==
    ASSUME NEW json, NEW p \in Nat, NEW x, StandsAt(json, p, <<x>>), NEW q, q = p + 1
    PROVE  json[q] = x
BY StandsOne

IsParagraph(json, n, e, a) ==
    /\ Len(json) = 14 + a
    /\ json[1] = Opens /\ KeyAt(json, 2, KeyIndex) /\ json[6] = n /\ json[7] = Comma
    /\ KeyAt(json, 8, KeyContent) /\ StandsAt(json, 11, <<Quote>>) /\ json[12] = Quote
    /\ StandsAt(json, 12, e) /\ StandsAt(json, 12 + a, <<Quote>>)
    /\ json[13 + a] = Quote /\ json[14 + a] = Closes

LEMMA ParagraphShape ==
    ASSUME NEW S, HasMarks(S), NEW n \in S, NEW e, NEW a \in Nat, Has(e, S, a)
    PROVE  ParagraphJson(n, e) \in Seq(S) /\ IsParagraph(ParagraphJson(n, e), n, e, a)
<1> DEFINE v1 == <<n>>
           v2 == Quoted(e)
           m1 == Member(KeyIndex, v1)
           m2 == Member(KeyContent, v2)
           json == JsonObject(<<m1, m2>>)
<1>1. ParagraphJson(n, e) = json
  BY Zenon DEF ParagraphJson, KeyIndex, KeyContent
<1>2. /\ {Quote, Colon} \subseteq S /\ {Opens, Closes, Comma} \subseteq S /\ Quote \in S
      /\ KeyIndex \in S /\ KeyContent \in S
  BY Zenon DEF HasMarks
<1>3. Has(v1, S, 1) /\ Has(v2, S, a + 2)
  BY <1>2, HasOne, QuotedStands, Zenon
<1>4. /\ a + 2 \in Nat /\ 1 + 4 = 5 /\ (a + 2) + 4 = a + 6 /\ 5 \in Nat /\ a + 6 \in Nat
      /\ 5 + (a + 6) + 3 = 14 + a /\ 2 + 5 = 7 /\ 1 + 5 = 6 /\ 2 + 5 + (a + 6) = 13 + a
      /\ 13 + a \in Nat /\ (13 + a) + 1 = 14 + a /\ 12 + a \in Nat /\ (12 + a) + 1 = 13 + a
      /\ 11 + 1 + a = 12 + a /\ 11 + 1 = 12 /\ 0 + 1 = 1 /\ 1 + 1 = 2 /\ 1 + 4 = 5 /\ 5 + 1 = 6
      /\ 6 + 1 = 7 /\ 7 + 1 = 8 /\ 7 + 4 = 11
      /\ 0 \in Nat /\ 1 \in Nat /\ 6 \in Nat /\ 7 \in Nat /\ 11 \in Nat
  OBVIOUS
<1>5. Has(m1, S, 5) /\ Has(m2, S, a + 6)
  <2>1. Has(m1, S, 1 + 4) /\ Has(m2, S, (a + 2) + 4)
    BY <1>2, <1>3, MemberHas, Zenon
  <2> QED
    BY <1>4, <2>1, Zenon
<1> HIDE DEF m1, m2, json, v1, v2
<1>6. /\ Has(json, S, 14 + a)
      /\ StandsAt(json, 0, <<Opens>>) /\ StandsAt(json, 1, m1)
      /\ StandsAt(json, 6, <<Comma>>) /\ StandsAt(json, 7, m2)
      /\ StandsAt(json, 13 + a, <<Closes>>)
  <2>1. /\ Has(json, S, 5 + (a + 6) + 3)
        /\ StandsAt(json, 0, <<Opens>>) /\ StandsAt(json, 1, m1)
        /\ StandsAt(json, 1 + 5, <<Comma>>) /\ StandsAt(json, 2 + 5, m2)
        /\ StandsAt(json, 2 + 5 + (a + 6), <<Closes>>)
    BY <1>2, <1>4, <1>5, TwoMembersStand, Zenon DEF json
  <2> QED
    BY <1>4, <2>1, Zenon
<1>7. json[1] = Opens /\ json[7] = Comma /\ json[14 + a] = Closes
  BY <1>4, <1>6, StandsThere
<1>8. KeyAt(json, 2, KeyIndex) /\ StandsAt(json, 5, v1)
  BY <1>2, <1>3, <1>4, <1>6, MemberStands, Zenon DEF m1
<1>9. KeyAt(json, 8, KeyContent) /\ StandsAt(json, 11, v2)
  BY <1>2, <1>3, <1>4, <1>6, MemberStands, Zenon DEF m2
<1>10. json[6] = n
  BY <1>4, <1>8, StandsThere DEF v1
<1>11. /\ StandsAt(json, 11, <<Quote>>) /\ StandsAt(json, 12, e)
       /\ StandsAt(json, 12 + a, <<Quote>>)
  <2>1. /\ StandsAt(json, 11, <<Quote>>) /\ StandsAt(json, 11 + 1, e)
        /\ StandsAt(json, 11 + 1 + a, <<Quote>>)
    BY <1>2, <1>4, <1>9, QuotedStands, Zenon DEF v2
  <2> QED
    BY <1>4, <2>1, Zenon
<1>12. json[12] = Quote /\ json[13 + a] = Quote
  BY <1>4, <1>11, StandsThere
<1> QED
  BY <1>1, <1>6, <1>7, <1>8, <1>9, <1>10, <1>11, <1>12, Zenon DEF IsParagraph, Has

\* A comment's JSON: its id, and the escaped author and text.
IsCommentOf(json, id, e, a, f, t) ==
    /\ Len(json) = 29 + a + t
    /\ json[1] = Opens /\ KeyAt(json, 2, KeyType) /\ json[6] = Quote /\ json[7] = WordComment
    /\ StandsAt(json, 1, Member(KeyType, Quoted(<<WordComment>>)))
    /\ json[8] = Quote /\ json[9] = Comma
    /\ KeyAt(json, 10, KeyId) /\ json[14] = id /\ json[15] = Comma
    /\ KeyAt(json, 16, KeyAuthor) /\ StandsAt(json, 19, <<Quote>>) /\ json[20] = Quote
    /\ StandsAt(json, 20, e) /\ StandsAt(json, 20 + a, <<Quote>>)
    /\ json[21 + a] = Quote /\ json[22 + a] = Comma
    /\ KeyAt(json, 23 + a, KeyText) /\ StandsAt(json, 26 + a, <<Quote>>) /\ json[27 + a] = Quote
    /\ StandsAt(json, 27 + a, f) /\ StandsAt(json, 27 + a + t, <<Quote>>)
    /\ json[28 + a + t] = Quote /\ json[29 + a + t] = Closes

LEMMA CommentShape ==
    ASSUME NEW S, HasMarks(S), NEW id \in S, NEW e, NEW a \in Nat, Has(e, S, a),
           NEW f, NEW t \in Nat, Has(f, S, t)
    PROVE  CommentJson(id, e, f) \in Seq(S) /\ IsCommentOf(CommentJson(id, e, f), id, e, a, f, t)
<1> DEFINE w == <<WordComment>>
           v1 == Quoted(w)
           v2 == <<id>>
           v3 == Quoted(e)
           v4 == Quoted(f)
           m1 == Member(KeyType, v1)
           m2 == Member(KeyId, v2)
           m3 == Member(KeyAuthor, v3)
           m4 == Member(KeyText, v4)
           json == JsonObject(Four(m1, m2, m3, m4))
<1>1. CommentJson(id, e, f) = json
  BY Zenon DEF CommentJson, KeyType, KeyId, KeyAuthor, KeyText, WordComment, Four
<1>2. /\ {Quote, Colon} \subseteq S /\ {Opens, Closes, Comma} \subseteq S /\ Quote \in S
      /\ KeyType \in S /\ KeyId \in S /\ KeyAuthor \in S /\ KeyText \in S /\ WordComment \in S
  BY Zenon DEF HasMarks
<1>3. 1 \in Nat /\ 1 + 2 = 3
  OBVIOUS
<1>4. Has(w, S, 1) /\ Has(v2, S, 1)
  BY <1>2, HasOne, Zenon
<1>5. Has(v1, S, 3) /\ Has(v3, S, a + 2) /\ Has(v4, S, t + 2)
  <2>1. Has(v1, S, 1 + 2) /\ Has(v3, S, a + 2) /\ Has(v4, S, t + 2)
    BY <1>2, <1>3, <1>4, QuotedStands, Zenon
  <2> QED
    BY <1>3, <2>1, Zenon
<1>6. Has(m1, S, 7) /\ Has(m2, S, 5) /\ Has(m3, S, a + 6) /\ Has(m4, S, t + 6)
  <2>1. Has(m1, S, 3 + 4) /\ Has(m2, S, 1 + 4) /\ Has(m3, S, (a + 2) + 4) /\ Has(m4, S, (t + 2) + 4)
    BY <1>2, <1>4, <1>5, MemberHas, Zenon
  <2>2. 3 + 4 = 7 /\ 1 + 4 = 5 /\ (a + 2) + 4 = a + 6 /\ (t + 2) + 4 = t + 6
    OBVIOUS
  <2> QED
    BY <2>1, <2>2, Zenon
<1> HIDE DEF m1, m2, m3, m4, json, v1, v2, v3, v4, w
<1>7. /\ Has(json, S, 29 + a + t)
      /\ StandsAt(json, 0, <<Opens>>) /\ StandsAt(json, 1, m1)
      /\ StandsAt(json, 8, <<Comma>>) /\ StandsAt(json, 9, m2)
      /\ StandsAt(json, 14, <<Comma>>) /\ StandsAt(json, 15, m3)
      /\ StandsAt(json, 21 + a, <<Comma>>) /\ StandsAt(json, 22 + a, m4)
      /\ StandsAt(json, 28 + a + t, <<Closes>>)
  <2>1. 7 \in Nat /\ 5 \in Nat /\ a + 6 \in Nat /\ t + 6 \in Nat
    OBVIOUS
  <2>2. /\ Has(json, S, 7 + 5 + (a + 6) + (t + 6) + 5)
        /\ StandsAt(json, 0, <<Opens>>) /\ StandsAt(json, 1, m1)
        /\ StandsAt(json, 1 + 7, <<Comma>>) /\ StandsAt(json, 2 + 7, m2)
        /\ StandsAt(json, 2 + 7 + 5, <<Comma>>) /\ StandsAt(json, 3 + 7 + 5, m3)
        /\ StandsAt(json, 3 + 7 + 5 + (a + 6), <<Comma>>)
        /\ StandsAt(json, 4 + 7 + 5 + (a + 6), m4)
        /\ StandsAt(json, 4 + 7 + 5 + (a + 6) + (t + 6), <<Closes>>)
    <3>1. FourStand(json, S, m1, 7, m2, 5, m3, a + 6, m4, t + 6)
      BY <1>2, <1>6, <2>1, FourMembersStand, Zenon DEF json
    <3> QED
      BY <3>1, Zenon DEF FourStand
  <2>3. /\ 7 + 5 + (a + 6) + (t + 6) + 5 = 29 + a + t /\ 1 + 7 = 8 /\ 2 + 7 = 9 /\ 2 + 7 + 5 = 14
        /\ 3 + 7 + 5 = 15 /\ 3 + 7 + 5 + (a + 6) = 21 + a /\ 4 + 7 + 5 + (a + 6) = 22 + a
        /\ 4 + 7 + 5 + (a + 6) + (t + 6) = 28 + a + t
    OBVIOUS
  <2> QED
    BY <2>2, <2>3, Zenon
<1>8. json[1] = Opens /\ json[9] = Comma /\ json[15] = Comma
  <2>1. 0 \in Nat /\ 8 \in Nat /\ 14 \in Nat /\ 1 = 0 + 1 /\ 9 = 8 + 1 /\ 15 = 14 + 1
    OBVIOUS
  <2> QED
    BY <1>7, <2>1, StandsThere
<1>9. json[22 + a] = Comma /\ json[29 + a + t] = Closes
  <2>1. /\ 21 + a \in Nat /\ 28 + a + t \in Nat /\ 22 + a = (21 + a) + 1
        /\ 29 + a + t = (28 + a + t) + 1
    OBVIOUS
  <2> QED
    BY <1>7, <2>1, StandsThere
<1>10. KeyAt(json, 2, KeyType) /\ StandsAt(json, 5, v1)
  <2>1. 1 \in Nat /\ 2 = 1 + 1 /\ 5 = 1 + 4
    OBVIOUS
  <2> QED
    BY <1>2, <1>5, <1>7, <2>1, MemberStands, Zenon DEF m1
<1>11. KeyAt(json, 10, KeyId) /\ StandsAt(json, 13, v2)
  <2>1. 9 \in Nat /\ 10 = 9 + 1 /\ 13 = 9 + 4
    OBVIOUS
  <2> QED
    BY <1>2, <1>4, <1>7, <2>1, MemberStands, Zenon DEF m2
<1>12. KeyAt(json, 16, KeyAuthor) /\ StandsAt(json, 19, v3)
  <2>1. 15 \in Nat /\ 16 = 15 + 1 /\ 19 = 15 + 4
    OBVIOUS
  <2> QED
    BY <1>2, <1>5, <1>7, <2>1, MemberStands, Zenon DEF m3
<1>13. KeyAt(json, 23 + a, KeyText) /\ StandsAt(json, 26 + a, v4)
  <2>1. 22 + a \in Nat /\ 23 + a = (22 + a) + 1 /\ 26 + a = (22 + a) + 4
    OBVIOUS
  <2> QED
    BY <1>2, <1>5, <1>7, <2>1, MemberStands, Zenon DEF m4
<1>14. json[6] = Quote /\ json[7] = WordComment /\ json[8] = Quote
  <2>1. 5 \in Nat /\ 6 \in Nat /\ 7 \in Nat /\ 6 = 5 + 1 /\ 7 = 6 + 1 /\ 8 = 7 + 1 /\ 5 + 1 + 1 = 7
    OBVIOUS
  <2>2. StandsAt(json, 5, <<Quote>>) /\ StandsAt(json, 5 + 1, w) /\ StandsAt(json, 5 + 1 + 1, <<Quote>>)
    BY <1>2, <1>3, <1>4, <1>10, <2>1, QuotedStands, Zenon DEF v1
  <2>3. StandsAt(json, 6, <<WordComment>>) /\ StandsAt(json, 7, <<Quote>>)
    BY <2>1, <2>2, Zenon DEF w
  <2> QED
    BY <2>1, <2>2, <2>3, StandsThere
<1>15. json[14] = id
  <2>1. 13 \in Nat /\ 14 = 13 + 1
    OBVIOUS
  <2> QED
    BY <1>11, <2>1, StandsThere DEF v2
<1>16. /\ StandsAt(json, 19, <<Quote>>) /\ StandsAt(json, 20, e) /\ StandsAt(json, 20 + a, <<Quote>>)
       /\ json[20] = Quote /\ json[21 + a] = Quote
  <2>1. 19 \in Nat /\ 19 + 1 = 20 /\ 20 + a \in Nat /\ 21 + a = (20 + a) + 1
    OBVIOUS
  <2>2. StandsAt(json, 19, <<Quote>>) /\ StandsAt(json, 19 + 1, e) /\ StandsAt(json, 19 + 1 + a, <<Quote>>)
    BY <1>2, <1>12, <2>1, QuotedStands, Zenon DEF v3
  <2>3. StandsAt(json, 20, e) /\ StandsAt(json, 20 + a, <<Quote>>)
    BY <2>1, <2>2, Zenon
  <2> QED
    BY <2>1, <2>2, <2>3, StandsThere
<1>17. /\ StandsAt(json, 26 + a, <<Quote>>) /\ StandsAt(json, 27 + a, f)
       /\ StandsAt(json, 27 + a + t, <<Quote>>)
       /\ json[27 + a] = Quote /\ json[28 + a + t] = Quote
  <2>1. /\ 26 + a \in Nat /\ (26 + a) + 1 = 27 + a /\ 27 + a = (26 + a) + 1
        /\ 27 + a + t \in Nat /\ 28 + a + t = (27 + a + t) + 1
    OBVIOUS
  <2>2. /\ StandsAt(json, 26 + a, <<Quote>>) /\ StandsAt(json, (26 + a) + 1, f)
        /\ StandsAt(json, (26 + a) + 1 + t, <<Quote>>)
    BY <1>2, <1>13, <2>1, QuotedStands, Zenon DEF v4
  <2>3. StandsAt(json, 27 + a, f) /\ StandsAt(json, 27 + a + t, <<Quote>>)
    BY <2>1, <2>2, Zenon
  <2> QED
    BY <2>1, <2>2, <2>3, StandsThere
<1>18. StandsAt(json, 1, Member(KeyType, Quoted(<<WordComment>>)))
  BY <1>7, Zenon DEF m1, v1, w
<1>19. json \in Seq(S) /\ Len(json) = 29 + a + t
  BY <1>7, Zenon DEF Has
<1> QED
  BY <1>1, <1>8, <1>9, <1>10, <1>11, <1>12, <1>13, <1>14, <1>15, <1>16, <1>17, <1>18, <1>19, Zenon
     DEF IsCommentOf

-----------------------------------------------------------------------------
(* No key is found but where it was written.                               *)

Keys == {KeyIndex, KeyContent, KeyType, KeyId, KeyAuthor, KeyText}

LEMMA MarksDiffer ==
    /\ \A key \in Keys : key \notin {Quote, Backslash, Comma, Colon, WordComment}
    /\ Quote \notin {Backslash, Opens, Closes, Comma, Colon, WordComment}
    /\ Colon \notin {Closes, Comma, Quote}
    /\ KeyIndex \notin {KeyContent, KeyType}
    /\ KeyContent # KeyType
    /\ KeyType \notin {KeyId, KeyAuthor, KeyText}
    /\ KeyId \notin {KeyAuthor, KeyText} /\ KeyAuthor # KeyText
    /\ {KeyIndex, KeyContent, KeyType, KeyId, KeyAuthor, KeyText} \subseteq Keys
<1>1. \A key \in Keys : key \notin {Quote, Backslash, Comma, Colon, WordComment}
  <2>1. KeyIndex \notin {Quote, Backslash, Comma, Colon, WordComment}
    BY Zenon DEF KeyIndex, Quote, Backslash, Comma, Colon, WordComment
  <2>2. KeyContent \notin {Quote, Backslash, Comma, Colon, WordComment}
    BY Zenon DEF KeyContent, Quote, Backslash, Comma, Colon, WordComment
  <2>3. KeyType \notin {Quote, Backslash, Comma, Colon, WordComment}
    BY Zenon DEF KeyType, Quote, Backslash, Comma, Colon, WordComment
  <2>4. KeyId \notin {Quote, Backslash, Comma, Colon, WordComment}
    BY Zenon DEF KeyId, Quote, Backslash, Comma, Colon, WordComment
  <2>5. KeyAuthor \notin {Quote, Backslash, Comma, Colon, WordComment}
    BY Zenon DEF KeyAuthor, Quote, Backslash, Comma, Colon, WordComment
  <2>6. KeyText \notin {Quote, Backslash, Comma, Colon, WordComment}
    BY Zenon DEF KeyText, Quote, Backslash, Comma, Colon, WordComment
  <2> QED
    BY <2>1, <2>2, <2>3, <2>4, <2>5, <2>6, Zenon DEF Keys
<1>2. Quote \notin {Backslash, Opens, Closes, Comma, Colon, WordComment}
  BY Zenon DEF Quote, Backslash, Opens, Closes, Comma, Colon, WordComment
<1>3. Colon \notin {Closes, Comma, Quote}
  BY Zenon DEF Colon, Closes, Comma, Quote
<1>4. /\ KeyIndex \notin {KeyContent, KeyType}
      /\ KeyContent # KeyType
      /\ KeyType \notin {KeyId, KeyAuthor, KeyText}
      /\ KeyId \notin {KeyAuthor, KeyText} /\ KeyAuthor # KeyText
  BY Zenon DEF KeyIndex, KeyContent, KeyType, KeyId, KeyAuthor, KeyText
<1> QED
  BY <1>1, <1>2, <1>3, <1>4, Zenon DEF Keys

\* A quote inside an escaped text ends no key.
LEMMA NoKeyEndsInText ==
    ASSUME NEW json, NEW p \in Nat, NEW e, NEW a \in Nat, Len(e) = a, QuotesHidden(e),
           StandsAt(json, p, e),
           NEW i \in Int, NEW key, key # Backslash, json[i + 1] = key, json[i + 2] = Quote,
           p < i + 2, i + 2 <= p + a
    PROVE  FALSE
<1> DEFINE k == i + 2 - p
<1>1. k \in 1 .. Len(e) /\ p + k = i + 2
  OBVIOUS
<1> HIDE DEF k
<1>2. e[k] = Quote
  BY <1>1, Zenon DEF StandsAt
<1>3. k - 1 \in 1 .. Len(e) /\ e[k - 1] = Backslash
  BY <1>1, <1>2, Zenon DEF QuotesHidden
<1>4. p + (k - 1) = i + 1
  BY <1>1
<1>5. json[i + 1] = Backslash
  BY <1>3, <1>4, Zenon DEF StandsAt
<1> QED
  BY <1>5, Zenon

LEMMA ParagraphKeys ==
    ASSUME NEW json, NEW n, n # Quote, NEW e, NEW a \in Nat, Len(e) = a, QuotesHidden(e),
           IsParagraph(json, n, e, a)
    PROVE  \A i, key : KeyAt(json, i, key) /\ key \in Keys =>
              \/ i = 2 /\ key = KeyIndex
              \/ i = 8 /\ key = KeyContent
<1> SUFFICES ASSUME NEW i, NEW key \in Keys, KeyAt(json, i, key)
             PROVE  \/ i = 2 /\ key = KeyIndex
                    \/ i = 8 /\ key = KeyContent
  OBVIOUS
<1>1. key \notin {Quote, Backslash, Comma, Colon, WordComment}
      /\ Quote \notin {Closes, Comma, Colon, Opens} /\ Colon \notin {Closes, Comma, Quote}
      /\ \A x \in Keys : x # Quote /\ x # Colon
  BY MarksDiffer, Zenon
<1>2. /\ i \in 1 .. 14 + a /\ i + 3 \in 1 .. 14 + a
      /\ json[i] = Quote /\ json[i + 1] = key /\ json[i + 2] = Quote /\ json[i + 3] = Colon
  BY Zenon DEF IsParagraph, KeyAt
<1>3. /\ json[3] = KeyIndex /\ json[5] = Colon /\ json[6] = n /\ json[7] = Comma
      /\ json[9] = KeyContent /\ json[11] = Colon
      /\ json[14 + a] = Closes
  BY DEF IsParagraph, KeyAt
<1>4. ~(12 < i + 2 /\ i + 2 <= 12 + a)
  <2>1. StandsAt(json, 12, e) /\ 12 \in Nat /\ i \in Int
    BY <1>2 DEF IsParagraph
  <2> QED
    BY <1>1, <1>2, <2>1, NoKeyEndsInText
<1>5. i + 3 # 14 + a /\ i + 2 # 14 + a
  BY <1>1, <1>2, <1>3
<1>6. i \in 1 .. 10
  BY <1>2, <1>4, <1>5
<1>7. KeyIndex \in Keys /\ KeyContent \in Keys
  BY MarksDiffer, Zenon
<1>8. i # 1 /\ i # 3 /\ i # 4 /\ i # 5 /\ i # 6 /\ i # 7 /\ i # 9 /\ i # 10
  <2>1. 1 + 2 = 3 /\ 4 + 1 = 5 /\ 10 + 1 = 11
    OBVIOUS
  <2>2. i # 1 /\ i # 3 /\ i # 7 /\ i # 9
    BY <1>1, <1>2, <1>3, <1>7, <2>1, Zenon
  <2>3. i # 4 /\ i # 5 /\ i # 6 /\ i # 10
    BY <1>1, <1>2, <1>3, <2>1, Zenon
  <2> QED
    BY <2>2, <2>3, Zenon
<1>9. i = 2 \/ i = 8
  BY <1>6, <1>8
<1>10. (i = 2 => key = KeyIndex) /\ (i = 8 => key = KeyContent)
  BY <1>2, <1>3
<1> QED
  BY <1>9, <1>10, Zenon

LEMMA CommentKeys ==
    ASSUME NEW json, NEW id, id # Quote, NEW e, NEW a \in Nat, Len(e) = a, QuotesHidden(e),
           NEW f, NEW t \in Nat, Len(f) = t, QuotesHidden(f),
           IsCommentOf(json, id, e, a, f, t)
    PROVE  \A i, key : KeyAt(json, i, key) /\ key \in Keys =>
              \/ i = 2 /\ key = KeyType
              \/ i = 10 /\ key = KeyId
              \/ i = 16 /\ key = KeyAuthor
              \/ i = 23 + a /\ key = KeyText
<1> SUFFICES ASSUME NEW i, NEW key \in Keys, KeyAt(json, i, key)
             PROVE  \/ i = 2 /\ key = KeyType
                    \/ i = 10 /\ key = KeyId
                    \/ i = 16 /\ key = KeyAuthor
                    \/ i = 23 + a /\ key = KeyText
  OBVIOUS
<1>1. /\ key \notin {Quote, Backslash, Comma, Colon, WordComment}
      /\ Quote \notin {Closes, Comma, Colon, Opens, WordComment} /\ Colon \notin {Closes, Comma, Quote}
      /\ \A x \in Keys : x # Quote /\ x # Colon
      /\ KeyType \in Keys /\ KeyId \in Keys /\ KeyAuthor \in Keys /\ KeyText \in Keys
  BY MarksDiffer, Zenon
<1>2. /\ i \in 1 .. 29 + a + t /\ i + 3 \in 1 .. 29 + a + t
      /\ json[i] = Quote /\ json[i + 1] = key /\ json[i + 2] = Quote /\ json[i + 3] = Colon
  BY Zenon DEF IsCommentOf, KeyAt
<1>3. /\ json[3] = KeyType /\ json[5] = Colon /\ json[7] = WordComment /\ json[9] = Comma
      /\ json[11] = KeyId /\ json[13] = Colon /\ json[14] = id /\ json[15] = Comma
      /\ json[17] = KeyAuthor /\ json[19] = Colon
      /\ json[22 + a] = Comma /\ json[24 + a] = KeyText /\ json[26 + a] = Colon
      /\ json[29 + a + t] = Closes
  <2>1. (23 + a) + 1 = 24 + a /\ (23 + a) + 3 = 26 + a
    OBVIOUS
  <2>2. json[24 + a] = KeyText /\ json[26 + a] = Colon
    BY <2>1, Zenon DEF IsCommentOf, KeyAt
  <2> QED
    BY <2>2 DEF IsCommentOf, KeyAt
<1>4. /\ ~(20 < i + 2 /\ i + 2 <= 20 + a)
      /\ ~(27 + a < i + 2 /\ i + 2 <= 27 + a + t)
  <2>1. StandsAt(json, 20, e) /\ StandsAt(json, 27 + a, f)
    BY Zenon DEF IsCommentOf
  <2>0. 20 \in Nat /\ i \in Int /\ 27 + a \in Nat
    BY <1>2
  <2>2. ~(20 < i + 2 /\ i + 2 <= 20 + a)
    BY <1>1, <1>2, <2>0, <2>1, NoKeyEndsInText
  <2>3. ~(27 + a < i + 2 /\ i + 2 <= 27 + a + t)
    BY <1>1, <1>2, <2>0, <2>1, NoKeyEndsInText
  <2> QED
    BY <2>2, <2>3, Zenon
<1>5. i + 3 # 29 + a + t /\ i + 2 # 29 + a + t
  BY <1>1, <1>2, <1>3
<1>6. i \in 1 .. 18 \/ i \in 19 + a .. 25 + a
  BY <1>2, <1>4, <1>5
<1>7. ASSUME i \in 1 .. 18
      PROVE  i = 2 \/ i = 10 \/ i = 16
  <2>1. i # 1 /\ i # 3 /\ i # 5
    <3>1. 1 + 2 = 3
      OBVIOUS
    <3> QED
      BY <1>1, <1>2, <1>3, <3>1, Zenon
  <2>4. i # 4 /\ i # 6
    <3>1. 4 + 1 = 5 /\ 6 + 3 = 9
      OBVIOUS
    <3> QED
      BY <1>1, <1>2, <1>3, <3>1, Zenon
  <2>2. i # 7 /\ i # 8 /\ i # 9 /\ i # 11 /\ i # 12
    <3>1. 7 + 2 = 9 /\ 8 + 1 = 9 /\ 12 + 1 = 13
      OBVIOUS
    <3> QED
      BY <1>1, <1>2, <1>3, <3>1, Zenon
  <2>3. i # 13 /\ i # 14 /\ i # 15 /\ i # 17 /\ i # 18
    <3>1. 14 + 1 = 15 /\ 18 + 1 = 19
      OBVIOUS
    <3> QED
      BY <1>1, <1>2, <1>3, <3>1, Zenon
  <2> QED
    BY <1>7, <2>1, <2>2, <2>3, <2>4
<1>8. ASSUME i \in 19 + a .. 25 + a
      PROVE  i = 23 + a
  <2>1. i # 19 + a
    <3>1. (19 + a) + 3 = 22 + a
      OBVIOUS
    <3> QED
      BY <1>1, <1>2, <1>3, <3>1, Zenon
  <2>2. i # 20 + a /\ i # 21 + a
    <3>1. (20 + a) + 2 = 22 + a /\ (21 + a) + 1 = 22 + a
      OBVIOUS
    <3> QED
      BY <1>1, <1>2, <1>3, <3>1, Zenon
  <2>3. i # 22 + a /\ i # 24 + a /\ i # 25 + a
    <3>1. (24 + a) + 2 = 26 + a /\ (25 + a) + 1 = 26 + a
      OBVIOUS
    <3> QED
      BY <1>1, <1>2, <1>3, <3>1, Zenon
  <2>4. i \in {19 + a, 20 + a, 21 + a, 22 + a, 23 + a, 24 + a, 25 + a}
    BY <1>8
  <2> QED
    BY <2>1, <2>2, <2>3, <2>4, Zenon
<1>9. /\ i = 2 => key = KeyType
      /\ i = 10 => key = KeyId
      /\ i = 16 => key = KeyAuthor
      /\ i = 23 + a => key = KeyText
  <2>1. (23 + a) + 1 = 24 + a
    OBVIOUS
  <2>2. i = 23 + a => key = KeyText
    BY <1>2, <1>3, <2>1, Zenon
  <2>3. 2 + 1 = 3 /\ 10 + 1 = 11 /\ 16 + 1 = 17
    OBVIOUS
  <2>4. (i = 2 => key = KeyType) /\ (i = 10 => key = KeyId) /\ (i = 16 => key = KeyAuthor)
    BY <1>2, <1>3, <2>3, Zenon
  <2> QED
    BY <2>2, <2>4, Zenon
<1> QED
  BY <1>6, <1>7, <1>8, <1>9, Zenon

-----------------------------------------------------------------------------
(* What is read of a paragraph and of a comment is what was written.       *)

TypeOf(json) == FindIn(json, Member(KeyType, Quoted(<<WordComment>>)))

LEMMA IsCommentIs ==
    ASSUME NEW json
    PROVE  IsComment(json) <=> TypeOf(json) # 0
BY Zenon DEF IsComment, TypeOf, KeyType, WordComment

LEMMA EscapedHas ==
    ASSUME NEW S, IsAlphabet(S), NEW chars, Escapes(chars), NEW text \in Seq(S)
    PROVE  /\ Len(EscapeAll(text, chars)) \in Nat
           /\ Has(EscapeAll(text, chars), S, Len(EscapeAll(text, chars)))
           /\ QuotesHidden(EscapeAll(text, chars))
<1> DEFINE e == EscapeAll(text, chars)
<1>1. e \in Seq(S)
  BY EscapedTyped, Zenon
<1>2. QuotesHidden(e)
  BY EscapedHidesQuotes, Zenon
<1> HIDE DEF e
<1>3. Len(e) \in Nat
  BY <1>1
<1> QED
  BY <1>1, <1>2, <1>3, Zenon DEF e, Has

LEMMA ParagraphFields ==
    ASSUME NEW S, IsAlphabet(S), HasMarks(S), NEW chars, Escapes(chars), NEW n \in S, n # Quote,
           NEW text \in Seq(S), NEW json, json = ParagraphJson(n, EscapeAll(text, chars))
    PROVE  /\ json \in Seq(S) /\ json # <<>> /\ ~IsComment(json) /\ FieldInt(json, KeyIndex) = n
           /\ text \in Seq(S \ {Control}) => FieldStr(json, KeyContent) = text
<1> DEFINE e == EscapeAll(text, chars)
           a == Len(e)
<1>1. a \in Nat /\ Has(e, S, a) /\ QuotesHidden(e)
  BY EscapedHas, Zenon
<1>2. json = ParagraphJson(n, e)
  BY Zenon
<1> HIDE DEF e
<1>3. json \in Seq(S) /\ IsParagraph(json, n, e, a)
  BY <1>1, <1>2, ParagraphShape, Zenon
<1> HIDE DEF a
<1>4. Len(e) = a
  BY Zenon DEF a
<1>5. \A i, key : KeyAt(json, i, key) /\ key \in Keys =>
         \/ i = 2 /\ key = KeyIndex
         \/ i = 8 /\ key = KeyContent
  BY <1>1, <1>3, <1>4, ParagraphKeys
<1>6. /\ {Quote, Colon} \subseteq S /\ KeyIndex \in S /\ KeyContent \in S /\ KeyType \in S
      /\ Quote \in S /\ WordComment \in S
      /\ KeyIndex \in Keys /\ KeyContent \in Keys /\ KeyType \in Keys
      /\ KeyIndex # KeyContent /\ KeyIndex # KeyType /\ KeyContent # KeyType
  BY MarksDiffer, Zenon DEF HasMarks
<1>7. /\ KeyAt(json, 2, KeyIndex) /\ KeyAt(json, 8, KeyContent) /\ json[6] = n
      /\ StandsAt(json, 11, <<Quote>>) /\ StandsAt(json, 12, e) /\ StandsAt(json, 12 + a, <<Quote>>)
      /\ Len(json) = 14 + a
  BY <1>3, Zenon DEF IsParagraph
<1>8. /\ Len(json) \in Nat /\ 2 \in 1 .. Len(json) /\ 8 \in 1 .. Len(json) /\ json # <<>>
      /\ 2 \in Nat \ {0} /\ 2 + 4 = 6 /\ 8 + 3 = 11 /\ 8 + 4 = 12
  BY <1>1, <1>3, <1>7
<1>9. FindIn(json, Member(KeyIndex, <<>>)) = 2
  <2>1. \A j \in 1 .. Len(json) : KeyAt(json, j, KeyIndex) => j = 2
    BY <1>5, <1>6, Zenon
  <2> QED
    BY <1>3, <1>6, <1>7, <1>8, <2>1, KeyFound, Zenon
<1>10. FindIn(json, Member(KeyContent, <<>>)) = 8
  <2>1. \A j \in 1 .. Len(json) : KeyAt(json, j, KeyContent) => j = 8
    BY <1>5, <1>6, Zenon
  <2> QED
    BY <1>3, <1>6, <1>7, <1>8, <2>1, KeyFound, Zenon
<1>11. ~IsComment(json)
  <2>1. \A j \in 1 .. Len(json) : ~KeyAt(json, j, KeyType)
    BY <1>5, <1>6, Zenon
  <2>2. Quoted(<<WordComment>>) \in Seq(S)
    <3>1. Has(<<WordComment>>, S, 1) /\ 1 \in Nat
      BY <1>6, HasOne
    <3>2. Has(Quoted(<<WordComment>>), S, 1 + 2)
      BY <1>6, <3>1, QuotedStands, Zenon
    <3> QED
      BY <3>2, Zenon DEF Has
  <2>3. TypeOf(json) = 0
    BY <1>3, <1>6, <2>1, <2>2, KeyMissing, Zenon DEF TypeOf
  <2> QED
    BY <2>3, IsCommentIs, Zenon
<1>12. FieldInt(json, KeyIndex) = n
  <2>1. FieldInt(json, KeyIndex) = json[2 + 4]
    BY <1>8, <1>9, FieldIntIs, Zenon
  <2> QED
    BY <1>7, <1>8, <2>1, Zenon
<1>13. ASSUME text \in Seq(S \ {Control}) PROVE FieldStr(json, KeyContent) = text
  <2>1. StandsAt(json, 8 + 3, <<Quote>>) /\ QuotedAt(json, 8 + 4, EscapeAll(text, chars))
    BY <1>4, <1>7, <1>8, Zenon DEF e, QuotedAt
  <2> DEFINE U == S \ {Control}
  <2>2. U \in SUBSET S /\ Control \notin U /\ text \in Seq(U)
    BY <1>13, Zenon
  <2> HIDE DEF U
  <2> QED
    BY <1>3, <1>8, <1>10, <2>1, <2>2, FieldStrIs
<1> QED
  BY <1>3, <1>8, <1>11, <1>12, <1>13, Zenon

LEMMA CommentFields ==
    ASSUME NEW S, IsAlphabet(S), HasMarks(S), NEW chars, Escapes(chars), NEW id \in S, id # Quote,
           NEW author \in Seq(S \ {Control}), NEW text \in Seq(S \ {Control}), NEW json,
           json = CommentJson(id, EscapeAll(author, chars), EscapeAll(text, chars))
    PROVE  /\ json \in Seq(S) /\ json # <<>> /\ IsComment(json) /\ FieldInt(json, KeyId) = id
           /\ FieldStr(json, KeyAuthor) = author /\ FieldStr(json, KeyText) = text
<1> DEFINE e == EscapeAll(author, chars)
           a == Len(e)
           f == EscapeAll(text, chars)
           t == Len(f)
           U == S \ {Control}
<1>0. U \in SUBSET S /\ Control \notin U /\ author \in Seq(U) /\ text \in Seq(U)
  BY Zenon
<1>1. author \in Seq(S) /\ text \in Seq(S)
  OBVIOUS
<1> HIDE DEF U
<1>2. /\ a \in Nat /\ Has(e, S, a) /\ QuotesHidden(e)
      /\ t \in Nat /\ Has(f, S, t) /\ QuotesHidden(f)
  BY <1>1, EscapedHas, Zenon
<1>3. json = CommentJson(id, e, f)
  BY Zenon
<1> HIDE DEF e, f
<1>4. json \in Seq(S) /\ IsCommentOf(json, id, e, a, f, t)
  BY <1>2, <1>3, CommentShape, Zenon
<1> HIDE DEF a, t
<1>5. Len(e) = a /\ Len(f) = t
  BY Zenon DEF a, t
<1>6. \A i, key : KeyAt(json, i, key) /\ key \in Keys =>
         \/ i = 2 /\ key = KeyType
         \/ i = 10 /\ key = KeyId
         \/ i = 16 /\ key = KeyAuthor
         \/ i = 23 + a /\ key = KeyText
  BY <1>2, <1>4, <1>5, CommentKeys
<1>7. /\ {Quote, Colon} \subseteq S /\ KeyType \in S /\ KeyId \in S /\ KeyAuthor \in S /\ KeyText \in S
      /\ Quote \in S /\ WordComment \in S
      /\ KeyType \in Keys /\ KeyId \in Keys /\ KeyAuthor \in Keys /\ KeyText \in Keys
      /\ KeyType \notin {KeyId, KeyAuthor, KeyText} /\ KeyId \notin {KeyAuthor, KeyText}
      /\ KeyAuthor # KeyText
  BY MarksDiffer, Zenon DEF HasMarks
<1>8. /\ StandsAt(json, 1, Member(KeyType, Quoted(<<WordComment>>)))
      /\ KeyAt(json, 10, KeyId) /\ json[14] = id /\ KeyAt(json, 16, KeyAuthor)
      /\ StandsAt(json, 19, <<Quote>>) /\ StandsAt(json, 20, e) /\ StandsAt(json, 20 + a, <<Quote>>)
      /\ KeyAt(json, 23 + a, KeyText) /\ StandsAt(json, 26 + a, <<Quote>>)
      /\ StandsAt(json, 27 + a, f) /\ StandsAt(json, 27 + a + t, <<Quote>>)
      /\ Len(json) = 29 + a + t
  BY <1>4, Zenon DEF IsCommentOf
<1>9. /\ Len(json) \in Nat /\ 2 \in 1 .. Len(json) /\ 10 \in 1 .. Len(json) /\ 16 \in 1 .. Len(json)
      /\ 23 + a \in 1 .. Len(json) /\ json # <<>>
      /\ 10 \in Nat \ {0} /\ 10 + 4 = 14 /\ 16 + 3 = 19 /\ 16 + 4 = 20
      /\ (23 + a) + 3 = 26 + a /\ (23 + a) + 4 = 27 + a /\ 2 - 1 = 1
  BY <1>2, <1>4, <1>8
<1>10. IsComment(json)
  <2> DEFINE pattern == Member(KeyType, Quoted(<<WordComment>>))
  <2>1. Quoted(<<WordComment>>) \in Seq(S)
    <3>1. Has(<<WordComment>>, S, 1) /\ 1 \in Nat
      BY <1>7, HasOne
    <3>2. Has(Quoted(<<WordComment>>), S, 1 + 2)
      BY <1>7, <3>1, QuotedStands, Zenon
    <3> QED
      BY <3>2, Zenon DEF Has
  <2>2. pattern \in Seq(S) /\ Len(pattern) > 0
    BY <1>7, <2>1, MemberIs, Zenon
  <2>3. \A j \in 1 .. Len(json) : StandsAt(json, j - 1, pattern) => KeyAt(json, j, KeyType)
    BY <1>4, <1>7, <2>1, KeyStands, Zenon
  <2>4. \A j \in 1 .. Len(json) : StandsAt(json, j - 1, pattern) => j = 2
    BY <1>6, <1>7, <2>3, Zenon
  <2>5. StandsAt(json, 2 - 1, pattern)
    BY <1>8, <1>9, Zenon
  <2> HIDE DEF pattern
  <2>6. FindIn(json, pattern) = 2
    BY <1>4, <1>9, <2>2, <2>4, <2>5, FindIs, Zenon
  <2>7. TypeOf(json) = 2
    BY <2>6, Zenon DEF TypeOf, pattern
  <2>8. 2 # 0
    OBVIOUS
  <2> QED
    BY <2>7, <2>8, IsCommentIs, Zenon
<1>11. /\ FindIn(json, Member(KeyId, <<>>)) = 10
       /\ FindIn(json, Member(KeyAuthor, <<>>)) = 16
       /\ FindIn(json, Member(KeyText, <<>>)) = 23 + a
  <2>1. \A j \in 1 .. Len(json) : KeyAt(json, j, KeyId) => j = 10
    BY <1>6, <1>7, Zenon
  <2>2. \A j \in 1 .. Len(json) : KeyAt(json, j, KeyAuthor) => j = 16
    BY <1>6, <1>7, Zenon
  <2>3. \A j \in 1 .. Len(json) : KeyAt(json, j, KeyText) => j = 23 + a
    BY <1>6, <1>7, Zenon
  <2>4. FindIn(json, Member(KeyId, <<>>)) = 10
    BY <1>4, <1>7, <1>8, <1>9, <2>1, KeyFound, Zenon
  <2>5. FindIn(json, Member(KeyAuthor, <<>>)) = 16
    BY <1>4, <1>7, <1>8, <1>9, <2>2, KeyFound, Zenon
  <2>6. FindIn(json, Member(KeyText, <<>>)) = 23 + a
    BY <1>4, <1>7, <1>8, <1>9, <2>3, KeyFound, Zenon
  <2> QED
    BY <2>4, <2>5, <2>6, Zenon
<1>12. FieldInt(json, KeyId) = id
  <2>1. FieldInt(json, KeyId) = json[10 + 4]
    BY <1>9, <1>11, FieldIntIs, Zenon
  <2> QED
    BY <1>8, <1>9, <2>1, Zenon
<1>13. FieldStr(json, KeyAuthor) = author
  <2> DEFINE i == 16
  <2>1. StandsAt(json, 16 + 3, <<Quote>>) /\ QuotedAt(json, 16 + 4, EscapeAll(author, chars))
    BY <1>5, <1>8, <1>9, Zenon DEF e, QuotedAt
  <2>2. /\ i \in 1 .. Len(json) /\ FindIn(json, Member(KeyAuthor, <<>>)) = i
        /\ StandsAt(json, i + 3, <<Quote>>) /\ QuotedAt(json, i + 4, EscapeAll(author, chars))
    BY <1>9, <1>11, <2>1, Zenon
  <2> HIDE DEF i
  <2> QED
    BY <1>0, <1>4, <2>2, FieldStrIs
<1>14. FieldStr(json, KeyText) = text
  <2> DEFINE i == 23 + a
  <2>1. StandsAt(json, (23 + a) + 3, <<Quote>>) /\ QuotedAt(json, (23 + a) + 4, EscapeAll(text, chars))
    BY <1>5, <1>8, <1>9, Zenon DEF f, QuotedAt
  <2>2. /\ i \in 1 .. Len(json) /\ FindIn(json, Member(KeyText, <<>>)) = i
        /\ StandsAt(json, i + 3, <<Quote>>) /\ QuotedAt(json, i + 4, EscapeAll(text, chars))
    BY <1>9, <1>11, <2>1, Zenon
  <2> HIDE DEF i
  <2> QED
    BY <1>0, <1>4, <2>2, FieldStrIs
<1> QED
  BY <1>4, <1>9, <1>10, <1>12, <1>13, <1>14, Zenon

-----------------------------------------------------------------------------
(* What another user is shown is what was typed.                           *)

Marker == "TRACKED:"
Seven == "7"
Zero == "0"
Five == "5"
Three == "3"

\* What a text or its JSON may be made of.
Letters ==
    {Quote, Backslash, Newline, Control, LetterN, LetterU, Amp, Lt, AmpEntity, LtEntity, QuoteEntity,
     Opens, Closes, Comma, Colon, KeyIndex, KeyContent, KeyType, KeyId, KeyAuthor, KeyText,
     WordComment, Marker, Seven, Zero, Five, Three}

LEMMA LettersAre ==
    /\ IsAlphabet(Letters) /\ HasMarks(Letters) /\ {Control, Marker, Seven, Zero, Five} \subseteq Letters
    /\ Quote \notin {Seven, Zero, Five} /\ Marker # Control
<1>1. IsAlphabet(Letters)
  BY Zenon DEF IsAlphabet, Letters
<1>2. HasMarks(Letters)
  BY Zenon DEF HasMarks, Letters
<1>3. {Control, Marker, Seven, Zero, Five} \subseteq Letters
  BY Zenon DEF Letters
<1>4. Quote \notin {Seven, Zero, Five} /\ Marker # Control
  BY Zenon DEF Quote, Seven, Zero, Five, Marker, Control
<1> QED
  BY <1>1, <1>2, <1>3, <1>4, Zenon

\* Texts without control characters.
Clean == Seq(Letters \ {Control})

LEMMA CleanIs ==
    ASSUME NEW text \in Seq(Letters), ~Contains(text, "control")
    PROVE  text \in Clean
<1>1. \A i \in 1 .. Len(text) : text[i] # Control
  BY Zenon DEF Contains, Control
<1>2. \A i \in 1 .. Len(text) : text[i] \in Letters \ {Control}
  BY <1>1
<1> QED
  BY <1>2 DEF Clean

LEMMA CleanTyped == Clean \subseteq Seq(Letters)
BY DEF Clean

LEMMA StringifyIs ==
    ASSUME NEW text
    PROVE  /\ JsonStringify(text) = EscapeAll(text, DOMAIN Escape)
           /\ JsonEscape(text) = EscapeAll(text, DOMAIN Escape \ {Control})
BY Zenon DEF JsonStringify, JsonEscape, Control

\* The paragraph as each of its readers finds it, written with either escape.
ReadsParagraph(json, n, text) ==
    /\ json # <<>> /\ ~IsComment(json)
    /\ ParseDelta(json).paragraphIndex = n
    /\ FieldInt(json, "paragraphIndex") = n
    /\ text \in Clean => /\ ParseDelta(json).content = text
                         /\ FieldStr(json, "content") = text

LEMMA ParseDeltaIs ==
    ASSUME NEW json
    PROVE  /\ ParseDelta(json).paragraphIndex = FieldInt(json, KeyIndex)
           /\ ParseDelta(json).content = FieldStr(json, KeyContent)
<1> DEFINE i == FieldInt(json, KeyIndex)
           c == FieldStr(json, KeyContent)
<1>1. ParseDelta(json) = [paragraphIndex |-> i, content |-> c]
  BY Zenon DEF ParseDelta, KeyIndex, KeyContent
<1> HIDE DEF i, c
<1>2. [paragraphIndex |-> i, content |-> c].paragraphIndex = i
      /\ [paragraphIndex |-> i, content |-> c].content = c
  OBVIOUS
<1> QED
  BY <1>1, <1>2, Zenon DEF i, c

LEMMA ParagraphIsRead ==
    ASSUME NEW n \in Letters, n # Quote, NEW text \in Seq(Letters)
    PROVE  /\ ReadsParagraph(ParagraphJson(n, JsonStringify(text)), n, text)
           /\ ReadsParagraph(ParagraphJson(n, JsonEscape(text)), n, text)
<1>1. ASSUME NEW chars, Escapes(chars)
      PROVE  ReadsParagraph(ParagraphJson(n, EscapeAll(text, chars)), n, text)
  <2> DEFINE json == ParagraphJson(n, EscapeAll(text, chars))
  <2>1. /\ json # <<>> /\ ~IsComment(json) /\ FieldInt(json, KeyIndex) = n
        /\ text \in Seq(Letters \ {Control}) => FieldStr(json, KeyContent) = text
    BY <1>1, LettersAre, ParagraphFields, Zenon
  <2> HIDE DEF json
  <2> QED
    BY <2>1, ParseDeltaIs, Zenon DEF ReadsParagraph, Clean, KeyIndex, KeyContent, json
<1> QED
  BY <1>1, BothEscape, StringifyIs, Zenon

ShownParagraph(n, text, tracked) == [para |-> n, text |-> text, tracked |-> tracked]

LEMMA MarkedIs ==
    ASSUME NEW text \in Clean
    PROVE  /\ <<Marker>> \o text \in Clean
           /\ IsTracked(<<Marker>> \o text) /\ Tail(<<Marker>> \o text) = text
<1> DEFINE U == Letters \ {Control}
           m == Marker
<1>1. m \in U
  BY LettersAre, Zenon
<1>2. text \in Seq(U)
  BY Zenon DEF Clean
<1> HIDE DEF U, m
<1>3. /\ <<m>> \o text \in Seq(U) /\ <<m>> \o text # <<>>
      /\ Head(<<m>> \o text) = m /\ Tail(<<m>> \o text) = text
  BY <1>1, <1>2
<1>4. <<m>> \o text \in Clean
  BY <1>3, Zenon DEF Clean, U
<1> QED
  BY <1>3, <1>4, Zenon DEF m, IsTracked, Marker

\* What the shim shows of a paragraph.
LEMMA ParagraphApplied ==
    ASSUME NEW n \in Letters, n # Quote, NEW text \in Clean
    PROVE  ApplyRemoteChange(ParagraphJson(n, JsonEscape(text)))
              = {ShownParagraph(n, IF IsTracked(text) THEN Tail(text) ELSE text, IsTracked(text))}
<1> DEFINE json == ParagraphJson(n, JsonEscape(text))
           t == IsTracked(text)
           x == IF t THEN Tail(text) ELSE text
<1>1. ReadsParagraph(json, n, text)
  BY CleanTyped, ParagraphIsRead, Zenon
<1>2. /\ json # <<>> /\ ~IsComment(json)
      /\ FieldInt(json, "paragraphIndex") = n /\ FieldStr(json, "content") = text
  BY <1>1, Zenon DEF ReadsParagraph
<1> HIDE DEF json
<1>3. ApplyRemoteChange(json) = {[para |-> n, tracked |-> t, text |-> x]}
  BY <1>2, Zenon DEF ApplyRemoteChange, t, x
<1> HIDE DEF t, x
<1>4. [para |-> n, tracked |-> t, text |-> x] = [para |-> n, text |-> x, tracked |-> t]
  OBVIOUS
<1> QED
  BY <1>3, <1>4, Zenon DEF ShownParagraph, json, t, x

\* From the co-author's client on.
LEMMA ParagraphIsShown ==
    ASSUME NEW n \in Letters, n # Quote, NEW text \in Clean, NEW tracked \in BOOLEAN,
           tracked \/ ~IsTracked(text)
    PROVE  ApplyRemoteChange(OnRemoteDelta(ParagraphJson(n, JsonEscape(text)), tracked))
              = {ShownParagraph(n, text, tracked)}
<1> DEFINE json == ParagraphJson(n, JsonEscape(text))
           content == IF tracked THEN <<Marker>> \o text ELSE text
<1>1. ReadsParagraph(json, n, text)
  BY CleanTyped, ParagraphIsRead, Zenon
<1>2. /\ json # <<>> /\ ~IsComment(json)
      /\ ParseDelta(json).paragraphIndex = n /\ ParseDelta(json).content = text
  BY <1>1, Zenon DEF ReadsParagraph
<1> HIDE DEF json
<1>3. OnRemoteDelta(json, tracked) = ParagraphJson(n, JsonEscape(content))
  BY <1>2, Zenon DEF OnRemoteDelta, Marker
<1>4. /\ content \in Clean /\ IsTracked(content) <=> tracked
      /\ tracked => Tail(content) = text
      /\ ~tracked => content = text
  BY MarkedIs, Zenon
<1> HIDE DEF content
<1>5. ApplyRemoteChange(ParagraphJson(n, JsonEscape(content)))
         = {ShownParagraph(n, IF IsTracked(content) THEN Tail(content) ELSE content, IsTracked(content))}
  BY <1>4, ParagraphApplied, Zenon
<1>6. (IF IsTracked(content) THEN Tail(content) ELSE content) = text
  BY <1>4, Zenon
<1>7. IsTracked(content) = tracked
  BY <1>4, Zenon DEF IsTracked
<1> QED
  BY <1>3, <1>5, <1>6, <1>7, Zenon DEF json

\* The whole way, with a document loaded and without.
LEMMA PutIs ==
    ASSUME NEW n \in Letters, n # Quote, NEW text \in Clean
    PROVE  /\ Put(OnLocalChange(n, text), TRUE).index = n
           /\ Put(OnLocalChange(n, text), FALSE).index = Zero
           /\ Put(OnLocalChange(n, text), TRUE).xml = XmlEscape(text)
           /\ Put(OnLocalChange(n, text), FALSE).xml = XmlEscape(text)
<1> DEFINE json == OnLocalChange(n, text)
<1>1. /\ FieldInt(json, "paragraphIndex") = n /\ FieldStr(json, "content") = text
  <2>1. json = ParagraphJson(n, JsonStringify(text))
    BY Zenon DEF OnLocalChange
  <2>2. ReadsParagraph(ParagraphJson(n, JsonStringify(text)), n, text)
    BY CleanTyped, ParagraphIsRead, Zenon
  <2> HIDE DEF json
  <2>3. ReadsParagraph(json, n, text)
    BY <2>1, <2>2, Zenon
  <2> QED
    BY <2>3, Zenon DEF ReadsParagraph
<1> HIDE DEF json
<1>2. \A i, x : [index |-> i, xml |-> x].index = i /\ [index |-> i, xml |-> x].xml = x
  OBVIOUS
<1>3. /\ Put(json, TRUE) = [index |-> n, xml |-> XmlEscape(text)]
      /\ Put(json, FALSE) = [index |-> Zero, xml |-> XmlEscape(text)]
  BY <1>1, Zenon DEF Put, Zero
<1> QED
  BY <1>2, <1>3, Zenon DEF json

LEMMA LoadedShown ==
    ASSUME NEW n \in Letters, n # Quote, NEW text \in Clean, NEW tracked \in BOOLEAN,
           tracked \/ ~IsTracked(text)
    PROVE  ParagraphShown(n, text, TRUE, tracked) = {ShownParagraph(n, text, tracked)}
<1> DEFINE part == Put(OnLocalChange(n, text), TRUE)
<1>1. part.index = n /\ part.xml = XmlEscape(text)
  BY PutIs, Zenon
<1>2. ParagraphShown(n, text, TRUE, tracked)
         = ApplyRemoteChange(OnRemoteDelta(Polled(part), tracked))
  BY Zenon DEF ParagraphShown
<1> HIDE DEF part
<1>3. XmlUnescape(XmlEscape(text)) = text
  BY LettersAre, CleanTyped, XmlReadsBack, Zenon
<1>4. Polled(part) = ParagraphJson(n, JsonEscape(text))
  BY <1>1, <1>3, Zenon DEF Polled
<1> QED
  BY <1>2, <1>4, ParagraphIsShown, Zenon

LEMMA StubShown ==
    ASSUME NEW n \in Letters, n # Quote, NEW text \in Clean, text # <<>>, ~IsTracked(text),
           \A i \in DOMAIN text : text[i] \notin DOMAIN Entity
    PROVE  ParagraphShown(n, text, FALSE, FALSE) = {ShownParagraph(Zero, text, FALSE)}
<1> DEFINE part == Put(OnLocalChange(n, text), FALSE)
<1>1. part.xml = text
  <2>1. part.xml = XmlEscape(text)
    BY PutIs, Zenon
  <2>2. XmlEscape(text) = text
    BY CleanTyped, PlainStays, Zenon
  <2> QED
    BY <2>1, <2>2, Zenon
<1>2. ParagraphShown(n, text, FALSE, FALSE)
         = ApplyRemoteChange(OnRemoteDelta(PolledStub(part), FALSE))
  BY Zenon DEF ParagraphShown
<1> HIDE DEF part
<1>3. PolledStub(part) = ParagraphJson(Zero, JsonEscape(text))
  BY <1>1, Zenon DEF PolledStub, Zero
<1>4. ApplyRemoteChange(OnRemoteDelta(ParagraphJson(Zero, JsonEscape(text)), FALSE))
         = {ShownParagraph(Zero, text, FALSE)}
  BY LettersAre, ParagraphIsShown, Zenon
<1> QED
  BY <1>2, <1>3, <1>4, Zenon

ShownComment(id, author, text) == [comment |-> id, author |-> author, text |-> text]

LEMMA CommentIsShown ==
    ASSUME NEW id \in Letters, id # Quote, NEW author \in Clean, NEW text \in Clean,
           \A i \in DOMAIN author : author[i] \notin DOMAIN Entity
    PROVE  CommentShown(id, author, text) = {ShownComment(id, author, text)}
<1> DEFINE sent == CommentJson(id, JsonStringify(author), JsonStringify(text))
           polled == CommentJson(id, JsonEscape(author), JsonEscape(text))
<1>1. author \in Seq(Letters \ {Control}) /\ text \in Seq(Letters \ {Control})
  BY Zenon DEF Clean
<1>2. /\ FieldInt(sent, KeyId) = id /\ FieldStr(sent, KeyAuthor) = author
      /\ FieldStr(sent, KeyText) = text
  <2>1. sent = CommentJson(id, EscapeAll(author, DOMAIN Escape), EscapeAll(text, DOMAIN Escape))
    BY StringifyIs, Zenon
  <2> HIDE DEF sent
  <2> QED
    BY <1>1, <2>1, BothEscape, LettersAre, CommentFields
<1>3. /\ polled # <<>> /\ IsComment(polled) /\ FieldInt(polled, KeyId) = id
      /\ FieldStr(polled, KeyAuthor) = author /\ FieldStr(polled, KeyText) = text
  <2> DEFINE chars == DOMAIN Escape \ {Control}
  <2>1. polled = CommentJson(id, EscapeAll(author, chars), EscapeAll(text, chars))
    BY StringifyIs, Zenon
  <2>2. Escapes(chars)
    BY BothEscape, Zenon
  <2> HIDE DEF polled, chars
  <2> QED
    BY <1>1, <2>1, <2>2, LettersAre, CommentFields
<1>4. CommentShown(id, author, text) = ApplyRemoteChange(OnRemoteDelta(PolledComment(sent), FALSE))
  BY Zenon DEF CommentShown, OnAddComment
<1>5. XmlUnescape(XmlEscape(text)) = text /\ XmlEscape(author) = author
  <2>1. XmlUnescape(XmlEscape(text)) = text
    BY LettersAre, CleanTyped, XmlReadsBack, Zenon
  <2>2. XmlEscape(author) = author
    BY CleanTyped, PlainStays, Zenon
  <2> QED
    BY <2>1, <2>2, Zenon
<1> HIDE DEF sent
<1>6. PolledComment(sent) = polled
  BY <1>2, <1>5, Zenon DEF PolledComment, KeyId, KeyAuthor, KeyText
<1> HIDE DEF polled
<1>7. OnRemoteDelta(polled, FALSE) = polled
  BY <1>3, Zenon DEF OnRemoteDelta
<1>8. ApplyRemoteChange(polled) = {ShownComment(id, author, text)}
  BY <1>3, Zenon DEF ApplyRemoteChange, ShownComment, KeyId, KeyAuthor, KeyText
<1> QED
  BY <1>4, <1>6, <1>7, <1>8, Zenon

-----------------------------------------------------------------------------
(* The run's properties, for every text that can be typed.                 *)

TypedTexts == [kind : {"text"}, pieces : Seq(Pieces)]

LEMMA TextsStayTyped == Spec => [](input \in Documents \cup TypedTexts)
<1> DEFINE Inv == input \in Documents \cup TypedTexts
<1>1. Init => Inv
  <2>1. <<>> \in Seq(Pieces)
    OBVIOUS
  <2> QED
    BY <2>1, Zenon DEF Init, Texts, TypedTexts
<1>2. Inv /\ [Next]_input => Inv'
  <2> SUFFICES ASSUME Inv, [Next]_input PROVE Inv'
    OBVIOUS
  <2> USE DEF Inv
  <2>1. CASE NextDocument
    BY <2>1, Zenon DEF NextDocument
  <2>2. CASE Type
    <3>1. input.kind = "text"
      BY <2>2 DEF Type
    <3>2. input \in TypedTexts
      BY <3>1 DEF Documents
    <3>3. PICK p \in Pieces : input' = [input EXCEPT !.pieces = Append(@, p)]
      BY <2>2, Zenon DEF Type
    <3> DEFINE P == Pieces
    <3>4. p \in P /\ input \in [kind : {"text"}, pieces : Seq(P)]
      BY <3>2, <3>3, Zenon DEF TypedTexts
    <3> HIDE DEF P
    <3>5. input' \in [kind : {"text"}, pieces : Seq(P)]
      <4>1. input.pieces \in Seq(P) /\ Append(input.pieces, p) \in Seq(P)
        BY <3>4
      <4> DEFINE longer == Append(input.pieces, p)
      <4>2. input' = [input EXCEPT !.pieces = longer]
        BY <3>3
      <4> HIDE DEF longer
      <4> QED
        BY <3>4, <4>1, <4>2 DEF longer
    <3> QED
      BY <3>5, Zenon DEF P, TypedTexts
  <2>3. CASE Clear
    <3>1. input.kind = "text"
      BY <2>3 DEF Clear
    <3>2. input \in TypedTexts
      BY <3>1 DEF Documents
    <3> DEFINE P == Pieces
    <3>3. input \in [kind : {"text"}, pieces : Seq(P)] /\ input' = [input EXCEPT !.pieces = <<>>]
      BY <2>3, <3>2, Zenon DEF TypedTexts, Clear
    <3> HIDE DEF P
    <3>5. <<>> \in Seq(P)
      OBVIOUS
    <3>4. input' \in [kind : {"text"}, pieces : Seq(P)]
      BY <3>3, <3>5, Zenon
    <3> QED
      BY <3>4, Zenon DEF P, TypedTexts
  <2>4. CASE UNCHANGED input
    BY <2>4, Zenon
  <2> QED
    BY <2>1, <2>2, <2>3, <2>4 DEF Next
<1> QED
  BY <1>1, <1>2, PTL DEF Spec

LEMMA PiecesAreTexts == Pieces \subseteq Seq(Letters)
<1>1. Pieces =
         {<<Quote>>, <<Backslash>>, <<Newline>>, <<Control>>, <<Amp>>, <<LetterN>>,
          <<Amp, LtEntity>>, <<AmpEntity>>, <<Marker>>, <<KeyContent>>, <<Quote, Comma>>,
          <<Quote, KeyContent, Quote, Colon, Quote>>,
          <<Quote, KeyIndex, Quote, Colon, Three>>,
          <<Quote, KeyType, Quote, Colon, Quote, WordComment, Quote>>}
  BY Zenon DEF Pieces, Quote, Backslash, Newline, Control, Amp, LetterN, LtEntity, AmpEntity, Marker,
     KeyContent, Comma, Colon, KeyIndex, Three, KeyType, WordComment
<1>2. \A S : /\ \A a \in S : <<a>> \in Seq(S)
             /\ \A a, b \in S : <<a, b>> \in Seq(S)
             /\ \A a, b, c, d, e \in S : <<a, b, c, d, e>> \in Seq(S)
  OBVIOUS
<1>3. /\ Quote \in Letters /\ Backslash \in Letters /\ Newline \in Letters /\ Control \in Letters
      /\ Amp \in Letters /\ LetterN \in Letters /\ LtEntity \in Letters /\ AmpEntity \in Letters
      /\ Marker \in Letters /\ KeyContent \in Letters /\ Comma \in Letters /\ Colon \in Letters
      /\ KeyIndex \in Letters /\ Three \in Letters /\ KeyType \in Letters /\ WordComment \in Letters
  BY Zenon DEF Letters
<1>4. \A p \in Pieces : p \in Seq(Letters)
  <2> DEFINE T == Seq(Letters)
  <2>1. /\ <<Quote>> \in T /\ <<Backslash>> \in T /\ <<Newline>> \in T /\ <<Control>> \in T
        /\ <<Amp>> \in T /\ <<LetterN>> \in T /\ <<AmpEntity>> \in T /\ <<Marker>> \in T
        /\ <<KeyContent>> \in T
    BY <1>2, <1>3, Zenon
  <2>2. <<Amp, LtEntity>> \in T /\ <<Quote, Comma>> \in T
    BY <1>2, <1>3, Zenon
  <2>3. /\ <<Quote, KeyContent, Quote, Colon, Quote>> \in T
        /\ <<Quote, KeyIndex, Quote, Colon, Three>> \in T
    BY <1>2, <1>3, Zenon
  <2>4. <<Quote, KeyType, Quote, Colon, Quote, WordComment, Quote>> \in T
    BY <1>3
  <2> HIDE DEF T
  <2>5. \A p \in Pieces : p \in T
    BY <1>1, <2>1, <2>2, <2>3, <2>4, Zenon
  <2> QED
    BY <2>5, Zenon DEF T
<1> QED
  BY <1>4, Zenon

LEMMA TypedText ==
    ASSUME input \in Documents \cup TypedTexts, input.kind = "text"
    PROVE  FlattenSeq(input.pieces) \in Seq(Letters)
<1>1. input \in TypedTexts
  BY DEF Documents
<1>2. input.pieces \in Seq(Pieces)
  BY <1>1 DEF TypedTexts
<1> DEFINE P == Pieces
           S == Seq(Letters)
<1>3. P \subseteq S
  BY PiecesAreTexts, Zenon
<1> HIDE DEF P, S
<1>4. Seq(P) \subseteq Seq(S)
  BY <1>3
<1>5. input.pieces \in Seq(S)
  BY <1>2, <1>4, Zenon DEF P
<1> QED
  BY <1>5, FlattenTyped, Zenon DEF S

\* A paragraph's text, whatever is typed, is the text another user is shown, in
\* the same paragraph, and is tracked if the merge says so.
THEOREM TextsArrive == Spec => []TextArrives
<1>1. input \in Documents \cup TypedTexts => TextArrives
  <2> DEFINE text == FlattenSeq(input.pieces)
             sent == OnLocalChange(Seven, text)
  <2> SUFFICES ASSUME input \in Documents \cup TypedTexts, input.kind = "text"
               PROVE  /\ ~IsComment(sent)
                      /\ ParseDelta(sent).paragraphIndex = Seven
                      /\ ~Contains(text, "control") =>
                            /\ ParseDelta(sent).content = text
                            /\ \A tracked \in BOOLEAN :
                                  tracked \/ ~IsTracked(text) =>
                                      ParagraphShown(Seven, text, TRUE, tracked)
                                         = {ShownParagraph(Seven, text, tracked)}
                            /\ text # <<>> /\ ~IsTracked(text) /\ ToSet(text) \cap DOMAIN Entity = {} =>
                                  ParagraphShown(Seven, text, FALSE, FALSE)
                                     = {ShownParagraph(Zero, text, FALSE)}
    BY Zenon DEF TextArrives, Seven, Zero, ShownParagraph
  <2>1. text \in Seq(Letters)
    BY TypedText, Zenon
  <2> HIDE DEF text
  <2>2. Seven \in Letters /\ Seven # Quote
    BY LettersAre, Zenon
  <2>3. ReadsParagraph(sent, Seven, text)
    BY <2>1, <2>2, ParagraphIsRead, Zenon DEF OnLocalChange
  <2> HIDE DEF sent
  <2>4. ASSUME ~Contains(text, "control")
        PROVE  /\ ParseDelta(sent).content = text
               /\ \A tracked \in BOOLEAN :
                     tracked \/ ~IsTracked(text) =>
                         ParagraphShown(Seven, text, TRUE, tracked)
                            = {ShownParagraph(Seven, text, tracked)}
               /\ text # <<>> /\ ~IsTracked(text) /\ ToSet(text) \cap DOMAIN Entity = {} =>
                     ParagraphShown(Seven, text, FALSE, FALSE) = {ShownParagraph(Zero, text, FALSE)}
    <3>1. text \in Clean
      BY <2>1, <2>4, CleanIs, Zenon
    <3>2. ParseDelta(sent).content = text
      BY <2>3, <3>1, Zenon DEF ReadsParagraph
    <3>3. ASSUME NEW tracked \in BOOLEAN, tracked \/ ~IsTracked(text)
          PROVE  ParagraphShown(Seven, text, TRUE, tracked) = {ShownParagraph(Seven, text, tracked)}
      BY <2>2, <3>1, <3>3, LoadedShown, Zenon
    <3>4. ASSUME text # <<>>, ~IsTracked(text), ToSet(text) \cap DOMAIN Entity = {}
          PROVE  ParagraphShown(Seven, text, FALSE, FALSE) = {ShownParagraph(Zero, text, FALSE)}
      <4>1. \A i \in DOMAIN text : text[i] \notin DOMAIN Entity
        BY <3>4, Zenon DEF ToSet
      <4> QED
        BY <2>2, <3>1, <3>4, <4>1, StubShown, Zenon
    <3> QED
      BY <3>2, <3>3, <3>4, Zenon
  <2> QED
    BY <2>3, <2>4, Zenon DEF ReadsParagraph
<1> QED
  BY <1>1, TextsStayTyped, PTL

\* A comment arrives with its id, its text and an author that XML does not escape.
THEOREM CommentsArrive == Spec => []CommentArrives
<1>1. input \in Documents \cup TypedTexts => CommentArrives
  <2> DEFINE text == FlattenSeq(input.pieces)
             Authors == {<<>>, <<"text">>, <<"backslash", "n">>}
  <2> SUFFICES ASSUME input \in Documents \cup TypedTexts, input.kind = "text",
                      ~Contains(text, "control"), NEW author \in Authors
               PROVE  CommentShown(Five, author, text) = {ShownComment(Five, author, text)}
    BY Zenon DEF CommentArrives, Five, ShownComment
  <2>1. text \in Seq(Letters)
    BY TypedText, Zenon
  <2> HIDE DEF text
  <2>2. text \in Clean
    BY <2>1, CleanIs, Zenon
  <2>3. /\ KeyText \in Letters \ {Control} /\ Backslash \in Letters \ {Control}
        /\ LetterN \in Letters \ {Control}
        /\ {KeyText, Backslash, LetterN} \cap DOMAIN Entity = {}
    <3>1. KeyText \in Letters /\ Backslash \in Letters /\ LetterN \in Letters
      BY LettersAre, Zenon DEF HasMarks, IsAlphabet
    <3>2. Control \notin {KeyText, Backslash, LetterN}
      BY Zenon DEF Control, KeyText, Backslash, LetterN
    <3>3. \A c \in {KeyText, Backslash, LetterN} : c \notin {Amp, Lt, Quote}
      BY Zenon DEF Amp, Lt, Quote, KeyText, Backslash, LetterN
    <3> QED
      BY <3>1, <3>2, <3>3, EntityIs, Zenon
  <2>4. author \in Clean /\ \A i \in DOMAIN author : author[i] \notin DOMAIN Entity
    <3> DEFINE U == Letters \ {Control}
               E == DOMAIN Entity
    <3>1. author = <<>> \/ author = <<KeyText>> \/ author = <<Backslash, LetterN>>
      BY Zenon DEF KeyText, Backslash, LetterN
    <3>2. KeyText \in U \ E /\ Backslash \in U \ E /\ LetterN \in U \ E
      BY <2>3, Zenon
    <3> HIDE DEF U, E, Authors
    <3>4. \A x, y \in U \ E :
             /\ <<x>> \in Seq(U) /\ \A i \in DOMAIN <<x>> : <<x>>[i] \notin E
             /\ <<x, y>> \in Seq(U) /\ \A i \in DOMAIN <<x, y>> : <<x, y>>[i] \notin E
      OBVIOUS
    <3>5. <<>> \in Seq(U) /\ \A i \in DOMAIN <<>> : <<>>[i] \notin E
      OBVIOUS
    <3>3. author \in Seq(U) /\ \A i \in DOMAIN author : author[i] \notin E
      BY <3>1, <3>2, <3>4, <3>5, Zenon
    <3> QED
      BY <3>3, Zenon DEF U, E, Clean
  <2>5. Five \in Letters /\ Five # Quote
    BY LettersAre, Zenon
  <2> QED
    BY <2>2, <2>4, <2>5, CommentIsShown, Zenon
<1> QED
  BY <1>1, TextsStayTyped, PTL
=============================================================================
