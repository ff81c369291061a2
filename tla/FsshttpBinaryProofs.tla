-------------------------- MODULE FsshttpBinaryProofs -------------------------
(***************************************************************************)
(* The codec, for documents of every size that its widths allow: base64 is *)
(* inverted, a number and a header are read back as they were written,     *)
(* wherever they stand and whatever follows them, the document of a put is *)
(* found in it again, and the search through an answer comes to it.        *)
(***************************************************************************)
EXTENDS MCCodecs, SequenceLemmas

Byte == 0 .. 255

-----------------------------------------------------------------------------
(* Base64.                                                                 *)

\* The last group: its characters hold its bytes and no more.
LEMMA Lengths ==
    ASSUME NEW n \in Nat
    PROVE  /\ Sextets(n) \in Nat /\ 4 * ((n + 2) \div 3) \in Nat
           /\ Sextets(n) <= 4 * ((n + 2) \div 3)
           /\ (6 * Sextets(n)) \div 8 = n
BY DEF Sextets

\* The characters of a byte at the beginning, in the middle and at the end of its
\* group are before the padding.
LEMMA CharactersOf ==
    ASSUME NEW n \in Nat, NEW q \in Nat
    PROVE  /\ 3 * q + 1 <= n => 4 * q + 2 <= Sextets(n)
           /\ 3 * q + 2 <= n => 4 * q + 3 <= Sextets(n)
           /\ 3 * q + 3 <= n => 4 * q + 4 <= Sextets(n)
BY DEF Sextets

LEMMA Places ==
    ASSUME NEW q \in Nat, NEW r \in 0 .. 3
    PROVE  /\ (4 * q + r) \div 4 = q /\ (4 * q + r) % 4 = r
           /\ r < 3 => (3 * q + r) \div 3 = q /\ (3 * q + r) % 3 = r
OBVIOUS

\* What three bytes make four characters, and back.
LEMMA Triples ==
    ASSUME NEW a \in Byte, NEW b \in Byte, NEW c \in Byte
    PROVE  /\ a \div 4 \in 0 .. 63 /\ ((a % 4) * 16 + b \div 16) \in 0 .. 63
           /\ ((b % 16) * 4 + c \div 64) \in 0 .. 63 /\ c % 64 \in 0 .. 63
           /\ (a \div 4) * 4 + ((a % 4) * 16 + b \div 16) \div 16 = a
           /\ (((a % 4) * 16 + b \div 16) % 16) * 16 + ((b % 16) * 4 + c \div 64) \div 4 = b
           /\ (((b % 16) * 4 + c \div 64) % 4) * 64 + (c % 64) = c
BY DEF Byte

At(data, i) == IF i <= Len(data) THEN data[i] ELSE 0

LEMMA AtTyped ==
    ASSUME NEW data \in Seq(Byte), NEW i \in Nat \ {0}
    PROVE  At(data, i) \in Byte
<1>1. i <= Len(data) => i \in 1 .. Len(data)
  OBVIOUS
<1>2. i <= Len(data) => data[i] \in Byte
  BY <1>1
<1>3. 0 \in Byte
  BY DEF Byte
<1> QED
  BY <1>2, <1>3 DEF At

\* Character 4 * q + r + 1 is the r-th of group q.
CharAt(data, q, r) ==
    CASE r = 0 -> At(data, 3 * q + 1) \div 4
      [] r = 1 -> (At(data, 3 * q + 1) % 4) * 16 + At(data, 3 * q + 2) \div 16
      [] r = 2 -> (At(data, 3 * q + 2) % 16) * 4 + At(data, 3 * q + 3) \div 64
      [] r = 3 -> At(data, 3 * q + 3) % 64

LEMMA CharTyped ==
    ASSUME NEW data \in Seq(Byte), NEW q \in Nat, NEW r \in 0 .. 3
    PROVE  CharAt(data, q, r) \in 0 .. 63
<1> DEFINE a == At(data, 3 * q + 1)
           b == At(data, 3 * q + 2)
           c == At(data, 3 * q + 3)
<1>1. a \in Byte /\ b \in Byte /\ c \in Byte
  BY AtTyped
<1>2. \/ r = 0 /\ CharAt(data, q, r) = a \div 4
      \/ r = 1 /\ CharAt(data, q, r) = (a % 4) * 16 + b \div 16
      \/ r = 2 /\ CharAt(data, q, r) = (b % 16) * 4 + c \div 64
      \/ r = 3 /\ CharAt(data, q, r) = c % 64
  BY DEF CharAt
<1> HIDE DEF a, b, c
<1>3. /\ a \div 4 \in 0 .. 63 /\ ((a % 4) * 16 + b \div 16) \in 0 .. 63
      /\ ((b % 16) * 4 + c \div 64) \in 0 .. 63 /\ c % 64 \in 0 .. 63
  BY <1>1, Triples
<1> QED
  BY <1>2, <1>3

LEMMA Encoded ==
    ASSUME NEW data \in Seq(Byte)
    PROVE  LET n == Len(data)
               chars == ToBase64(data)
           IN  /\ chars \in Seq(0 .. 64) /\ Len(chars) = 4 * ((n + 2) \div 3)
               /\ \A k \in 1 .. Len(chars) : k > Sextets(n) => chars[k] = Pad
               /\ \A q \in Nat : \A r \in 0 .. 3 :
                     4 * q + r + 1 <= Sextets(n) => chars[4 * q + r + 1] = CharAt(data, q, r)
<1> DEFINE n == Len(data)
           N == 4 * ((n + 2) \div 3)
           char(k) == CharAt(data, k \div 4, k % 4)
           f == [k \in 1 .. N |-> IF k <= Sextets(n) THEN char(k - 1) ELSE Pad]
<1>1. n \in Nat /\ N \in Nat /\ Sextets(n) \in Nat /\ Sextets(n) <= N
  <2>1. n \in Nat
    OBVIOUS
  <2> HIDE DEF n
  <2> QED
    BY <2>1, Lengths
<1>2. ToBase64(data) = f \o <<>>
  BY DEF ToBase64, CharAt, At
<1>3. \A k \in 1 .. N : char(k - 1) \in 0 .. 63
  <2> SUFFICES ASSUME NEW k \in 1 .. N PROVE char(k - 1) \in 0 .. 63
    OBVIOUS
  <2>1. (k - 1) \div 4 \in Nat /\ (k - 1) % 4 \in 0 .. 3
    BY <1>1
  <2> QED
    BY <2>1, CharTyped
<1>4. f \in Seq(0 .. 64) /\ Len(f) = N
  <2> HIDE DEF char, N, n
  <2> QED
    BY <1>1, <1>3 DEF Pad
<1>5. ToBase64(data) = f
  <2> HIDE DEF f
  <2> QED
    BY <1>2, <1>4
<1>6. ASSUME NEW q \in Nat, NEW r \in 0 .. 3, 4 * q + r + 1 <= Sextets(n)
      PROVE  f[4 * q + r + 1] = CharAt(data, q, r)
  <2>1. (4 * q + r) \div 4 = q /\ (4 * q + r) % 4 = r
    BY Places
  <2>2. 4 * q + r + 1 \in 1 .. N /\ 4 * q + r + 1 - 1 = 4 * q + r
    BY <1>1, <1>6
  <2>3. f[4 * q + r + 1] = char(4 * q + r + 1 - 1)
    BY <1>6, <2>2
  <2> QED
    BY <2>1, <2>2, <2>3
<1>7. ASSUME NEW k \in 1 .. N, k > Sextets(n) PROVE f[k] = Pad
  BY <1>1, <1>7
<1> HIDE DEF f, char
<1> QED
  BY <1>1, <1>4, <1>5, <1>6, <1>7

\* The bytes decoded at place 3 * q + r + 1.
ByteAt(chars, q, r) ==
    CASE r = 0 -> chars[4 * q + 1] * 4 + chars[4 * q + 2] \div 16
      [] r = 1 -> (chars[4 * q + 2] % 16) * 16 + chars[4 * q + 3] \div 4
      [] r = 2 -> (chars[4 * q + 3] % 4) * 64 + chars[4 * q + 4]

LEMMA ByteBack ==
    ASSUME NEW data \in Seq(Byte), NEW q \in Nat, NEW r \in 0 .. 2, 3 * q + r + 1 <= Len(data)
    PROVE  ByteAt(ToBase64(data), q, r) = data[3 * q + r + 1]
<1> DEFINE n == Len(data)
           chars == ToBase64(data)
           a == At(data, 3 * q + 1)
           b == At(data, 3 * q + 2)
           c == At(data, 3 * q + 3)
<1>1. n \in Nat
  OBVIOUS
<1>2. \A s \in 0 .. 3 : 4 * q + s + 1 <= Sextets(n) => chars[4 * q + s + 1] = CharAt(data, q, s)
  BY Encoded, Zenon
<1>3. /\ 4 * q + 1 <= Sextets(n) => chars[4 * q + 1] = a \div 4
      /\ 4 * q + 2 <= Sextets(n) => chars[4 * q + 2] = (a % 4) * 16 + b \div 16
      /\ 4 * q + 3 <= Sextets(n) => chars[4 * q + 3] = (b % 16) * 4 + c \div 64
      /\ 4 * q + 4 <= Sextets(n) => chars[4 * q + 4] = c % 64
  <2> DEFINE x0 == CharAt(data, q, 0)
             x1 == CharAt(data, q, 1)
             x2 == CharAt(data, q, 2)
             x3 == CharAt(data, q, 3)
  <2>1. x0 = a \div 4 /\ x1 = (a % 4) * 16 + b \div 16
        /\ x2 = (b % 16) * 4 + c \div 64 /\ x3 = c % 64
    BY DEF CharAt
  <2>2. /\ 4 * q + 1 <= Sextets(n) => chars[4 * q + 1] = x0
        /\ 4 * q + 2 <= Sextets(n) => chars[4 * q + 2] = x1
        /\ 4 * q + 3 <= Sextets(n) => chars[4 * q + 3] = x2
        /\ 4 * q + 4 <= Sextets(n) => chars[4 * q + 4] = x3
    <3>1. /\ 4 * q + 0 + 1 = 4 * q + 1 /\ 4 * q + 1 + 1 = 4 * q + 2
          /\ 4 * q + 2 + 1 = 4 * q + 3 /\ 4 * q + 3 + 1 = 4 * q + 4
          /\ 0 \in 0 .. 3 /\ 1 \in 0 .. 3 /\ 2 \in 0 .. 3 /\ 3 \in 0 .. 3
      OBVIOUS
    <3> HIDE DEF chars, n
    <3> QED
      BY <1>2, <3>1
  <2> HIDE DEF x0, x1, x2, x3, a, b, c, chars
  <2> QED
    BY <2>1, <2>2
<1>4. a \in Byte /\ b \in Byte /\ c \in Byte
  BY AtTyped
<1>5. /\ 3 * q + 1 <= n => 4 * q + 2 <= Sextets(n)
      /\ 3 * q + 2 <= n => 4 * q + 3 <= Sextets(n)
      /\ 3 * q + 3 <= n => 4 * q + 4 <= Sextets(n)
      /\ Sextets(n) \in Nat
  <2> HIDE DEF n
  <2> QED
    BY <1>1, CharactersOf, Lengths
<1>6. /\ 3 * q + 1 <= n => a = data[3 * q + 1]
      /\ 3 * q + 2 <= n => b = data[3 * q + 2]
      /\ 3 * q + 3 <= n => c = data[3 * q + 3]
  BY DEF At
<1>7. /\ (a \div 4) * 4 + ((a % 4) * 16 + b \div 16) \div 16 = a
      /\ (((a % 4) * 16 + b \div 16) % 16) * 16 + ((b % 16) * 4 + c \div 64) \div 4 = b
      /\ (((b % 16) * 4 + c \div 64) % 4) * 64 + (c % 64) = c
  BY <1>4, Triples
<1> HIDE DEF a, b, c, n, chars
<1>8. CASE r = 0
  <2>1. ByteAt(chars, q, r) = chars[4 * q + 1] * 4 + chars[4 * q + 2] \div 16
    BY <1>8 DEF ByteAt
  <2>2. 3 * q + 1 <= n /\ 3 * q + r + 1 = 3 * q + 1
    BY <1>1, <1>8 DEF n
  <2>3. 4 * q + 1 <= Sextets(n) /\ 4 * q + 2 <= Sextets(n)
    BY <1>1, <1>5, <2>2
  <2> QED
    BY <1>3, <1>6, <1>7, <2>1, <2>2, <2>3 DEF chars
<1>9. CASE r = 1
  <2>1. ByteAt(chars, q, r) = (chars[4 * q + 2] % 16) * 16 + chars[4 * q + 3] \div 4
    BY <1>9 DEF ByteAt
  <2>2. 3 * q + 2 <= n /\ 3 * q + r + 1 = 3 * q + 2
    BY <1>1, <1>9 DEF n
  <2>3. 4 * q + 2 <= Sextets(n) /\ 4 * q + 3 <= Sextets(n)
    BY <1>1, <1>5, <2>2
  <2> QED
    BY <1>3, <1>6, <1>7, <2>1, <2>2, <2>3 DEF chars
<1>10. CASE r = 2
  <2>1. ByteAt(chars, q, r) = (chars[4 * q + 3] % 4) * 64 + chars[4 * q + 4]
    BY <1>10 DEF ByteAt
  <2>2. 3 * q + 3 <= n /\ 3 * q + r + 1 = 3 * q + 3
    BY <1>1, <1>10 DEF n
  <2>3. 4 * q + 3 <= Sextets(n) /\ 4 * q + 4 <= Sextets(n)
    BY <1>1, <1>5, <2>2
  <2> QED
    BY <1>3, <1>6, <1>7, <2>1, <2>2, <2>3 DEF chars
<1> QED
  BY <1>8, <1>9, <1>10 DEF chars

\* What FsshttpBinaryReader decodes from what FsshttpBinaryWriter encodes is the
\* buffer itself, of whatever length and with whatever last group.
THEOREM Base64Inverse ==
    \A data \in Seq(Byte) : FromBase64(ToBase64(data)) = data
<1> SUFFICES ASSUME NEW data \in Seq(Byte) PROVE FromBase64(ToBase64(data)) = data
  OBVIOUS
<1> DEFINE n == Len(data)
           chars == ToBase64(data)
           S == Sextets(n)
<1>1. n \in Nat /\ DOMAIN data = 1 .. n
  OBVIOUS
<1>2. S \in Nat /\ S <= 4 * ((n + 2) \div 3) /\ (6 * S) \div 8 = n
  <2> HIDE DEF n
  <2> QED
    BY <1>1, Lengths
<1>3. /\ chars \in Seq(0 .. 64) /\ Len(chars) = 4 * ((n + 2) \div 3)
      /\ \A k \in 1 .. Len(chars) : k > S => chars[k] = Pad
      /\ \A q \in Nat : \A r \in 0 .. 3 :
            4 * q + r + 1 <= S => chars[4 * q + r + 1] = CharAt(data, q, r)
  BY Encoded, Zenon
<1>4. {k \in 1 .. Len(chars) : chars[k] # Pad} = 1 .. S
  <2>1. ASSUME NEW k \in 1 .. S PROVE chars[k] # Pad /\ k \in 1 .. Len(chars)
    <3> DEFINE q == (k - 1) \div 4
               r == (k - 1) % 4
    <3>1. q \in Nat /\ r \in 0 .. 3 /\ 4 * q + r + 1 = k /\ k <= S
      BY <1>2
    <3>2. k \in 1 .. Len(chars)
      BY <1>2, <1>3
    <3> HIDE DEF q, r
    <3>3. chars[k] = CharAt(data, q, r)
      <4> HIDE DEF chars, S
      <4> QED
        BY <1>3, <3>1
    <3>4. CharAt(data, q, r) \in 0 .. 63
      BY <3>1, CharTyped
    <3>5. \A x \in 0 .. 63 : x # Pad
      BY DEF Pad
    <3> HIDE DEF chars
    <3> QED
      BY <3>2, <3>3, <3>4, <3>5, Zenon
  <2> HIDE DEF chars, S
  <2> QED
    BY <1>2, <1>3, <2>1
<1>5. Cardinality({k \in 1 .. Len(chars) : chars[k] # Pad}) = S
  <2>1. Cardinality(1 .. S) = S
    <3> HIDE DEF S
    <3> QED
      BY <1>2, FS_Interval
  <2> QED
    BY <1>4, <2>1
<1> DEFINE f == [j \in 1 .. (6 * S) \div 8 |-> ByteAt(chars, (j - 1) \div 3, (j - 1) % 3)]
<1>6. FromBase64(chars) = f \o <<>>
  BY <1>5 DEF FromBase64, ByteAt
<1>7. \A j \in 1 .. n : ByteAt(chars, (j - 1) \div 3, (j - 1) % 3) = data[j]
  <2> SUFFICES ASSUME NEW j \in 1 .. n
               PROVE  ByteAt(chars, (j - 1) \div 3, (j - 1) % 3) = data[j]
    OBVIOUS
  <2> DEFINE q == (j - 1) \div 3
             r == (j - 1) % 3
  <2>1. q \in Nat /\ r \in 0 .. 2 /\ 3 * q + r + 1 = j /\ j <= n
    BY <1>1
  <2> HIDE DEF q, r
  <2> QED
    BY <2>1, ByteBack DEF q, r
<1>8. f = data
  <2>1. f = [j \in 1 .. n |-> data[j]]
    <3> HIDE DEF chars, S
    <3> QED
      BY <1>2, <1>7
  <2>2. data = [j \in 1 .. n |-> data[j]]
    BY <1>1
  <2> QED
    BY <2>1, <2>2, Zenon
<1>9. f \o <<>> = f
  <2> HIDE DEF f
  <2> QED
    BY <1>8
<1> QED
  BY <1>6, <1>8, <1>9, Zenon

-----------------------------------------------------------------------------
(* Numbers.                                                                *)

\* Numbers of four groups at most.
Small == {v \in Nat : v < 268435456}

LEMMA GroupsOf ==
    ASSUME NEW v \in Small
    PROVE  Groups(v) = IF v < 128 THEN 1 ELSE IF v < 16384 THEN 2
                       ELSE IF v < 2097152 THEN 3 ELSE 4
<1> DEFINE is(n) == v \div 128^(n - 1) < 128 /\ (n > 1 => v \div 128^(n - 1) > 0)
           g == IF v < 128 THEN 1 ELSE IF v < 16384 THEN 2 ELSE IF v < 2097152 THEN 3 ELSE 4
<1>1. /\ 128^(1 - 1) = 1 /\ 128^(2 - 1) = 128 /\ 128^(3 - 1) = 16384
      /\ 128^(4 - 1) = 2097152 /\ 128^(5 - 1) = 268435456
  OBVIOUS
<1>2. /\ is(1) <=> v < 128
      /\ is(2) <=> v \div 128 < 128 /\ v \div 128 > 0
      /\ is(3) <=> v \div 16384 < 128 /\ v \div 16384 > 0
      /\ is(4) <=> v \div 2097152 < 128 /\ v \div 2097152 > 0
      /\ is(5) <=> v \div 268435456 < 128 /\ v \div 268435456 > 0
  BY <1>1 DEF Small
<1>3. \A n \in 1 .. 5 : is(n) <=> n = g
  <2>1. \A n \in 1 .. 5 : n = 1 \/ n = 2 \/ n = 3 \/ n = 4 \/ n = 5
    OBVIOUS
  <2>2. (is(1) <=> 1 = g) /\ (is(2) <=> 2 = g) /\ (is(3) <=> 3 = g)
        /\ (is(4) <=> 4 = g) /\ (is(5) <=> 5 = g)
    <3> HIDE DEF is
    <3> QED
      BY <1>2 DEF Small
  <2> HIDE DEF is, g
  <2> QED
    BY <2>1, <2>2
<1>4. g \in 1 .. 5
  OBVIOUS
<1>5. Groups(v) = CHOOSE n \in 1 .. 5 : is(n)
  BY DEF Groups
<1> HIDE DEF is, g
<1>6. Groups(v) = g
  BY <1>3, <1>4, <1>5
<1> QED
  BY <1>6 DEF g

StandsAt(raw, pos, part) ==
    /\ pos \in Nat \ {0} /\ pos + Len(part) - 1 <= Len(raw)
    /\ \A i \in 1 .. Len(part) : raw[pos + i - 1] = part[i]

\* The number's groups of seven bits.
Digit(v, k) == (v \div 128^(k - 1)) % 128

LEMMA Digits ==
    ASSUME NEW v \in Small
    PROVE  /\ \A k \in 1 .. 4 : Digit(v, k) \in 0 .. 127
           /\ Digit(v, 1) = v % 128 /\ Digit(v, 2) = (v \div 128) % 128
           /\ Digit(v, 3) = (v \div 16384) % 128 /\ Digit(v, 4) = (v \div 2097152) % 128
<1>1. /\ 128^(1 - 1) = 1 /\ 128^(2 - 1) = 128 /\ 128^(3 - 1) = 16384
      /\ 128^(4 - 1) = 2097152
  BY SMT
<1>2. v \in Nat
  BY SMT DEF Small
<1>3. (v \div 1) % 128 = v % 128
  BY <1>2, SMT
<1>4. /\ Digit(v, 1) = v % 128 /\ Digit(v, 2) = (v \div 128) % 128
      /\ Digit(v, 3) = (v \div 16384) % 128 /\ Digit(v, 4) = (v \div 2097152) % 128
  BY <1>1, <1>3, SMT DEF Digit
<1>5. /\ v % 128 \in 0 .. 127 /\ (v \div 128) % 128 \in 0 .. 127
      /\ (v \div 16384) % 128 \in 0 .. 127 /\ (v \div 2097152) % 128 \in 0 .. 127
  BY <1>2, SMT
<1>6. \A k \in 1 .. 4 : k = 1 \/ k = 2 \/ k = 3 \/ k = 4
  OBVIOUS
<1> QED
  BY <1>4, <1>5, <1>6

LEMMA DigitTyped ==
    ASSUME NEW v \in Small, NEW k \in 1 .. 4
    PROVE  Digit(v, k) \in 0 .. 127 /\ Digit(v, k) \in Nat
BY Digits, SMT

LEMMA Written ==
    ASSUME NEW v \in Small
    PROVE  /\ Uvarint(v) \in Seq(Byte) /\ Len(Uvarint(v)) = Groups(v)
           /\ Groups(v) \in 1 .. 4
           /\ \A i \in 1 .. Groups(v) :
                 Uvarint(v)[i] = 2 * Digit(v, i) + (IF i = Groups(v) THEN 1 ELSE 0)
<1> DEFINE byte(i) == 2 * Digit(v, i) + (IF i = Groups(v) THEN 1 ELSE 0)
<1>1. Groups(v) \in 1 .. 4
  BY GroupsOf DEF Small
<1>2. Uvarint(v) = [i \in 1 .. Groups(v) |-> byte(i)]
  BY DEF Uvarint, Digit
<1>3. ASSUME NEW i \in 1 .. Groups(v) PROVE byte(i) \in Byte
  <2>1. Digit(v, i) \in 0 .. 127
    BY <1>1, DigitTyped
  <2> QED
    BY <2>1 DEF Byte
<1> HIDE DEF byte
<1>4. Uvarint(v) \in Seq(Byte) /\ Len(Uvarint(v)) = Groups(v)
  BY <1>1, <1>2, <1>3
<1>5. \A i \in 1 .. Groups(v) : Uvarint(v)[i] = byte(i)
  BY <1>2
<1> QED
  BY <1>1, <1>4, <1>5 DEF byte

\* The number's last byte is its only odd one.
LEMMA EndsFound ==
    ASSUME NEW v \in Small, NEW raw \in Seq(Byte), NEW pos, StandsAt(raw, pos, Uvarint(v))
    PROVE  UvarintBytes(raw, pos) = Groups(v)
<1> DEFINE g == Groups(v)
           ends == {k \in 1 .. 10 : pos + k - 1 <= Len(raw) /\ raw[pos + k - 1] % 2 = 1}
<1>1. /\ g \in 1 .. 4 /\ Len(Uvarint(v)) = g
      /\ \A i \in 1 .. g : Uvarint(v)[i] = 2 * Digit(v, i) + (IF i = g THEN 1 ELSE 0)
      /\ Uvarint(v) \in Seq(Byte)
  BY Written
<1>2. ASSUME NEW k \in 1 .. g PROVE Uvarint(v)[k] % 2 = 1 <=> k = g
  <2>1. Digit(v, k) \in Nat
    BY <1>1, DigitTyped
  <2>2. Uvarint(v)[k] = 2 * Digit(v, k) + (IF k = g THEN 1 ELSE 0)
    BY <1>1
  <2>3. (2 * Digit(v, k) + 1) % 2 = 1 /\ (2 * Digit(v, k) + 0) % 2 = 0
    BY <2>1
  <2> HIDE DEF g
  <2> QED
    BY <2>2, <2>3
<1>3. \A k \in 1 .. g : k \in ends <=> k = g
  <2> SUFFICES ASSUME NEW k \in 1 .. g PROVE k \in ends <=> k = g
    OBVIOUS
  <2>1. pos + k - 1 <= Len(raw) /\ raw[pos + k - 1] = Uvarint(v)[k] /\ k \in 1 .. 10
    BY <1>1 DEF StandsAt
  <2> QED
    BY <1>2, <2>1
<1>4. g \in ends /\ \A k \in ends : k \in 1 .. 10 /\ g <= k
  BY <1>1, <1>3
<1>5. UvarintBytes(raw, pos) = IF ends = {} THEN 0 ELSE Min(ends)
  BY DEF UvarintBytes
<1> HIDE DEF ends
<1>6. Min(ends) = g
  <2>1. Min(ends) = CHOOSE x \in ends : \A y \in ends : x <= y
    BY DEF Min
  <2>2. \A x \in ends : (\A y \in ends : x <= y) => x = g
    <3> HIDE DEF g
    <3> QED
      BY <1>1, <1>4
  <2> HIDE DEF g
  <2> QED
    BY <1>4, <2>1, <2>2
<1> QED
  BY <1>4, <1>5, <1>6

\* A number's groups are its own.
LEMMA GroupsAddUp ==
    ASSUME NEW v \in Nat, v < 268435456
    PROVE  /\ v < 128 => v = (v % 128)
           /\ v < 16384 => v = (v % 128) + ((v \div 128) % 128) * 128
           /\ v < 2097152 => v = (v % 128) + ((v \div 128) % 128) * 128
                                 + ((v \div 16384) % 128) * 16384
           /\ v = (v % 128) + ((v \div 128) % 128) * 128
                  + ((v \div 16384) % 128) * 16384 + ((v \div 2097152) % 128) * 2097152
<1>1. v \div 16384 = (v \div 128) \div 128 /\ v \div 2097152 = (v \div 16384) \div 128
  BY SMT
<1> DEFINE a == v \div 128
           b == v \div 16384
           c == v \div 2097152
<1>2. v = 128 * a + (v % 128) /\ a \in Nat
  BY SMT
<1>3. a = 128 * b + (a % 128) /\ b \in Nat
  BY <1>1, SMT
<1>4. b = 128 * c + (b % 128) /\ c \in Nat
  BY <1>1, SMT
<1>5. /\ v < 128 => a = 0
      /\ v < 16384 => b = 0
      /\ v < 2097152 => c = 0
      /\ c < 128
  BY SMT
<1>6. c % 128 = c
  BY <1>4, <1>5, SMT
<1>7. /\ v % 128 \in Nat /\ a % 128 \in Nat /\ b % 128 \in Nat
  BY <1>2, <1>3, <1>4, SMT
<1> DEFINE x == v % 128
           y == a % 128
           z == b % 128
<1>8. /\ x \in Nat /\ y \in Nat /\ z \in Nat /\ v = 128 * a + x
      /\ a = 128 * b + y /\ b = 128 * c + z
      /\ a \in Nat /\ b \in Nat /\ c \in Nat
      /\ v < 128 => a = 0
      /\ v < 16384 => b = 0
      /\ v < 2097152 => c = 0
  BY <1>2, <1>3, <1>4, <1>5, <1>7, SMT
<1> HIDE DEF x, y, z, a, b, c
<1>9. /\ v < 128 => v = x
      /\ v < 16384 => v = x + y * 128
      /\ v < 2097152 => v = x + y * 128 + z * 16384
      /\ v = x + y * 128 + z * 16384 + c * 2097152
  BY <1>8, SMT
<1> QED
  BY <1>6, <1>9, SMT DEF x, y, z, a, b, c

\* What writeUvarint has written tryReadUvarintAt reads, wherever it stands and
\* whatever comes after it, and it goes on right behind it.
THEOREM NumberReadsBack ==
    ASSUME NEW v \in Small, NEW raw \in Seq(Byte), NEW pos, StandsAt(raw, pos, Uvarint(v))
    PROVE  ReadUvarint(raw, pos) = [value |-> v, next |-> pos + Len(Uvarint(v))]
<1> DEFINE g == Groups(v)
           group(k) == IF k <= UvarintBytes(raw, pos) THEN raw[pos + k - 1] \div 2 ELSE 0
           high == (\E k \in 5 .. 9 : group(k) # 0) \/ group(10) % 2 # 0
           low == group(1) + group(2) * 128 + group(3) * 16384 + group(4) * 2097152
<1>1. /\ g \in 1 .. 4 /\ Len(Uvarint(v)) = g
      /\ \A i \in 1 .. g : Uvarint(v)[i] = 2 * Digit(v, i) + (IF i = g THEN 1 ELSE 0)
  BY Written
<1>2. UvarintBytes(raw, pos) = g
  BY EndsFound
<1>3. UvarintValue(raw, pos) = low
  <2>1. \A k \in 5 .. 10 : ~(k <= g)
    BY <1>1
  <2>2. \A k \in 5 .. 10 : group(k) = 0
    <3> HIDE DEF g
    <3> QED
      BY <1>2, <2>1
  <2>3. /\ \A k \in 5 .. 9 : k \in 5 .. 10
        /\ 10 \in 5 .. 10 /\ 0 % 2 = 0
    OBVIOUS
  <2>4. UvarintValue(raw, pos) = IF high THEN Huge ELSE low
    BY DEF UvarintValue
  <2> HIDE DEF group, low
  <2>5. ~high
    BY <2>2, <2>3, Zenon
  <2> QED
    BY <2>4, <2>5
<1>5. \A k \in 1 .. 4 : Digit(v, k) \in Nat
  BY DigitTyped, Zenon
<1>6. \A k \in 1 .. g : raw[pos + k - 1] \div 2 = Digit(v, k)
  <2> SUFFICES ASSUME NEW k \in 1 .. g PROVE raw[pos + k - 1] \div 2 = Digit(v, k)
    OBVIOUS
  <2>1. raw[pos + k - 1] = 2 * Digit(v, k) + (IF k = g THEN 1 ELSE 0)
    BY <1>1 DEF StandsAt
  <2>2. Digit(v, k) \in Nat
    BY <1>1, <1>5
  <2> HIDE DEF g
  <2>3. (2 * Digit(v, k) + 1) \div 2 = Digit(v, k) /\ (2 * Digit(v, k) + 0) \div 2 = Digit(v, k)
    BY <2>2
  <2> QED
    BY <2>1, <2>3
<1>7. /\ group(1) = Digit(v, 1)
      /\ group(2) = IF g >= 2 THEN Digit(v, 2) ELSE 0
      /\ group(3) = IF g >= 3 THEN Digit(v, 3) ELSE 0
      /\ group(4) = IF g >= 4 THEN Digit(v, 4) ELSE 0
  <2>1. ASSUME NEW k \in 1 .. 4 PROVE group(k) = IF k <= g THEN Digit(v, k) ELSE 0
    BY <1>1, <1>2, <1>6
  <2>2. /\ group(1) = IF 1 <= g THEN Digit(v, 1) ELSE 0
        /\ group(2) = IF 2 <= g THEN Digit(v, 2) ELSE 0
        /\ group(3) = IF 3 <= g THEN Digit(v, 3) ELSE 0
        /\ group(4) = IF 4 <= g THEN Digit(v, 4) ELSE 0
    <3> HIDE DEF group
    <3> QED
      BY <2>1
  <2> HIDE DEF group, g
  <2> QED
    BY <1>1, <2>2
<1>8. UvarintValue(raw, pos) = v
  <2>1. g = IF v < 128 THEN 1 ELSE IF v < 16384 THEN 2 ELSE IF v < 2097152 THEN 3 ELSE 4
    BY GroupsOf
  <2>2. v \in Nat /\ v < 268435456
    BY SMT DEF Small
  <2> DEFINE d1 == Digit(v, 1)
             d2 == Digit(v, 2)
             d3 == Digit(v, 3)
             d4 == Digit(v, 4)
  <2>3. /\ v < 128 => v = d1
        /\ v < 16384 => v = d1 + d2 * 128
        /\ v < 2097152 => v = d1 + d2 * 128 + d3 * 16384
        /\ v = d1 + d2 * 128 + d3 * 16384 + d4 * 2097152
    <3>1. /\ d1 = v % 128 /\ d2 = (v \div 128) % 128
          /\ d3 = (v \div 16384) % 128 /\ d4 = (v \div 2097152) % 128
      BY Digits, SMT
    <3> HIDE DEF d1, d2, d3, d4
    <3> QED
      BY <2>2, <3>1, GroupsAddUp, SMT
  <2>4. /\ group(1) = d1
        /\ group(2) = IF g >= 2 THEN d2 ELSE 0
        /\ group(3) = IF g >= 3 THEN d3 ELSE 0
        /\ group(4) = IF g >= 4 THEN d4 ELSE 0
    BY <1>7
  <2>5. d1 \in Nat /\ d2 \in Nat /\ d3 \in Nat /\ d4 \in Nat
    BY <1>5
  <2> HIDE DEF group, g, d1, d2, d3, d4
  <2>6. CASE v < 128
    BY <1>3, <2>1, <2>3, <2>4, <2>5, <2>6, SMT
  <2>7. CASE v \in Nat /\ 128 <= v /\ v < 16384
    BY <1>3, <2>1, <2>3, <2>4, <2>5, <2>7, SMT
  <2>8. CASE v \in Nat /\ 16384 <= v /\ v < 2097152
    BY <1>3, <2>1, <2>3, <2>4, <2>5, <2>8, SMT
  <2>9. CASE v \in Nat /\ 2097152 <= v
    BY <1>3, <2>1, <2>3, <2>4, <2>5, <2>9, SMT
  <2> QED
    BY <2>2, <2>6, <2>7, <2>8, <2>9, SMT
<1> HIDE DEF g
<1> QED
  BY <1>1, <1>2, <1>8 DEF ReadUvarint

-----------------------------------------------------------------------------
(* Headers and objects.                                                    *)

\* A short header's two bytes, and a long one's four, as they are read.
LEMMA ShortForm ==
    ASSUME NEW type \in 0 .. 63, NEW length \in 0 .. 63, NEW f \in {0, 2}
    PROVE  LET b0 == ((4 * type) % 256) + f
               b1 == 192 + (length % 64)
           IN  /\ b0 % 2 = 0 /\ (b0 \div 2) % 2 = f \div 2 /\ (b0 \div 4) % 64 = type
               /\ b1 % 64 = length /\ b1 >= 192
<1>1. (4 * type) % 256 = 4 * type /\ length % 64 = length
  OBVIOUS
<1>2. CASE f = 0
  BY <1>1, <1>2
<1>3. CASE f = 2
  BY <1>1, <1>3
<1> QED
  BY <1>2, <1>3

LEMMA LowBits ==
    ASSUME NEW low \in Nat, low < 64, NEW f \in {0, 2}
    PROVE  /\ (4 * low + f + 1) % 2 = 1 /\ ((4 * low + f + 1) \div 2) % 2 = f \div 2
           /\ 4 * low + f + 1 < 256 /\ 4 * low + f + 1 \in Nat
<1>1. /\ (4 * low + 1) % 2 = 1 /\ (4 * low + 1) \div 2 = 2 * low
      /\ (4 * low + 3) % 2 = 1 /\ (4 * low + 3) \div 2 = 2 * low + 1
  BY SMT
<1>2. (2 * low) % 2 = 0 /\ (2 * low + 1) % 2 = 1 /\ 0 \div 2 = 0 /\ 2 \div 2 = 1
  BY SMT
<1>3. f = 0 => 4 * low + f + 1 = 4 * low + 1
  BY SMT
<1>4. f = 2 => 4 * low + f + 1 = 4 * low + 3
  BY SMT
<1>5. 4 * low + f + 1 < 256 /\ 4 * low + f + 1 \in Nat
  BY SMT
<1> QED
  BY <1>1, <1>2, <1>3, <1>4, <1>5

LEMMA LengthBytes ==
    ASSUME NEW length \in Nat, length < 32768
    PROVE  /\ (length % 256) + 256 * ((length \div 256) % 128) = length
           /\ length % 32768 = length /\ (length \div 256) % 128 < 128
<1> DEFINE q == length \div 256
<1>1. q \in Nat /\ q < 128 /\ length = 256 * q + (length % 256)
  BY SMT
<1>2. length % 32768 = length
  BY SMT
<1>3. q % 128 = q
  <2> HIDE DEF q
  <2> QED
    BY <1>1, SMT
<1> QED
  BY <1>1, <1>2, <1>3

LEMMA LongForm ==
    ASSUME NEW type \in Nat, type < 16384, NEW length \in Nat, length < 32768, NEW f \in {0, 2}
    PROVE  LET b0 == (4 * type + f + 1) % 256
               b1 == (4 * type) \div 256
               b2 == length % 256
               b3 == (length \div 256) % 128
           IN  /\ b0 % 2 = 1 /\ (b0 \div 2) % 2 = f \div 2
               /\ (b0 + 256 * b1) \div 4 = type
               /\ b2 + 256 * b3 = length /\ length % 32768 = length /\ b3 < 128
<1> DEFINE low == type % 64
           high == type \div 64
<1>1. type = 64 * high + low /\ low \in Nat /\ low < 64 /\ high \in Nat
  OBVIOUS
<1> HIDE DEF low, high
<1>2. (4 * type) \div 256 = high
  BY <1>1, SMT
<1>3. (4 * type + f + 1) % 256 = 4 * low + f + 1
  <2> DEFINE b == 4 * low + f + 1
  <2>1. b \in Nat /\ b < 256
    BY <1>1, LowBits
  <2>2. 4 * type + f + 1 = 256 * high + b
    BY <1>1
  <2> HIDE DEF b
  <2>3. (256 * high + b) % 256 = b
    BY <1>1, <2>1
  <2> QED
    BY <2>2, <2>3 DEF b
<1>4. (4 * low + f + 1) % 2 = 1 /\ ((4 * low + f + 1) \div 2) % 2 = f \div 2
  BY <1>1, LowBits
<1>5. (4 * low + f + 1 + 256 * high) \div 4 = type
  BY <1>1, SMT
<1>6. /\ (length % 256) + 256 * ((length \div 256) % 128) = length
      /\ length % 32768 = length /\ (length \div 256) % 128 < 128
  BY LengthBytes
<1> DEFINE b0 == (4 * type + f + 1) % 256
           b1 == (4 * type) \div 256
<1>7. b0 % 2 = 1 /\ (b0 \div 2) % 2 = f \div 2
  <2> DEFINE x == 4 * low + f + 1
  <2>1. b0 = x
    BY <1>3
  <2>2. x % 2 = 1 /\ (x \div 2) % 2 = f \div 2
    BY <1>4
  <2> HIDE DEF b0, x
  <2> QED
    BY <2>1, <2>2
<1>8. (b0 + 256 * b1) \div 4 = type
  <2>1. b0 = 4 * low + f + 1 /\ b1 = high
    BY <1>2, <1>3
  <2> HIDE DEF b0, b1
  <2> QED
    BY <1>5, <2>1
<1> QED
  BY <1>6, <1>7, <1>8

\* What writeStreamHeader has written readStreamHeader reads: type, length and
\* whether it is compound, in either form, wherever the header stands.
THEOREM HeaderReadsBack ==
    ASSUME NEW type \in Nat, type < 16384, NEW length \in Nat, length < 32768,
           NEW compound \in BOOLEAN, NEW raw \in Seq(Byte), NEW pos,
           StandsAt(raw, pos, Header(type, length, compound))
    PROVE  ReadStreamHeader(raw, pos) =
              {[compound |-> compound, type |-> type, length |-> length,
                next |-> pos + Len(Header(type, length, compound))]}
<1> DEFINE f == Flag(compound)
           word(i) == raw[i] + 256 * raw[i + 1]
           long == pos <= Len(raw) /\ raw[pos] % 2 = 1
           next == pos + (IF long THEN 4 ELSE 2)
<1>1. f \in {0, 2} /\ (f \div 2 = 1 <=> compound)
  BY DEF Flag
<1>2. pos \in Nat \ {0} /\ Len(raw) \in Nat
  BY DEF StandsAt
<1>3. ReadStreamHeader(raw, pos) =
         IF next > Len(raw) + 1 THEN {}
         ELSE {[compound |-> (raw[pos] \div 2) % 2 = 1, next |-> next,
                type   |-> IF long THEN word(pos) \div 4 ELSE (raw[pos] \div 4) % 64,
                length |-> IF long THEN word(pos + 2) % 32768 ELSE raw[pos + 1] % 64]}
  BY DEF ReadStreamHeader
<1>4. CASE ~NeedsLong(type, length)
  <2>1. type \in 0 .. 63 /\ length \in 0 .. 63
    BY <1>4 DEF NeedsLong
  <2>2. Header(type, length, compound) = << ((4 * type) % 256) + f, 192 + (length % 64) >>
    BY <1>4 DEF Header, StreamHeader16
  <2>3. /\ pos + 1 <= Len(raw) /\ Len(Header(type, length, compound)) = 2
        /\ raw[pos] = ((4 * type) % 256) + f /\ raw[pos + 1] = 192 + (length % 64)
    <3> DEFINE h == Header(type, length, compound)
    <3>1. Len(h) = 2 /\ h[1] = ((4 * type) % 256) + f /\ h[2] = 192 + (length % 64)
      <4> HIDE DEF f
      <4> QED
        BY <2>2
    <3>2. pos + 2 - 1 <= Len(raw) /\ \A i \in 1 .. 2 : raw[pos + i - 1] = h[i]
      <4> HIDE DEF h
      <4> QED
        BY <3>1 DEF StandsAt, h
    <3>3. pos + 1 - 1 = pos /\ pos + 2 - 1 = pos + 1
      BY <1>2
    <3>4. raw[pos + 1 - 1] = h[1] /\ raw[pos + 2 - 1] = h[2]
      BY <3>2
    <3> HIDE DEF h, f
    <3> QED
      BY <3>1, <3>2, <3>3, <3>4 DEF h
  <2>4. /\ raw[pos] % 2 = 0 /\ (raw[pos] \div 2) % 2 = f \div 2 /\ (raw[pos] \div 4) % 64 = type
        /\ raw[pos + 1] % 64 = length
    <3> DEFINE b0 == ((4 * type) % 256) + f
               b1 == 192 + (length % 64)
    <3>1. /\ b0 % 2 = 0 /\ (b0 \div 2) % 2 = f \div 2 /\ (b0 \div 4) % 64 = type
          /\ b1 % 64 = length
      <4> HIDE DEF f
      <4> QED
        BY <1>1, <2>1, ShortForm, SMTT(30)
    <3>2. raw[pos] = b0 /\ raw[pos + 1] = b1
      BY <2>3
    <3> HIDE DEF b0, b1, f
    <3> QED
      BY <3>1, <3>2
  <2>5. ~long /\ next = pos + 2
    BY <2>4
  <2>6. ~(next > Len(raw) + 1)
    BY <1>2, <2>3, <2>5
  <2>7. (raw[pos] \div 2) % 2 = f \div 2 /\ (raw[pos] \div 4) % 64 = type
        /\ raw[pos + 1] % 64 = length
    BY <2>4
  <2> HIDE DEF long, next, f, word
  <2> QED
    BY <1>1, <1>3, <2>3, <2>5, <2>6, <2>7
<1>5. CASE NeedsLong(type, length)
  <2> DEFINE b0 == (4 * type + f + 1) % 256
             b1 == (4 * type) \div 256
             b2 == length % 256
             b3 == (length \div 256) % 128
  <2>1. Header(type, length, compound) = <<b0, b1, b2, b3>>
    BY <1>5 DEF Header, StreamHeader32
  <2>2. /\ pos + 3 <= Len(raw) /\ Len(Header(type, length, compound)) = 4
        /\ raw[pos] = b0 /\ raw[pos + 1] = b1 /\ raw[pos + 2] = b2 /\ raw[pos + 3] = b3
    <3> DEFINE h == Header(type, length, compound)
    <3>1. Len(h) = 4 /\ h[1] = b0 /\ h[2] = b1 /\ h[3] = b2 /\ h[4] = b3
      <4> HIDE DEF b0, b1, b2, b3
      <4> QED
        BY <2>1
    <3>2. pos + 4 - 1 <= Len(raw) /\ \A i \in 1 .. 4 : raw[pos + i - 1] = h[i]
      <4> HIDE DEF h
      <4> QED
        BY <3>1 DEF StandsAt, h
    <3>3. /\ pos + 1 - 1 = pos /\ pos + 2 - 1 = pos + 1
          /\ pos + 3 - 1 = pos + 2 /\ pos + 4 - 1 = pos + 3
      BY <1>2
    <3>4. /\ raw[pos + 1 - 1] = h[1] /\ raw[pos + 2 - 1] = h[2]
          /\ raw[pos + 3 - 1] = h[3] /\ raw[pos + 4 - 1] = h[4]
      BY <3>2
    <3> HIDE DEF h, b0, b1, b2, b3
    <3> QED
      BY <3>1, <3>2, <3>3, <3>4 DEF h
  <2>3. /\ b0 % 2 = 1 /\ (b0 \div 2) % 2 = f \div 2 /\ (b0 + 256 * b1) \div 4 = type
        /\ b2 + 256 * b3 = length /\ length % 32768 = length
    <3> HIDE DEF f
    <3> QED
      BY <1>1, LongForm
  <2> HIDE DEF b0, b1, b2, b3
  <2>4. long /\ next = pos + 4
    BY <1>2, <2>2, <2>3
  <2>5. ~(next > Len(raw) + 1)
    BY <1>2, <2>2, <2>4
  <2>6. word(pos) \div 4 = type /\ word(pos + 2) % 32768 = length
    <3>1. pos + 2 + 1 = pos + 3
      BY <1>2
    <3> QED
      BY <2>2, <2>3, <3>1
  <2>7. (raw[pos] \div 2) % 2 = f \div 2
    BY <2>2, <2>3
  <2> HIDE DEF long, next, f, word
  <2> QED
    BY <1>1, <1>3, <2>2, <2>4, <2>5, <2>6, <2>7
<1> QED
  BY <1>4, <1>5

LEMMA PartsStand ==
    ASSUME NEW raw \in Seq(Byte), NEW pos, NEW a \in Seq(Int), NEW b \in Seq(Int),
           StandsAt(raw, pos, a \o b)
    PROVE  StandsAt(raw, pos, a) /\ StandsAt(raw, pos + Len(a), b)
<1>1. /\ Len(a) \in Nat /\ Len(b) \in Nat /\ Len(raw) \in Nat
      /\ Len(a \o b) = Len(a) + Len(b)
      /\ pos \in Nat \ {0} /\ pos + Len(a \o b) - 1 <= Len(raw)
      /\ \A i \in 1 .. Len(a \o b) : raw[pos + i - 1] = (a \o b)[i]
  BY DEF StandsAt
<1>2. \A i \in 1 .. Len(a) : raw[pos + i - 1] = a[i]
  <2> SUFFICES ASSUME NEW i \in 1 .. Len(a) PROVE raw[pos + i - 1] = a[i]
    OBVIOUS
  <2>1. i \in 1 .. Len(a \o b) /\ (a \o b)[i] = a[i]
    BY <1>1
  <2> QED
    BY <1>1, <2>1
<1>3. \A i \in 1 .. Len(b) : raw[pos + Len(a) + i - 1] = b[i]
  <2> SUFFICES ASSUME NEW i \in 1 .. Len(b) PROVE raw[pos + Len(a) + i - 1] = b[i]
    OBVIOUS
  <2> DEFINE j == Len(a) + i
  <2>1. j \in 1 .. Len(a \o b) /\ (a \o b)[j] = b[i]
    BY <1>1
  <2>2. pos + Len(a) + i - 1 = pos + j - 1
    BY <1>1
  <2> HIDE DEF j
  <2>3. raw[pos + j - 1] = (a \o b)[j]
    BY <1>1, <2>1
  <2> QED
    BY <2>1, <2>2, <2>3
<1> QED
  BY <1>1, <1>2, <1>3 DEF StandsAt

\* What a length's 15 bits hold stays below this.
TwoTo15 == 32768

LEMMA LengthParts ==
    ASSUME NEW length \in Nat, length < TwoTo15
    PROVE  /\ (length % 256) + 256 * ((length \div 256) % 128) = length
           /\ (length \div 256) % 128 < 128
BY LengthBytes, SMT DEF TwoTo15

LEMMA HeaderTyped ==
    ASSUME NEW length \in Nat, length < TwoTo15
    PROVE  Header(ObjectBytes, length, FALSE) =
              IF length > 63 THEN <<241, 0, length % 256, (length \div 256) % 128>>
                             ELSE <<240, 192 + (length % 64)>>
<1>1. /\ (4 * 60 + 0 + 1) % 256 = 241 /\ (4 * 60) \div 256 = 0
      /\ ((4 * 60) % 256) + 0 = 240 /\ ~(60 > 63)
  BY SMT
<1>2. NeedsLong(60, length) <=> length > 63
  BY <1>1 DEF NeedsLong
<1> QED
  BY <1>1, <1>2 DEF Header, ObjectBytes, StreamHeader16, StreamHeader32, Flag

LEMMA FrameStands ==
    ASSUME NEW raw \in Seq(Byte), NEW pos, NEW head \in Seq(Int), NEW u \in Seq(Int),
           NEW bytes \in Seq(Int), StandsAt(raw, pos, head \o (u \o bytes))
    PROVE  /\ StandsAt(raw, pos, head) /\ StandsAt(raw, pos + Len(head), u)
           /\ StandsAt(raw, pos + Len(head) + Len(u), bytes)
           /\ Len(head \o (u \o bytes)) = Len(head) + Len(u) + Len(bytes)
<1>1. u \o bytes \in Seq(Int) /\ Len(u \o bytes) = Len(u) + Len(bytes)
  OBVIOUS
<1>2. StandsAt(raw, pos, head) /\ StandsAt(raw, pos + Len(head), u \o bytes)
  BY <1>1, PartsStand
<1>3. StandsAt(raw, pos + Len(head), u) /\ StandsAt(raw, pos + Len(head) + Len(u), bytes)
  BY <1>2, PartsStand
<1>4. Len(head \o (u \o bytes)) = Len(head) + Len(u) + Len(bytes)
  BY <1>1
<1> QED
  BY <1>2, <1>3, <1>4

LEMMA StandingBytes ==
    ASSUME NEW raw \in Seq(Byte), NEW pos, NEW part, StandsAt(raw, pos, part)
    PROVE  /\ pos \in Nat \ {0} /\ Len(raw) \in Nat
           /\ Len(part) = 2 =>
                 raw[pos] = part[1] /\ raw[pos + 1] = part[2] /\ pos + 1 <= Len(raw)
           /\ Len(part) = 4 =>
                 /\ raw[pos] = part[1] /\ raw[pos + 1] = part[2]
                 /\ raw[pos + 2] = part[3] /\ raw[pos + 3] = part[4] /\ pos + 3 <= Len(raw)
<1>1. pos \in Nat \ {0} /\ Len(raw) \in Nat
  BY DEF StandsAt
<1>2. /\ pos + 1 - 1 = pos /\ pos + 2 - 1 = pos + 1
      /\ pos + 3 - 1 = pos + 2 /\ pos + 4 - 1 = pos + 3
  BY <1>1
<1>3. ASSUME NEW i \in 1 .. Len(part) PROVE raw[pos + i - 1] = part[i]
  BY DEF StandsAt
<1>4. CASE Len(part) = 2
  <2>1. raw[pos + 1 - 1] = part[1] /\ raw[pos + 2 - 1] = part[2] /\ pos + 2 - 1 <= Len(raw)
    BY <1>3, <1>4 DEF StandsAt
  <2> QED
    BY <1>1, <1>2, <1>4, <2>1
<1>5. CASE Len(part) = 4
  <2>1. /\ raw[pos + 1 - 1] = part[1] /\ raw[pos + 2 - 1] = part[2]
        /\ raw[pos + 3 - 1] = part[3] /\ raw[pos + 4 - 1] = part[4]
        /\ pos + 4 - 1 <= Len(raw)
    BY <1>3, <1>5 DEF StandsAt
  <2> QED
    BY <1>1, <1>2, <1>5, <2>1
<1> QED
  BY <1>1, <1>4, <1>5

Marked(raw, pos) ==
    raw[pos] \in {240, 241} /\ (LongHeaderAt(raw, pos) \/ ShortHeaderAt(raw, pos))

\* The header of an object is one of those extractOoxmlBlobs looks for.
LEMMA HeaderFound ==
    ASSUME NEW raw \in Seq(Byte), NEW pos, NEW length \in Nat, length < TwoTo15,
           StandsAt(raw, pos, Header(ObjectBytes, length, FALSE))
    PROVE  /\ BodyAt(raw, pos).from = pos + Len(Header(ObjectBytes, length, FALSE))
           /\ BodyAt(raw, pos).length = length
           /\ Marked(raw, pos)
           /\ Header(ObjectBytes, length, FALSE) \in Seq(Int)
           /\ Len(Header(ObjectBytes, length, FALSE)) \in {2, 4}
<1> DEFINE head == Header(ObjectBytes, length, FALSE)
<1>1. head = IF length > 63 THEN <<241, 0, length % 256, (length \div 256) % 128>>
                            ELSE <<240, 192 + (length % 64)>>
  BY HeaderTyped
<1>2. StandsAt(raw, pos, head)
  OBVIOUS
<1> HIDE DEF head
<1>3. CASE length > 63
  <2>1. /\ Len(head) = 4 /\ head[1] = 241 /\ head[2] = 0 /\ head \in Seq(Int)
        /\ head[3] = length % 256 /\ head[4] = (length \div 256) % 128
    BY <1>1, <1>3
  <2>2. /\ raw[pos] = 241 /\ raw[pos + 1] = 0 /\ raw[pos + 2] = length % 256
        /\ raw[pos + 3] = (length \div 256) % 128 /\ pos + 3 <= Len(raw)
    <3>1. Len(head) = 4
      BY <2>1
    <3>2. /\ raw[pos] = head[1] /\ raw[pos + 1] = head[2]
          /\ raw[pos + 2] = head[3] /\ raw[pos + 3] = head[4] /\ pos + 3 <= Len(raw)
      BY <1>2, <3>1, StandingBytes, Zenon
    <3> QED
      BY <2>1, <3>2
  <2>3. (length % 256) + 256 * ((length \div 256) % 128) = length /\ (length \div 256) % 128 < 128
    BY LengthParts
  <2>4. LongHeaderAt(raw, pos)
    BY <2>2, <2>3 DEF LongHeaderAt
  <2>5. raw[pos + 2] + 256 * raw[pos + 3] = length
    BY <2>2, <2>3
  <2>6. BodyAt(raw, pos).from = pos + Len(head) /\ BodyAt(raw, pos).length = length
    BY <2>1, <2>4, <2>5 DEF BodyAt
  <2>7. Marked(raw, pos)
    BY <2>2, <2>4 DEF Marked
  <2> QED
    BY <2>1, <2>6, <2>7, Zenon DEF head
<1>4. CASE ~(length > 63)
  <2>1. Len(head) = 2 /\ head[1] = 240 /\ head[2] = 192 + (length % 64) /\ head \in Seq(Int)
    BY <1>1, <1>4
  <2>2. raw[pos] = 240 /\ raw[pos + 1] = 192 + (length % 64)
    <3>1. Len(head) = 2
      BY <2>1
    <3>2. raw[pos] = head[1] /\ raw[pos + 1] = head[2]
      BY <1>2, <3>1, StandingBytes, Zenon
    <3> QED
      BY <2>1, <3>2
  <2>3. length % 64 = length /\ (192 + length) % 64 = length
    BY <1>4
  <2>4. ShortHeaderAt(raw, pos) /\ ~LongHeaderAt(raw, pos)
    BY <2>2, <2>3 DEF ShortHeaderAt, LongHeaderAt
  <2>5. raw[pos + 1] % 64 = length
    BY <2>2, <2>3
  <2>6. BodyAt(raw, pos).from = pos + Len(head) /\ BodyAt(raw, pos).length = length
    BY <2>1, <2>4, <2>5 DEF BodyAt
  <2>7. Marked(raw, pos)
    BY <2>2, <2>4 DEF Marked
  <2> QED
    BY <2>1, <2>6, <2>7, Zenon DEF head
<1> QED
  BY <1>3, <1>4

LEMMA CutOut ==
    ASSUME NEW raw \in Seq(Byte), NEW from, NEW bytes \in Seq(Byte), StandsAt(raw, from, bytes)
    PROVE  SubSeq(raw, from, from + Len(bytes) - 1) = bytes
<1> DEFINE n == Len(bytes)
<1>1. /\ n \in Nat /\ from \in Nat \ {0} /\ from + n - 1 <= Len(raw)
      /\ \A i \in 1 .. n : raw[from + i - 1] = bytes[i]
      /\ bytes = [i \in 1 .. n |-> bytes[i]]
  BY DEF StandsAt
<1> HIDE DEF n
<1>2. SubSeq(raw, from, from + n - 1) = [i \in 1 .. n |-> raw[from + i - 1]]
  BY <1>1
<1>3. [i \in 1 .. n |-> raw[from + i - 1]] = [i \in 1 .. n |-> bytes[i]]
  BY <1>1
<1> QED
  BY <1>1, <1>2, <1>3 DEF n

LEMMA AsInts == \A s \in Seq(Byte) : s \in Seq(Int)
<1> SUFFICES ASSUME NEW s \in Seq(Byte) PROVE s \in Seq(Int)
  OBVIOUS
<1>1. Len(s) \in Nat /\ DOMAIN s = 1 .. Len(s) /\ s = [i \in 1 .. Len(s) |-> s[i]]
  OBVIOUS
<1>2. ASSUME NEW b \in Byte PROVE b \in Int
  BY DEF Byte
<1>3. ASSUME NEW i \in 1 .. Len(s) PROVE s[i] \in Int
  <2>1. s[i] \in Byte
    OBVIOUS
  <2> QED
    BY <1>2, <2>1
<1>4. ASSUME NEW n \in Nat, \A i \in 1 .. n : s[i] \in Int
      PROVE  [i \in 1 .. n |-> s[i]] \in Seq(Int)
  BY <1>4
<1> QED
  BY <1>1, <1>3, <1>4

\* The same number of bytes said of a size, its number and an object's length.
LEMMA SizeBounds ==
    ASSUME NEW n \in Nat, n < TwoTo15
    PROVE  /\ n \in Small /\ Uvarint(n) \in Seq(Int) /\ Len(Uvarint(n)) \in 1 .. 4
           /\ Len(Uvarint(n)) = Groups(n)
<1>1. n \in Small
  BY SMT DEF Small, TwoTo15
<1> QED
  BY <1>1, Written, AsInts

\* The parts of a document's object: its header, its size, its body's length, and
\* where its body begins.
SizeOf(bytes) == Uvarint(Len(bytes))
LengthOf(bytes) == Len(SizeOf(bytes)) + Len(bytes)
HeadOf(bytes) == Header(ObjectBytes, LengthOf(bytes), FALSE)
StartOf(pos, bytes) == pos + Len(HeadOf(bytes))

\* Its size and its bytes together fit the 15 bits.
Fits(bytes) == bytes \in Seq(Byte) /\ Len(bytes) \in Nat /\ Len(bytes) + 3 < TwoTo15

LEMMA Below == ASSUME NEW n \in Nat, n + 3 < TwoTo15 PROVE n < TwoTo15
BY SMT DEF TwoTo15

LEMMA SizeTyped ==
    ASSUME NEW bytes, Fits(bytes)
    PROVE  /\ Len(bytes) \in Small
           /\ SizeOf(bytes) \in Seq(Int) /\ Len(SizeOf(bytes)) \in 1 .. 3
           /\ Len(SizeOf(bytes)) = Groups(Len(bytes))
<1>1. ASSUME NEW n \in Nat, n + 3 < TwoTo15
      PROVE  /\ n \in Small /\ Uvarint(n) \in Seq(Int) /\ Len(Uvarint(n)) \in 1 .. 3
             /\ Len(Uvarint(n)) = Groups(n)
  <2>1. /\ n \in Small /\ Uvarint(n) \in Seq(Int) /\ Len(Uvarint(n)) \in 1 .. 4
        /\ Len(Uvarint(n)) = Groups(n)
    BY <1>1, Below, SizeBounds
  <2>2. Groups(n) \in 1 .. 3
    BY <1>1, <2>1, GroupsOf, SMT DEF TwoTo15
  <2> QED
    BY <2>1, <2>2
<1> QED
  BY <1>1 DEF SizeOf, Fits

LEMMA LengthTyped ==
    ASSUME NEW bytes, Fits(bytes)
    PROVE  LengthOf(bytes) \in Nat /\ LengthOf(bytes) > 0 /\ LengthOf(bytes) < TwoTo15
<1>1. Len(SizeOf(bytes)) \in 1 .. 3
  BY SizeTyped
<1>2. ASSUME NEW a \in 1 .. 3, NEW b \in Nat, b + 3 < TwoTo15
      PROVE  a + b \in Nat /\ a + b > 0 /\ a + b < TwoTo15
  BY <1>2, SMT DEF TwoTo15
<1> QED
  BY <1>1, <1>2 DEF LengthOf, Fits

LEMMA HeadTyped ==
    ASSUME NEW bytes, Fits(bytes)
    PROVE  HeadOf(bytes) \in Seq(Int) /\ Len(HeadOf(bytes)) \in {2, 4}
<1>1. ASSUME NEW n \in Nat, n < TwoTo15
      PROVE  /\ Header(ObjectBytes, n, FALSE) \in Seq(Int)
             /\ Len(Header(ObjectBytes, n, FALSE)) \in {2, 4}
  <2>1. Header(ObjectBytes, n, FALSE) =
           IF n > 63 THEN <<241, 0, n % 256, (n \div 256) % 128>> ELSE <<240, 192 + (n % 64)>>
    BY <1>1, HeaderTyped
  <2> DEFINE head == Header(ObjectBytes, n, FALSE)
  <2>2. head = IF n > 63 THEN <<241, 0, n % 256, (n \div 256) % 128>> ELSE <<240, 192 + (n % 64)>>
    BY <2>1
  <2> HIDE DEF head
  <2>3. CASE n > 63
    <3>1. Len(head) = 4 /\ head \in Seq(Int)
      BY <2>2, <2>3
    <3> QED
      BY <3>1 DEF head
  <2>4. CASE ~(n > 63)
    <3>1. Len(head) = 2 /\ head \in Seq(Int)
      BY <2>2, <2>4
    <3> QED
      BY <3>1 DEF head
  <2> QED
    BY <2>3, <2>4
<1> QED
  BY <1>1, LengthTyped DEF HeadOf

LEMMA ObjectParts ==
    ASSUME NEW bytes, Fits(bytes)
    PROVE  Object(bytes) = HeadOf(bytes) \o (SizeOf(bytes) \o bytes)
<1>1. ASSUME NEW u \in Seq(Int), NEW b \in Seq(Int) PROVE Len(u \o b) = Len(u) + Len(b)
  OBVIOUS
<1>2. Len(SizeOf(bytes) \o bytes) = LengthOf(bytes)
  BY <1>1, SizeTyped, AsInts DEF LengthOf, Fits
<1>3. Object(bytes) = Header(ObjectBytes, Len(SizeOf(bytes) \o bytes), FALSE) \o (SizeOf(bytes) \o bytes)
  BY Zenon DEF Object, SizeOf
<1> QED
  BY <1>2, <1>3, Zenon DEF HeadOf

LEMMA ObjectStands ==
    ASSUME NEW bytes, Fits(bytes), NEW raw \in Seq(Byte), NEW pos,
           StandsAt(raw, pos, Object(bytes))
    PROVE  /\ StandsAt(raw, pos, HeadOf(bytes)) /\ StandsAt(raw, StartOf(pos, bytes), SizeOf(bytes))
           /\ StandsAt(raw, StartOf(pos, bytes) + Len(SizeOf(bytes)), bytes)
           /\ Len(Object(bytes)) = Len(HeadOf(bytes)) + Len(SizeOf(bytes)) + Len(bytes)
<1>1. StandsAt(raw, pos, HeadOf(bytes) \o (SizeOf(bytes) \o bytes))
  BY ObjectParts, Zenon
<1>2. HeadOf(bytes) \in Seq(Int) /\ SizeOf(bytes) \in Seq(Int) /\ bytes \in Seq(Int)
  BY HeadTyped, SizeTyped, AsInts DEF Fits
<1>3. /\ StandsAt(raw, pos, HeadOf(bytes))
      /\ StandsAt(raw, pos + Len(HeadOf(bytes)), SizeOf(bytes))
      /\ StandsAt(raw, pos + Len(HeadOf(bytes)) + Len(SizeOf(bytes)), bytes)
      /\ Len(HeadOf(bytes) \o (SizeOf(bytes) \o bytes))
            = Len(HeadOf(bytes)) + Len(SizeOf(bytes)) + Len(bytes)
  <2>1. ASSUME NEW h \in Seq(Int), NEW u \in Seq(Int), NEW b \in Seq(Int),
               StandsAt(raw, pos, h \o (u \o b))
        PROVE  /\ StandsAt(raw, pos, h) /\ StandsAt(raw, pos + Len(h), u)
               /\ StandsAt(raw, pos + Len(h) + Len(u), b)
               /\ Len(h \o (u \o b)) = Len(h) + Len(u) + Len(b)
    BY <2>1, FrameStands
  <2> QED
    BY <1>1, <1>2, <2>1, Zenon
<1> QED
  BY <1>3, ObjectParts, Zenon DEF StartOf

LEMMA HeadFound ==
    ASSUME NEW bytes, Fits(bytes), NEW raw \in Seq(Byte), NEW pos,
           StandsAt(raw, pos, HeadOf(bytes))
    PROVE  /\ BodyAt(raw, pos).from = StartOf(pos, bytes)
           /\ BodyAt(raw, pos).length = LengthOf(bytes)
           /\ Marked(raw, pos)
<1>1. ASSUME NEW n \in Nat, n < TwoTo15, StandsAt(raw, pos, Header(ObjectBytes, n, FALSE))
      PROVE  /\ BodyAt(raw, pos).from = pos + Len(Header(ObjectBytes, n, FALSE))
             /\ BodyAt(raw, pos).length = n
             /\ Marked(raw, pos)
  BY <1>1, HeaderFound
<1>2. LengthOf(bytes) \in Nat /\ LengthOf(bytes) < TwoTo15
  BY LengthTyped
<1>3. StandsAt(raw, pos, Header(ObjectBytes, LengthOf(bytes), FALSE))
  BY Zenon DEF HeadOf
<1> QED
  BY <1>1, <1>2, <1>3, Zenon DEF StartOf, HeadOf

LEMMA SizeRead ==
    ASSUME NEW bytes, Fits(bytes), NEW raw \in Seq(Byte), NEW at, StandsAt(raw, at, SizeOf(bytes))
    PROVE  UvarintBytes(raw, at) = Len(SizeOf(bytes)) /\ UvarintValue(raw, at) = Len(bytes)
<1>1. ASSUME NEW n \in Small, StandsAt(raw, at, Uvarint(n))
      PROVE  UvarintBytes(raw, at) = Groups(n) /\ UvarintValue(raw, at) = n
  <2>1. UvarintBytes(raw, at) = Groups(n)
    BY <1>1, EndsFound, Zenon
  <2>2. ReadUvarint(raw, at) = [value |-> n, next |-> at + Len(Uvarint(n))]
    BY <1>1, NumberReadsBack, Zenon
  <2>3. ReadUvarint(raw, at).value = n
    BY <2>2
  <2> QED
    BY <2>1, <2>3 DEF ReadUvarint
<1> QED
  BY <1>1, SizeTyped, Zenon DEF SizeOf

LEMMA Positive == \A k \in 1 .. 3 : k > 0
OBVIOUS

LEMMA NonEmpty == \A s \in Seq(Byte) : s # <<>> => Len(s) > 0
OBVIOUS

\* A document whose size and bytes together fit the 15 bits of a length counts as
\* an object to extractOoxmlBlobs wherever encodeObjectData has put it, whatever
\* comes before it and behind it, and the blob cut out is the document.
THEOREM DocumentCounts ==
    ASSUME NEW bytes \in Seq(Byte), bytes # <<>>, Len(bytes) + 3 < TwoTo15,
           NEW raw \in Seq(Byte), NEW pos, StandsAt(raw, pos, Object(bytes))
    PROVE  LET body == BodyAt(raw, pos)
           IN  /\ IsObject(raw, pos)
               /\ body.from + body.length = pos + Len(Object(bytes))
               /\ SubSeq(raw, body.from + UvarintBytes(raw, body.from),
                         body.from + body.length - 1) = bytes
<1> DEFINE start == StartOf(pos, bytes)
           size == SizeOf(bytes)
           length == LengthOf(bytes)
<1>1. Fits(bytes)
  BY DEF Fits
<1>2. /\ StandsAt(raw, pos, HeadOf(bytes)) /\ StandsAt(raw, start, size)
      /\ StandsAt(raw, start + Len(size), bytes)
      /\ Len(Object(bytes)) = Len(HeadOf(bytes)) + Len(size) + Len(bytes)
  BY <1>1, ObjectStands
<1>3. /\ BodyAt(raw, pos).from = start /\ BodyAt(raw, pos).length = length
      /\ Marked(raw, pos)
  BY <1>1, <1>2, HeadFound, Zenon
<1>4. UvarintBytes(raw, start) = Len(size) /\ UvarintValue(raw, start) = Len(bytes)
  BY <1>1, <1>2, SizeRead
<1>5. /\ pos < Len(raw) /\ length > 0 /\ start + length - 1 <= Len(raw)
      /\ start + length = pos + Len(Object(bytes))
      /\ start + Len(size) + Len(bytes) - 1 = start + length - 1
  <2>1. pos \in Nat \ {0}
    BY DEF StandsAt
  <2>2. Len(HeadOf(bytes)) \in {2, 4} /\ Len(size) \in 1 .. 3
    BY <1>1, HeadTyped, SizeTyped
  <2>3. Len(bytes) \in Nat /\ Len(bytes) > 0
    BY <1>1, NonEmpty, Zenon DEF Fits
  <2>4. ASSUME NEW h \in {2, 4}, NEW s \in 1 .. 3, NEW n \in Nat, n > 0, n = Len(bytes),
               StandsAt(raw, pos + h + s, bytes)
        PROVE  /\ pos < Len(raw) /\ s + n > 0 /\ pos + h + (s + n) - 1 <= Len(raw)
               /\ pos + h + (s + n) = pos + (h + s + n)
               /\ pos + h + s + n - 1 = pos + h + (s + n) - 1
    <3>1. pos + h + s + n - 1 <= Len(raw) /\ Len(raw) \in Nat
      BY <2>4 DEF StandsAt
    <3> QED
      BY <2>1, <2>4, <3>1
  <2>5. StandsAt(raw, pos + Len(HeadOf(bytes)) + Len(size), bytes)
    BY <1>2, Zenon DEF StartOf
  <2> DEFINE h == Len(HeadOf(bytes))
             s == Len(size)
             n == Len(bytes)
  <2>6. h \in {2, 4} /\ s \in 1 .. 3 /\ n \in Nat /\ n > 0 /\ StandsAt(raw, pos + h + s, bytes)
    BY <2>2, <2>3, <2>5, Zenon
  <2>7. Len(Object(bytes)) = h + s + n /\ start = pos + h /\ length = s + n
    BY <1>2, Zenon DEF StartOf, LengthOf
  <2> HIDE DEF h, s, start, length, size
  <2>8. /\ pos < Len(raw) /\ s + n > 0 /\ pos + h + (s + n) - 1 <= Len(raw)
        /\ pos + h + (s + n) = pos + (h + s + n)
        /\ pos + h + s + n - 1 = pos + h + (s + n) - 1
    BY <2>4, <2>6, Zenon
  <2>9. start + Len(size) + Len(bytes) - 1 = pos + h + s + n - 1
    BY <2>7, Zenon DEF s
  <2> QED
    BY <2>7, <2>8, <2>9, Zenon
<1>6. SubSeq(raw, start + Len(size), start + length - 1) = bytes
  <2>1. SubSeq(raw, start + Len(size), start + Len(size) + Len(bytes) - 1) = bytes
    BY <1>2, CutOut, Zenon
  <2> HIDE DEF start, size, length
  <2> QED
    BY <1>5, <2>1, Zenon
<1>7. Len(size) > 0 /\ Len(bytes) > 0 /\ Len(size) + Len(bytes) = length
  <2>1. Len(size) \in 1 .. 3
    BY <1>1, SizeTyped
  <2>2. Len(size) > 0
    BY <2>1, Positive, Zenon
  <2>3. Len(bytes) > 0
    BY NonEmpty, Zenon
  <2> QED
    BY <2>2, <2>3, Zenon DEF LengthOf
<1> HIDE DEF start, size, length
<1>8. IsObject(raw, pos)
  BY <1>3, <1>4, <1>5, <1>7, Zenon DEF IsObject, Marked
<1> QED
  BY <1>3, <1>4, <1>5, <1>6, <1>8, Zenon

-----------------------------------------------------------------------------
(* A put, from one end to the other.                                       *)

LEMMA Joined ==
    \A a, b \in Seq(Byte) : a \o b \in Seq(Byte) /\ Len(a \o b) = Len(a) + Len(b)
OBVIOUS

LEMMA Sums == 16 + 1 = 17 /\ 17 + 17 = 34 /\ 34 + 17 = 51 /\ 51 + 1 = 52
BY SMT

LEMMA Tuples ==
    /\ \A a, b \in Byte : <<a, b>> \in Seq(Byte)
    /\ \A a, b, c, d \in Byte : <<a, b, c, d>> \in Seq(Byte)
OBVIOUS

LEMMA HeaderBytes ==
    ASSUME NEW type \in 0 .. 127, NEW length \in Nat, length < TwoTo15, NEW compound \in BOOLEAN
    PROVE  Header(type, length, compound) \in Seq(Byte)
<1> DEFINE f == Flag(compound)
           w == (4 * type + f + 1) % 256
           x == (4 * type) \div 256
           y == length % 256
           z == (length \div 256) % 128
           u == ((4 * type) % 256) + f
           v == 192 + (length % 64)
<1>1. f \in {0, 2}
  BY DEF Flag
<1>2. Header(type, length, compound) = <<w, x, y, z>> \/ Header(type, length, compound) = <<u, v>>
  BY DEF Header, StreamHeader32, StreamHeader16
<1>3. w \in Byte /\ x \in Byte /\ y \in Byte /\ z \in Byte /\ v \in Byte
  <2> HIDE DEF f
  <2> QED
    BY <1>1 DEF Byte
<1>4. u \in Byte
  <2> DEFINE r == type % 64
  <2>1. r \in 0 .. 63 /\ (4 * type) % 256 = 4 * r
    OBVIOUS
  <2> HIDE DEF r, f
  <2>2. 4 * r + f \in 0 .. 255
    BY <1>1, <2>1
  <2> QED
    BY <2>1, <2>2 DEF Byte
<1> HIDE DEF f, w, x, y, z, u, v
<1>5. <<w, x, y, z>> \in Seq(Byte) /\ <<u, v>> \in Seq(Byte)
  BY <1>3, <1>4, Tuples, Zenon
<1> QED
  BY <1>2, <1>5, Zenon

\* The parts of a put with a fixed length.
LEMMA FixedParts ==
    /\ \A t \in {Request, SubRequest, Package, Element, Declarations, ObjectGroupData} :
          Header(t, 0, TRUE) \in Seq(Byte) /\ EndObject(t) \in Seq(Byte)
    /\ Uvarint(1) \in Seq(Byte) /\ Len(Uvarint(1)) = 1
    /\ \A g \in {GuidStorage, GuidA, GuidB, GuidC} :
          ExGuid(g) \in Seq(Byte) /\ Len(ExGuid(g)) = 17
<1>1. \A t \in {Request, SubRequest, Package, Element, Declarations, ObjectGroupData} :
         t \in 0 .. 127
  BY DEF Request, SubRequest, Package, Element, Declarations, ObjectGroupData
<1>2. 0 \in Nat /\ 0 < TwoTo15
  BY SMT DEF TwoTo15
<1>3. \A t \in 0 .. 127 : Header(t, 0, TRUE) \in Seq(Byte)
  BY <1>2, HeaderBytes
<1>4. \A t \in 0 .. 127 : EndObject(t) \in Seq(Byte)
  <2> SUFFICES ASSUME NEW t \in 0 .. 127 PROVE EndObject(t) \in Seq(Byte)
    OBVIOUS
  <2>1. ((2 * t) % 256) + 1 \in Byte
    BY DEF Byte
  <2>2. \A b \in Byte : <<b>> \in Seq(Byte)
    OBVIOUS
  <2> QED
    BY <2>1, <2>2, Zenon DEF EndObject
<1>5. Uvarint(1) \in Seq(Byte) /\ Len(Uvarint(1)) = 1
  <2>1. 1 \in Small
    BY SMT DEF Small
  <2>2. Groups(1) = 1
    BY <2>1, GroupsOf, SMT
  <2> QED
    BY <2>1, <2>2, Written
<1>6. \A g \in {GuidStorage, GuidA, GuidB, GuidC} : g \in Seq(Byte) /\ Len(g) = 16
  <2>1. GuidStorage \in Seq(Byte) /\ Len(GuidStorage) = 16
    BY DEF GuidStorage, Byte
  <2>2. GuidA \in Seq(Byte) /\ Len(GuidA) = 16
    BY DEF GuidA, Byte
  <2>3. GuidB \in Seq(Byte) /\ Len(GuidB) = 16
    BY DEF GuidB, Byte
  <2>4. GuidC \in Seq(Byte) /\ Len(GuidC) = 16
    BY DEF GuidC, Byte
  <2> QED
    BY <2>1, <2>2, <2>3, <2>4, Zenon
<1>7. \A g \in Seq(Byte) : Len(g) = 16 => Len(g \o Uvarint(1)) = 17 /\ g \o Uvarint(1) \in Seq(Byte)
  <2> SUFFICES ASSUME NEW g \in Seq(Byte), Len(g) = 16
               PROVE  Len(g \o Uvarint(1)) = 17 /\ g \o Uvarint(1) \in Seq(Byte)
    OBVIOUS
  <2>1. Len(g \o Uvarint(1)) = Len(g) + Len(Uvarint(1)) /\ g \o Uvarint(1) \in Seq(Byte)
    BY <1>5, Joined, Zenon
  <2> QED
    BY <1>5, <2>1, Sums, Zenon
<1> QED
  BY <1>1, <1>3, <1>4, <1>5, <1>6, <1>7, Zenon DEF ExGuid

LEMMA DeclarationBytes ==
    ASSUME NEW bytes, Fits(bytes)
    PROVE  Declaration(bytes) \in Seq(Byte)
<1> DEFINE cell == ExGuid(GuidA) \o ExGuid(GuidB)
           ids == cell \o ExGuid(GuidC)
           body == (ids \o Uvarint(1)) \o SizeOf(bytes)
<1>1. SizeOf(bytes) \in Seq(Byte) /\ Len(SizeOf(bytes)) \in 1 .. 3
  BY SizeTyped, Written, Zenon DEF SizeOf
<1>2. cell \in Seq(Byte) /\ Len(cell) = 34
  <2>1. cell \in Seq(Byte) /\ Len(cell) = Len(ExGuid(GuidA)) + Len(ExGuid(GuidB))
    BY FixedParts, Joined, Zenon
  <2>2. Len(cell) = 17 + 17
    BY FixedParts, <2>1, Zenon
  <2> QED
    BY <2>1, <2>2
<1> HIDE DEF cell
<1>3. ids \in Seq(Byte) /\ Len(ids) = 51
  <2>1. ids \in Seq(Byte) /\ Len(ids) = Len(cell) + Len(ExGuid(GuidC))
    BY <1>2, FixedParts, Joined, Zenon
  <2>2. Len(ids) = 34 + 17
    BY <1>2, FixedParts, <2>1, Zenon
  <2> QED
    BY <2>1, <2>2
<1> HIDE DEF ids
<1>4. ids \o Uvarint(1) \in Seq(Byte) /\ Len(ids \o Uvarint(1)) = 52
  <2>1. /\ ids \o Uvarint(1) \in Seq(Byte)
        /\ Len(ids \o Uvarint(1)) = Len(ids) + Len(Uvarint(1))
    BY <1>3, FixedParts, Joined, Zenon
  <2>2. Len(ids \o Uvarint(1)) = 51 + 1
    BY <1>3, FixedParts, <2>1, Zenon
  <2> QED
    BY <2>1, <2>2
<1>5. body \in Seq(Byte) /\ Len(body) \in Nat /\ Len(body) < TwoTo15
  <2>1. body \in Seq(Byte) /\ Len(body) = Len(ids \o Uvarint(1)) + Len(SizeOf(bytes))
    BY <1>1, <1>4, Joined, Zenon
  <2>2. \A k \in 1 .. 3 : 52 + k \in Nat /\ 52 + k < TwoTo15
    BY SMT DEF TwoTo15
  <2> QED
    BY <1>1, <1>4, <2>1, <2>2, Zenon
<1>6. Declaration(bytes) = Header(Declare, Len(body), FALSE) \o body
  BY Zenon DEF Declaration, CellId, SizeOf, cell, ids
<1> HIDE DEF body
<1>7. Header(Declare, Len(body), FALSE) \in Seq(Byte)
  <2>1. Declare \in 0 .. 127 /\ FALSE \in BOOLEAN
    BY DEF Declare
  <2> QED
    BY <1>5, <2>1, HeaderBytes
<1> QED
  BY <1>5, <1>6, <1>7, Joined, Zenon

LEMMA ObjectIsBytes ==
    ASSUME NEW bytes, Fits(bytes)
    PROVE  Object(bytes) \in Seq(Byte)
<1>1. SizeOf(bytes) \in Seq(Byte) /\ bytes \in Seq(Byte)
  BY SizeTyped, Written, Zenon DEF SizeOf, Fits
<1>2. HeadOf(bytes) \in Seq(Byte)
  <2>1. ObjectBytes \in 0 .. 127 /\ FALSE \in BOOLEAN
    BY DEF ObjectBytes
  <2>2. LengthOf(bytes) \in Nat /\ LengthOf(bytes) < TwoTo15
    BY LengthTyped
  <2>3. Header(ObjectBytes, LengthOf(bytes), FALSE) \in Seq(Byte)
    BY <2>1, <2>2, HeaderBytes
  <2> QED
    BY <2>3, Zenon DEF HeadOf
<1> QED
  BY <1>1, <1>2, ObjectParts, Joined, Zenon

\* What of a put comes before its document's object.
Before(bytes) ==
    Header(Request, 0, TRUE) \o Header(SubRequest, 0, TRUE) \o Uvarint(1) \o Uvarint(1)
    \o Header(Package, 0, TRUE) \o Header(Element, 0, TRUE)
    \o ExGuid(GuidStorage) \o Uvarint(1)
    \o Header(Declarations, 0, TRUE) \o Declaration(bytes) \o EndObject(Declarations)
    \o Header(ObjectGroupData, 0, TRUE)

LEMMA BeforeIsBytes ==
    ASSUME NEW bytes, Fits(bytes)
    PROVE  Before(bytes) \in Seq(Byte)
<1> DEFINE a == Header(Request, 0, TRUE) \o Header(SubRequest, 0, TRUE)
           b == a \o Uvarint(1) \o Uvarint(1)
           c == b \o Header(Package, 0, TRUE) \o Header(Element, 0, TRUE)
           d == c \o ExGuid(GuidStorage) \o Uvarint(1)
           e == d \o Header(Declarations, 0, TRUE) \o Declaration(bytes) \o EndObject(Declarations)
<1>1. a \in Seq(Byte)
  BY FixedParts, Joined, Zenon
<1>2. b \in Seq(Byte)
  <2> HIDE DEF a
  <2> QED
    BY <1>1, FixedParts, Joined, Zenon
<1>3. c \in Seq(Byte)
  <2> HIDE DEF b
  <2> QED
    BY <1>2, FixedParts, Joined, Zenon
<1>4. d \in Seq(Byte)
  <2> HIDE DEF c
  <2> QED
    BY <1>3, FixedParts, Joined, Zenon
<1>5. e \in Seq(Byte)
  <2> HIDE DEF d
  <2>1. d \o Header(Declarations, 0, TRUE) \in Seq(Byte)
    BY <1>4, FixedParts, Joined, Zenon
  <2>2. EndObject(Declarations) \in Seq(Byte)
    BY FixedParts, Zenon
  <2> QED
    BY <2>1, <2>2, DeclarationBytes, Joined, Zenon
<1>6. Before(bytes) = e \o Header(ObjectGroupData, 0, TRUE)
  BY Zenon DEF Before
<1> HIDE DEF e
<1> QED
  BY <1>5, <1>6, FixedParts, Joined, Zenon

LEMMA PutParts ==
    ASSUME NEW bytes, Fits(bytes)
    PROVE  /\ PutChanges(bytes) \in Seq(Byte)
           /\ StandsAt(PutChanges(bytes), 1, Before(bytes))
           /\ StandsAt(PutChanges(bytes), 1 + Len(Before(bytes)), Object(bytes))
<1> DEFINE p0 == Before(bytes) \o Object(bytes)
           p1 == p0 \o EndObject(ObjectGroupData)
           p2 == p1 \o EndObject(Element)
           p3 == p2 \o EndObject(Package)
           p4 == p3 \o EndObject(SubRequest)
           p5 == p4 \o EndObject(Request)
<1>1. PutChanges(bytes) = p5
  BY Zenon DEF PutChanges, Before
<1>2. ASSUME NEW p \in Seq(Byte), NEW q \in Seq(Byte), NEW raw \in Seq(Byte), StandsAt(raw, 1, p \o q)
      PROVE  StandsAt(raw, 1, p)
  BY <1>2, PartsStand, AsInts
<1>3. /\ EndObject(ObjectGroupData) \in Seq(Byte) /\ EndObject(Element) \in Seq(Byte)
      /\ EndObject(Package) \in Seq(Byte) /\ EndObject(SubRequest) \in Seq(Byte)
      /\ EndObject(Request) \in Seq(Byte)
  BY FixedParts, Zenon
<1>4. Before(bytes) \in Seq(Byte) /\ Object(bytes) \in Seq(Byte)
  BY BeforeIsBytes, ObjectIsBytes, Zenon
<1>5. p0 \in Seq(Byte)
  BY <1>4, Joined, Zenon
<1> HIDE DEF p0
<1>6. p1 \in Seq(Byte)
  BY <1>3, <1>5, Joined, Zenon
<1> HIDE DEF p1
<1>7. p2 \in Seq(Byte)
  BY <1>3, <1>6, Joined, Zenon
<1> HIDE DEF p2
<1>8. p3 \in Seq(Byte)
  BY <1>3, <1>7, Joined, Zenon
<1> HIDE DEF p3
<1>9. p4 \in Seq(Byte)
  BY <1>3, <1>8, Joined, Zenon
<1> HIDE DEF p4
<1>10. p5 \in Seq(Byte)
  BY <1>3, <1>9, Joined, Zenon
<1> HIDE DEF p5
<1>11. StandsAt(p5, 1, p5)
  <2>1. ASSUME NEW s \in Seq(Byte) PROVE StandsAt(s, 1, s)
    BY DEF StandsAt
  <2> QED
    BY <1>10, <2>1
<1>12. StandsAt(p5, 1, p4)
  BY <1>2, <1>3, <1>9, <1>10, <1>11, Zenon DEF p5
<1>13. StandsAt(p5, 1, p3)
  BY <1>2, <1>3, <1>8, <1>10, <1>12, Zenon DEF p4
<1>14. StandsAt(p5, 1, p2)
  BY <1>2, <1>3, <1>7, <1>10, <1>13, Zenon DEF p3
<1>15. StandsAt(p5, 1, p1)
  BY <1>2, <1>3, <1>6, <1>10, <1>14, Zenon DEF p2
<1>16. StandsAt(p5, 1, p0)
  BY <1>2, <1>3, <1>5, <1>10, <1>15, Zenon DEF p1
<1>17. StandsAt(p5, 1 + Len(Before(bytes)), Object(bytes))
  <2>1. ASSUME NEW p \in Seq(Byte), NEW q \in Seq(Byte), NEW raw \in Seq(Byte),
               StandsAt(raw, 1, p \o q)
        PROVE  StandsAt(raw, 1 + Len(p), q)
    BY <2>1, PartsStand, AsInts
  <2> QED
    BY <1>4, <1>10, <1>16, <2>1, Zenon DEF p0
<1>18. StandsAt(p5, 1, Before(bytes))
  BY <1>2, <1>4, <1>10, <1>16, Zenon DEF p0
<1> QED
  BY <1>1, <1>10, <1>17, <1>18, Zenon

\* However large the document of a put is within its 15 bits and whatever it
\* holds, the put's bytes survive base64, and the answer that brings them has an
\* object from which the document is cut out whole.
THEOREM PutIsFound ==
    ASSUME NEW bytes \in Seq(Byte), bytes # <<>>, Len(bytes) + 3 < TwoTo15
    PROVE  LET raw == FromBase64(ToBase64(PutChanges(bytes)))
           IN  /\ raw = PutChanges(bytes)
               /\ \E pos \in 1 .. Len(raw) :
                     LET body == BodyAt(raw, pos)
                     IN  /\ IsObject(raw, pos)
                         /\ SubSeq(raw, body.from + UvarintBytes(raw, body.from),
                                   body.from + body.length - 1) = bytes
<1> DEFINE raw == PutChanges(bytes)
           pos == 1 + Len(Before(bytes))
<1>1. Fits(bytes)
  BY DEF Fits
<1>2. raw \in Seq(Byte) /\ StandsAt(raw, pos, Object(bytes))
  BY <1>1, PutParts, Zenon
<1> HIDE DEF raw
<1>3. FromBase64(ToBase64(raw)) = raw
  BY <1>2, Base64Inverse, Zenon
<1>4. pos \in 1 .. Len(raw)
  <2>1. IsObject(raw, pos)
    BY <1>2, DocumentCounts
  <2>2. pos \in Nat \ {0}
    BY <1>2, Zenon DEF StandsAt
  <2>3. pos < Len(raw)
    BY <2>1, Zenon DEF IsObject
  <2>4. ASSUME NEW p \in Nat \ {0}, NEW s \in Seq(Byte), p < Len(s) PROVE p \in 1 .. Len(s)
    BY <2>4
  <2> HIDE DEF pos
  <2> QED
    BY <1>2, <2>2, <2>3, <2>4, Zenon
<1> HIDE DEF pos
<1>5. /\ IsObject(raw, pos)
      /\ SubSeq(raw, BodyAt(raw, pos).from + UvarintBytes(raw, BodyAt(raw, pos).from),
                BodyAt(raw, pos).from + BodyAt(raw, pos).length - 1) = bytes
  BY <1>2, DocumentCounts
<1> QED
  BY <1>3, <1>4, <1>5, Zenon DEF raw

-----------------------------------------------------------------------------
(* What a put has before its object: only the size among it can look like  *)
(* the beginning of one.                                                   *)

\* Bytes that begin no header of an object.
Dull == Byte \ {240, 241}

LEMMA DullJoined == \A a, b \in Seq(Dull) : a \o b \in Seq(Dull)
OBVIOUS

LEMMA DullIsByte == \A a \in Seq(Dull) : a \in Seq(Byte)
<1>1. Dull \subseteq Byte
  BY DEF Dull
<1> QED
  BY <1>1

LEMMA InOther ==
    ASSUME NEW S, NEW T, NEW s \in Seq(S), \A i \in 1 .. Len(s) : s[i] \in T
    PROVE  s \in Seq(T)
OBVIOUS

IsDull(s) == s \in Seq(Dull)

LEMMA DullOne ==
    ASSUME NEW a \in Dull
    PROVE  IsDull(<<a>>)
BY DEF IsDull

LEMMA DullTwo ==
    ASSUME NEW a \in Dull, NEW b \in Dull
    PROVE  IsDull(<<a, b>>)
BY DEF IsDull

LEMMA DullFour ==
    ASSUME NEW a \in Dull, NEW b \in Dull, NEW c \in Dull, NEW d \in Dull
    PROVE  IsDull(<<a, b, c, d>>)
BY DEF IsDull

LEMMA ShortOpening ==
    \A t \in {Request, SubRequest, Element} : Header(t, 0, TRUE) \in Seq(Dull)
<1>1. ASSUME NEW t \in 0 .. 58 PROVE Header(t, 0, TRUE) \in Seq(Dull)
  <2> DEFINE u == ((4 * t) % 256) + Flag(TRUE)
             v == 192 + (0 % 64)
  <2>1. ~NeedsLong(t, 0)
    BY DEF NeedsLong
  <2>2. Header(t, 0, TRUE) = <<u, v>>
    BY <2>1, Zenon DEF Header, StreamHeader16
  <2>3. u \in Dull
    <3>1. Flag(TRUE) = 2
      BY DEF Flag
    <3>2. (4 * t) % 256 = 4 * t
      OBVIOUS
    <3>3. u = 4 * t + 2
      BY <3>1, <3>2
    <3>4. 4 * t + 2 \in 0 .. 255 /\ 4 * t + 2 # 240 /\ 4 * t + 2 # 241
      OBVIOUS
    <3> QED
      BY <3>3, <3>4, Zenon DEF Dull, Byte
  <2>4. v \in Dull
    BY DEF Dull, Byte
  <2> HIDE DEF u, v
  <2>5. IsDull(<<u, v>>)
    BY <2>3, <2>4, DullTwo, Zenon
  <2> QED
    BY <2>2, <2>5, Zenon DEF IsDull
<1>2. Request \in 0 .. 58 /\ SubRequest \in 0 .. 58 /\ Element \in 0 .. 58
  BY DEF Request, SubRequest, Element
<1> QED
  BY <1>1, <1>2, Zenon

LEMMA LongOpening ==
    /\ Header(Package, 0, TRUE) \in Seq(Dull)
    /\ Header(Declarations, 0, TRUE) \in Seq(Dull)
    /\ Header(ObjectGroupData, 0, TRUE) = <<27, 1, 0, 0>>
    /\ EndObject(Declarations) = <<139>>
<1>6. ASSUME NEW t \in 64 .. 100
      PROVE  Header(t, 0, TRUE) = <<4 * t - 253, 1, 0, 0>>
  <2> DEFINE w == (4 * t + Flag(TRUE) + 1) % 256
             x == (4 * t) \div 256
             y == 0 % 256
             z == (0 \div 256) % 128
  <2>1. NeedsLong(t, 0)
    BY DEF NeedsLong
  <2>2. Header(t, 0, TRUE) = <<w, x, y, z>>
    BY <2>1, Zenon DEF Header, StreamHeader32
  <2>3. w = 4 * t - 253 /\ x = 1 /\ y = 0 /\ z = 0
    BY DEF Flag
  <2> HIDE DEF w, x, y, z
  <2> QED
    BY <2>2, <2>3, Zenon
<1>1. Header(Package, 0, TRUE) = <<19, 1, 0, 0>>
  <2>1. Package \in 64 .. 100 /\ 4 * Package - 253 = 19
    BY DEF Package
  <2> QED
    BY <1>6, <2>1, Zenon
<1>2. Header(Declarations, 0, TRUE) = <<23, 1, 0, 0>>
  <2>1. Declarations \in 64 .. 100 /\ 4 * Declarations - 253 = 23
    BY DEF Declarations
  <2> QED
    BY <1>6, <2>1, Zenon
<1>3. Header(ObjectGroupData, 0, TRUE) = <<27, 1, 0, 0>>
  <2>1. ObjectGroupData \in 64 .. 100 /\ 4 * ObjectGroupData - 253 = 27
    BY DEF ObjectGroupData
  <2> QED
    BY <1>6, <2>1, Zenon
<1>4. EndObject(Declarations) = <<139>>
  <2>1. ((2 * Declarations) % 256) + 1 = 139
    BY DEF Declarations
  <2> QED
    BY <2>1, Zenon DEF EndObject
<1>5. 19 \in Dull /\ 1 \in Dull /\ 0 \in Dull /\ 23 \in Dull
  BY DEF Dull, Byte
<1>7. IsDull(<<19, 1, 0, 0>>) /\ IsDull(<<23, 1, 0, 0>>)
  BY <1>5, DullFour, Zenon
<1>8. Header(Package, 0, TRUE) \in Seq(Dull)
  BY <1>1, <1>7, Zenon DEF IsDull
<1>9. Header(Declarations, 0, TRUE) \in Seq(Dull)
  BY <1>2, <1>7, Zenon DEF IsDull
<1> QED
  BY <1>3, <1>4, <1>8, <1>9, Zenon

\* A number of one group.
LEMMA SmallNumber ==
    ASSUME NEW n \in 0 .. 127
    PROVE  /\ n \in Small /\ Groups(n) = 1
           /\ Uvarint(n) \in Seq(Byte) /\ Len(Uvarint(n)) = 1 /\ Uvarint(n)[1] = 2 * n + 1
<1>1. n \in Small
  BY SMT DEF Small
<1>2. Groups(n) = 1
  BY <1>1, GroupsOf, SMT
<1>3. /\ Uvarint(n) \in Seq(Byte) /\ Len(Uvarint(n)) = Groups(n)
      /\ \A i \in 1 .. Groups(n) :
            Uvarint(n)[i] = 2 * Digit(n, i) + (IF i = Groups(n) THEN 1 ELSE 0)
  BY <1>1, Written, Zenon
<1>4. 1 \in 1 .. 1
  OBVIOUS
<1>5. Uvarint(n)[1] = 2 * Digit(n, 1) + (IF 1 = 1 THEN 1 ELSE 0)
  BY <1>2, <1>3, <1>4, Zenon
<1>6. Digit(n, 1) = n % 128
  BY <1>1, Digits, SMT
<1>7. n % 128 = n
  BY SMT
<1> QED
  BY <1>1, <1>2, <1>3, <1>5, <1>6, <1>7, Zenon

LEMMA DullIds ==
    /\ Uvarint(1) \in Seq(Dull) /\ Uvarint(2) \in Seq(Dull)
    /\ \A g \in {GuidStorage, GuidA, GuidB, GuidC} : ExGuid(g) \in Seq(Dull)
<1>6. ASSUME NEW n \in 0 .. 119 PROVE Uvarint(n) \in Seq(Dull)
  <2> DEFINE u == Uvarint(n)
  <2>1. n \in 0 .. 127 /\ 2 * n + 1 \in Dull
    BY DEF Dull, Byte
  <2>2. u \in Seq(Byte) /\ Len(u) = 1 /\ u[1] \in Dull
    BY <2>1, SmallNumber, Zenon
  <2> HIDE DEF u
  <2>3. \A i \in 1 .. Len(u) : u[i] \in Dull
    BY <2>2
  <2> QED
    BY <2>2, <2>3, InOther, Zenon DEF u
<1>1. Uvarint(1) \in Seq(Dull) /\ Uvarint(2) \in Seq(Dull)
  <2>1. 1 \in 0 .. 119 /\ 2 \in 0 .. 119
    OBVIOUS
  <2> QED
    BY <1>6, <2>1, Zenon
<1>2. GuidStorage \in Seq(Dull)
  BY DEF GuidStorage, Dull, Byte
<1>3. GuidA \in Seq(Dull)
  BY DEF GuidA, Dull, Byte
<1>4. GuidB \in Seq(Dull)
  BY DEF GuidB, Dull, Byte
<1>5. GuidC \in Seq(Dull)
  BY DEF GuidC, Dull, Byte
<1> QED
  BY <1>1, <1>2, <1>3, <1>4, <1>5, DullJoined, Zenon DEF ExGuid

Opened ==
    Header(Request, 0, TRUE) \o Header(SubRequest, 0, TRUE) \o Uvarint(1) \o Uvarint(1)
    \o Header(Package, 0, TRUE) \o Header(Element, 0, TRUE)
    \o ExGuid(GuidStorage) \o Uvarint(1)
    \o Header(Declarations, 0, TRUE)
Ids == CellId(GuidA, GuidB) \o ExGuid(GuidC) \o Uvarint(1)
DeclareHead(bytes) == Header(Declare, Len(Ids \o SizeOf(bytes)), FALSE)
Ahead(bytes) == Opened \o (DeclareHead(bytes) \o Ids)
Behind == <<139>> \o <<27, 1, 0, 0>>

LEMMA OpenedDull == Opened \in Seq(Dull) /\ Ids \in Seq(Dull) /\ Len(Ids) = 52
<1>1. Opened \in Seq(Dull)
  <2> DEFINE a == Header(Request, 0, TRUE) \o Header(SubRequest, 0, TRUE)
             b == a \o Uvarint(1) \o Uvarint(1)
             c == b \o Header(Package, 0, TRUE) \o Header(Element, 0, TRUE)
             d == c \o ExGuid(GuidStorage) \o Uvarint(1)
  <2>1. a \in Seq(Dull)
    BY ShortOpening, DullJoined, Zenon
  <2>2. b \in Seq(Dull)
    BY <2>1, DullIds, DullJoined, Zenon
  <2>3. c \in Seq(Dull)
    BY <2>2, ShortOpening, LongOpening, DullJoined, Zenon
  <2>4. d \in Seq(Dull)
    BY <2>3, DullIds, DullJoined, Zenon
  <2> QED
    BY <2>4, LongOpening, DullJoined, Zenon DEF Opened
<1>2. Ids \in Seq(Dull)
  BY DullIds, DullJoined, Zenon DEF Ids, CellId
<1>3. Len(Ids) = 52
  <2> DEFINE cell == ExGuid(GuidA) \o ExGuid(GuidB)
             three == cell \o ExGuid(GuidC)
  <2>1. cell \in Seq(Byte) /\ Len(cell) = Len(ExGuid(GuidA)) + Len(ExGuid(GuidB))
    BY FixedParts, Joined, Zenon
  <2>2. three \in Seq(Byte) /\ Len(three) = Len(cell) + Len(ExGuid(GuidC))
    BY <2>1, FixedParts, Joined, Zenon
  <2>3. Len(three \o Uvarint(1)) = Len(three) + Len(Uvarint(1))
    BY <2>2, FixedParts, Joined, Zenon
  <2>4. /\ Len(ExGuid(GuidA)) = 17 /\ Len(ExGuid(GuidB)) = 17 /\ Len(ExGuid(GuidC)) = 17
        /\ Len(Uvarint(1)) = 1
    BY FixedParts, Zenon
  <2>5. Ids = three \o Uvarint(1)
    BY Zenon DEF Ids, CellId
  <2> HIDE DEF three, cell
  <2>6. Len(Ids) = Len(three) + 1 /\ Len(three) = Len(cell) + 17 /\ Len(cell) = 17 + 17
    BY <2>1, <2>2, <2>3, <2>4, <2>5, Zenon
  <2> QED
    BY <2>6
<1> QED
  BY <1>1, <1>2, <1>3

LEMMA BeforeParts ==
    ASSUME NEW bytes, Fits(bytes)
    PROVE  /\ Ahead(bytes) \in Seq(Dull) /\ SizeOf(bytes) \in Seq(Byte) /\ Behind \in Seq(Byte)
           /\ Before(bytes) = Ahead(bytes) \o (SizeOf(bytes) \o Behind)
<1> DEFINE u == SizeOf(bytes)
           h == DeclareHead(bytes)
<1>1. u \in Seq(Byte) /\ Len(u) \in 1 .. 3
  BY SizeTyped, Written, Zenon DEF SizeOf
<1>2. Ids \in Seq(Byte) /\ Opened \in Seq(Byte) /\ Ids \in Seq(Dull) /\ Opened \in Seq(Dull)
  BY OpenedDull, DullIsByte
<1> HIDE DEF u
<1>3. Len(Ids \o u) \in 53 .. 55
  <2>1. Len(Ids \o u) = Len(Ids) + Len(u)
    BY <1>1, <1>2, Joined, Zenon
  <2>2. \A k \in 1 .. 3 : 52 + k \in 53 .. 55
    OBVIOUS
  <2> QED
    BY <1>1, <2>1, <2>2, OpenedDull, Zenon
<1>4. h \in Seq(Dull)
  <2> SUFFICES ASSUME NEW n \in 53 .. 55 PROVE Header(Declare, n, FALSE) \in Seq(Dull)
    BY <1>3, Zenon DEF DeclareHead, u
  <2> DEFINE a == ((4 * Declare) % 256) + Flag(FALSE)
             b == 192 + (n % 64)
  <2>1. ~NeedsLong(Declare, n)
    BY DEF NeedsLong, Declare
  <2>2. Header(Declare, n, FALSE) = <<a, b>>
    BY <2>1, Zenon DEF Header, StreamHeader16
  <2>3. a = 20 /\ b = 192 + n
    BY DEF Declare, Flag
  <2>4. 20 \in Dull /\ 192 + n \in Dull
    BY DEF Dull, Byte
  <2> HIDE DEF a, b
  <2>5. a \in Dull /\ b \in Dull
    BY <2>3, <2>4, Zenon
  <2>6. IsDull(<<a, b>>)
    BY <2>5, DullTwo, Zenon
  <2> QED
    BY <2>2, <2>6, Zenon DEF IsDull
<1> HIDE DEF h
<1>5. Ahead(bytes) \in Seq(Dull)
  BY <1>2, <1>4, DullJoined, Zenon DEF Ahead, h
<1>6. Behind \in Seq(Byte) /\ <<139>> \in Seq(Byte) /\ <<27, 1, 0, 0>> \in Seq(Byte)
  <2>1. 139 \in Byte /\ 27 \in Byte /\ 1 \in Byte /\ 0 \in Byte
    BY DEF Byte
  <2>2. <<139>> \in Seq(Byte) /\ <<27, 1, 0, 0>> \in Seq(Byte)
    BY <2>1, Tuples
  <2> QED
    BY <2>2, Joined, Zenon DEF Behind
<1>7. Declaration(bytes) = h \o (Ids \o u)
  BY Zenon DEF Declaration, Ids, DeclareHead, h, u, SizeOf
<1>8. Before(bytes) = ((Opened \o (h \o (Ids \o u))) \o <<139>>) \o <<27, 1, 0, 0>>
  BY <1>7, LongOpening, Zenon DEF Before, Opened
<1>9. Ahead(bytes) = Opened \o (h \o Ids)
  BY Zenon DEF Ahead, h
<1>10. \A a, b, c \in Seq(Byte) : a \o b \in Seq(Byte) /\ Regroups(a, b, c)
  BY Regrouped, Joined, Zenon
<1>11. h \in Seq(Byte)
  BY <1>4, DullIsByte
<1> DEFINE x == <<139>>
           y == <<27, 1, 0, 0>>
<1> HIDE DEF x, y
<1>12. ((Opened \o (h \o (Ids \o u))) \o x) \o y = (Opened \o (h \o Ids)) \o (u \o (x \o y))
  <2>1. x \in Seq(Byte) /\ y \in Seq(Byte)
    BY <1>6 DEF x, y
  <2> DEFINE i == Ids
             o == Opened
             g == h \o i
             f == o \o g
  <2>2. i \in Seq(Byte) /\ o \in Seq(Byte) /\ h \in Seq(Byte) /\ u \in Seq(Byte)
    BY <1>1, <1>2, <1>11
  <2> HIDE DEF i, o
  <2>3. g \in Seq(Byte) /\ h \o (i \o u) = g \o u
    <3>1. g \in Seq(Byte) /\ Regroups(h, i, u)
      BY <1>10, <2>2, Zenon
    <3> QED
      BY <3>1, Zenon DEF Regroups
  <2> HIDE DEF g
  <2>4. f \in Seq(Byte) /\ o \o (g \o u) = f \o u
    <3>1. f \in Seq(Byte) /\ Regroups(o, g, u)
      BY <1>10, <2>2, <2>3, Zenon
    <3> QED
      BY <3>1, Zenon DEF Regroups
  <2> HIDE DEF f
  <2>5. f \o u \in Seq(Byte) /\ (f \o u) \o x = f \o (u \o x) /\ u \o x \in Seq(Byte)
    <3>1. f \o u \in Seq(Byte) /\ Regroups(f, u, x) /\ u \o x \in Seq(Byte)
      BY <1>10, <2>1, <2>2, <2>4, Zenon
    <3> QED
      BY <3>1, Zenon DEF Regroups
  <2>6. (f \o (u \o x)) \o y = f \o ((u \o x) \o y)
    <3>1. Regroups(f, u \o x, y)
      BY <1>10, <2>1, <2>4, <2>5, Zenon
    <3> QED
      BY <3>1, Zenon DEF Regroups
  <2>7. (u \o x) \o y = u \o (x \o y)
    <3>1. Regroups(u, x, y)
      BY <1>10, <2>1, <2>2, Zenon
    <3> QED
      BY <3>1, Zenon DEF Regroups
  <2>8. ((o \o (h \o (i \o u))) \o x) \o y = f \o (u \o (x \o y))
    BY <2>3, <2>4, <2>5, <2>6, <2>7, Zenon
  <2> QED
    BY <2>8, Zenon DEF f, g, i, o
<1> QED
  BY <1>1, <1>5, <1>6, <1>8, <1>9, <1>12, Zenon DEF x, y, u, Behind

LEMMA OneByte ==
    ASSUME NEW raw \in Seq(Byte), NEW at \in 1 .. Len(raw), NEW n \in 0 .. 127,
           raw[at] = 2 * n + 1
    PROVE  UvarintBytes(raw, at) = 1 /\ UvarintValue(raw, at) = n
<1>1. n \in Small
  BY SmallNumber, Zenon
<1>2. Groups(n) = 1
  BY SmallNumber, Zenon
<1>3. Uvarint(n)[1] = 2 * n + 1 /\ Len(Uvarint(n)) = 1
  BY SmallNumber, Zenon
<1>4. StandsAt(raw, at, Uvarint(n))
  <2> DEFINE u == Uvarint(n)
  <2>1. Len(u) = 1 /\ u[1] = raw[at]
    BY <1>3
  <2> HIDE DEF u
  <2>2. StandsAt(raw, at, u)
    BY <2>1 DEF StandsAt
  <2> QED
    BY <2>2 DEF u
<1>5. UvarintBytes(raw, at) = 1
  BY <1>1, <1>2, <1>4, EndsFound, Zenon
<1>6. ReadUvarint(raw, at) = [value |-> n, next |-> at + Len(Uvarint(n))]
  BY <1>1, <1>4, NumberReadsBack, Zenon
<1>7. ReadUvarint(raw, at).value = n
  BY <1>6
<1> QED
  BY <1>5, <1>7 DEF ReadUvarint

\* Where the body of what counts as an object ends.
EndAt(raw, i) == BodyAt(raw, i).from + BodyAt(raw, i).length

\* An object ends behind its beginning and within the buffer.
LEMMA ObjectEnds ==
    ASSUME NEW raw \in Seq(Byte), NEW i \in 1 .. Len(raw), IsObject(raw, i)
    PROVE  /\ i < Len(raw) /\ raw[i] \in Byte /\ raw[i + 1] \in Byte
           /\ EndAt(raw, i) \in i + 1 .. Len(raw) + 1
           /\ EndAt(raw, i) - 1 = BodyAt(raw, i).from + BodyAt(raw, i).length - 1
<1>1. i < Len(raw) /\ raw[i] \in Byte /\ raw[i + 1] \in Byte
  BY DEF IsObject
<1>2. /\ LongHeaderAt(raw, i) \/ ShortHeaderAt(raw, i)
      /\ BodyAt(raw, i).length > 0
      /\ BodyAt(raw, i).from + BodyAt(raw, i).length - 1 <= Len(raw)
  BY DEF IsObject
<1>3. /\ BodyAt(raw, i).from \in {i + 2, i + 4}
      /\ BodyAt(raw, i).length \in Nat
  <2>1. CASE LongHeaderAt(raw, i)
    <3>1. i + 3 <= Len(raw)
      BY <2>1 DEF LongHeaderAt
    <3>2. i + 2 \in 1 .. Len(raw) /\ i + 3 \in 1 .. Len(raw)
      BY <3>1
    <3>3. raw[i + 2] \in Byte /\ raw[i + 3] \in Byte
      BY <3>2
    <3>4. BodyAt(raw, i).from = i + 4 /\ BodyAt(raw, i).length = raw[i + 2] + 256 * raw[i + 3]
      BY <2>1 DEF BodyAt
    <3>5. raw[i + 2] + 256 * raw[i + 3] \in Nat
      <4>1. \A x, y \in Byte : x + 256 * y \in Nat
        BY DEF Byte
      <4> QED
        BY <3>3, <4>1, Zenon
    <3> QED
      BY <3>4, <3>5, Zenon
  <2>2. CASE ~LongHeaderAt(raw, i)
    <3>1. raw[i + 1] \in 0 .. 255
      BY <1>1 DEF Byte
    <3>2. BodyAt(raw, i).from = i + 2 /\ BodyAt(raw, i).length = raw[i + 1] % 64
      BY <2>2 DEF BodyAt
    <3>3. \A x \in 0 .. 255 : x % 64 \in Nat
      OBVIOUS
    <3> QED
      BY <3>1, <3>2, <3>3, Zenon
  <2> QED
    BY <2>1, <2>2
<1> DEFINE a == BodyAt(raw, i).from
           b == BodyAt(raw, i).length
<1>4. a \in {i + 2, i + 4} /\ b \in Nat /\ b > 0 /\ a + b - 1 <= Len(raw) /\ EndAt(raw, i) = a + b
  BY <1>2, <1>3 DEF EndAt
<1> HIDE DEF a, b
<1>5. EndAt(raw, i) \in i + 1 .. Len(raw) + 1 /\ EndAt(raw, i) - 1 = a + b - 1
  BY <1>1, <1>4
<1> QED
  BY <1>1, <1>5, Zenon DEF a, b

\* What looks like an object among the bytes before the document's is over when
\* that begins: only a size can begin with a header's byte, and the search goes on
\* in time.
LEMMA EarlierEnds ==
    ASSUME NEW raw \in Seq(Byte), NEW f \in Nat, NEW v \in Small, v < TwoTo15,
           \A j \in 1 .. f : raw[j] \in Dull,
           StandsAt(raw, f + 1, Uvarint(v)), StandsAt(raw, f + 1 + Groups(v), Behind),
           NEW i \in 1 .. f + Groups(v) + 5, i <= Len(raw), IsObject(raw, i)
    PROVE  EndAt(raw, i) <= f + Groups(v) + 6
<1> DEFINE g == Groups(v)
           u == Uvarint(v)
<1>1. /\ g \in 1 .. 3 /\ Len(u) = g
      /\ \A k \in 1 .. g : u[k] = 2 * Digit(v, k) + (IF k = g THEN 1 ELSE 0)
      /\ \A k \in 1 .. g : Digit(v, k) \in 0 .. 127
      /\ g = 3 => Digit(v, 3) = 1
  <2>1. /\ g \in 1 .. 4 /\ Len(u) = g
        /\ \A k \in 1 .. g : u[k] = 2 * Digit(v, k) + (IF k = g THEN 1 ELSE 0)
    BY Written, Zenon
  <2>2. v \in Nat /\ v < 32768
    BY SMT DEF Small, TwoTo15
  <2>3. g = IF v < 128 THEN 1 ELSE IF v < 16384 THEN 2
            ELSE IF v < 2097152 THEN 3 ELSE 4
    BY GroupsOf, SMT
  <2>4. Digit(v, 3) = (v \div 16384) % 128 /\ \A k \in 1 .. 4 : Digit(v, k) \in 0 .. 127
    BY Digits, SMT
  <2> HIDE DEF g, u
  <2>5. g \in 1 .. 3
    BY <2>2, <2>3, SMT
  <2>6. g = 3 => Digit(v, 3) = 1
    <3>1. g = 3 => v >= 16384
      BY <2>2, <2>3, SMT
    <3>2. v >= 16384 => (v \div 16384) % 128 = 1
      BY <2>2, SMT
    <3> QED
      BY <2>4, <3>1, <3>2, SMT
  <2>7. \A k \in 1 .. g : Digit(v, k) \in 0 .. 127
    <3>1. \A k \in 1 .. 4 : Digit(v, k) \in 0 .. 127
      BY DigitTyped, Zenon
    <3>2. \A k \in 1 .. g : k \in 1 .. 4
      BY <2>5, SMT
    <3> QED
      BY <3>1, <3>2, Zenon
  <2> QED
    BY <2>1, <2>5, <2>6, <2>7, Zenon
<1>2. \A k \in 1 .. g : raw[f + k] = u[k]
  <2> SUFFICES ASSUME NEW k \in 1 .. g PROVE raw[f + k] = u[k]
    OBVIOUS
  <2>1. raw[f + 1 + k - 1] = u[k]
    BY <1>1 DEF StandsAt
  <2>2. f + 1 + k - 1 = f + k
    BY <1>1
  <2> QED
    BY <2>1, <2>2
<1>3. /\ raw[f + g + 1] = 139 /\ raw[f + g + 2] = 27 /\ raw[f + g + 3] = 1
      /\ raw[f + g + 4] = 0 /\ raw[f + g + 5] = 0 /\ f + g + 5 <= Len(raw)
  <2> DEFINE b == Behind
  <2>1. Len(b) = 5 /\ b[1] = 139 /\ b[2] = 27 /\ b[3] = 1 /\ b[4] = 0 /\ b[5] = 0
    BY DEF Behind
  <2>2. StandsAt(raw, f + 1 + g, b)
    OBVIOUS
  <2> HIDE DEF b, g, u
  <2>3. f + 1 + g + Len(b) - 1 <= Len(raw) /\ \A k \in 1 .. Len(b) : raw[f + 1 + g + k - 1] = b[k]
    BY <2>2 DEF StandsAt
  <2>4. \A k \in 1 .. 5 : f + 1 + g + k - 1 = f + g + k
    BY <1>1
  <2>5. \A k \in 1 .. 5 : raw[f + g + k] = b[k]
    BY <2>1, <2>3, <2>4
  <2> QED
    BY <1>1, <2>1, <2>3, <2>5
<1>4. /\ raw[i] \in {240, 241} /\ (LongHeaderAt(raw, i) \/ ShortHeaderAt(raw, i))
      /\ UvarintBytes(raw, BodyAt(raw, i).from) + UvarintValue(raw, BodyAt(raw, i).from)
            = BodyAt(raw, i).length
  BY DEF IsObject
<1> HIDE DEF g, u
<1>5. \E k \in 1 .. g : i = f + k
  <2>1. i \notin 1 .. f
    BY <1>4 DEF Dull
  <2>2. i # f + g + 1 /\ i # f + g + 2 /\ i # f + g + 3 /\ i # f + g + 4 /\ i # f + g + 5
    BY <1>3, <1>4
  <2>3. i \in 1 .. f + g + 5
    BY DEF g
  <2>4. i - f \in 1 .. g /\ i = f + (i - f)
    BY <1>1, <2>1, <2>2, <2>3
  <2> QED
    BY <2>4
<1>6. PICK k \in 1 .. g : i = f + k
  BY <1>5
<1>7. raw[i] = 2 * Digit(v, k) + (IF k = g THEN 1 ELSE 0) /\ Digit(v, k) \in 0 .. 127
  BY <1>1, <1>2, <1>6
<1> DEFINE r == raw[i]
           d == Digit(v, k)
<1>19. d \in 0 .. 127 /\ r = 2 * d + (IF k = g THEN 1 ELSE 0)
  BY <1>7
<1>8. k # g
  <2> SUFFICES ASSUME k = g PROVE FALSE
    OBVIOUS
  <2>1. r = 2 * d + 1
    BY <1>19
  <2>2. raw[i] # 240
    <3> SUFFICES r # 240
      OBVIOUS
    <3> HIDE DEF r, d
    <3> QED
      BY <1>19, <2>1
  <2>3. raw[i + 1] = 139
    BY <1>1, <1>3, <1>6
  <2> QED
    BY <1>4, <2>2, <2>3 DEF LongHeaderAt, ShortHeaderAt
<1>9. raw[i] = 240
  <2>1. r = 2 * d + 0
    BY <1>8, <1>19, Zenon
  <2>2. raw[i] # 241
    <3> SUFFICES r # 241
      OBVIOUS
    <3> HIDE DEF r, d
    <3> QED
      BY <1>19, <2>1
  <2> QED
    BY <1>4, <2>2
<1>10. /\ raw[i + 1] >= 192 /\ BodyAt(raw, i).from = i + 2
       /\ BodyAt(raw, i).length = raw[i + 1] % 64
  BY <1>4, <1>9 DEF LongHeaderAt, ShortHeaderAt, BodyAt
<1>11. raw[i + 1] \in 0 .. 255
  BY ObjectEnds DEF Byte
<1>12. g # 2
  <2> SUFFICES ASSUME g = 2 PROVE FALSE
    OBVIOUS
  <2>1. i = f + 1 /\ raw[i + 2] = 139 /\ i + 2 \in 1 .. Len(raw)
    BY <1>3, <1>6, <1>8
  <2>2. raw[i + 2] = 2 * 69 + 1 /\ 69 \in 0 .. 127
    BY <2>1
  <2>3. UvarintBytes(raw, i + 2) = 1 /\ UvarintValue(raw, i + 2) = 69
    BY <2>1, <2>2, OneByte
  <2>4. 1 + 69 = raw[i + 1] % 64
    <3>1. UvarintBytes(raw, i + 2) + UvarintValue(raw, i + 2) = raw[i + 1] % 64
      BY <1>4, <1>10
    <3> QED
      BY <2>3, <3>1, Zenon
  <2>5. \A x \in 0 .. 255 : 1 + 69 # x % 64
    OBVIOUS
  <2> QED
    BY <1>11, <2>4, <2>5, Zenon
<1>13. g = 3
  BY <1>1, <1>6, <1>8, <1>12
<1>14. raw[f + 3] = 3
  <2>1. raw[f + 3] = u[3] /\ u[3] = 2 * Digit(v, 3) + 1
    BY <1>1, <1>2, <1>13
  <2> QED
    BY <1>1, <1>13, <2>1
<1>15. i = f + 1
  <2>1. k = 1 \/ k = 2
    BY <1>8, <1>13
  <2>2. k # 2
    BY <1>6, <1>10, <1>14
  <2> QED
    BY <1>6, <2>1, <2>2
<1>16. UvarintBytes(raw, i + 2) = 1 /\ UvarintValue(raw, i + 2) = 1
  <2>1. raw[i + 2] = 2 * 1 + 1 /\ 1 \in 0 .. 127 /\ i + 2 \in 1 .. Len(raw)
    BY <1>3, <1>13, <1>14, <1>15
  <2> QED
    BY <2>1, OneByte
<1>17. BodyAt(raw, i).length = 2
  BY <1>4, <1>10, <1>16
<1>18. EndAt(raw, i) = i + 4
  BY <1>10, <1>17 DEF EndAt
<1> QED
  BY <1>13, <1>15, <1>18 DEF g

-----------------------------------------------------------------------------
(* The search for objects, and the answer's values.                        *)

\* The places of what counts as an object, those from a place on, and what is cut
\* out at one.
Objects(raw) == {i \in 1 .. Len(raw) : IsObject(raw, i)}
Later(raw, p) == {i \in Objects(raw) : i >= p}
CutAt(raw, i) ==
    SubSeq(raw, BodyAt(raw, i).from + UvarintBytes(raw, BodyAt(raw, i).from), EndAt(raw, i) - 1)

LEMMA FirstLater ==
    ASSUME NEW raw \in Seq(Byte), NEW p \in Nat, Later(raw, p) # {}
    PROVE  LET i == Min(Later(raw, p))
           IN  /\ i \in Objects(raw) /\ i >= p /\ i \in Nat /\ i <= Len(raw)
               /\ EndAt(raw, i) \in i + 1 .. Len(raw) + 1
               /\ \A j \in Objects(raw) : j >= p => i <= j
<1> DEFINE T == Later(raw, p)
<1>1. T \in SUBSET Nat /\ T # {}
  BY DEF Later, Objects
<1> HIDE DEF T
<1>2. Min(T) \in T /\ \A y \in T : Min(T) <= y
  BY <1>1, SmallestOf
<1> USE DEF T
<1>3. Min(T) \in Objects(raw) /\ Min(T) >= p /\ \A j \in Objects(raw) : j >= p => Min(T) <= j
  BY <1>2 DEF Later
<1> HIDE DEF T
<1> DEFINE i == Min(T)
<1>4. i \in 1 .. Len(raw) /\ IsObject(raw, i)
  BY <1>3 DEF Objects
<1>5. EndAt(raw, i) \in i + 1 .. Len(raw) + 1
  <2> HIDE DEF i
  <2> QED
    BY <1>4, ObjectEnds
<1>6. i \in Nat /\ i <= Len(raw)
  <2> HIDE DEF i
  <2> QED
    BY <1>4
<1> QED
  BY <1>3, <1>5, <1>6, Zenon DEF T

\* extractOoxmlBlobs' search, one object after the other.
LEMMA BlobsUnfold ==
    ASSUME NEW raw \in Seq(Byte)
    PROVE  \E f : /\ Blobs(raw) = f[1]
                  /\ \A p \in Nat :
                        f[p] = IF Later(raw, p) = {} THEN <<>>
                               ELSE <<CutAt(raw, Min(Later(raw, p)))>>
                                    \o f[EndAt(raw, Min(Later(raw, p)))]
<1> DEFINE N == Len(raw)
           stop == [p \in Nat |-> Later(raw, p) = {}]
           head == [p \in Nat |-> <<CutAt(raw, Min(Later(raw, p)))>>]
           next == [p \in Nat |-> EndAt(raw, Min(Later(raw, p)))]
           F(f) == [p \in Nat |-> IF Later(raw, p) = {} THEN <<>>
                                  ELSE <<CutAt(raw, Min(Later(raw, p)))>>
                                       \o f[EndAt(raw, Min(Later(raw, p)))]]
<1>1. N \in Nat
  OBVIOUS
<1>2. \A f : IsSearch(f, stop, head, next) <=> f = F(f)
  BY Zenon DEF IsSearch
<1>3. GoesOn(N, stop, next)
  <2> SUFFICES ASSUME NEW p \in Nat, ~stop[p]
               PROVE  p <= N /\ next[p] \in Nat /\ next[p] > p
    BY DEF GoesOn
  <2> DEFINE i == Min(Later(raw, p))
  <2>1. Later(raw, p) # {}
    BY Zenon
  <2>2. i >= p /\ i \in Nat /\ i <= N /\ EndAt(raw, i) \in i + 1 .. N + 1
    BY <2>1, FirstLater
  <2>3. next[p] = EndAt(raw, i)
    BY Zenon
  <2> HIDE DEF i, next, N
  <2> QED
    BY <1>1, <2>2, <2>3
<1>4. \E f : f = F(f)
  <2> HIDE DEF stop, head, next, F, N
  <2>1. \E f : IsSearch(f, stop, head, next)
    BY <1>1, <1>3, SearchDefined
  <2> QED
    BY <1>2, <2>1, Zenon
<1> DEFINE f == CHOOSE g : g = F(g)
<1>5. Blobs(raw) = f[1]
  BY Zenon DEF Blobs, Later, Objects, CutAt, EndAt
<1>6. f = F(f)
  BY <1>4, Zenon
<1> HIDE DEF f
<1>7. \A p \in Nat : F(f)[p] = IF Later(raw, p) = {} THEN <<>>
                               ELSE <<CutAt(raw, Min(Later(raw, p)))>>
                                    \o f[EndAt(raw, Min(Later(raw, p)))]
  BY Zenon
<1> HIDE DEF F
<1> QED
  BY <1>5, <1>6, <1>7, Zenon

\* What is found is cut out at objects; and an object is found if each before it is
\* over when it begins.
LEMMA ObjectIsFound ==
    ASSUME NEW raw \in Seq(Byte)
    PROVE  /\ Blobs(raw) \in Seq({CutAt(raw, i) : i \in Objects(raw)})
           /\ Objects(raw) = {} => Blobs(raw) = <<>>
           /\ \A t \in Objects(raw) :
                 (\A i \in Objects(raw) : i < t => EndAt(raw, i) <= t)
                    => \E k \in 1 .. Len(Blobs(raw)) : Blobs(raw)[k] = CutAt(raw, t)
<1> DEFINE N == Len(raw)
           C == {CutAt(raw, i) : i \in Objects(raw)}
<1>1. PICK f : /\ Blobs(raw) = f[1]
               /\ \A p \in Nat :
                     f[p] = IF Later(raw, p) = {} THEN <<>>
                            ELSE <<CutAt(raw, Min(Later(raw, p)))>>
                                 \o f[EndAt(raw, Min(Later(raw, p)))]
  BY BlobsUnfold
<1>2. N \in Nat /\ \A p \in 1 .. N + 1 : p \in Nat
  OBVIOUS
<1>3. ASSUME NEW p \in 1 .. N + 1, Later(raw, p) # {}
      PROVE  LET i == Min(Later(raw, p))
             IN  /\ i \in Objects(raw) /\ i >= p /\ i \in Nat
                 /\ EndAt(raw, i) \in p + 1 .. N + 1 /\ EndAt(raw, i) > i
                 /\ f[p] = <<CutAt(raw, i)>> \o f[EndAt(raw, i)]
                 /\ \A j \in Objects(raw) : j >= p => i <= j
  <2> DEFINE i == Min(Later(raw, p))
  <2>1. /\ i \in Objects(raw) /\ i >= p /\ i \in Nat /\ EndAt(raw, i) \in i + 1 .. N + 1
        /\ \A j \in Objects(raw) : j >= p => i <= j
    BY <1>2, <1>3, FirstLater
  <2>2. f[p] = <<CutAt(raw, i)>> \o f[EndAt(raw, i)]
    BY <1>1, <1>2, <1>3, Zenon
  <2> HIDE DEF i, N
  <2>3. EndAt(raw, i) \in p + 1 .. N + 1 /\ EndAt(raw, i) > i
    BY <1>2, <2>1
  <2> QED
    BY <2>1, <2>2, <2>3, Zenon DEF i
<1>4. \A p \in 1 .. N + 1 : f[p] \in Seq(C)
  <2> DEFINE S == {p \in Nat : f[p] \in Seq(C)}
  <2>1. ASSUME NEW p \in 1 .. N + 1, \A q \in p + 1 .. N + 1 : q \in S
        PROVE  p \in S
    <3>1. CASE Later(raw, p) = {}
      <4>1. f[p] = <<>>
        BY <1>1, <1>2, <3>1, Zenon
      <4>2. <<>> \in Seq(C)
        OBVIOUS
      <4> QED
        BY <1>2, <4>1, <4>2, Zenon
    <3>2. CASE Later(raw, p) # {}
      <4> DEFINE i == Min(Later(raw, p))
      <4>1. i \in Objects(raw) /\ EndAt(raw, i) \in p + 1 .. N + 1
            /\ f[p] = <<CutAt(raw, i)>> \o f[EndAt(raw, i)]
        BY <1>3, <3>2
      <4>2. f[EndAt(raw, i)] \in Seq(C) /\ CutAt(raw, i) \in C
        BY <2>1, <4>1, Zenon
      <4>3. \A c \in C, s \in Seq(C) : <<c>> \o s \in Seq(C)
        <5> HIDE DEF C
        <5> QED
          OBVIOUS
      <4> HIDE DEF i, C
      <4>4. f[p] \in Seq(C)
        BY <4>1, <4>2, <4>3, Zenon
      <4> QED
        BY <1>2, <4>4, Zenon
    <3> QED
      BY <3>1, <3>2
  <2> HIDE DEF S, N
  <2>2. \A p \in 1 .. N + 1 : p \in S
    BY <1>2, <2>1, Backwards
  <2> QED
    BY <2>2, Zenon DEF S
<1>5. 1 \in 1 .. N + 1
  BY <1>2
<1>6. Blobs(raw) \in Seq(C)
  BY <1>1, <1>4, <1>5, Zenon
<1>7. Objects(raw) = {} => Blobs(raw) = <<>>
  <2> SUFFICES ASSUME Objects(raw) = {} PROVE Blobs(raw) = <<>>
    OBVIOUS
  <2>1. Later(raw, 1) = {}
    BY Zenon DEF Later
  <2> QED
    BY <1>1, <1>2, <1>5, <2>1, Zenon
<1>8. ASSUME NEW t \in Objects(raw), \A i \in Objects(raw) : i < t => EndAt(raw, i) <= t
      PROVE  \E k \in 1 .. Len(Blobs(raw)) : Blobs(raw)[k] = CutAt(raw, t)
  <2> DEFINE Has(s) == \E k \in 1 .. Len(s) : s[k] = CutAt(raw, t)
             S == {p \in Nat : p <= t => Has(f[p])}
  <2>1. t \in 1 .. N /\ CutAt(raw, t) \in C
    BY DEF Objects
  <2>2. ASSUME NEW c \in C, NEW s \in Seq(C)
        PROVE  (c = CutAt(raw, t) \/ Has(s)) => Has(<<c>> \o s)
    <3> HIDE DEF C
    <3>1. /\ Len(<<c>> \o s) = 1 + Len(s) /\ (<<c>> \o s)[1] = c /\ Len(s) \in Nat
          /\ \A k \in 1 .. Len(s) : (<<c>> \o s)[1 + k] = s[k] /\ 1 + k \in 1 .. 1 + Len(s)
      OBVIOUS
    <3>2. 1 \in 1 .. 1 + Len(s)
      BY <3>1
    <3> QED
      BY <3>1, <3>2, Zenon
  <2>3. ASSUME NEW p \in 1 .. N + 1, \A q \in p + 1 .. N + 1 : q \in S
        PROVE  p \in S
    <3> SUFFICES ASSUME p <= t PROVE Has(f[p])
      BY <1>2, Zenon
    <3> DEFINE i == Min(Later(raw, p))
    <3>1. Later(raw, p) # {}
      BY <2>1 DEF Later
    <3>2. /\ i \in Objects(raw) /\ i >= p /\ i \in Nat
          /\ EndAt(raw, i) \in p + 1 .. N + 1 /\ EndAt(raw, i) > i
          /\ f[p] = <<CutAt(raw, i)>> \o f[EndAt(raw, i)]
          /\ \A j \in Objects(raw) : j >= p => i <= j
      BY <1>3, <3>1
    <3>3. i <= t
      BY <3>2
    <3>4. CutAt(raw, i) \in C /\ f[EndAt(raw, i)] \in Seq(C)
      <4>1. EndAt(raw, i) \in 1 .. N + 1
        <5> HIDE DEF i, N
        <5> QED
          BY <1>2, <3>2
      <4> QED
        BY <1>4, <3>2, <4>1, Zenon
    <3> HIDE DEF i, C
    <3>5. CASE i = t
      <4> HIDE DEF Has
      <4> QED
        BY <2>2, <3>2, <3>4, <3>5, Zenon
    <3>6. CASE i # t
      <4>1. i < t
        BY <2>1, <3>2, <3>3, <3>6
      <4>2. EndAt(raw, i) <= t /\ EndAt(raw, i) \in S
        BY <1>8, <2>3, <3>2, <4>1, Zenon
      <4>3. Has(f[EndAt(raw, i)])
        BY <4>2, Zenon
      <4> HIDE DEF Has
      <4> QED
        BY <2>2, <3>2, <3>4, <4>3, Zenon
    <3> QED
      BY <3>5, <3>6
  <2> HIDE DEF S, N
  <2>4. \A p \in 1 .. N + 1 : p \in S
    BY <1>2, <2>3, Backwards
  <2>5. 1 \in S /\ 1 <= t
    BY <1>5, <2>1, <2>4
  <2>6. Has(f[1])
    BY <2>5, Zenon DEF S
  <2> QED
    BY <1>1, <2>6, Zenon
<1> QED
  BY <1>6, <1>7, <1>8, Zenon

LEMMA QuietBytes ==
    ASSUME NEW raw \in Seq(Dull)
    PROVE  Objects(raw) = {}
BY DEF Objects, IsObject, Dull

\* The answer without a document holds nothing that looks like an object.
LEMMA NoDocument == GetChanges \in Seq(Byte) /\ GetChanges # <<>> /\ Blobs(GetChanges) = <<>>
<1> DEFINE a == Header(Request, 0, TRUE) \o Header(SubRequest, 0, TRUE)
           b == a \o Uvarint(2) \o Uvarint(2)
           c == b \o EndObject(SubRequest)
<1>1. EndObject(Request) \in Seq(Dull) /\ EndObject(SubRequest) \in Seq(Dull)
      /\ Len(EndObject(Request)) = 1
  <2>1. ((2 * Request) % 256) + 1 = 53 /\ ((2 * SubRequest) % 256) + 1 = 55
    BY DEF Request, SubRequest
  <2>2. 53 \in Dull /\ 55 \in Dull
    BY DEF Dull, Byte
  <2>3. EndObject(Request) = <<53>> /\ EndObject(SubRequest) = <<55>>
    BY <2>1, Zenon DEF EndObject
  <2>4. \A x \in Dull : Len(<<x>>) = 1
    OBVIOUS
  <2>5. IsDull(<<53>>) /\ IsDull(<<55>>)
    BY <2>2, DullOne, Zenon
  <2> QED
    BY <2>2, <2>3, <2>4, <2>5, Zenon DEF IsDull
<1>2. a \in Seq(Dull)
  BY ShortOpening, DullJoined, Zenon
<1>3. b \in Seq(Dull)
  <2> HIDE DEF a
  <2> QED
    BY <1>2, DullIds, DullJoined, Zenon
<1>4. c \in Seq(Dull)
  <2> HIDE DEF b
  <2> QED
    BY <1>1, <1>3, DullJoined, Zenon
<1>5. GetChanges = c \o EndObject(Request)
  BY Zenon DEF GetChanges
<1> HIDE DEF a, b, c
<1>6. GetChanges \in Seq(Dull) /\ GetChanges \in Seq(Byte)
  BY <1>1, <1>4, <1>5, DullJoined, DullIsByte, Zenon
<1>7. GetChanges # <<>>
  <2>1. ASSUME NEW x \in Seq(Dull), NEW y \in Seq(Dull), Len(y) = 1 PROVE x \o y # <<>>
    BY <2>1
  <2> QED
    BY <1>1, <1>4, <1>5, <2>1, Zenon
<1>8. Blobs(GetChanges) = <<>>
  BY <1>6, QuietBytes, ObjectIsFound, Zenon
<1> QED
  BY <1>6, <1>7, <1>8

\* The search of a put comes to the document's object.
LEMMA PutSearched ==
    ASSUME NEW bytes, Fits(bytes), bytes # <<>>
    PROVE  LET raw == PutChanges(bytes)
               t == 1 + Len(Before(bytes))
           IN  /\ raw \in Seq(Byte) /\ raw # <<>>
               /\ t \in Objects(raw) /\ CutAt(raw, t) = bytes
               /\ \A i \in Objects(raw) : i < t => EndAt(raw, i) <= t
<1> DEFINE raw == PutChanges(bytes)
           t == 1 + Len(Before(bytes))
           v == Len(bytes)
           ahead == Ahead(bytes)
           u == SizeOf(bytes)
           f == Len(ahead)
<1>1. /\ raw \in Seq(Byte) /\ StandsAt(raw, 1, Before(bytes)) /\ StandsAt(raw, t, Object(bytes))
  BY PutParts, Zenon
<1>2. /\ ahead \in Seq(Dull) /\ ahead \in Seq(Int) /\ u \in Seq(Int) /\ Behind \in Seq(Int)
      /\ Before(bytes) = ahead \o (u \o Behind)
  BY BeforeParts, DullIsByte, AsInts, Zenon
<1>3. v \in Small /\ v < TwoTo15 /\ u = Uvarint(v) /\ Len(u) = Groups(v) /\ Len(u) \in 1 .. 3
  <2>1. v \in Small /\ Len(u) = Groups(v) /\ Len(u) \in 1 .. 3
    BY SizeTyped, Zenon
  <2>2. v < TwoTo15
    BY Below, Zenon DEF Fits
  <2> QED
    BY <2>1, <2>2, Zenon DEF SizeOf
<1>4. f \in Nat /\ Len(Behind) = 5
  BY <1>2 DEF Behind
<1> HIDE DEF raw
<1>5. /\ StandsAt(raw, 1, ahead) /\ StandsAt(raw, 1 + f, u) /\ StandsAt(raw, 1 + f + Len(u), Behind)
      /\ Len(Before(bytes)) = f + Len(u) + Len(Behind)
  <2>1. StandsAt(raw, 1, ahead \o (u \o Behind))
    BY <1>1, <1>2, Zenon
  <2> HIDE DEF ahead, u, t
  <2>2. /\ StandsAt(raw, 1, ahead) /\ StandsAt(raw, 1 + Len(ahead), u)
        /\ StandsAt(raw, 1 + Len(ahead) + Len(u), Behind)
        /\ Len(ahead \o (u \o Behind)) = Len(ahead) + Len(u) + Len(Behind)
    <3>1. ASSUME NEW x \in Seq(Int), NEW y \in Seq(Int), NEW z \in Seq(Int), NEW p,
                 StandsAt(raw, p, x \o (y \o z))
          PROVE  /\ StandsAt(raw, p, x) /\ StandsAt(raw, p + Len(x), y)
                 /\ StandsAt(raw, p + Len(x) + Len(y), z)
                 /\ Len(x \o (y \o z)) = Len(x) + Len(y) + Len(z)
      BY <1>1, <3>1, FrameStands
    <3> QED
      BY <1>2, <2>1, <3>1, Zenon
  <2> QED
    BY <1>2, <2>2, Zenon
<1>6. \A j \in 1 .. f : raw[j] \in Dull
  <2> SUFFICES ASSUME NEW j \in 1 .. f PROVE raw[j] \in Dull
    OBVIOUS
  <2> HIDE DEF ahead, u, t
  <2>1. raw[1 + j - 1] = ahead[j] /\ 1 + j - 1 = j
    BY <1>5 DEF StandsAt
  <2>2. ahead[j] \in Dull
    BY <1>2
  <2> QED
    BY <2>1, <2>2
<1> HIDE DEF f, u, ahead, v
<1>7. t = f + Groups(v) + 6 /\ 1 + f = f + 1 /\ 1 + f + Len(u) = f + 1 + Groups(v)
  BY <1>3, <1>4, <1>5
<1>8. StandsAt(raw, f + 1, Uvarint(v)) /\ StandsAt(raw, f + 1 + Groups(v), Behind)
  BY <1>3, <1>5, <1>7, Zenon
<1>9. t \in Objects(raw) /\ CutAt(raw, t) = bytes /\ raw # <<>>
  <2> HIDE DEF t
  <2>1. bytes \in Seq(Byte) /\ Len(bytes) + 3 < TwoTo15
    BY DEF Fits
  <2>2. /\ IsObject(raw, t)
        /\ SubSeq(raw, BodyAt(raw, t).from + UvarintBytes(raw, BodyAt(raw, t).from),
                  BodyAt(raw, t).from + BodyAt(raw, t).length - 1) = bytes
    BY <1>1, <2>1, DocumentCounts
  <2>3. t \in Nat \ {0} /\ t < Len(raw)
    BY <1>1, <2>2, Zenon DEF StandsAt, IsObject
  <2>4. t \in 1 .. Len(raw) /\ raw # <<>>
    BY <1>1, <2>3
  <2> QED
    <3>1. t \in Objects(raw)
      BY <2>2, <2>4 DEF Objects
    <3>2. CutAt(raw, t) = bytes
      <4>1. EndAt(raw, t) - 1 = BodyAt(raw, t).from + BodyAt(raw, t).length - 1
        BY <1>1, <2>2, <2>4, ObjectEnds
      <4>2. CutAt(raw, t) = SubSeq(raw, BodyAt(raw, t).from + UvarintBytes(raw, BodyAt(raw, t).from),
                                   EndAt(raw, t) - 1)
        BY Zenon DEF CutAt
      <4> QED
        BY <2>2, <4>1, <4>2, Zenon
    <3> QED
      BY <2>4, <3>1, <3>2
<1>10. ASSUME NEW i \in Objects(raw), i < t PROVE EndAt(raw, i) <= t
  <2>1. i \in 1 .. Len(raw) /\ IsObject(raw, i)
    BY DEF Objects
  <2>2. Groups(v) \in Nat
    BY <1>3
  <2>3. i \in 1 .. f + Groups(v) + 5 /\ i <= Len(raw)
    BY <1>1, <1>4, <1>7, <1>10, <2>1, <2>2
  <2>4. EndAt(raw, i) <= f + Groups(v) + 6
    BY <1>1, <1>3, <1>4, <1>6, <1>8, <2>1, <2>3, EarlierEnds, Zenon
  <2> QED
    BY <1>7, <2>4, Zenon
<1> QED
  BY <1>1, <1>9, <1>10, Zenon DEF raw

IsThree(s, a, b, c) ==
    /\ DOMAIN s = 1 .. 3 /\ s = [i \in 1 .. 3 |-> s[i]]
    /\ s[1] = a /\ s[2] = b /\ s[3] = c

\* The blobs of an answer's three values, one after the other.
LEMMA ThreeValues ==
    ASSUME NEW S, NEW a \in Seq(S), NEW b \in Seq(S), NEW c \in Seq(S),
           NEW s, IsThree(s, a, b, c)
    PROVE  FlattenSeq(s) = (a \o b) \o c
<1> USE DEF IsThree
<1>1. /\ <<>> \in Seq(Seq(S)) /\ Append(<<>>, a) \in Seq(Seq(S))
      /\ Append(Append(<<>>, a), b) \in Seq(Seq(S))
  OBVIOUS
<1>2. s = Append(Append(Append(<<>>, a), b), c)
  <2> DEFINE A == Seq(S)
  <2>1. a \in A /\ b \in A /\ c \in A
    OBVIOUS
  <2> HIDE DEF A
  <2>2. s \in Seq(A) /\ Len(s) = 3
    BY <2>1
  <2> DEFINE r == Append(Append(Append(<<>>, a), b), c)
  <2>3. r \in Seq(A) /\ Len(r) = 3 /\ r[1] = a /\ r[2] = b /\ r[3] = c
    BY <2>1
  <2> HIDE DEF r
  <2>4. \A i \in 1 .. 3 : s[i] = r[i]
    BY <2>3
  <2> QED
    BY <2>2, <2>3, <2>4 DEF r
<1>3. FlattenSeq(Append(<<>>, a)) = <<>> \o a
  BY <1>1, FlattenLast, FlattenEmpty
<1>4. FlattenSeq(Append(Append(<<>>, a), b)) = FlattenSeq(Append(<<>>, a)) \o b
  BY <1>1, FlattenLast
<1>5. FlattenSeq(Append(Append(Append(<<>>, a), b), c)) = FlattenSeq(Append(Append(<<>>, a), b)) \o c
  BY <1>1, FlattenLast
<1>6. <<>> \o a = a
  OBVIOUS
<1> QED
  BY <1>2, <1>3, <1>4, <1>5, <1>6, Zenon

-----------------------------------------------------------------------------
(* A put read back by its layout.                                          *)

\* Where a reader is, and the end of the leaf it is in.
AtPos(pos, leafEnd) == [pos |-> pos, leafEnd |-> leafEnd]

IsReading(g, raw, layout, N) ==
    g = [n \in 0 .. N |-> IF n = 0 THEN {AtPos(1, 0)}
                          ELSE UNION {ReadPart(raw, s, layout[n]) : s \in g[n - 1]}]

LEMMA ReadingDefined ==
    ASSUME NEW raw, NEW layout, NEW N \in Nat
    PROVE  \E g : IsReading(g, raw, layout, N)
<1> DEFINE T == {k \in Nat : \E g : IsReading(g, raw, layout, k)}
<1>1. 0 \in T
  <2>1. IsReading([n \in 0 .. 0 |-> {AtPos(1, 0)}], raw, layout, 0)
    BY DEF IsReading
  <2> QED
    BY <2>1
<1>2. ASSUME NEW k \in Nat, k \in T PROVE k + 1 \in T
  <2>1. PICK f : IsReading(f, raw, layout, k)
    BY <1>2
  <2> DEFINE next == UNION {ReadPart(raw, s, layout[k + 1]) : s \in f[k]}
             g == [n \in 0 .. k + 1 |-> IF n = k + 1 THEN next ELSE f[n]]
  <2>2. /\ (k + 1) - 1 = k /\ k + 1 # 0 /\ k # k + 1 /\ k \in 0 .. k + 1 /\ k + 1 \in 0 .. k + 1
        /\ \A n \in 0 .. k + 1 : n = k + 1 \/ n \in 0 .. k
        /\ \A n \in 0 .. k : n # k + 1 /\ n \in 0 .. k + 1 /\ (n # 0 => n - 1 \in 0 .. k)
    OBVIOUS
  <2>3. \A n \in 0 .. k : g[n] = f[n]
    BY <2>2, Zenon
  <2>4. g[k + 1] = next
    BY <2>2, Zenon
  <2>5. \A n \in 0 .. k : f[n] = IF n = 0 THEN {AtPos(1, 0)}
                                 ELSE UNION {ReadPart(raw, s, layout[n]) : s \in f[n - 1]}
    BY <2>1, Zenon DEF IsReading
  <2>6. k \in 0 .. k
    OBVIOUS
  <2>7. DOMAIN g = 0 .. k + 1 /\ g = [n \in 0 .. k + 1 |-> g[n]]
    OBVIOUS
  <2> HIDE DEF g
  <2> DEFINE Good(n) == g[n] = IF n = 0 THEN {AtPos(1, 0)}
                               ELSE UNION {ReadPart(raw, s, layout[n]) : s \in g[n - 1]}
  <2>8. \A n \in 0 .. k + 1 : Good(n)
    <3>1. Good(k + 1)
      <4>1. g[(k + 1) - 1] = f[k]
        BY <2>2, <2>3, <2>6, Zenon
      <4>2. g[k + 1] = UNION {ReadPart(raw, s, layout[k + 1]) : s \in g[(k + 1) - 1]}
        BY <2>4, <4>1, Zenon
      <4> QED
        BY <2>2, <4>2, Zenon
    <3>2. \A n \in 0 .. k : Good(n)
      BY <2>2, <2>3, <2>5, Zenon
    <3> HIDE DEF Good
    <3> QED
      BY <2>2, <3>1, <3>2, Zenon
  <2>9. IsReading(g, raw, layout, k + 1)
    BY <2>7, <2>8, Zenon DEF IsReading
  <2> QED
    BY <2>9
<1> HIDE DEF T
<1>3. N \in T
  BY <1>1, <1>2, Induction
<1> QED
  BY <1>3 DEF T

\* The states a reading goes through, part by part from the buffer's beginning.
ReadsBy(g, raw, layout) ==
    /\ ReadLayout(raw, layout) = g[Len(layout)] /\ g[0] = {AtPos(1, 0)}
    /\ \A n \in 1 .. Len(layout) :
          g[n] = UNION {ReadPart(raw, s, layout[n]) : s \in g[n - 1]}

LEMMA ReadingStarts ==
    ASSUME NEW raw, NEW layout, Len(layout) \in Nat
    PROVE  \E g : ReadsBy(g, raw, layout)
<1> DEFINE N == Len(layout)
           g == CHOOSE f : IsReading(f, raw, layout, N)
<1>1. IsReading(g, raw, layout, N)
  BY ReadingDefined, Zenon
<1>2. ReadLayout(raw, layout) = g[N]
  BY Zenon DEF ReadLayout, IsReading, AtPos
<1> HIDE DEF g, N
<1>3. 0 \in 0 .. N /\ \A n \in 1 .. N : n \in 0 .. N /\ n # 0
  BY DEF N
<1>4. \A n \in 0 .. N : g[n] = IF n = 0 THEN {AtPos(1, 0)}
                               ELSE UNION {ReadPart(raw, s, layout[n]) : s \in g[n - 1]}
  BY <1>1, Zenon DEF IsReading
<1>5. ReadsBy(g, raw, layout)
  BY <1>2, <1>3, <1>4, Zenon DEF N, ReadsBy
<1> QED
  BY <1>5

-----------------------------------------------------------------------------
(* One part, read where it stands.                                         *)

Leads(raw, s, part, t) == ReadPart(raw, s, part) = {t}

HeaderOf(c, t, n, next) == [compound |-> c, type |-> t, length |-> n, next |-> next]

ReadsHeader(raw, pos, t, n, c) ==
    StandsAt(raw, pos, Header(t, n, c)) =>
        ReadStreamHeader(raw, pos) = {HeaderOf(c, t, n, pos + Len(Header(t, n, c)))}

LEMMA HeaderRead ==
    ASSUME NEW raw \in Seq(Byte), NEW pos, NEW t \in 0 .. 127, NEW n \in Nat, n < TwoTo15
    PROVE  ReadsHeader(raw, pos, t, n, TRUE) /\ ReadsHeader(raw, pos, t, n, FALSE)
<1>1. ASSUME NEW c \in BOOLEAN, StandsAt(raw, pos, Header(t, n, c))
      PROVE  ReadStreamHeader(raw, pos) =
                {[compound |-> c, type |-> t, length |-> n, next |-> pos + Len(Header(t, n, c))]}
  <2>1. t \in Nat /\ t < 16384 /\ n < 32768
    BY SMT DEF TwoTo15
  <2> QED
    BY <1>1, <2>1, HeaderReadsBack, SMT
<1> QED
  BY <1>1, Zenon DEF HeaderOf, ReadsHeader

LEMMA OpenLeads ==
    \A raw \in Seq(Byte), t \in 0 .. 127 : \A pos, x :
        StandsAt(raw, pos, Header(t, 0, TRUE)) =>
            Leads(raw, AtPos(pos, x), <<"open", t>>,
                  AtPos(pos + Len(Header(t, 0, TRUE)), 0))
<1> SUFFICES ASSUME NEW raw \in Seq(Byte), NEW pos, NEW x, NEW t \in 0 .. 127,
                    StandsAt(raw, pos, Header(t, 0, TRUE))
             PROVE  Leads(raw, AtPos(pos, x), <<"open", t>>,
                          AtPos(pos + Len(Header(t, 0, TRUE)), 0))
  OBVIOUS
<1> DEFINE next == pos + Len(Header(t, 0, TRUE))
           h == HeaderOf(TRUE, t, 0, next)
<1>1. ReadStreamHeader(raw, pos) = {h}
  <2>1. 0 \in Nat /\ 0 < TwoTo15
    BY SMT DEF TwoTo15
  <2>2. ReadsHeader(raw, pos, t, 0, TRUE)
    BY <2>1, HeaderRead, Zenon
  <2> QED
    BY <2>2, Zenon DEF ReadsHeader
<1> HIDE DEF next
<1>2. ReadPart(raw, AtPos(pos, x), <<"open", t>>) =
         UNION {{[pos |-> k.next, leafEnd |-> 0]} :
                   k \in {j \in {i \in ReadStreamHeader(raw, pos) :
                                    i.type = t /\ i.compound = ("open" = "open")} : j.length = 0}}
  BY DEF ReadPart, AtPos
<1>3. h.type = t /\ h.compound = ("open" = "open") /\ h.length = 0 /\ h.next = next
  BY DEF HeaderOf
<1> HIDE DEF h
<1>4. {j \in {i \in {h} : i.type = t /\ i.compound = ("open" = "open")} : j.length = 0} = {h}
  BY <1>3
<1>5. UNION {{[pos |-> k.next, leafEnd |-> 0]} : k \in {h}} = {AtPos(next, 0)}
  BY <1>3 DEF AtPos
<1> QED
  BY <1>1, <1>2, <1>4, <1>5, Zenon DEF next, Leads

LEMMA LeafLeads ==
    \A raw \in Seq(Byte), t \in 0 .. 127, n \in Nat : \A pos, x :
        n < TwoTo15 /\ StandsAt(raw, pos, Header(t, n, FALSE)) =>
            Leads(raw, AtPos(pos, x), <<"leaf", t>>,
                  AtPos(pos + Len(Header(t, n, FALSE)), pos + Len(Header(t, n, FALSE)) + n))
<1> SUFFICES ASSUME NEW raw \in Seq(Byte), NEW pos, NEW x, NEW t \in 0 .. 127,
                    NEW n \in Nat, n < TwoTo15, StandsAt(raw, pos, Header(t, n, FALSE))
             PROVE  Leads(raw, AtPos(pos, x), <<"leaf", t>>,
                          AtPos(pos + Len(Header(t, n, FALSE)), pos + Len(Header(t, n, FALSE)) + n))
  OBVIOUS
<1> DEFINE next == pos + Len(Header(t, n, FALSE))
           h == HeaderOf(FALSE, t, n, next)
<1>1. ReadStreamHeader(raw, pos) = {h}
  <2>2. ReadsHeader(raw, pos, t, n, FALSE)
    BY HeaderRead, Zenon
  <2> QED
    BY <2>2, Zenon DEF ReadsHeader
<1> HIDE DEF next
<1>2. ReadPart(raw, AtPos(pos, x), <<"leaf", t>>) =
         UNION {{[pos |-> k.next, leafEnd |-> k.next + k.length]} :
                   k \in {i \in ReadStreamHeader(raw, pos) :
                             i.type = t /\ i.compound = ("leaf" = "open")}}
  BY DEF ReadPart, AtPos
<1>3. h.type = t /\ h.compound = ("leaf" = "open") /\ h.length = n /\ h.next = next
  BY DEF HeaderOf
<1> HIDE DEF h
<1>4. {i \in {h} : i.type = t /\ i.compound = ("leaf" = "open")} = {h}
  BY <1>3
<1>5. UNION {{[pos |-> k.next, leafEnd |-> k.next + k.length]} : k \in {h}} = {AtPos(next, next + n)}
  BY <1>3 DEF AtPos
<1> QED
  BY <1>1, <1>2, <1>4, <1>5, Zenon DEF next, Leads

LEMMA NumberLeads ==
    \A raw \in Seq(Byte), v \in Small : \A pos, x :
        StandsAt(raw, pos, Uvarint(v)) =>
            Leads(raw, AtPos(pos, x), <<"number", v>>,
                  AtPos(pos + Len(Uvarint(v)), x))
<1> SUFFICES ASSUME NEW raw \in Seq(Byte), NEW pos, NEW x, NEW v \in Small,
                    StandsAt(raw, pos, Uvarint(v))
             PROVE  Leads(raw, AtPos(pos, x), <<"number", v>>,
                          AtPos(pos + Len(Uvarint(v)), x))
  OBVIOUS
<1> DEFINE next == pos + Len(Uvarint(v))
<1>1. ReadUvarint(raw, pos) = [value |-> v, next |-> next]
  BY NumberReadsBack, SMT
<1> HIDE DEF next
<1>2. ReadUvarint(raw, pos).value = v /\ ReadUvarint(raw, pos).next = next
  BY <1>1
<1>3. ReadPart(raw, AtPos(pos, x), <<"number", v>>) =
         IF ReadUvarint(raw, pos).value = v
         THEN {[pos |-> ReadUvarint(raw, pos).next, leafEnd |-> x]} ELSE {}
  BY DEF ReadPart, AtPos
<1> QED
  BY <1>2, <1>3 DEF AtPos, next, Leads

LEMMA IdLeads ==
    \A raw \in Seq(Byte), g \in Seq(Byte) : \A pos, x :
        Len(g) = 16 /\ StandsAt(raw, pos, ExGuid(g)) =>
            Leads(raw, AtPos(pos, x), <<"id", g>>,
                  AtPos(pos + Len(ExGuid(g)), x))
<1> SUFFICES ASSUME NEW raw \in Seq(Byte), NEW pos, NEW x, NEW g \in Seq(Byte), Len(g) = 16,
                    StandsAt(raw, pos, ExGuid(g))
             PROVE  Leads(raw, AtPos(pos, x), <<"id", g>>,
                          AtPos(pos + Len(ExGuid(g)), x))
  OBVIOUS
<1> DEFINE u == Uvarint(1)
<1>1. 1 \in Small /\ u \in Seq(Byte) /\ u \in Seq(Int) /\ g \in Seq(Int)
  <2>1. 1 \in 0 .. 127
    OBVIOUS
  <2> QED
    BY <2>1, SmallNumber, AsInts, Zenon
<1>2. StandsAt(raw, pos, g \o u)
  BY Zenon DEF ExGuid
<1> HIDE DEF u
<1>3. StandsAt(raw, pos, g) /\ StandsAt(raw, pos + Len(g), u)
  BY <1>1, <1>2, PartsStand
<1>4. SubSeq(raw, pos, pos + Len(g) - 1) = g
  BY <1>3, CutOut
<1>5. ReadUvarint(raw, pos + Len(g)) = [value |-> 1, next |-> pos + Len(g) + Len(u)]
  BY <1>1, <1>3, NumberReadsBack DEF u
<1>6. Len(ExGuid(g)) = Len(g) + Len(u)
  BY <1>1, Joined, Zenon DEF ExGuid, u
<1>7. pos \in Nat
  BY <1>3 DEF StandsAt
<1> DEFINE next == pos + Len(ExGuid(g))
<1>8. /\ SubSeq(raw, pos, pos + 15) = g
      /\ ReadUvarint(raw, pos + 16) = [value |-> 1, next |-> next]
  <2>1. pos + Len(g) - 1 = pos + 15 /\ pos + Len(g) = pos + 16
    BY <1>7
  <2>2. pos + Len(g) + Len(u) = next
    BY <1>1, <1>6, <1>7
  <2> QED
    BY <1>4, <1>5, <2>1, <2>2
<1> HIDE DEF next
<1>9. ReadExGuid(raw, pos) = [guid |-> g, value |-> 1, next |-> next]
  <2> DEFINE r == ReadUvarint(raw, pos + 16)
  <2>1. r.value = 1 /\ r.next = next
    BY <1>8
  <2>2. ReadExGuid(raw, pos) = [guid |-> SubSeq(raw, pos, pos + 15), value |-> r.value, next |-> r.next]
    BY Zenon DEF ReadExGuid
  <2> HIDE DEF r
  <2> QED
    BY <1>8, <2>1, <2>2, Zenon
<1>10. /\ ReadExGuid(raw, pos).guid = g /\ ReadExGuid(raw, pos).value = 1
       /\ ReadExGuid(raw, pos).next = next
  BY <1>9
<1>11. ReadPart(raw, AtPos(pos, x), <<"id", g>>) =
          IF ReadExGuid(raw, pos).guid = g /\ ReadExGuid(raw, pos).value = 1
          THEN {[pos |-> ReadExGuid(raw, pos).next, leafEnd |-> x]} ELSE {}
  BY DEF ReadPart, AtPos
<1> QED
  BY <1>10, <1>11 DEF AtPos, next, Leads

LEMMA CloseLeads ==
    \A raw \in Seq(Byte), t \in 0 .. 127 : \A pos, x :
        StandsAt(raw, pos, EndObject(t)) =>
            Leads(raw, AtPos(pos, x), <<"close", t>>,
                  AtPos(pos + Len(EndObject(t)), 0))
<1> SUFFICES ASSUME NEW raw \in Seq(Byte), NEW pos, NEW x, NEW t \in 0 .. 127,
                    StandsAt(raw, pos, EndObject(t))
             PROVE  Leads(raw, AtPos(pos, x), <<"close", t>>,
                          AtPos(pos + Len(EndObject(t)), 0))
  OBVIOUS
<1> DEFINE b == ((2 * t) % 256) + 1
<1>1. b = 2 * t + 1
  OBVIOUS
<1>2. EndObject(t) = <<b>>
  BY Zenon DEF EndObject
<1> HIDE DEF b
<1>3. Len(<<b>>) = 1 /\ <<b>>[1] = b
  OBVIOUS
<1>4. Len(EndObject(t)) = 1 /\ EndObject(t)[1] = b
  BY <1>2, <1>3, Zenon
<1>5. raw[pos] = b
  <2> DEFINE e == EndObject(t)
  <2>1. Len(e) = 1 /\ e[1] = b /\ StandsAt(raw, pos, e)
    BY <1>4
  <2> HIDE DEF e
  <2> QED
    BY <2>1 DEF StandsAt
<1>6. ReadPart(raw, AtPos(pos, x), <<"close", t>>) =
         IF raw[pos] = 2 * t + 1 THEN {[pos |-> pos + 1, leafEnd |-> 0]} ELSE {}
  BY DEF ReadPart, AtPos
<1> QED
  BY <1>1, <1>4, <1>5, <1>6, Zenon DEF AtPos, Leads

LEMMA BytesLeads ==
    \A raw \in Seq(Byte), bytes \in Seq(Byte) : \A pos, x :
        StandsAt(raw, pos, bytes) =>
            Leads(raw, AtPos(pos, x), <<"bytes", bytes>>,
                  AtPos(pos + Len(bytes), x))
<1> SUFFICES ASSUME NEW raw \in Seq(Byte), NEW pos, NEW x, NEW bytes \in Seq(Byte),
                    StandsAt(raw, pos, bytes)
             PROVE  Leads(raw, AtPos(pos, x), <<"bytes", bytes>>,
                          AtPos(pos + Len(bytes), x))
  OBVIOUS
<1>1. SubSeq(raw, pos, pos + Len(bytes) - 1) = bytes
  BY CutOut, Zenon
<1>2. ReadPart(raw, AtPos(pos, x), <<"bytes", bytes>>) =
         IF SubSeq(raw, pos, pos + Len(bytes) - 1) = bytes
         THEN {[pos |-> pos + Len(bytes), leafEnd |-> x]} ELSE {}
  BY DEF ReadPart, AtPos
<1> QED
  BY <1>1, <1>2, Zenon DEF AtPos, Leads

LEMMA LeafEnded ==
    ASSUME NEW raw, NEW pos, NEW t
    PROVE  Leads(raw, AtPos(pos, pos), <<"end", t>>, AtPos(pos, 0))
BY DEF Leads, ReadPart, AtPos


LEMMA Types ==
    /\ \A t \in {Request, SubRequest, Package, Element, Declarations, ObjectGroupData,
                 Declare, ObjectBytes} : t \in 0 .. 127
    /\ 1 \in Small
    /\ \A g \in {GuidStorage, GuidA, GuidB, GuidC} : g \in Seq(Byte) /\ Len(g) = 16
<1>1. \A t \in {Request, SubRequest, Package, Element, Declarations, ObjectGroupData,
                Declare, ObjectBytes} : t \in 0 .. 127
  BY DEF Request, SubRequest, Package, Element, Declarations, ObjectGroupData, Declare,
         ObjectBytes
<1>2. 1 \in Small
  <2>1. 1 \in 0 .. 127
    OBVIOUS
  <2> QED
    BY <2>1, SmallNumber, Zenon
<1>3. GuidStorage \in Seq(Byte) /\ Len(GuidStorage) = 16
  BY DEF GuidStorage, Byte
<1>4. GuidA \in Seq(Byte) /\ Len(GuidA) = 16
  BY DEF GuidA, Byte
<1>5. GuidB \in Seq(Byte) /\ Len(GuidB) = 16
  BY DEF GuidB, Byte
<1>6. GuidC \in Seq(Byte) /\ Len(GuidC) = 16
  BY DEF GuidC, Byte
<1> QED
  BY <1>1, <1>2, <1>3, <1>4, <1>5, <1>6, Zenon

\* What stands first in a part that stands, and what stands behind it.
Peeled(raw, pos, a, b) ==
    /\ StandsAt(raw, pos, a) /\ StandsAt(raw, pos + Len(a), b)
    /\ pos + Len(a \o b) = (pos + Len(a)) + Len(b)

LEMMA Peel ==
    \A raw, a, b \in Seq(Byte) : \A pos : StandsAt(raw, pos, a \o b) => Peeled(raw, pos, a, b)
<1> SUFFICES ASSUME NEW raw \in Seq(Byte), NEW a \in Seq(Byte), NEW b \in Seq(Byte), NEW pos,
                    StandsAt(raw, pos, a \o b)
             PROVE  Peeled(raw, pos, a, b)
  OBVIOUS
<1>1. StandsAt(raw, pos, a) /\ StandsAt(raw, pos + Len(a), b)
  BY PartsStand, AsInts
<1>2. pos \in Nat
  BY DEF StandsAt
<1>3. Len(a \o b) = Len(a) + Len(b) /\ Len(a) \in Nat /\ Len(b) \in Nat
  OBVIOUS
<1>4. pos + Len(a \o b) = (pos + Len(a)) + Len(b)
  BY <1>2, <1>3
<1> QED
  BY <1>1, <1>4, Zenon DEF Peeled

\* The parts of an object's declaration, from its header to where that says it ends.
ReadsDeclaration(raw, pos, bytes, end) ==
    \E q, a, b, c, n :
        /\ Leads(raw, AtPos(pos, 0), <<"leaf", Declare>>, AtPos(q, end))
        /\ Leads(raw, AtPos(q, end), <<"id", GuidA>>, AtPos(a, end))
        /\ Leads(raw, AtPos(a, end), <<"id", GuidB>>, AtPos(b, end))
        /\ Leads(raw, AtPos(b, end), <<"id", GuidC>>, AtPos(c, end))
        /\ Leads(raw, AtPos(c, end), <<"number", 1>>, AtPos(n, end))
        /\ Leads(raw, AtPos(n, end), <<"number", Len(bytes)>>, AtPos(end, end))
        /\ Leads(raw, AtPos(end, end), <<"end", Declare>>, AtPos(end, 0))

LEMMA DeclarationReads ==
    ASSUME NEW bytes, Fits(bytes), NEW raw \in Seq(Byte), NEW pos,
           StandsAt(raw, pos, Declaration(bytes))
    PROVE  ReadsDeclaration(raw, pos, bytes, pos + Len(Declaration(bytes)))
<1> DEFINE A == ExGuid(GuidA)
           B == ExGuid(GuidB)
           C == ExGuid(GuidC)
           u == Uvarint(1)
           v == SizeOf(bytes)
           b2 == A \o B
           b3 == b2 \o C
           b4 == b3 \o u
           body == b4 \o v
           head == Header(Declare, Len(body), FALSE)
           q == pos + Len(head)
           end == pos + Len(Declaration(bytes))
<1>1. Declaration(bytes) = head \o body
  BY Zenon DEF Declaration, CellId, SizeOf
<1>2. A \in Seq(Byte) /\ B \in Seq(Byte) /\ C \in Seq(Byte) /\ u \in Seq(Byte) /\ v \in Seq(Byte)
  BY FixedParts, SizeTyped, Written, Zenon DEF SizeOf
<1>4. Len(A) = 17 /\ Len(B) = 17 /\ Len(C) = 17 /\ Len(u) = 1 /\ Len(v) \in 1 .. 3
  BY FixedParts, SizeTyped, Zenon
<1> HIDE DEF A, B, C, u, v
<1>5. b2 \in Seq(Byte) /\ Len(b2) = 34
  <2>1. b2 \in Seq(Byte) /\ Len(b2) = Len(A) + Len(B)
    BY <1>2, Joined, Zenon
  <2> QED
    BY <1>4, <2>1, SMT
<1> HIDE DEF b2
<1>6. b3 \in Seq(Byte) /\ Len(b3) = 51
  <2>1. b3 \in Seq(Byte) /\ Len(b3) = Len(b2) + Len(C)
    BY <1>2, <1>5, Joined, Zenon
  <2> QED
    BY <1>4, <1>5, <2>1, SMT
<1> HIDE DEF b3
<1>7. b4 \in Seq(Byte) /\ Len(b4) = 52
  <2>1. b4 \in Seq(Byte) /\ Len(b4) = Len(b3) + Len(u)
    BY <1>2, <1>6, Joined, Zenon
  <2> QED
    BY <1>4, <1>6, <2>1, SMT
<1> HIDE DEF b4
<1>8. body \in Seq(Byte) /\ Len(body) \in Nat /\ Len(body) < TwoTo15
  <2>1. body \in Seq(Byte) /\ Len(body) = Len(b4) + Len(v)
    BY <1>2, <1>7, Joined, Zenon
  <2>2. \A k \in 1 .. 3 : 52 + k \in Nat /\ 52 + k < TwoTo15
    BY SMT DEF TwoTo15
  <2>3. 52 + Len(v) \in Nat /\ 52 + Len(v) < TwoTo15
    BY <1>4, <2>2, Zenon
  <2> QED
    BY <1>7, <2>1, <2>3, Zenon
<1> HIDE DEF body
<1>9. head \in Seq(Byte)
  <2>1. Declare \in 0 .. 127 /\ FALSE \in BOOLEAN
    BY Types, Zenon
  <2> QED
    BY <1>8, <2>1, HeaderBytes, Zenon
<1>10. /\ Peeled(raw, pos, head, body) /\ Peeled(raw, q, b4, v)
       /\ Peeled(raw, q, b3, u) /\ Peeled(raw, q, b2, C) /\ Peeled(raw, q, A, B)
  <2>1. Peeled(raw, pos, head, body)
    BY <1>1, <1>8, <1>9, Peel, Zenon
  <2>2. Peeled(raw, q, b4, v)
    <3>1. StandsAt(raw, q, b4 \o v)
      BY <2>1, Zenon DEF Peeled, body
    <3> QED
      BY <1>2, <1>7, <3>1, Peel, Zenon
  <2>3. Peeled(raw, q, b3, u)
    <3>1. StandsAt(raw, q, b3 \o u)
      BY <2>2, Zenon DEF Peeled, b4
    <3> QED
      BY <1>2, <1>6, <3>1, Peel, Zenon
  <2>4. Peeled(raw, q, b2, C)
    <3>1. StandsAt(raw, q, b2 \o C)
      BY <2>3, Zenon DEF Peeled, b3
    <3> QED
      BY <1>2, <1>5, <3>1, Peel, Zenon
  <2>5. Peeled(raw, q, A, B)
    <3>1. StandsAt(raw, q, A \o B)
      BY <2>4, Zenon DEF Peeled, b2
    <3> QED
      BY <1>2, <3>1, Peel, Zenon
  <2> QED
    BY <2>1, <2>2, <2>3, <2>4, <2>5
<1>11. end = q + Len(body)
  BY <1>1, <1>10, Zenon DEF Peeled
<1>12. Leads(raw, AtPos(pos, 0), <<"leaf", Declare>>, AtPos(q, end))
  <2>1. Declare \in 0 .. 127 /\ StandsAt(raw, pos, head)
    BY <1>10, Types, Zenon DEF Peeled
  <2>2. Leads(raw, AtPos(pos, 0), <<"leaf", Declare>>, AtPos(q, q + Len(body)))
    BY <1>8, <2>1, LeafLeads, Zenon
  <2> QED
    BY <1>11, <2>2, Zenon
<1> HIDE DEF head, q, end
<1>13. Leads(raw, AtPos(q, end), <<"id", GuidA>>, AtPos(q + Len(A), end))
  <2>1. StandsAt(raw, q, A)
    BY <1>10, Zenon DEF Peeled
  <2> QED
    BY <2>1, Types, IdLeads, Zenon DEF A
<1>14. Leads(raw, AtPos(q + Len(A), end), <<"id", GuidB>>, AtPos(q + Len(b2), end))
  <2>1. StandsAt(raw, q + Len(A), B) /\ q + Len(b2) = (q + Len(A)) + Len(B)
    BY <1>10, Zenon DEF Peeled, b2
  <2>2. Leads(raw, AtPos(q + Len(A), end), <<"id", GuidB>>,
              AtPos((q + Len(A)) + Len(B), end))
    BY <2>1, Types, IdLeads, Zenon DEF B
  <2> QED
    BY <2>1, <2>2, Zenon
<1>15. Leads(raw, AtPos(q + Len(b2), end), <<"id", GuidC>>, AtPos(q + Len(b3), end))
  <2>1. StandsAt(raw, q + Len(b2), C) /\ q + Len(b3) = (q + Len(b2)) + Len(C)
    BY <1>10, Zenon DEF Peeled, b3
  <2>2. Leads(raw, AtPos(q + Len(b2), end), <<"id", GuidC>>,
              AtPos((q + Len(b2)) + Len(C), end))
    BY <2>1, Types, IdLeads, Zenon DEF C
  <2> QED
    BY <2>1, <2>2, Zenon
<1>16. Leads(raw, AtPos(q + Len(b3), end), <<"number", 1>>, AtPos(q + Len(b4), end))
  <2>1. StandsAt(raw, q + Len(b3), u) /\ q + Len(b4) = (q + Len(b3)) + Len(u)
    BY <1>10, Zenon DEF Peeled, b4
  <2>2. Leads(raw, AtPos(q + Len(b3), end), <<"number", 1>>,
              AtPos((q + Len(b3)) + Len(u), end))
    BY <2>1, Types, NumberLeads, Zenon DEF u
  <2> QED
    BY <2>1, <2>2, Zenon
<1>17. Leads(raw, AtPos(q + Len(b4), end), <<"number", Len(bytes)>>, AtPos(end, end))
  <2>1. StandsAt(raw, q + Len(b4), v) /\ q + Len(body) = (q + Len(b4)) + Len(v)
    BY <1>10, Zenon DEF Peeled, body
  <2>2. Len(bytes) \in Small
    BY SizeTyped, Zenon
  <2>3. Leads(raw, AtPos(q + Len(b4), end), <<"number", Len(bytes)>>,
              AtPos((q + Len(b4)) + Len(v), end))
    BY <2>1, <2>2, NumberLeads, Zenon DEF v, SizeOf
  <2> QED
    BY <1>11, <2>1, <2>3, Zenon
<1>18. Leads(raw, AtPos(end, end), <<"end", Declare>>, AtPos(end, 0))
  BY LeafEnded, Zenon
<1>19. ReadsDeclaration(raw, pos, bytes, end)
  BY <1>12, <1>13, <1>14, <1>15, <1>16, <1>17, <1>18, Zenon DEF ReadsDeclaration
<1> QED
  BY <1>19 DEF end

\* The parts of the object itself.
ReadsObject(raw, pos, bytes, end) ==
    \E q, n :
        /\ Leads(raw, AtPos(pos, 0), <<"leaf", ObjectBytes>>, AtPos(q, end))
        /\ Leads(raw, AtPos(q, end), <<"number", Len(bytes)>>, AtPos(n, end))
        /\ Leads(raw, AtPos(n, end), <<"bytes", bytes>>, AtPos(end, end))
        /\ Leads(raw, AtPos(end, end), <<"end", ObjectBytes>>, AtPos(end, 0))

LEMMA ObjectReads ==
    ASSUME NEW bytes, Fits(bytes), NEW raw \in Seq(Byte), NEW pos,
           StandsAt(raw, pos, Object(bytes))
    PROVE  ReadsObject(raw, pos, bytes, pos + Len(Object(bytes)))
<1> DEFINE v == SizeOf(bytes)
           q == StartOf(pos, bytes)
           end == pos + Len(Object(bytes))
<1>1. /\ StandsAt(raw, pos, HeadOf(bytes)) /\ StandsAt(raw, q, v)
      /\ StandsAt(raw, q + Len(v), bytes)
      /\ Len(Object(bytes)) = Len(HeadOf(bytes)) + Len(v) + Len(bytes)
  BY ObjectStands, Zenon
<1>2. LengthOf(bytes) \in Nat /\ LengthOf(bytes) < TwoTo15
  BY LengthTyped, Zenon
<1>3. end = q + LengthOf(bytes) /\ end = (q + Len(v)) + Len(bytes)
  <2> DEFINE h == Len(HeadOf(bytes))
             t == Len(v)
             b == Len(bytes)
  <2>1. pos \in Nat /\ h \in Nat /\ t \in Nat /\ b \in Nat
    <3>1. pos \in Nat
      BY <1>1, Zenon DEF StandsAt
    <3>2. HeadOf(bytes) \in Seq(Int) /\ v \in Seq(Int)
      BY HeadTyped, SizeTyped, Zenon
    <3>3. \A s \in Seq(Int) : Len(s) \in Nat
      OBVIOUS
    <3> QED
      BY <3>1, <3>2, <3>3, Zenon DEF Fits
  <2>2. end = pos + (h + t + b) /\ q = pos + h /\ LengthOf(bytes) = t + b
    BY <1>1, Zenon DEF StartOf, LengthOf
  <2> HIDE DEF end, q, h, t
  <2>3. pos + (h + t + b) = (pos + h) + (t + b) /\ pos + (h + t + b) = ((pos + h) + t) + b
    <3> HIDE DEF b
    <3> QED
      BY <2>1
  <2>4. end = q + LengthOf(bytes) /\ end = (q + t) + b
    BY <2>2, <2>3, Zenon
  <2> QED
    BY <2>4, Zenon DEF t
<1>4. Leads(raw, AtPos(pos, 0), <<"leaf", ObjectBytes>>, AtPos(q, end))
  <2>1. ObjectBytes \in 0 .. 127 /\ StandsAt(raw, pos, Header(ObjectBytes, LengthOf(bytes), FALSE))
    BY <1>1, Types, Zenon DEF HeadOf
  <2>2. Leads(raw, AtPos(pos, 0), <<"leaf", ObjectBytes>>, AtPos(q, q + LengthOf(bytes)))
    BY <1>2, <2>1, LeafLeads, Zenon DEF StartOf, HeadOf
  <2> QED
    BY <1>3, <2>2, Zenon
<1> HIDE DEF q, end
<1>5. Leads(raw, AtPos(q, end), <<"number", Len(bytes)>>, AtPos(q + Len(v), end))
  <2>1. Len(bytes) \in Small
    BY SizeTyped, Zenon
  <2> QED
    BY <1>1, <2>1, NumberLeads, Zenon DEF SizeOf
<1>6. Leads(raw, AtPos(q + Len(v), end), <<"bytes", bytes>>, AtPos(end, end))
  <2>1. bytes \in Seq(Byte)
    BY DEF Fits
  <2>2. Leads(raw, AtPos(q + Len(v), end), <<"bytes", bytes>>,
              AtPos((q + Len(v)) + Len(bytes), end))
    BY <1>1, <2>1, BytesLeads, Zenon
  <2> QED
    BY <1>3, <2>2, Zenon
<1>7. Leads(raw, AtPos(end, end), <<"end", ObjectBytes>>, AtPos(end, 0))
  BY LeafEnded, Zenon
<1>8. ReadsObject(raw, pos, bytes, end)
  BY <1>4, <1>5, <1>6, <1>7, Zenon DEF ReadsObject
<1> QED
  BY <1>8 DEF end

\* A put, part after part, whatever its document.
LEMMA PutReads ==
    ASSUME NEW bytes, Fits(bytes)
    PROVE  ReadLayout(PutChanges(bytes), Layout(bytes)) = {AtPos(1 + Len(PutChanges(bytes)), 0)}
<1> DEFINE p1 == Header(Request, 0, TRUE)
           p2 == p1 \o Header(SubRequest, 0, TRUE)
           p3 == p2 \o Uvarint(1)
           p4 == p3 \o Uvarint(1)
           p5 == p4 \o Header(Package, 0, TRUE)
           p6 == p5 \o Header(Element, 0, TRUE)
           p7 == p6 \o ExGuid(GuidStorage)
           p8 == p7 \o Uvarint(1)
           p9 == p8 \o Header(Declarations, 0, TRUE)
           p10 == p9 \o Declaration(bytes)
           p11 == p10 \o EndObject(Declarations)
           p12 == p11 \o Header(ObjectGroupData, 0, TRUE)
           p13 == p12 \o Object(bytes)
           p14 == p13 \o EndObject(ObjectGroupData)
           p15 == p14 \o EndObject(Element)
           p16 == p15 \o EndObject(Package)
           p17 == p16 \o EndObject(SubRequest)
           p18 == p17 \o EndObject(Request)
           raw == p18
           at(p) == AtPos(1 + Len(p), 0)
<1>1. PutChanges(bytes) = raw
  BY Zenon DEF PutChanges
<1>2. Declaration(bytes) \in Seq(Byte) /\ Object(bytes) \in Seq(Byte)
  BY DeclarationBytes, ObjectIsBytes, Zenon
<1>3. p1 \in Seq(Byte)
  BY FixedParts, Zenon
<1> HIDE DEF p1
<1>4. p2 \in Seq(Byte) /\ Header(SubRequest, 0, TRUE) \in Seq(Byte)
  <2>1. Header(SubRequest, 0, TRUE) \in Seq(Byte)
    BY <1>2, FixedParts, Zenon
  <2> QED
    BY <1>3, <2>1, Joined, Zenon
<1> HIDE DEF p2
<1>5. p3 \in Seq(Byte) /\ Uvarint(1) \in Seq(Byte)
  <2>1. Uvarint(1) \in Seq(Byte)
    BY <1>2, FixedParts, Zenon
  <2> QED
    BY <1>4, <2>1, Joined, Zenon
<1> HIDE DEF p3
<1>6. p4 \in Seq(Byte) /\ Uvarint(1) \in Seq(Byte)
  <2>1. Uvarint(1) \in Seq(Byte)
    BY <1>2, FixedParts, Zenon
  <2> QED
    BY <1>5, <2>1, Joined, Zenon
<1> HIDE DEF p4
<1>7. p5 \in Seq(Byte) /\ Header(Package, 0, TRUE) \in Seq(Byte)
  <2>1. Header(Package, 0, TRUE) \in Seq(Byte)
    BY <1>2, FixedParts, Zenon
  <2> QED
    BY <1>6, <2>1, Joined, Zenon
<1> HIDE DEF p5
<1>8. p6 \in Seq(Byte) /\ Header(Element, 0, TRUE) \in Seq(Byte)
  <2>1. Header(Element, 0, TRUE) \in Seq(Byte)
    BY <1>2, FixedParts, Zenon
  <2> QED
    BY <1>7, <2>1, Joined, Zenon
<1> HIDE DEF p6
<1>9. p7 \in Seq(Byte) /\ ExGuid(GuidStorage) \in Seq(Byte)
  <2>1. ExGuid(GuidStorage) \in Seq(Byte)
    BY <1>2, FixedParts, Zenon
  <2> QED
    BY <1>8, <2>1, Joined, Zenon
<1> HIDE DEF p7
<1>10. p8 \in Seq(Byte) /\ Uvarint(1) \in Seq(Byte)
  <2>1. Uvarint(1) \in Seq(Byte)
    BY <1>2, FixedParts, Zenon
  <2> QED
    BY <1>9, <2>1, Joined, Zenon
<1> HIDE DEF p8
<1>11. p9 \in Seq(Byte) /\ Header(Declarations, 0, TRUE) \in Seq(Byte)
  <2>1. Header(Declarations, 0, TRUE) \in Seq(Byte)
    BY <1>2, FixedParts, Zenon
  <2> QED
    BY <1>10, <2>1, Joined, Zenon
<1> HIDE DEF p9
<1>12. p10 \in Seq(Byte) /\ Declaration(bytes) \in Seq(Byte)
  <2>1. Declaration(bytes) \in Seq(Byte)
    BY <1>2, FixedParts, Zenon
  <2> QED
    BY <1>11, <2>1, Joined, Zenon
<1> HIDE DEF p10
<1>13. p11 \in Seq(Byte) /\ EndObject(Declarations) \in Seq(Byte)
  <2>1. EndObject(Declarations) \in Seq(Byte)
    BY <1>2, FixedParts, Zenon
  <2> QED
    BY <1>12, <2>1, Joined, Zenon
<1> HIDE DEF p11
<1>14. p12 \in Seq(Byte) /\ Header(ObjectGroupData, 0, TRUE) \in Seq(Byte)
  <2>1. Header(ObjectGroupData, 0, TRUE) \in Seq(Byte)
    BY <1>2, FixedParts, Zenon
  <2> QED
    BY <1>13, <2>1, Joined, Zenon
<1> HIDE DEF p12
<1>15. p13 \in Seq(Byte) /\ Object(bytes) \in Seq(Byte)
  <2>1. Object(bytes) \in Seq(Byte)
    BY <1>2, FixedParts, Zenon
  <2> QED
    BY <1>14, <2>1, Joined, Zenon
<1> HIDE DEF p13
<1>16. p14 \in Seq(Byte) /\ EndObject(ObjectGroupData) \in Seq(Byte)
  <2>1. EndObject(ObjectGroupData) \in Seq(Byte)
    BY <1>2, FixedParts, Zenon
  <2> QED
    BY <1>15, <2>1, Joined, Zenon
<1> HIDE DEF p14
<1>17. p15 \in Seq(Byte) /\ EndObject(Element) \in Seq(Byte)
  <2>1. EndObject(Element) \in Seq(Byte)
    BY <1>2, FixedParts, Zenon
  <2> QED
    BY <1>16, <2>1, Joined, Zenon
<1> HIDE DEF p15
<1>18. p16 \in Seq(Byte) /\ EndObject(Package) \in Seq(Byte)
  <2>1. EndObject(Package) \in Seq(Byte)
    BY <1>2, FixedParts, Zenon
  <2> QED
    BY <1>17, <2>1, Joined, Zenon
<1> HIDE DEF p16
<1>19. p17 \in Seq(Byte) /\ EndObject(SubRequest) \in Seq(Byte)
  <2>1. EndObject(SubRequest) \in Seq(Byte)
    BY <1>2, FixedParts, Zenon
  <2> QED
    BY <1>18, <2>1, Joined, Zenon
<1> HIDE DEF p17
<1>20. p18 \in Seq(Byte) /\ EndObject(Request) \in Seq(Byte)
  <2>1. EndObject(Request) \in Seq(Byte)
    BY <1>2, FixedParts, Zenon
  <2> QED
    BY <1>19, <2>1, Joined, Zenon
<1> HIDE DEF p18
<1>21. StandsAt(raw, 1, p18)
  <2>1. ASSUME NEW s \in Seq(Byte) PROVE StandsAt(s, 1, s)
    BY DEF StandsAt
  <2> QED
    BY <1>20, <2>1
<1>22. Peeled(raw, 1, p17, EndObject(Request)) /\ StandsAt(raw, 1, p17)
  <2>1. StandsAt(raw, 1, p17 \o EndObject(Request))
    BY <1>21, Zenon DEF p18
  <2>2. Peeled(raw, 1, p17, EndObject(Request))
    BY <1>20, <1>19, <1>20, <2>1, Peel, Zenon
  <2> QED
    BY <2>2, Zenon DEF Peeled
<1>23. Peeled(raw, 1, p16, EndObject(SubRequest)) /\ StandsAt(raw, 1, p16)
  <2>1. StandsAt(raw, 1, p16 \o EndObject(SubRequest))
    BY <1>22, Zenon DEF p17
  <2>2. Peeled(raw, 1, p16, EndObject(SubRequest))
    BY <1>20, <1>18, <1>19, <2>1, Peel, Zenon
  <2> QED
    BY <2>2, Zenon DEF Peeled
<1>24. Peeled(raw, 1, p15, EndObject(Package)) /\ StandsAt(raw, 1, p15)
  <2>1. StandsAt(raw, 1, p15 \o EndObject(Package))
    BY <1>23, Zenon DEF p16
  <2>2. Peeled(raw, 1, p15, EndObject(Package))
    BY <1>20, <1>17, <1>18, <2>1, Peel, Zenon
  <2> QED
    BY <2>2, Zenon DEF Peeled
<1>25. Peeled(raw, 1, p14, EndObject(Element)) /\ StandsAt(raw, 1, p14)
  <2>1. StandsAt(raw, 1, p14 \o EndObject(Element))
    BY <1>24, Zenon DEF p15
  <2>2. Peeled(raw, 1, p14, EndObject(Element))
    BY <1>20, <1>16, <1>17, <2>1, Peel, Zenon
  <2> QED
    BY <2>2, Zenon DEF Peeled
<1>26. Peeled(raw, 1, p13, EndObject(ObjectGroupData)) /\ StandsAt(raw, 1, p13)
  <2>1. StandsAt(raw, 1, p13 \o EndObject(ObjectGroupData))
    BY <1>25, Zenon DEF p14
  <2>2. Peeled(raw, 1, p13, EndObject(ObjectGroupData))
    BY <1>20, <1>15, <1>16, <2>1, Peel, Zenon
  <2> QED
    BY <2>2, Zenon DEF Peeled
<1>27. Peeled(raw, 1, p12, Object(bytes)) /\ StandsAt(raw, 1, p12)
  <2>1. StandsAt(raw, 1, p12 \o Object(bytes))
    BY <1>26, Zenon DEF p13
  <2>2. Peeled(raw, 1, p12, Object(bytes))
    BY <1>20, <1>14, <1>15, <2>1, Peel, Zenon
  <2> QED
    BY <2>2, Zenon DEF Peeled
<1>28. Peeled(raw, 1, p11, Header(ObjectGroupData, 0, TRUE)) /\ StandsAt(raw, 1, p11)
  <2>1. StandsAt(raw, 1, p11 \o Header(ObjectGroupData, 0, TRUE))
    BY <1>27, Zenon DEF p12
  <2>2. Peeled(raw, 1, p11, Header(ObjectGroupData, 0, TRUE))
    BY <1>20, <1>13, <1>14, <2>1, Peel, Zenon
  <2> QED
    BY <2>2, Zenon DEF Peeled
<1>29. Peeled(raw, 1, p10, EndObject(Declarations)) /\ StandsAt(raw, 1, p10)
  <2>1. StandsAt(raw, 1, p10 \o EndObject(Declarations))
    BY <1>28, Zenon DEF p11
  <2>2. Peeled(raw, 1, p10, EndObject(Declarations))
    BY <1>20, <1>12, <1>13, <2>1, Peel, Zenon
  <2> QED
    BY <2>2, Zenon DEF Peeled
<1>30. Peeled(raw, 1, p9, Declaration(bytes)) /\ StandsAt(raw, 1, p9)
  <2>1. StandsAt(raw, 1, p9 \o Declaration(bytes))
    BY <1>29, Zenon DEF p10
  <2>2. Peeled(raw, 1, p9, Declaration(bytes))
    BY <1>20, <1>11, <1>12, <2>1, Peel, Zenon
  <2> QED
    BY <2>2, Zenon DEF Peeled
<1>31. Peeled(raw, 1, p8, Header(Declarations, 0, TRUE)) /\ StandsAt(raw, 1, p8)
  <2>1. StandsAt(raw, 1, p8 \o Header(Declarations, 0, TRUE))
    BY <1>30, Zenon DEF p9
  <2>2. Peeled(raw, 1, p8, Header(Declarations, 0, TRUE))
    BY <1>20, <1>10, <1>11, <2>1, Peel, Zenon
  <2> QED
    BY <2>2, Zenon DEF Peeled
<1>32. Peeled(raw, 1, p7, Uvarint(1)) /\ StandsAt(raw, 1, p7)
  <2>1. StandsAt(raw, 1, p7 \o Uvarint(1))
    BY <1>31, Zenon DEF p8
  <2>2. Peeled(raw, 1, p7, Uvarint(1))
    BY <1>20, <1>9, <1>10, <2>1, Peel, Zenon
  <2> QED
    BY <2>2, Zenon DEF Peeled
<1>33. Peeled(raw, 1, p6, ExGuid(GuidStorage)) /\ StandsAt(raw, 1, p6)
  <2>1. StandsAt(raw, 1, p6 \o ExGuid(GuidStorage))
    BY <1>32, Zenon DEF p7
  <2>2. Peeled(raw, 1, p6, ExGuid(GuidStorage))
    BY <1>20, <1>8, <1>9, <2>1, Peel, Zenon
  <2> QED
    BY <2>2, Zenon DEF Peeled
<1>34. Peeled(raw, 1, p5, Header(Element, 0, TRUE)) /\ StandsAt(raw, 1, p5)
  <2>1. StandsAt(raw, 1, p5 \o Header(Element, 0, TRUE))
    BY <1>33, Zenon DEF p6
  <2>2. Peeled(raw, 1, p5, Header(Element, 0, TRUE))
    BY <1>20, <1>7, <1>8, <2>1, Peel, Zenon
  <2> QED
    BY <2>2, Zenon DEF Peeled
<1>35. Peeled(raw, 1, p4, Header(Package, 0, TRUE)) /\ StandsAt(raw, 1, p4)
  <2>1. StandsAt(raw, 1, p4 \o Header(Package, 0, TRUE))
    BY <1>34, Zenon DEF p5
  <2>2. Peeled(raw, 1, p4, Header(Package, 0, TRUE))
    BY <1>20, <1>6, <1>7, <2>1, Peel, Zenon
  <2> QED
    BY <2>2, Zenon DEF Peeled
<1>36. Peeled(raw, 1, p3, Uvarint(1)) /\ StandsAt(raw, 1, p3)
  <2>1. StandsAt(raw, 1, p3 \o Uvarint(1))
    BY <1>35, Zenon DEF p4
  <2>2. Peeled(raw, 1, p3, Uvarint(1))
    BY <1>20, <1>5, <1>6, <2>1, Peel, Zenon
  <2> QED
    BY <2>2, Zenon DEF Peeled
<1>37. Peeled(raw, 1, p2, Uvarint(1)) /\ StandsAt(raw, 1, p2)
  <2>1. StandsAt(raw, 1, p2 \o Uvarint(1))
    BY <1>36, Zenon DEF p3
  <2>2. Peeled(raw, 1, p2, Uvarint(1))
    BY <1>20, <1>4, <1>5, <2>1, Peel, Zenon
  <2> QED
    BY <2>2, Zenon DEF Peeled
<1>38. Peeled(raw, 1, p1, Header(SubRequest, 0, TRUE)) /\ StandsAt(raw, 1, p1)
  <2>1. StandsAt(raw, 1, p1 \o Header(SubRequest, 0, TRUE))
    BY <1>37, Zenon DEF p2
  <2>2. Peeled(raw, 1, p1, Header(SubRequest, 0, TRUE))
    BY <1>20, <1>3, <1>4, <2>1, Peel, Zenon
  <2> QED
    BY <2>2, Zenon DEF Peeled
<1>39. Leads(raw, AtPos(1, 0), <<"open", Request>>, at(p1))
  <2>1. Request \in 0 .. 127
    BY Types, Zenon
  <2> QED
    BY <1>20, <1>38, <2>1, OpenLeads, Zenon DEF p1
<1>40. Leads(raw, at(p1), <<"open", SubRequest>>, at(p2))
  <2>1. /\ StandsAt(raw, 1 + Len(p1), Header(SubRequest, 0, TRUE))
        /\ 1 + Len(p2) = (1 + Len(p1)) + Len(Header(SubRequest, 0, TRUE))
    BY <1>38, Zenon DEF Peeled, p2
  <2> DEFINE q == 1 + Len(p1)
  <2>2. SubRequest \in 0 .. 127
    BY Types, Zenon
  <2>3. Leads(raw, AtPos(q, 0), <<"open", SubRequest>>,
              AtPos(q + Len(Header(SubRequest, 0, TRUE)), 0))
    BY <1>20, <2>1, <2>2, OpenLeads, Zenon
  <2> QED
    BY <2>1, <2>3, Zenon
<1>41. Leads(raw, at(p2), <<"number", 1>>, at(p3))
  <2>1. /\ StandsAt(raw, 1 + Len(p2), Uvarint(1))
        /\ 1 + Len(p3) = (1 + Len(p2)) + Len(Uvarint(1))
    BY <1>37, Zenon DEF Peeled, p3
  <2> DEFINE q == 1 + Len(p2)
  <2>2. 1 \in Small
    BY Types, Zenon
  <2>3. Leads(raw, AtPos(q, 0), <<"number", 1>>, AtPos(q + Len(Uvarint(1)), 0))
    BY <1>20, <2>1, <2>2, NumberLeads, Zenon
  <2> QED
    BY <2>1, <2>3, Zenon
<1>42. Leads(raw, at(p3), <<"number", 1>>, at(p4))
  <2>1. /\ StandsAt(raw, 1 + Len(p3), Uvarint(1))
        /\ 1 + Len(p4) = (1 + Len(p3)) + Len(Uvarint(1))
    BY <1>36, Zenon DEF Peeled, p4
  <2> DEFINE q == 1 + Len(p3)
  <2>2. 1 \in Small
    BY Types, Zenon
  <2>3. Leads(raw, AtPos(q, 0), <<"number", 1>>, AtPos(q + Len(Uvarint(1)), 0))
    BY <1>20, <2>1, <2>2, NumberLeads, Zenon
  <2> QED
    BY <2>1, <2>3, Zenon
<1>43. Leads(raw, at(p4), <<"open", Package>>, at(p5))
  <2>1. /\ StandsAt(raw, 1 + Len(p4), Header(Package, 0, TRUE))
        /\ 1 + Len(p5) = (1 + Len(p4)) + Len(Header(Package, 0, TRUE))
    BY <1>35, Zenon DEF Peeled, p5
  <2> DEFINE q == 1 + Len(p4)
  <2>2. Package \in 0 .. 127
    BY Types, Zenon
  <2>3. Leads(raw, AtPos(q, 0), <<"open", Package>>,
              AtPos(q + Len(Header(Package, 0, TRUE)), 0))
    BY <1>20, <2>1, <2>2, OpenLeads, Zenon
  <2> QED
    BY <2>1, <2>3, Zenon
<1>44. Leads(raw, at(p5), <<"open", Element>>, at(p6))
  <2>1. /\ StandsAt(raw, 1 + Len(p5), Header(Element, 0, TRUE))
        /\ 1 + Len(p6) = (1 + Len(p5)) + Len(Header(Element, 0, TRUE))
    BY <1>34, Zenon DEF Peeled, p6
  <2> DEFINE q == 1 + Len(p5)
  <2>2. Element \in 0 .. 127
    BY Types, Zenon
  <2>3. Leads(raw, AtPos(q, 0), <<"open", Element>>,
              AtPos(q + Len(Header(Element, 0, TRUE)), 0))
    BY <1>20, <2>1, <2>2, OpenLeads, Zenon
  <2> QED
    BY <2>1, <2>3, Zenon
<1>45. Leads(raw, at(p6), <<"id", GuidStorage>>, at(p7))
  <2>1. /\ StandsAt(raw, 1 + Len(p6), ExGuid(GuidStorage))
        /\ 1 + Len(p7) = (1 + Len(p6)) + Len(ExGuid(GuidStorage))
    BY <1>33, Zenon DEF Peeled, p7
  <2> DEFINE q == 1 + Len(p6)
  <2>2. GuidStorage \in Seq(Byte) /\ Len(GuidStorage) = 16
    BY Types, Zenon
  <2>3. Leads(raw, AtPos(q, 0), <<"id", GuidStorage>>,
              AtPos(q + Len(ExGuid(GuidStorage)), 0))
    BY <1>20, <2>1, <2>2, IdLeads, Zenon
  <2> QED
    BY <2>1, <2>3, Zenon
<1>46. Leads(raw, at(p7), <<"number", 1>>, at(p8))
  <2>1. /\ StandsAt(raw, 1 + Len(p7), Uvarint(1))
        /\ 1 + Len(p8) = (1 + Len(p7)) + Len(Uvarint(1))
    BY <1>32, Zenon DEF Peeled, p8
  <2> DEFINE q == 1 + Len(p7)
  <2>2. 1 \in Small
    BY Types, Zenon
  <2>3. Leads(raw, AtPos(q, 0), <<"number", 1>>, AtPos(q + Len(Uvarint(1)), 0))
    BY <1>20, <2>1, <2>2, NumberLeads, Zenon
  <2> QED
    BY <2>1, <2>3, Zenon
<1>47. Leads(raw, at(p8), <<"open", Declarations>>, at(p9))
  <2>1. /\ StandsAt(raw, 1 + Len(p8), Header(Declarations, 0, TRUE))
        /\ 1 + Len(p9) = (1 + Len(p8)) + Len(Header(Declarations, 0, TRUE))
    BY <1>31, Zenon DEF Peeled, p9
  <2> DEFINE q == 1 + Len(p8)
  <2>2. Declarations \in 0 .. 127
    BY Types, Zenon
  <2>3. Leads(raw, AtPos(q, 0), <<"open", Declarations>>,
              AtPos(q + Len(Header(Declarations, 0, TRUE)), 0))
    BY <1>20, <2>1, <2>2, OpenLeads, Zenon
  <2> QED
    BY <2>1, <2>3, Zenon
<1>48. ReadsDeclaration(raw, 1 + Len(p9), bytes, 1 + Len(p10))
  <2>1. /\ StandsAt(raw, 1 + Len(p9), Declaration(bytes))
        /\ 1 + Len(p10) = (1 + Len(p9)) + Len(Declaration(bytes))
    BY <1>30, Zenon DEF Peeled, p10
  <2> DEFINE q == 1 + Len(p9)
  <2>2. ReadsDeclaration(raw, q, bytes, q + Len(Declaration(bytes)))
    BY <1>20, <2>1, DeclarationReads, Zenon
  <2> QED
    BY <2>1, <2>2, Zenon
<1>49. Leads(raw, at(p10), <<"close", Declarations>>, at(p11))
  <2>1. /\ StandsAt(raw, 1 + Len(p10), EndObject(Declarations))
        /\ 1 + Len(p11) = (1 + Len(p10)) + Len(EndObject(Declarations))
    BY <1>29, Zenon DEF Peeled, p11
  <2> DEFINE q == 1 + Len(p10)
  <2>2. Declarations \in 0 .. 127
    BY Types, Zenon
  <2>3. Leads(raw, AtPos(q, 0), <<"close", Declarations>>,
              AtPos(q + Len(EndObject(Declarations)), 0))
    BY <1>20, <2>1, <2>2, CloseLeads, Zenon
  <2> QED
    BY <2>1, <2>3, Zenon
<1>50. Leads(raw, at(p11), <<"open", ObjectGroupData>>, at(p12))
  <2>1. /\ StandsAt(raw, 1 + Len(p11), Header(ObjectGroupData, 0, TRUE))
        /\ 1 + Len(p12) = (1 + Len(p11)) + Len(Header(ObjectGroupData, 0, TRUE))
    BY <1>28, Zenon DEF Peeled, p12
  <2> DEFINE q == 1 + Len(p11)
  <2>2. ObjectGroupData \in 0 .. 127
    BY Types, Zenon
  <2>3. Leads(raw, AtPos(q, 0), <<"open", ObjectGroupData>>,
              AtPos(q + Len(Header(ObjectGroupData, 0, TRUE)), 0))
    BY <1>20, <2>1, <2>2, OpenLeads, Zenon
  <2> QED
    BY <2>1, <2>3, Zenon
<1>51. ReadsObject(raw, 1 + Len(p12), bytes, 1 + Len(p13))
  <2>1. /\ StandsAt(raw, 1 + Len(p12), Object(bytes))
        /\ 1 + Len(p13) = (1 + Len(p12)) + Len(Object(bytes))
    BY <1>27, Zenon DEF Peeled, p13
  <2> DEFINE q == 1 + Len(p12)
  <2>2. ReadsObject(raw, q, bytes, q + Len(Object(bytes)))
    BY <1>20, <2>1, ObjectReads, Zenon
  <2> QED
    BY <2>1, <2>2, Zenon
<1>52. Leads(raw, at(p13), <<"close", ObjectGroupData>>, at(p14))
  <2>1. /\ StandsAt(raw, 1 + Len(p13), EndObject(ObjectGroupData))
        /\ 1 + Len(p14) = (1 + Len(p13)) + Len(EndObject(ObjectGroupData))
    BY <1>26, Zenon DEF Peeled, p14
  <2> DEFINE q == 1 + Len(p13)
  <2>2. ObjectGroupData \in 0 .. 127
    BY Types, Zenon
  <2>3. Leads(raw, AtPos(q, 0), <<"close", ObjectGroupData>>,
              AtPos(q + Len(EndObject(ObjectGroupData)), 0))
    BY <1>20, <2>1, <2>2, CloseLeads, Zenon
  <2> QED
    BY <2>1, <2>3, Zenon
<1>53. Leads(raw, at(p14), <<"close", Element>>, at(p15))
  <2>1. /\ StandsAt(raw, 1 + Len(p14), EndObject(Element))
        /\ 1 + Len(p15) = (1 + Len(p14)) + Len(EndObject(Element))
    BY <1>25, Zenon DEF Peeled, p15
  <2> DEFINE q == 1 + Len(p14)
  <2>2. Element \in 0 .. 127
    BY Types, Zenon
  <2>3. Leads(raw, AtPos(q, 0), <<"close", Element>>,
              AtPos(q + Len(EndObject(Element)), 0))
    BY <1>20, <2>1, <2>2, CloseLeads, Zenon
  <2> QED
    BY <2>1, <2>3, Zenon
<1>54. Leads(raw, at(p15), <<"close", Package>>, at(p16))
  <2>1. /\ StandsAt(raw, 1 + Len(p15), EndObject(Package))
        /\ 1 + Len(p16) = (1 + Len(p15)) + Len(EndObject(Package))
    BY <1>24, Zenon DEF Peeled, p16
  <2> DEFINE q == 1 + Len(p15)
  <2>2. Package \in 0 .. 127
    BY Types, Zenon
  <2>3. Leads(raw, AtPos(q, 0), <<"close", Package>>,
              AtPos(q + Len(EndObject(Package)), 0))
    BY <1>20, <2>1, <2>2, CloseLeads, Zenon
  <2> QED
    BY <2>1, <2>3, Zenon
<1>55. Leads(raw, at(p16), <<"close", SubRequest>>, at(p17))
  <2>1. /\ StandsAt(raw, 1 + Len(p16), EndObject(SubRequest))
        /\ 1 + Len(p17) = (1 + Len(p16)) + Len(EndObject(SubRequest))
    BY <1>23, Zenon DEF Peeled, p17
  <2> DEFINE q == 1 + Len(p16)
  <2>2. SubRequest \in 0 .. 127
    BY Types, Zenon
  <2>3. Leads(raw, AtPos(q, 0), <<"close", SubRequest>>,
              AtPos(q + Len(EndObject(SubRequest)), 0))
    BY <1>20, <2>1, <2>2, CloseLeads, Zenon
  <2> QED
    BY <2>1, <2>3, Zenon
<1>56. Leads(raw, at(p17), <<"close", Request>>, at(p18))
  <2>1. /\ StandsAt(raw, 1 + Len(p17), EndObject(Request))
        /\ 1 + Len(p18) = (1 + Len(p17)) + Len(EndObject(Request))
    BY <1>22, Zenon DEF Peeled, p18
  <2> DEFINE q == 1 + Len(p17)
  <2>2. Request \in 0 .. 127
    BY Types, Zenon
  <2>3. Leads(raw, AtPos(q, 0), <<"close", Request>>,
              AtPos(q + Len(EndObject(Request)), 0))
    BY <1>20, <2>1, <2>2, CloseLeads, Zenon
  <2> QED
    BY <2>1, <2>3, Zenon
<1> DEFINE layout == Layout(bytes)
<1>57. Len(layout) = 27 /\ layout[1] = <<"open", Request>>
         /\ layout[2] = <<"open", SubRequest>>
         /\ layout[3] = <<"number", 1>>
         /\ layout[4] = <<"number", 1>>
         /\ layout[5] = <<"open", Package>>
         /\ layout[6] = <<"open", Element>>
         /\ layout[7] = <<"id", GuidStorage>>
         /\ layout[8] = <<"number", 1>>
         /\ layout[9] = <<"open", Declarations>>
         /\ layout[10] = <<"leaf", Declare>>
         /\ layout[11] = <<"id", GuidA>>
         /\ layout[12] = <<"id", GuidB>>
         /\ layout[13] = <<"id", GuidC>>
         /\ layout[14] = <<"number", 1>>
         /\ layout[15] = <<"number", Len(bytes)>>
         /\ layout[16] = <<"end", Declare>>
         /\ layout[17] = <<"close", Declarations>>
         /\ layout[18] = <<"open", ObjectGroupData>>
         /\ layout[19] = <<"leaf", ObjectBytes>>
         /\ layout[20] = <<"number", Len(bytes)>>
         /\ layout[21] = <<"bytes", bytes>>
         /\ layout[22] = <<"end", ObjectBytes>>
         /\ layout[23] = <<"close", ObjectGroupData>>
         /\ layout[24] = <<"close", Element>>
         /\ layout[25] = <<"close", Package>>
         /\ layout[26] = <<"close", SubRequest>>
         /\ layout[27] = <<"close", Request>>
  BY DEF Layout
<1> HIDE DEF layout
<1>58. PICK g : ReadsBy(g, raw, layout)
  <2>1. Len(layout) \in Nat
    BY <1>57
  <2> QED
    BY <2>1, ReadingStarts, Zenon
<1>59. ReadLayout(raw, layout) = g[27] /\ g[0] = {AtPos(1, 0)}
  BY <1>58, <1>57, Zenon DEF ReadsBy
<1> DEFINE Goes(m, k, part) == \A s, t : g[m] = {s} /\ Leads(raw, s, part, t) => g[k] = {t}
<1>60. \A k \in 1 .. 27 : \A m, part : m = k - 1 /\ layout[k] = part => Goes(m, k, part)
  <2> SUFFICES ASSUME NEW k \in 1 .. 27, NEW m, NEW part, m = k - 1, layout[k] = part,
                      NEW s, NEW t, g[m] = {s}, Leads(raw, s, part, t)
               PROVE  g[k] = {t}
    OBVIOUS
  <2>1. g[k] = UNION {ReadPart(raw, r, layout[k]) : r \in {s}}
    <3>1. g[k] = UNION {ReadPart(raw, r, layout[k]) : r \in g[k - 1]}
      BY <1>57, <1>58, Zenon DEF ReadsBy
    <3> QED
      BY <3>1, Zenon
  <2>2. ReadPart(raw, s, layout[k]) = {t}
    BY Zenon DEF Leads
  <2> HIDE DEF layout, raw
  <2> QED
    BY <2>1, <2>2
<1> HIDE DEF Goes
<1>61. \A s, t : g[0] = {s} /\ Leads(raw, s, <<"open", Request>>, t) => g[1] = {t}
  <2>1. 1 \in 1 .. 27 /\ 1 - 1 = 0 /\ layout[1] = <<"open", Request>>
    BY <1>57
  <2>2. Goes(0, 1, <<"open", Request>>)
    BY <1>60, <2>1, Zenon
  <2> QED
    BY <2>1, <2>2, Zenon DEF Goes
<1>62. \A s, t : g[1] = {s} /\ Leads(raw, s, <<"open", SubRequest>>, t) => g[2] = {t}
  <2>1. 2 \in 1 .. 27 /\ 2 - 1 = 1 /\ layout[2] = <<"open", SubRequest>>
    BY <1>57
  <2>2. Goes(1, 2, <<"open", SubRequest>>)
    BY <1>60, <2>1, Zenon
  <2> QED
    BY <2>1, <2>2, Zenon DEF Goes
<1>63. \A s, t : g[2] = {s} /\ Leads(raw, s, <<"number", 1>>, t) => g[3] = {t}
  <2>1. 3 \in 1 .. 27 /\ 3 - 1 = 2 /\ layout[3] = <<"number", 1>>
    BY <1>57
  <2>2. Goes(2, 3, <<"number", 1>>)
    BY <1>60, <2>1, Zenon
  <2> QED
    BY <2>1, <2>2, Zenon DEF Goes
<1>64. \A s, t : g[3] = {s} /\ Leads(raw, s, <<"number", 1>>, t) => g[4] = {t}
  <2>1. 4 \in 1 .. 27 /\ 4 - 1 = 3 /\ layout[4] = <<"number", 1>>
    BY <1>57
  <2>2. Goes(3, 4, <<"number", 1>>)
    BY <1>60, <2>1, Zenon
  <2> QED
    BY <2>1, <2>2, Zenon DEF Goes
<1>65. \A s, t : g[4] = {s} /\ Leads(raw, s, <<"open", Package>>, t) => g[5] = {t}
  <2>1. 5 \in 1 .. 27 /\ 5 - 1 = 4 /\ layout[5] = <<"open", Package>>
    BY <1>57
  <2>2. Goes(4, 5, <<"open", Package>>)
    BY <1>60, <2>1, Zenon
  <2> QED
    BY <2>1, <2>2, Zenon DEF Goes
<1>66. \A s, t : g[5] = {s} /\ Leads(raw, s, <<"open", Element>>, t) => g[6] = {t}
  <2>1. 6 \in 1 .. 27 /\ 6 - 1 = 5 /\ layout[6] = <<"open", Element>>
    BY <1>57
  <2>2. Goes(5, 6, <<"open", Element>>)
    BY <1>60, <2>1, Zenon
  <2> QED
    BY <2>1, <2>2, Zenon DEF Goes
<1>67. \A s, t : g[6] = {s} /\ Leads(raw, s, <<"id", GuidStorage>>, t) => g[7] = {t}
  <2>1. 7 \in 1 .. 27 /\ 7 - 1 = 6 /\ layout[7] = <<"id", GuidStorage>>
    BY <1>57
  <2>2. Goes(6, 7, <<"id", GuidStorage>>)
    BY <1>60, <2>1, Zenon
  <2> QED
    BY <2>1, <2>2, Zenon DEF Goes
<1>68. \A s, t : g[7] = {s} /\ Leads(raw, s, <<"number", 1>>, t) => g[8] = {t}
  <2>1. 8 \in 1 .. 27 /\ 8 - 1 = 7 /\ layout[8] = <<"number", 1>>
    BY <1>57
  <2>2. Goes(7, 8, <<"number", 1>>)
    BY <1>60, <2>1, Zenon
  <2> QED
    BY <2>1, <2>2, Zenon DEF Goes
<1>69. \A s, t : g[8] = {s} /\ Leads(raw, s, <<"open", Declarations>>, t) => g[9] = {t}
  <2>1. 9 \in 1 .. 27 /\ 9 - 1 = 8 /\ layout[9] = <<"open", Declarations>>
    BY <1>57
  <2>2. Goes(8, 9, <<"open", Declarations>>)
    BY <1>60, <2>1, Zenon
  <2> QED
    BY <2>1, <2>2, Zenon DEF Goes
<1>70. \A s, t : g[9] = {s} /\ Leads(raw, s, <<"leaf", Declare>>, t) => g[10] = {t}
  <2>1. 10 \in 1 .. 27 /\ 10 - 1 = 9 /\ layout[10] = <<"leaf", Declare>>
    BY <1>57
  <2>2. Goes(9, 10, <<"leaf", Declare>>)
    BY <1>60, <2>1, Zenon
  <2> QED
    BY <2>1, <2>2, Zenon DEF Goes
<1>71. \A s, t : g[10] = {s} /\ Leads(raw, s, <<"id", GuidA>>, t) => g[11] = {t}
  <2>1. 11 \in 1 .. 27 /\ 11 - 1 = 10 /\ layout[11] = <<"id", GuidA>>
    BY <1>57
  <2>2. Goes(10, 11, <<"id", GuidA>>)
    BY <1>60, <2>1, Zenon
  <2> QED
    BY <2>1, <2>2, Zenon DEF Goes
<1>72. \A s, t : g[11] = {s} /\ Leads(raw, s, <<"id", GuidB>>, t) => g[12] = {t}
  <2>1. 12 \in 1 .. 27 /\ 12 - 1 = 11 /\ layout[12] = <<"id", GuidB>>
    BY <1>57
  <2>2. Goes(11, 12, <<"id", GuidB>>)
    BY <1>60, <2>1, Zenon
  <2> QED
    BY <2>1, <2>2, Zenon DEF Goes
<1>73. \A s, t : g[12] = {s} /\ Leads(raw, s, <<"id", GuidC>>, t) => g[13] = {t}
  <2>1. 13 \in 1 .. 27 /\ 13 - 1 = 12 /\ layout[13] = <<"id", GuidC>>
    BY <1>57
  <2>2. Goes(12, 13, <<"id", GuidC>>)
    BY <1>60, <2>1, Zenon
  <2> QED
    BY <2>1, <2>2, Zenon DEF Goes
<1>74. \A s, t : g[13] = {s} /\ Leads(raw, s, <<"number", 1>>, t) => g[14] = {t}
  <2>1. 14 \in 1 .. 27 /\ 14 - 1 = 13 /\ layout[14] = <<"number", 1>>
    BY <1>57
  <2>2. Goes(13, 14, <<"number", 1>>)
    BY <1>60, <2>1, Zenon
  <2> QED
    BY <2>1, <2>2, Zenon DEF Goes
<1>75. \A s, t : g[14] = {s} /\ Leads(raw, s, <<"number", Len(bytes)>>, t) => g[15] = {t}
  <2>1. 15 \in 1 .. 27 /\ 15 - 1 = 14 /\ layout[15] = <<"number", Len(bytes)>>
    BY <1>57
  <2>2. Goes(14, 15, <<"number", Len(bytes)>>)
    BY <1>60, <2>1, Zenon
  <2> QED
    BY <2>1, <2>2, Zenon DEF Goes
<1>76. \A s, t : g[15] = {s} /\ Leads(raw, s, <<"end", Declare>>, t) => g[16] = {t}
  <2>1. 16 \in 1 .. 27 /\ 16 - 1 = 15 /\ layout[16] = <<"end", Declare>>
    BY <1>57
  <2>2. Goes(15, 16, <<"end", Declare>>)
    BY <1>60, <2>1, Zenon
  <2> QED
    BY <2>1, <2>2, Zenon DEF Goes
<1>77. \A s, t : g[16] = {s} /\ Leads(raw, s, <<"close", Declarations>>, t) => g[17] = {t}
  <2>1. 17 \in 1 .. 27 /\ 17 - 1 = 16 /\ layout[17] = <<"close", Declarations>>
    BY <1>57
  <2>2. Goes(16, 17, <<"close", Declarations>>)
    BY <1>60, <2>1, Zenon
  <2> QED
    BY <2>1, <2>2, Zenon DEF Goes
<1>78. \A s, t : g[17] = {s} /\ Leads(raw, s, <<"open", ObjectGroupData>>, t) => g[18] = {t}
  <2>1. 18 \in 1 .. 27 /\ 18 - 1 = 17 /\ layout[18] = <<"open", ObjectGroupData>>
    BY <1>57
  <2>2. Goes(17, 18, <<"open", ObjectGroupData>>)
    BY <1>60, <2>1, Zenon
  <2> QED
    BY <2>1, <2>2, Zenon DEF Goes
<1>79. \A s, t : g[18] = {s} /\ Leads(raw, s, <<"leaf", ObjectBytes>>, t) => g[19] = {t}
  <2>1. 19 \in 1 .. 27 /\ 19 - 1 = 18 /\ layout[19] = <<"leaf", ObjectBytes>>
    BY <1>57
  <2>2. Goes(18, 19, <<"leaf", ObjectBytes>>)
    BY <1>60, <2>1, Zenon
  <2> QED
    BY <2>1, <2>2, Zenon DEF Goes
<1>80. \A s, t : g[19] = {s} /\ Leads(raw, s, <<"number", Len(bytes)>>, t) => g[20] = {t}
  <2>1. 20 \in 1 .. 27 /\ 20 - 1 = 19 /\ layout[20] = <<"number", Len(bytes)>>
    BY <1>57
  <2>2. Goes(19, 20, <<"number", Len(bytes)>>)
    BY <1>60, <2>1, Zenon
  <2> QED
    BY <2>1, <2>2, Zenon DEF Goes
<1>81. \A s, t : g[20] = {s} /\ Leads(raw, s, <<"bytes", bytes>>, t) => g[21] = {t}
  <2>1. 21 \in 1 .. 27 /\ 21 - 1 = 20 /\ layout[21] = <<"bytes", bytes>>
    BY <1>57
  <2>2. Goes(20, 21, <<"bytes", bytes>>)
    BY <1>60, <2>1, Zenon
  <2> QED
    BY <2>1, <2>2, Zenon DEF Goes
<1>82. \A s, t : g[21] = {s} /\ Leads(raw, s, <<"end", ObjectBytes>>, t) => g[22] = {t}
  <2>1. 22 \in 1 .. 27 /\ 22 - 1 = 21 /\ layout[22] = <<"end", ObjectBytes>>
    BY <1>57
  <2>2. Goes(21, 22, <<"end", ObjectBytes>>)
    BY <1>60, <2>1, Zenon
  <2> QED
    BY <2>1, <2>2, Zenon DEF Goes
<1>83. \A s, t : g[22] = {s} /\ Leads(raw, s, <<"close", ObjectGroupData>>, t) => g[23] = {t}
  <2>1. 23 \in 1 .. 27 /\ 23 - 1 = 22 /\ layout[23] = <<"close", ObjectGroupData>>
    BY <1>57
  <2>2. Goes(22, 23, <<"close", ObjectGroupData>>)
    BY <1>60, <2>1, Zenon
  <2> QED
    BY <2>1, <2>2, Zenon DEF Goes
<1>84. \A s, t : g[23] = {s} /\ Leads(raw, s, <<"close", Element>>, t) => g[24] = {t}
  <2>1. 24 \in 1 .. 27 /\ 24 - 1 = 23 /\ layout[24] = <<"close", Element>>
    BY <1>57
  <2>2. Goes(23, 24, <<"close", Element>>)
    BY <1>60, <2>1, Zenon
  <2> QED
    BY <2>1, <2>2, Zenon DEF Goes
<1>85. \A s, t : g[24] = {s} /\ Leads(raw, s, <<"close", Package>>, t) => g[25] = {t}
  <2>1. 25 \in 1 .. 27 /\ 25 - 1 = 24 /\ layout[25] = <<"close", Package>>
    BY <1>57
  <2>2. Goes(24, 25, <<"close", Package>>)
    BY <1>60, <2>1, Zenon
  <2> QED
    BY <2>1, <2>2, Zenon DEF Goes
<1>86. \A s, t : g[25] = {s} /\ Leads(raw, s, <<"close", SubRequest>>, t) => g[26] = {t}
  <2>1. 26 \in 1 .. 27 /\ 26 - 1 = 25 /\ layout[26] = <<"close", SubRequest>>
    BY <1>57
  <2>2. Goes(25, 26, <<"close", SubRequest>>)
    BY <1>60, <2>1, Zenon
  <2> QED
    BY <2>1, <2>2, Zenon DEF Goes
<1>87. \A s, t : g[26] = {s} /\ Leads(raw, s, <<"close", Request>>, t) => g[27] = {t}
  <2>1. 27 \in 1 .. 27 /\ 27 - 1 = 26 /\ layout[27] = <<"close", Request>>
    BY <1>57
  <2>2. Goes(26, 27, <<"close", Request>>)
    BY <1>60, <2>1, Zenon
  <2> QED
    BY <2>1, <2>2, Zenon DEF Goes
<1>88. g[1] = {at(p1)}
  BY <1>59, <1>39, <1>61, Zenon
<1>89. g[2] = {at(p2)}
  BY <1>88, <1>40, <1>62, Zenon
<1>90. g[3] = {at(p3)}
  BY <1>89, <1>41, <1>63, Zenon
<1>91. g[4] = {at(p4)}
  BY <1>90, <1>42, <1>64, Zenon
<1>92. g[5] = {at(p5)}
  BY <1>91, <1>43, <1>65, Zenon
<1>93. g[6] = {at(p6)}
  BY <1>92, <1>44, <1>66, Zenon
<1>94. g[7] = {at(p7)}
  BY <1>93, <1>45, <1>67, Zenon
<1>95. g[8] = {at(p8)}
  BY <1>94, <1>46, <1>68, Zenon
<1>96. g[9] = {at(p9)}
  BY <1>95, <1>47, <1>69, Zenon
<1>97. g[16] = {at(p10)}
  <2> DEFINE pos == 1 + Len(p9)
             end == 1 + Len(p10)
  <2>1. PICK q, a, b, c, m :
           /\ Leads(raw, AtPos(pos, 0), <<"leaf", Declare>>, AtPos(q, end))
           /\ Leads(raw, AtPos(q, end), <<"id", GuidA>>, AtPos(a, end))
           /\ Leads(raw, AtPos(a, end), <<"id", GuidB>>, AtPos(b, end))
           /\ Leads(raw, AtPos(b, end), <<"id", GuidC>>, AtPos(c, end))
           /\ Leads(raw, AtPos(c, end), <<"number", 1>>, AtPos(m, end))
           /\ Leads(raw, AtPos(m, end), <<"number", Len(bytes)>>, AtPos(end, end))
           /\ Leads(raw, AtPos(end, end), <<"end", Declare>>, AtPos(end, 0))
    BY <1>48, Zenon DEF ReadsDeclaration
  <2>2. g[10] = {AtPos(q, end)}
    BY <1>96, <1>70, <2>1, Zenon
  <2>3. g[11] = {AtPos(a, end)}
    BY <2>2, <1>71, <2>1, Zenon
  <2>4. g[12] = {AtPos(b, end)}
    BY <2>3, <1>72, <2>1, Zenon
  <2>5. g[13] = {AtPos(c, end)}
    BY <2>4, <1>73, <2>1, Zenon
  <2>6. g[14] = {AtPos(m, end)}
    BY <2>5, <1>74, <2>1, Zenon
  <2>7. g[15] = {AtPos(end, end)}
    BY <2>6, <1>75, <2>1, Zenon
  <2> QED
    BY <2>7, <1>76, <2>1, Zenon
<1>98. g[17] = {at(p11)}
  BY <1>97, <1>49, <1>77, Zenon
<1>99. g[18] = {at(p12)}
  BY <1>98, <1>50, <1>78, Zenon
<1>100. g[22] = {at(p13)}
  <2> DEFINE pos == 1 + Len(p12)
             end == 1 + Len(p13)
  <2>1. PICK q, m :
           /\ Leads(raw, AtPos(pos, 0), <<"leaf", ObjectBytes>>, AtPos(q, end))
           /\ Leads(raw, AtPos(q, end), <<"number", Len(bytes)>>, AtPos(m, end))
           /\ Leads(raw, AtPos(m, end), <<"bytes", bytes>>, AtPos(end, end))
           /\ Leads(raw, AtPos(end, end), <<"end", ObjectBytes>>, AtPos(end, 0))
    BY <1>51, Zenon DEF ReadsObject
  <2>2. g[19] = {AtPos(q, end)}
    BY <1>99, <1>79, <2>1, Zenon
  <2>3. g[20] = {AtPos(m, end)}
    BY <2>2, <1>80, <2>1, Zenon
  <2>4. g[21] = {AtPos(end, end)}
    BY <2>3, <1>81, <2>1, Zenon
  <2> QED
    BY <2>4, <1>82, <2>1, Zenon
<1>101. g[23] = {at(p14)}
  BY <1>100, <1>52, <1>83, Zenon
<1>102. g[24] = {at(p15)}
  BY <1>101, <1>53, <1>84, Zenon
<1>103. g[25] = {at(p16)}
  BY <1>102, <1>54, <1>85, Zenon
<1>104. g[26] = {at(p17)}
  BY <1>103, <1>55, <1>86, Zenon
<1>105. g[27] = {at(p18)}
  BY <1>104, <1>56, <1>87, Zenon
<1> QED
  BY <1>1, <1>59, <1>105, Zenon DEF layout

-----------------------------------------------------------------------------
(* The run's properties, for documents of every size.                      *)

InputIsTyped ==
    input \in Documents \/ \E pieces : input = [kind |-> "text", pieces |-> pieces]

LEMMA InputStaysTyped == Spec => []InputIsTyped
<1>1. Init => InputIsTyped
  BY DEF Init, InputIsTyped, Texts
<1>2. InputIsTyped /\ [Next]_input => InputIsTyped'
  <2> SUFFICES ASSUME InputIsTyped, [Next]_input PROVE InputIsTyped'
    OBVIOUS
  <2>1. CASE NextDocument
    BY <2>1 DEF NextDocument, InputIsTyped
  <2>2. CASE Type
    <3>1. PICK pieces : input = [kind |-> "text", pieces |-> pieces]
      BY <2>2 DEF Type, InputIsTyped, Documents
    <3>2. PICK more : input' = [input EXCEPT !.pieces = more]
      BY <2>2 DEF Type
    <3> QED
      BY <3>1, <3>2 DEF InputIsTyped
  <2>3. CASE Clear
    <3>1. PICK pieces : input = [kind |-> "text", pieces |-> pieces]
      BY <2>3 DEF Clear, InputIsTyped, Documents
    <3> QED
      BY <2>3, <3>1 DEF Clear, InputIsTyped
  <2>4. CASE UNCHANGED input
    BY <2>4 DEF InputIsTyped
  <2> QED
    BY <2>1, <2>2, <2>3, <2>4 DEF Next
<1> QED
  BY <1>1, <1>2, PTL DEF Spec

\* A document of the run is one of bytes.
LEMMA DocumentTyped ==
    ASSUME Sizes \subseteq Nat, Fills \subseteq 0 .. Mixed, input \in Documents
    PROVE  Document \in Seq(Byte) /\ Len(Document) = input.size /\ input.size \in Nat
<1>1. input.size \in Nat /\ input.fill \in 0 .. Mixed
  BY DEF Documents
<1> DEFINE size == input.size
           look == <<240, 194, 3, 65, 241, 0, 2, 0, 3>>
           byte(i) == IF input.fill = Mixed THEN look[1 + (i % 9)] ELSE input.fill
<1>2. Document = [i \in 1 .. size |-> byte(i)]
  BY DEF Document
<1>3. ASSUME NEW i \in 1 .. size PROVE byte(i) \in Byte
  <2>1. i % 9 \in 0 .. 8
    BY <1>1
  <2>2. look \in [1 .. 9 -> Byte]
    BY DEF Byte
  <2> HIDE DEF look
  <2>3. look[1 + (i % 9)] \in Byte
    BY <2>1, <2>2
  <2>4. input.fill # Mixed => input.fill \in Byte
    BY <1>1 DEF Mixed, Byte
  <2> QED
    BY <2>3, <2>4
<1>4. size \in Nat
  BY <1>1
<1> HIDE DEF size, byte
<1>5. Document \in Seq(Byte) /\ Len(Document) = size
  BY <1>2, <1>3, <1>4
<1> QED
  BY <1>4, <1>5, Zenon DEF size

\* The largest document of a put: with three bytes of size it fills the 15 bits.
MaxSize == 32764

LEMMA SizedOrEmpty == \A k \in 0 .. MaxSize : k \in Nat /\ k + 3 < TwoTo15
BY DEF MaxSize, TwoTo15

LEMMA Sized == \A k \in 1 .. MaxSize : k \in Nat /\ k # 0 /\ k + 3 < TwoTo15
BY SMT DEF TwoTo15, MaxSize

\* What TLC checks of the buffers of chosen documents holds for all documents that
\* are made of bytes and fit a put: what is decoded is what was encoded.
THEOREM BuffersDecode ==
    ASSUME Sizes \subseteq 0 .. MaxSize, Fills \subseteq 0 .. Mixed
    PROVE  Spec => []Base64Decodes
<1>1. Sizes \subseteq Nat
  BY SizedOrEmpty
<1>2. InputIsTyped => Base64Decodes
  <2> SUFFICES ASSUME InputIsTyped, input.kind = "document"
               PROVE  FromBase64(ToBase64(PutChanges(Document))) = PutChanges(Document)
    BY DEF Base64Decodes
  <2>1. input \in Documents
    BY DEF InputIsTyped
  <2>2. Document \in Seq(Byte) /\ Len(Document) = input.size
    BY <1>1, <2>1, DocumentTyped, Zenon
  <2>3. input.size \in 0 .. MaxSize
    BY <2>1 DEF Documents
  <2>4. Fits(Document)
    BY <2>2, <2>3, SizedOrEmpty, Zenon DEF Fits
  <2> QED
    BY <2>4, PutParts, Base64Inverse, Zenon
<1> QED
  BY <1>1, <1>2, InputStaysTyped, PTL

\* Every document is found: whatever its bytes and its size within the widths of the
\* headers, decodeCellSubResponse hands on the payload without a document and then,
\* among the blobs of the put, the document, whole and as it was. Only a size can
\* look like a header before the document's, and what it opens is over in time.
THEOREM PutsAreFound ==
    ASSUME Sizes \subseteq 1 .. MaxSize, Fills \subseteq 0 .. Mixed
    PROVE  Spec => []PayloadFound
<1>1. InputIsTyped => PayloadFound
  <2> SUFFICES ASSUME InputIsTyped, input.kind = "document"
               PROVE  LET blobs == DecodeCellSubResponse(Answer)
                      IN  blobs[1] = GetChanges /\ \E i \in 2 .. Len(blobs) : blobs[i] = Document
    BY DEF PayloadFound
  <2>1. input \in Documents /\ Sizes \subseteq Nat
    <3>1. input \in Documents
      BY DEF InputIsTyped
    <3>2. Sizes \subseteq Nat
      BY Sized, Zenon
    <3> QED
      BY <3>1, <3>2
  <2>2. Document \in Seq(Byte) /\ Len(Document) = input.size /\ input.size \in 1 .. MaxSize
    <3>1. Document \in Seq(Byte) /\ Len(Document) = input.size
      BY <2>1, DocumentTyped
    <3>2. input.size \in Sizes
      BY <2>1 DEF Documents
    <3> QED
      BY <3>1, <3>2
  <2>4. Fits(Document) /\ Document # <<>>
    <3>1. Len(<<>>) = 0
      OBVIOUS
    <3>2. Len(Document) \in Nat /\ Len(Document) # 0 /\ Len(Document) + 3 < TwoTo15
      BY <2>2, Sized, Zenon
    <3>3. Document # <<>>
      BY <3>1, <3>2
    <3> QED
      BY <2>2, <3>2, <3>3 DEF Fits
  <2> DEFINE raw == PutChanges(Document)
             t == 1 + Len(Before(Document))
             values == <<ToBase64(GetChanges), ToBase64(<<>>), ToBase64(raw)>>
             S == {GetChanges} \cup {CutAt(raw, i) : i \in Objects(raw)}
             s == [i \in DOMAIN values |->
                      LET r == FromBase64(values[i])
                      IN  IF r = <<>> THEN <<>> ELSE ExtractOoxmlBlobs(r)]
             a == <<GetChanges>>
             c == Blobs(raw)
  <2>5. /\ raw \in Seq(Byte) /\ raw # <<>> /\ t \in Objects(raw) /\ CutAt(raw, t) = Document
        /\ \A i \in Objects(raw) : i < t => EndAt(raw, i) <= t
    BY <2>4, PutSearched, Zenon
  <2> HIDE DEF raw, t
  <2>6. PICK k \in 1 .. Len(c) : c[k] = Document
    BY <2>5, ObjectIsFound
  <2>7. c \in Seq(S)
    <3>1. c \in Seq({CutAt(raw, i) : i \in Objects(raw)})
      BY <2>5, ObjectIsFound, Zenon
    <3> DEFINE T == {CutAt(raw, i) : i \in Objects(raw)}
    <3>2. T \subseteq S
      OBVIOUS
    <3> HIDE DEF T, S, c
    <3> QED
      BY <3>1, <3>2 DEF T
  <2>8. /\ FromBase64(ToBase64(GetChanges)) = GetChanges /\ FromBase64(ToBase64(<<>>)) = <<>>
        /\ FromBase64(ToBase64(raw)) = raw
    <3>1. <<>> \in Seq(Byte)
      OBVIOUS
    <3> QED
      BY <2>5, <3>1, NoDocument, Base64Inverse, Zenon
  <2>9. ExtractOoxmlBlobs(GetChanges) = a /\ ExtractOoxmlBlobs(raw) = c
    <3>1. c # <<>>
      BY <2>6
    <3> QED
      BY <3>1, NoDocument, Zenon DEF ExtractOoxmlBlobs
  <2>10. DecodeCellSubResponse(Answer) = FlattenSeq(s)
    BY Zenon DEF DecodeCellSubResponse, Answer, raw
  <2>11. /\ DOMAIN s = 1 .. 3 /\ s = [i \in 1 .. 3 |-> s[i]]
         /\ s[1] = a /\ s[2] = <<>> /\ s[3] = c
    <3>1. /\ DOMAIN values = 1 .. 3 /\ values[1] = ToBase64(GetChanges)
          /\ values[2] = ToBase64(<<>>) /\ values[3] = ToBase64(raw)
      OBVIOUS
    <3> HIDE DEF values, a, c
    <3>2. DOMAIN s = 1 .. 3 /\ s = [i \in 1 .. 3 |-> s[i]]
      BY <3>1
    <3>3. \A i \in 1 .. 3 : s[i] = IF FromBase64(values[i]) = <<>> THEN <<>>
                                    ELSE ExtractOoxmlBlobs(FromBase64(values[i]))
      BY <3>1
    <3> HIDE DEF s
    <3>4. 1 \in 1 .. 3 /\ 2 \in 1 .. 3 /\ 3 \in 1 .. 3
      OBVIOUS
    <3>5. s[1] = a /\ s[2] = <<>> /\ s[3] = c
      BY <2>5, <2>8, <2>9, <3>1, <3>3, <3>4, NoDocument, Zenon
    <3> QED
      BY <3>2, <3>5
  <2>12. a \in Seq(S) /\ <<>> \in Seq(S)
    OBVIOUS
  <2> HIDE DEF s, c, S
  <2>13. FlattenSeq(s) = (a \o <<>>) \o c
    <3> HIDE DEF a
    <3> DEFINE e == <<>>
    <3>1. a \in Seq(S) /\ e \in Seq(S) /\ c \in Seq(S) /\ s[2] = e
      BY <2>7, <2>11, <2>12
    <3> HIDE DEF e
    <3>2. IsThree(s, a, e, c)
      BY <2>11, <3>1, Zenon DEF IsThree
    <3>3. FlattenSeq(s) = (a \o e) \o c
      BY <3>1, <3>2, ThreeValues, SMT
    <3> QED
      BY <3>3 DEF e
  <2> DEFINE blobs == (a \o <<>>) \o c
  <2>14. Len(blobs) = 1 + Len(c) /\ blobs[1] = GetChanges /\ blobs[1 + k] = Document
         /\ 1 + k \in 2 .. Len(blobs)
    BY <2>6, <2>7
  <2> HIDE DEF blobs
  <2> QED
    BY <2>10, <2>13, <2>14, Zenon DEF blobs
<1> QED
  BY <1>1, InputStaysTyped, PTL

\* The layout that the comment above buildPutChanges draws is read back of every
\* put, part by part and to its last byte: headers of both forms, numbers of every
\* width and leaves that end where their header says.
THEOREM PutsReadBack ==
    ASSUME Sizes \subseteq 0 .. MaxSize, Fills \subseteq 0 .. Mixed
    PROVE  Spec => []LayoutReadsBack
<1>1. InputIsTyped => LayoutReadsBack
  <2> SUFFICES ASSUME InputIsTyped, input.kind = "document"
               PROVE  ReadLayout(PutChanges(Document), Layout(Document))
                         = {[pos |-> Len(PutChanges(Document)) + 1, leafEnd |-> 0]}
    BY Zenon DEF LayoutReadsBack
  <2>1. input \in Documents
    BY DEF InputIsTyped
  <2>2. \A k \in 0 .. MaxSize : k \in Nat /\ k + 3 < TwoTo15
    BY SizedOrEmpty, Zenon
  <2>3. Sizes \subseteq Nat
    BY <2>2, Zenon
  <2>4. Document \in Seq(Byte) /\ Len(Document) = input.size
    BY <2>1, <2>3, DocumentTyped, Zenon
  <2>5. input.size \in 0 .. MaxSize
    <3>1. input.size \in Sizes
      BY <2>1 DEF Documents
    <3> QED
      BY <3>1, Zenon
  <2>6. Fits(Document)
    BY <2>2, <2>4, <2>5, Zenon DEF Fits
  <2>7. ReadLayout(PutChanges(Document), Layout(Document))
           = {AtPos(1 + Len(PutChanges(Document)), 0)}
    BY <2>6, PutReads, Zenon
  <2>8. 1 + Len(PutChanges(Document)) = Len(PutChanges(Document)) + 1
    <3>1. \A s \in Seq(Byte) : 1 + Len(s) = Len(s) + 1
      OBVIOUS
    <3> QED
      BY <2>6, <3>1, PutParts, Zenon
  <2> QED
    BY <2>7, <2>8, Zenon DEF AtPos
<1> QED
  BY <1>1, InputStaysTyped, PTL
=============================================================================
