---------------------------- MODULE FsshttpBinary ---------------------------
(***************************************************************************)
(* The FSSHTTPB payloads that go out, their way through base64, and how a  *)
(* document's bytes are found again in an answer: by extractOoxmlBlobs, by *)
(* their signature. The reader of headers and numbers is here too. Bytes   *)
(* are 0 .. 255, sequences start at 1, and widths are the code's own.      *)
(***************************************************************************)
EXTENDS Integers, SequencesExt

-----------------------------------------------------------------------------
(* FsshttpBinaryWriter.                                                    *)

\* Seven bits a byte, least significant first; an odd byte is the last. The
\* 64-bit values the code also takes are beyond the sizes used here.
Groups(v) == CHOOSE n \in 1 .. 5 :
                 v \div 128^(n - 1) < 128 /\ (n > 1 => v \div 128^(n - 1) > 0)
Uvarint(v) ==
    [i \in 1 .. Groups(v) |->
        2 * ((v \div 128^(i - 1)) % 128) + (IF i = Groups(v) THEN 1 ELSE 0)]

\* An ExGUID is written with its number, here always 1.
ExGuid(guid) == guid \o Uvarint(1)

Flag(compound) == IF compound THEN 2 ELSE 0
StreamHeader16(type, length, compound) ==
    << ((4 * type) % 256) + Flag(compound), 192 + (length % 64) >>
StreamHeader32(type, length, compound) ==
    << (4 * type + Flag(compound) + 1) % 256, (4 * type) \div 256,
       length % 256, (length \div 256) % 128 >>

NeedsLong_OffByOne(type, length) == type > 63 \/ length > 64
NeedsLong(type, length) == type > 63 \/ length > 63
Header(type, length, compound) ==
    IF NeedsLong(type, length) THEN StreamHeader32(type, length, compound)
                               ELSE StreamHeader16(type, length, compound)
EndObject(type) == <<((2 * type) % 256) + 1>>

Sextets_RoundedDown(n) == (8 * n) \div 6
Sextets(n) == (8 * n + 5) \div 6

\* Characters are their values 0 .. 63; 64 is the padding.
\* (Appending <<>> has TLC compute a sequence once and not at each use.)
Pad == 64
ToBase64(data) ==
    LET n == Len(data)
        byte(i) == IF i <= n THEN data[i] ELSE 0
        char(k) == LET b == 3 * (k \div 4)      \* the bytes before its triple
                   IN  CASE k % 4 = 0 -> byte(b + 1) \div 4
                         [] k % 4 = 1 -> (byte(b + 1) % 4) * 16 + byte(b + 2) \div 16
                         [] k % 4 = 2 -> (byte(b + 2) % 16) * 4 + byte(b + 3) \div 64
                         [] k % 4 = 3 -> byte(b + 3) % 64
    IN  [k \in 1 .. 4 * ((n + 2) \div 3) |-> IF k <= Sextets(n) THEN char(k - 1) ELSE Pad] \o <<>>

-----------------------------------------------------------------------------
(* buildPutChanges and buildGetChanges.                                    *)

GuidStorage == <<111, 103, 97, 116, 105, 111, 110, 115, 111, 99, 116, 111, 114, 121, 33, 0>>
GuidA == [i \in 1 .. 16 |-> i]
GuidB == [i \in 1 .. 16 |-> 16 + i]
GuidC == [i \in 1 .. 16 |-> 32 + i]

Request == 26
SubRequest == 27
Package == 68
Element == 1
Declarations == 69
Declare == 5
ObjectGroupData == 70
ObjectBytes == 60

\* A cell's id is two ExGUIDs.
CellId(space, object) == ExGuid(space) \o ExGuid(object)

\* ObjectGroupObjectDeclare: the cell's id, the object's, partition and size.
Declaration(bytes) ==
    LET body == CellId(GuidA, GuidB) \o ExGuid(GuidC) \o Uvarint(1)
                \o Uvarint(Len(bytes))
    IN  Header(Declare, Len(body), FALSE) \o body

\* ObjectGroupObjectData: the size again, and the bytes.
Object(bytes) ==
    LET body == Uvarint(Len(bytes)) \o bytes
    IN  Header(ObjectBytes, Len(body), FALSE) \o body

PutChanges(bytes) ==
    Header(Request, 0, TRUE) \o Header(SubRequest, 0, TRUE) \o Uvarint(1) \o Uvarint(1)
    \o Header(Package, 0, TRUE) \o Header(Element, 0, TRUE)
    \o ExGuid(GuidStorage) \o Uvarint(1)
    \o Header(Declarations, 0, TRUE) \o Declaration(bytes) \o EndObject(Declarations)
    \o Header(ObjectGroupData, 0, TRUE) \o Object(bytes) \o EndObject(ObjectGroupData)
    \o EndObject(Element) \o EndObject(Package) \o EndObject(SubRequest) \o EndObject(Request)

\* buildGetChanges: a payload without an object.
GetChanges ==
    Header(Request, 0, TRUE) \o Header(SubRequest, 0, TRUE) \o Uvarint(2) \o Uvarint(2)
    \o EndObject(SubRequest) \o EndObject(Request)

-----------------------------------------------------------------------------
(* FsshttpBinaryReader and extractOoxmlBlobs.                              *)

\* Decoding stops at the first padding.
FromBase64(chars) ==
    LET n == Cardinality({k \in 1 .. Len(chars) : chars[k] # Pad})
        byte(j) == LET c == 4 * (j \div 3)      \* the characters before its group
                   IN  CASE j % 3 = 0 -> chars[c + 1] * 4 + chars[c + 2] \div 16
                         [] j % 3 = 1 -> (chars[c + 2] % 16) * 16 + chars[c + 3] \div 4
                         [] j % 3 = 2 -> (chars[c + 3] % 4) * 64 + chars[c + 4]
    IN  [j \in 1 .. (6 * n) \div 8 |-> byte(j - 1)] \o <<>>

\* tryReadUvarintAt: how many bytes the number at pos takes (0: none ends here), ten
\* at most, and its value. Of a number of 2^28 and more it is enough that it is Huge:
\* no object is so large. Of the tenth byte the 64 bits keep one.
Huge == 128^4
UvarintBytes(raw, pos) ==
    LET ends == {k \in 1 .. 10 : pos + k - 1 <= Len(raw) /\ raw[pos + k - 1] % 2 = 1}
    IN  IF ends = {} THEN 0 ELSE Min(ends)
UvarintValue(raw, pos) ==
    LET group(k) == IF k <= UvarintBytes(raw, pos) THEN raw[pos + k - 1] \div 2 ELSE 0
        high == \/ \E k \in 5 .. 9 : group(k) # 0
                \/ group(10) % 2 # 0
    IN  IF high THEN Huge
        ELSE group(1) + group(2) * 128 + group(3) * 16384 + group(4) * 2097152

\* The reader moves on behind what it has read; a header that is cut off is none.
ReadUvarint(raw, pos) ==
    [value |-> UvarintValue(raw, pos), next |-> pos + UvarintBytes(raw, pos)]
ReadExGuid(raw, pos) ==
    LET n == ReadUvarint(raw, pos + 16)
    IN  [guid |-> SubSeq(raw, pos, pos + 15), value |-> n.value, next |-> n.next]
ReadStreamHeader(raw, pos) ==
    LET word(i) == raw[i] + 256 * raw[i + 1]
        long == pos <= Len(raw) /\ raw[pos] % 2 = 1
        next == pos + (IF long THEN 4 ELSE 2)
    IN  IF next > Len(raw) + 1 THEN {}
        ELSE {[compound |-> (raw[pos] \div 2) % 2 = 1, next |-> next,
               type   |-> IF long THEN word(pos) \div 4 ELSE (raw[pos] \div 4) % 64,
               length |-> IF long THEN word(pos + 2) % 32768 ELSE raw[pos + 1] % 64]}

\* The signature of an ObjectGroupObjectData header at i: its size and length.
LongHeaderAt(raw, i) ==
    raw[i] = 241 /\ raw[i + 1] = 0 /\ i + 3 <= Len(raw) /\ raw[i + 3] < 128
ShortHeaderAt(raw, i) == raw[i] = 240 /\ raw[i + 1] >= 192
BodyAt(raw, i) ==
    IF LongHeaderAt(raw, i)
    THEN [from |-> i + 4, length |-> raw[i + 2] + 256 * raw[i + 3]]
    ELSE [from |-> i + 2, length |-> raw[i + 1] % 64]

\* A header counts if its body lies in the buffer and is a size and as many bytes.
IsObject(raw, i) ==
    /\ i < Len(raw) /\ raw[i] \in {240, 241}
    /\ LongHeaderAt(raw, i) \/ ShortHeaderAt(raw, i)
    /\ LET body == BodyAt(raw, i)
       IN  /\ body.length > 0 /\ body.from + body.length - 1 <= Len(raw)
           /\ UvarintBytes(raw, body.from) > 0 /\ UvarintValue(raw, body.from) > 0
           /\ UvarintBytes(raw, body.from) + UvarintValue(raw, body.from) = body.length

\* From left to right, each search starting behind the object found last.
Blobs(raw) ==
    LET objects == {i \in 1 .. Len(raw) : IsObject(raw, i)}
        from[start \in Nat] ==
            LET next == {i \in objects : i >= start}
            IN  IF next = {} THEN <<>>
                ELSE LET body == BodyAt(raw, Min(next))
                         end == body.from + body.length
                     IN  <<SubSeq(raw, body.from + UvarintBytes(raw, body.from), end - 1)>>
                         \o from[end]
    IN  from[1]

\* The whole buffer if nothing is found.
ExtractOoxmlBlobs(raw) ==
    LET blobs == Blobs(raw) IN IF blobs = <<>> THEN <<raw>> ELSE blobs

\* decodeCellSubResponse: the blobs of all the values of an answer, in order,
\* an empty value left out.
DecodeCellSubResponse(values) ==
    FlattenSeq([i \in DOMAIN values |->
        LET raw == FromBase64(values[i])
        IN  IF raw = <<>> THEN <<>> ELSE ExtractOoxmlBlobs(raw)])
=============================================================================
