------------------------------ MODULE MCCodecs ------------------------------
(***************************************************************************)
(* What is written on one side and read on the other: documents of chosen  *)
(* sizes and contents, put and found again, and texts typed piece by piece *)
(* that travel from one editor to another.                                 *)
(***************************************************************************)
EXTENDS FsshttpBinary, DeltaText

CONSTANTS Sizes, Fills, MaxPieces

VARIABLE input      \* a document or a text

\* A document of one byte over and over, or of what looks like headers.
Mixed == 256
Documents == [kind : {"document"}, size : Sizes, fill : Fills]
Document ==
    [i \in 1 .. input.size |->
        IF input.fill = Mixed THEN <<240, 194, 3, 65, 241, 0, 2, 0, 3>>[1 + (i % 9)]
                              ELSE input.fill]

\* What a text may hold that a reader takes for something else: each escaped
\* character, an entity and an escape typed as such, a string's end, keys with
\* and without quotes, the type of a comment and the marker of a change.
Pieces ==
    {<<"quote">>, <<"backslash">>, <<"newline">>, <<"control">>, <<"amp">>, <<"n">>,
     <<"amp", "lt;">>, <<"amp;">>, <<"TRACKED:">>, <<"content">>, <<"quote", ",">>,
     <<"quote", "content", "quote", ":", "quote">>,
     <<"quote", "paragraphIndex", "quote", ":", "3">>,
     <<"quote", "type", "quote", ":", "quote", "comment", "quote">>}
Texts == [kind : {"text"}, pieces : {<<>>}]

Init == input \in Documents \cup Texts
NextDocument == input.kind = "document" /\ input' \in Documents
Type ==
    /\ input.kind = "text" /\ Len(input.pieces) < MaxPieces
    /\ \E p \in Pieces : input' = [input EXCEPT !.pieces = Append(@, p)]
Clear == input.kind = "text" /\ input' = [input EXCEPT !.pieces = <<>>]
Next == NextDocument \/ Type \/ Clear
Spec == Init /\ [][Next]_input

\* An answer with a put among payloads without a document.
Answer == <<ToBase64(GetChanges), ToBase64(<<>>), ToBase64(PutChanges(Document))>>

\* The sizes at which a header or a number gets longer, and those around them.
Around(n)  == n - 2 .. n + 2
Boundaries == 1 .. 130 \cup Around(255)
              \cup Around(16383) \cup {28920, 32763, 32764}
AllFills   == {0, 65, 241, Mixed}

\* The layout that the comment above buildPutChanges draws.
Layout(bytes) ==
    << <<"open", Request>>, <<"open", SubRequest>>, <<"number", 1>>, <<"number", 1>>,
       <<"open", Package>>, <<"open", Element>>, <<"id", GuidStorage>>, <<"number", 1>>,
       <<"open", Declarations>>,
            <<"leaf", Declare>>, <<"id", GuidA>>, <<"id", GuidB>>, <<"id", GuidC>>,
            <<"number", 1>>, <<"number", Len(bytes)>>, <<"end", Declare>>,
       <<"close", Declarations>>, <<"open", ObjectGroupData>>,
            <<"leaf", ObjectBytes>>, <<"number", Len(bytes)>>, <<"bytes", bytes>>,
            <<"end", ObjectBytes>>,
       <<"close", ObjectGroupData>>, <<"close", Element>>, <<"close", Package>>,
       <<"close", SubRequest>>, <<"close", Request>> >>

\* One part of it read at s.pos. A leaf ends where its header says.
ReadPart(raw, s, part) ==
    LET kind == part[1]
        arg  == part[2]
        at(next, leafEnd) == {[pos |-> next, leafEnd |-> leafEnd]}
        headers == {h \in ReadStreamHeader(raw, s.pos) :
                        h.type = arg /\ h.compound = (kind = "open")}
    IN  CASE kind = "open"   -> UNION {at(h.next, 0) : h \in {g \in headers : g.length = 0}}
          [] kind = "leaf"   -> UNION {at(h.next, h.next + h.length) : h \in headers}
          [] kind = "number" -> LET n == ReadUvarint(raw, s.pos)
                                IN  IF n.value = arg THEN at(n.next, s.leafEnd) ELSE {}
          [] kind = "id"     -> LET g == ReadExGuid(raw, s.pos)
                                IN  IF g.guid = arg /\ g.value = 1 THEN at(g.next, s.leafEnd) ELSE {}
          [] kind = "bytes"  -> IF SubSeq(raw, s.pos, s.pos + Len(arg) - 1) = arg
                                THEN at(s.pos + Len(arg), s.leafEnd) ELSE {}
          [] kind = "end"    -> IF s.pos = s.leafEnd THEN at(s.pos, 0) ELSE {}
          [] kind = "close"  -> IF raw[s.pos] = 2 * arg + 1 THEN at(s.pos + 1, 0) ELSE {}

\* What is read of a buffer by a layout, from its beginning.
ReadLayout(raw, layout) ==
    LET read[n \in 0 .. Len(layout)] ==
            IF n = 0 THEN {[pos |-> 1, leafEnd |-> 0]}
            ELSE UNION {ReadPart(raw, s, layout[n]) : s \in read[n - 1]}
    IN  read[Len(layout)]

\* Read back with FsshttpBinaryReader a put is that layout, to its last byte:
\* headers of both forms and numbers of every width lead each to the next
\* part, and a leaf's length covers its body (the comments of
\* FsshttpBinaryEncoder.h on the two headers).
LayoutReadsBack ==
    input.kind = "document" =>
        LET raw == PutChanges(Document)
        IN  ReadLayout(raw, Layout(Document)) = {[pos |-> Len(raw) + 1, leafEnd |-> 0]}

\* Every document is found in an answer that holds its put, whole, whatever
\* its size: two forms of header and numbers of one to three bytes must fit
\* together, look-alike headers must not end the search, and a payload without
\* a document is handed on as it is.
PayloadFound ==
    input.kind = "document" =>
        LET blobs == DecodeCellSubResponse(Answer)
        IN  blobs[1] = GetChanges /\ \E i \in 2 .. Len(blobs) : blobs[i] = Document

\* What is decoded from base64 is what was encoded, for every length of the
\* last group.
Base64Decodes ==
    input.kind = "document" =>
        LET raw == PutChanges(Document) IN FromBase64(ToBase64(raw)) = raw

\* A paragraph's text, typed by one user, is the text another is shown, in the
\* same paragraph and tracked if the merge says so, whatever it holds: no hop
\* takes a part of it for a key, an end, an entity or a comment. Control
\* characters and a leading marker are excepted; without a document loaded
\* also an empty text, and what XML escapes, and the paragraph is the first.
TextArrives ==
    input.kind = "text" =>
        LET text == FlattenSeq(input.pieces)
            shown(n, tracked) == {[para |-> n, text |-> text, tracked |-> tracked]}
        IN  /\ ~IsComment(OnLocalChange("7", text))
            /\ ParseDelta(OnLocalChange("7", text)).paragraphIndex = "7"
            /\ ~Contains(text, "control") =>
                  /\ ParseDelta(OnLocalChange("7", text)).content = text
                  /\ \A tracked \in BOOLEAN :
                        tracked \/ ~IsTracked(text) =>
                            ParagraphShown("7", text, TRUE, tracked) = shown("7", tracked)
                  /\ text # <<>> /\ ~IsTracked(text) /\ ToSet(text) \cap DOMAIN Entity = {} =>
                        ParagraphShown("7", text, FALSE, FALSE) = shown("0", FALSE)

\* A comment with that text arrives as it is, with its id and an author whose
\* name XML does not escape.
CommentArrives ==
    input.kind = "text" =>
        LET text == FlattenSeq(input.pieces)
        IN  ~Contains(text, "control") =>
                \A author \in {<<>>, <<"text">>, <<"backslash", "n">>} :
                    CommentShown("5", author, text)
                        = {[comment |-> "5", author |-> author, text |-> text]}
=============================================================================
