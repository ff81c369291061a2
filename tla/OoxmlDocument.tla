---------------------------- MODULE OoxmlDocument ---------------------------
(***************************************************************************)
(* The two parts of a .docx package that the client keeps as text, edits   *)
(* by searching for tags, and reads back when others put theirs. A part is *)
(* the sequence of its tags: those searched for, those that open and close *)
(* what paragraphs stand in (the body, tables and their cells), and one    *)
(* for all others. Positions start at 1.                                   *)
(***************************************************************************)
EXTENDS Integers, SequencesExt

CONSTANTS
    Plain,          \* words that XML writes as they are
    Files,          \* what a file's parts may be, <<>> for one it has not
    Indices,        \* the paragraphs, the ids, the authors and the texts
    Ids,            \* of the editor's changes
    Authors,
    Texts,
    MaxEdits        \* bound on the number of changes

VARIABLES
    documentXml,    \* m_documentXml
    commentsXml,    \* m_commentsXml
    edits,          \* number of changes so far
    asked           \* the last change the editor asked for

vars == <<documentXml, commentsXml, edits, asked>>

-----------------------------------------------------------------------------
(* Tags and words. A word that is not plain is an ampersand in its n-th    *)
(* disguise: 0 is &, 1 is &amp;, 2 is &amp;amp; and so on. The other       *)
(* reserved characters behave alike.                                       *)

\* <w:p> and <w:p ...> are "p", </w:p> is "/p", <w:p/> is "p/" and
\* <w:p .../> is "p .../"; <w:pPr> stands for all longer names. "body" and "/body" are
\* the part's first tags and its last, <w:document> and </w:document> with them,
\* "tc" and "/tc" those of tables, rows and cells.
Tag(name) == [tag |-> name]
Run(word) == [tag |-> "t", word |-> word]

XmlEscape(word)   == IF word \in Plain THEN word ELSE word + 1
XmlUnescape(word) == IF word \in Plain \/ word = 0 THEN word ELSE word - 1

Runs(text) == [i \in DOMAIN text |-> Run(XmlEscape(text[i]))]

ExtractParaText(xml) ==
    LET upto[n \in 0 .. Len(xml)] ==
            IF n = 0 THEN <<>>
            ELSE IF xml[n].tag = "t" THEN Append(upto[n - 1], XmlUnescape(xml[n].word))
            ELSE upto[n - 1]
    IN  upto[Len(xml)]

\* std::string::find and rfind; npos if there is none.
npos == 0
Find(xml, names, from) == SelectInSubSeq(xml, from, Len(xml), LAMBDA x : x.tag \in names)
RFind(xml, name) == SelectLastInSeq(xml, LAMBDA x : x.tag = name)

Upto(xml, i) == SubSeq(xml, 1, i)
From(xml, i) == SubSeq(xml, i, Len(xml))

\* Before the last tag of that name, or at the end.
InsertBefore(xml, name, new) ==
    LET at == IF RFind(xml, name) = npos THEN Len(xml) + 1 ELSE RFind(xml, name)
    IN  Upto(xml, at - 1) \o new \o From(xml, at)

-----------------------------------------------------------------------------
(* Paragraphs.                                                             *)

\* A tag that <w:p begins and >, a space or a line end follows.
ParagraphStarts == {"p", "p .../"}

FindNthParagraphStart_FromOne(xml, n) ==
    LET starts == {i \in DOMAIN xml : xml[i].tag \in ParagraphStarts}
        nth == {s \in starts : Cardinality({r \in starts : r <= s}) = n}
    IN  IF nth = {} THEN npos ELSE CHOOSE s \in nth : TRUE
FindNthParagraphStart(xml, n) ==
    LET starts == {i \in DOMAIN xml : xml[i].tag \in ParagraphStarts}
        nth == {s \in starts : Cardinality({r \in starts : r < s}) = n}
    IN  IF nth = {} THEN npos ELSE CHOOSE s \in nth : TRUE

NewParagraph(text) == <<Tag("p")>> \o Runs(text) \o <<Tag("/p")>>

\* A paragraph that holds an equation stays as it is.
ApplyParagraphDelta(xml, n, text) ==
    LET start == FindNthParagraphStart(xml, n)
        close == Find(xml, {"/p"}, start)
    IN  CASE start = npos -> InsertBefore(xml, "/body", NewParagraph(text))
          [] start # npos /\ close = npos -> Upto(xml, start - 1) \o NewParagraph(text)
          [] start # npos /\ close # npos ->
                IF \E i \in start .. close : xml[i].tag = "oMath" THEN xml
                ELSE Upto(xml, start - 1) \o NewParagraph(text) \o From(xml, close + 1)

\* What a peer reads: the blocks from a start to the next close. Its search
\* for the next start goes on behind that close.
ParagraphBlocks(xml) ==
    LET from[pos \in Nat] ==
            LET start == Find(xml, ParagraphStarts, pos)
                close == Find(xml, {"/p"}, start)
            IN  IF start = npos \/ close = npos THEN <<>>
                ELSE <<SubSeq(xml, start, close)>> \o from[close + 1]
    IN  from[1]
ParseParagraphDeltas_NoEmpty(xml) ==
    LET blocks == SelectSeq(ParagraphBlocks(xml), LAMBDA x : ExtractParaText(x) # <<>>)
    IN  [i \in DOMAIN blocks |-> ExtractParaText(blocks[i])]
ParseParagraphDeltas(xml) ==
    LET blocks == ParagraphBlocks(xml)
    IN  [i \in DOMAIN blocks |-> ExtractParaText(blocks[i])]

-----------------------------------------------------------------------------
(* Comments. An entry opens with a tag that carries its id and author, and *)
(* ends at </w:comment>; one without a body is a single tag.               *)

Entry(id, author, text) ==
    <<[tag |-> "comment", id |-> id, author |-> XmlEscape(author)]>>
    \o Runs(text) \o <<Tag("/comment")>>

Skeleton == <<Tag("comments"), Tag("/comments")>>

\* The entry of an id, looked for by <w:comment w:id="...", goes; up to the
\* next </w:comment>, whose ever it is.
WithoutComment_TagLeft(xml, id) ==
    LET start == SelectInSeq(xml, LAMBDA x : x.tag \in {"comment", "comment/"} /\ x.id = id)
        end   == Find(xml, {"/comment"}, start)
    IN  IF start = npos \/ end = npos THEN xml
        ELSE Upto(xml, start - 1) \o From(xml, end)
WithoutComment(xml, id) ==
    LET start == SelectInSeq(xml, LAMBDA x : x.tag \in {"comment", "comment/"} /\ x.id = id)
        end   == Find(xml, {"/comment"}, start)
    IN  IF start = npos \/ end = npos THEN xml
        ELSE Upto(xml, start - 1) \o From(xml, end + 1)

ApplyCommentDelta(xml, id, author, text) ==
    InsertBefore(WithoutComment(IF xml = <<>> THEN Skeleton ELSE xml, id),
                 "/comments", Entry(id, author, text))

\* The author comes back as it is written, only the text is unescaped.
ParseCommentDeltas(xml) ==
    LET delta(open, text) == [id |-> open.id, author |-> open.author, text |-> text]
        from[pos \in Nat] ==
            LET start == Find(xml, {"comment", "comment/"}, pos)
                close == Find(xml, {"/comment"}, start)
            IN  IF start = npos THEN <<>>
                ELSE IF xml[start].tag = "comment/"
                THEN <<delta(xml[start], <<>>)>> \o from[start + 1]
                ELSE IF close = npos THEN <<>>
                ELSE <<delta(xml[start], ExtractParaText(SubSeq(xml, start, close)))>>
                     \o from[close + 1]
    IN  IF Find(xml, {"comments"}, 1) = npos THEN <<>> ELSE from[1]

-----------------------------------------------------------------------------
(* Parts as they should be.                                                *)

\* A tag that opens and the tag that closes it: the next one of the two.
Pair(xml, open, close, i, j) ==
    /\ i \in DOMAIN xml /\ j \in DOMAIN xml /\ i < j
    /\ xml[i].tag = open /\ xml[j].tag = close
    /\ \A k \in i + 1 .. j - 1 : xml[k].tag \notin {open, close}

Alternate(xml, open, close) ==
    /\ \A i \in DOMAIN xml : xml[i].tag = open =>
          \E j \in DOMAIN xml : Pair(xml, open, close, i, j)
    /\ \A j \in DOMAIN xml : xml[j].tag = close =>
          \E i \in DOMAIN xml : Pair(xml, open, close, i, j)

\* "OOXML does not nest": no single tag of the kind is inside a pair.
Flat(xml, open, close, single) ==
    \A i, j, k \in DOMAIN xml :
        Pair(xml, open, close, i, j) /\ i < k /\ k < j => xml[k].tag # single

Balanced(xml, open, close, single) ==
    Alternate(xml, open, close) /\ Flat(xml, open, close, single)

\* All of the part is inside one element.
Rooted(xml, open, close) ==
    /\ Len(xml) > 1
    /\ \A i \in DOMAIN xml : /\ xml[i].tag = open <=> i = 1
                             /\ xml[i].tag = close <=> i = Len(xml)

\* What opens and closes tables and their cells, in order, and whether each that
\* is opened is closed.
Cells == {"tc", "/tc"}
Frame(xml) ==
    FlattenSeq([i \in 1 .. Len(xml) |-> IF xml[i].tag \in Cells THEN <<xml[i].tag>> ELSE <<>>])
Nested(frame) ==
    LET count(tag, n) == Cardinality({i \in 1 .. n : frame[i] = tag})
    IN  /\ \A n \in 1 .. Len(frame) : count("/tc", n) <= count("tc", n)
        /\ count("/tc", Len(frame)) = count("tc", Len(frame))

\* No paragraph reaches over the end of the cell it is in.
GoodDocument(xml) ==
    \/ xml = <<>>
    \/ /\ Rooted(xml, "body", "/body")
       /\ Balanced(xml, "p", "/p", "p .../")
       /\ \A cell \in Cells : Flat(xml, "p", "/p", cell)
       /\ Nested(Frame(xml))
GoodComments(xml) ==
    \/ xml = <<>>
    \/ /\ Rooted(xml, "comments", "/comments")
       /\ Balanced(xml, "comment", "/comment", "comment/")

\* The tags told apart; sectPr stands for all others.
Tags     == {"p", "/p", "p/", "p .../", "pPr", "t", "oMath", "sectPr", "body", "/body",
             "tc", "/tc", "comments", "/comments", "comment", "/comment", "comment/"}
Words    == Plain \cup Nat
Elements == [tag : Tags] \cup [tag : Tags, word : Words]
            \cup [tag : Tags, id : Int, author : Words]

\* Word and other editors write good parts.
ASSUME FilesAssumption ==
    /\ Indices \subseteq Nat /\ Plain \cap Nat = {}
    /\ Ids \subseteq Int /\ Authors \subseteq Words /\ Texts \subseteq Seq(Words)
    /\ \A file \in Files :
          /\ file.document \in Seq(Elements) /\ GoodDocument(file.document)
          /\ file.comments \in Seq(Elements) /\ GoodComments(file.comments)

-----------------------------------------------------------------------------
(* One document, loaded once, and the editor's changes to it.              *)

\* loadFromDocx: nothing, or the document's part and the comments' if any.
Init ==
    /\ \E file \in Files \cup {[document |-> <<>>, comments |-> <<>>]} :
          documentXml = file.document /\ commentsXml = file.comments
    /\ edits = 0 /\ asked = <<>>

IsLoaded == documentXml # <<>>

Change(call) == edits < MaxEdits /\ edits' = edits + 1 /\ asked' = call

\* Without a document the client puts a stub of its own.
EditParagraph(n, text) ==
    /\ Change(<<"paragraph", n, text>>) /\ IsLoaded
    /\ documentXml' = ApplyParagraphDelta(documentXml, n, text)
    /\ UNCHANGED commentsXml

EditComment(id, author, text) ==
    /\ Change(<<"comment", id, author, text>>)
    /\ commentsXml' = ApplyCommentDelta(commentsXml, id, author, text)
    /\ UNCHANGED documentXml

Next ==
    \/ \E n \in Indices, text \in Texts : EditParagraph(n, text)
    \/ \E id \in Ids, author \in Authors, text \in Texts : EditComment(id, author, text)

Spec == Init /\ [][Next]_vars

-----------------------------------------------------------------------------
(* What is true of the parts, and what others read in them.                *)

\* A part is never left with a tag that opens or closes nothing, one paragraph or
\* entry inside another, a table, a cell, the body or the part itself without its
\* end, or a tag outside its root, after any sequence of edits: each is cut out and
\* put in by position in the text. (Of files where no paragraph is <w:p .../>.)
WellFormed == GoodDocument(documentXml) /\ GoodComments(commentsXml)

\* The document's paragraphs, as an editor counts them: each tag that opens
\* one, up to the tag that closes it or to itself if it has no content.
Paragraphs(xml) ==
    FlattenSeq([i \in DOMAIN xml |->
        CASE xml[i].tag = "p"                -> <<SubSeq(xml, i, Find(xml, {"/p"}, i))>>
          [] xml[i].tag \in {"p/", "p .../"} -> << <<>> >>
          [] OTHER                           -> <<>>])

ParagraphTexts(xml) ==
    LET blocks == Paragraphs(xml) IN [k \in DOMAIN blocks |-> ExtractParaText(blocks[k])]

\* While no paragraph is written as a single tag, the index a peer reads for
\* a paragraph is the paragraph's own (OoxmlDocument.h: "match OnlyOffice's
\* paragraphIndex"), however the part was edited before.
IndicesMatch ==
    Find(documentXml, {"p/", "p .../"}, 1) = npos
        => ParseParagraphDeltas(documentXml) = ParagraphTexts(documentXml)

\* Every change of a part is the change that was asked for: of the paragraph of
\* that index, as the editor counts them, or of the comment of that id, as a peer
\* reads it from what is put, and of no other; equations stay. (Of files where no
\* paragraph is a single tag.)
Parts == INSTANCE PackageParts WITH
    paragraphs <- LET blocks == Paragraphs(documentXml)
                  IN  [k \in DOMAIN blocks |->
                        [text     |-> ExtractParaText(blocks[k]),
                         equation |-> Find(blocks[k], {"oMath"}, 1) # npos]],
    comments   <- LET deltas == ParseCommentDeltas(commentsXml)
                  IN  [id \in Ids |-> {[author |-> d.author, text |-> d.text] :
                                        d \in {e \in ToSet(deltas) : e.id = id}}]

ImplementsParts == Parts!PartsSpec

-----------------------------------------------------------------------------
(* What the repository says of the edits, and the code does not keep.      *)

\* An edit of a paragraph leaves the text of all others, counted as the editor
\* counts them (OoxmlDocument.cpp:140: "the first </w:p> after paraStart closes
\* this paragraph").
OthersKeepText ==
    [][\A n \in Indices, text \in Texts : EditParagraph(n, text) =>
          LET old == ParagraphTexts(documentXml)
              new == ParagraphTexts(documentXml')
          IN  \A k \in DOMAIN old \ {n + 1} : k \in DOMAIN new /\ new[k] = old[k]]_vars
=============================================================================
