---------------------------- MODULE PackageParts ----------------------------
(***************************************************************************)
(* What the copy of a .docx package promises: a list of paragraphs and a   *)
(* comment for each id, where an edit changes the paragraph or the comment *)
(* it names and no other, and no paragraph that holds an equation.         *)
(***************************************************************************)
EXTENDS Naturals, Sequences

CONSTANTS Indices, Texts, Ids, Authors

VARIABLES
    paragraphs,     \* sequence of [text, equation], in the document's order
    comments,       \* for each id the comments that bear it: [author, text]
    asked           \* the last change that was asked for

partsVars == <<paragraphs, comments, asked>>

PartsInit ==
    \A id \in Ids : \A c, d \in comments[id] : c = d

Paragraph(text) == [text |-> text, equation |-> FALSE]

\* Indices count from 0; one beyond the end adds a paragraph.
Add(text) == paragraphs' = Append(paragraphs, Paragraph(text))
Replace(i, text) ==
    /\ ~paragraphs[i + 1].equation
    /\ paragraphs' = [paragraphs EXCEPT ![i + 1] = Paragraph(text)]

Edit ==
    /\ UNCHANGED comments
    /\ \E i \in Indices, text \in Texts :
            /\ asked' = <<"paragraph", i, text>>
            /\ \/ i >= Len(paragraphs) /\ Add(text)
               \/ i < Len(paragraphs) /\ Replace(i, text)
               \/ /\ i < Len(paragraphs) /\ paragraphs[i + 1].equation
                  /\ UNCHANGED paragraphs

Comment ==
    /\ UNCHANGED paragraphs
    /\ \E id \in Ids, author \in Authors, text \in Texts :
            /\ asked' = <<"comment", id, author, text>>
            /\ comments' = [comments EXCEPT ![id] = {[author |-> author, text |-> text]}]

PartsNext == Edit \/ Comment

PartsSpec == PartsInit /\ [][PartsNext]_partsVars
=============================================================================
