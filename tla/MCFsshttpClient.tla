-------------------------- MODULE MCFsshttpClient ---------------------------
(***************************************************************************)
(* The instances of FsshttpClient that TLC checks: two paragraphs and at   *)
(* most one comment.                                                       *)
(***************************************************************************)
EXTENDS FsshttpClient

CONSTANT note       \* a comment id

MCParagraphs == {0, 1}
OneParagraph == {0}
MCComments   == {note}
NoComments   == {}
=============================================================================
