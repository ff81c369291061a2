-------------------------- MODULE MCOneDriveDialog --------------------------
(***************************************************************************)
(* A small drive: documents of one name in two folders, a file that is no  *)
(* document, names with brackets in them, a folder in a folder, an empty   *)
(* one, and one that has more items than a page.                           *)
(***************************************************************************)
EXTENDS OneDriveDialog

File(name)   == [name |-> name, folder |-> FALSE]
Folder(name) == [name |-> name, folder |-> TRUE]

Docx  == <<"d", ".docx">>
Odd   == <<"{", "]", "}", ".docx">>
Work  == <<"w">>
Old   == <<"o", "{", "}">>

SmallDrive ==
    (<<>> :> <<Folder(Work), File(Docx), File(<<"t">>)>>) @@
    (<<Work>> :> <<File(Odd), Folder(Old), File(Docx), File(<<"x", ".docx">>)>>) @@
    (<<Work, Old>> :> <<>>)

\* What the theorems about the dialog ask of the names.
ASSUME SmallDriveFits == NamesFit
=============================================================================
