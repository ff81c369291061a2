----------------------------- MODULE MergeEngine ----------------------------
(***************************************************************************)
(* MergeEngine::merge, a pure function of the last local delta and a       *)
(* remote one. A content is a stamp (larger is newer), whether its text    *)
(* begins with STRUCTURAL_, and the stamp of the text its author saw.      *)
(***************************************************************************)
EXTENDS Integers

Blank   == [stamp |-> 0, structural |-> FALSE, over |-> 0]
NoDelta == [para |-> -1, content |-> Blank]     \* a default Delta

IsStructural(content) == content.structural

Conflict(local, remote) ==
    /\ local.para = remote.para
    /\ IsStructural(local.content) /\ IsStructural(remote.content)

Merge_LocalWins(local, remote) ==
    IF Conflict(local, remote) THEN "TrackedChange"
    ELSE IF local.para = remote.para THEN "Discard" ELSE "Apply"

\* The remote text is applied in every case; only how differs.
Merge(local, remote) ==
    IF Conflict(local, remote) THEN "TrackedChange" ELSE "Apply"
=============================================================================
