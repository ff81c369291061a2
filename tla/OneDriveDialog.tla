--------------------------- MODULE OneDriveDialog ---------------------------
(***************************************************************************)
(* The dialog in which the user opens a document from OneDrive: a tree     *)
(* that lists a folder when it is first expanded, and a download into a    *)
(* temporary directory. Everything runs on the UI thread; requests fail,   *)
(* are cut off or refused, the disk is full. One dialog follows another,   *)
(* the directory stays.                                                    *)
(***************************************************************************)
EXTENDS GraphApiClient

CONSTANTS
    None,           \* no node, no address
    Placeholder,    \* the child of a folder that was never expanded
    Partial,        \* of a file: what came, or was written, before a failure
    ErrorPage,      \*     what a server says that refuses the download
    MaxDialogs,     \* bounds on the number of dialogs
    MaxFaults       \*     and of failing requests and writes

FileNames == {item.name : item \in UNION {ToSet(Drive[f]) : f \in DOMAIN Drive}}
Items     == [name : FileNames, folder : BOOLEAN]

\* Folders lie in folders from the root on, and are folders of the drive.
ASSUME DriveAssumption ==
    /\ <<>> \in DOMAIN Drive
    /\ \A path \in DOMAIN Drive :
          /\ path \in Seq(FileNames) /\ Drive[path] \in Seq(Items)
          /\ \A i \in DOMAIN Drive[path] :
                Drive[path][i].folder => Append(path, Drive[path][i].name) \in DOMAIN Drive
    /\ Placeholder \notin [name : FileNames, folder : BOOLEAN, enabled : BOOLEAN]
    /\ None \notin Seq(FileNames) /\ PageSize \in Nat /\ MaxDialogs \in Nat /\ MaxFaults \in Nat

VARIABLES
    tree,               \* for each folder shown, the nodes under it
    selected,           \* path of the selected node
    openEnabled,        \* the Open button
    phase,              \* "browsing", "accepted" or "rejected"
    selectedLocalPath, selectedWebUrl,
    files,              \* the temporary directory
    unwritten,          \* whether the last download's writes failed
    dialogs, faults     \* numbers of dialogs and of faults so far

dialogVars == <<tree, selected, openEnabled, phase, selectedLocalPath, selectedWebUrl>>
vars == <<dialogVars, files, unwritten, dialogs, faults>>

-----------------------------------------------------------------------------
(* The tree.                                                               *)

IsDocx(name) == name # <<>> /\ Last(name) = ".docx"

Node_AllEnabled(item) == [name |-> item.name, folder |-> item.folder, enabled |-> TRUE]
Node(item) ==
    [name |-> item.name, folder |-> item.folder, enabled |-> item.folder \/ IsDocx(item.name)]

\* The items of an answer become the last children of their folder, each
\* folder among them with a placeholder.
PopulateFolder(nodes, path, answer) ==
    LET items   == ListFolder(answer)
        folders == {Append(path, items[i].name) : i \in {j \in DOMAIN items : items[j].folder}}
        added   == [i \in DOMAIN items |-> Node(items[i])]
    IN  [f \in DOMAIN nodes \cup folders |->
            IF f = path THEN nodes[path] \o added
            ELSE IF f \in folders THEN <<Placeholder>> ELSE nodes[f]]

\* An answer of the service for a folder.
Fault  == faults < MaxFaults /\ faults' = faults + 1
Get(path, answer) ==
    \/ answer = Response(path) /\ UNCHANGED faults
    \/ answer \in Answers(path) /\ Fault

EmptyTree == [folder \in {<<>>} |-> <<>>]

\* The constructor. The status line is left out: it says nothing else depends on.
Construct ==
    /\ selected' = None /\ openEnabled' = FALSE /\ phase' = "browsing"
    /\ selectedLocalPath' = None /\ selectedWebUrl' = None
    /\ dialogs' = dialogs + 1
    /\ \E answer \in Answers(<<>>) \cup {Response(<<>>)} :
          Get(<<>>, answer) /\ tree' = PopulateFolder(EmptyTree, <<>>, answer)
    /\ UNCHANGED <<files, unwritten>>

\* The placeholder gives way to the items. A folder without children cannot
\* be expanded again.
NeverExpanded_Always(folder) == TRUE
NeverExpanded(folder) == tree[folder] = <<Placeholder>>
OnItemExpanded(folder) ==
    /\ phase = "browsing" /\ folder # <<>> /\ tree[folder] # <<>>
    /\ IF NeverExpanded(folder)
       THEN \E answer \in Answers(folder) \cup {Response(folder)} :
               /\ Get(folder, answer)
               /\ tree' = PopulateFolder([tree EXCEPT ![folder] = Tail(@)], folder, answer)
       ELSE UNCHANGED <<tree, faults>>
    /\ UNCHANGED <<selected, openEnabled, phase, selectedLocalPath, selectedWebUrl>>
    /\ UNCHANGED <<files, unwritten, dialogs>>

\* Only an enabled node can be selected.
Select(folder, i) ==
    LET node == tree[folder][i]
    IN  /\ phase = "browsing" /\ node # Placeholder /\ node.enabled
        /\ selected' = Append(folder, node.name)
        /\ openEnabled' = ~node.folder
        /\ UNCHANGED <<tree, phase, selectedLocalPath, selectedWebUrl, files, unwritten>>
        /\ UNCHANGED <<dialogs, faults>>

-----------------------------------------------------------------------------
(* Open.                                                                   *)

TempPath(webUrl) == Last(webUrl)

\* downloadToTemp: what it returns, what it leaves of the file, and whether writing
\* failed. A refusal of the server is a success to it, and so is a full disk: the
\* callback says all was written, and nobody asks the stream.
Outcome(ok, content, unwrittenPart) ==
    [ok |-> ok, content |-> content, unwritten |-> unwrittenPart]
Outcomes(webUrl) ==
    {Outcome(TRUE, webUrl, FALSE), Outcome(TRUE, ErrorPage, FALSE), Outcome(TRUE, Partial, TRUE),
     Outcome(FALSE, Partial, FALSE), Outcome(FALSE, files[TempPath(webUrl)], FALSE)}
DownloadToTemp(webUrl, outcome) ==
    /\ outcome \in Outcomes(webUrl)
    /\ IF outcome = Outcome(TRUE, webUrl, FALSE) THEN UNCHANGED faults ELSE Fault
    /\ files' = [files EXCEPT ![TempPath(webUrl)] = outcome.content]
    /\ unwritten' = outcome.unwritten
    /\ selectedLocalPath' = TempPath(webUrl)

\* The Open button or a double click. The address is taken over only after the
\* download.
Downloaded_Unchecked(outcome) == TRUE
Downloaded(outcome) == outcome.ok
OnOpenClicked ==
    /\ phase = "browsing" /\ selected # None /\ openEnabled
    /\ \E outcome \in Outcomes(selected) :
          /\ DownloadToTemp(selected, outcome)
          /\ IF Downloaded(outcome) THEN selectedWebUrl' = selected /\ phase' = "accepted"
                                    ELSE UNCHANGED <<selectedWebUrl, phase>>
    /\ UNCHANGED <<tree, selected, openEnabled, dialogs>>

Cancel ==
    /\ phase = "browsing" /\ phase' = "rejected"
    /\ UNCHANGED <<tree, selected, openEnabled, selectedLocalPath, selectedWebUrl>>
    /\ UNCHANGED <<files, unwritten, dialogs, faults>>

\* The toolbar's action opens the dialog again.
NextDialog == phase # "browsing" /\ dialogs < MaxDialogs /\ Construct

Init ==
    /\ tree = EmptyTree /\ selected = None /\ openEnabled = FALSE /\ phase = "rejected"
    /\ selectedLocalPath = None /\ selectedWebUrl = None
    /\ files = [name \in FileNames |-> None] /\ unwritten = FALSE /\ dialogs = 0 /\ faults = 0

Next ==
    \/ NextDialog \/ Cancel \/ OnOpenClicked
    \/ \E folder \in DOMAIN tree : OnItemExpanded(folder)
    \/ \E folder \in DOMAIN tree : \E i \in DOMAIN tree[folder] : Select(folder, i)

Spec == Init /\ [][Next]_vars

-----------------------------------------------------------------------------
(* Properties.                                                             *)

\* What the scan of listFolder makes of the service's answers for a folder, whole
\* or cut off anywhere: first items of the folder, as they are, at most a page.
ReadsPage(path) ==
    \A answer \in Answers(path) \cup {Response(path)} :
        LET items == ListFolder(answer)
        IN  /\ items \in Seq(Items)
            /\ Len(items) <= PageSize /\ IsPrefix(items, Drive[path])

\* The names the scan can tell from the text around them: without a quote or a
\* key of their own, the braces in pairs, the one that opens first.
Count(cs, c, k) == Cardinality({i \in 1 .. k : cs[i] = c})
Balanced(name) ==
    /\ \A k \in 1 .. Len(name) : Count(name, "}", k) <= Count(name, "{", k)
    /\ Count(name, "}", Len(name)) = Count(name, "{", Len(name))
Fits(name) == name \in Seq(ToSet(name) \ {"quote", "folder:"}) /\ Balanced(name)
NamesFit == \A name \in FileNames : Fits(name)

\* No answer for a folder that the tree shows is misread, wherever the timeout cuts
\* it off and whatever brackets are in its names, as long as braces balance.
ShownPagesRead == \A folder \in DOMAIN tree : ReadsPage(folder)

\* Whatever was expanded, answered, cut off and expanded again, each folder
\* shows its placeholder or the first items of its page, whole, once and in
\* order, and below it are only the folders it shows.
TreeShowsDrive ==
    \A folder \in DOMAIN tree :
        /\ folder \in DOMAIN Drive
        /\ \/ folder # <<>> /\ tree[folder] = <<Placeholder>>
           \/ /\ Len(tree[folder]) <= PageSize
              /\ IsPrefix(tree[folder], [i \in DOMAIN Drive[folder] |-> Node(Drive[folder][i])])
        /\ folder # <<>> =>
              \E i \in DOMAIN tree[Front(folder)] :
                  tree[Front(folder)][i] = [name |-> Last(folder), folder |-> TRUE, enabled |-> TRUE]

\* An accepted dialog names a .docx, the one the user selected, and its local
\* path holds that document and nothing of an earlier or failed download; or what
\* the server said in place of the document, if it refused it, or as much as went
\* onto a full disk.
AcceptedIsChosen ==
    phase = "accepted" =>
        /\ selectedWebUrl = selected /\ IsDocx(Last(selected))
        /\ \E item \in ToSet(Drive[Front(selected)]) : item.name = Last(selected) /\ ~item.folder
        /\ files[selectedLocalPath] \in
               {selectedWebUrl, ErrorPage} \cup IF unwritten THEN {Partial} ELSE {}
=============================================================================
