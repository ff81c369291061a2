-------------------------- MODULE IntegrationBridge -------------------------
(***************************************************************************)
(* The bridge between the editor's documents and one co-authoring client:  *)
(* which document the session is for, how local changes reach the client,  *)
(* how remote ones are merged and shown by the sdkjs shim, and what is     *)
(* uploaded when a document is closed. The editor's UI thread runs every   *)
(* operation of the bridge except onRemoteDelta, which runs on the         *)
(* client's poll thread. The two meet JavaScript through message queues.   *)
(* The client itself is taken as always joined, its network as reliable    *)
(* (FsshttpClient has what happens when they are not).                     *)
(***************************************************************************)
EXTENDS MergeEngine, Sequences, SequencesExt, FiniteSets

CONSTANTS
    Docs,           \* documents in the user's OneDrive
    LocalDocs,      \* documents that are not
    Paragraphs,     \* paragraph indices
    Notes,          \* ids of comments
    Structural,     \* may a text be structural: a set of Booleans
    NoDoc,          \* no document
    MaxEdits,       \* bound: local and remote edits made
    MaxOpens        \* bound: times a document is opened

ASSUME BridgeAssumption ==
    /\ IsFiniteSet(Paragraphs) /\ Paragraphs \subseteq Nat /\ IsFiniteSet(Notes)
    /\ Docs \cap LocalDocs = {} /\ NoDoc \notin Docs \cup LocalDocs
    /\ Structural \subseteq BOOLEAN /\ MaxEdits \in Nat /\ MaxOpens \in Nat

VARIABLES
    open,           \* the documents open in the editor
    active,         \* the one the user edits
    editor,         \* what the editor shows of each document
    file,           \* each document's local file
    out,            \* messages on the way from the shim to the bridge
    client,         \* the document of m_client
    loaded,         \* the client's m_document
    know,           \* the client's knowledge: the version of each part it has seen
    localPath,      \* m_localPath: the document, and is the file in the OneDrive folder?
    lastLocal,      \* m_lastLocalDelta
    assigning,      \* a delta the UI thread is about to assign to it
    batch,          \* remote deltas the poll thread has still to hand over
    js,             \* messages on the way from the bridge to the shim
    server,         \* the documents on the server
    clock, opens    \* the last stamp given out, documents opened

sessionVars == <<client, loaded, know, localPath>>
mergeVars   == <<lastLocal, assigning>>
editorVars  == <<open, active, editor, file, opens>>
vars == <<open, active, editor, file, out, client, loaded, know, localPath,
          lastLocal, assigning, batch, js, server, clock, opens>>

AllDocs == Docs \cup LocalDocs
Parts   == {"text", "notes"}
NoPath  == [doc |-> NoDoc, synced |-> FALSE]
Empty   == [text |-> [p \in Paragraphs |-> Blank], notes |-> {}]

\* What the editor shows of a document just opened, with how often each
\* comment is shown, and what it saves.
Opened(doc)  == [doc EXCEPT !.notes = [n \in Notes |-> IF n \in @ THEN 1 ELSE 0]]
Saved(shown) == [shown EXCEPT !.notes = {n \in Notes : @[n] > 0}]
\* The server's document as a file.
Stored(d) == [text |-> server[d].text, notes |-> server[d].notes]
\* A part is put as a whole and becomes its next version.
Newer(ver, part)      == [ver EXCEPT ![part] = @ + 1]
PutText(copy, text)   == [copy EXCEPT !.text = text, !.ver = Newer(@, "text")]
PutNotes(copy, notes) == [copy EXCEPT !.notes = notes, !.ver = Newer(@, "notes")]

Init ==
    /\ open = {} /\ active = NoDoc
    /\ editor = [d \in AllDocs |-> Opened(Empty)]
    /\ file = [d \in AllDocs |-> Empty]
    /\ out = <<>> /\ client = NoDoc /\ loaded = Empty
    /\ know = [p \in Parts |-> 0] /\ localPath = NoPath
    /\ lastLocal = NoDelta /\ assigning = NoDelta
    /\ batch = <<>> /\ js = <<>>
    /\ server = [d \in Docs |-> [text |-> Empty.text, notes |-> {}, ver |-> [p \in Parts |-> 1]]]
    /\ clock = 0 /\ opens = 0

-----------------------------------------------------------------------------
(* Opening and closing documents.                                          *)

\* Only one document is shown: the integration has the bridge talk to one frame.
Show(d, doc) ==
    /\ d \notin open /\ opens < MaxOpens
    /\ open' = open \cup {d} /\ active' = d /\ opens' = opens + 1
    /\ editor' = [editor EXCEPT ![d] = Opened(doc)]

PollStopped_NotJoined == TRUE
\* Replacing m_client exits the old session, which waits for its poll thread.
PollStopped == client # NoDoc => batch = <<>>

LocalPathOf_FirstOnly(d, synced) ==
    IF localPath = NoPath THEN [doc |-> d, synced |-> synced] ELSE localPath
LocalPathOf(d, synced) == [doc |-> d, synced |-> synced]

\* startSession: the join succeeds, or fails and leaves no client.
StartSession(d, doc, synced) ==
    /\ PollStopped
    /\ localPath' = LocalPathOf(d, synced)
    /\ client' \in {d, NoDoc}
    /\ loaded' = doc
    /\ know' = [p \in Parts |-> 0]

\* onDocumentOpened: a path in the OneDrive folder starts a session if the
\* user is signed in; any other leaves the bridge as it is.
OnDocumentOpened(d) ==
    /\ Show(d, file[d])
    /\ \/ d \in Docs /\ StartSession(d, file[d], TRUE)
       \/ UNCHANGED sessionVars
    /\ UNCHANGED <<file, out, mergeVars, batch, js, server, clock>>

\* openFromOneDrive: a file the dialog has just downloaded to a temporary path.
OpenFromOneDrive(d) ==
    /\ d \in Docs
    /\ file' = [file EXCEPT ![d] = Stored(d)]
    /\ Show(d, Stored(d))
    /\ StartSession(d, Stored(d), FALSE) \/ UNCHANGED sessionVars
    /\ UNCHANGED <<out, mergeVars, batch, js, server, clock>>

\* uploadFile replaces the server's document by the local file; it needs a
\* path in the OneDrive folder, and may fail.
Upload(path) ==
    \/ /\ path.synced
       /\ server' = [server EXCEPT ![path.doc] =
                         PutText(PutNotes(@, file[path.doc].notes), file[path.doc].text)]
    \/ UNCHANGED server

\* onDocumentClosed: whichever document it is, the session there is ends.
OnDocumentClosed(d) ==
    /\ d \in open
    /\ open' = open \ {d}
    /\ active' \in IF open' = {} THEN {NoDoc} ELSE open'
    /\ IF client = NoDoc
       THEN UNCHANGED <<sessionVars, server>>
       ELSE /\ batch = <<>>         \* exitSession joins the poll thread
            /\ client' = NoDoc
            /\ Upload(localPath)
            /\ localPath' = NoPath
            /\ UNCHANGED <<loaded, know>>
    /\ UNCHANGED <<editor, file, out, mergeVars, batch, js, clock, opens>>

-----------------------------------------------------------------------------
(* Local changes: the editor, the shim's onLocalChange, onOutgoingChange.  *)

Stamped(s, over) == [stamp |-> clock + 1, structural |-> s, over |-> over]
NextStamp == clock < MaxEdits /\ clock' = clock + 1

UserEdit(p, s) ==
    /\ active # NoDoc /\ NextStamp
    /\ LET c == Stamped(s, editor[active].text[p].stamp)
       IN  /\ editor' = [editor EXCEPT ![active].text[p] = c]
           /\ out' = Append(out, [para |-> p, content |-> c])
    /\ UNCHANGED <<open, active, file, opens, sessionVars, mergeVars, batch, js, server>>

UserComment(n) ==
    /\ active # NoDoc /\ editor[active].notes[n] = 0 /\ NextStamp
    /\ editor' = [editor EXCEPT ![active].notes[n] = 1]
    /\ out' = Append(out, [note |-> n])
    /\ UNCHANGED <<open, active, file, opens, sessionVars, mergeVars, batch, js, server>>

Save ==
    /\ active # NoDoc /\ file[active] # Saved(editor[active])
    /\ file' = [file EXCEPT ![active] = Saved(editor[active])]
    /\ UNCHANGED <<open, active, editor, opens, out, sessionVars, mergeVars, batch, js,
                   server, clock>>

IsNote(message) == "note" \in DOMAIN message

\* onOutgoingChange assigns m_lastLocalDelta, which the poll thread reads
\* without a lock; the assignment is a step with a beginning and an end.
OnOutgoingChange ==
    /\ out # <<>> /\ assigning = NoDelta /\ ~IsNote(Head(out))
    /\ assigning' = Head(out) /\ out' = Tail(out)
    /\ UNCHANGED <<editorVars, sessionVars, lastLocal, batch, js, server, clock>>

\* ... and sends the delta, if there is a client: m_document takes it and
\* the whole part is put.
SendDelta ==
    /\ assigning # NoDelta
    /\ lastLocal' = assigning /\ assigning' = NoDelta
    /\ IF client = NoDoc
       THEN UNCHANGED <<loaded, server>>
       ELSE /\ loaded' = [loaded EXCEPT !.text[assigning.para] = assigning.content]
            /\ server' = [server EXCEPT ![client] = PutText(@, loaded'.text)]
    /\ UNCHANGED <<editorVars, out, client, know, localPath, batch, js, clock>>

\* A comment is sent without being assigned; the part of the comments is put.
OnOutgoingComment ==
    /\ out # <<>> /\ assigning = NoDelta /\ IsNote(Head(out))
    /\ out' = Tail(out)
    /\ IF client = NoDoc
       THEN UNCHANGED <<loaded, server>>
       ELSE /\ loaded' = [loaded EXCEPT !.notes = @ \cup {Head(out).note}]
            /\ server' = [server EXCEPT ![client] = PutNotes(@, loaded'.notes)]
    /\ UNCHANGED <<editorVars, client, know, localPath, mergeVars, batch, js, clock>>

-----------------------------------------------------------------------------
(* Remote changes: the poll thread, onRemoteDelta, applyRemoteChange.      *)

TextDeltas(d) ==
    SetToSeq({[para |-> p, content |-> server[d].text[p]] : p \in Paragraphs})
NoteDeltas(d) == SetToSeq({[note |-> n] : n \in server[d].notes})

HasNews_NotesOnly(d) == server[d].ver["notes"] > know["notes"]
HasNews(d) == know # server[d].ver

\* The answer to GetChanges has every part that changed, as a whole.
PollGetChanges ==
    /\ client # NoDoc /\ batch = <<>> /\ HasNews(client)
    /\ LET New(part, deltas) == IF server[client].ver[part] > know[part] THEN deltas ELSE <<>>
       IN  batch' = New("notes", NoteDeltas(client)) \o New("text", TextDeltas(client))
    /\ know' = server[client].ver
    /\ UNCHANGED <<editorVars, out, client, loaded, localPath, mergeVars, js, server, clock>>

\* While m_lastLocalDelta is assigned the poll thread may read a mixture.
LastLocalRead ==
    IF assigning = NoDelta THEN {lastLocal}
    ELSE {[para |-> a.para, content |-> b.content] : a, b \in {lastLocal, assigning}}

ToShim(d, tracked) == [para |-> d.para, content |-> d.content, tracked |-> tracked]

\* onRemoteDelta: a comment passes as it is, a paragraph through the merge.
OnRemoteDelta ==
    /\ batch # <<>>
    /\ LET d == Head(batch)
       IN  IF IsNote(d)
           THEN js' = Append(js, d)
           ELSE \E local \in LastLocalRead :
                    LET action == Merge(local, d)
                    IN  js' = IF action = "Discard" THEN js
                              ELSE Append(js, ToShim(d, action = "TrackedChange"))
    /\ batch' = Tail(batch)
    /\ UNCHANGED <<editorVars, out, sessionVars, mergeVars, server, clock>>

\* asc_AddComment, with no look at the comments there are.
AddComment(notes, n) == [notes EXCEPT ![n] = @ + 1]

\* applyRemoteChange in the frame the user has before them.
ApplyRemoteChange ==
    /\ js # <<>> /\ js' = Tail(js)
    /\ LET m == Head(js)
       IN  editor' = IF active = NoDoc THEN editor
                     ELSE IF IsNote(m)
                     THEN [editor EXCEPT ![active].notes = AddComment(@, m.note)]
                     ELSE [editor EXCEPT ![active].text[m.para] = m.content]
    /\ UNCHANGED <<open, active, file, opens, out, sessionVars, mergeVars, batch, server, clock>>

-----------------------------------------------------------------------------
(* The co-authors (external).                                              *)

RemoteEdit(d, p, s) ==
    /\ NextStamp
    /\ LET c == Stamped(s, server[d].text[p].stamp)
       IN  server' = [server EXCEPT ![d] = PutText(@, [server[d].text EXCEPT ![p] = c])]
    /\ UNCHANGED <<editorVars, out, sessionVars, mergeVars, batch, js>>

RemoteComment(d, n) ==
    /\ NextStamp /\ n \notin server[d].notes
    /\ server' = [server EXCEPT ![d] = PutNotes(@, @.notes \cup {n})]
    /\ UNCHANGED <<editorVars, out, sessionVars, mergeVars, batch, js>>

Deliver == PollGetChanges \/ OnRemoteDelta \/ ApplyRemoteChange

Next ==
    \/ \E d \in AllDocs : OnDocumentOpened(d) \/ OpenFromOneDrive(d) \/ OnDocumentClosed(d)
    \/ \E p \in Paragraphs, s \in Structural : UserEdit(p, s)
    \/ \E n \in Notes : UserComment(n)
    \/ Save \/ OnOutgoingChange \/ SendDelta \/ OnOutgoingComment \/ Deliver
    \/ \E d \in Docs, p \in Paragraphs, s \in Structural : RemoteEdit(d, p, s)
    \/ \E d \in Docs, n \in Notes : RemoteComment(d, n)

Spec == Init /\ [][Next]_vars

\* The poll thread, the event loop of the UI thread and that of the frame run on.
FairSpec ==
    /\ Spec
    /\ WF_vars(PollGetChanges) /\ WF_vars(OnRemoteDelta) /\ WF_vars(ApplyRemoteChange)
    /\ WF_vars(OnOutgoingChange) /\ WF_vars(SendDelta) /\ WF_vars(OnOutgoingComment)

-----------------------------------------------------------------------------
(* Properties.                                                             *)

Stamps   == 0 .. MaxEdits
Contents == [stamp : Stamps, structural : BOOLEAN, over : Stamps]
Texts    == [Paragraphs -> Contents]
Files    == [text : Texts, notes : SUBSET Notes]
Deltas   == [para : Paragraphs, content : Contents]
NoteMsgs == [note : Notes]
ShimMsgs == [para : Paragraphs, content : Contents, tracked : BOOLEAN] \cup NoteMsgs

\* Every variable has its type, and the poll thread has deltas to hand over
\* only while there is a client: each way a session ends waits for it first.
TypeOK ==
    /\ open \subseteq AllDocs /\ active \in open \cup {NoDoc}
    /\ editor \in [AllDocs -> [text : Texts, notes : [Notes -> Nat]]]
    /\ file \in [AllDocs -> Files]
    /\ out \in Seq(Deltas \cup NoteMsgs)
    /\ client \in Docs \cup {NoDoc} /\ loaded \in Files /\ know \in [Parts -> Nat]
    /\ localPath \in [doc : Docs \cup {NoDoc}, synced : BOOLEAN]
    /\ lastLocal \in Deltas \cup {NoDelta} /\ assigning \in Deltas \cup {NoDelta}
    /\ batch \in Seq(Deltas \cup NoteMsgs) /\ js \in Seq(ShimMsgs)
    /\ batch # <<>> => client # NoDoc
    /\ server \in [Docs -> [text : Texts, notes : SUBSET Notes, ver : [Parts -> Nat]]]
    /\ clock \in Stamps /\ opens \in 0 .. MaxOpens

\* The final upload writes the file of the session's own document, whichever
\* documents were opened, refused or replaced before, and no other document.
UploadsOwnFile ==
    [][client # NoDoc /\ client' = NoDoc =>
           \A d \in Docs : server'[d] # server[d] =>
                             d = client /\ Stored(d)' = file[d]]_vars

\* When everything on the way has arrived, the editor shows what the server
\* has: the remote text wins in the merge (test_merge.cpp SameParagraphRemoteWins),
\* a local text that came later reaches the server and comes back, and comments
\* arrive with the text, or without it.
Quiet ==
    /\ client # NoDoc /\ active = client
    /\ out = <<>> /\ assigning = NoDelta /\ batch = <<>> /\ js = <<>>
    /\ know = server[client].ver
Shown ==
    /\ editor[client].text = server[client].text
    /\ \A n \in server[client].notes : editor[client].notes[n] > 0
InSync == Quiet => Shown

\* ... and everything does arrive.
EditsMeet ==
    <>[](client = NoDoc \/ active # client \/ Shown)
=============================================================================
