---------------------------- MODULE BridgeProofs ----------------------------
(***************************************************************************)
(* The bridge, proved for any documents, paragraphs, comments and bounds:  *)
(* its types, that closing a document uploads the file of the session's    *)
(* own document, and that the editor shows what the server has once        *)
(* nothing is on the way.                                                  *)
(***************************************************************************)
EXTENDS IntegrationBridge, FiniteSetTheorems, TLAPS

-----------------------------------------------------------------------------
(* Messages and the sequences made of sets.                                *)

LEMMA MessageKinds ==
    /\ \A m \in Deltas : ~IsNote(m)
    /\ \A m \in NoteMsgs : IsNote(m)
    /\ \A m \in [para : Paragraphs, content : Contents, tracked : BOOLEAN] : ~IsNote(m)
BY DEF Deltas, NoteMsgs, IsNote

LEMMA SetAsSequence ==
    ASSUME NEW S, IsFiniteSet(S)
    PROVE  /\ SetToSeq(S) \in Seq(S)
           /\ \A x \in S : \E i \in 1 .. Len(SetToSeq(S)) : SetToSeq(S)[i] = x
<1> DEFINE n == Cardinality(S)
           q == SetToSeq(S)
<1>1. n \in Nat /\ ExistsBijection(1 .. n, S)
    BY FS_CardinalityType
<1>2. \E f \in [1 .. n -> S] : IsInjective(f)
    BY <1>1 DEF ExistsBijection, Bijection, Injection, Surjection
<1>3. q \in [1 .. n -> S] /\ IsInjective(q)
    BY <1>2 DEF SetToSeq
<1>4. q \in Injection(1 .. n, S)
    BY <1>3 DEF Injection
<1>5. IsFiniteSet(1 .. n) /\ Cardinality(1 .. n) = n
    BY <1>1, FS_Interval
<1>6. q \in Surjection(1 .. n, S)
    BY <1>4, <1>5, FS_Injection
<1> HIDE DEF n, q
<1>7. q \in Seq(S) /\ Len(q) = n
    BY <1>1, <1>3
<1>8. \A x \in S : \E i \in 1 .. n : q[i] = x
    BY <1>6 DEF Surjection
<1> QED
    BY <1>7, <1>8 DEF q

-----------------------------------------------------------------------------
(* The inductive invariant.                                                *)

About(m, p) == ~IsNote(m) /\ m.para = p

\* Is a text of paragraph p in the queue q; are all of them c; is the last c?
SomeAbout(q, p)    == \E i \in 1 .. Len(q) : About(q[i], p)
AllAbout(q, p, c)  == \A i \in 1 .. Len(q) : About(q[i], p) => q[i].content = c
LastAbout(q, p, c) ==
    \E i \in 1 .. Len(q) :
        /\ About(q[i], p) /\ q[i].content = c
        /\ \A j \in 1 .. Len(q) : j > i => ~About(q[j], p)
HasNote(q, n) == \E i \in 1 .. Len(q) : IsNote(q[i]) /\ q[i].note = n
NoText(q)     == \A i \in 1 .. Len(q) : IsNote(q[i])

\* The session is that of an open document and of the file to be uploaded, and
\* knows no version of it that the server has not reached.
SessionPlace ==
    /\ client # NoDoc => client \in open /\ localPath.doc = client
    /\ \A d \in Docs, part \in Parts : server[d].ver[part] >= 1
    /\ client # NoDoc => \A part \in Parts : know[part] <= server[client].ver[part]

\* What the editor will show of paragraph p, and of comment n, once everything
\* on the way has arrived.
TextOnTheWay(p) ==
    LET c == server[client].text[p]
    IN  /\ AllAbout(batch, p, c)
        /\ \/ SomeAbout(batch, p)
           \/ LastAbout(js, p, c)
           \/ ~SomeAbout(js, p) /\ editor[client].text[p] = c
NoteOnTheWay(n) == HasNote(batch, n) \/ HasNote(js, n) \/ editor[client].notes[n] > 0

\* A part of the active document the client has seen to the last version, and to
\* which no local change is under way, will be shown as the server has it.
TextKnown ==
    /\ client # NoDoc /\ active = client /\ know["text"] = server[client].ver["text"]
    /\ assigning = NoDelta /\ NoText(out)
NotesKnown ==
    client # NoDoc /\ active = client /\ know["notes"] = server[client].ver["notes"]

Arriving ==
    /\ TextKnown => \A p \in Paragraphs : TextOnTheWay(p)
    /\ NotesKnown => \A n \in server[client].notes : NoteOnTheWay(n)

IInv == TypeOK /\ SessionPlace /\ Arriving

-----------------------------------------------------------------------------
(* The types.                                                              *)

USE DEF sessionVars, mergeVars, editorVars

Doc  == [text : Texts, notes : [Notes -> Nat]]
Copy == [text : Texts, notes : SUBSET Notes, ver : [Parts -> Nat]]

LEMMA Constructors ==
    /\ Blank \in Contents /\ Empty \in Files
    /\ \A f \in Files : Opened(f) \in Doc
    /\ \A f \in Doc : Saved(f) \in Files
    /\ NoPath \in [doc : Docs \cup {NoDoc}, synced : BOOLEAN]
    /\ NoDelta \notin Deltas /\ NoDoc \notin AllDocs
    /\ MaxEdits \in Nat /\ MaxOpens \in Nat
    /\ "text" \in Parts /\ "notes" \in Parts
<1> USE BridgeAssumption
<1>1. Blank \in Contents
    BY DEF Blank, Contents, Stamps
<1>2. Empty \in Files
    BY <1>1 DEF Empty, Files, Texts
<1>3. ASSUME NEW f \in Files PROVE Opened(f) \in Doc
    BY DEF Opened, Files, Doc
<1>4. ASSUME NEW f \in Doc PROVE Saved(f) \in Files
    BY DEF Saved, Files, Doc
<1>5. NoPath \in [doc : Docs \cup {NoDoc}, synced : BOOLEAN]
    BY DEF NoPath
<1>6. NoDelta \notin Deltas
    BY DEF NoDelta, Deltas
<1>7. NoDoc \notin AllDocs /\ MaxEdits \in Nat /\ MaxOpens \in Nat
    BY DEF AllDocs
<1>8. "text" \in Parts /\ "notes" \in Parts
    BY DEF Parts
<1> QED
    BY <1>1, <1>2, <1>3, <1>4, <1>5, <1>6, <1>7, <1>8

LEMMA InitTyped == Init => TypeOK
<1> SUFFICES ASSUME Init PROVE TypeOK
    OBVIOUS
<1>1. editor \in [AllDocs -> Doc] /\ file \in [AllDocs -> Files]
    BY Constructors DEF Init
<1>2. server \in [Docs -> Copy]
  <2>1. Empty.text \in Texts
      BY Constructors DEF Files
  <2> QED
      BY <2>1 DEF Init, Copy
<1>3. loaded \in Files /\ localPath \in [doc : Docs \cup {NoDoc}, synced : BOOLEAN]
    BY Constructors DEF Init
<1>4. clock \in Stamps /\ opens \in 0 .. MaxOpens /\ know \in [Parts -> Nat]
    BY Constructors DEF Init, Stamps
<1> QED
    BY <1>1, <1>2, <1>3, <1>4 DEF Init, TypeOK, Doc, Copy

\* A copy on the server with one of its parts replaced.
LEMMA Puts ==
    ASSUME NEW c \in Copy
    PROVE  /\ \A t \in Texts :
                 /\ PutText(c, t) \in Copy /\ PutText(c, t).text = t
                 /\ PutText(c, t).notes = c.notes
                 /\ PutText(c, t).ver["text"] = c.ver["text"] + 1
                 /\ PutText(c, t).ver["notes"] = c.ver["notes"]
           /\ \A m \in SUBSET Notes :
                 /\ PutNotes(c, m) \in Copy /\ PutNotes(c, m).notes = m
                 /\ PutNotes(c, m).text = c.text
                 /\ PutNotes(c, m).ver["text"] = c.ver["text"]
                 /\ PutNotes(c, m).ver["notes"] = c.ver["notes"] + 1
<1>1. c.ver \in [Parts -> Nat]
    BY DEF Copy
<1>2. /\ Newer(c.ver, "text") \in [Parts -> Nat] /\ Newer(c.ver, "notes") \in [Parts -> Nat]
      /\ Newer(c.ver, "text")["text"] = c.ver["text"] + 1
      /\ Newer(c.ver, "text")["notes"] = c.ver["notes"]
      /\ Newer(c.ver, "notes")["text"] = c.ver["text"]
      /\ Newer(c.ver, "notes")["notes"] = c.ver["notes"] + 1
    BY <1>1 DEF Newer, Parts
<1>3. ASSUME NEW t \in Texts
      PROVE  /\ PutText(c, t) \in Copy /\ PutText(c, t).text = t
             /\ PutText(c, t).notes = c.notes
             /\ PutText(c, t).ver = Newer(c.ver, "text")
    BY <1>2 DEF PutText, Copy
<1>4. ASSUME NEW m \in SUBSET Notes
      PROVE  /\ PutNotes(c, m) \in Copy /\ PutNotes(c, m).notes = m
             /\ PutNotes(c, m).text = c.text
             /\ PutNotes(c, m).ver = Newer(c.ver, "notes")
    BY <1>2 DEF PutNotes, Copy
<1> QED
    BY <1>2, <1>3, <1>4

\* The deltas of a document: every paragraph's text as it is, and every comment.
LEMMA DeltasOf ==
    ASSUME TypeOK, NEW d \in Docs
    PROVE  /\ TextDeltas(d) \in Seq(Deltas)
           /\ \A p \in Paragraphs : /\ SomeAbout(TextDeltas(d), p)
                                    /\ AllAbout(TextDeltas(d), p, server[d].text[p])
           /\ NoteDeltas(d) \in Seq(NoteMsgs)
           /\ \A n \in server[d].notes : HasNote(NoteDeltas(d), n)
<1>1. server[d].text \in Texts /\ server[d].notes \subseteq Notes
    BY DEF TypeOK
<1> DEFINE c(p) == [para |-> p, content |-> server[d].text[p]]
           S == {c(p) : p \in Paragraphs}
           m(n) == [note |-> n]
           M == {m(n) : n \in server[d].notes}
<1>2. IsFiniteSet(S)
  <2>1. [p \in Paragraphs |-> c(p)] \in Surjection(Paragraphs, S)
      BY DEF Surjection
  <2> QED
      BY <2>1, FS_Surjection, BridgeAssumption
<1>3. IsFiniteSet(M)
  <2>1. IsFiniteSet(server[d].notes)
      BY <1>1, FS_Subset, BridgeAssumption
  <2>2. [n \in server[d].notes |-> m(n)] \in Surjection(server[d].notes, M)
      BY DEF Surjection
  <2> QED
      BY <2>1, <2>2, FS_Surjection
<1>4. S \subseteq Deltas /\ M \subseteq NoteMsgs
    BY <1>1 DEF Deltas, Texts, NoteMsgs
<1> DEFINE q == TextDeltas(d)
           r == NoteDeltas(d)
<1>5. /\ q \in Seq(S) /\ \A x \in S : \E i \in 1 .. Len(q) : q[i] = x
      /\ r \in Seq(M) /\ \A x \in M : \E i \in 1 .. Len(r) : r[i] = x
    BY <1>2, <1>3, SetAsSequence DEF TextDeltas, NoteDeltas
<1>6. \A x \in S : ~IsNote(x) /\ x.para \in Paragraphs /\ x.content = server[d].text[x.para]
    BY <1>4, MessageKinds
<1>7. \A x \in M : IsNote(x)
    BY <1>4, MessageKinds
<1> HIDE DEF q, r
<1>8. q \in Seq(Deltas) /\ r \in Seq(NoteMsgs)
    BY <1>4, <1>5
<1>9. ASSUME NEW p \in Paragraphs
      PROVE  SomeAbout(q, p) /\ AllAbout(q, p, server[d].text[p])
  <2>1. PICK i \in 1 .. Len(q) : q[i] = c(p)
      BY <1>5
  <2>2. About(q[i], p)
      BY <1>6, <2>1 DEF About
  <2>3. \A j \in 1 .. Len(q) : q[j] \in S
      BY <1>5
  <2> QED
      BY <1>6, <2>2, <2>3 DEF SomeAbout, AllAbout, About
<1>10. ASSUME NEW n \in server[d].notes PROVE HasNote(r, n)
  <2>1. PICK i \in 1 .. Len(r) : r[i] = m(n)
      BY <1>5
  <2> QED
      BY <1>7, <2>1 DEF HasNote
<1> QED
    BY <1>8, <1>9, <1>10 DEF q, r

\* What the editor shows, and what the client holds, with a text or a comment
\* written into it.
LEMMA EditorWrites ==
    ASSUME NEW e \in [AllDocs -> Doc], NEW d \in AllDocs
    PROVE  /\ \A p \in Paragraphs, c \in Contents :
                 [e EXCEPT ![d].text[p] = c] \in [AllDocs -> Doc]
           /\ \A n \in Notes, k \in Nat :
                 [e EXCEPT ![d].notes[n] = k] \in [AllDocs -> Doc]
           /\ \A n \in Notes :
                 [e EXCEPT ![d].notes = AddComment(@, n)] \in [AllDocs -> Doc]
<1>1. e[d] \in Doc /\ e[d].notes \in [Notes -> Nat] /\ e[d].text \in [Paragraphs -> Contents]
    BY DEF Doc, Texts
<1>2. ASSUME NEW p \in Paragraphs, NEW c \in Contents
      PROVE  [e EXCEPT ![d].text[p] = c] \in [AllDocs -> Doc]
    BY <1>1 DEF Doc, Texts
<1>3. ASSUME NEW n \in Notes, NEW k \in Nat
      PROVE  [e EXCEPT ![d].notes[n] = k] \in [AllDocs -> Doc]
    BY <1>1 DEF Doc
<1>4. ASSUME NEW n \in Notes
      PROVE  [e EXCEPT ![d].notes = AddComment(@, n)] \in [AllDocs -> Doc]
  <2>1. AddComment(e[d].notes, n) \in [Notes -> Nat]
      BY <1>1 DEF AddComment
  <2> QED
      BY <1>1, <2>1 DEF Doc
<1> QED
    BY <1>2, <1>3, <1>4

LEMMA FileWrites ==
    ASSUME NEW f \in Files
    PROVE  /\ \A p \in Paragraphs, c \in Contents : [f EXCEPT !.text[p] = c] \in Files
           /\ \A n \in Notes : [f EXCEPT !.notes = @ \cup {n}] \in Files
    BY DEF Files, Texts

\* Messages on their way from the shim, to it and to the callback.
LEMMA Messages ==
    ASSUME NEW T, NEW q \in Seq(T), q # <<>>
    PROVE  Head(q) \in T /\ Tail(q) \in Seq(T)
    OBVIOUS

LEMMA Queued ==
    ASSUME NEW T, NEW q \in Seq(T), NEW m \in T
    PROVE  Append(q, m) \in Seq(T)
    OBVIOUS

LEMMA MessageParts ==
    /\ \A m \in Deltas \cup NoteMsgs :
          /\ IsNote(m) => m \in NoteMsgs /\ m.note \in Notes
          /\ ~IsNote(m) => m \in Deltas /\ m.para \in Paragraphs /\ m.content \in Contents
    /\ \A m \in ShimMsgs :
          /\ IsNote(m) => m.note \in Notes
          /\ ~IsNote(m) => m.para \in Paragraphs /\ m.content \in Contents
    BY MessageKinds DEF Deltas, NoteMsgs, ShimMsgs

\* The functions of the state as the lemmas above take them.
LEMMA TypedFunctions ==
    ASSUME TypeOK
    PROVE  /\ editor \in [AllDocs -> Doc] /\ file \in [AllDocs -> Files]
           /\ server \in [Docs -> Copy]
           /\ active # NoDoc => active \in AllDocs
           /\ client # NoDoc => client \in Docs
           /\ \A d \in Docs : d \in AllDocs /\ Stored(d) \in Files
<1>1. Docs \subseteq AllDocs
    BY DEF AllDocs
<1> QED
    BY <1>1 DEF TypeOK, Doc, Copy, Stored, Files

\* Opening a document: a session starts only with nothing left to hand over.
LEMMA OpenTyped ==
    ASSUME TypeOK, NEW d \in AllDocs
    PROVE  OnDocumentOpened(d) \/ OpenFromOneDrive(d) => TypeOK'
<1> USE TypedFunctions
<1>1. \A synced \in BOOLEAN, f \in Files :
          d \in Docs /\ StartSession(d, f, synced) =>
              /\ client' \in Docs \cup {NoDoc} /\ loaded' \in Files /\ know' \in [Parts -> Nat]
              /\ localPath' \in [doc : Docs \cup {NoDoc}, synced : BOOLEAN] /\ batch = <<>>
    BY DEF StartSession, LocalPathOf, PollStopped, TypeOK
<1>2. \A f \in Files :
          Show(d, f) => /\ open' \subseteq AllDocs /\ active' \in open' \cup {NoDoc}
                        /\ opens' \in 0 .. MaxOpens /\ editor' \in [AllDocs -> Doc]
    BY Constructors DEF Show, TypeOK
<1>3. ASSUME OnDocumentOpened(d) PROVE TypeOK'
  <2>1. file[d] \in Files /\ Show(d, file[d])
      BY <1>3 DEF OnDocumentOpened
  <2>2. /\ client' \in Docs \cup {NoDoc} /\ loaded' \in Files /\ know' \in [Parts -> Nat]
        /\ localPath' \in [doc : Docs \cup {NoDoc}, synced : BOOLEAN]
        /\ batch = <<>> \/ client' # NoDoc
      BY <1>1, <1>3, <2>1 DEF OnDocumentOpened, TypeOK
  <2> QED
      BY <1>2, <1>3, <2>1, <2>2 DEF OnDocumentOpened, TypeOK, Doc
<1>4. ASSUME OpenFromOneDrive(d) PROVE TypeOK'
  <2>1. d \in Docs /\ Stored(d) \in Files /\ Show(d, Stored(d))
      BY <1>4 DEF OpenFromOneDrive
  <2>2. /\ client' \in Docs \cup {NoDoc} /\ loaded' \in Files /\ know' \in [Parts -> Nat]
        /\ localPath' \in [doc : Docs \cup {NoDoc}, synced : BOOLEAN]
        /\ batch = <<>> \/ client' # NoDoc
      BY <1>1, <1>4, <2>1 DEF OpenFromOneDrive, TypeOK
  <2>3. file' \in [AllDocs -> Files]
      BY <1>4, <2>1 DEF OpenFromOneDrive
  <2> QED
      BY <1>2, <1>4, <2>1, <2>2, <2>3 DEF OpenFromOneDrive, TypeOK, Doc
<1> QED
    BY <1>3, <1>4

LEMMA CloseTyped ==
    ASSUME TypeOK, NEW d \in AllDocs, OnDocumentClosed(d),
           client # NoDoc => localPath.doc \in Docs
    PROVE  TypeOK'
<1> USE TypedFunctions
<1>1. open' \subseteq AllDocs /\ active' \in open' \cup {NoDoc}
    BY DEF OnDocumentClosed, TypeOK
<1>2. CASE client = NoDoc
    BY <1>1, <1>2 DEF OnDocumentClosed, TypeOK
<1>3. CASE client # NoDoc
  <2>1. server' \in [Docs -> Copy]
    <3>1. file[localPath.doc] \in Files
        BY <1>3
    <3>2. PutText(PutNotes(server[localPath.doc], file[localPath.doc].notes),
                  file[localPath.doc].text) \in Copy
        BY <1>3, <3>1, Puts DEF Files
    <3> QED
        BY <1>3, <3>2 DEF OnDocumentClosed, Upload
  <2> QED
      BY <1>1, <1>3, <2>1, Constructors DEF OnDocumentClosed, TypeOK, Copy
<1> QED
    BY <1>2, <1>3

\* A content the editor or a co-author writes.
LEMMA NewContent ==
    ASSUME TypeOK, NextStamp, NEW s \in Structural, NEW c \in Contents
    PROVE  /\ Stamped(s, c.stamp) \in Contents /\ clock' \in Stamps
    BY BridgeAssumption DEF NextStamp, Stamped, Contents, Stamps, TypeOK

LEMMA LocalTyped ==
    ASSUME TypeOK,
           \/ \E p \in Paragraphs, s \in Structural : UserEdit(p, s)
           \/ \E n \in Notes : UserComment(n)
           \/ Save \/ OnOutgoingChange \/ SendDelta \/ OnOutgoingComment
    PROVE  TypeOK'
<1> USE TypedFunctions
<1>1. ASSUME NEW p \in Paragraphs, NEW s \in Structural, UserEdit(p, s) PROVE TypeOK'
  <2> DEFINE c == Stamped(s, editor[active].text[p].stamp)
  <2>1. active \in AllDocs /\ editor[active].text[p] \in Contents
      BY <1>1 DEF UserEdit, Doc, Texts
  <2>2. c \in Contents /\ clock' \in Stamps
      BY <1>1, <2>1, NewContent DEF UserEdit
  <2>3. editor' \in [AllDocs -> Doc]
      BY <1>1, <2>1, <2>2, EditorWrites DEF UserEdit
  <2>4. out' \in Seq(Deltas \cup NoteMsgs)
      BY <1>1, <2>2 DEF UserEdit, TypeOK, Deltas
  <2> QED
      BY <1>1, <2>2, <2>3, <2>4 DEF UserEdit, TypeOK, Doc
<1>2. ASSUME NEW n \in Notes, UserComment(n) PROVE TypeOK'
  <2>1. editor' \in [AllDocs -> Doc]
      BY <1>2, EditorWrites DEF UserComment
  <2>2. out' \in Seq(Deltas \cup NoteMsgs)
      BY <1>2 DEF UserComment, TypeOK, NoteMsgs
  <2>3. clock' \in Stamps
      BY <1>2, BridgeAssumption DEF UserComment, NextStamp, Stamps, TypeOK
  <2> QED
      BY <1>2, <2>1, <2>2, <2>3 DEF UserComment, TypeOK, Doc
<1>3. ASSUME Save PROVE TypeOK'
  <2>1. file' \in [AllDocs -> Files]
      BY <1>3, Constructors DEF Save
  <2> QED
      BY <1>3, <2>1 DEF Save, TypeOK
<1>4. ASSUME OnOutgoingChange PROVE TypeOK'
  <2>1. assigning' \in Deltas /\ out' \in Seq(Deltas \cup NoteMsgs)
    <3>1. Head(out) \in Deltas \cup NoteMsgs /\ Tail(out) \in Seq(Deltas \cup NoteMsgs)
        BY <1>4, Messages DEF OnOutgoingChange, TypeOK
    <3> QED
        BY <1>4, <3>1, MessageParts DEF OnOutgoingChange
  <2> QED
      BY <1>4, <2>1 DEF OnOutgoingChange, TypeOK
<1>5. ASSUME SendDelta PROVE TypeOK'
  <2>1. assigning \in Deltas /\ assigning.para \in Paragraphs /\ assigning.content \in Contents
      BY <1>5 DEF SendDelta, TypeOK, Deltas
  <2>2. loaded' \in Files
      BY <1>5, <2>1, FileWrites DEF SendDelta, TypeOK
  <2>3. server' \in [Docs -> Copy]
    <3>1. loaded'.text \in Texts
        BY <2>2 DEF Files
    <3>2. CASE client # NoDoc
        BY <1>5, <3>1, <3>2, Puts DEF SendDelta
    <3> QED
        BY <1>5, <3>2 DEF SendDelta
  <2> QED
      BY <1>5, <2>1, <2>2, <2>3 DEF SendDelta, TypeOK, Copy
<1>6. ASSUME OnOutgoingComment PROVE TypeOK'
  <2>1. Head(out).note \in Notes /\ out' \in Seq(Deltas \cup NoteMsgs)
    <3>1. Head(out) \in Deltas \cup NoteMsgs /\ Tail(out) \in Seq(Deltas \cup NoteMsgs)
        BY <1>6, Messages DEF OnOutgoingComment, TypeOK
    <3> QED
        BY <1>6, <3>1, MessageParts DEF OnOutgoingComment
  <2>2. loaded' \in Files
    <3>1. loaded \in Files
        BY DEF TypeOK
    <3>2. [loaded EXCEPT !.notes = @ \cup {Head(out).note}] \in Files
        BY <2>1, <3>1, FileWrites
    <3> QED
        BY <1>6, <3>1, <3>2 DEF OnOutgoingComment
  <2>3. server' \in [Docs -> Copy]
    <3>1. loaded'.notes \in SUBSET Notes
        BY <2>2 DEF Files
    <3>2. CASE client # NoDoc
        BY <1>6, <3>1, <3>2, Puts DEF OnOutgoingComment
    <3> QED
        BY <1>6, <3>2 DEF OnOutgoingComment
  <2> QED
      BY <1>6, <2>1, <2>2, <2>3 DEF OnOutgoingComment, TypeOK, Copy
<1> QED
    BY <1>1, <1>2, <1>3, <1>4, <1>5, <1>6

LEMMA RemoteTyped ==
    ASSUME TypeOK,
           \/ Deliver
           \/ \E d \in Docs, p \in Paragraphs, s \in Structural : RemoteEdit(d, p, s)
           \/ \E d \in Docs, n \in Notes : RemoteComment(d, n)
    PROVE  TypeOK'
<1> USE TypedFunctions
<1>1. ASSUME PollGetChanges PROVE TypeOK'
  <2>1. client \in Docs /\ server[client].ver \in [Parts -> Nat]
      BY <1>1 DEF PollGetChanges, Copy
  <2>2. batch' \in Seq(Deltas \cup NoteMsgs)
    <3>1. \A T : <<>> \in Seq(T)
        OBVIOUS
    <3>2. TextDeltas(client) \in Seq(Deltas \cup NoteMsgs)
        BY <2>1, DeltasOf
    <3>3. NoteDeltas(client) \in Seq(Deltas \cup NoteMsgs)
        BY <2>1, DeltasOf
    <3>4. \A q, r \in Seq(Deltas \cup NoteMsgs) : q \o r \in Seq(Deltas \cup NoteMsgs)
        OBVIOUS
    <3> QED
        BY <1>1, <3>1, <3>2, <3>3, <3>4 DEF PollGetChanges
  <2> QED
      BY <1>1, <2>1, <2>2 DEF PollGetChanges, TypeOK
<1>2. ASSUME OnRemoteDelta PROVE TypeOK'
  <2>1. Head(batch) \in Deltas \cup NoteMsgs /\ batch' \in Seq(Deltas \cup NoteMsgs)
      BY <1>2, Messages DEF OnRemoteDelta, TypeOK
  <2>2. js' \in Seq(ShimMsgs)
    <3>1. CASE IsNote(Head(batch))
      <4>1. Head(batch) \in ShimMsgs
          BY <2>1, <3>1, MessageParts DEF ShimMsgs
      <4>2. js' = Append(js, Head(batch)) /\ js \in Seq(ShimMsgs)
          BY <1>2, <3>1 DEF OnRemoteDelta, TypeOK
      <4> QED
          BY <4>1, <4>2, Queued
    <3>2. CASE ~IsNote(Head(batch))
      <4>1. \A b \in BOOLEAN : ToShim(Head(batch), b) \in ShimMsgs
          BY <2>1, <3>2, MessageParts DEF ToShim, ShimMsgs
      <4>2. PICK b \in BOOLEAN : js' \in {js, Append(js, ToShim(Head(batch), b))}
          BY <1>2, <3>2 DEF OnRemoteDelta
      <4>3. js \in Seq(ShimMsgs)
          BY DEF TypeOK
      <4> QED
          BY <4>1, <4>2, <4>3, Queued
    <3> QED
        BY <3>1, <3>2
  <2>3. batch' # <<>> => client # NoDoc
      BY <1>2 DEF OnRemoteDelta, TypeOK
  <2> QED
      BY <1>2, <2>1, <2>2, <2>3 DEF OnRemoteDelta, TypeOK
<1>3. ASSUME ApplyRemoteChange PROVE TypeOK'
  <2>1. Head(js) \in ShimMsgs /\ js' \in Seq(ShimMsgs)
      BY <1>3, Messages DEF ApplyRemoteChange, TypeOK
  <2>2. editor' \in [AllDocs -> Doc]
    <3>1. CASE active = NoDoc
        BY <1>3, <3>1 DEF ApplyRemoteChange
    <3>2. CASE active # NoDoc /\ IsNote(Head(js))
        BY <1>3, <2>1, <3>2, MessageParts, EditorWrites DEF ApplyRemoteChange
    <3>3. CASE active # NoDoc /\ ~IsNote(Head(js))
        BY <1>3, <2>1, <3>3, MessageParts, EditorWrites DEF ApplyRemoteChange
    <3> QED
        BY <3>1, <3>2, <3>3
  <2> QED
      BY <1>3, <2>1, <2>2 DEF ApplyRemoteChange, TypeOK, Doc
<1>4. ASSUME NEW d \in Docs, NEW p \in Paragraphs, NEW s \in Structural, RemoteEdit(d, p, s)
      PROVE  TypeOK'
  <2> DEFINE c == Stamped(s, server[d].text[p].stamp)
  <2>1. server[d] \in Copy /\ server[d].text \in Texts /\ server[d].text[p] \in Contents
      BY DEF Copy, Texts
  <2>2. c \in Contents /\ clock' \in Stamps
      BY <1>4, <2>1, NewContent DEF RemoteEdit
  <2>3. [server[d].text EXCEPT ![p] = c] \in Texts
      BY <2>1, <2>2 DEF Texts
  <2>4. server' \in [Docs -> Copy]
      BY <1>4, <2>1, <2>3, Puts DEF RemoteEdit
  <2> QED
      BY <1>4, <2>2, <2>4 DEF RemoteEdit, TypeOK, Copy
<1>5. ASSUME NEW d \in Docs, NEW n \in Notes, RemoteComment(d, n) PROVE TypeOK'
  <2>1. server[d] \in Copy /\ server[d].notes \cup {n} \in SUBSET Notes
      BY DEF Copy
  <2>2. server' \in [Docs -> Copy]
      BY <1>5, <2>1, Puts DEF RemoteComment
  <2>3. clock' \in Stamps
      BY <1>5, BridgeAssumption DEF RemoteComment, NextStamp, Stamps, TypeOK
  <2> QED
      BY <1>5, <2>2, <2>3 DEF RemoteComment, TypeOK, Copy
<1> QED
    BY <1>1, <1>2, <1>3, <1>4, <1>5 DEF Deliver

LEMMA IdleTyped == TypeOK /\ UNCHANGED vars => TypeOK'
BY DEF vars, TypeOK

LEMMA TypedStep == TypeOK /\ SessionPlace /\ [Next]_vars => TypeOK'
<1> SUFFICES ASSUME TypeOK, SessionPlace, [Next]_vars PROVE TypeOK'
    OBVIOUS
<1>1. client # NoDoc => localPath.doc \in Docs
    BY TypedFunctions DEF SessionPlace
<1> QED
    BY <1>1, OpenTyped, CloseTyped, LocalTyped, RemoteTyped, IdleTyped DEF Next

-----------------------------------------------------------------------------
(* The session's place.                                                    *)

\* What a step does to the server: no version of a part goes down, and a part
\* that is another one has a higher version.
Grows ==
    \A d \in Docs :
        /\ \A part \in Parts : server'[d].ver[part] >= server[d].ver[part]
        /\ server'[d].ver["text"] = server[d].ver["text"] => server'[d].text = server[d].text
        /\ server'[d].ver["notes"] = server[d].ver["notes"] => server'[d].notes = server[d].notes

LEMMA ServerGrows == TypeOK /\ SessionPlace /\ [Next]_vars => Grows
<1> SUFFICES ASSUME TypeOK, SessionPlace, [Next]_vars PROVE Grows
    OBVIOUS
<1> USE TypedFunctions
<1>1. \A d \in Docs, part \in Parts : server[d].ver[part] \in Nat
    BY DEF Copy
<1>2. CASE UNCHANGED server
    BY <1>1, <1>2 DEF Grows
<1>3. ASSUME NEW d \in Docs, NEW c \in Copy, server' = [server EXCEPT ![d] = c],
             \/ \E t \in Texts : c = PutText(server[d], t)
             \/ \E m \in SUBSET Notes : c = PutNotes(server[d], m)
             \/ \E t \in Texts, m \in SUBSET Notes : c = PutText(PutNotes(server[d], m), t)
      PROVE  Grows
  <2>1. server[d] \in Copy
      OBVIOUS
  <2>2. /\ \A part \in Parts : c.ver[part] >= server[d].ver[part]
        /\ c.ver["text"] = server[d].ver["text"] => c.text = server[d].text
        /\ c.ver["notes"] = server[d].ver["notes"] => c.notes = server[d].notes
    <3>1. \A part \in Parts : part = "text" \/ part = "notes"
        BY DEF Parts
    <3>2. CASE \E t \in Texts : c = PutText(server[d], t)
        BY <1>1, <2>1, <3>1, <3>2, Puts, Constructors
    <3>3. CASE \E m \in SUBSET Notes : c = PutNotes(server[d], m)
        BY <1>1, <2>1, <3>1, <3>3, Puts, Constructors
    <3>4. CASE \E t \in Texts, m \in SUBSET Notes : c = PutText(PutNotes(server[d], m), t)
        BY <1>1, <2>1, <3>1, <3>4, Puts, Constructors
    <3> QED
        BY <1>3, <3>2, <3>3, <3>4
  <2> QED
      BY <1>1, <1>3, <2>2 DEF Grows
<1>4. ASSUME NEW d \in AllDocs, OnDocumentClosed(d), ~UNCHANGED server PROVE Grows
  <2>1. client # NoDoc /\ Upload(localPath) /\ localPath.doc \in Docs
      BY <1>4 DEF OnDocumentClosed, SessionPlace
  <2> DEFINE o == localPath.doc
  <2>2. file[o].notes \in SUBSET Notes /\ file[o].text \in Texts
      BY <2>1 DEF Files
  <2>3. PutText(PutNotes(server[o], file[o].notes), file[o].text) \in Copy
      BY <2>1, <2>2, Puts
  <2> QED
      BY <1>3, <1>4, <2>1, <2>2, <2>3 DEF Upload
<1>5. ASSUME SendDelta, ~UNCHANGED server PROVE Grows
  <2>1. client \in Docs /\ loaded'.text \in Texts
      BY <1>5, LocalTyped DEF SendDelta, TypeOK, Files
  <2>2. PutText(server[client], loaded'.text) \in Copy
      BY <2>1, Puts
  <2> QED
      BY <1>3, <1>5, <2>1, <2>2 DEF SendDelta
<1>6. ASSUME OnOutgoingComment, ~UNCHANGED server PROVE Grows
  <2>1. client \in Docs /\ loaded'.notes \in SUBSET Notes
      BY <1>6, LocalTyped DEF OnOutgoingComment, TypeOK, Files
  <2>2. PutNotes(server[client], loaded'.notes) \in Copy
      BY <2>1, Puts
  <2> QED
      BY <1>3, <1>6, <2>1, <2>2 DEF OnOutgoingComment
<1>7. ASSUME NEW d \in Docs, NEW p \in Paragraphs, NEW s \in Structural, RemoteEdit(d, p, s)
      PROVE  Grows
  <2> DEFINE c == Stamped(s, server[d].text[p].stamp)
  <2>1. server[d].text \in Texts /\ server[d].text[p] \in Contents
      BY DEF Copy, Texts
  <2>2. c \in Contents
      BY <1>7, <2>1, NewContent DEF RemoteEdit
  <2>3. [server[d].text EXCEPT ![p] = c] \in Texts
      BY <2>1, <2>2 DEF Texts
  <2>4. PutText(server[d], [server[d].text EXCEPT ![p] = c]) \in Copy
      BY <2>3, Puts
  <2> QED
      BY <1>3, <1>7, <2>3, <2>4 DEF RemoteEdit
<1>8. ASSUME NEW d \in Docs, NEW n \in Notes, RemoteComment(d, n) PROVE Grows
  <2>1. server[d].notes \cup {n} \in SUBSET Notes
      BY DEF Copy
  <2>2. PutNotes(server[d], server[d].notes \cup {n}) \in Copy
      BY <2>1, Puts, Zenon
  <2> QED
      BY <1>3, <1>8, <2>1, <2>2 DEF RemoteComment
<1> QED
    BY <1>2, <1>4, <1>5, <1>6, <1>7, <1>8
       DEF Next, vars, Deliver, OnDocumentOpened, OpenFromOneDrive, UserEdit, UserComment, Save,
           OnOutgoingChange, PollGetChanges, OnRemoteDelta, ApplyRemoteChange

\* Which session there is changes only where a document is opened or closed.
LEMMA SessionKept ==
    ASSUME TypeOK, [Next]_vars,
           ~ \E d \in AllDocs : OnDocumentOpened(d) \/ OpenFromOneDrive(d) \/ OnDocumentClosed(d)
    PROVE  /\ UNCHANGED <<client, localPath, open, active>>
           /\ UNCHANGED know \/ PollGetChanges
    BY DEF Next, vars, Deliver, PollGetChanges, UserEdit, UserComment, Save, OnOutgoingChange,
           SendDelta, OnOutgoingComment, OnRemoteDelta, ApplyRemoteChange, RemoteEdit, RemoteComment

LEMMA PlaceStep == TypeOK /\ SessionPlace /\ [Next]_vars => SessionPlace'
<1> SUFFICES ASSUME TypeOK, SessionPlace, [Next]_vars PROVE SessionPlace'
    OBVIOUS
<1> USE TypedFunctions
<1>1. Grows
    BY ServerGrows
<1>2. server' \in [Docs -> Copy]
    BY TypedStep DEF TypeOK, Copy
<1>3. \A d \in Docs, part \in Parts :
          server[d].ver[part] \in Nat /\ server'[d].ver[part] \in Nat /\ know[part] \in Nat
    BY <1>2 DEF Copy, TypeOK
<1>4. \A d \in Docs, part \in Parts : server'[d].ver[part] >= 1
    BY <1>1, <1>3 DEF Grows, SessionPlace
<1>5. ASSUME NEW d \in AllDocs, OnDocumentOpened(d) \/ OpenFromOneDrive(d) PROVE SessionPlace'
  <2>1. open' = open \cup {d} /\ UNCHANGED server
      BY <1>5 DEF OnDocumentOpened, OpenFromOneDrive, Show
  <2>2. CASE UNCHANGED sessionVars
      BY <1>4, <2>1, <2>2 DEF SessionPlace
  <2>3. CASE \E synced \in BOOLEAN, f \in Files : StartSession(d, f, synced)
    <3>1. /\ client' \in {d, NoDoc} /\ localPath'.doc = d /\ \A part \in Parts : know'[part] = 0
        BY <2>3 DEF StartSession, LocalPathOf
    <3>2. client' # NoDoc => client' \in Docs
        BY <1>5, <3>1 DEF OnDocumentOpened, OpenFromOneDrive, StartSession, TypeOK
    <3> QED
        BY <1>3, <1>4, <2>1, <3>1, <3>2 DEF SessionPlace
  <2>4. d \in Docs => file[d] \in Files /\ Stored(d) \in Files
      BY <1>5
  <2> QED
      BY <1>5, <2>2, <2>3, <2>4 DEF OnDocumentOpened, OpenFromOneDrive
<1>6. ASSUME NEW d \in AllDocs, OnDocumentClosed(d) PROVE SessionPlace'
    BY <1>4, <1>6 DEF OnDocumentClosed, SessionPlace
<1>7. ASSUME ~ \E d \in AllDocs : OnDocumentOpened(d) \/ OpenFromOneDrive(d) \/ OnDocumentClosed(d)
      PROVE  SessionPlace'
  <2>1. UNCHANGED <<client, localPath, open>>
      BY <1>7, SessionKept
  <2>2. CASE UNCHANGED know
    <3>1. client # NoDoc => \A part \in Parts : know[part] <= server'[client].ver[part]
        BY <1>1, <1>3 DEF SessionPlace, Grows
    <3> QED
        BY <1>4, <2>1, <2>2, <3>1 DEF SessionPlace
  <2>3. CASE PollGetChanges
      BY <1>3, <1>4, <2>1, <2>3 DEF PollGetChanges, SessionPlace
  <2> QED
      BY <1>7, <2>2, <2>3, SessionKept
<1> QED
    BY <1>5, <1>6, <1>7

\* Every variable of the bridge, the editor, the file and the server keeps its type;
\* a session that has ended leaves no remote delta of its poll thread behind.
THEOREM BridgeTypeSafe == Spec => []TypeOK
<1>1. Init => TypeOK /\ SessionPlace
  <2>1. ASSUME Init PROVE SessionPlace
      BY <2>1, BridgeAssumption DEF Init, SessionPlace
  <2> QED
      BY <2>1, InitTyped
<1>2. TypeOK /\ SessionPlace /\ [Next]_vars => (TypeOK /\ SessionPlace)'
    BY TypedStep, PlaceStep
<1> QED
    BY <1>1, <1>2, PTL DEF Spec

\* Closing a document puts the session's own file on the server, and nothing else
\* of it: the path to upload is the session's whenever there is a session.
THEOREM ClosingUploadsOwnFile == Spec => UploadsOwnFile
<1> DEFINE Own == client # NoDoc /\ client' = NoDoc =>
                      \A d \in Docs : server'[d] # server[d] =>
                                        d = client /\ Stored(d)' = file[d]
<1>1. Init => TypeOK /\ SessionPlace
  <2>1. ASSUME Init PROVE SessionPlace
      BY <2>1, BridgeAssumption DEF Init, SessionPlace
  <2> QED
      BY <2>1, InitTyped
<1>2. TypeOK /\ SessionPlace /\ [Next]_vars => (TypeOK /\ SessionPlace)'
    BY TypedStep, PlaceStep
<1>3. TypeOK /\ SessionPlace /\ [Next]_vars => [Own]_vars
  <2> SUFFICES ASSUME TypeOK, SessionPlace, [Next]_vars PROVE Own
      OBVIOUS
  <2> USE TypedFunctions
  <2>1. ASSUME NEW d \in AllDocs, OnDocumentOpened(d) \/ OpenFromOneDrive(d) PROVE Own
      BY <2>1 DEF OnDocumentOpened, OpenFromOneDrive
  <2>2. ASSUME NEW d \in AllDocs, OnDocumentClosed(d), client # NoDoc PROVE Own
    <3>1. localPath.doc = client /\ client \in Docs /\ Upload(localPath)
        BY <2>2 DEF OnDocumentClosed, SessionPlace
    <3>2. CASE UNCHANGED server
        BY <3>2
    <3>3. CASE ~UNCHANGED server
      <4> DEFINE c == PutText(PutNotes(server[client], file[client].notes), file[client].text)
      <4>1. file[client].notes \in SUBSET Notes /\ file[client].text \in Texts
          BY <3>1 DEF Files
      <4>2. c.text = file[client].text /\ c.notes = file[client].notes
          BY <3>1, <4>1, Puts
      <4>3. server' = [server EXCEPT ![client] = c]
          BY <3>1, <3>3 DEF Upload
      <4> HIDE DEF c
      <4>4. ASSUME NEW o \in Docs, server'[o] # server[o]
            PROVE  o = client /\ Stored(o)' = [text |-> c.text, notes |-> c.notes]
          BY <3>1, <4>3, <4>4 DEF Stored
      <4>5. file[client] = [text |-> file[client].text, notes |-> file[client].notes]
          BY <3>1 DEF Files
      <4> QED
          BY <4>2, <4>4, <4>5
    <3> QED
        BY <3>2, <3>3
  <2>3. ASSUME ~ \E d \in AllDocs : OnDocumentOpened(d) \/ OpenFromOneDrive(d) \/ OnDocumentClosed(d)
        PROVE  Own
      BY <2>3, SessionKept
  <2> QED
      BY <2>1, <2>2, <2>3
<1> QED
    BY <1>1, <1>2, <1>3, PTL DEF Spec, UploadsOwnFile

-----------------------------------------------------------------------------
(* What is on the way, as the queues grow and shrink.                      *)

LEMMA AfterAppend ==
    ASSUME NEW T, NEW q \in Seq(T), NEW m \in T
    PROVE  /\ NoText(Append(q, m)) <=> NoText(q) /\ IsNote(m)
           /\ \A n : HasNote(Append(q, m), n) <=> (HasNote(q, n) \/ (IsNote(m) /\ m.note = n))
           /\ \A p : SomeAbout(Append(q, m), p) <=> SomeAbout(q, p) \/ About(m, p)
           /\ \A p, c : LastAbout(q, p, c) /\ ~About(m, p) => LastAbout(Append(q, m), p, c)
           /\ \A p, c : About(m, p) /\ m.content = c => LastAbout(Append(q, m), p, c)
<1> DEFINE r == Append(q, m)
<1>1. /\ Len(q) \in Nat /\ Len(r) = Len(q) + 1 /\ r[Len(q) + 1] = m
      /\ \A i \in 1 .. Len(q) : r[i] = q[i]
    OBVIOUS
<1> HIDE DEF r
<1>2. NoText(r) <=> NoText(q) /\ IsNote(m)
    BY <1>1 DEF NoText
<1>3. \A n : HasNote(r, n) <=> (HasNote(q, n) \/ (IsNote(m) /\ m.note = n))
    BY <1>1 DEF HasNote
<1>4. \A p : SomeAbout(r, p) <=> SomeAbout(q, p) \/ About(m, p)
    BY <1>1 DEF SomeAbout
<1>5. ASSUME NEW p, NEW c, LastAbout(q, p, c), ~About(m, p) PROVE LastAbout(r, p, c)
  <2>1. PICK i \in 1 .. Len(q) : /\ About(q[i], p) /\ q[i].content = c
                                 /\ \A j \in 1 .. Len(q) : j > i => ~About(q[j], p)
      BY <1>5 DEF LastAbout
  <2>2. i \in 1 .. Len(r) /\ r[i] = q[i]
      BY <1>1
  <2>3. \A j \in 1 .. Len(r) : j > i => ~About(r[j], p)
      BY <1>1, <1>5, <2>1
  <2> QED
      BY <2>1, <2>2, <2>3 DEF LastAbout
<1>6. ASSUME NEW p, NEW c, About(m, p), m.content = c PROVE LastAbout(r, p, c)
    BY <1>1, <1>6 DEF LastAbout
<1> QED
    BY <1>2, <1>3, <1>4, <1>5, <1>6 DEF r

LEMMA AfterTail ==
    ASSUME NEW T, NEW q \in Seq(T), q # <<>>
    PROVE  /\ IsNote(Head(q)) /\ NoText(Tail(q)) => NoText(q)
           /\ \A n : HasNote(q, n) =>
                     HasNote(Tail(q), n) \/ (IsNote(Head(q)) /\ Head(q).note = n)
           /\ \A p : SomeAbout(q, p) <=> SomeAbout(Tail(q), p) \/ About(Head(q), p)
           /\ \A p, c : AllAbout(q, p, c) =>
                        AllAbout(Tail(q), p, c) /\ (About(Head(q), p) => Head(q).content = c)
           /\ \A p, c : LastAbout(q, p, c) =>
                        \/ LastAbout(Tail(q), p, c)
                        \/ /\ About(Head(q), p) /\ Head(q).content = c
                           /\ ~SomeAbout(Tail(q), p)
<1> DEFINE r == Tail(q)
           h == Head(q)
<1>1. /\ Len(q) \in Nat /\ Len(q) = Len(r) + 1 /\ q[1] = h /\ Len(r) \in Nat
      /\ \A i \in 1 .. Len(r) : r[i] = q[i + 1]
    OBVIOUS
<1> HIDE DEF r, h
<1>2. \A i \in 1 .. Len(q) : i = 1 \/ (i - 1 \in 1 .. Len(r) /\ r[i - 1] = q[i])
    BY <1>1
<1>3. IsNote(h) /\ NoText(r) => NoText(q)
    BY <1>1, <1>2 DEF NoText
<1>4. \A n : HasNote(q, n) => HasNote(r, n) \/ (IsNote(h) /\ h.note = n)
    BY <1>1, <1>2 DEF HasNote
<1>5. ASSUME NEW p PROVE SomeAbout(q, p) <=> SomeAbout(r, p) \/ About(h, p)
  <2>1. SomeAbout(q, p) => SomeAbout(r, p) \/ About(h, p)
      BY <1>1, <1>2 DEF SomeAbout
  <2>2. About(h, p) => SomeAbout(q, p)
      BY <1>1 DEF SomeAbout
  <2>3. \A i \in 1 .. Len(r) : i + 1 \in 1 .. Len(q)
      BY <1>1
  <2>4. SomeAbout(r, p) => SomeAbout(q, p)
      BY <1>1, <2>3 DEF SomeAbout
  <2> QED
      BY <2>1, <2>2, <2>4
<1>6. ASSUME NEW p, NEW c, AllAbout(q, p, c)
      PROVE  AllAbout(r, p, c) /\ (About(h, p) => h.content = c)
  <2>1. \A i \in 1 .. Len(r) : i + 1 \in 1 .. Len(q)
      BY <1>1
  <2> QED
      BY <1>1, <1>6, <2>1 DEF AllAbout
<1>7. ASSUME NEW p, NEW c, LastAbout(q, p, c), ~LastAbout(r, p, c)
      PROVE  About(h, p) /\ h.content = c /\ ~SomeAbout(r, p)
  <2>1. PICK i \in 1 .. Len(q) : /\ About(q[i], p) /\ q[i].content = c
                                 /\ \A j \in 1 .. Len(q) : j > i => ~About(q[j], p)
      BY <1>7 DEF LastAbout
  <2>2. \A j \in 1 .. Len(r) : j + 1 \in 1 .. Len(q) /\ (j + 1 > i => ~About(r[j], p))
      BY <1>1, <2>1
  <2>3. i = 1
    <3>1. SUFFICES ASSUME i # 1 PROVE FALSE
        OBVIOUS
    <3>2. i - 1 \in 1 .. Len(r) /\ r[i - 1] = q[i]
        BY <1>2, <3>1
    <3>3. \A j \in 1 .. Len(r) : j > i - 1 => ~About(r[j], p)
        BY <2>2
    <3> QED
        BY <1>7, <2>1, <3>2, <3>3 DEF LastAbout
  <2> QED
      BY <1>1, <2>1, <2>2, <2>3 DEF SomeAbout
<1> QED
    BY <1>3, <1>4, <1>5, <1>6, <1>7 DEF r, h

LEMMA AfterConcat ==
    ASSUME NEW T, NEW q \in Seq(T), NEW r \in Seq(T)
    PROVE  /\ \A n : HasNote(q, n) \/ HasNote(r, n) => HasNote(q \o r, n)
           /\ \A p : SomeAbout(r, p) => SomeAbout(q \o r, p)
           /\ \A p, c : AllAbout(q, p, c) /\ AllAbout(r, p, c) => AllAbout(q \o r, p, c)
<1> DEFINE s == q \o r
<1>1. /\ Len(q) \in Nat /\ Len(r) \in Nat /\ Len(s) = Len(q) + Len(r)
      /\ \A i \in 1 .. Len(q) : s[i] = q[i]
      /\ \A i \in 1 .. Len(r) : s[Len(q) + i] = r[i]
    OBVIOUS
<1> HIDE DEF s
<1>2. /\ \A i \in 1 .. Len(q) : i \in 1 .. Len(s)
      /\ \A i \in 1 .. Len(r) : Len(q) + i \in 1 .. Len(s)
      /\ \A i \in 1 .. Len(s) : \/ i \in 1 .. Len(q)
                               \/ (i - Len(q) \in 1 .. Len(r) /\ s[i] = r[i - Len(q)])
    BY <1>1
<1>3. \A n : HasNote(q, n) \/ HasNote(r, n) => HasNote(s, n)
    BY <1>1, <1>2 DEF HasNote
<1>4. \A p : SomeAbout(r, p) => SomeAbout(s, p)
    BY <1>1, <1>2 DEF SomeAbout
<1>5. ASSUME NEW p, NEW c, AllAbout(q, p, c), AllAbout(r, p, c) PROVE AllAbout(s, p, c)
  <2> SUFFICES ASSUME NEW i \in 1 .. Len(s), About(s[i], p) PROVE s[i].content = c
      BY DEF AllAbout
  <2>1. CASE i \in 1 .. Len(q)
      BY <1>1, <1>5, <2>1 DEF AllAbout
  <2>2. CASE i - Len(q) \in 1 .. Len(r) /\ s[i] = r[i - Len(q)]
      BY <1>5, <2>2 DEF AllAbout
  <2> QED
      BY <1>2, <2>1, <2>2
<1> QED
    BY <1>3, <1>4, <1>5 DEF s

-----------------------------------------------------------------------------
(* What is on the way, step by step.                                       *)

ArrivingText  == TextKnown => \A p \in Paragraphs : TextOnTheWay(p)
ArrivingNotes == NotesKnown => \A n \in server[client].notes : NoteOnTheWay(n)

\* Everything a step may leave alone that one paragraph's arrival depends on.
LEMMA TextAsBefore ==
    ASSUME TypeOK, ArrivingText, UNCHANGED <<client, active, know, assigning, batch, js>>,
           client # NoDoc => /\ server'[client].ver["text"] = server[client].ver["text"]
                             /\ server'[client].text = server[client].text
                             /\ editor'[client].text = editor[client].text,
           NoText(out') => NoText(out)
    PROVE  ArrivingText'
    BY DEF ArrivingText, TextKnown, TextOnTheWay

LEMMA NotesAsBefore ==
    ASSUME TypeOK, ArrivingNotes, UNCHANGED <<client, active, know, batch, js>>,
           client # NoDoc =>
               /\ server'[client].ver["notes"] = server[client].ver["notes"]
               /\ server'[client].notes = server[client].notes
               /\ \A n \in Notes : editor[client].notes[n] > 0 => editor'[client].notes[n] > 0
    PROVE  ArrivingNotes'
<1> SUFFICES ASSUME NotesKnown' PROVE \A n \in server'[client].notes : NoteOnTheWay(n)'
    BY DEF ArrivingNotes
<1>1. client # NoDoc /\ NotesKnown /\ server[client].notes \subseteq Notes
    BY TypedFunctions DEF NotesKnown, Copy
<1> QED
    BY <1>1 DEF ArrivingNotes, NoteOnTheWay

\* A document just opened is another one than the session's, or its session has
\* seen nothing yet; closing ends the session.
LEMMA OpenedUnknown ==
    ASSUME TypeOK, SessionPlace, NEW d \in AllDocs,
           OnDocumentOpened(d) \/ OpenFromOneDrive(d) \/ OnDocumentClosed(d)
    PROVE  ~TextKnown' /\ ~NotesKnown'
<1> USE TypedFunctions
<1>1. CASE OnDocumentClosed(d)
    BY <1>1 DEF OnDocumentClosed, TextKnown, NotesKnown
<1>2. ASSUME OnDocumentOpened(d) \/ OpenFromOneDrive(d), client' # NoDoc, active' = client'
      PROVE  know'["text"] # server'[client'].ver["text"]
             /\ know'["notes"] # server'[client'].ver["notes"]
  <2>1. d \notin open /\ active' = d /\ UNCHANGED server
      BY <1>2 DEF OnDocumentOpened, OpenFromOneDrive, Show
  <2>2. ~UNCHANGED sessionVars
      BY <1>2, <2>1 DEF SessionPlace
  <2>3. d \in Docs /\ \A part \in Parts : know'[part] = 0
      BY <1>2, <2>2 DEF OnDocumentOpened, OpenFromOneDrive, StartSession
  <2>4. \A part \in Parts : server[d].ver[part] >= 1
      BY <2>3 DEF SessionPlace
  <2> QED
      BY <1>2, <2>1, <2>3, <2>4, Constructors
<1> QED
    BY <1>1, <1>2 DEF TextKnown, NotesKnown

\* A part whose version has just gone up is not known to the last version.
LEMMA Overtaken ==
    ASSUME TypeOK, SessionPlace, UNCHANGED <<client, know>>, client # NoDoc, NEW part \in Parts,
           server'[client].ver[part] = server[client].ver[part] + 1
    PROVE  know'[part] # server'[client'].ver[part]
<1>1. know[part] \in Nat /\ server[client].ver[part] \in Nat /\ know[part] <= server[client].ver[part]
    BY TypedFunctions DEF TypeOK, SessionPlace, Copy
<1> QED
    BY <1>1

\* The user's own changes: until a text is sent nothing is promised of it.
LEMMA LocalArrives ==
    ASSUME IInv,
           \/ \E p \in Paragraphs, s \in Structural : UserEdit(p, s)
           \/ \E n \in Notes : UserComment(n)
           \/ Save \/ OnOutgoingChange \/ SendDelta \/ OnOutgoingComment
    PROVE  ArrivingText' /\ ArrivingNotes'
<1>1. TypeOK /\ SessionPlace /\ ArrivingText /\ ArrivingNotes
    BY DEF IInv, Arriving, ArrivingText, ArrivingNotes
<1> USE TypedFunctions
<1>2. out \in Seq(Deltas \cup NoteMsgs)
    BY <1>1 DEF TypeOK
<1>3. ASSUME NEW p \in Paragraphs, NEW s \in Structural, UserEdit(p, s)
      PROVE  ArrivingText' /\ ArrivingNotes'
  <2> DEFINE c == Stamped(s, editor[active].text[p].stamp)
             m == [para |-> p, content |-> c]
  <2>1. m \in Deltas
    <3>1. active \in AllDocs /\ editor[active].text[p] \in Contents
        BY <1>1, <1>3 DEF UserEdit, Doc, Texts
    <3> QED
        BY <1>1, <1>3, <3>1, NewContent DEF UserEdit, Deltas
  <2>2. ~NoText(out')
    <3>1. out' = Append(out, m)
        BY <1>3 DEF UserEdit
    <3>2. ~IsNote(m)
        BY <2>1, MessageKinds
    <3> HIDE DEF m
    <3> QED
        BY <1>2, <2>1, <3>1, <3>2, AfterAppend
  <2>3. \A d \in AllDocs : editor'[d].notes = editor[d].notes
      BY <1>1, <1>3 DEF UserEdit, Doc
  <2>4. client # NoDoc => client \in AllDocs
      BY <1>1
  <2>5. ArrivingNotes'
      BY <1>1, <1>3, <2>3, <2>4, NotesAsBefore DEF UserEdit
  <2> QED
      BY <2>2, <2>5 DEF ArrivingText, TextKnown
<1>4. ASSUME NEW n \in Notes, UserComment(n) PROVE ArrivingText' /\ ArrivingNotes'
  <2>1. NoText(out') => NoText(out)
    <3>1. out' = Append(out, [note |-> n]) /\ [note |-> n] \in Deltas \cup NoteMsgs
        BY <1>4 DEF UserComment, NoteMsgs
    <3> QED
        BY <1>2, <3>1, AfterAppend
  <2>2. \A d \in AllDocs :
            /\ editor'[d].text = editor[d].text
            /\ \A k \in Notes : editor[d].notes[k] > 0 => editor'[d].notes[k] > 0
      BY <1>1, <1>4 DEF UserComment, Doc
  <2>3. client # NoDoc => client \in AllDocs
      BY <1>1
  <2>4. ArrivingText'
      BY <1>1, <1>4, <2>1, <2>2, <2>3, TextAsBefore DEF UserComment
  <2>5. ArrivingNotes'
      BY <1>1, <1>4, <2>2, <2>3, NotesAsBefore DEF UserComment
  <2> QED
      BY <2>4, <2>5
<1>5. ASSUME Save PROVE ArrivingText' /\ ArrivingNotes'
    BY <1>1, <1>5, TextAsBefore, NotesAsBefore DEF Save
<1>6. ASSUME OnOutgoingChange PROVE ArrivingText' /\ ArrivingNotes'
  <2>1. assigning' # NoDelta
    <3>1. Head(out) \in Deltas
        BY <1>2, <1>6, Messages, MessageParts DEF OnOutgoingChange
    <3> QED
        BY <1>6, <3>1, Constructors DEF OnOutgoingChange
  <2>2. ArrivingNotes'
      BY <1>1, <1>6, NotesAsBefore DEF OnOutgoingChange
  <2> QED
      BY <2>1, <2>2 DEF ArrivingText, TextKnown
<1>7. ASSUME SendDelta PROVE ArrivingText' /\ ArrivingNotes'
  <2>1. CASE client = NoDoc
      BY <1>7, <2>1 DEF SendDelta, ArrivingText, ArrivingNotes, TextKnown, NotesKnown
  <2>2. CASE client # NoDoc
    <3>1. client \in Docs /\ loaded'.text \in Texts /\ server[client] \in Copy
        BY <1>1, <1>7, <2>2, LocalTyped DEF TypeOK, Files
    <3>2. server'[client] = PutText(server[client], loaded'.text)
        BY <1>1, <1>7, <2>2, <3>1 DEF SendDelta
    <3>3. /\ server'[client].ver["text"] = server[client].ver["text"] + 1
          /\ server'[client].ver["notes"] = server[client].ver["notes"]
          /\ server'[client].notes = server[client].notes
        BY <3>1, <3>2, Puts
    <3>4. ~TextKnown'
        BY <1>1, <1>7, <2>2, <3>3, Overtaken, Constructors DEF SendDelta, TextKnown
    <3>5. ArrivingNotes'
        BY <1>1, <1>7, <3>3, NotesAsBefore DEF SendDelta
    <3> QED
        BY <3>4, <3>5 DEF ArrivingText
  <2> QED
      BY <2>1, <2>2
<1>8. ASSUME OnOutgoingComment PROVE ArrivingText' /\ ArrivingNotes'
  <2>1. CASE client = NoDoc
      BY <1>8, <2>1 DEF OnOutgoingComment, ArrivingText, ArrivingNotes, TextKnown, NotesKnown
  <2>2. CASE client # NoDoc
    <3>1. client \in Docs /\ loaded'.notes \in SUBSET Notes /\ server[client] \in Copy
        BY <1>1, <1>8, <2>2, LocalTyped DEF TypeOK, Files
    <3>2. server'[client] = PutNotes(server[client], loaded'.notes)
        BY <1>1, <1>8, <2>2, <3>1 DEF OnOutgoingComment
    <3>3. /\ server'[client].ver["notes"] = server[client].ver["notes"] + 1
          /\ server'[client].ver["text"] = server[client].ver["text"]
          /\ server'[client].text = server[client].text
        BY <3>1, <3>2, Puts
    <3>4. ~NotesKnown'
        BY <1>1, <1>8, <2>2, <3>3, Overtaken, Constructors DEF OnOutgoingComment, NotesKnown
    <3>5. NoText(out') => NoText(out)
        BY <1>2, <1>8, AfterTail DEF OnOutgoingComment
    <3>6. ArrivingText'
        BY <1>1, <1>8, <3>3, <3>5, TextAsBefore DEF OnOutgoingComment
    <3> QED
        BY <3>4, <3>6 DEF ArrivingNotes
  <2> QED
      BY <2>1, <2>2
<1> QED
    BY <1>3, <1>4, <1>5, <1>6, <1>7, <1>8

\* A co-author's change makes the part unknown, or is of another document.
LEMMA RemoteArrives ==
    ASSUME IInv,
           \/ \E d \in Docs, p \in Paragraphs, s \in Structural : RemoteEdit(d, p, s)
           \/ \E d \in Docs, n \in Notes : RemoteComment(d, n)
    PROVE  ArrivingText' /\ ArrivingNotes'
<1>1. TypeOK /\ SessionPlace /\ ArrivingText /\ ArrivingNotes
    BY DEF IInv, Arriving, ArrivingText, ArrivingNotes
<1> USE TypedFunctions
<1>2. ASSUME NEW d \in Docs, NEW p \in Paragraphs, NEW s \in Structural, RemoteEdit(d, p, s)
      PROVE  ArrivingText' /\ ArrivingNotes'
  <2> DEFINE t == [server[d].text EXCEPT ![p] = Stamped(s, server[d].text[p].stamp)]
  <2>1. t \in Texts /\ server[d] \in Copy
    <3>1. server[d].text \in Texts /\ server[d].text[p] \in Contents
        BY <1>1 DEF Copy, Texts
    <3>2. Stamped(s, server[d].text[p].stamp) \in Contents
        BY <1>1, <1>2, <3>1, NewContent DEF RemoteEdit
    <3> QED
        BY <1>1, <3>1, <3>2 DEF Texts
  <2>2. server' = [server EXCEPT ![d] = PutText(server[d], t)]
      BY <1>2 DEF RemoteEdit
  <2> HIDE DEF t
  <2>3. ArrivingNotes'
    <3>1. client # NoDoc => /\ server'[client].ver["notes"] = server[client].ver["notes"]
                            /\ server'[client].notes = server[client].notes
        BY <1>1, <2>1, <2>2, Puts
    <3> QED
        BY <1>1, <1>2, <3>1, NotesAsBefore DEF RemoteEdit
  <2>4. CASE client = d
    <3>1. server'[client].ver["text"] = server[client].ver["text"] + 1
        BY <1>1, <2>1, <2>2, <2>4, Puts
    <3>2. ~TextKnown'
        BY <1>1, <1>2, <2>4, <3>1, Overtaken, Constructors DEF RemoteEdit, TextKnown
    <3> QED
        BY <2>3, <3>2 DEF ArrivingText
  <2>5. CASE client # d
    <3>1. client # NoDoc => server'[client] = server[client]
        BY <1>1, <2>2, <2>5
    <3>2. ArrivingText'
        BY <1>1, <1>2, <3>1, TextAsBefore DEF RemoteEdit
    <3> QED
        BY <2>3, <3>2
  <2> QED
      BY <2>4, <2>5
<1>3. ASSUME NEW d \in Docs, NEW n \in Notes, RemoteComment(d, n)
      PROVE  ArrivingText' /\ ArrivingNotes'
  <2> DEFINE m == server[d].notes \cup {n}
  <2>1. m \in SUBSET Notes /\ server[d] \in Copy
      BY <1>1 DEF Copy
  <2>2. server' = [server EXCEPT ![d] = PutNotes(server[d], m)]
      BY <1>3 DEF RemoteComment
  <2> HIDE DEF m
  <2>3. ArrivingText'
    <3>1. client # NoDoc => /\ server'[client].ver["text"] = server[client].ver["text"]
                            /\ server'[client].text = server[client].text
        BY <1>1, <2>1, <2>2, Puts
    <3> QED
        BY <1>1, <1>3, <3>1, TextAsBefore DEF RemoteComment
  <2>4. CASE client = d
    <3>1. server'[client].ver["notes"] = server[client].ver["notes"] + 1
        BY <1>1, <2>1, <2>2, <2>4, Puts
    <3>2. ~NotesKnown'
        BY <1>1, <1>3, <2>4, <3>1, Overtaken, Constructors DEF RemoteComment, NotesKnown
    <3> QED
        BY <2>3, <3>2 DEF ArrivingNotes
  <2>5. CASE client # d
    <3>1. client # NoDoc => server'[client] = server[client]
        BY <1>1, <2>2, <2>5
    <3>2. ArrivingNotes'
        BY <1>1, <1>3, <3>1, NotesAsBefore DEF RemoteComment
    <3> QED
        BY <2>3, <3>2
  <2> QED
      BY <2>4, <2>5
<1> QED
    BY <1>2, <1>3

\* The poll puts the whole of a part it had not seen on the way; what it had
\* seen, it leaves where it was.
LEMMA PollArrives ==
    ASSUME IInv, PollGetChanges
    PROVE  ArrivingText' /\ ArrivingNotes'
<1>1. TypeOK /\ SessionPlace /\ ArrivingText /\ ArrivingNotes
    BY DEF IInv, Arriving, ArrivingText, ArrivingNotes
<1>2. client \in Docs /\ client # NoDoc /\ batch = <<>>
    BY <1>1, TypedFunctions DEF PollGetChanges
<1> DEFINE New(part, q) == IF server[client].ver[part] > know[part] THEN q ELSE <<>>
           ns == New("notes", NoteDeltas(client))
           ts == New("text", TextDeltas(client))
<1>3. /\ batch' = ns \o ts /\ know' = server[client].ver
      /\ UNCHANGED <<client, active, assigning, out, js, server, editor>>
    BY DEF PollGetChanges
<1>4. \A part \in Parts : /\ know[part] \in Nat /\ server[client].ver[part] \in Nat
                         /\ know[part] <= server[client].ver[part]
    BY <1>1, <1>2, TypedFunctions DEF TypeOK, SessionPlace, Copy
<1>5. /\ ns \in Seq(Deltas \cup NoteMsgs) /\ ts \in Seq(Deltas \cup NoteMsgs)
      /\ \A p, c : AllAbout(ns, p, c)
  <2>1. /\ NoteDeltas(client) \in Seq(NoteMsgs) /\ TextDeltas(client) \in Seq(Deltas)
        /\ \A T : <<>> \in Seq(T)
      BY <1>1, <1>2, DeltasOf
  <2>2. ns \in Seq(NoteMsgs) /\ ts \in Seq(Deltas)
      BY <2>1
  <2> HIDE DEF ns, ts
  <2>3. \A i \in 1 .. Len(ns) : IsNote(ns[i])
      BY <2>2, MessageKinds
  <2> QED
      BY <2>2, <2>3 DEF AllAbout, About
<1>6. ASSUME TextKnown', NEW p \in Paragraphs PROVE TextOnTheWay(p)'
  <2> DEFINE c == server[client].text[p]
  <2>1. CASE server[client].ver["text"] > know["text"]
    <3>1. SomeAbout(ts, p) /\ AllAbout(ts, p, c)
        BY <1>1, <1>2, <2>1, DeltasOf
    <3> HIDE DEF ns, ts
    <3>2. SomeAbout(ns \o ts, p) /\ AllAbout(ns \o ts, p, c)
        BY <1>5, <3>1, AfterConcat
    <3> QED
        BY <1>3, <3>2 DEF TextOnTheWay
  <2>2. CASE ~(server[client].ver["text"] > know["text"])
    <3>1. TextKnown
        BY <1>2, <1>3, <1>4, <1>6, <2>2, Constructors DEF TextKnown
    <3>2. TextOnTheWay(p) /\ ~SomeAbout(batch, p)
        BY <1>1, <1>2, <3>1 DEF ArrivingText, SomeAbout
    <3>3. AllAbout(ts, p, c)
        BY <2>2 DEF AllAbout
    <3> HIDE DEF ns, ts
    <3>4. AllAbout(ns \o ts, p, c)
        BY <1>5, <3>3, AfterConcat
    <3> QED
        BY <1>3, <3>2, <3>4 DEF TextOnTheWay
  <2> QED
      BY <2>1, <2>2
<1>7. ASSUME NotesKnown', NEW n \in server'[client].notes PROVE NoteOnTheWay(n)'
  <2>1. CASE server[client].ver["notes"] > know["notes"]
    <3>1. HasNote(ns, n)
        BY <1>1, <1>2, <1>3, <2>1, DeltasOf
    <3> HIDE DEF ns, ts
    <3>2. HasNote(ns \o ts, n)
        BY <1>5, <3>1, AfterConcat
    <3> QED
        BY <1>3, <3>2 DEF NoteOnTheWay
  <2>2. CASE ~(server[client].ver["notes"] > know["notes"])
    <3>1. NotesKnown
        BY <1>2, <1>3, <1>4, <1>7, <2>2, Constructors DEF NotesKnown
    <3>2. HasNote(js, n) \/ editor[client].notes[n] > 0
        BY <1>1, <1>2, <1>3, <3>1 DEF ArrivingNotes, NoteOnTheWay, HasNote
    <3> QED
        BY <1>3, <3>2 DEF NoteOnTheWay
  <2> QED
      BY <2>1, <2>2
<1> QED
    BY <1>3, <1>6, <1>7 DEF ArrivingText, ArrivingNotes

\* The callback passes the next delta on with its text, whatever the merge says of it.
LEMMA Passed ==
    ASSUME TypeOK, OnRemoteDelta
    PROVE  \E m \in ShimMsgs :
             /\ js' = Append(js, m)
             /\ IsNote(m) <=> IsNote(Head(batch))
             /\ IsNote(m) => m.note = Head(batch).note
             /\ ~IsNote(m) => /\ m.para = Head(batch).para
                              /\ m.content = Head(batch).content
<1> DEFINE h == Head(batch)
<1>1. h \in Deltas \cup NoteMsgs
    BY Messages DEF OnRemoteDelta, TypeOK
<1>2. CASE IsNote(h)
  <2>1. h \in ShimMsgs
      BY <1>1, <1>2, MessageParts DEF ShimMsgs
  <2> QED
      BY <1>2, <2>1 DEF OnRemoteDelta
<1>3. CASE ~IsNote(h)
  <2>1. \A b \in BOOLEAN : /\ ToShim(h, b) \in ShimMsgs /\ ~IsNote(ToShim(h, b))
                          /\ ToShim(h, b).para = h.para /\ ToShim(h, b).content = h.content
      BY <1>1, <1>3, MessageParts, MessageKinds DEF ToShim, ShimMsgs
  <2>2. \E b \in BOOLEAN : js' = Append(js, ToShim(h, b))
      BY <1>3 DEF OnRemoteDelta, Merge
  <2> QED
      BY <1>3, <2>1, <2>2
<1> QED
    BY <1>2, <1>3

LEMMA CallbackArrives ==
    ASSUME IInv, OnRemoteDelta
    PROVE  ArrivingText' /\ ArrivingNotes'
<1>1. TypeOK /\ ArrivingText /\ ArrivingNotes
    BY DEF IInv, Arriving, ArrivingText, ArrivingNotes
<1>2. /\ batch \in Seq(Deltas \cup NoteMsgs) /\ batch # <<>> /\ batch' = Tail(batch)
      /\ js \in Seq(ShimMsgs)
      /\ UNCHANGED <<client, active, know, assigning, out, server, editor>>
    BY <1>1 DEF OnRemoteDelta, TypeOK
<1> DEFINE h == Head(batch)
<1>3. PICK m \in ShimMsgs : /\ js' = Append(js, m)
                            /\ IsNote(m) <=> IsNote(h)
                            /\ IsNote(m) => m.note = h.note
                            /\ ~IsNote(m) => m.para = h.para /\ m.content = h.content
    BY <1>1, Passed
<1> HIDE DEF h
<1>4. ASSUME TextKnown', NEW p \in Paragraphs PROVE TextOnTheWay(p)'
  <2> DEFINE c == server[client].text[p]
  <2>1. TextOnTheWay(p)
      BY <1>1, <1>2, <1>4 DEF ArrivingText, TextKnown
  <2>2. /\ AllAbout(batch', p, c)
        /\ About(h, p) => h.content = c
        /\ SomeAbout(batch, p) <=> SomeAbout(batch', p) \/ About(h, p)
      BY <1>2, <2>1, AfterTail DEF TextOnTheWay, h
  <2>3. About(m, p) <=> About(h, p)
      BY <1>3 DEF About
  <2>4. CASE About(h, p)
    <3>1. LastAbout(js', p, c)
        BY <1>2, <1>3, <2>2, <2>3, <2>4, AfterAppend DEF About
    <3> QED
        BY <1>2, <2>2, <3>1 DEF TextOnTheWay
  <2>5. CASE ~About(h, p)
    <3>1. /\ LastAbout(js, p, c) => LastAbout(js', p, c)
          /\ SomeAbout(js', p) <=> SomeAbout(js, p)
        BY <1>2, <1>3, <2>3, <2>5, AfterAppend
    <3> QED
        BY <1>2, <2>1, <2>2, <2>5, <3>1 DEF TextOnTheWay
  <2> QED
      BY <2>4, <2>5
<1>5. ASSUME NotesKnown', NEW n \in server'[client].notes PROVE NoteOnTheWay(n)'
  <2>1. NoteOnTheWay(n)
      BY <1>1, <1>2, <1>5 DEF ArrivingNotes, NotesKnown
  <2>2. HasNote(batch, n) => HasNote(batch', n) \/ (IsNote(h) /\ h.note = n)
      BY <1>2, AfterTail DEF h
  <2>3. HasNote(js', n) <=> (HasNote(js, n) \/ (IsNote(h) /\ h.note = n))
      BY <1>2, <1>3, AfterAppend
  <2> QED
      BY <1>2, <2>1, <2>2, <2>3 DEF NoteOnTheWay
<1> QED
    BY <1>2, <1>4, <1>5 DEF ArrivingText, ArrivingNotes

\* The shim writes the next message into the document before the user.
LEMMA ShimArrives ==
    ASSUME IInv, ApplyRemoteChange
    PROVE  ArrivingText' /\ ArrivingNotes'
<1>1. TypeOK /\ ArrivingText /\ ArrivingNotes
    BY DEF IInv, Arriving, ArrivingText, ArrivingNotes
<1> DEFINE m == Head(js)
<1>2. /\ js \in Seq(ShimMsgs) /\ js # <<>> /\ js' = Tail(js) /\ m \in ShimMsgs
      /\ UNCHANGED <<client, active, know, assigning, out, batch, server>>
    BY <1>1, Messages DEF ApplyRemoteChange, TypeOK
<1>3. ASSUME active = client, client # NoDoc
      PROVE  /\ client \in AllDocs /\ editor[client] \in Doc /\ server[client] \in Copy
             /\ IsNote(m) => /\ editor'[client].text = editor[client].text
                             /\ editor'[client].notes = AddComment(editor[client].notes, m.note)
             /\ ~IsNote(m) => /\ editor'[client].notes = editor[client].notes
                              /\ editor'[client].text = [editor[client].text EXCEPT ![m.para] = m.content]
  <2>1. client \in AllDocs /\ editor[client] \in Doc /\ server[client] \in Copy
      BY <1>1, <1>3, TypedFunctions
  <2>2. CASE IsNote(m)
    <3>1. editor' = [editor EXCEPT ![client].notes = AddComment(@, m.note)]
        BY <1>3, <2>2 DEF ApplyRemoteChange
    <3> QED
        BY <1>1, <2>1, <2>2, <3>1, TypedFunctions DEF Doc
  <2>3. CASE ~IsNote(m)
    <3>1. editor' = [editor EXCEPT ![client].text[m.para] = m.content]
        BY <1>3, <2>3 DEF ApplyRemoteChange
    <3> QED
        BY <1>1, <2>1, <2>3, <3>1, TypedFunctions DEF Doc
  <2> QED
      BY <2>1, <2>2, <2>3
<1> HIDE DEF m
<1>4. ASSUME TextKnown', NEW p \in Paragraphs PROVE TextOnTheWay(p)'
  <2> DEFINE c == server[client].text[p]
  <2>1. TextOnTheWay(p) /\ active = client /\ client # NoDoc
      BY <1>1, <1>2, <1>4 DEF ArrivingText, TextKnown
  <2>2. editor[client].text \in [Paragraphs -> Contents]
      BY <1>3, <2>1 DEF Doc, Texts
  <2>3. SomeAbout(js, p) <=> SomeAbout(js', p) \/ About(m, p)
      BY <1>2, AfterTail DEF m
  <2>4. LastAbout(js, p, c) =>
            \/ LastAbout(js', p, c)
            \/ About(m, p) /\ m.content = c /\ ~SomeAbout(js', p)
      BY <1>2, AfterTail DEF m
  <2>5. About(m, p) => editor'[client].text[p] = m.content
      BY <1>3, <2>1, <2>2 DEF About
  <2>6. ~About(m, p) => editor'[client].text[p] = editor[client].text[p]
    <3>1. ~IsNote(m) => m.para \in Paragraphs
        BY <1>2, MessageParts
    <3> QED
        BY <1>3, <2>1, <2>2, <3>1 DEF About
  <2> QED
      BY <1>2, <2>1, <2>3, <2>4, <2>5, <2>6 DEF TextOnTheWay
<1>5. ASSUME NotesKnown', NEW n \in server'[client].notes PROVE NoteOnTheWay(n)'
  <2>1. NoteOnTheWay(n) /\ active = client /\ client # NoDoc
      BY <1>1, <1>2, <1>5 DEF ArrivingNotes, NotesKnown
  <2>2. editor[client].notes \in [Notes -> Nat] /\ n \in Notes
      BY <1>2, <1>3, <1>5, <2>1 DEF Doc, Copy
  <2>3. HasNote(js, n) => HasNote(js', n) \/ (IsNote(m) /\ m.note = n)
      BY <1>2, AfterTail DEF m
  <2>4. IsNote(m) /\ m.note = n => editor'[client].notes[n] > 0
      BY <1>3, <2>1, <2>2 DEF AddComment
  <2>5. editor[client].notes[n] > 0 => editor'[client].notes[n] > 0
    <3>1. IsNote(m) => m.note \in Notes
        BY <1>2, MessageParts
    <3> QED
        BY <1>3, <2>1, <2>2, <3>1 DEF AddComment
  <2> QED
      BY <1>2, <2>1, <2>3, <2>4, <2>5 DEF NoteOnTheWay
<1> QED
    BY <1>2, <1>4, <1>5 DEF ArrivingText, ArrivingNotes

LEMMA ArrivingStep == IInv /\ [Next]_vars => Arriving'
<1> SUFFICES ASSUME IInv, [Next]_vars PROVE ArrivingText' /\ ArrivingNotes'
    BY DEF Arriving, ArrivingText, ArrivingNotes
<1>1. TypeOK /\ SessionPlace /\ ArrivingText /\ ArrivingNotes
    BY DEF IInv, Arriving, ArrivingText, ArrivingNotes
<1>2. ASSUME NEW d \in AllDocs, OnDocumentOpened(d) \/ OpenFromOneDrive(d) \/ OnDocumentClosed(d)
      PROVE  ArrivingText' /\ ArrivingNotes'
    BY <1>1, <1>2, OpenedUnknown DEF ArrivingText, ArrivingNotes
<1>3. ASSUME UNCHANGED vars PROVE ArrivingText' /\ ArrivingNotes'
    BY <1>1, <1>3, TextAsBefore, NotesAsBefore DEF vars
<1> QED
    BY <1>2, <1>3, LocalArrives, RemoteArrives, PollArrives, CallbackArrives, ShimArrives
       DEF Next, Deliver

\* When nothing is on the way, the editor shows the server's text and comments.
THEOREM EditorMeetsServer == Spec => []InSync
<1>1. Init => IInv
  <2>1. ASSUME Init PROVE SessionPlace /\ Arriving
      BY <2>1, BridgeAssumption DEF Init, SessionPlace, Arriving, TextKnown, NotesKnown
  <2> QED
      BY <2>1, InitTyped DEF IInv
<1>2. IInv /\ [Next]_vars => IInv'
    BY TypedStep, PlaceStep, ArrivingStep DEF IInv
<1>3. IInv => InSync
  <2> SUFFICES ASSUME IInv, Quiet PROVE Shown
      BY DEF InSync
  <2>1. TextKnown /\ NotesKnown
      BY DEF Quiet, TextKnown, NotesKnown, NoText
  <2>2. client \in AllDocs /\ editor[client] \in Doc /\ server[client] \in Copy
      BY TypedFunctions DEF IInv, Quiet
  <2>3. \A p \in Paragraphs : TextOnTheWay(p)
      BY <2>1 DEF IInv, Arriving
  <2>4. \A p \in Paragraphs : editor[client].text[p] = server[client].text[p]
      BY <2>3 DEF Quiet, TextOnTheWay, SomeAbout, LastAbout
  <2>5. editor[client].text = server[client].text
      BY <2>2, <2>4 DEF Doc, Copy, Texts
  <2>6. \A n \in server[client].notes : editor[client].notes[n] > 0
      BY <2>1 DEF IInv, Arriving, Quiet, NoteOnTheWay, HasNote
  <2> QED
      BY <2>5, <2>6 DEF Shown
<1> QED
    BY <1>1, <1>2, <1>3, PTL DEF Spec
=============================================================================
