# OnlyOffice / Microsoft 365 co-authoring: verification project

TLA+ models of the co-authoring integration in
`src/staging/DesktopEditors/src/mscollab` and its editor shim
`src/staging/sdkjs/common/mscollab-shim.js`, the TLC runs that check them, and
theorems about them that TLAPS proves. `PROJECT.json` lists the runs, maps each
definition to the lines it translates, and lists the hazards, findings and theorems.

## 1. The system

OnlyOffice Desktop gets a bridge that joins a document stored in OneDrive to a
Microsoft FSSHTTP co-authoring session. Local edits go out as puts of whole
package parts, the edits of others are fetched by polling.

```
 sdkjs editor <-> mscollab-shim.js <-> IntegrationBridge --- MergeEngine
                  (messages in CEF)        |        |
                                   FsshttpClient   GraphApiClient, OneDriveDialog
                                     |       |             |
                     FsshttpSession  FsshttpSerializer   AuthModule - TokenStore - keyring
                     OoxmlDocument   FsshttpCellSubRequest
                                     FsshttpBinaryEncoder
```

| component | state it keeps | operations | what makes it correct |
|---|---|---|---|
| FsshttpSession | state, token, retry count | the `handle...` methods | a token exactly while joined; the third failed refresh in a row loses the session |
| FsshttpClient | the session, `m_running`, the queue of deltas, the document, the knowledge, two threads | joinSession, sendDelta, exitSession, heartbeatLoop (30 s), pollLoop (5 s) | no delta lost or put twice, no remote change skipped, every loss repaired or reported, exit last, calls return |
| FsshttpSerializer | none | requests to text, responses to flags | what counts as success |
| FsshttpBinaryEncoder, FsshttpCellSubRequest | none | the binary payload of a put and its extraction | the document is found again, whole, in its own put |
| OoxmlDocument | the text of two parts | paragraphs and comments by index and id, reading them back | an edit changes its paragraph and no other, and a peer reads just that |
| TokenStore | three secrets in the keyring | read, store, delete, isExpired | the expiry stored belongs to the token stored |
| AuthModule | none of its own | authenticate, accessToken, refreshTokens, logout | tokens returned are alive; the stored login remains usable |
| MergeEngine | none | merge | structural conflicts, and only those, are kept as tracked changes |
| IntegrationBridge | the one client, `m_localPath`, `m_lastLocalDelta` | onDocumentOpened, onDocumentClosed, openFromOneDrive, onOutgoingChange, onRemoteDelta | session, upload and changes belong to the right document |
| mscollab-shim.js | the callbacks it registered | outgoing changes, apply paragraph, apply comment | editor and server end with the same text, a comment is shown once |
| GraphApiClient | none | resolveWebUrl, listFolder, uploadFile | items whole and in order from any answer; upload to the right item |
| OneDriveDialog | the folder tree, two results; the temporary directory | expand, choose, download | the tree shows the drive, the file opened is the file chosen |

**Who runs what.** The UI thread calls the bridge and, through it, the client's
`joinSession`, `sendDelta`, `exitSession`. The heartbeat thread refreshes the session,
rejoins it with backoff (5, 10, 20 s, three attempts), flushes the queue and calls
`onSessionDropped`. The poll thread fetches changes and calls `onRemoteDelta`, which
merges them and posts them to the editor. All three call `accessToken()` through the
token provider. Only the queue has a mutex for its purpose; the session, the keyring
and `m_lastLocalDelta` are shared without one.

**Hard behaviours.** The caller and the heartbeat both flush and put; a poll answered
late falls into the session after a rejoin; responses of puts are ignored; the network
and the server's session go and come back; an exit meets a backoff or a request under
way; three threads refresh one token and rewrite the keyring secret by secret; a program
may end between two of those writes; local and remote edits cross; several documents
share one session; lengths and numbers of variable width meet in a search by signature;
XML is edited again and again by searching for tags; an answer of any server may end anywhere, and
is parsed nevertheless; a token request has no timeout; a disk may be full.
`PROJECT.json` "hazards" has each at its line.

## 2. Modules

| module | models | extended or instantiated by |
|---|---|---|
| `FsshttpSession` | the session automaton | `FsshttpClient` |
| `FsshttpClient` | client, threads, wire, server | `MCFsshttpClient`, `FsshttpClientProofs` |
| `CoauthChannel` | abstract: what a session promises the editor | instantiated in `FsshttpClient` |
| `FsshttpClientProofs` | the client's types, session, knowledge and deltas, the refinement and delivery without faults, proved | |
| `TokenStore` | the keyring and the clock | `AuthModule` |
| `AuthModule` | token life cycle on several threads, the token endpoint | `MCAuthModule`, `AuthModuleProofs` |
| `AuthModuleProofs` | types, refresh tokens and the life of access tokens, proved | |
| `MergeEngine` | `merge` | `IntegrationBridge` |
| `IntegrationBridge` | bridge, shim, editor, file, server | `MCIntegrationBridge`, `BridgeProofs` |
| `BridgeProofs` | types, upload, and editor against server, proved | |
| `FsshttpBinary` | the binary codec, as operators | `MCCodecs` |
| `FsshttpBinaryProofs` | the codec, the search and the layout for documents of every size, proved; extends `MCCodecs` | |
| `DeltaText` | a text's way through JSON and XML, as operators | `MCCodecs` |
| `TextProofs` | that texts of every length and content arrive, proved; extends `MCCodecs` | |
| `OoxmlDocument` | the two XML parts, their edits and their reading | `MCOoxmlDocument`, `OoxmlProofs` |
| `OoxmlProofs` | form, indices and refinement of edited parts, proved | |
| `PackageParts` | abstract: what an edit of a part promises | instantiated in `OoxmlDocument` |
| `GraphApiClient` | listing a folder, answers that fail, as operators | `OneDriveDialog` |
| `OneDriveDialog` | the dialog, the temporary directory | `MCOneDriveDialog`, `OneDriveDialogProofs` |
| `OneDriveDialogProofs` | the scan of answers, tree and choice, proved | |
| `SequenceLemmas` | induction, least and greatest places, `FlattenSeq` and folds, as lemmas | `OoxmlProofs`, `FsshttpBinaryProofs`, `TextProofs`, `OneDriveDialogProofs` |

`MC...` modules hold only the sets given to the constants and, for the codecs, a state
machine that walks through the inputs. Definitions named `X_Something` beside a
definition `X` are deliberately wrong variants: each property is known to fail when
one of them replaces `X` (`PROJECT.json` "mutants").

### FsshttpClient

Each thread has a program counter, and one action per stretch of code between two
points where another thread can be noticed. `FsshttpSession`'s methods assign its members without a
lock: `handleJoinResponse` on the heartbeat thread is two steps, first the token (`RejoinReturns`), then
state and count (`Rejoined`); so is `handleRefreshFailure`, first count and state (`RefreshReturns`),
then the token (`ForgetToken`). Assignments that no other thread reads between are one step. Taking and
releasing a mutex is one step with what it protects, and `post()` is two: the request goes on the wire
(`req`), and later its answer is read (`ans`).

| code | model |
|---|---|
| `m_session` | `state`, `sessionToken`, `retryCount` |
| `m_running`, `m_pendingDeltas`, `m_knowledgeB64`, `m_document` | `running`, `pending`, `knowledge`, `doc` |
| locals `attempt`, the swapped queue, the serialized part | `attempt`, `batch`, `payload` |
| `joinSession`, `sendDelta`, `exitSession` | `JoinSession`/`JoinReturns`, `SendDelta`/`QueueDelta`, `ExitSession`/`ThreadsJoined`/`ExitReturns` |
| `flushPendingDeltas`, `sendDeltaImmediate` | `SwapPending`, `ApplyDelta`, `PutChanges`, `PutReturns` |
| `heartbeatLoop` | `HeartbeatWakes`, `RefreshReturns`, `ForgetToken`, `BackoffEnds`, `RejoinReturns`, `Rejoined`, `ClearKnowledge` |
| `pollLoop` | `PollWakes`, `GetChanges`, `ChangesArrive`, `DeliverChanges` |
| server and network (external) | `Serve...`, `Lose`, `NetworkFails`, `NetworkRecovers`, `ServerForgets`, `RemoteEdit` |
| `post()` that ignores curl's result; the token provider it calls first | `Cut`; `TokenCallHangs`, `TokenCallEnds` |

A delta is a key (paragraph or comment) and a stamp from a clock shared with the remote author, so
that of two texts of one key the larger stamp is the newer. The server keeps a text per key and a
version. Knowledge is the version it covers. A thread that copies `m_sessionToken` while the
heartbeat assigns it may get neither value (`Torn`): there is no lock, and the string is not atomic.

An answer may be lost (`Lose`), which `post()` makes an empty string, or cut off. Where it is cut
matters for an answer to GetChanges only: between its knowledge, which is an attribute, and its
blobs (`Cut`). Cut elsewhere it reads like a whole answer or like none, a join without its token
fails, and a refresh whose `ErrorCode` is missing succeeds; the model has all these. What was
skipped that way is in the history variable `skipped`. A token request that hangs (`TokenCallHangs`)
may stay where it is for ever; it costs one fault.

`Loaded = FALSE` is the case where `loadDocument` failed and paragraphs are put as a
one-paragraph stub.

`Timely` chooses whether sleeps and timeouts order steps. With FALSE any thread may run
at any time, a superset of what real clocks allow: the properties that hold, hold then.
With TRUE (`Quiet`) a sleep ends only when nothing shorter is under way, so that the
disagreements found need no absurd timing.

`member`, `granted`, `mine`, `posted`, `seen`, `skipped`, `content`, `version`, `online`, `faults`
are the environment and history the properties speak of.

`CoauthChannel` is what the editor is promised: phases new, joined, lost, dropped and closed, and
deltas that are accepted, then put at most once, after the first join and before the close. A put
may fall into a time when the session is lost or dropped, for `isJoined()` is asked before the put
and not at it. `Phase` in `FsshttpClient` is the refinement mapping: "new" until the threads start,
"lost" while they have no session.

### TokenStore and AuthModule

Threads run `accessToken()`; thread "ui" also runs `isAuthenticated() || authenticate()` and
`logout()`. An access token is represented by its own expiry time, so that "alive" can be seen at
the moment it is returned; a refresh token by its issue number. The keyring's three secrets are
written one at a time (`todo`, `Write`). One tick is 30 s, half of the 60 s margin of `isExpired`
(`Margin = 2`). Curl has no timeout there, so a call may take any time; one that takes more than
`Patience` ticks is a fault (`Tick`). `faults` lists what went wrong so far: a request that did not
reach the endpoint, an answer lost after the endpoint acted, an answer cut off, a slow call, a crash
with restart, a revoked login, a keyring that fails. Of an answer that is cut off, `extract` takes a
value without its closing quote to be the rest of the text (`Truncated`): such a token is `Broken`.
The endpoint is assumed to name `expires_in` ahead of the tokens; cut off before them, the answer
has no token and fails, except that `std::stoll` throws in `authenticate` if the number itself is
missing, which is the end of the program (`Restart`). When the endpoint replaces a refresh token it
may revoke the old one or not.

### MergeEngine and IntegrationBridge

The UI thread runs every operation of the bridge but `onRemoteDelta`, which runs on the
poll thread. Two queues, `out` and `js`, are the messages between shim and bridge. A text
has a stamp, whether it is structural, and the stamp it was written over. Parts have
versions, because the server sends a whole part again when anything in it has changed.
The assignment of `m_lastLocalDelta` is two steps, and a reader between them may see either
value or none. The client is always joined and its network reliable here: what happens when they are
not is `FsshttpClient`'s subject. A comment is its id; a document as a file is its texts and its
comments, and an editor shows each comment a number of times. Echoes of applied changes are not
part of this module. Who calls the bridge is taken from the repository's integration
notes for `CAscApplicationManager` and the OneDrive toolbar action.

### FsshttpBinary

The codec byte by byte with the code's own widths: variable-length numbers, the 16-bit and
32-bit headers (the latter with 15 bits of length), the nesting of a put, base64 in both
directions, the reader of headers, numbers and ids, the search for the document by
signature, and the blobs of an answer with several payloads.

### DeltaText

A text passes seven writers and readers, each written by hand: `JSON.stringify` in the shim,
`jsonFieldStr`, `xmlEscape`, a peer's `xmlUnescape` and `jsonEscapeStr`, the bridge's `parseDelta`
and `serializeDelta`, and the shim again. Here a text is a sequence of characters in which what only
counts as a whole is one of them: a key, the rest of an entity, the marker `TRACKED:`. The
operators have the names of the functions; `ParagraphShown` and `CommentShown` are the whole way,
with a document loaded or without (the stub). Tab and return, which every hop treats as it treats
a newline, and `>` and `'`, which are escaped as `<` is, have no character of their own.

### OoxmlDocument and PackageParts

`m_documentXml` and `m_commentsXml` are sequences of the tags the code searches for: an
opening tag of a paragraph with or without attributes, its single-tag forms, longer names
that begin alike, the tag of an equation, a comment's tag with its id and author, the
ends. A text is a sequence of words, each one `<w:t>`; a reserved character is a word with the
number of times it was escaped. `Find` and `RFind` are `std::string::find` and `rfind` on
that level; `ApplyParagraphDelta`, `ApplyCommentDelta`, `ParseParagraphDeltas` and
`ParseCommentDeltas` are the four operations, and the two actions are the calls the client
makes of the first two. In `FsshttpClient` a document is its paragraphs and comments by key;
this module shows when that is right.

What paragraphs stand in has tags of its own, since an edit may lose them: the body with the part's
root, and tables, rows and cells, inside one another. `GoodDocument` is a part whose first and last
tags are the root's and the body's, whose cells are opened and closed in order (`Nested`), and whose
paragraphs are, one after another, with no cell's tag inside.

`PackageParts` is the promise: a list of paragraphs and a comment per id, of which an edit
changes the one it names. `asked` is the last change the editor asked for, so that the refinement
holds only if *that* paragraph was changed. The refinement mapping counts
paragraphs as the editor does and reads comments as a peer does.

### GraphApiClient and OneDriveDialog

An answer of the service is a sequence of braces, brackets, keys and characters of names, of
which the client may receive any beginning (`Answers`: `get` ignores curl's result), or an
error. `Scan` is the loop of `listFolder`, one character at a time.

| code | model |
|---|---|
| `m_tree`, the placeholder children | `tree`: per folder shown, the nodes below it |
| selection and `m_open` | `selected`, `openEnabled` |
| `exec()`, its result | `phase` |
| `m_selectedLocalPath`, `m_selectedWebUrl` | the variables of these names |
| `/tmp/.../mscollab/` | `files`; it outlives the dialog |
| constructor, `onItemExpanded`, selection, `onOpenClicked`, `reject` | `Construct`, `OnItemExpanded`, `Select`, `OnOpenClicked`, `Cancel` |

The dialog is modal and its requests block the UI thread, so its operations are atomic; what
interleaves is the user's order and the failures. A write of the downloaded file may fail, which the
code reports as a success (`Outcomes`); `unwritten` says that it did. Every file has a download
address, as the service gives it.

## 3. Runs

Every property is tied to a wrong variant of the code that it detects. State counts are
of distinct states, times with two workers.

### Runs that pass

| run | states | bounds | shows |
|---|---|---|---|
| `client_safety` | 1.6 M, 40 s | 1 paragraph, 2 edits, 2 faults, any timing | `TypeOK`; a token exactly while joined, but between two assignments (`SessionCoherent`); the heartbeat never sleeps on a lost session (`HeartbeatKeepsSession`); exit is last (`ExitIsLast`); drops are earned and final (`DropAfterAttempts`, `DropIsFinal`); every accepted delta is in exactly one place (`DeltaConservation`); nothing is skipped but by an answer that was cut off (`KnowledgeIsSeen`); with no fault all deltas arrive (`CalmSessionDelivers`); the client implements `CoauthChannel` (`ImplementsChannel`) |
| `client_liveness` | 221 k, 1.5 min | 1 paragraph put as a stub, 1 edit, 2 faults | if token requests end, calls return (`CallsReturn`), remote changes arrive if the network stays up and no answer was cut off (`ChangesReachEditor`), a lost session is rejoined, reported or closed (`ImplementsFairChannel`) |
| `auth_tokens` | 7.4 M, 75 s | 2 threads, 1 fault of any kind, 9 ticks of 30 s, tokens that live for 4, 2 refresh tokens | `TypeOK`; requests that fail and calls that are slow leave the keyring with a refresh token that is accepted (`LoginSurvives`); no token returned has expired, unless a call was slow, an answer cut off or the keyring failed (`TokensAreLive`) |
| `bridge_docs` | 295 k, 7 s | 2 cloud documents, 1 local, 3 opens, 1 edit | `TypeOK`; a close uploads the file of the session's own document, with no remote delta still being handed over (`UploadsOwnFile`) |
| `bridge_onedoc` | 1.8 M, 80 s | 1 document, 2 paragraphs, 1 comment, 2 edits, 2 opens | at rest editor and server agree and every comment is shown (`InSync`), and everything under way arrives (`EditsMeet`) |
| `codecs` | 3527, 25 s | 143 sizes, 4 contents; texts of at most 3 of 14 pieces | a document is found whole in an answer with its put (`PayloadFound`); a put read back is the layout of the comment above `buildPutChanges` (`LayoutReadsBack`); base64 is inverted (`Base64Decodes`); a paragraph's text and a comment's arrive as they were typed (`TextArrives`, `CommentArrives`) |
| `ooxml_edits` | 4381, 1 min | 4 files and none, 3 edits of 4 indices, 2 comment ids, 2 authors, 2 texts | parts stay well formed: each tag has its partner, no paragraph or entry is inside another, cells, body and root keep their ends (`WellFormed`); a peer's index of a paragraph is the editor's (`IndicesMatch`); each change is the one asked for, of that paragraph or comment and no other (`ImplementsParts`) |
| `onedrive_dialog` | 5838, 9 s | a drive of 3 folders, 3 items to a page, 2 dialogs, 2 faults | each folder shows its placeholder or the first items of its page, whole, once and in order (`TreeShowsDrive`); from an answer cut off anywhere the scan reads a beginning of the folder's items, each whole (`ShownPagesRead`); an accepted dialog names the document selected, and its file holds it, the page that refused it, or a part if a write failed (`AcceptedIsChosen`) |

*Why the bounds suffice.* A fault of the client's world is a cause, not each request it spoils: a
server that forgets the session makes three refreshes fail, a lost network all three rejoins, so two
faults reach every place of the heartbeat's loop, the drop included. Two edits give every order of
two deltas of one paragraph, and of a local and a remote one, which is what queue, flush and put can
confuse; two paragraphs meet in `client_remoterevert`. The client's runs have no comment: with
`MCComments` `client_safety` has 5.6 million states and passes too, but takes four times as long,
and the theorems about the client are for any paragraphs and comments. Two threads are the smallest
number for every interleaving of keyring writes; the theorem about refresh tokens covers any number
of threads and of faults. Nine ticks cover two lifetimes of a token, and the life time of four
exceeds the margin by two ticks, in which the token is used. Two documents and a local one cover
each combination of "the session's", "another" and "none". Codec sizes lie on both sides of each
size where a header or a number changes its width, to 32764 bytes, the last that the header's length
can say. The theorems about the codec cover all sizes between, those about texts all texts. The
pieces of a text are what some reader searches for; three of them put one between two others, and a
search that goes wrong does so at the first. Three edits let one edit find what two others left, of
one paragraph or of two comments; the files have empty paragraphs, equations and cells inside one
another in different positions, and the form that is a single tag with attributes is in the files of
`ooxml_emptypara`. Two dialogs are what a file left behind needs, two faults a refused folder and a
failed download.

### Runs that show a disagreement

Each checks one statement of the repository about itself and finds it violated. The
statement and the line where the code departs from it are in `PROJECT.json` "findings".
These runs take the smallest instance that shows the behaviour.

| run | property | what happens |
|---|---|---|
| `client_networkloss` | `LossIsQueued` | the answer of a put is ignored: lost on the network, it is in no queue |
| `client_remoterevert` | `UntouchedTextSurvives` | remote paragraphs never enter `m_document`, so the next put takes them back |
| `client_cutanswer` | `CoauthorsDeltaIsApplied` | an answer cut off behind its knowledge takes it past a co-author's change that was not handed over |
| `ooxml_emptypara` | `OthersKeepText` | an empty paragraph as Word writes it, `<w:p w:rsidR="..."/>`, takes the next one with it when it is edited |

`CHECK_DEADLOCK FALSE` stands in the configurations of the bridge, the document and the dialog
only: a user may close everything, or edit no more, and stop.

### Departures without a run

The models contain these too, and they explain why some properties are no stronger.

- `AuthModule.cpp:139`, `201`: curl is given no timeout, so a call may outlast the margin of 60 s or
  the token, and accessToken() then returns an expired one; and `post()`, which calls the token
  provider, may hang, and with it `exitSession`, which joins its thread. `TokensAreLive` is claimed
  until a call is slow, `CallsReturn` if token requests end.
- `AuthModule.cpp:207`: a refresh token that was cut off is stored over the one that worked, and an
  answer that is lost after the endpoint replaced the refresh token leaves one that is accepted no
  more. `LoginSurvives` leaves both out.
- `AuthModule.cpp:208`, `164`: an access token that was cut off is stored and returned, as
  `extract` needs no closing quote. `TokensAreLive` leaves such an answer out.
- `AuthModule.cpp:235`: a stored access token counts as a login. After a revocation `accessToken()`
  returns nothing while `isAuthenticated()` holds, so nobody is asked to sign in again.
- `AuthModule.cpp:240`: a refresh under way on another thread stores its tokens after `logout()`.
- `FsshttpClient.cpp:315`: a put may carry an old, empty or torn session token, and may go out after
  the session was lost, for nothing holds the session between `isJoined()` and the request.
- `FsshttpClient.cpp:166`: leaving the backoff because the document is being closed also reports
  the session dropped, hence "or `~running`" in `DropAfterAttempts`.
- `FsshttpClient.cpp:217`: an answer that arrives after the rejoin puts the old session's
  knowledge in place of the root the rejoin has set. `KnowledgeIsSeen` still holds: nothing is skipped.
- `FsshttpClient.cpp:161`: after a rejoin the heartbeat flushes old deltas while the caller
  already sends new ones, so an older text of a paragraph may be put last.
- `FsshttpClient.cpp:329` with `loadDocument` failed: a change of any paragraph puts a stub of
  one paragraph in place of the document. `CalmSessionDelivers` claims only comments then.
- `FsshttpClient.cpp:255`: `isJoined()` is tested before the lock is taken, so a delta queued just
  after the rejoin's flush stays queued until the next rejoin, in a joined session, against
  `FsshttpClient.h:31`.
- `TokenStore.cpp:33`: if the keyring fails to store the access token and then stores its expiry,
  the old token is returned as alive. `TokensAreLive` is claimed while the keyring works.
- `IntegrationBridge.cpp:94`: only the last local delta is compared, and it is never cleared. A
  simultaneous structural change of a paragraph edited before that one is applied plainly,
  against the design's "both versions preserved"; and one whose author had seen the local
  change is marked as a conflict.
- `IntegrationBridge.cpp:83`, `127`: one client serves all documents. Closing any document, or opening a
  second, ends the session of a document that stays open, against the design's "Exit ... Document
  close".
- `IntegrationBridge.cpp:134`: the upload on close replaces text of co-authors that is newer than
  the last save. `UploadsOwnFile` says which document is replaced, not by how old a text.
- `FsshttpClient.cpp:310`: a put of the comments takes back comments co-authors have added since the
  document was loaded, as with paragraphs; `InSync` claims that what the server has is shown.
- `IntegrationBridge.cpp:35`, `FsshttpClient.cpp:281`: the readers know no `\u` escape, so a control
  character other than newline, return and tab arrives as the letters "u0001". `TextArrives` and
  `CommentArrives` leave it out.
- `mscollab-shim.js:95`: a text that begins with "TRACKED:" loses it and is shown as a tracked change.
  `TextArrives` claims it as text anywhere else, and at the start of a change that is tracked.
- `FsshttpClient.cpp:392`, `395`, `396`: without a document loaded the text keeps its XML entities,
  an empty text is not delivered, and the paragraph becomes the first.
- `mscollab-shim.js:59`: `applyRemoteComment` adds comments it has added before; `InSync` claims
  that each is shown at least once.
- `FsshttpBinaryEncoder.cpp:100`: from 32765 bytes on the body's length does not fit its 15 bits
  and the document is not found in its own put.
- `FsshttpCellSubRequest.cpp:331`: the bytes of the size 28920 read as a header, so a second blob
  is extracted besides the document. `PayloadFound` claims that the document is among the blobs.
- `OoxmlDocument.cpp:99`, `142`: a paragraph inside a text box ends its host as `<w:p .../>` does in
  `ooxml_emptypara`; the model has no nested paragraphs.
- `OoxmlDocument.cpp:145`: `<w:p .../>` as a file's last paragraph takes all behind it along when it
  is edited, `</w:body></w:document>` too. `WellFormed` is about files without such paragraphs.
- `OoxmlDocument.cpp:99`: `<w:p/>` is not counted, so an edit behind it changes another paragraph
  than the editor's. `ImplementsParts` is about files without single tags.
- `OoxmlDocument.cpp:134`: an added paragraph goes behind the section's properties, which must be
  the body's last element.
- `OoxmlDocument.cpp:295`, `354`: a comment's author is escaped and never unescaped, so an
  ampersand gains a disguise with each reading; `MCOoxmlDocument` has plain authors.
- `OoxmlDocument.cpp:303`: an entry without a body (`<w:comment .../>`) ends, for the removal of its
  id, with the next entry; the files have such an entry under an id that is not edited.
- `GraphApiClient.cpp:137`: braces in a name are counted; a name in which they do not balance
  spoils the list. The drive of `MCOneDriveDialog` has names in which they do.
- `GraphApiClient.cpp:55`: a list cut off by the timeout is shown as if it were all; and
  `GraphApiClient.cpp:124`: of a folder with several pages only the first is shown. `TreeShowsDrive`
  claims a beginning.
- `OneDriveDialog.cpp:101`: after a failed request a folder is empty and is never tried again.
- `OneDriveDialog.cpp:13`, `161`: a failed write is no failure to the download, so on a full disk the
  dialog is accepted with a part of the document. `AcceptedIsChosen` allows it once a write failed.
- `OneDriveDialog.cpp:159`: what a server says in place of a document (an expired address) is
  downloaded as the document; `AcceptedIsChosen` allows it.
- `OneDriveDialog.cpp:147`: two documents of one name share the temporary file, so picking
  the second replaces the first under the editor that has it open.

## 4. Fairness

`FsshttpClient!Fairness` is weak fairness of the caller's, the heartbeat's and the poll thread's
steps (threads run, sleeps and joins end) and of the wire (a request that is on it is answered, or
`CURLOPT_TIMEOUT`, 30 s, ends it). Nothing makes the editor edit, join or exit, the network recover,
or the server keep a session. `ChangesReachEditor` is stated for runs in which the network stays up
from some time on.

No fairness ends the token request that `post()` makes first: it has no timeout. That such requests
end (`TokenCallsEnd`) is a hypothesis of the properties of `client_liveness`, visible in each of
them, and not of the specification: with a request that hangs for ever `exitSession` does not
return.

`IntegrationBridge!FairSpec` is weak fairness of the message loops on both sides, of the poll
thread and of `OnOutgoingChange`/`SendDelta`/`OnOutgoingComment`. The user is never obliged to anything.

`AuthModule`, the codecs, the document and the dialog have no fairness.

## 5. Proofs

The seven modules `...Proofs` and `SequenceLemmas` are checked to the last leaf by tlapm with Z3,
Zenon and LS4. They have no bound: documents, threads, faults, edits and drives are any sets and
numbers that the assumptions allow. Each inductive invariant was checked by TLC on a small instance
before it was proved, and the proofs go action by action.

| theorem | states | of |
|---|---|---|
| `TypeCorrect`, `TokenIffJoined`, `NoSilentLoss`, `NothingAfterExit`, `DropsAreEarned`, `NothingSkipped`, `DropStays` | `TypeOK`, `SessionCoherent`, `HeartbeatKeepsSession`, `ExitIsLast`, `DropAfterAttempts`, `KnowledgeIsSeen`, `DropIsFinal` | `FsshttpClient` |
| `NoDeltaLostOrDoubled`, `ClientImplementsChannel` | `DeltaConservation`, `ImplementsChannel` | `FsshttpClient` |
| `CalmClientDelivers` | `CalmSessionDelivers` | `FsshttpClient` |
| `TypeCorrect`, `RefreshTokenSurvives` | `TypeOK`, `LoginSurvives` | `AuthModule` |
| `ReturnedTokensAreLive` | `TokensAreLive` | `AuthModule` |
| `BridgeTypeSafe`, `ClosingUploadsOwnFile`, `EditorMeetsServer` | `TypeOK`, `UploadsOwnFile`, `InSync` | `IntegrationBridge` |
| `PartsStayWellFormed`, `IndicesAlwaysMatch`, `PartsAreImplemented` | `WellFormed`, `IndicesMatch`, `ImplementsParts` | `OoxmlDocument` |
| `BuffersDecode`, `PutsAreFound`, `PutsReadBack` | `Base64Decodes`, `PayloadFound`, `LayoutReadsBack` | `MCCodecs` |
| `TextsArrive`, `CommentsArrive` | `TextArrives`, `CommentArrives` | `MCCodecs` |
| `Base64Inverse`, `NumberReadsBack`, `HeaderReadsBack`, `DocumentCounts`, `PutIsFound` | statements about every input, of no run | `FsshttpBinary` |
| `NothingIsMisread`, `TreeIsOfTheDrive`, `AcceptedWasChosen` | `ShownPagesRead`, `TreeShowsDrive`, `AcceptedIsChosen` | `OneDriveDialog` |

*Induction.* A fact about every sequence is proved by stating for which lengths it holds and
citing `SequenceLemmas!Induction`, whose parameter is a set of naturals. What a recursive function
yields follows from its equation, by the same lemma. `FlattenSeq` and `FoldSeq` are
reduced to such a function once, there.

### The client, for any document and any number of edits and faults

Assumption: `ClientAssumption` (0 is a paragraph, comments are no paragraphs, the bounds
are naturals). The inductive invariant `IInv` of `FsshttpClientProofs` is `TypeOK` with

- `ThreadsOwnLabels`, `RequestsFollowLabels`: which thread can be where, and which request
  it has out there. Without them an answer could be read by code that never asked.
- `GrantsCarryTokens`: a successful join answer carries a token; `SessionCoherent` after
  `JoinReturns` and `Rejoined` rests on it.
- `SessionPlace`, `ExitPlace`, `DeliveryPlace`, `BatchHeld`: what the place of a thread says
  about the session, `m_running`, the version handed over and the batch it holds.
- the properties `SessionCoherent`, `HeartbeatKeepsSession`, `DropAfterAttempts`,
  `KnowledgeIsSeen`, which are not inductive by themselves. The last is claimed but for `skipped`, and
  `DeliveryPlace` says that only an answer that was cut off sets it.

*Deltas and refinement.* `ChannelInv` adds where deltas are: queued, in the batch of the caller, in
that of the heartbeat, or put, these four disjoint and without repetition (`OnePlace`); and that
only a thread on its way from `SwapPending` to `PutReturns`, or about to queue, holds any
(`BatchPlace`). Only `SendDelta`, `QueueDelta`, `SwapPending`, `PutChanges` and `PutReturns` touch
these; one lemma (`QuietStep`) serves all other steps. `DeltaConservation` is about numbers of
deltas, and follows by counting disjoint sets. For the refinement, `StepSimulated` maps each step:
`SendDelta` accepts, `PutChanges` puts, `JoinReturns`, `RefreshReturns`, `BackoffEnds`,
`RejoinReturns`, `Rejoined`, `ThreadsJoined`, `ExitReturns` change the phase, all else stutters. The
refinement of `CoauthChannel`'s safety part is what is proved; its fairness is not. The channel
allows a put while the session is lost or dropped, as the code does: what is proved is at most once,
not before the first join, not after the close.

*Without faults.* `CalmSessionDelivers` speaks of states in which
nothing has gone wrong, so its invariant is `faults = 0 => Calm`. `Calm` says
how far the session is between caller, heartbeat and server (`SessionCalm`: not asked for,
granted and not taken up, in use, given up, over), that the queue is in the order of the
edits and everything put is older than what waits (`QueueInOrder`), that the document
and the part about to be put have the last text of each key that was put (`DocumentCurrent`), and that
each delta put is on the server, is overwritten there by newer text, or is on the wire in a part
that has it (`PutsArrive`). The last two carry the argument: a put replaces the part as a whole,
so it must not take back an earlier put of another key.

### The tokens, for any set of threads and any lifetime

Assumptions: `AuthAssumption`, `MarginAssumption`. `TypeCorrect` is inductive with the link between
a thread's place and its remaining writes. `RefreshTokenSurvives` needs `Custody`. A thread *holds*
a refresh token that was issued to it and is not stored yet. Held tokens are accepted by the
endpoint, are held by one thread, and are neither read by another nor in the keyring; and the token
in the keyring is accepted or a thread holds its replacement. `Stages` and `Numbered` tie places to
what threads hold and tokens to their numbers. Every step either keeps quiet about tokens, issues
one, stores one, or loses one to a fault (`EveryStep`); each class preserves `Custody`. `Custody` is
claimed as long as the only faults are requests that did not reach the endpoint and slow calls
(`Reliable`): with an answer lost or cut off after the endpoint granted it, a crash or a revocation
the login can be lost, and is.

`ReturnedTokensAreLive` is about behaviours up to the first call that is slow. `PromptCalls` says
what slow is: beyond half of the margin of 60 s, or half of a token's life. Nothing in the code
prevents such a call (curl has no timeout there), the model has it, and after it the property claims
nothing. The limit is not a loose one: the writes of access token and expiry by several threads
interleave, the keyring may end with the older thread's token and the younger one's expiry, and the
two differ by up to the time of one call, to which the reader's own call comes. `auth_tokens` runs
with values that meet it. The invariant `LifeInv` says how far an expiry may lie ahead (`Timed`),
and that the token stored outlives the expiry stored, whichever threads wrote them, less the time of
one call (`Matched`). It is claimed while the keyring works and no answer was cut off.

### The bridge, for any documents, paragraphs and comments

Assumption: `BridgeAssumption` (finite sets of paragraphs and comments; local documents are not in
the cloud). `TypeOK` is inductive with `SessionPlace`: the session is that of an open document and
of the file to be uploaded, and knows no version the server has not reached; `UploadsOwnFile`
follows. For `InSync`, `Arriving` generalises it to every state: of a part whose last version the
client has seen, and to which no local change is under way, the editor *will* show what the server
has once all is handed over: each paragraph's text is in the batch, or is the last of that paragraph
among the messages to the shim, or is shown; and so is each comment. Where nothing is on the way
this is `InSync`. `ServerGrows` (no version of a part goes down, and another part has a higher
version) is why a part that is overtaken is no longer known.

### The document's parts, for any file and any edits

Assumption: `FilesAssumption`, the files are well formed when they are loaded. A part may be cut
where no pair of tags is open (`Outside`); what is before such a cut and behind it is balanced
(`CutBalanced`), and balanced pieces make a balanced part (`JoinedBalanced`). `Cuts` says where that
is: before a tag that opens, behind one that closes, at a single tag and at the end; "OOXML does not
nest" is used here. The rest is that the searches find such places: the least and greatest position
(`SmallestOf`, `LargestOf` of `SequenceLemmas`). That the `/body` and the root's tags stay where
they are is part of the invariant, since `rfind` relies on it. The tags of cells are counted in what
is left of a part without all others (`Frame`): an edit takes none away, for no paragraph has one
inside.

`PartsStayWellFormed` has the hypothesis `NoSingleTags`: no paragraph of the files is `<w:p .../>`.
It is needed: edited as a file's last paragraph, such a one takes the end tags with it.

`PartsAreImplemented` has the hypothesis `PlainFiles`: authors need no escape, no file has a
paragraph that is a single tag, and no file has two entries for one of the ids edited, or one
without a body. Each is one of the disagreements of section 3: an author is escaped again with every
reading, `<w:p .../>` and `<w:p/>` shift the cut and the count, and of two entries of one id only
the first is replaced. The files of `ooxml_edits` meet it. `IndicesAlwaysMatch` has no hypothesis:
the property itself is about parts without single tags. What a peer reads from a part is a
concatenation of one short list per tag: the list of a paragraph at its opening tag, nothing at any
other. An edit cuts the part at two places and changes what is between, so what is read before and
behind is what it was; that the text put comes back word for word is an induction over its words.
`SharedInv` is the invariant of both theorems.

### The dialog, for any drive

Assumption: `DriveAssumption` (the drive is a tree with a root). The theorems have the hypothesis
`NamesFit`: no name has a quote or the key of folders in it, and the braces of a name balance and
open first. The scan counts braces in names, so without it an item would be cut in two (section 3).
`MCOneDriveDialog` states it for its drive, names with braces included. `NothingIsMisread` follows
the scan over an answer cut off anywhere: item by item, and in an item brace by brace, the depth
being what has been opened less what has been closed. It yields a beginning of the folder's items,
each whole, and the other two theorems rest on that. The invariant says that each folder in the tree
has its placeholder or a beginning of its own items, below the folder that shows it (`GoodTree`),
that what is selected while the button is enabled is a document of the drive (`Chosen`), and what an
accepted dialog holds (`Accepted`): the document, the page of a server that refused it, or, if
writing failed, a part.

### The codec, for every size

No assumption on the constants. Buffers are sequences of bytes; the limits are the code's own: a
header's length has 15 bits, so a document has 1 to 32764 bytes (its size number takes 3 more at
most). The search reads numbers of up to ten bytes; those that `NumberReadsBack` shows to be read as
they were written are below 2^28, and a larger one is only `Huge`, for no object is that long.

- `Base64Inverse`: by groups of three bytes and four characters, the last with its padding.
- `NumberReadsBack`, `HeaderReadsBack`: `StandsAt` says that a part stands in a buffer at a place,
  so what is before it and behind it does not matter. A number is read by finding the group with the
  end bit (`EndsFound`) and adding up the groups (`GroupsAddUp`); a header in its short form and in
  its long one.
- `DocumentCounts`: what `encodeObjectData` writes is an object to the reader, from which the
  document is cut whole.
- `PutIsFound`: the whole way. A put is cut into what is before its object, the object and
  the rest (`PutParts`); its base64 decodes to itself, and the object in it is found at its place.
- `BuffersDecode` is the run's property. Its hypotheses (sizes from 0 to 32764, fills that are bytes or
  `Mixed`) are on the constants of `MCCodecs` and are met by the run's values.
- `PutsAreFound`: the scan of `extractOoxmlBlobs` *arrives* at the document's object, and nothing
  before it is taken for one. Only the bytes of a size can look like an object's header there: sizes
  of one and two bytes make none, and the object that a size of three bytes can make ends before the
  document begins. The search is followed from the object backwards (`Backwards`). What the limit is
  for shows here: a document has at most 32764 bytes (`MaxSize`).
- `PutsReadBack`: the reading of a put's layout is a function from part to part (`ReadLayout`). Each
  part's reader ends exactly behind what its writer wrote, and the 27 parts are chained.

### Texts, of every length and content

No assumption: the invariant is that an input of the run is a sequence of its pieces, of any number,
and the lemmas are about any sequence over an alphabet that has the marks of JSON and XML. The
argument has four parts.

- *What is escaped comes back.* `StringReadsBack`: behind its first quote, a string is read
  character by character to its own end, whatever precedes or follows, for all who escape quotes and
  backslashes (`Escapes`). `XmlReadsBack`: unescaping in one pass undoes escaping, since an escaped
  text never ends in an ampersand that waits for its entity (`Complete`). Both are inductions over
  the text.
- *No quote stands bare.* In an escaped text each quote has a backslash before it (`QuotesHidden`).
- *Keys are found where they were written.* `ParagraphShape` and `CommentShape` say what stands at
  each place of the two objects. A key ends in a quote that has no backslash before it, so it cannot
  end inside a text, and of the quotes outside the texts only a key's own has that key before it and
  a colon behind it (`ParagraphKeys`, `CommentKeys`). So `FindIn` yields that place, and a paragraph
  is never taken for a comment.
- *The hops are composed* (`LoadedShown`, `StubShown`, `CommentIsShown`).

Texts with other control characters, a leading marker and, for the stub, entities and empty texts
are excepted, as in the properties themselves (section 3).

### What only TLC checks

- Liveness and everything under fairness, and `ENABLED`, are out of this prover's reach: `CallsReturn`,
  `ChangesReachEditor`, `ImplementsFairChannel`, `EditsMeet`.
- That nobody gets stuck, where deadlock is checked.

Every other property of the passing runs (invariants, action properties, refinements without
fairness) is also a theorem, under the hypotheses named above.

## 6. What is not modelled

- The text of the SOAP requests and responses: the models keep which request, which fields, and
  success or failure. `DeltaText` has the text of deltas and of what is put for one; a comment's
  date is left out, which travels as the author does.
- The server's acting on a request after the client's timeout. The order of answers and
  timeouts is free, but a request that timed out has no later effect.
- In `OoxmlDocument`: unzipping, runs and their properties, dates, namespaces, an entry of
  `comments.xml` whose id is not its first attribute or no number, nested paragraphs.
- The PKCE verifier, URLs, and the loopback socket of `authenticate`.
- Numbers of 2^28 and more in the codec, which are one value (`Huge`), and finding the base64 text in a
  response (`parseGetChangesResponse`, which nothing calls).
- `resolveWebUrl`: in `IntegrationBridge` it succeeds for a document of the OneDrive folder and fails
  for others; cutting the path at the folder's name, at its first occurrence, is a matter of text.
- Labels, the status line and message boxes of the dialog.
- The client id, and whether applying a remote change fires the editor's change callback, which
  depends on code that is not in the repository. `STRUCTURAL_` is a Boolean of a text in
  `IntegrationBridge`: where it comes from is not in the repository either.
- Selection and undo groups of the shim.
- The vendored editor sources, build files, configuration, tests and documents have no state;
  tests and documents are read as statements about the code.

## 7. Plan

Modelled first, because the rest depends on it: session and client, then tokens, bridge
and codecs, then the document's parts and the dialog. All of these are done. Next:

1. Theorems still missing: that no delta goes out on behalf of a document that is closed, once
   client and bridge are composed.
2. Compositions: client with tokens (an exit that waits for a token request without a
   timeout; a sign-out that races a refresh), bridge with client (a drop while a document is
   open, a change of one document in another's session).
