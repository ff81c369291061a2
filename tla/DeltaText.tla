------------------------------ MODULE DeltaText -----------------------------
(***************************************************************************)
(* The way of a text from one editor to another: written as JSON by the    *)
(* shim, searched for keys and unescaped by the client, escaped as XML,    *)
(* read by a co-author's client, written as JSON again, taken apart and    *)
(* put together by the bridge, and read by the shim there. Each hop has a  *)
(* writer or reader of its own. A text is a sequence of characters; a run  *)
(* of characters that only counts as a whole is one of them.               *)
(***************************************************************************)
EXTENDS Integers, SequencesExt

-----------------------------------------------------------------------------
(* Characters.                                                             *)

\* What stands for a character behind a backslash. JSON.stringify escapes all
\* of these, the bridge and the client all but "control"; tab and return are
\* treated as "newline" is.
Escape == [quote |-> "quote", backslash |-> "backslash", newline |-> "n", control |-> "u0001"]

\* What stands for a character behind an ampersand.
Entity == [amp |-> "amp;", lt |-> "lt;", quote |-> "quot;"]

EscapeAll_NoBackslash(text, chars) ==
    FlattenSeq([i \in DOMAIN text |-> IF text[i] \in chars \ {"backslash"}
                                      THEN <<"backslash", Escape[text[i]]>> ELSE <<text[i]>>])
EscapeAll(text, chars) ==
    FlattenSeq([i \in DOMAIN text |-> IF text[i] \in chars
                                      THEN <<"backslash", Escape[text[i]]>> ELSE <<text[i]>>])
JsonStringify(text) == EscapeAll(text, DOMAIN Escape)
JsonEscape(text)    == EscapeAll(text, DOMAIN Escape \ {"control"})

XmlEscape(text) ==
    FlattenSeq([i \in DOMAIN text |-> IF text[i] \in DOMAIN Entity
                                      THEN <<"amp", Entity[text[i]]>> ELSE <<text[i]>>])

\* From left to right, all entities in one pass.
UnescapeOnly(text, chars) ==
    LET stands(i, c) == i > 1 /\ text[i - 1] = "amp" /\ text[i] = Entity[c]
        is(i) == \E c \in chars : stands(i, c)
    IN  FlattenSeq([i \in DOMAIN text |->
            IF is(i) THEN <<CHOOSE c \in chars : stands(i, c)>>
            ELSE IF i < Len(text) /\ is(i + 1) THEN <<>> ELSE <<text[i]>>])
XmlUnescape_AmpFirst(text) ==
    UnescapeOnly(UnescapeOnly(text, {"amp"}), DOMAIN Entity \ {"amp"})
XmlUnescape(text) == UnescapeOnly(text, DOMAIN Entity)

-----------------------------------------------------------------------------
(* JSON texts and their readers.                                           *)

Member(key, value) == <<"quote", key, "quote", ":">> \o value
Quoted(chars)      == <<"quote">> \o chars \o <<"quote">>
JsonObject(members)    ==
    <<"{">> \o FlattenSeq([i \in DOMAIN members |->
                              (IF i = 1 THEN <<>> ELSE <<",">>) \o members[i]]) \o <<"}">>

ParagraphJson(n, chars) ==
    JsonObject(<<Member("paragraphIndex", <<n>>), Member("content", Quoted(chars))>>)
CommentJson(id, author, text) ==
    JsonObject(<<Member("type", Quoted(<<"comment">>)), Member("commentId", <<id>>),
             Member("author", Quoted(author)), Member("text", Quoted(text))>>)

\* std::string::find, 0 for npos.
FindIn(json, pattern) ==
    LET end(i) == i + Len(pattern) - 1
        at == {i \in DOMAIN json : end(i) <= Len(json) /\ SubSeq(json, i, end(i)) = pattern}
    IN  IF at = {} THEN 0 ELSE Min(at)

IsComment(json) == FindIn(json, Member("type", Quoted(<<"comment">>))) # 0

\* One character of a string; the other escapes stand for themselves.
ReadChar(s, c) ==
    CASE s.done                                 -> s
      [] ~s.done /\ s.escaped                   ->
            [s EXCEPT !.escaped = FALSE, !.out = Append(@, IF c = "n" THEN "newline" ELSE c)]
      [] ~s.done /\ ~s.escaped /\ c = "backslash" -> [s EXCEPT !.escaped = TRUE]
      [] ~s.done /\ ~s.escaped /\ c = "quote"     -> [s EXCEPT !.done = TRUE]
      [] OTHER                                  -> [s EXCEPT !.out = Append(@, c)]
ReadJsonString(json, from) ==
    LET read[i \in from - 1 .. Len(json)] ==
            IF i < from THEN [out |-> <<>>, escaped |-> FALSE, done |-> FALSE]
                        ELSE ReadChar(read[i - 1], json[i])
    IN  read[Len(json)].out

\* The value behind the first "key": there is.
FieldStr(json, key) ==
    LET at   == FindIn(json, Member(key, <<>>))
        open == SelectInSubSeq(json, at + 4, Len(json), LAMBDA c : c = "quote")
    IN  IF at = 0 \/ open = 0 THEN <<>> ELSE ReadJsonString(json, open + 1)
FieldInt(json, key) ==
    LET at == FindIn(json, Member(key, <<>>)) IN IF at = 0 THEN "0" ELSE json[at + 4]

-----------------------------------------------------------------------------
(* The hops of a paragraph.                                                *)

\* asc_onDocumentChanged and onLocalChange.
OnLocalChange(n, text) == ParagraphJson(n, JsonStringify(text))

\* sendDeltaImmediate: what the part has for the paragraph; the stub has one
\* paragraph only.
Put(json, loaded) ==
    [index |-> IF loaded THEN FieldInt(json, "paragraphIndex") ELSE "0",
     xml   |-> XmlEscape(FieldStr(json, "content"))]

\* pollGetChanges, with a document and without. The stub's reader takes the
\* text as it is written, and an empty one for none.
Polled(part) == ParagraphJson(part.index, JsonEscape(XmlUnescape(part.xml)))
PolledStub(part) ==
    IF part.xml = <<>> THEN <<>> ELSE ParagraphJson("0", JsonEscape(part.xml))

\* onRemoteDelta: parseDelta, the merge, serializeDelta.
ParseDelta(json) ==
    [paragraphIndex |-> FieldInt(json, "paragraphIndex"), content |-> FieldStr(json, "content")]
OnRemoteDelta(json, tracked) ==
    IF json = <<>> \/ IsComment(json) THEN json
    ELSE LET remote == ParseDelta(json)
             content == IF tracked THEN <<"TRACKED:">> \o remote.content ELSE remote.content
         IN  ParagraphJson(remote.paragraphIndex, JsonEscape(content))

\* The shim: a comment, a paragraph, or nothing. JSON.parse reads what the
\* bridge escapes as the bridge itself does.
IsTracked(content) == content # <<>> /\ Head(content) = "TRACKED:"
ApplyRemoteChange(json) ==
    IF json = <<>> THEN {}
    ELSE IF IsComment(json)
    THEN {[comment |-> FieldInt(json, "commentId"), author |-> FieldStr(json, "author"),
           text |-> FieldStr(json, "text")]}
    ELSE LET content == FieldStr(json, "content")
         IN  {[para |-> FieldInt(json, "paragraphIndex"), tracked |-> IsTracked(content),
               text |-> IF IsTracked(content) THEN Tail(content) ELSE content]}

ParagraphShown(n, text, loaded, tracked) ==
    LET part == Put(OnLocalChange(n, text), loaded)
    IN  ApplyRemoteChange(OnRemoteDelta(IF loaded THEN Polled(part) ELSE PolledStub(part), tracked))

-----------------------------------------------------------------------------
(* The hops of a comment, less its date, which travels as the author does. *)

OnAddComment(id, author, text) == CommentJson(id, JsonStringify(author), JsonStringify(text))

\* The author is escaped for XML and read back as it is written.
PolledComment(json) ==
    CommentJson(FieldInt(json, "commentId"),
                JsonEscape(XmlEscape(FieldStr(json, "author"))),
                JsonEscape(XmlUnescape(XmlEscape(FieldStr(json, "text")))))

CommentShown(id, author, text) ==
    ApplyRemoteChange(OnRemoteDelta(PolledComment(OnAddComment(id, author, text)), FALSE))
=============================================================================
