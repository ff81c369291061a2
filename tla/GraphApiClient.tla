--------------------------- MODULE GraphApiClient ---------------------------
(***************************************************************************)
(* Listing a OneDrive folder: the service's answer, and the scan by which  *)
(* the client finds the items in it. An answer is a sequence of the        *)
(* characters and keys the scan looks at; a name is a sequence of          *)
(* characters, brackets among them.                                        *)
(***************************************************************************)
EXTENDS Integers, SequencesExt

CONSTANTS
    Drive,      \* for the path of each folder its items, [name, folder]
    PageSize    \* items of one answer

-----------------------------------------------------------------------------
(* The service.                                                            *)

Json(item) ==
    <<"{", "name:">> \o item.name \o <<"quote">>
    \o <<IF item.folder THEN "folder:" ELSE "file:", "{", "}", "}">>

\* The first page of a folder's items.
Response(path) ==
    LET page == SubSeq(Drive[path], 1, Min({PageSize, Len(Drive[path])}))
    IN  <<"value:[">> \o FlattenSeq([i \in DOMAIN page |-> Json(page[i])]) \o <<"]">>

\* What get() may return: the answer, or in a fault nothing, an error without
\* items, or the part that came before the timeout.
ErrorAnswer == <<"{", "error:", "{", "}", "}">>
Answers(path) ==
    {ErrorAnswer} \cup {SubSeq(Response(path), 1, n) : n \in 0 .. Len(Response(path)) - 1}

-----------------------------------------------------------------------------
(* The client.                                                             *)

\* jsonString of "name": from the first such key to the next quote.
NameOf(json) ==
    LET from == SelectInSeq(json, LAMBDA c : c = "name:") + 1
        end  == SelectInSubSeq(json, from, Len(json), LAMBDA c : c = "quote") - 1
    IN  SubSeq(json, from, end)

ParseDriveItem(json) == [name |-> NameOf(json), folder |-> Contains(json, "folder:")]

\* One character of the loop. An item ends where the braces opened since its
\* start are closed; a bracket outside of items ends the loop.
ScanStart == [depth |-> 0, current |-> <<>>, inObject |-> FALSE, items |-> <<>>, done |-> FALSE]

Closes_AtFirst(s) == TRUE
Closes(s) == s.depth = 1
Scan(s, c) ==
    CASE s.done -> s
      [] ~s.done /\ c = "{" ->
            [s EXCEPT !.depth = @ + 1, !.inObject = TRUE, !.current = Append(@, c)]
      [] ~s.done /\ c = "}" /\ s.inObject /\ ~Closes(s) ->
            [s EXCEPT !.depth = @ - 1, !.current = Append(@, c)]
      [] ~s.done /\ c = "}" /\ s.inObject /\ Closes(s) ->
            [s EXCEPT !.depth = 0, !.current = <<>>, !.inObject = FALSE,
                      !.items = Append(@, ParseDriveItem(Append(s.current, c)))]
      [] ~s.done /\ c = "]" /\ s.depth = 0 -> [s EXCEPT !.done = TRUE]
      [] OTHER -> IF s.inObject /\ ~s.done THEN [s EXCEPT !.current = Append(@, c)] ELSE s

\* Nothing without "value"; a failed request is a folder without items.
ListFolder(answer) ==
    LET value == SelectInSeq(answer, LAMBDA c : c = "value:[")
        scan[i \in value .. Len(answer)] ==
            IF i = value THEN ScanStart ELSE Scan(scan[i - 1], answer[i])
    IN  IF value = 0 THEN <<>> ELSE scan[Len(answer)].items
=============================================================================
