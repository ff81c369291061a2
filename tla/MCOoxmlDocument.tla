--------------------------- MODULE MCOoxmlDocument --------------------------
(***************************************************************************)
(* Small documents: paragraphs of no, one or two runs, with properties and *)
(* an equation, in cells inside one another, empty ones in the forms XML   *)
(* has for them; comments parts with and without a comment and its body.   *)
(***************************************************************************)
EXTENDS OoxmlDocument

CONSTANTS a, b

Para(content) == <<Tag("p")>> \o content \o <<Tag("/p")>>
A     == Para(<<Run(a)>>)
AB    == Para(<<Tag("pPr"), Run(a), Run(b)>>)
Amp   == Para(<<Run(1)>>)
Empty == Para(<<>>)
Math  == Para(<<Run(a), Tag("oMath")>>)
Word  == <<Tag("p .../")>>      \* <w:p w:rsidR="..."/>

Cell(content) == <<Tag("tc")>> \o content \o <<Tag("/tc")>>
Body(content) == <<Tag("body")>> \o content \o <<Tag("sectPr"), Tag("/body")>>

Part(entries) == <<Tag("comments")>> \o entries \o <<Tag("/comments")>>
Bare(id) == <<[tag |-> "comment/", id |-> id, author |-> a]>>

File(document, comments) == [document |-> document, comments |-> comments]

OpenFiles ==
    {File(Body(A \o AB), Part(<<>>)),
     File(Body(Math \o Empty \o Amp), Part(Entry(1, a, <<b>>) \o Entry(2, b, <<0, a>>))),
     File(Body(<<>>), Part(Entry(12, a, <<a>>) \o Bare(3) \o Entry(1, b, <<>>))),
     File(Body(Cell(A \o Cell(Empty)) \o Math), <<>>)}
WordFiles == {File(Body(A \o Word \o Amp), <<>>), File(Body(Word \o A), <<>>)}

SomeIndices == 0 .. 3
SomeIds     == {1, 12}
SomeTexts   == {<<>>, <<0, b, 1>>}
=============================================================================
