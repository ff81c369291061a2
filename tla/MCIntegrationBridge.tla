------------------------- MODULE MCIntegrationBridge ------------------------
(* Instances of IntegrationBridge: one document with edits of two          *)
(* paragraphs, or several documents opened and closed in any order.        *)
EXTENDS IntegrationBridge

CONSTANTS doc1, doc2, doc3, note1

OneDoc == {doc1}
TwoDocs == {doc1, doc2}
OneLocal == {doc3}
None   == {}
OneParagraph == {0}
TwoParagraphs == {0, 1}
OneNote == {note1}
Plain == {FALSE}
=============================================================================
