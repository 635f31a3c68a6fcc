--------------------------- MODULE MCRoutedSpans ---------------------------
(***************************************************************************)
(* A small instance of RoutedSpans for TLC.                                *)
(***************************************************************************)
EXTENDS RoutedSpans

\* Sentences that end inside a cut, at its last token, and nowhere.
SmallBreaks == {{3}, {2, 4, 7}, {}}

=============================================================================
