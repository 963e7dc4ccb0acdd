--------------------------- MODULE MCTerminalScreen ---------------------------
(***************************************************************************)
(* A screen of two rows of two cells under a ring of five characters.      *)
(***************************************************************************)
EXTENDS TerminalScreen

MCTexts == { <<"o", NewLine>>, <<"o", "o">> }
\* A message that ends in its row when it begins there, and one that goes on in
\* the next row, where the newline takes the blank with it.
MCMessages == { <<"o", NewLine>>, <<"o", NewLine, Blank, "o">> }
=============================================================================
