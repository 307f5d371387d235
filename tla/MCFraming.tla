----------------------------- MODULE MCFraming ------------------------------
(***************************************************************************)
(* Values for TLC: buffers and a limit of four bytes; a blank line, lines  *)
(* of every length up to two bytes too long, lines with a CR or an LF of   *)
(* their own.                                                              *)
(***************************************************************************)
EXTENDS Framing

ShortLines == {<<>>, <<"a">>, <<CR>>, <<LF, "a">>}
None == <<"none">>
AllLines == ShortLines \cup {<<"a", "a", "a">>, <<"a", "a", "a", "a">>}
=============================================================================
