-------------------------- MODULE MCStreamTransfer --------------------------
(***************************************************************************)
(* Values for TLC: every file of up to four bytes out of a letter, CR and *)
(* LF, and longer ones that fill the buffers with a line's end across them *)
(***************************************************************************)
EXTENDS StreamTransfer

UpTo(n) == UNION {[1 .. k -> Byte] : k \in 0 .. n}
SmallFiles == UpTo(4)
AllFiles == SmallFiles \cup
  {<<CR, CR, CR, CR, LF>>, <<"x", LF, LF, "x", CR, CR>>, <<LF, "x", CR, "x", LF>>}
=============================================================================
