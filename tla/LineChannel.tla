---------------------------- MODULE LineChannel -----------------------------
(***************************************************************************)
(* What CommunicationWrapper promises to the interpreter that reads: the   *)
(* lines the peer wrote, each whole, once and in order, blank ones left    *)
(* out.  It gives up on a line that does not fit, and when the peer is     *)
(* gone and nothing whole is left; a connection that breaks may lose the   *)
(* lines that were written last.                                           *)
(***************************************************************************)
EXTENDS Sequences, SequencesExt

CONSTANTS Line, Fitting, NoLine

VARIABLES
  lines,    \* written, not yet returned
  last,     \* the line returned last, NoLine while a call is under way
  writing,  \* the peer holds its end
  reading   \* the reader has not given up

lvars == <<lines, last, writing, reading>>

LInit ==
  /\ lines = <<>> /\ last = NoLine
  /\ writing = TRUE /\ reading = TRUE

Write ==
  /\ writing
  /\ \E l \in Line : lines' = Append(lines, l)
  /\ UNCHANGED <<last, writing, reading>>

Leave ==
  /\ writing
  /\ writing' = FALSE
  /\ IsPrefix(lines', lines)
  /\ UNCHANGED <<last, reading>>

Call ==
  /\ reading /\ last # NoLine
  /\ last' = NoLine
  /\ UNCHANGED <<lines, writing, reading>>

Return ==
  /\ reading /\ last = NoLine
  /\ lines # <<>> /\ Head(lines) \in Fitting
  /\ last' = Head(lines)
  /\ lines' = Tail(lines)
  /\ UNCHANGED <<writing, reading>>

GiveUp ==
  /\ reading /\ last = NoLine
  /\ IF lines = <<>> THEN ~writing ELSE Head(lines) \notin Fitting
  /\ reading' = FALSE
  /\ lines' = <<>>
  /\ UNCHANGED <<last, writing>>

LNext == Write \/ Leave \/ Call \/ Return \/ GiveUp

Channel == LInit /\ [][LNext]_lvars
=============================================================================
