---------------------------- MODULE MCServerMain ----------------------------
(***************************************************************************)
(* Values for TLC: the parent, two children at a time, and one process     *)
(* more, for a child that accepts clients itself.                          *)
(***************************************************************************)
EXTENDS ServerMain

MCProcess == {"main", "p2", "p3", "p4"}
MCClient == {"a", "b", "c"}
=============================================================================
