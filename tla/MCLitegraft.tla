---------------------------- MODULE MCLitegraft ----------------------------
(* Litegraft on small instances.  Three database files over two pages: one  *)
(* of each page alone, and one of both.                                     *)
EXTENDS Litegraft, TLC

CONSTANTS p1, p2, main

MCStates == {<<p1>>, <<p2>>, <<p1, p2>>}
TwoStates == {<<p1>>, <<p1, p2>>}

ProcSymmetry == Permutations(Procs)
=============================================================================
