---------------------------- MODULE MCAtomicFile ----------------------------
(* AtomicFile on small instances: an object of two chunks.                  *)
EXTENDS AtomicFile

CONSTANTS a, b

ObjectText == [w \in Writers |-> <<a, b>>]
=============================================================================
