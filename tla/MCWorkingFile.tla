--------------------------- MODULE MCWorkingFile ---------------------------
(* WorkingFile with two pages of two contents: a transaction changes one    *)
(* page or both, and two states share a page or none.                       *)
EXTENDS WorkingFile, TLC

CONSTANTS x, y

ContentSymmetry == Permutations(Contents)
=============================================================================
