----------------------------- MODULE WholeFile -----------------------------
(* What the store promises of an object or a manifest: a reader finds the   *)
(* file either absent or whole (docs/store-format.md, "a reader never       *)
(* observes a truncated object").  Litegraft relies on it: there, writing   *)
(* an object or a manifest is one step.                                     *)
VARIABLE file    \* what is at the path: "absent", "whole" or "torn"

Init == file \in {"absent", "whole"}

Write  == file' = "whole"

Remove == file' = "absent"

Next == Write \/ Remove

Spec == Init /\ [][Next]_file
=============================================================================
