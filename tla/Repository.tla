----------------------------- MODULE Repository -----------------------------
(* What litegraft promises its users, without processes, files or gc: a set *)
(* of saved states, each of which can be restored at any time, that only    *)
(* grows; a parent for some of them, so that every history has a beginning; *)
(* and branches that stand for saved states, if for anything.               *)
CONSTANTS States, Branches, None

VARIABLES saved, parent, branches

repository == <<saved, parent, branches>>

Init ==
    /\ saved = {}
    /\ parent = [s \in States |-> None]
    /\ branches = [b \in Branches |-> None]

(* Every nonempty set of states has one whose parent is outside. *)
Forest(up) == \A S \in SUBSET States : S # {} => \E s \in S : up[s] \notin S

(* A state is saved, or saved again with another parent. *)
Save(s, p) ==
    /\ saved' = saved \cup {s}
    /\ parent' = [parent EXCEPT ![s] = p]
    /\ Forest(parent')
    /\ UNCHANGED branches

(* A branch comes to stand for a state, or for a moment for none. *)
Point(b, s) ==
    /\ branches' = [branches EXCEPT ![b] = s]
    /\ UNCHANGED <<saved, parent>>

Next ==
    \/ \E s \in States, p \in saved \cup {None} : Save(s, p)
    \/ \E b \in Branches, s \in saved \cup {None} : Point(b, s)

Spec == Init /\ [][Next]_repository
=============================================================================
