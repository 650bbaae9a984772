----------------------------- MODULE Admission ------------------------------
(***************************************************************************)
(* What database/restore_barrier.go promises its callers, without saying   *)
(* how: mutations run together, at most one reload runs beside them, and a *)
(* restore runs alone.                                                     *)
(***************************************************************************)
CONSTANTS
    Shared,     \* mutations
    Loops,      \* reloads
    Importers   \* restores

VARIABLE inside \* the operations that have been let in and have not left

Init == inside = {}

AdmitMutation(m) ==
    /\ m \notin inside
    /\ inside \cap Importers = {}
    /\ inside' = inside \cup {m}

AdmitReload(l) ==
    /\ inside \cap (Importers \cup Loops) = {}
    /\ inside' = inside \cup {l}

AdmitRestore(i) ==
    /\ inside = {}
    /\ inside' = {i}

Leave(p) ==
    /\ p \in inside
    /\ inside' = inside \ {p}

Next == \/ \E m \in Shared : AdmitMutation(m)
        \/ \E l \in Loops : AdmitReload(l)
        \/ \E i \in Importers : AdmitRestore(i)
        \/ \E p \in inside : Leave(p)

Spec == Init /\ [][Next]_inside

=============================================================================
