------------------------------ MODULE MCTopPlane ------------------------------
(* Constants of the runs of TopPlane, and what keeps each of them short. *)
EXTENDS TopPlane, TLC

CONSTANTS k1, k2, k3

\* Nothing tells the keys or the slots apart: every initial state is one of these
\* under other names.
NamedInit ==
    /\ Init
    /\ device["primary"] = k1
    /\ phones[k2] # "primary" /\ phones[k3] = "none"

\* The resets that are past their window.
Past == {r \in Resets : resets[r].time # "early" \/ resets[r].state \in {"armed", "registered", "completed"}}

\* Once a handler has stopped, one reset goes past its window; and a reset that does,
\* an act and a slot entry are not all three open at once.
ShortNext ==
    /\ Next
    /\ faults' > 0 => Cardinality(Past') <= 1
    /\ Past' = {} \/ entries' = {} \/ acts' = [a \in Acts |-> NoAct]

ShortSpec == NamedInit /\ [][ShortNext]_vars

\* Keys, resets and acts are interchangeable: no property names one.
Symmetry == Permutations(Keys) \union Permutations(Resets) \union Permutations(Acts)
===============================================================================
