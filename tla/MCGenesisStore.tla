---------------------------- MODULE MCGenesisStore ----------------------------
(* Instances of GenesisStore for TLC.  A behaviour is about one world: the     *)
(* rules of the chain with three keys and no fault, or the two files under     *)
(* every fault with two keys; the host's overlap is a third run's.             *)
EXTENDS GenesisStore, TLC

CONSTANTS k1, k2, k3, op1, op2

VARIABLE world

Rules == INSTANCE GenesisStore WITH OperatorKeys <- {op1}, Faults <- {}
Files == INSTANCE GenesisStore WITH Keys <- {k1, k2}

InitWorlds == world \in {"rules", "files"} /\ Init
NextWorlds ==
    /\ UNCHANGED world
    /\ \/ world = "rules" /\ Rules!Next
       \/ world = "files" /\ Files!Next
Worlds == InitWorlds /\ [][NextWorlds]_<<world, vars>>

OneWorld == world = "overlap" /\ Init /\ [][Next /\ UNCHANGED world]_<<world, vars>>

\* Keys are interchangeable, members' and operators': nothing orders them.  A
\* world with fewer of them holds no others, so it has the symmetry of its own.
KeySymmetry == Permutations(Keys) \union Permutations(OperatorKeys)
===============================================================================
