----------------------------- MODULE MCOwnerSlots -----------------------------
(* Who owns a bootloader and what it serves with, in two worlds: the owner     *)
(* slots of one that is not sealed, and the operator key and id of any.        *)
EXTENDS OwnerSlots, TrustRoot, TLC

VARIABLE world

\* The registry is one of many in the first world and empty in all of the second.
InitWorlds ==
    /\ world \in {"slots", "root"}
    /\ Init
    /\ RootInit
    /\ world = "root" => \A k \in Keys : phones[k] = "none"

\* A third act is opened where no phone was seated or removed.
ThirdActAlone == rootActs'[3] = NoRecord \/ At(links', "roster") = {}

NextWorlds ==
    /\ UNCHANGED world
    /\ \/ world = "slots" /\ Next /\ UNCHANGED rootVars
       \/ world = "root" /\ RootNext /\ ThirdActAlone /\ UNCHANGED vars
Worlds == InitWorlds /\ [][NextWorlds]_<<world, vars, rootVars>>

\* Owners' keys are compared for equality only.
KeySymmetry == Permutations(Keys)
===============================================================================
