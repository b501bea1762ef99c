------------------------------ MODULE MemberQuorum ------------------------------
(***************************************************************************)
(* How many members of a roster signed a message: verify_quorum (quorum.py) *)
(* and the same loop under the rule of the top plane, the passphrase and a  *)
(* device (genesis_authority.py).  A signature is verified by one key, or   *)
(* by none; a roster may hold one key under two identities, and the caller  *)
(* may present a signature more than once.                                  *)
(***************************************************************************)
EXTENDS Integers, FiniteSets, Sequences

CONSTANTS
    Members,        \* the identities a roster may hold
    Passphrase,     \* the identity of the passphrase; the others are devices
    MemberKeys,     \* the keys
    Signatures,     \* the signatures a caller may present
    SignerOf,       \* the key that verifies a signature, if it is one of them
    MaxSignatures   \* bound on the signatures presented

VARIABLES
    roster,      \* the key of each identity of the roster
    needed,      \* k
    presented,   \* the signatures examined so far
    satisfied,   \* the members counted
    unmatched    \* the signatures that satisfied nobody

quorumVars == <<roster, needed, presented, satisfied, unmatched>>

ASSUME QuorumAssumption ==
    /\ Passphrase \in Members
    /\ DOMAIN SignerOf \subseteq Signatures
    /\ \A s \in DOMAIN SignerOf : SignerOf[s] \in MemberKeys
    /\ MaxSignatures \in Nat

\* A quorum no roster can meet is refused before any signature is examined.
Possible(members, k) == k \in 1 .. Cardinality(members)

FitsKey(identity, signature) ==
    signature \in DOMAIN SignerOf /\ roster[identity] = SignerOf[signature]

\* Mutant: a signature counts for every member whose key verifies it.
FittingAll(signature) == {{i \in DOMAIN roster \ satisfied : FitsKey(i, signature)}}
\* Who a signature may be counted for: one member not yet counted, the first
\* of the roster that fits, whose order the caller gives.
Fitting(signature) ==
    LET fits == {i \in DOMAIN roster \ satisfied : FitsKey(i, signature)}
    IN  IF fits = {} THEN {{}} ELSE {{i} : i \in fits}

Present(signature) ==
    /\ Len(presented) < MaxSignatures
    /\ presented' = Append(presented, signature)
    /\ \E counted \in Fitting(signature) :
          /\ satisfied' = satisfied \union counted
          /\ unmatched' = IF counted = {} THEN unmatched + 1 ELSE unmatched
    /\ UNCHANGED <<roster, needed>>

Met == Cardinality(satisfied) >= needed
TopPlaneMet == Passphrase \in satisfied /\ satisfied \ {Passphrase} # {}

QuorumIdle ==
    /\ roster = [i \in Members |-> CHOOSE k \in MemberKeys : TRUE] /\ needed = 1
    /\ presented = <<>> /\ satisfied = {} /\ unmatched = 0

QuorumInit ==
    /\ roster \in UNION {[members -> MemberKeys] : members \in SUBSET Members}
    /\ needed \in 1 .. Cardinality(Members) /\ Possible(DOMAIN roster, needed)
    /\ presented = <<>> /\ satisfied = {} /\ unmatched = 0

QuorumNext == \E s \in Signatures : Present(s)

QuorumSpec == QuorumInit /\ [][QuorumNext]_quorumVars

(***************************************************************************)
(* Properties.                                                             *)
(***************************************************************************)
QuorumTypeOK ==
    /\ roster \in UNION {[members -> MemberKeys] : members \in SUBSET Members}
    /\ Possible(DOMAIN roster, needed)
    /\ presented \in Seq(Signatures)
    /\ satisfied \subseteq DOMAIN roster
    /\ unmatched \in 0 .. MaxSignatures

Signers == {SignerOf[s] : s \in {presented[n] : n \in DOMAIN presented} \intersect DOMAIN SignerOf}
OwnKeys == \A i, j \in DOMAIN roster : roster[i] = roster[j] => i = j

\* A quorum counts members, in whatever order and however often signatures
\* come: each signature counts for one member or for none, only a member whose
\* key signed is counted, where each identity has a key of its own all of them
\* are, and then the two counts agree with the keys that signed.
QuorumCountsMembers ==
    /\ Cardinality(satisfied) + unmatched = Len(presented)
    /\ \A i \in satisfied : roster[i] \in Signers
    /\ OwnKeys =>
          /\ satisfied = {i \in DOMAIN roster : roster[i] \in Signers}
          /\ Met => Cardinality(Signers) >= needed
          /\ TopPlaneMet => Cardinality(Signers) >= 2
===============================================================================
