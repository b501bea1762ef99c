------------------------------ MODULE ChainRules ------------------------------
(***************************************************************************)
(* The genesis membership chain: what replay_state (genesis_chain.py)      *)
(* accepts, and what an accepted chain says.                               *)
(*                                                                         *)
(* The code replays entry by entry and carries members, device_ever and    *)
(* sealed_id along.  Here each of those is read off the chain itself: an   *)
(* entry is in force at length n when it seated its kind and no later      *)
(* entry up to n moved that kind.  The two agree because every carried     *)
(* value is a function of the entries replayed so far, and the closed form *)
(* needs no recursion, so facts about a chain of any length can be proved. *)
(*                                                                         *)
(* An entry is a record                                                    *)
(*   prev     the contents of the entries it was drafted on.  It stands    *)
(*            for seq and the prev hash: the hash covers an entry's seq,   *)
(*            content and prev but not its signatures, so equal hashes are *)
(*            equal contents all the way back.                             *)
(*   op, kind, key                                                         *)
(*   intent   the reset intent of a "reset" entry, NoIntent otherwise.     *)
(*   signers  the keys whose signature over this entry's message verifies. *)
(*   fresh    the entry's own key signed the reset's challenge.            *)
(***************************************************************************)
EXTENDS Integers, Sequences, FiniteSets

CONSTANT NoIntent

PASSPHRASE_KIND == "passphrase"
DEVICE_KINDS == {"recovery-phone", "primary-phone"}
SEATING == {"add", "reset"}
MOVING == SEATING \union {"remove"}

(***************************************************************************)
(* Hashes.  HashOf(c, n) is what the hash of the n-th entry stands for.    *)
(***************************************************************************)
\* mutated form: the hash covers the signatures
ContentSigned(e) == e

Content(e) == [op |-> e.op, kind |-> e.kind, key |-> e.key, intent |-> e.intent]

HashOf(c, n) == [i \in 1..n |-> Content(c[i])]

(***************************************************************************)
(* What a chain says after its first n entries (ChainState).               *)
(***************************************************************************)

\* Positions of the entries replay_state holds in `members`.
Seated(c, n) ==
    {i \in 1..n : /\ c[i].op \in SEATING
                  /\ \A j \in (i + 1)..n :
                        c[j].op \in MOVING => c[j].kind # c[i].kind}

MemberKinds(c, n) == {c[i].kind : i \in Seated(c, n)}

DeviceEver(c, n) == \E i \in 1..n : c[i].op \in SEATING /\ c[i].kind \in DEVICE_KINDS

Sealed(c, n) == \E i \in 1..n : c[i].op = "seal-id"

HasPassphrase(c, n) == PASSPHRASE_KIND \in MemberKinds(c, n)

HasDevice(c, n) == MemberKinds(c, n) \intersect DEVICE_KINDS # {}

(***************************************************************************)
(* Who signed: member kinds are counted, never signatures.                 *)
(***************************************************************************)
SatisfiedKinds(c, n, e) ==
    {c[i].kind : i \in {m \in Seated(c, n) : c[m].key \in e.signers}}

RequireMajority(c, n, e) ==
    Cardinality(SatisfiedKinds(c, n, e)) >= (Cardinality(MemberKinds(c, n)) \div 2) + 1

\* The passphrase and a device; the passphrase alone only while no device was
\* ever sealed; a set with no passphrase keeps the majority.
RequireThreshold(c, n, e) ==
    /\ MemberKinds(c, n) # {}
    /\ IF ~HasPassphrase(c, n)
         THEN RequireMajority(c, n, e)
         ELSE /\ PASSPHRASE_KIND \in SatisfiedKinds(c, n, e)
              /\ DeviceEver(c, n) => SatisfiedKinds(c, n, e) \intersect DEVICE_KINDS # {}

\* The owner reset: the passphrase over the digest and the fresh key over the
\* challenge its meta binds to the intent.
RequireReset(c, n, e) ==
    /\ PASSPHRASE_KIND \in SatisfiedKinds(c, n, e)
    /\ e.fresh

(***************************************************************************)
(* Whether entry e may follow the first n entries of c.                    *)
(***************************************************************************)
Authorised(c, n, e) ==
    /\ e.op = "seal-id" => ~Sealed(c, n) /\ HasDevice(c, n)
    /\ e.op = "reset" => Sealed(c, n) /\ RequireReset(c, n, e)
    /\ e.op # "reset" => RequireThreshold(c, n, e)

\* The entry would give two kinds one key.
Twin(c, n, e) == \E i \in Seated(c, n) : c[i].kind # e.kind /\ c[i].key = e.key

\* mutated form: only an add is checked for a twin, a reset is not
MaySeatTwinReset(c, n, e) ==
    /\ e.op = "reset" => /\ e.kind \in DEVICE_KINDS
                         /\ \A i \in 1..n : c[i].op = "reset" =>
                               <<c[i].intent, c[i].kind>> # <<e.intent, e.kind>>
    /\ e.op = "add" => ~Twin(c, n, e)

MaySeat(c, n, e) ==
    /\ e.op = "reset" => /\ e.kind \in DEVICE_KINDS
                         /\ \A i \in 1..n : c[i].op = "reset" =>
                               <<c[i].intent, c[i].kind>> # <<e.intent, e.kind>>
    /\ ~Twin(c, n, e)

\* mutated form: the last-device rule is missing
MayRemoveLastDevice(c, n, e) ==
    /\ \E i \in Seated(c, n) : c[i].kind = e.kind /\ c[i].key = e.key
    /\ e.kind # PASSPHRASE_KIND
    /\ MemberKinds(c, n) # {e.kind}

\* A removal names the member by its own key, never the passphrase, never the
\* last member, and never the last device of a set that holds the passphrase.
MayRemove(c, n, e) ==
    /\ \E i \in Seated(c, n) : c[i].kind = e.kind /\ c[i].key = e.key
    /\ e.kind # PASSPHRASE_KIND
    /\ MemberKinds(c, n) # {e.kind}
    /\ DeviceEver(c, n) /\ HasPassphrase(c, n)
          => (MemberKinds(c, n) \ {e.kind}) \intersect DEVICE_KINDS # {}

MayFollow(c, n, e) ==
    /\ e.prev = HashOf(c, n)
    /\ IF n = 0
         THEN e.op = "add" /\ e.signers = {}
         ELSE Authorised(c, n, e)
    /\ e.op \in SEATING => MaySeat(c, n, e)
    /\ e.op = "remove" => MayRemove(c, n, e)
    /\ e.op = "rotate-operator" => e.kind = "operator"
    /\ e.op = "seal-id" => e.kind = "bootloader-id"

\* replay_state raises nothing: there is no partial replay.
Replays(c) == \A n \in 1..Len(c) : MayFollow(c, n - 1, c[n])

(***************************************************************************)
(* The seal mark: the high-water mark beside a sealed chain.               *)
(*                                                                         *)
(* A point is the contents of the chain a mark recorded (its length, tip,  *)
(* seal entry and sealed id all follow from them), <<>> the side that is   *)
(* None.  A mark is a pair of points: in flight they differ; a plain mark  *)
(* is the same point twice, and no mark file is <<>> twice: check and      *)
(* resolve treat these exactly as the code treats the three shapes.        *)
(***************************************************************************)
NoMark == [prev |-> <<>>, next |-> <<>>]
PlainMark(p) == [prev |-> p, next |-> p]

SealMarkOf(c) == IF Sealed(c, Len(c)) THEN HashOf(c, Len(c)) ELSE <<>>

\* mutated form: the seal entry is compared, the tip is not
SideHoldsSealOnly(c, p) ==
    IF p = <<>> THEN ~Sealed(c, Len(c))
    ELSE \E i \in 1..Len(c) : c[i].op = "seal-id" /\ i <= Len(p) /\ HashOf(c, i) = SubSeq(p, 1, i)

\* _check_one_mark, and the None side of an in-flight mark.
SideHolds(c, p) ==
    IF p = <<>>
      THEN ~Sealed(c, Len(c))
      ELSE /\ Sealed(c, Len(c))
           /\ Len(p) <= Len(c)
           /\ HashOf(c, Len(p)) = p

CheckSealMark(c, m) == SideHolds(c, m.next) \/ SideHolds(c, m.prev)

\* The plain point the chain answers to; asked only when CheckSealMark holds.
ResolveSealMark(c, m) == IF SideHolds(c, m.next) THEN m.next ELSE m.prev
===============================================================================
