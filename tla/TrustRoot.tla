------------------------------- MODULE TrustRoot -------------------------------
(* Which operator key and which id a bootloader serves with (server.py, GATES 5a, 5b and 5d).  Three places *)
(* hold a key: vault_root.json, the genesis chain (its seal-id and rotate-operator entries) and the process. *)
(* A start reads them one after the other; an act on the chain reaches the process, then the vault, then its *)
(* record, and each write can fail; `recto vault bootstrap` writes the vault from the host, without a lock.  *)
(* The chain's rules are ChainRules', the cards an act is answered on are TopPlane's.                        *)
EXTENDS Naturals, Sequences, FiniteSetsExt

CONSTANTS
    OpKeys,      \* operator keys
    DeviceKeys,  \* keys a recovery phone may have: the one kind that is part of the identity
    NoOperator,  \* no vault_root.json, no key in the launcher's configuration
    Label,       \* a configured name or a random uuid: an id that is not derived
    NoId,        \* no id is derived, none is expected
    Configured,  \* the ids a launcher may be configured with
    Expected,    \* the sealed ids a launcher may expect, NoId among them
    Attempts,    \* bound on the acts that are opened
    MaxLinks     \* bound on the length of the chain

VARIABLES
    links,      \* the chain, as far as keys and ids go
    vaultRoot,  \* vault_root.json
    proc,       \* the bootloader process
    rootActs,   \* top_plane.json: the records of the seal-id and rotate-operator acts
    resealing   \* the key a `recto vault bootstrap` on the host is about to write

rootVars == <<links, vaultRoot, proc, rootActs, resealing>>

ActNumbers == 1..Attempts

(* ---- ids ---- *)

\* An id stands for the set of keys it is a digest of: order and repetition do not change it.
Derived(key, members) == {key} \union members

\* IDENTITY_MEMBER_KINDS has one kind, and a chain holds one member of a kind.
MemberSets == {{}} \union {{d} : d \in DeviceKeys}
Ids == {Derived(k, ms) : k \in OpKeys, ms \in MemberSets}

\* An operator key is nobody's phone key; else two sets of inputs could have one id.
ASSUME RootAssumption ==
    /\ OpKeys \intersect DeviceKeys = {} /\ NoOperator \notin OpKeys \union DeviceKeys
    /\ Attempts \in Nat
    /\ Configured \subseteq Ids \union {Label} /\ Expected \subseteq Ids \union {NoId}

(* ---- the chain ---- *)

At(c, op) == {i \in DOMAIN c : c[i].op = op}
SealedIn(c) == At(c, "seal-id") # {}
SealOf(c) == c[Min(At(c, "seal-id"))]

\* The latest rotation's key, else the one the seal recorded.
ChainKey(c) ==
    IF At(c, "rotate-operator") # {} THEN c[Max(At(c, "rotate-operator"))].key
    ELSE IF SealedIn(c) THEN SealOf(c).key ELSE NoOperator

\* The device keys of the members sealed now.
IdentityMembers(c) == IF At(c, "roster") = {} THEN {} ELSE c[Max(At(c, "roster"))].members

Link(op, act, key, id, members) == [op |-> op, act |-> act, key |-> key, id |-> id, members |-> members]

(* ---- the gates ---- *)

\* GATE 5a: a key in the configuration and another one in the vault.
KeysAgree(configured) == NoOperator \in {configured, vaultRoot} \/ configured = vaultRoot
HeldKey(configured) == IF configured = NoOperator THEN vaultRoot ELSE configured

\* The inputs the seal recorded recompute the id it sealed.
SealTimeInputs(c) == Derived(SealOf(c).key, SealOf(c).members) = SealOf(c).id

\* GATE 5d: what a sealed chain asks of a start with this key, this configured id and this expected id.
SealAgrees(c, key, configured, expected) ==
    /\ expected # NoId => SealedIn(c) /\ SealOf(c).id = expected
    /\ SealedIn(c) =>
          /\ configured # Label => configured = SealOf(c).id
          /\ SealTimeInputs(c)
          /\ key = ChainKey(c)

NoProc == [pc |-> "down", key |-> NoOperator, id |-> Label, derives |-> FALSE, configured |-> Label, expected |-> NoId,
           todo |-> {}]
NoDraft == Link("none", 0, NoOperator, NoId, {})
NoRecord == [state |-> "none", seq |-> 0, draft |-> NoDraft]
\* What an ended record still holds is read by nothing: no entry with a refused act's nonce is on the chain.
Ended(state) == [NoRecord EXCEPT !.state = state]

RootInit ==
    /\ links = <<>>
    /\ vaultRoot = NoOperator
    /\ proc = NoProc
    /\ rootActs = [a \in ActNumbers |-> NoRecord]
    /\ resealing = NoOperator

\* GATES 5a and 5b: the key is taken, and the id derived from it and the members sealed now.
StartsWith(key, configured, expected) ==
    /\ proc.pc = "down"
    /\ KeysAgree(key)
    /\ LET held == HeldKey(key)
           id == IF held = NoOperator THEN NoId ELSE Derived(held, IdentityMembers(links))
       IN  proc' = [proc EXCEPT !.pc = "starting", !.key = held, !.derives = id # NoId,
                                !.id = IF id = NoId THEN configured ELSE id,
                                !.configured = configured, !.expected = expected]
    /\ UNCHANGED <<links, vaultRoot, rootActs, resealing>>

\* GATE 5d: the sealed id is served, whatever the derivation reads now; or the start is refused.
MeetsSeal ==
    /\ proc.pc = "starting"
    /\ proc' = IF SealAgrees(links, proc.key, proc.configured, proc.expected)
               THEN [proc EXCEPT !.pc = "rolling", !.configured = Label, !.expected = NoId,
                                 !.id = IF SealedIn(links) THEN SealOf(links).id ELSE @,
                                 !.todo = {a \in ActNumbers : rootActs[a].state = "pending"}]
               ELSE NoProc
    /\ UNCHANGED <<links, vaultRoot, rootActs, resealing>>

Stops == proc.pc # "down" /\ proc' = NoProc /\ UNCHANGED <<links, vaultRoot, rootActs, resealing>>

(* ---- acts ---- *)

OnChain(a) == rootActs[a].seq \in DOMAIN links /\ links[rootActs[a].seq] = rootActs[a].draft

\* mutated form: whatever the chain holds now
FollowsAny(c, draft) == draft.op = "rotate-operator"

\* A rotation the chain has moved past changes neither the running key nor the vault's.
Follows(c, draft) == draft.op = "rotate-operator" /\ draft.key = ChainKey(c)

\* finish_act over the chain c: the process, the vault, the record, in this order; a write that fails leaves the
\* vault or the record behind.
FinishAct(a, c, todo) ==
    LET moves == Follows(c, rootActs[a].draft)
    IN  \E written, saved \in BOOLEAN :
           /\ proc' = [proc EXCEPT !.key = IF moves THEN rootActs[a].draft.key ELSE @, !.todo = todo]
           /\ vaultRoot' = IF moves /\ written THEN rootActs[a].draft.key ELSE vaultRoot
           /\ rootActs' = IF saved THEN [rootActs EXCEPT ![a] = Ended("appended")] ELSE rootActs

\* The next record of _roll_forward_committed, in the order they were made.
RollsForward ==
    /\ proc.pc = "rolling" /\ proc.todo # {}
    /\ LET a == Min(proc.todo)
       IN  IF OnChain(a) THEN FinishAct(a, links, proc.todo \ {a})
           ELSE proc' = [proc EXCEPT !.todo = @ \ {a}] /\ UNCHANGED <<vaultRoot, rootActs>>
    /\ UNCHANGED <<links, resealing>>

Serves ==
    /\ proc.pc = "rolling" /\ proc.todo = {}
    /\ proc' = [proc EXCEPT !.pc = "serving"]
    /\ UNCHANGED <<links, vaultRoot, rootActs, resealing>>

\* A seal is opened for the id this start derived, with the key it holds and the members that recompute it.
MaySeal(key, members) ==
    /\ ~SealedIn(links)
    /\ proc.derives
    /\ key = proc.key
    /\ Derived(key, members) = proc.id

\* The act is drafted on the chain's tip, and nonce and all it is opened once.
Opens(a, draft) ==
    /\ proc.pc = "serving"
    /\ \A b \in ActNumbers : (rootActs[b].state = "none") <=> (b >= a)
    /\ rootActs' = [rootActs EXCEPT ![a] = [state |-> "pending", seq |-> Len(links) + 1, draft |-> draft]]
    /\ UNCHANGED <<links, vaultRoot, proc, resealing>>

OpensSeal(a) ==
    \E k \in OpKeys, ms \in MemberSets :
        MaySeal(k, ms) /\ Opens(a, Link("seal-id", a, k, proc.id, ms))

OpensRotation(a) ==
    /\ SealedIn(links)
    /\ \E k \in OpKeys : Opens(a, Link("rotate-operator", a, k, NoId, {}))

\* This start serves another id than the one the seal was opened for.
OtherId(draft) == draft.op = "seal-id" /\ draft.id # proc.id

\* A device's approval: an act that is on the chain already is finished, one that no longer fits is refused.
ActApproved(a) ==
    /\ proc.pc = "serving"
    /\ rootActs[a].state = "pending"
    /\ UNCHANGED resealing
    /\ \/ OnChain(a) /\ FinishAct(a, links, {}) /\ UNCHANGED links
       \/ /\ ~OnChain(a)
          /\ OtherId(rootActs[a].draft) \/ rootActs[a].seq # Len(links) + 1
          /\ rootActs' = [rootActs EXCEPT ![a] = Ended("refused")]
          /\ UNCHANGED <<links, vaultRoot, proc>>
       \/ /\ ~OtherId(rootActs[a].draft) /\ rootActs[a].seq = Len(links) + 1
          /\ Len(links) < MaxLinks
          /\ links' = Append(links, rootActs[a].draft)
          /\ FinishAct(a, links', {})

\* A recovery phone is seated, replaced or leaves: by an act, by an entry or, before the seal, by the host.
RosterMoves ==
    /\ Len(links) < MaxLinks
    /\ SealedIn(links) => proc.pc = "serving"
    /\ \E ms \in MemberSets \ {IdentityMembers(links)} :
          links' = Append(links, Link("roster", 0, NoOperator, NoId, ms))
    /\ UNCHANGED <<vaultRoot, proc, rootActs, resealing>>

(* ---- recto vault bootstrap [--force], a process of its own ---- *)

\* Under a sealed chain the host writes the chain's own key only.
MayReseal(c, key) == SealedIn(c) => key = ChainKey(c)

HostReads(key) ==
    /\ resealing = NoOperator
    /\ MayReseal(links, key)
    /\ resealing' = key
    /\ UNCHANGED <<links, vaultRoot, proc, rootActs>>

HostWrites ==
    /\ resealing # NoOperator
    /\ resealing' = NoOperator
    /\ vaultRoot' \in {vaultRoot, resealing}   \* the write may fail
    /\ UNCHANGED <<links, proc, rootActs>>

RootNext ==
    \/ \E k \in OpKeys \union {NoOperator}, i \in Configured, e \in Expected : StartsWith(k, i, e)
    \/ MeetsSeal
    \/ RollsForward
    \/ Serves
    \/ Stops
    \/ \E a \in ActNumbers : OpensSeal(a) \/ OpensRotation(a) \/ ActApproved(a)
    \/ RosterMoves
    \/ \E k \in OpKeys : HostReads(k)
    \/ HostWrites

RootSpec == RootInit /\ [][RootNext]_rootVars

(* ---- properties ---- *)

Drafts == [op : {"none", "seal-id", "rotate-operator", "roster"}, act : Nat, key : OpKeys \union {NoOperator},
           id : Ids \union {NoId}, members : MemberSets]

RootTypeOK ==
    /\ links \in Seq(Drafts)
    /\ vaultRoot \in OpKeys \union {NoOperator}
    /\ proc \in [pc : {"down", "starting", "rolling", "serving"}, key : OpKeys \union {NoOperator},
                 id : Ids \union {Label}, derives : BOOLEAN, configured : Ids \union {Label},
                 expected : Ids \union {NoId}, todo : SUBSET ActNumbers]
    /\ rootActs \in [ActNumbers -> [state : {"none", "pending", "refused", "appended"}, seq : Nat, draft : Drafts]]
    /\ resealing \in OpKeys \union {NoOperator}

\* A bootloader past its gates that started with a key serves the sealed id and verifies with the key the chain
\* holds: through rotations that stopped half way, old acts finished late, host writes and restarts
\* (server.py:8960, GATE 5d).  One that started with no key may commit the seal of an earlier start, if it is
\* configured with that very id; it has no key to verify with, and the next start is refused.
ServesTheChain ==
    proc.pc \in {"rolling", "serving"} /\ proc.derives /\ SealedIn(links) =>
        proc.key = ChainKey(links) /\ proc.id = SealOf(links).id

\* However the vault was left, writing the chain's own key to it is allowed and lets a start through: no act, host
\* write or crash makes a sealed chain that no start accepts (cli.py:1746, GATE 5d's repair).
RepairIsEnough ==
    SealedIn(links) =>
        /\ MayReseal(links, ChainKey(links))
        /\ SealAgrees(links, ChainKey(links), Label, SealOf(links).id)

\* The trust root as a whole.
TrustRootHolds == RootTypeOK /\ ServesTheChain /\ RepairIsEnough
================================================================================
