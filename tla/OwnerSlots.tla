------------------------------ MODULE OwnerSlots ------------------------------
(***************************************************************************)
(* The owner slots of a bootloader whose top plane is not sealed: who      *)
(* holds the primary and the recovery slot, how a new owner key enters one *)
(* (server.py _handle_register and _respond_owner_enroll), how a phone is  *)
(* revoked (_handle_revoke_phone), and the host's reset (cli.py            *)
(* owner-reset).                                                           *)
(*                                                                         *)
(* Every handler decides under the registry lock, so it is one step, except *)
(* where it writes twice: there the second write is a step of its own and  *)
(* the process can die, or the write fail, between the two.  The host reset *)
(* is another process, one step per write.  On the file backend it runs    *)
(* only while no server serves, and the owner-enroll records live in the   *)
(* server's memory; on Postgres (Durable) it runs beside a server, under    *)
(* the registry's advisory lock, and the records survive a crash.           *)
(*                                                                         *)
(* A registration carries a live owner challenge: one that lapsed is        *)
(* refused before anything changes.  Time passes in ticks, and a record     *)
(* carries its age and what is left of its approval instead of dates.       *)
(***************************************************************************)
EXTENDS Integers, FiniteSets

CONSTANTS
    Keys,            \* the identity keys phones hold; a phone id is its key's
    NoKey,           \* no phone
    Durable,         \* the Postgres store: records outlive the process
    CardTTL,         \* ticks an approval card waits on an approver's queue
    ApprovalTTL,     \* ticks an approval waits for the new phone's second pass
    ContestWindow,   \* ticks in which two keys asking for one slot refuse each other
    MaxRecords       \* bound on the owner-enroll records held at once

VARIABLES
    phones,    \* the slot each key's registration holds, or "none"
    genesis,   \* the owner-genesis marker
    enrolls,   \* the owner-enroll records
    up,        \* the server serves
    locked,    \* what is left to write in the server's registry lock
    host       \* where the host reset is

vars == <<phones, genesis, enrolls, up, locked, host>>

SLOTS == {"primary", "recovery"}

ASSUME OwnerAssumption ==
    /\ NoKey \notin Keys
    /\ Durable \in BOOLEAN
    /\ CardTTL \in Nat \ {0}
    /\ ApprovalTTL \in Nat \ {0}
    /\ ContestWindow \in Nat
    /\ CardTTL <= ContestWindow

(***************************************************************************)
(* The registry.                                                           *)
(***************************************************************************)
Owners == {k \in Keys : phones[k] \in SLOTS}
Holders(slot) == {k \in Keys : phones[k] = slot}
Occupant(slot) == IF Holders(slot) = {} THEN NoKey ELSE CHOOSE k \in Holders(slot) : TRUE

\* Who may approve an entry into a slot: every owner the entry does not
\* displace, and the occupant itself when there is no other.
Approvers(slot) ==
    LET others == Owners \ {Occupant(slot)}
    IN  IF others = {} THEN Holders(slot) ELSE others

\* Mutant: the marker alone lets the first owner in.
GenesisOpenByMarker == genesis = "open"
GenesisOpen == genesis = "open" /\ Owners = {}
\* Mutant: the last phone is kept, instead of the last owner.
LastPhone(key) == key \in Owners /\ Cardinality({k \in Keys : phones[k] # "none"}) <= 1
LastOwner(key) == key \in Owners /\ Cardinality(Owners) <= 1

(***************************************************************************)
(* The owner-enroll records.  "stood" is history: neither the approver nor *)
(* the occupant left its slot since the record was made.                   *)
(***************************************************************************)
Request(key, slot) ==
    [key |-> key, slot |-> slot, occupant |-> Occupant(slot), approvers |-> Approvers(slot),
     queued |-> Approvers(slot), state |-> "pending", by |-> NoKey, age |-> 0, left |-> 0,
     stood |-> TRUE]

\* A refused record keeps what the contest window reads, and its expiry.
Refused(r) ==
    [r EXCEPT !.state = "refused", !.occupant = NoKey, !.approvers = {}, !.queued = {},
              !.by = NoKey, !.stood = TRUE]

Approved(r, approver) ==
    [r EXCEPT !.state = "approved", !.by = approver, !.queued = {}, !.left = ApprovalTTL]

InWindow(r) == r.age <= ContestWindow

\* Mutant: only the approvals a removed phone gave are voided.
VoidedApprovals(records, phone) ==
    {IF r.state # "refused" /\ phone = r.by THEN Refused(r) ELSE r : r \in records}

\* void_owner_enrolls_for: the approvals a removed phone gave and the requests
\* that name it as the occupant.
Voided(records, phone) ==
    {IF r.state # "refused" /\ phone \in {r.by, r.occupant} THEN Refused(r) ELSE r
        : r \in records}

\* A phone that is removed takes its queue with it.
Removed(records, phone) ==
    {[r EXCEPT !.queued = @ \ {phone}, !.stood = @ /\ phone \notin {r.by, r.occupant}]
        : r \in records}

\* Mutant: a refused record is never dropped.
PurgedLive(records) ==
    {r \in records : r.left > 0 \/ r.age < ContestWindow \/ r.state = "refused"}
Purged(records) == {r \in records : r.left > 0 \/ r.age < ContestWindow}

Aged(r) ==
    [r EXCEPT !.age = @ + 1, !.left = IF @ > 0 THEN @ - 1 ELSE 0,
              !.queued = IF r.age + 1 >= CardTTL THEN {} ELSE @]

\* Mutant: an approval is used whoever holds the slot now.
OnFileAnyOccupant(key, slot) ==
    {r \in enrolls : /\ r.state = "approved" /\ r.key = key /\ r.slot = slot
                     /\ r.left > 0 /\ r.by \in Approvers(slot)}

\* An approval on file a registration of this key in this slot would use now.
OnFile(key, slot) ==
    {r \in enrolls : /\ r.state = "approved"
                     /\ r.key = key
                     /\ r.slot = slot
                     /\ r.occupant = Occupant(slot)
                     /\ r.left > 0
                     /\ r.by \in Approvers(slot)}

\* Mutant: only requests still pending count as rivals.
RivalsPending(key, slot) ==
    {r \in enrolls : r.slot = slot /\ r.key # key /\ r.state = "pending" /\ InWindow(r)}

Rivals(key, slot) == {r \in enrolls : r.slot = slot /\ r.key # key /\ InWindow(r)}

\* The caller's own request still waiting for the same approval.
Waiting(key, slot) ==
    {r \in enrolls : /\ r.state = "pending"
                     /\ r.key = key
                     /\ r.slot = slot
                     /\ r.occupant = Occupant(slot)
                     /\ r.approvers = Approvers(slot)}

(***************************************************************************)
(* Types.                                                                  *)
(***************************************************************************)
Phones == Keys \union {NoKey}
Records ==
    [key : Keys, slot : SLOTS, occupant : Phones, approvers : SUBSET Keys,
     queued : SUBSET Keys, state : {"pending", "approved", "refused"}, by : Phones,
     age : 0 .. ContestWindow + CardTTL + ApprovalTTL, left : 0 .. ApprovalTTL, stood : BOOLEAN]

\* Every variable keeps its type: in particular no owner-enroll record outlives
\* its expiry, whatever became of it.
TypeOK ==
    /\ phones \in [Keys -> SLOTS \union {"member", "none"}]
    /\ genesis \in {"undecided", "open", "closed"}
    /\ enrolls \subseteq Records
    /\ up \in BOOLEAN
    /\ locked \in [at : {"idle", "closing", "voiding"}, phone : Phones]
    /\ host \in [at : {"idle", "ready", "voided"}, phone : Phones]

Idle == [at |-> "idle", phone |-> NoKey]

\* A store from before the marker, with whatever phones it holds.
Init ==
    /\ phones \in {f \in [Keys -> SLOTS \union {"member", "none"}] :
                       \A j, k \in Keys : f[j] \in SLOTS /\ f[j] = f[k] => j = k}
    /\ genesis = "undecided"
    /\ enrolls = {}
    /\ up = FALSE
    /\ locked = Idle
    /\ host = Idle

\* A handler runs: the server is up and nobody holds the registry lock.
Serving == up /\ locked = Idle /\ host = Idle

(***************************************************************************)
(* A new key registers with an owner challenge.                            *)
(***************************************************************************)
\* The first owner, by the code alone; the marker is written after the phone.
RegisterFirst(key, slot) ==
    /\ Serving /\ phones[key] = "none" /\ GenesisOpen
    /\ phones' = [phones EXCEPT ![key] = slot]
    /\ locked' = [at |-> "closing", phone |-> key]
    /\ UNCHANGED <<genesis, enrolls, up, host>>

CloseGenesis ==
    /\ locked.at = "closing"
    /\ genesis' = "closed"
    /\ locked' = Idle
    /\ UNCHANGED <<phones, enrolls, up, host>>

CloseFails ==
    /\ locked.at = "closing"
    /\ locked' = Idle
    /\ UNCHANGED <<phones, genesis, enrolls, up, host>>

\* Past genesis: a key that holds nothing asks for a slot somebody can approve.
Asks(key, slot) ==
    /\ Serving /\ phones[key] = "none" /\ ~GenesisOpen
    /\ Approvers(slot) # {}

\* The approval on file is used up, the occupant goes and the key lands.
Enroll(key, slot) ==
    /\ Asks(key, slot)
    /\ \E r \in OnFile(key, slot) :
          LET occupant == Occupant(slot)
              seated == [phones EXCEPT ![key] = slot]
          IN  IF occupant = NoKey
              THEN /\ phones' = seated
                   /\ enrolls' = enrolls \ {r}
                   /\ locked' = Idle
              ELSE /\ phones' = [seated EXCEPT ![occupant] = "none"]
                   /\ enrolls' = Removed(enrolls \ {r}, occupant)
                   /\ locked' = [at |-> "voiding", phone |-> occupant]
    /\ UNCHANGED <<genesis, up, host>>

\* The approval is deleted, and the registry write after it fails.
EnrollFails(key, slot) ==
    /\ Asks(key, slot)
    /\ \E r \in OnFile(key, slot) : enrolls' = enrolls \ {r}
    /\ UNCHANGED <<phones, genesis, up, locked, host>>

\* Another key asked inside the window: every such request is refused, and the
\* caller leaves a refused record too.
Contest(key, slot) ==
    /\ Asks(key, slot)
    /\ OnFile(key, slot) = {} /\ Rivals(key, slot) # {}
    /\ Cardinality(enrolls) < MaxRecords
    /\ enrolls' = {IF r.slot = slot /\ InWindow(r) THEN Refused(r) ELSE r : r \in enrolls}
                  \union {Refused(Request(key, slot))}
    /\ UNCHANGED <<phones, genesis, up, locked, host>>

\* A request whose cards are still queued is reused as it is; one whose cards
\* are gone is replaced.
Ask(key, slot) ==
    /\ Asks(key, slot)
    /\ OnFile(key, slot) = {} /\ Rivals(key, slot) = {}
    /\ IF \E r \in Waiting(key, slot) : r.queued # {}
       THEN UNCHANGED enrolls
       ELSE /\ Cardinality(enrolls \ Waiting(key, slot)) < MaxRecords
            /\ enrolls' = (enrolls \ Waiting(key, slot)) \union {Request(key, slot)}
    /\ UNCHANGED <<phones, genesis, up, locked, host>>

\* A consumer's member code: a key registers beside the slots.
RegisterMember(key) ==
    /\ Serving /\ phones[key] = "none"
    /\ phones' = [phones EXCEPT ![key] = "member"]
    /\ UNCHANGED <<genesis, enrolls, up, locked, host>>

(***************************************************************************)
(* An owner answers its card; a phone is revoked.                          *)
(***************************************************************************)
Respond(r, approver) ==
    /\ Serving /\ r.state = "pending" /\ approver \in r.queued
    /\ approver \in Owners
    /\ enrolls' = (enrolls \ {r}) \union
                  {IF r.occupant # NoKey /\ r.occupant \notin Holders(r.slot)
                   THEN Refused(r) ELSE Approved(r, approver)}
    /\ UNCHANGED <<phones, genesis, up, locked, host>>

\* An owner revokes any phone, a member only itself, and nobody the last owner.
Revoke(revoker, target) ==
    /\ Serving /\ phones[revoker] # "none" /\ phones[target] # "none"
    /\ revoker \in Owners \/ revoker = target
    /\ ~LastOwner(target)
    /\ phones' = [phones EXCEPT ![target] = "none"]
    /\ enrolls' = Removed(enrolls, target)
    /\ locked' = [at |-> "voiding", phone |-> target]
    /\ UNCHANGED <<genesis, up, host>>

\* The removed phone's approvals are refused, in the same hold of the lock.
VoidRemoved ==
    /\ locked.at = "voiding"
    /\ enrolls' = Voided(enrolls, locked.phone)
    /\ locked' = Idle
    /\ UNCHANGED <<phones, genesis, up, host>>

(***************************************************************************)
(* The process.                                                            *)
(***************************************************************************)
\* A store without the marker is open only with no phone and no session; an
\* open marker beside an owner is a close that did not land.
Start ==
    /\ ~up /\ host = Idle
    /\ up' = TRUE
    /\ \/ /\ genesis = "undecided"
          /\ genesis' \in {"closed"} \union
                 (IF \A k \in Keys : phones[k] = "none" THEN {"open"} ELSE {})
       \/ /\ genesis # "undecided"
          /\ genesis' = IF Owners # {} THEN "closed" ELSE genesis
    /\ UNCHANGED <<phones, enrolls, locked, host>>

Stop ==
    /\ up
    /\ up' = FALSE
    /\ locked' = Idle
    /\ enrolls' = IF Durable THEN enrolls ELSE {}
    /\ UNCHANGED <<phones, genesis, host>>

(***************************************************************************)
(* The host reset: the marker closed first, then each owner's approvals and *)
(* registration, and the marker opened once no owner is left.              *)
(***************************************************************************)
HostMay == host = Idle /\ locked = Idle /\ (Durable \/ ~up)

HostClose ==
    /\ HostMay /\ Owners # {}
    /\ genesis' = "closed"
    /\ host' = [at |-> "ready", phone |-> NoKey]
    /\ UNCHANGED <<phones, enrolls, up, locked>>

HostVoid(target) ==
    /\ host.at = "ready" /\ target \in Owners
    /\ enrolls' = Voided(enrolls, target)
    /\ host' = [at |-> "voided", phone |-> target]
    /\ UNCHANGED <<phones, genesis, up, locked>>

HostRevoke ==
    /\ host.at = "voided"
    /\ phones' = [phones EXCEPT ![host.phone] = "none"]
    /\ enrolls' = Removed(enrolls, host.phone)
    /\ host' = [at |-> "ready", phone |-> NoKey]
    /\ UNCHANGED <<genesis, up, locked>>

HostReopen ==
    /\ HostMay \/ host.at = "ready"
    /\ Owners = {}
    /\ genesis' = "open"
    /\ host' = Idle
    /\ UNCHANGED <<phones, enrolls, up, locked>>

HostDies ==
    /\ host # Idle
    /\ host' = Idle
    /\ UNCHANGED <<phones, genesis, enrolls, up, locked>>

Tick ==
    /\ locked = Idle /\ host = Idle /\ enrolls # {}
    /\ enrolls' = Purged({Aged(r) : r \in enrolls})
    /\ UNCHANGED <<phones, genesis, up, locked, host>>

Registers(key, slot) ==
    \/ RegisterFirst(key, slot)
    \/ Enroll(key, slot)
    \/ EnrollFails(key, slot)
    \/ Contest(key, slot)
    \/ Ask(key, slot)

Locked == CloseGenesis \/ CloseFails \/ VoidRemoved
HostSteps == HostClose \/ (\E k \in Keys : HostVoid(k)) \/ HostRevoke \/ HostReopen \/ HostDies

Next ==
    \/ \E k \in Keys, s \in SLOTS : Registers(k, s)
    \/ \E k \in Keys : RegisterMember(k)
    \/ \E r \in enrolls, k \in Keys : Respond(r, k)
    \/ \E k, t \in Keys : Revoke(k, t)
    \/ Locked
    \/ Start \/ Stop
    \/ HostSteps
    \/ Tick

Spec == Init /\ [][Next]_vars

(***************************************************************************)
(* Properties.                                                             *)
(***************************************************************************)
\* At no moment do two keys hold one slot: not through genesis with a marker
\* whose close failed, nor through an approval that outlived its occupant.
OneKeyPerSlot ==
    \A j, k \in Keys : phones[j] \in SLOTS /\ phones[j] = phones[k] => j = k

\* Two keys never have live requests or approvals for one slot unless they
\* asked more than the contest window apart: a person comparing two cards is
\* never the only guard.
NoRivalRequests ==
    \A r1, r2 \in enrolls :
        /\ r1.slot = r2.slot /\ r1.key # r2.key
        /\ r1.state # "refused" /\ r2.state # "refused"
        => r1.age - r2.age > ContestWindow \/ r2.age - r1.age > ContestWindow

\* An approval a registration would use now was given by a phone that has been
\* an owner ever since, for an occupant that has held the slot ever since: a
\* removed phone that pairs again revives nothing.
ApprovalsNeverRevived ==
    Serving => \A r \in enrolls : r \in OnFile(r.key, r.slot) => r.stood

\* The records a step takes away; one that only lost its cards, or whose
\* history changed, is still there.
Gone == {r \in enrolls :
           ~ \E q \in enrolls' : r = [q EXCEPT !.queued = r.queued, !.stood = r.stood]}

\* The owners are emptied by the host reset alone, and only with the marker
\* already closed: no revoke, displacement, crash or failed write leaves a
\* bootloader that any owner code can take.
LastOwnerLeavesByReset ==
    [][Owners # {} /\ Owners' = {} => host.at = "voided" /\ genesis = "closed"]_vars

\* Past genesis a key enters a slot only by using up an approval of an owner
\* that named this key, this slot and exactly the phone that goes; an owner that
\* approved its own replacement goes only while it is still the only one.
EntryAsApproved ==
    [][\A k \in Keys, s \in SLOTS :
          phones[k] \notin SLOTS /\ phones'[k] = s =>
              \/ GenesisOpen
              \/ \E r \in Gone :
                    /\ r.state = "approved" /\ r.key = k /\ r.slot = s
                    /\ r.by \in Owners
                    /\ r.by = r.occupant => Owners = {r.by}
                    /\ {j \in Keys : phones[j] # "none" /\ phones'[j] = "none"}
                           = {r.occupant} \ {NoKey}]_vars
===============================================================================
