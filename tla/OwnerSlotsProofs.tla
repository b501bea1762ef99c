--------------------------- MODULE OwnerSlotsProofs ---------------------------
(***************************************************************************)
(* Theorems about OwnerSlots, for every set of keys, every lifetime and    *)
(* both stores.                                                            *)
(***************************************************************************)
EXTENDS OwnerSlots, FiniteSetTheorems, TLAPS

(***************************************************************************)
(* The inductive invariant.                                                *)
(***************************************************************************)
\* A card is queued while it is young, and an approval's age and remaining
\* life add up to less than a card's and an approval's lives together.
Fresh(r) ==
    /\ r.queued # {} => r.age < CardTTL
    /\ r.left > 0 => r.age + r.left < CardTTL + ApprovalTTL
    /\ r.left = 0 => r.age < ContestWindow

GoodRecords == {r \in Records : Fresh(r)}

\* The registry lock and the store lock keep the server and the host apart, a
\* host reset in progress has closed the marker, and a stopped server on the
\* file backend has no records.
LockInv ==
    /\ locked # Idle => up /\ host = Idle
    /\ host # Idle => genesis = "closed"
    /\ ~Durable /\ host # Idle => ~up
    /\ ~Durable /\ ~up => enrolls = {}

OwnerInv ==
    /\ TypeOK
    /\ enrolls \subseteq GoodRecords
    /\ LockInv
    /\ OneKeyPerSlot

(***************************************************************************)
(* Lemmas about the operators of OwnerSlots.                               *)
(***************************************************************************)
\* A slot's occupant is the key that holds it, if any does.
LEMMA OccupantHolds ==
    ASSUME NEW slot \in SLOTS
    PROVE  /\ Occupant(slot) \in Phones
           /\ Occupant(slot) = NoKey => Holders(slot) = {}
           /\ Occupant(slot) # NoKey => Occupant(slot) \in Holders(slot)
  <1>1. Holders(slot) \subseteq Keys
    BY DEF Holders
  <1>2. CASE Holders(slot) = {}
    BY <1>2 DEF Occupant, Phones
  <1>3. CASE Holders(slot) # {}
    <2>1. PICK k : k \in Holders(slot)
      BY <1>3
    <2>2. (CHOOSE h \in Holders(slot) : TRUE) \in Holders(slot)
      BY <2>1
    <2>3. Occupant(slot) \in Holders(slot)
      BY <1>3, <2>2 DEF Occupant
    <2> QED  BY <1>1, <1>3, <2>3, OwnerAssumption DEF Phones
  <1> QED  BY <1>2, <1>3

\* Only keys approve.
LEMMA ApproversAreKeys ==
    ASSUME NEW slot
    PROVE  Approvers(slot) \subseteq Keys
  BY DEF Approvers, Holders, Owners

\* A new request is a good record.
LEMMA RequestGood ==
    ASSUME NEW key \in Keys, NEW slot \in SLOTS
    PROVE  Request(key, slot) \in GoodRecords
  <1>1. Occupant(slot) \in Phones
    BY OccupantHolds
  <1>2. Approvers(slot) \in SUBSET Keys
    BY ApproversAreKeys
  <1>3. NoKey \in Phones
    BY DEF Phones
  <1>4. 0 \in 0 .. ContestWindow + CardTTL + ApprovalTTL /\ 0 \in 0 .. ApprovalTTL
    BY OwnerAssumption
  <1>5. Request(key, slot) \in Records
    BY <1>1, <1>2, <1>3, <1>4 DEF Request, Records
  <1>6. Fresh(Request(key, slot))
    BY OwnerAssumption DEF Fresh, Request
  <1> QED  BY <1>5, <1>6 DEF GoodRecords

\* Refusing a record keeps it good.
LEMMA RefusedGood ==
    ASSUME NEW r \in GoodRecords
    PROVE  Refused(r) \in GoodRecords
  <1>1. r \in Records /\ Fresh(r)
    BY DEF GoodRecords
  <1>2. Refused(r) \in Records
    BY <1>1 DEF Refused, Records, Phones
  <1>3. /\ Refused(r).queued = {} /\ Refused(r).left = r.left /\ Refused(r).age = r.age
    BY <1>1 DEF Refused, Records
  <1>4. Fresh(Refused(r))
    BY <1>1, <1>3 DEF Fresh
  <1> QED  BY <1>2, <1>4 DEF GoodRecords

\* So does an approval given while a card is queued.
LEMMA ApprovedGood ==
    ASSUME NEW r \in GoodRecords, NEW k \in r.queued
    PROVE  Approved(r, k) \in GoodRecords
  <1>1. r \in Records /\ Fresh(r)
    BY DEF GoodRecords
  <1>2. k \in Phones
    BY <1>1 DEF Records, Phones
  <1>3. ApprovalTTL \in 0 .. ApprovalTTL
    BY OwnerAssumption
  <1>4. Approved(r, k) \in Records
    BY <1>1, <1>2, <1>3 DEF Approved, Records
  <1>5. /\ Approved(r, k).queued = {} /\ Approved(r, k).left = ApprovalTTL
        /\ Approved(r, k).age = r.age
    BY <1>1 DEF Approved, Records
  <1>6. r.age \in Int /\ r.age < CardTTL
    BY <1>1 DEF Fresh, Records
  <1>7. Fresh(Approved(r, k))
    BY <1>5, <1>6, OwnerAssumption DEF Fresh
  <1> QED  BY <1>4, <1>7 DEF GoodRecords

\* Voiding, removing a phone's queue and purging after a tick keep good
\* records good.
LEMMA VoidedGood ==
    ASSUME NEW R \in SUBSET GoodRecords, NEW p
    PROVE  Voided(R, p) \subseteq GoodRecords
  BY RefusedGood DEF Voided

LEMMA RemovedGood ==
    ASSUME NEW R \in SUBSET GoodRecords, NEW p
    PROVE  Removed(R, p) \subseteq GoodRecords
  <1> SUFFICES ASSUME NEW r \in R
               PROVE  [r EXCEPT !.queued = @ \ {p}, !.stood = @ /\ p \notin {r.by, r.occupant}]
                          \in GoodRecords
    BY DEF Removed
  <1> DEFINE q == [r EXCEPT !.queued = @ \ {p}, !.stood = @ /\ p \notin {r.by, r.occupant}]
  <1>1. r \in Records /\ Fresh(r)
    BY DEF GoodRecords
  <1>2. (r.stood /\ p \notin {r.by, r.occupant}) \in BOOLEAN
    OBVIOUS
  <1>3. r.queued \ {p} \in SUBSET Keys
    BY <1>1 DEF Records
  <1>4. q \in Records
    BY <1>1, <1>2, <1>3 DEF Records
  <1>5. q.queued = r.queued \ {p} /\ q.left = r.left /\ q.age = r.age
    BY <1>1 DEF Records
  <1>6. Fresh(q)
    BY <1>1, <1>5 DEF Fresh
  <1> QED  BY <1>4, <1>6 DEF GoodRecords

LEMMA PurgedGood ==
    ASSUME NEW R \in SUBSET GoodRecords
    PROVE  Purged({Aged(r) : r \in R}) \subseteq GoodRecords
  <1> SUFFICES ASSUME NEW r \in R, Aged(r).left > 0 \/ Aged(r).age < ContestWindow
               PROVE  Aged(r) \in GoodRecords
    BY DEF Purged
  <1>1. r \in Records /\ Fresh(r)
    BY DEF GoodRecords
  <1>2. r.age \in Nat /\ r.left \in Nat /\ r.left <= ApprovalTTL
    BY <1>1, OwnerAssumption DEF Records
  <1>3. /\ Aged(r).age = r.age + 1
        /\ Aged(r).left = IF r.left > 0 THEN r.left - 1 ELSE 0
        /\ Aged(r).queued = IF r.age + 1 >= CardTTL THEN {} ELSE r.queued
    BY <1>1 DEF Aged, Records
  <1>4. Fresh(Aged(r))
    BY <1>1, <1>2, <1>3, OwnerAssumption DEF Fresh
  <1>5. Aged(r).age \in 0 .. ContestWindow + CardTTL + ApprovalTTL
    BY <1>2, <1>3, <1>4, OwnerAssumption DEF Fresh
  <1>6. Aged(r).left \in 0 .. ApprovalTTL
    BY <1>2, <1>3, OwnerAssumption
  <1>7. Aged(r).queued \in SUBSET Keys
    BY <1>1, <1>3 DEF Records
  <1>8. Aged(r) = [r EXCEPT !.age = Aged(r).age, !.left = Aged(r).left, !.queued = Aged(r).queued]
    BY <1>1 DEF Aged, Records
  <1>9. Aged(r) \in Records
    BY <1>1, <1>5, <1>6, <1>7, <1>8 DEF Records
  <1> QED  BY <1>4, <1>9 DEF GoodRecords

\* A slot's only holder is its occupant.
LEMMA OccupantIsTheHolder ==
    ASSUME OneKeyPerSlot, NEW slot \in SLOTS, NEW k \in Keys, phones[k] = slot
    PROVE  Occupant(slot) = k
  <1>1. k \in Holders(slot)
    BY DEF Holders
  <1>2. Occupant(slot) # NoKey
    BY <1>1, OccupantHolds
  <1>3. Occupant(slot) \in Holders(slot)
    BY <1>2, OccupantHolds
  <1> QED  BY <1>3 DEF Holders, OneKeyPerSlot

(***************************************************************************)
(* The invariant, action by action.                                        *)
(***************************************************************************)
\* What an idle lock is.
LEMMA IdleTyped ==
    /\ Idle \in [at : {"idle", "closing", "voiding"}, phone : Phones]
    /\ Idle \in [at : {"idle", "ready", "voided"}, phone : Phones]
    /\ Idle.at = "idle"
  BY DEF Idle, Phones

LEMMA OwnerInvInit == Init => OwnerInv
  <1> SUFFICES ASSUME Init PROVE OwnerInv
    OBVIOUS
  <1>1. TypeOK
    BY IdleTyped DEF Init, TypeOK
  <1>2. OneKeyPerSlot
    BY DEF Init, OneKeyPerSlot
  <1>3. LockInv /\ enrolls \subseteq GoodRecords
    BY DEF Init, LockInv
  <1> QED  BY <1>1, <1>2, <1>3 DEF OwnerInv

\* Registrations past genesis that seat nobody.
LEMMA AskingKeeps ==
    ASSUME OwnerInv, NEW k \in Keys, NEW s \in SLOTS,
           EnrollFails(k, s) \/ Contest(k, s) \/ Ask(k, s)
    PROVE  OwnerInv'
  <1> USE DEF OwnerInv
  <1>1. /\ UNCHANGED <<phones, genesis, up, locked, host>>
        /\ up
    BY DEF EnrollFails, Contest, Ask, Asks, Serving
  <1>2. enrolls' \subseteq GoodRecords
    <2>1. CASE EnrollFails(k, s)
      BY <2>1 DEF EnrollFails
    <2>2. CASE Contest(k, s)
      <3>1. Refused(Request(k, s)) \in GoodRecords
        BY RequestGood, RefusedGood
      <3>2. \A r \in enrolls : r \in GoodRecords /\ Refused(r) \in GoodRecords
        BY RefusedGood
      <3> QED  BY <2>2, <3>1, <3>2 DEF Contest
    <2>3. CASE Ask(k, s)
      BY <2>3, RequestGood DEF Ask
    <2> QED  BY <2>1, <2>2, <2>3
  <1>3. TypeOK'
    BY <1>1, <1>2 DEF TypeOK, GoodRecords
  <1> QED  BY <1>1, <1>2, <1>3 DEF LockInv, OneKeyPerSlot

\* A key lands in a slot: the first owner by genesis, a later one by approval.
LEMMA SeatingKeeps ==
    ASSUME OwnerInv, NEW k \in Keys, NEW s \in SLOTS, RegisterFirst(k, s) \/ Enroll(k, s)
    PROVE  OwnerInv'
  <1> USE DEF OwnerInv
  <1>1. CASE RegisterFirst(k, s)
    <2>1. enrolls' \subseteq GoodRecords /\ TypeOK'
      BY <1>1 DEF RegisterFirst, TypeOK, Phones
    <2>2. LockInv'
      BY <1>1 DEF RegisterFirst, Serving, LockInv, Idle
    <2>3. \A j \in Keys : phones[j] \notin SLOTS
      BY <1>1 DEF RegisterFirst, GenesisOpen, Owners
    <2>4. OneKeyPerSlot'
      BY <1>1, <2>3 DEF RegisterFirst, OneKeyPerSlot, TypeOK
    <2> QED  BY <2>1, <2>2, <2>4
  <1>2. CASE Enroll(k, s)
    <2> DEFINE o == Occupant(s)
               seated == [phones EXCEPT ![k] = s]
    <2>1. PICK r \in OnFile(k, s) :
            IF o = NoKey
            THEN phones' = seated /\ enrolls' = enrolls \ {r} /\ locked' = Idle
            ELSE /\ phones' = [seated EXCEPT ![o] = "none"]
                 /\ enrolls' = Removed(enrolls \ {r}, o)
                 /\ locked' = [at |-> "voiding", phone |-> o]
      BY <1>2 DEF Enroll
    <2>2. UNCHANGED <<genesis, up, host>> /\ up /\ locked = Idle /\ host = Idle
      BY <1>2 DEF Enroll, Asks, Serving
    <2>3. o \in Phones
      BY OccupantHolds
    <2>4. enrolls' \subseteq GoodRecords
      BY <2>1, RemovedGood
    <2>5. locked' \in [at : {"idle", "closing", "voiding"}, phone : Phones]
      BY <2>1, <2>3, IdleTyped
    <2>6. phones' \in [Keys -> SLOTS \union {"member", "none"}]
      <3>1. seated \in [Keys -> SLOTS \union {"member", "none"}]
        BY DEF TypeOK
      <3> QED  BY <2>1, <3>1
    <2>7. TypeOK'
      BY <2>2, <2>4, <2>5, <2>6 DEF TypeOK, GoodRecords
    <2>8. LockInv'
      BY <2>2 DEF LockInv, Idle
    <2>9. \A j \in Keys \ {k} : phones'[j] # s /\ phones'[j] \in {phones[j], "none"}
      <3> SUFFICES ASSUME NEW j \in Keys \ {k}
                   PROVE  phones'[j] # s /\ phones'[j] \in {phones[j], "none"}
        OBVIOUS
      <3>1. seated[j] = phones[j]
        BY DEF TypeOK
      <3>2. CASE phones[j] = s
        <4>1. o = j
          BY <3>2, OccupantIsTheHolder
        <4>2. phones' = [seated EXCEPT ![j] = "none"]
          BY <2>1, <4>1, OwnerAssumption
        <4>3. phones'[j] = "none"
          BY <4>2 DEF TypeOK
        <4> QED  BY <4>3 DEF SLOTS
      <3>3. CASE phones[j] # s
        <4>1. phones'[j] \in {seated[j], "none"}
          BY <2>1 DEF TypeOK
        <4> QED  BY <3>1, <3>3, <4>1 DEF SLOTS
      <3> QED  BY <3>2, <3>3
    <2>10. phones'[k] \in {s, "none"}
      BY <2>1 DEF TypeOK
    <2>11. OneKeyPerSlot'
      BY <2>9, <2>10 DEF OneKeyPerSlot, SLOTS
    <2> QED  BY <2>4, <2>7, <2>8, <2>11
  <1> QED  BY <1>1, <1>2

\* The other handlers, the process and the host.
LEMMA RevokingKeeps ==
    ASSUME OwnerInv, NEW k \in Keys, NEW t \in Keys, Revoke(k, t)
    PROVE  OwnerInv'
  <1> USE DEF OwnerInv
  <1>1. enrolls' \subseteq GoodRecords
    BY RemovedGood DEF Revoke
  <1>2. locked' \in [at : {"idle", "closing", "voiding"}, phone : Phones]
    BY DEF Revoke, Phones
  <1>3. TypeOK'
    BY <1>1, <1>2 DEF Revoke, TypeOK, GoodRecords
  <1>4. LockInv'
    BY DEF Revoke, Serving, LockInv, Idle
  <1>5. OneKeyPerSlot'
    BY DEF Revoke, OneKeyPerSlot, TypeOK, SLOTS
  <1> QED  BY <1>1, <1>3, <1>4, <1>5

LEMMA RespondingKeeps ==
    ASSUME OwnerInv, NEW r \in enrolls, NEW k \in Keys, Respond(r, k)
    PROVE  OwnerInv'
  <1> USE DEF OwnerInv
  <1>1. Refused(r) \in GoodRecords /\ Approved(r, k) \in GoodRecords
    BY RefusedGood, ApprovedGood DEF Respond
  <1>2. enrolls' \subseteq GoodRecords
    BY <1>1 DEF Respond
  <1>3. TypeOK'
    BY <1>2 DEF Respond, TypeOK, GoodRecords
  <1>4. LockInv' /\ OneKeyPerSlot'
    BY DEF Respond, Serving, LockInv, OneKeyPerSlot
  <1> QED  BY <1>2, <1>3, <1>4

LEMMA LockedKeeps ==
    ASSUME OwnerInv, Locked \/ (\E k \in Keys : RegisterMember(k))
    PROVE  OwnerInv'
  <1> USE DEF OwnerInv
  <1>1. CASE CloseGenesis \/ CloseFails
    <2>1. TypeOK' /\ enrolls' \subseteq GoodRecords
      BY <1>1, IdleTyped DEF CloseGenesis, CloseFails, TypeOK
    <2>2. LockInv' /\ OneKeyPerSlot'
      BY <1>1 DEF CloseGenesis, CloseFails, LockInv, OneKeyPerSlot, Idle
    <2> QED  BY <2>1, <2>2
  <1>2. CASE VoidRemoved
    <2>1. enrolls' \subseteq GoodRecords
      BY <1>2, VoidedGood DEF VoidRemoved
    <2>2. TypeOK'
      BY <1>2, <2>1, IdleTyped DEF VoidRemoved, TypeOK, GoodRecords
    <2>3. LockInv' /\ OneKeyPerSlot'
      BY <1>2 DEF VoidRemoved, LockInv, OneKeyPerSlot, Idle
    <2> QED  BY <2>1, <2>2, <2>3
  <1>3. CASE \E k \in Keys : RegisterMember(k)
    <2>1. TypeOK' /\ enrolls' \subseteq GoodRecords /\ LockInv'
      BY <1>3 DEF RegisterMember, TypeOK, LockInv
    <2>2. OneKeyPerSlot'
      BY <1>3 DEF RegisterMember, TypeOK, OneKeyPerSlot, SLOTS
    <2> QED  BY <2>1, <2>2
  <1> QED  BY <1>1, <1>2, <1>3 DEF Locked

LEMMA ProcessKeeps ==
    ASSUME OwnerInv, Start \/ Stop \/ Tick
    PROVE  OwnerInv'
  <1> USE DEF OwnerInv
  <1>1. CASE Start
    BY <1>1 DEF Start, TypeOK, LockInv, OneKeyPerSlot
  <1>2. CASE Stop
    <2>1. TypeOK' /\ enrolls' \subseteq GoodRecords
      BY <1>2, IdleTyped DEF Stop, TypeOK
    <2>2. LockInv' /\ OneKeyPerSlot'
      BY <1>2, OwnerAssumption DEF Stop, LockInv, OneKeyPerSlot
    <2> QED  BY <2>1, <2>2
  <1>3. CASE Tick
    <2>1. enrolls' \subseteq GoodRecords
      BY <1>3, PurgedGood DEF Tick
    <2>2. TypeOK' /\ LockInv' /\ OneKeyPerSlot'
      BY <1>3, <2>1 DEF Tick, TypeOK, GoodRecords, LockInv, OneKeyPerSlot
    <2> QED  BY <2>1, <2>2
  <1> QED  BY <1>1, <1>2, <1>3

LEMMA HostKeeps ==
    ASSUME OwnerInv, HostSteps
    PROVE  OwnerInv'
  <1> USE DEF OwnerInv
  <1>1. CASE HostClose
    BY <1>1, OwnerAssumption DEF HostClose, HostMay, TypeOK, LockInv, OneKeyPerSlot, Phones
  <1>2. CASE \E k \in Keys : HostVoid(k)
    <2>1. PICK k \in Keys : HostVoid(k)
      BY <1>2
    <2>2. enrolls' \subseteq GoodRecords
      BY <2>1, VoidedGood DEF HostVoid
    <2>3. TypeOK'
      BY <2>1, <2>2 DEF HostVoid, TypeOK, GoodRecords, Phones
    <2>4. LockInv'
      <3>1. host # Idle
        BY <2>1 DEF HostVoid, Idle
      <3>2. ~Durable => enrolls' = {}
        BY <2>1, <3>1 DEF HostVoid, LockInv, Voided
      <3> QED  BY <2>1, <3>1, <3>2 DEF HostVoid, LockInv
    <2>5. OneKeyPerSlot'
      BY <2>1 DEF HostVoid, OneKeyPerSlot
    <2> QED  BY <2>2, <2>3, <2>4, <2>5
  <1>3. CASE HostRevoke
    <2>1. enrolls' \subseteq GoodRecords
      BY <1>3, RemovedGood DEF HostRevoke
    <2>2. TypeOK'
      BY <1>3, <2>1 DEF HostRevoke, TypeOK, GoodRecords, Phones
    <2>3. LockInv'
      <3>1. host # Idle
        BY <1>3 DEF HostRevoke, Idle
      <3>2. ~Durable => enrolls' = {}
        BY <1>3, <3>1 DEF HostRevoke, LockInv, Removed
      <3> QED  BY <1>3, <3>1, <3>2 DEF HostRevoke, LockInv
    <2>4. OneKeyPerSlot'
      BY <1>3 DEF HostRevoke, OneKeyPerSlot, TypeOK, SLOTS
    <2> QED  BY <2>1, <2>2, <2>3, <2>4
  <1>4. CASE HostReopen \/ HostDies
    <2>1. TypeOK' /\ enrolls' \subseteq GoodRecords
      BY <1>4, IdleTyped DEF HostReopen, HostDies, TypeOK
    <2>2. LockInv' /\ OneKeyPerSlot'
      BY <1>4 DEF HostReopen, HostDies, LockInv, OneKeyPerSlot
    <2> QED  BY <2>1, <2>2
  <1> QED  BY <1>1, <1>2, <1>3, <1>4 DEF HostSteps

LEMMA OwnerInvStep == OwnerInv /\ [Next]_vars => OwnerInv'
  <1> SUFFICES ASSUME OwnerInv, [Next]_vars PROVE OwnerInv'
    OBVIOUS
  <1>1. CASE \E k \in Keys, s \in SLOTS : Registers(k, s)
    BY <1>1, AskingKeeps, SeatingKeeps DEF Registers
  <1>2. CASE \E r \in enrolls, k \in Keys : Respond(r, k)
    BY <1>2, RespondingKeeps
  <1>3. CASE \E k, t \in Keys : Revoke(k, t)
    BY <1>3, RevokingKeeps
  <1>4. CASE Locked \/ (\E k \in Keys : RegisterMember(k))
    BY <1>4, LockedKeeps
  <1>5. CASE Start \/ Stop \/ Tick
    BY <1>5, ProcessKeeps
  <1>6. CASE HostSteps
    BY <1>6, HostKeeps
  <1>7. CASE UNCHANGED vars
    BY <1>7 DEF vars, OwnerInv, TypeOK, LockInv, OneKeyPerSlot
  <1> QED  BY <1>1, <1>2, <1>3, <1>4, <1>5, <1>6, <1>7 DEF Next

\* The inductive invariant.
THEOREM OwnerInvariant == Spec => []OwnerInv
  BY OwnerInvInit, OwnerInvStep, PTL DEF Spec

\* Every variable keeps its type, and no record outlives its expiry.
THEOREM SlotTypes == Spec => []TypeOK
  BY OwnerInvariant, PTL DEF OwnerInv

\* At no moment do two keys hold one slot.
THEOREM SlotsHoldOneKey == Spec => []OneKeyPerSlot
  BY OwnerInvariant, PTL DEF OwnerInv

(***************************************************************************)
(* The last owner leaves by the host reset alone.                          *)
(***************************************************************************)
\* A registration seats a key, so it leaves an owner behind.
LEMMA SeatingLeavesAnOwner ==
    ASSUME OwnerInv, NEW k \in Keys, NEW s \in SLOTS, RegisterFirst(k, s) \/ Enroll(k, s)
    PROVE  phones'[k] \in SLOTS
  <1>1. CASE RegisterFirst(k, s)
    BY <1>1 DEF RegisterFirst, OwnerInv, TypeOK
  <1>2. CASE Enroll(k, s)
    <2> DEFINE o == Occupant(s)
               seated == [phones EXCEPT ![k] = s]
    <2>1. phones[k] = "none"
      BY <1>2 DEF Enroll, Asks
    <2>2. phones' = seated \/ (o # NoKey /\ phones' = [seated EXCEPT ![o] = "none"])
      BY <1>2 DEF Enroll
    <2>3. o # NoKey => o # k
      <3>1. o # NoKey => phones[o] = s
        BY OccupantHolds DEF Holders
      <3> QED  BY <2>1, <3>1 DEF SLOTS
    <2> QED  BY <2>2, <2>3 DEF OwnerInv, TypeOK
  <1> QED  BY <1>1, <1>2

\* A revoke leaves an owner behind.
LEMMA RevokeLeavesAnOwner ==
    ASSUME OwnerInv, NEW k \in Keys, NEW t \in Keys, Revoke(k, t), Owners # {}
    PROVE  Owners' # {}
  <1>1. \A j \in Keys \ {t} : phones'[j] = phones[j]
    BY DEF Revoke, OwnerInv, TypeOK
  <1>2. PICK j \in Owners : j # t
    <2>1. CASE t \in Owners
      <3>1. Owners # {t}
        BY <2>1, FS_Singleton DEF Revoke, LastOwner
      <3> QED  BY <2>1, <3>1
    <2>2. CASE t \notin Owners
      BY <2>2
    <2> QED  BY <2>1, <2>2
  <1> QED  BY <1>1, <1>2 DEF Owners

\* The owners are emptied by the host reset alone, with the marker closed.
THEOREM OwnersEmptiedByReset == Spec => LastOwnerLeavesByReset
  <1>1. OwnerInv /\ [Next]_vars =>
            [Owners # {} /\ Owners' = {} => host.at = "voided" /\ genesis = "closed"]_vars
    <2> SUFFICES ASSUME OwnerInv, Next, Owners # {}, Owners' = {}
                 PROVE  host.at = "voided" /\ genesis = "closed"
      OBVIOUS
    <2>1. ~UNCHANGED phones
      BY DEF Owners
    <2>2. CASE \E k \in Keys, s \in SLOTS : Registers(k, s)
      <3>1. PICK k \in Keys, s \in SLOTS : Registers(k, s)
        BY <2>2
      <3>2. RegisterFirst(k, s) \/ Enroll(k, s)
        BY <2>1, <3>1 DEF Registers, EnrollFails, Contest, Ask
      <3> QED  BY <3>2, SeatingLeavesAnOwner DEF Owners
    <2>3. CASE \E k \in Keys : RegisterMember(k)
      BY <2>3 DEF RegisterMember, Owners, OwnerInv, TypeOK, SLOTS
    <2>4. CASE \E k, t \in Keys : Revoke(k, t)
      BY <2>4, RevokeLeavesAnOwner
    <2>5. CASE HostRevoke
      BY <2>5 DEF HostRevoke, OwnerInv, LockInv, Idle
    <2>6. CASE \/ \E r \in enrolls, k \in Keys : Respond(r, k)
               \/ Locked \/ Start \/ Stop \/ Tick
      BY <2>1, <2>6 DEF Respond, Locked, CloseGenesis, CloseFails, VoidRemoved, Start, Stop, Tick
    <2>7. CASE HostClose \/ (\E k \in Keys : HostVoid(k)) \/ HostReopen \/ HostDies
      BY <2>1, <2>7 DEF HostClose, HostVoid, HostReopen, HostDies
    <2> QED  BY <2>2, <2>3, <2>4, <2>5, <2>6, <2>7 DEF Next, HostSteps
  <1> QED  BY <1>1, OwnerInvariant, PTL DEF Spec, LastOwnerLeavesByReset

(***************************************************************************)
(* On the file backend a removed phone's approvals are never revived.      *)
(***************************************************************************)
\* A live record stood, or the phone it leans on is just being voided.
Stands(r) ==
    \/ r.state = "refused"
    \/ r.stood
    \/ locked.at = "voiding" /\ locked.phone \in {r.by, r.occupant}

StandInv == \A r \in enrolls : Stands(r)

LEMMA StandInvStep ==
    ASSUME ~Durable, OwnerInv, StandInv, [Next]_vars
    PROVE  StandInv'
  <1> USE DEF OwnerInv
  <1>1. \A r \in enrolls : locked = Idle => r.state = "refused" \/ r.stood
    BY DEF StandInv, Stands, Idle
  <1>2. \A r \in enrolls : r \in Records
    BY DEF TypeOK
  <1>3. CASE \E k \in Keys, s \in SLOTS : Registers(k, s)
    <2>1. PICK k \in Keys, s \in SLOTS : Registers(k, s)
      BY <1>3
    <2>2. locked = Idle
      BY <2>1 DEF Registers, RegisterFirst, Enroll, EnrollFails, Contest, Ask, Asks, Serving
    <2>3. Request(k, s).stood /\ Refused(Request(k, s)).state = "refused"
      BY DEF Request, Refused
    <2>4. \A r \in enrolls : Refused(r).state = "refused"
      BY <1>2 DEF Refused, Records
    <2>5. CASE RegisterFirst(k, s) \/ EnrollFails(k, s) \/ Ask(k, s)
      BY <1>1, <2>2, <2>3, <2>5 DEF RegisterFirst, EnrollFails, Ask, StandInv, Stands
    <2>6. CASE Contest(k, s)
      BY <1>1, <2>2, <2>3, <2>4, <2>6 DEF Contest, StandInv, Stands
    <2>7. CASE Enroll(k, s)
      <3>1. PICK r \in OnFile(k, s), o \in {Occupant(s)} :
              \/ enrolls' = enrolls \ {r}
              \/ /\ enrolls' = Removed(enrolls \ {r}, o)
                 /\ locked' = [at |-> "voiding", phone |-> o]
        BY <2>7 DEF Enroll
      <3>2. CASE enrolls' = enrolls \ {r}
        BY <1>1, <2>2, <3>2 DEF StandInv, Stands
      <3>3. CASE /\ enrolls' = Removed(enrolls \ {r}, o)
                 /\ locked' = [at |-> "voiding", phone |-> o]
        <4> SUFFICES ASSUME NEW q \in enrolls
                     PROVE  Stands([q EXCEPT !.queued = @ \ {o},
                                    !.stood = @ /\ o \notin {q.by, q.occupant}])'
          BY <3>3 DEF StandInv, Removed
        <4> QED  BY <1>1, <1>2, <2>2, <3>3 DEF Stands, Records
      <3> QED  BY <3>1, <3>2, <3>3
    <2> QED  BY <2>1, <2>5, <2>6, <2>7 DEF Registers
  <1>4. CASE \E k, t \in Keys : Revoke(k, t)
    <2>1. PICK k \in Keys, t \in Keys : Revoke(k, t)
      BY <1>4
    <2>2. locked = Idle /\ locked' = [at |-> "voiding", phone |-> t]
          /\ enrolls' = Removed(enrolls, t)
      BY <2>1 DEF Revoke, Serving
    <2> SUFFICES ASSUME NEW q \in enrolls
                 PROVE  Stands([q EXCEPT !.queued = @ \ {t},
                                !.stood = @ /\ t \notin {q.by, q.occupant}])'
      BY <2>2 DEF StandInv, Removed
    <2> QED  BY <1>1, <1>2, <2>2 DEF Stands, Records
  <1>5. CASE \E r \in enrolls, k \in Keys : Respond(r, k)
    <2>1. PICK r \in enrolls, k \in Keys : Respond(r, k)
      BY <1>5
    <2>2. locked = Idle /\ r.state = "pending" /\ UNCHANGED locked
      BY <2>1 DEF Respond, Serving
    <2>3. Refused(r).state = "refused" /\ Approved(r, k).stood = r.stood
      BY <1>2 DEF Refused, Approved, Records
    <2>4. r.stood
      BY <1>1, <2>2
    <2> QED  BY <1>1, <2>1, <2>2, <2>3, <2>4 DEF Respond, StandInv, Stands
  <1>6. CASE VoidRemoved
    <2> SUFFICES ASSUME NEW q \in enrolls, q.state # "refused",
                        locked.phone \notin {q.by, q.occupant}
                 PROVE  q.stood
      <3>1. \A q \in enrolls : Refused(q).state = "refused"
        BY <1>2 DEF Refused, Records
      <3> QED  BY <1>6, <3>1 DEF VoidRemoved, StandInv, Voided, Stands
    <2> QED  BY DEF StandInv, Stands
  <1>7. CASE CloseGenesis \/ CloseFails
    BY <1>7 DEF CloseGenesis, CloseFails, StandInv, Stands
  <1>8. CASE Tick
    <2> SUFFICES ASSUME NEW q \in enrolls
                 PROVE  Stands(Aged(q))'
      BY <1>8 DEF Tick, Purged, StandInv
    <2>1. Aged(q).state = q.state /\ Aged(q).stood = q.stood
      BY <1>2 DEF Aged, Records
    <2> QED  BY <1>1, <1>8, <2>1 DEF Tick, Stands
  <1>9. CASE Stop
    BY <1>9 DEF Stop, StandInv
  <1>10. CASE Start \/ (\E k \in Keys : RegisterMember(k)) \/ UNCHANGED vars
    BY <1>10 DEF Start, RegisterMember, vars, StandInv, Stands
  <1>11. CASE HostSteps
    <2>1. enrolls = {}
      BY <1>11, OwnerAssumption
      DEF HostSteps, HostClose, HostVoid, HostRevoke, HostReopen, HostDies, HostMay, LockInv, Idle
    <2>2. enrolls' = {}
      BY <1>11, <2>1
      DEF HostSteps, HostClose, HostVoid, HostRevoke, HostReopen, HostDies, Voided, Removed
    <2> QED  BY <2>2 DEF StandInv
  <1> QED  BY <1>3, <1>4, <1>5, <1>6, <1>7, <1>8, <1>9, <1>10, <1>11 DEF Next, Locked

\* An approval a registration would use now was given by an owner, and for an
\* occupant, that stood ever since - on the file backend.
THEOREM FileApprovalsNeverRevived ==
    ASSUME ~Durable PROVE Spec => []ApprovalsNeverRevived
  <1>1. Init => StandInv
    BY DEF Init, StandInv
  <1>2. OwnerInv /\ StandInv /\ [Next]_vars => StandInv'
    BY StandInvStep
  <1>3. StandInv => ApprovalsNeverRevived
    BY DEF StandInv, Stands, ApprovalsNeverRevived, Serving, OnFile, Idle
  <1> QED  BY <1>1, <1>2, <1>3, OwnerInvariant, PTL DEF Spec

(***************************************************************************)
(* Two keys never have requests or approvals a window apart or less.       *)
(***************************************************************************)
\* A record that stands for another one, d ticks later.
Stems(q, r, d) ==
    /\ q.key = r.key /\ q.slot = r.slot /\ q.age = r.age + d
    /\ r.state = "refused" => q.state = "refused"

\* Records that all stem from records of one moment are as far apart.
LEMMA StemsStayApart ==
    ASSUME NoRivalRequests, enrolls \subseteq Records, NEW d \in Nat,
           \A q \in enrolls' : \E r \in enrolls : Stems(q, r, d)
    PROVE  NoRivalRequests'
  <1> SUFFICES ASSUME NEW q1 \in enrolls', NEW q2 \in enrolls',
                      q1.slot = q2.slot, q1.key # q2.key,
                      q1.state # "refused", q2.state # "refused"
               PROVE  q1.age - q2.age > ContestWindow \/ q2.age - q1.age > ContestWindow
    BY DEF NoRivalRequests
  <1>1. PICK r1 \in enrolls : Stems(q1, r1, d)
    OBVIOUS
  <1>2. PICK r2 \in enrolls : Stems(q2, r2, d)
    OBVIOUS
  <1>3. r1.age - r2.age > ContestWindow \/ r2.age - r1.age > ContestWindow
    BY <1>1, <1>2 DEF NoRivalRequests, Stems
  <1>4. r1.age \in Int /\ r2.age \in Int
    BY OwnerAssumption DEF Records
  <1> QED  BY <1>1, <1>2, <1>3, <1>4, OwnerAssumption DEF Stems

LEMMA RefusalStems ==
    ASSUME NEW r \in Records
    PROVE  Stems(Refused(r), r, 0) /\ Stems(r, r, 0) /\ Refused(r).state = "refused"
  BY OwnerAssumption DEF Refused, Records, Stems

LEMMA RemovedStems ==
    ASSUME NEW records \in SUBSET Records, NEW phone, NEW q \in Removed(records, phone)
    PROVE  \E r \in records : Stems(q, r, 0)
  <1>1. PICK r \in records :
            q = [r EXCEPT !.queued = @ \ {phone}, !.stood = @ /\ phone \notin {r.by, r.occupant}]
    BY DEF Removed
  <1>2. r \in Records
    OBVIOUS
  <1>3. q.key = r.key /\ q.slot = r.slot /\ q.age = r.age /\ q.state = r.state /\ r.age \in Int
    BY <1>1, <1>2, OwnerAssumption DEF Records
  <1> QED  BY <1>3 DEF Stems

LEMMA VoidedStems ==
    ASSUME NEW records \in SUBSET Records, NEW phone, NEW q \in Voided(records, phone)
    PROVE  \E r \in records : Stems(q, r, 0)
  BY RefusalStems DEF Voided

LEMMA NoRivalStep ==
    ASSUME OwnerInv, NoRivalRequests, [Next]_vars
    PROVE  NoRivalRequests'
  <1>0. enrolls \subseteq Records
    BY DEF OwnerInv, TypeOK
  <1>1. ASSUME enrolls' \subseteq enrolls PROVE NoRivalRequests'
    BY <1>1 DEF NoRivalRequests
  <1>2. ASSUME \A q \in enrolls' : \E r \in enrolls : Stems(q, r, 0) PROVE NoRivalRequests'
    BY <1>0, <1>2, StemsStayApart
  <1>3. CASE \E k \in Keys, s \in SLOTS : Registers(k, s)
    <2>1. PICK k \in Keys, s \in SLOTS : Registers(k, s)
      BY <1>3
    <2>2. CASE RegisterFirst(k, s) \/ EnrollFails(k, s)
      BY <1>1, <2>2 DEF RegisterFirst, EnrollFails
    <2>3. CASE Enroll(k, s)
      <3>1. PICK r \in OnFile(k, s), o \in {Occupant(s)} :
              enrolls' = enrolls \ {r} \/ enrolls' = Removed(enrolls \ {r}, o)
        BY <2>3 DEF Enroll
      <3>2. CASE enrolls' = Removed(enrolls \ {r}, o)
        BY <1>0, <1>2, <3>2, RemovedStems
      <3> QED  BY <1>1, <3>1, <3>2
    <2>4. CASE Contest(k, s)
      <3> DEFINE old == {IF r.slot = s /\ InWindow(r) THEN Refused(r) ELSE r : r \in enrolls}
      <3>1. enrolls' = old \union {Refused(Request(k, s))}
        BY <2>4 DEF Contest
      <3>2. \A q \in old : \E r \in enrolls : Stems(q, r, 0)
        BY <1>0, RefusalStems
      <3>3. Refused(Request(k, s)).state = "refused"
        BY DEF Refused, Request
      <3> HIDE DEF old
      <3> SUFFICES ASSUME NEW q1 \in enrolls', NEW q2 \in enrolls',
                          q1.slot = q2.slot, q1.key # q2.key,
                          q1.state # "refused", q2.state # "refused"
                   PROVE  q1.age - q2.age > ContestWindow \/ q2.age - q1.age > ContestWindow
        BY DEF NoRivalRequests
      <3>4. PICK r1 \in enrolls : Stems(q1, r1, 0)
        BY <3>1, <3>2, <3>3
      <3>5. PICK r2 \in enrolls : Stems(q2, r2, 0)
        BY <3>1, <3>2, <3>3
      <3>6. r1.age - r2.age > ContestWindow \/ r2.age - r1.age > ContestWindow
        BY <3>4, <3>5 DEF NoRivalRequests, Stems
      <3>7. r1.age \in Int /\ r2.age \in Int
        BY <1>0, OwnerAssumption DEF Records
      <3> QED  BY <3>4, <3>5, <3>6, <3>7 DEF Stems
    <2>5. CASE Ask(k, s)
      <3>1. CASE UNCHANGED enrolls
        BY <1>1, <3>1
      <3>2. CASE enrolls' = (enrolls \ Waiting(k, s)) \union {Request(k, s)}
        <4>1. Request(k, s).key = k /\ Request(k, s).slot = s /\ Request(k, s).age = 0
          BY DEF Request
        <4>2. \A r \in enrolls : r.slot = s /\ r.key # k => r.age > ContestWindow
          <5>1. \A r \in enrolls : r.age \in Int
            BY <1>0, OwnerAssumption DEF Records
          <5> QED  BY <2>5, <5>1, OwnerAssumption DEF Ask, Rivals, InWindow
        <4>3. \A r \in enrolls : r.age \in Int
          BY <1>0, OwnerAssumption DEF Records
        <4> SUFFICES ASSUME NEW q1 \in enrolls', NEW q2 \in enrolls',
                            q1.slot = q2.slot, q1.key # q2.key,
                            q1.state # "refused", q2.state # "refused"
                     PROVE  q1.age - q2.age > ContestWindow \/ q2.age - q1.age > ContestWindow
          BY DEF NoRivalRequests
        <4>4. CASE q1 \in enrolls /\ q2 \in enrolls
          BY <4>4 DEF NoRivalRequests
        <4>5. CASE q1 = Request(k, s) /\ q2 \in enrolls
          BY <4>1, <4>2, <4>3, <4>5
        <4>6. CASE q2 = Request(k, s) /\ q1 \in enrolls
          BY <4>1, <4>2, <4>3, <4>6
        <4> QED  BY <3>2, <4>4, <4>5, <4>6
      <3> QED  BY <2>5, <3>1, <3>2 DEF Ask
    <2> QED  BY <2>1, <2>2, <2>3, <2>4, <2>5 DEF Registers
  <1>4. CASE \E r \in enrolls, k \in Keys : Respond(r, k)
    <2>1. PICK r \in enrolls, k \in Keys : Respond(r, k)
      BY <1>4
    <2>2. Stems(Approved(r, k), r, 0)
      BY <1>0, <2>1, OwnerAssumption DEF Respond, Approved, Records, Stems
    <2>3. \A q \in enrolls : Stems(q, q, 0) /\ Stems(Refused(q), q, 0)
      BY <1>0, RefusalStems
    <2>4. \A q \in enrolls' : q \in enrolls \/ q = Refused(r) \/ q = Approved(r, k)
      BY <2>1 DEF Respond
    <2> QED  BY <1>2, <2>2, <2>3, <2>4
  <1>5. CASE (\E k, t \in Keys : Revoke(k, t)) \/ HostRevoke
    BY <1>0, <1>2, <1>5, RemovedStems DEF Revoke, HostRevoke
  <1>6. CASE VoidRemoved \/ \E k \in Keys : HostVoid(k)
    BY <1>0, <1>2, <1>6, VoidedStems DEF VoidRemoved, HostVoid
  <1>7. CASE Tick
    <2>1. \A r \in enrolls : Stems(Aged(r), r, 1)
      BY <1>0, OwnerAssumption DEF Aged, Records, Stems
    <2>2. \A q \in enrolls' : \E r \in enrolls : q = Aged(r)
      BY <1>7 DEF Tick, Purged
    <2> QED  BY <1>0, <2>1, <2>2, StemsStayApart
  <1>8. CASE \/ \E k \in Keys : RegisterMember(k)
             \/ CloseGenesis \/ CloseFails \/ Start \/ Stop
             \/ HostClose \/ HostReopen \/ HostDies \/ UNCHANGED vars
    BY <1>1, <1>8 DEF RegisterMember, CloseGenesis, CloseFails, Start, Stop,
                      HostClose, HostReopen, HostDies, vars
  <1> QED  BY <1>3, <1>4, <1>5, <1>6, <1>7, <1>8 DEF Next, Locked, HostSteps

\* Two keys never have live requests or approvals for one slot inside the
\* contest window, through refusals, removals, restarts and the host's reset.
THEOREM RivalsAreRefused == Spec => []NoRivalRequests
  <1>1. Init => NoRivalRequests
    BY DEF Init, NoRivalRequests
  <1>2. OwnerInv /\ NoRivalRequests /\ [Next]_vars => NoRivalRequests'
    BY NoRivalStep
  <1> QED  BY <1>1, <1>2, OwnerInvariant, PTL DEF Spec

(***************************************************************************)
(* An entry uses up the approval that was given for it.                    *)
(*                                                                         *)
(* An approval used at a registration is gone: no other record says the    *)
(* same, since nobody has two live records for one slot, occupant and set  *)
(* of approvers.  That holds because an approval comes from one of the     *)
(* approvers its record names, and so is on file while they are the same.  *)
(***************************************************************************)
Alive(r) == r.state = "pending" \/ (r.state = "approved" /\ r.left > 0)
SameAsk(r, q) == r.key = q.key /\ r.slot = q.slot /\ r.occupant = q.occupant /\ r.approvers = q.approvers

Asked(r) ==
    /\ r.state = "pending" => r.queued \subseteq r.approvers
    /\ r.state = "approved" => r.by \in r.approvers

EntryInv ==
    /\ \A r \in enrolls : Asked(r)
    /\ \A r, q \in enrolls : Alive(r) /\ Alive(q) /\ SameAsk(r, q) => r = q

\* What a step makes of a record: the same request for the same approvers, with the same approval, or a dead one.
Carries(q, r) ==
    /\ q.key = r.key /\ q.slot = r.slot
    /\ Alive(q) => Alive(r) /\ q.occupant = r.occupant /\ q.approvers = r.approvers
    /\ Asked(r) => Asked(q)

\* Records made of other records, each of its own, and one that is dead.
LEMMA CarriedEntries ==
    ASSUME EntryInv, NEW f, NEW x, ~Alive(x), Asked(x),
           enrolls' \subseteq {f[r] : r \in enrolls} \union {x},
           \A r \in enrolls : Carries(f[r], r)
    PROVE  EntryInv'
  <1>1. \A q \in enrolls' : Asked(q)
    BY DEF EntryInv, Carries
  <1>2. ASSUME NEW q1 \in enrolls', NEW q2 \in enrolls', Alive(q1), Alive(q2), SameAsk(q1, q2) PROVE q1 = q2
    <2>1. PICK r1 \in enrolls : q1 = f[r1]
      BY <1>2
    <2>2. PICK r2 \in enrolls : q2 = f[r2]
      BY <1>2
    <2>3. Carries(f[r1], r1) /\ Carries(f[r2], r2)
      OBVIOUS
    <2>4. Alive(r1) /\ Alive(r2) /\ SameAsk(r1, r2)
      BY <1>2, <2>1, <2>2, <2>3 DEF Carries, SameAsk
    <2> QED  BY <2>1, <2>2, <2>4 DEF EntryInv
  <1>3. \A q \in enrolls' : Asked(q)'
    BY <1>1 DEF Asked
  <1>4. \A q1, q2 \in enrolls' : (Alive(q1) /\ Alive(q2) /\ SameAsk(q1, q2))' => q1 = q2
    BY <1>2 DEF Alive, SameAsk
  <1> QED  BY <1>3, <1>4 DEF EntryInv

\* The same when nothing new is left behind.
LEMMA CarriedAlone ==
    ASSUME EntryInv, NEW f, enrolls' \subseteq {f[r] : r \in enrolls}, \A r \in enrolls : Carries(f[r], r)
    PROVE  EntryInv'
  <1> DEFINE x == [state |-> "refused"]
  <1>1. ~Alive(x) /\ Asked(x)
    BY DEF Alive, Asked
  <1> HIDE DEF x
  <1> QED  BY <1>1, CarriedEntries

LEMMA SelfCarries ==
    ASSUME NEW r \in Records
    PROVE  /\ Carries(r, r) /\ Carries(Refused(r), r)
           /\ ~Alive(Refused(r)) /\ Asked(Refused(r))
  <1>1. Refused(r).state = "refused" /\ Refused(r).key = r.key /\ Refused(r).slot = r.slot
    BY DEF Refused, Records
  <1> QED  BY <1>1 DEF Carries, Alive, Asked

LEMMA RemovedCarries ==
    ASSUME NEW r \in Records, NEW p, NEW t \in BOOLEAN
    PROVE  Carries([r EXCEPT !.queued = @ \ {p}, !.stood = t], r)
  <1> DEFINE q == [r EXCEPT !.queued = @ \ {p}, !.stood = t]
  <1>1. /\ q.key = r.key /\ q.slot = r.slot /\ q.occupant = r.occupant /\ q.approvers = r.approvers
        /\ q.state = r.state /\ q.by = r.by /\ q.left = r.left /\ q.queued \subseteq r.queued
    BY DEF Records
  <1> HIDE DEF q
  <1> QED  BY <1>1 DEF Carries, Alive, Asked

LEMMA RemovalKeepsEntries ==
    ASSUME EntryInv, enrolls \subseteq Records, NEW S \in SUBSET enrolls, NEW p, enrolls' = Removed(S, p)
    PROVE  EntryInv'
  <1> DEFINE f == [r \in enrolls |-> [r EXCEPT !.queued = @ \ {p}, !.stood = @ /\ p \notin {r.by, r.occupant}]]
  <1>1. \A r \in enrolls : Carries(f[r], r)
    <2> TAKE r \in enrolls
    <2>1. (r.stood /\ p \notin {r.by, r.occupant}) \in BOOLEAN
      OBVIOUS
    <2> QED  BY <2>1, RemovedCarries
  <1>2. enrolls' \subseteq {f[r] : r \in enrolls}
    BY DEF Removed
  <1> HIDE DEF f
  <1> QED  BY <1>1, <1>2, CarriedAlone

LEMMA VoidingKeepsEntries ==
    ASSUME EntryInv, enrolls \subseteq Records, NEW p, enrolls' = Voided(enrolls, p)
    PROVE  EntryInv'
  <1> DEFINE f == [r \in enrolls |-> IF r.state # "refused" /\ p \in {r.by, r.occupant} THEN Refused(r) ELSE r]
  <1>1. \A r \in enrolls : Carries(f[r], r)
    BY SelfCarries
  <1>2. enrolls' \subseteq {f[r] : r \in enrolls}
    BY DEF Voided
  <1> HIDE DEF f
  <1> QED  BY <1>1, <1>2, CarriedAlone

\* Who asks anew has no live request to the same approvers, and no approval of theirs.
LEMMA AskingKeepsEntries ==
    ASSUME EntryInv, enrolls \subseteq Records, NEW k \in Keys, NEW s \in SLOTS, OnFile(k, s) = {},
           enrolls' = (enrolls \ Waiting(k, s)) \union {Request(k, s)}
    PROVE  EntryInv'
  <1> DEFINE new == Request(k, s)
  <1>1. /\ new.key = k /\ new.slot = s /\ new.occupant = Occupant(s) /\ new.approvers = Approvers(s)
        /\ new.queued = new.approvers /\ new.state = "pending"
    BY DEF Request
  <1>2. ASSUME NEW q \in enrolls \ Waiting(k, s), Alive(q), SameAsk(q, new) PROVE FALSE
    <2>1. q.key = k /\ q.slot = s /\ q.occupant = Occupant(s) /\ q.approvers = Approvers(s)
      BY <1>1, <1>2 DEF SameAsk
    <2>2. q.state # "pending"
      BY <1>2, <2>1 DEF Waiting
    <2>3. q.by \in Approvers(s) /\ q.state = "approved" /\ q.left > 0
      BY <1>2, <2>1, <2>2 DEF EntryInv, Alive, Asked
    <2> QED  BY <2>1, <2>3 DEF OnFile
  <1>3. Asked(new)
    BY <1>1 DEF Asked
  <1> HIDE DEF new
  <1>4. \A q \in enrolls' : q = new \/ q \in enrolls \ Waiting(k, s)
    BY DEF new
  <1>5. \A q \in enrolls' : Asked(q)'
    BY <1>3, <1>4 DEF EntryInv, Asked
  <1>6. ASSUME NEW q1 \in enrolls', NEW q2 \in enrolls', Alive(q1), Alive(q2), SameAsk(q1, q2) PROVE q1 = q2
    <2>1. SameAsk(q2, q1)
      BY <1>6 DEF SameAsk
    <2>2. CASE q1 = new
      BY <1>2, <1>4, <1>6, <2>1, <2>2
    <2>3. CASE q2 = new
      BY <1>2, <1>4, <1>6, <2>3
    <2> QED  BY <1>4, <1>6, <2>2, <2>3 DEF EntryInv
  <1>7. \A q1, q2 \in enrolls' : (Alive(q1) /\ Alive(q2) /\ SameAsk(q1, q2))' => q1 = q2
    BY <1>6 DEF Alive, SameAsk
  <1> QED  BY <1>5, <1>7 DEF EntryInv

LEMMA EntryInvStep == ASSUME OwnerInv, EntryInv, [Next]_vars PROVE EntryInv'
  <1>0. enrolls \subseteq Records
    BY DEF OwnerInv, TypeOK
  <1>1. ASSUME enrolls' \subseteq enrolls PROVE EntryInv'
    BY <1>1 DEF EntryInv, Asked, Alive, SameAsk
  <1>2. CASE \E k \in Keys, s \in SLOTS : Registers(k, s)
    <2>1. PICK k \in Keys, s \in SLOTS : Registers(k, s)
      BY <1>2
    <2>2. CASE RegisterFirst(k, s) \/ EnrollFails(k, s)
      BY <1>1, <2>2 DEF RegisterFirst, EnrollFails
    <2>3. CASE Enroll(k, s)
      <3>1. PICK r \in OnFile(k, s), o \in {Occupant(s)} :
              enrolls' = enrolls \ {r} \/ enrolls' = Removed(enrolls \ {r}, o)
        BY <2>3 DEF Enroll
      <3> QED  BY <1>0, <1>1, <3>1, RemovalKeepsEntries
    <2>4. CASE Contest(k, s)
      <3> DEFINE f == [r \in enrolls |-> IF r.slot = s /\ InWindow(r) THEN Refused(r) ELSE r]
                 x == Refused(Request(k, s))
      <3>1. enrolls' \subseteq {f[r] : r \in enrolls} \union {x}
        BY <2>4 DEF Contest
      <3>2. \A r \in enrolls : Carries(f[r], r)
        BY <1>0, SelfCarries
      <3>3. ~Alive(x) /\ Asked(x)
        BY RequestGood, SelfCarries DEF GoodRecords
      <3> HIDE DEF f, x
      <3> QED  BY <3>1, <3>2, <3>3, CarriedEntries
    <2>5. CASE Ask(k, s)
      BY <1>0, <1>1, <2>5, AskingKeepsEntries DEF Ask
    <2> QED  BY <2>1, <2>2, <2>3, <2>4, <2>5 DEF Registers
  <1>3. CASE \E r \in enrolls, k \in Keys : Respond(r, k)
    <2>1. PICK r \in enrolls, k \in Keys : Respond(r, k)
      BY <1>3
    <2>2. PICK y \in {Refused(r), Approved(r, k)} : enrolls' = (enrolls \ {r}) \union {y}
      BY <2>1 DEF Respond
    <2>3. Carries(Approved(r, k), r)
      <3>1. /\ Approved(r, k).key = r.key /\ Approved(r, k).slot = r.slot /\ Approved(r, k).by = k
            /\ Approved(r, k).occupant = r.occupant /\ Approved(r, k).approvers = r.approvers
            /\ Approved(r, k).state = "approved"
        BY <1>0 DEF Approved, Records
      <3>2. r.state = "pending" /\ k \in r.queued
        BY <2>1 DEF Respond
      <3> QED  BY <3>1, <3>2 DEF Carries, Alive, Asked
    <2>4. Carries(y, r)
      BY <1>0, <2>2, <2>3, SelfCarries
    <2> DEFINE f == [q \in enrolls |-> IF q = r THEN y ELSE q]
    <2>5. \A q \in enrolls : Carries(f[q], q)
      BY <1>0, <2>4, SelfCarries
    <2>6. enrolls' \subseteq {f[q] : q \in enrolls}
      BY <2>2
    <2> HIDE DEF f
    <2> QED  BY <2>5, <2>6, CarriedAlone
  <1>4. CASE (\E k, t \in Keys : Revoke(k, t)) \/ HostRevoke
    BY <1>0, <1>4, RemovalKeepsEntries DEF Revoke, HostRevoke
  <1>5. CASE VoidRemoved \/ \E k \in Keys : HostVoid(k)
    BY <1>0, <1>5, VoidingKeepsEntries DEF VoidRemoved, HostVoid
  <1>6. CASE Tick
    <2> DEFINE f == [r \in enrolls |-> Aged(r)]
    <2>1. \A r \in enrolls : Carries(f[r], r)
      <3> TAKE r \in enrolls
      <3>1. /\ Aged(r).key = r.key /\ Aged(r).slot = r.slot /\ Aged(r).occupant = r.occupant
            /\ Aged(r).approvers = r.approvers /\ Aged(r).state = r.state /\ Aged(r).by = r.by
            /\ Aged(r).queued \subseteq r.queued /\ (Aged(r).left > 0 => r.left > 0)
        BY <1>0, OwnerAssumption DEF Aged, Records
      <3> QED  BY <3>1 DEF Carries, Alive, Asked
    <2>2. enrolls' \subseteq {f[r] : r \in enrolls}
      BY <1>6 DEF Tick, Purged
    <2> HIDE DEF f
    <2> QED  BY <2>1, <2>2, CarriedAlone
  <1>7. CASE \/ \E k \in Keys : RegisterMember(k)
             \/ CloseGenesis \/ CloseFails \/ Start \/ Stop
             \/ HostClose \/ HostReopen \/ HostDies \/ UNCHANGED vars
    BY <1>1, <1>7 DEF RegisterMember, CloseGenesis, CloseFails, Start, Stop,
                      HostClose, HostReopen, HostDies, vars
  <1> QED  BY <1>2, <1>3, <1>4, <1>5, <1>6, <1>7 DEF Next, Locked, HostSteps

\* The approval a key enters by is gone after that step.
LEMMA UsedUp ==
    ASSUME OwnerInv, EntryInv, NEW k \in Keys, NEW s \in SLOTS, NEW r \in OnFile(k, s), NEW o,
           enrolls' = enrolls \ {r} \/ enrolls' = Removed(enrolls \ {r}, o)
    PROVE  r \in Gone
  <1>0. enrolls \subseteq Records /\ r \in enrolls /\ Alive(r)
    BY DEF OwnerInv, TypeOK, OnFile, Alive
  <1> SUFFICES ASSUME NEW q \in enrolls', r = [q EXCEPT !.queued = r.queued, !.stood = r.stood] PROVE FALSE
    BY <1>0 DEF Gone
  <1>1. PICK p \in enrolls \ {r} : \/ q = p
                                   \/ q = [p EXCEPT !.queued = @ \ {o}, !.stood = @ /\ o \notin {p.by, p.occupant}]
    <2>1. CASE enrolls' = enrolls \ {r}
      BY <2>1
    <2>2. CASE enrolls' = Removed(enrolls \ {r}, o)
      BY <2>2 DEF Removed
    <2> QED  BY <2>1, <2>2
  <1>2. q \in Records
    BY <1>0, RemovedGood DEF OwnerInv, GoodRecords
  <1>3. /\ q.key = p.key /\ q.slot = p.slot /\ q.occupant = p.occupant /\ q.approvers = p.approvers
        /\ q.state = p.state /\ q.left = p.left
    BY <1>0, <1>1 DEF Records
  <1>4. /\ r.key = q.key /\ r.slot = q.slot /\ r.occupant = q.occupant /\ r.approvers = q.approvers
        /\ r.state = q.state /\ r.left = q.left
    BY <1>2 DEF Records
  <1>5. Alive(p) /\ SameAsk(p, r)
    BY <1>0, <1>3, <1>4 DEF Alive, SameAsk
  <1> QED  BY <1>0, <1>1, <1>5 DEF EntryInv

\* What an entry is allowed by, and whom it sends away.
EnteredAsApproved(k, s) ==
    \E r \in Gone :
       /\ r.state = "approved" /\ r.key = k /\ r.slot = s
       /\ r.by \in Owners
       /\ r.by = r.occupant => Owners = {r.by}
       /\ {j \in Keys : phones[j] # "none" /\ phones'[j] = "none"} = {r.occupant} \ {NoKey}

LEMMA EntriesAreApproved ==
    ASSUME OwnerInv, EntryInv, NEW k \in Keys, NEW s \in SLOTS, Enroll(k, s)
    PROVE  EnteredAsApproved(k, s)
  <1>1. PICK r \in OnFile(k, s) :
           LET occupant == Occupant(s)
               seated == [phones EXCEPT ![k] = s]
           IN  IF occupant = NoKey
               THEN /\ phones' = seated
                    /\ enrolls' = enrolls \ {r}
               ELSE /\ phones' = [seated EXCEPT ![occupant] = "none"]
                    /\ enrolls' = Removed(enrolls \ {r}, occupant)
    BY DEF Enroll
  <1>2. r \in Gone
    BY <1>1, UsedUp
  <1>3. /\ r.state = "approved" /\ r.key = k /\ r.slot = s
        /\ r.occupant = Occupant(s) /\ r.by \in Approvers(s)
    BY DEF OnFile
  <1>4. /\ Holders(s) \subseteq Owners
        /\ Occupant(s) # NoKey => Occupant(s) \in Holders(s)
    BY OccupantHolds DEF Holders, Owners
  <1>5. r.by \in Owners
    BY <1>3, <1>4 DEF Approvers
  <1>6. r.by = r.occupant => Owners = {r.by}
    BY <1>3, <1>5 DEF Approvers
  <1>7. {j \in Keys : phones[j] # "none" /\ phones'[j] = "none"} = {r.occupant} \ {NoKey}
    <2>1. phones \in [Keys -> SLOTS \union {"member", "none"}] /\ phones[k] = "none" /\ s # "none"
      BY DEF Enroll, Asks, OwnerInv, TypeOK, SLOTS
    <2>2. CASE Occupant(s) = NoKey
      <3>1. phones' = [phones EXCEPT ![k] = s]
        BY <1>1, <2>2
      <3> QED  BY <1>3, <2>1, <2>2, <3>1
    <2>3. CASE Occupant(s) # NoKey
      <3>1. phones' = [[phones EXCEPT ![k] = s] EXCEPT ![Occupant(s)] = "none"]
        BY <1>1, <2>3
      <3>2. Occupant(s) \in Keys /\ phones[Occupant(s)] = s
        BY <1>4, <2>3 DEF Holders
      <3> QED  BY <1>3, <2>1, <2>3, <3>1, <3>2
    <2> QED  BY <2>2, <2>3
  <1> QED  BY <1>2, <1>3, <1>5, <1>6, <1>7 DEF EnteredAsApproved

\* Past genesis a key enters a slot by using up an approval for that key, that slot and the phone that goes, and the
\* approver is an owner that stays unless it is the only one, for any number of keys and requests
\* (server.py: _handle_register, owner enroll).
THEOREM EntriesAlwaysApproved == Spec => EntryAsApproved
  <1>1. Init => EntryInv
    BY DEF Init, EntryInv
  <1>2. OwnerInv /\ EntryInv /\ [Next]_vars => EntryInv'
    BY EntryInvStep
  <1>3. OwnerInv /\ EntryInv /\ [Next]_vars =>
            [\A k \in Keys, s \in SLOTS :
                phones[k] \notin SLOTS /\ phones'[k] = s =>
                    \/ GenesisOpen
                    \/ \E r \in Gone :
                          /\ r.state = "approved" /\ r.key = k /\ r.slot = s
                          /\ r.by \in Owners
                          /\ r.by = r.occupant => Owners = {r.by}
                          /\ {j \in Keys : phones[j] # "none" /\ phones'[j] = "none"} = {r.occupant} \ {NoKey}]_vars
    <2> SUFFICES ASSUME OwnerInv, EntryInv, Next, NEW k \in Keys, NEW s \in SLOTS,
                        phones[k] \notin SLOTS, phones'[k] = s, ~GenesisOpen
                 PROVE  EnteredAsApproved(k, s)
      BY DEF EnteredAsApproved
    <2>1. phones \in [Keys -> SLOTS \union {"member", "none"}] /\ "none" # s /\ "member" # s
      BY DEF OwnerInv, TypeOK, SLOTS
    <2>2. phones' # phones
      OBVIOUS
    <2>3. CASE \E j \in Keys, t \in SLOTS : Registers(j, t)
      <3>1. PICK j \in Keys, t \in SLOTS : Enroll(j, t)
        BY <2>2, <2>3 DEF Registers, RegisterFirst, EnrollFails, Contest, Ask
      <3>2. j = k /\ t = s
        BY <2>1, <3>1 DEF Enroll
      <3> QED  BY <3>1, <3>2, EntriesAreApproved
    <2>4. CASE (\E j \in Keys : RegisterMember(j)) \/ (\E j, t \in Keys : Revoke(j, t)) \/ HostRevoke
      BY <2>1, <2>4 DEF RegisterMember, Revoke, HostRevoke
    <2>5. CASE \/ \E r \in enrolls, j \in Keys : Respond(r, j)
               \/ Locked \/ Start \/ Stop \/ Tick
               \/ HostClose \/ (\E j \in Keys : HostVoid(j)) \/ HostReopen \/ HostDies
      BY <2>2, <2>5 DEF Respond, Locked, CloseGenesis, CloseFails, VoidRemoved, Start, Stop, Tick,
                        HostClose, HostVoid, HostReopen, HostDies
    <2> QED  BY <2>3, <2>4, <2>5 DEF Next, HostSteps
  <1> QED  BY <1>1, <1>2, <1>3, OwnerInvariant, PTL DEF Spec, EntryAsApproved
===============================================================================
