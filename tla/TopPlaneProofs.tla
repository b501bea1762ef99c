---------------------------- MODULE TopPlaneProofs ----------------------------
(***************************************************************************)
(* Theorems about TopPlane, for every set of keys, resets and acts and     *)
(* every bound.                                                            *)
(***************************************************************************)
EXTENDS TopPlane, FiniteSetTheorems, TLAPS

(***************************************************************************)
(* The inductive invariant of the types.                                   *)
(***************************************************************************)
\* A registered reset has a fresh device, and a slot of its own for it.
GoodReset ==
    {rec \in ResetRecord :
        /\ rec.state \in {"armed", "registered"} => rec.slot \in rec.slots \ rec.done
        /\ rec.state = "registered" => rec.fresh \in Keys}

\* A start rolls only resets forward whose entry is on the chain.
PlaneInv ==
    /\ TypeOK
    /\ resets \in [Resets -> GoodReset]
    /\ \A r \in Resets : r \in todo => Unfinished(r)

\* A step leaves a reset alone, but for its queue.
Keeps(r) ==
    /\ resets'[r].state = resets[r].state /\ resets'[r].slots = resets[r].slots
    /\ resets'[r].lost = resets[r].lost /\ resets'[r].done = resets[r].done
    /\ resets'[r].slot = resets[r].slot /\ resets'[r].fresh = resets[r].fresh
    /\ resets'[r].cards = resets[r].cards /\ resets'[r].time = resets[r].time

(***************************************************************************)
(* Lemmas about the operators of TopPlane.                                 *)
(***************************************************************************)
LEMMA NoResetIsGood == NoReset \in GoodReset
  BY DEF NoReset, GoodReset, ResetRecord, Phones, SLOTS

LEMMA ClosedIsGood ==
    ASSUME NEW state \in {"completed", "cancelled", "aborted"}
    PROVE  Closed(state) \in GoodReset /\ Closed(state).state = state
  BY DEF Closed, NoReset, GoodReset, ResetRecord, Phones, SLOTS

\* Taking cards off the queues changes nothing else.
LEMMA UncardedKeeps ==
    ASSUME resets \in [Resets -> GoodReset], NEW gone
    PROVE  /\ Uncarded(gone) \in [Resets -> GoodReset]
           /\ \A r \in Resets : Uncarded(gone)[r] = [resets[r] EXCEPT !.queued = @ \ gone]
  <1>1. \A r \in Resets : [resets[r] EXCEPT !.queued = @ \ gone] \in GoodReset
    BY DEF GoodReset, ResetRecord
  <1> QED  BY <1>1 DEF Uncarded

LEMMA UncardedFields ==
    ASSUME resets \in [Resets -> GoodReset], NEW gone, NEW r \in Resets
    PROVE  LET rec == Uncarded(gone)[r]
           IN  /\ rec.state = resets[r].state /\ rec.slots = resets[r].slots
               /\ rec.lost = resets[r].lost /\ rec.done = resets[r].done
               /\ rec.slot = resets[r].slot /\ rec.fresh = resets[r].fresh
               /\ rec.cards = resets[r].cards /\ rec.time = resets[r].time
               /\ rec.queued = resets[r].queued \ gone
  <1>1. Uncarded(gone)[r] = [resets[r] EXCEPT !.queued = resets[r].queued \ gone]
    BY UncardedKeeps
  <1>2. resets[r] \in ResetRecord
    BY DEF GoodReset
  <1> QED  BY <1>1, <1>2 DEF ResetRecord

\* A finished reset is completed, or waits for a slot it has not seated.
LEMMA RecordedIsGood ==
    ASSUME resets \in [Resets -> GoodReset], NEW r \in Resets, resets[r].state = "registered",
           NEW time \in {"due", "over"}
    PROVE  LET rec == Recorded(r, time)
           IN  /\ rec \in GoodReset
               /\ \/ rec.state = "completed"
                  \/ /\ rec.state = "waiting" /\ rec.slots = resets[r].slots
                     /\ rec.lost = resets[r].lost /\ rec.time = time
                     /\ rec.done = resets[r].done \union {resets[r].slot}
  <1> DEFINE done == resets[r].done \union {resets[r].slot}
  <1>1. resets[r] \in GoodReset /\ resets[r].slot \in SLOTS
    BY DEF GoodReset, ResetRecord
  <1>2. CASE resets[r].slots \subseteq done
    BY <1>1, <1>2, ClosedIsGood DEF Recorded
  <1>3. CASE ~ (resets[r].slots \subseteq done)
    <2> DEFINE rec == [resets[r] EXCEPT !.state = "waiting", !.slot = "none", !.done = done,
                                        !.fresh = NoKey, !.held = FALSE, !.time = time]
    <2>1. Recorded(r, time) = rec
      BY <1>3 DEF Recorded
    <2>2. rec \in GoodReset
      BY <1>1 DEF GoodReset, ResetRecord, Phones
    <2>3. rec.state = "waiting" /\ rec.slots = resets[r].slots /\ rec.lost = resets[r].lost
          /\ rec.time = time /\ rec.done = done
      BY <1>1 DEF GoodReset, ResetRecord
    <2> QED  BY <2>1, <2>2, <2>3
  <1> QED  BY <1>2, <1>3

LEMMA SpendBounds ==
    ASSUME faults \in 0 .. MaxFaults, NEW short \in BOOLEAN, Spend(short)
    PROVE  faults' \in 0 .. MaxFaults
  BY TopPlaneAssumption DEF Spend

LEMMA VoidedEntries ==
    ASSUME NEW waiting \in SUBSET SlotEntry, NEW gone
    PROVE  Voided(waiting, gone) \subseteq SlotEntry
  BY DEF Voided

LEMMA OffTipEntries ==
    ASSUME NEW waiting \in SUBSET SlotEntry
    PROVE  OffTip(waiting) \subseteq SlotEntry
  BY DEF OffTip, SlotEntry

LEMMA OffTipActs ==
    ASSUME acts \in [Acts -> Act]
    PROVE  ActsOffTip \in [Acts -> Act]
  BY DEF ActsOffTip, Act

\* What finishing a reset does to the reset records.
Finished(r) ==
    \/ Keeps(r)
    \/ resets'[r].state = "completed"
    \/ /\ resets'[r].state = "waiting" /\ resets'[r].slots = resets[r].slots
       /\ resets'[r].lost = resets[r].lost
       /\ resets[r].time = "over" => resets'[r].time = "over"
       /\ resets'[r].done = resets[r].done \union {resets[r].slot}

LEMMA FinishTypes ==
    ASSUME TypeOK, resets \in [Resets -> GoodReset],
           NEW r \in Resets, resets[r].state = "registered",
           NEW dev \in [SLOTS -> Phones], NEW waiting \in SUBSET SlotEntry,
           Finish(r, dev, waiting)
    PROVE  /\ phones' \in [Keys -> SLOTS \union {"none"}]
           /\ entries' \subseteq SlotEntry
           /\ resets' \in [Resets -> GoodReset]
           /\ faults' \in 0 .. MaxFaults
           /\ \A q \in Resets : q # r => Keeps(q)
           /\ Finished(r)
  <1>1. PICK reach \in Reaches, time \in {"due", "over"} :
          LET slot == resets[r].slot
              gone == Leavers(r, dev, reach)
          IN  /\ resets[r].time = "over" => time = "over"
              /\ phones' = [k \in Keys |-> IF k \in Seats(r, dev, reach) THEN slot
                                           ELSE IF k \in gone THEN "none" ELSE phones[k]]
              /\ entries' = Voided(waiting, gone)
              /\ resets' = IF reach = "recorded"
                           THEN [Uncarded(gone) EXCEPT ![r] = Recorded(r, time)]
                           ELSE Uncarded(gone)
              /\ Spend(reach # "recorded")
    BY DEF Finish
  <1> DEFINE gone == Leavers(r, dev, reach)
  <1>2. resets[r].slot \in SLOTS \union {"none"}
    BY DEF GoodReset, ResetRecord
  <1>3. phones' \in [Keys -> SLOTS \union {"none"}]
    BY <1>1, <1>2 DEF TypeOK
  <1>4. entries' \subseteq SlotEntry
    BY <1>1, VoidedEntries
  <1>5. faults' \in 0 .. MaxFaults
    <2>1. faults \in 0 .. MaxFaults /\ Spend(reach # "recorded")
      BY <1>1 DEF TypeOK
    <2> QED  BY <2>1, SpendBounds
  <1>6. CASE reach = "recorded"
    <2>1. resets' = [Uncarded(gone) EXCEPT ![r] = Recorded(r, time)]
      BY <1>1, <1>6
    <2>2. Uncarded(gone) \in [Resets -> GoodReset]
      BY UncardedKeeps
    <2>3. resets'[r] = Recorded(r, time) /\ \A q \in Resets : q # r => resets'[q] = Uncarded(gone)[q]
      BY <2>1, <2>2
    <2>4. resets' \in [Resets -> GoodReset]
      BY <2>1, <2>2, RecordedIsGood
    <2>5. \A q \in Resets : q # r => Keeps(q)
      BY <2>3, UncardedFields DEF Keeps
    <2>6. Finished(r)
      BY <1>1, <2>3, RecordedIsGood DEF Finished
    <2> QED  BY <1>3, <1>4, <1>5, <2>4, <2>5, <2>6
  <1>7. CASE reach # "recorded"
    <2>1. resets' = Uncarded(gone)
      BY <1>1, <1>7
    <2>2. \A q \in Resets : Keeps(q)
      BY <2>1, UncardedFields DEF Keeps
    <2> QED  BY <1>3, <1>4, <1>5, <2>1, <2>2, UncardedKeeps DEF Finished
  <1> QED  BY <1>6, <1>7

LEMMA FinishActTypes ==
    ASSUME TypeOK, resets \in [Resets -> GoodReset], NEW a \in Acts,
           NEW dev \in [SLOTS -> Phones], NEW waiting \in SUBSET SlotEntry,
           NEW open \in [Acts -> Act], NEW approver,
           FinishAct(a, dev, waiting, open, approver)
    PROVE  /\ phones' \in [Keys -> SLOTS \union {"none"}]
           /\ entries' \subseteq SlotEntry
           /\ resets' \in [Resets -> GoodReset]
           /\ acts' \in [Acts -> Act]
           /\ faults' \in 0 .. MaxFaults
           /\ \A q \in Resets : Keeps(q)
  <1>1. PICK reach \in {"appended", "removed", "recorded"}, gone \in SUBSET Keys :
          /\ phones' = [k \in Keys |-> IF k \in gone THEN "none" ELSE phones[k]]
          /\ entries' = Voided(waiting, gone)
          /\ resets' = Uncarded(gone)
          /\ acts' = IF reach = "recorded"
                     THEN [open EXCEPT ![a] = NoAct]
                     ELSE [open EXCEPT ![a].chained = TRUE]
          /\ Spend(reach # "recorded")
    BY DEF FinishAct, Owners
  <1>2. phones' \in [Keys -> SLOTS \union {"none"}]
    BY <1>1 DEF TypeOK
  <1>3. entries' \subseteq SlotEntry
    BY <1>1, VoidedEntries
  <1>4. acts' \in [Acts -> Act]
    <2>1. NoAct \in Act
      BY DEF NoAct, Act, Phones
    <2>2. [open[a] EXCEPT !.chained = TRUE] \in Act
      BY DEF Act
    <2> QED  BY <1>1, <2>1, <2>2
  <1>5. faults' \in 0 .. MaxFaults
    <2>1. faults \in 0 .. MaxFaults /\ Spend(reach # "recorded")
      BY <1>1 DEF TypeOK
    <2> QED  BY <2>1, SpendBounds
  <1>6. \A q \in Resets : Keeps(q)
    BY <1>1, UncardedFields DEF Keeps
  <1> QED  BY <1>1, <1>2, <1>3, <1>4, <1>5, <1>6, UncardedKeeps

(***************************************************************************)
(* The types hold in every step.                                           *)
(***************************************************************************)
\* A step that changes one reset record and, maybe, the list.
LEMMA OneRecordChanges ==
    ASSUME PlaneInv, NEW r \in Resets, NEW rec \in GoodReset,
           resets' = [resets EXCEPT ![r] = rec],
           UNCHANGED <<phones, device, seated, acts, entries, process>>,
           revoked' \subseteq Resets, unsaved' \subseteq revoked', faults' \in 0 .. MaxFaults,
           r \in todo => /\ rec.state = "registered"
                         /\ rec.slot = resets[r].slot /\ rec.fresh = resets[r].fresh
    PROVE  PlaneInv'
  <1>1. resets' \in [Resets -> GoodReset] /\ resets'[r] = rec
        /\ \A q \in Resets : q # r => resets'[q] = resets[q]
    BY DEF PlaneInv
  <1>2. \A q \in Resets : q \in todo' => Unfinished(q)'
    BY <1>1 DEF PlaneInv, Unfinished, Entry, process
  <1>3. resets' \in [Resets -> ResetRecord]
        /\ \A q \in Resets : resets'[q].state \in {"armed", "registered"} =>
              resets'[q].slot \in resets'[q].slots \ resets'[q].done
    BY <1>1 DEF GoodReset
  <1> QED  BY <1>1, <1>2, <1>3 DEF PlaneInv, TypeOK, process

LEMMA ServingIsIdle == ASSUME PlaneInv, Serving PROVE todo = {}
  BY DEF PlaneInv, TypeOK, Serving

\* What a step that writes the revocation list leaves of it.
LEMMA ListTypes ==
    ASSUME TypeOK, NEW r \in Resets, NEW reach \in Closings, AddRevocation(r, reach)
    PROVE  revoked' \subseteq Resets /\ unsaved' \subseteq revoked'
  BY DEF AddRevocation, TypeOK, Closings

LEMMA StepStartReset ==
    ASSUME PlaneInv, NEW r \in Resets, NEW slots \in SUBSET SLOTS \ {{}}, NEW lost \in SUBSET Keys,
           StartReset(r, slots, lost)
    PROVE  PlaneInv'
  <1> DEFINE rec == [NoReset EXCEPT !.state = "waiting", !.slots = slots, !.lost = lost,
                                    !.cards = Owners, !.queued = Owners]
  <1>1. rec \in GoodReset
    BY DEF NoReset, GoodReset, ResetRecord, Phones, Owners
  <1>2. resets' = [resets EXCEPT ![r] = rec] /\ todo = {}
    BY ServingIsIdle DEF StartReset
  <1>3. UNCHANGED <<phones, device, seated, acts, entries, process>> /\ UNCHANGED <<revoked, unsaved, faults>>
    BY DEF StartReset, list
  <1> HIDE DEF rec
  <1> QED  BY <1>1, <1>2, <1>3, OneRecordChanges DEF PlaneInv, TypeOK

\* A window, a grace, a code or a challenge runs out.
LEMMA StepLapses ==
    ASSUME PlaneInv, NEW r \in Resets,
           WindowPasses(r) \/ GracePasses(r) \/ CodeEnds(r) \/ ChallengeLapses(r)
    PROVE  PlaneInv'
  <1> DEFINE rec == resets'[r]
  <1>1. resets[r] \in GoodReset
    BY DEF PlaneInv
  <1>2. resets' = [resets EXCEPT ![r] = rec] /\ rec \in GoodReset
        /\ rec.state = resets[r].state /\ rec.slot = resets[r].slot /\ rec.fresh = resets[r].fresh
    <2>1. CASE WindowPasses(r)
      <3>1. resets' = [resets EXCEPT ![r] = [resets[r] EXCEPT !.time = "due", !.queued = {}]]
        BY <2>1 DEF WindowPasses, PlaneInv
      <3> QED  BY <1>1, <3>1 DEF PlaneInv, GoodReset, ResetRecord
    <2>2. CASE GracePasses(r)
      <3>1. resets' = [resets EXCEPT ![r] = [resets[r] EXCEPT !.time = "over"]]
        BY <2>2 DEF GracePasses, PlaneInv
      <3> QED  BY <1>1, <3>1 DEF PlaneInv, GoodReset, ResetRecord
    <2>3. CASE CodeEnds(r)
      <3>1. resets' = [resets EXCEPT ![r] = [resets[r] EXCEPT !.code = FALSE, !.held = FALSE]]
        BY <2>3 DEF CodeEnds, PlaneInv
      <3> QED  BY <1>1, <3>1 DEF PlaneInv, GoodReset, ResetRecord
    <2>4. CASE ChallengeLapses(r)
      <3>1. resets' = [resets EXCEPT ![r] = [resets[r] EXCEPT !.challenge = FALSE]]
        BY <2>4 DEF ChallengeLapses, PlaneInv
      <3> QED  BY <1>1, <3>1 DEF PlaneInv, GoodReset, ResetRecord
    <2> QED  BY <2>1, <2>2, <2>3, <2>4
  <1>3. UNCHANGED <<phones, device, seated, acts, entries, process>> /\ UNCHANGED <<revoked, unsaved, faults>>
    BY DEF WindowPasses, GracePasses, CodeEnds, ChallengeLapses, list
  <1>4. r \in todo => rec.state = "registered"
    BY <1>2 DEF PlaneInv, Unfinished
  <1> HIDE DEF rec
  <1> QED  BY <1>2, <1>3, <1>4, OneRecordChanges DEF PlaneInv, TypeOK

\* A cancel and an abort: the record closes or only loses its cards.
LEMMA StepCloses ==
    ASSUME PlaneInv, NEW r \in Resets, (\E k \in Keys : Cancel(r, k)) \/ Abort(r)
    PROVE  PlaneInv'
  <1>1. PICK reach \in Closings, state \in {"cancelled", "aborted"} :
          /\ AddRevocation(r, reach)
          /\ resets' = [resets EXCEPT ![r] =
                IF reach = "recorded" THEN Closed(state) ELSE [resets[r] EXCEPT !.queued = {}]]
          /\ Spend(reach # "recorded")
          /\ Serving
          /\ UNCHANGED <<phones, device, seated, acts, entries, process>>
    BY DEF Cancel, Abort, PlaneInv
  <1> DEFINE rec == IF reach = "recorded" THEN Closed(state) ELSE [resets[r] EXCEPT !.queued = {}]
  <1>2. rec \in GoodReset
    <2>1. [resets[r] EXCEPT !.queued = {}] \in GoodReset
      BY DEF PlaneInv, GoodReset, ResetRecord
    <2> QED  BY <2>1, ClosedIsGood
  <1>3. revoked' \subseteq Resets /\ unsaved' \subseteq revoked'
    BY <1>1, ListTypes DEF PlaneInv
  <1>4. faults' \in 0 .. MaxFaults
    <2>1. faults \in 0 .. MaxFaults /\ Spend(reach # "recorded")
      BY <1>1 DEF PlaneInv, TypeOK
    <2> QED  BY <2>1, SpendBounds
  <1>5. todo = {}
    BY <1>1, ServingIsIdle
  <1>6. resets' = [resets EXCEPT ![r] = rec] /\ UNCHANGED <<phones, device, seated, acts, entries, process>>
    BY <1>1
  <1> HIDE DEF rec
  <1> QED  BY <1>2, <1>3, <1>4, <1>5, <1>6, OneRecordChanges

\* The host arms a slot, and the fresh device redeems the code and registers.
LEMMA StepFresh ==
    ASSUME PlaneInv, NEW r \in Resets,
           \/ \E s \in SLOTS : Arm(r, s)
           \/ Redeem(r)
           \/ \E k \in Keys : RegisterFresh(r, k)
    PROVE  PlaneInv'
  <1>1. resets[r] \in GoodReset
    BY DEF PlaneInv
  <1> DEFINE rec == resets'[r]
  <1>2. Serving /\ UNCHANGED <<phones, device, seated, acts, entries, process>>
        /\ UNCHANGED <<revoked, unsaved, faults>>
    BY DEF Arm, Redeem, RegisterFresh, list
  <1> DEFINE Becomes == resets' = [resets EXCEPT ![r] = rec] /\ rec \in GoodReset
  <1>3. Becomes
    <2>1. ASSUME NEW s \in SLOTS, Arm(r, s) PROVE Becomes
      <3>1. resets' = [resets EXCEPT ![r] = [resets[r] EXCEPT
                !.state = "armed", !.slot = s, !.queued = {}, !.fresh = NoKey,
                !.code = TRUE, !.held = TRUE, !.challenge = FALSE]]
        BY <2>1 DEF Arm, PlaneInv
      <3>2. s \in resets[r].slots \ resets[r].done
        BY <2>1 DEF Arm, ArmSlots
      <3>3. rec = [resets[r] EXCEPT
                !.state = "armed", !.slot = s, !.queued = {}, !.fresh = NoKey,
                !.code = TRUE, !.held = TRUE, !.challenge = FALSE]
            /\ resets' = [resets EXCEPT ![r] = rec]
        BY <3>1 DEF PlaneInv
      <3> HIDE DEF rec
      <3>4. rec \in GoodReset
        <4>1. rec \in ResetRecord
          BY <1>1, <3>2, <3>3 DEF GoodReset, ResetRecord, Phones
        <4>2. rec.state = "armed" /\ rec.slot \in rec.slots \ rec.done
          BY <1>1, <3>2, <3>3 DEF GoodReset, ResetRecord
        <4> QED  BY <4>1, <4>2 DEF GoodReset
      <3> QED  BY <3>3, <3>4
    <2>2. CASE Redeem(r)
      <3>1. resets' = [resets EXCEPT ![r] = [resets[r] EXCEPT !.code = FALSE, !.challenge = TRUE]]
        BY <2>2 DEF Redeem, PlaneInv
      <3> QED  BY <1>1, <3>1 DEF PlaneInv, GoodReset, ResetRecord
    <2>3. ASSUME NEW k \in Keys, RegisterFresh(r, k) PROVE Becomes
      <3>1. resets' = [resets EXCEPT ![r] = [resets[r] EXCEPT
                !.state = "registered", !.fresh = k, !.challenge = FALSE]]
        BY <2>3 DEF RegisterFresh, PlaneInv
      <3>2. resets[r].state = "armed"
        BY <2>3 DEF RegisterFresh
      <3> QED  BY <1>1, <3>1, <3>2 DEF PlaneInv, GoodReset, ResetRecord, Phones
    <2> QED  BY <2>1, <2>2, <2>3
  <1>4. todo = {}
    BY <1>2, ServingIsIdle
  <1> HIDE DEF rec
  <1> QED  BY <1>2, <1>3, <1>4, OneRecordChanges DEF PlaneInv, TypeOK

\* The second half of the invariant, of a step that changes reset records.
LEMMA TypesFollow ==
    ASSUME resets' \in [Resets -> GoodReset],
           phones' \in [Keys -> SLOTS \union {"none"}], device' \in [SLOTS -> Phones],
           seated' \subseteq [reset : Resets, slot : SLOTS, key : Keys],
           revoked' \subseteq Resets /\ unsaved' \subseteq revoked',
           acts' \in [Acts -> Act], entries' \subseteq SlotEntry,
           up' \in {"down", "starting", "serving"}, todo' \subseteq Resets \union Acts,
           faults' \in 0 .. MaxFaults, todo' # {} => up' = "starting",
           \A r \in Resets : r \in todo' => Unfinished(r)'
    PROVE  PlaneInv'
  <1>1. resets' \in [Resets -> ResetRecord]
        /\ \A q \in Resets : resets'[q].state \in {"armed", "registered"} =>
              resets'[q].slot \in resets'[q].slots \ resets'[q].done
    BY DEF GoodReset
  <1> QED  BY <1>1 DEF PlaneInv, TypeOK

\* A reset that a step leaves alone stays unfinished.
LEMMA KeptUnfinished ==
    ASSUME NEW r \in Resets, Keeps(r), seated \subseteq seated', Unfinished(r)
    PROVE  Unfinished(r)'
  BY DEF Keeps, Unfinished, Entry

LEMMA StepComplete ==
    ASSUME PlaneInv, NEW r \in Resets, Complete(r)
    PROVE  /\ PlaneInv'
           /\ Finished(r) /\ \A q \in Resets : q # r => Keeps(q)
  <1> DEFINE dev == [device EXCEPT ![resets[r].slot] = resets[r].fresh]
  <1>1. /\ Serving /\ resets[r].state = "registered"
        /\ device' = dev /\ seated' = seated \union {Entry(r)}
        /\ acts' = ActsOffTip /\ Finish(r, dev, OffTip(entries))
        /\ UNCHANGED <<revoked, unsaved, up, todo>>
    BY DEF Complete, MayMove, list, process
  <1>2. resets[r].slot \in SLOTS /\ resets[r].fresh \in Keys
    BY <1>1 DEF PlaneInv, TypeOK, GoodReset, ResetRecord
  <1>3. dev \in [SLOTS -> Phones]
    BY <1>2 DEF PlaneInv, TypeOK, Phones
  <1>4. OffTip(entries) \in SUBSET SlotEntry /\ ActsOffTip \in [Acts -> Act]
    BY OffTipEntries, OffTipActs DEF PlaneInv, TypeOK
  <1>5. seated' \subseteq [reset : Resets, slot : SLOTS, key : Keys]
    BY <1>1, <1>2 DEF PlaneInv, TypeOK, Entry
  <1> HIDE DEF dev
  <1>6. /\ phones' \in [Keys -> SLOTS \union {"none"}] /\ entries' \subseteq SlotEntry
        /\ resets' \in [Resets -> GoodReset] /\ faults' \in 0 .. MaxFaults
        /\ Finished(r) /\ \A q \in Resets : q # r => Keeps(q)
    BY <1>1, <1>3, <1>4, FinishTypes DEF PlaneInv
  <1>7. todo = {}
    BY <1>1, ServingIsIdle
  <1> QED  BY <1>1, <1>3, <1>4, <1>5, <1>6, <1>7, TypesFollow DEF PlaneInv, TypeOK

LEMMA StepFinishes ==
    ASSUME PlaneInv, NEW r \in Resets, FinishCommitted(r) \/ RollReset(r)
    PROVE  /\ PlaneInv'
           /\ Unfinished(r) /\ Finished(r) /\ \A q \in Resets : q # r => Keeps(q)
  <1>1. /\ Unfinished(r) /\ Finish(r, device, entries)
        /\ UNCHANGED <<device, seated, revoked, unsaved, acts, up>>
        /\ todo' \subseteq todo /\ (r \notin todo')
    BY ServingIsIdle DEF FinishCommitted, RollReset, PlaneInv, list, process
  <1>2. resets[r].state = "registered" /\ device \in [SLOTS -> Phones] /\ entries \in SUBSET SlotEntry
    BY <1>1 DEF PlaneInv, TypeOK, Unfinished
  <1>3. /\ phones' \in [Keys -> SLOTS \union {"none"}] /\ entries' \subseteq SlotEntry
        /\ resets' \in [Resets -> GoodReset] /\ faults' \in 0 .. MaxFaults
        /\ Finished(r) /\ \A q \in Resets : q # r => Keeps(q)
    BY <1>1, <1>2, FinishTypes DEF PlaneInv
  <1>4. \A q \in Resets : q \in todo' => Unfinished(q)'
    BY <1>1, <1>3, KeptUnfinished DEF PlaneInv
  <1>5. todo' # {} => up' = "starting"
    BY <1>1 DEF PlaneInv, TypeOK
  <1> QED  BY <1>1, <1>3, <1>4, <1>5, TypesFollow DEF PlaneInv, TypeOK

LEMMA StepEntry ==
    ASSUME PlaneInv, EntrySteps
    PROVE  /\ PlaneInv'
           /\ \A q \in Resets : Keeps(q)
  <1>1. ASSUME NEW k \in Keys, NEW s \in SLOTS, NEW o \in Phones, AskEntry(k, s, o)
        PROVE  entries' \subseteq SlotEntry
    <2>1. Approvers(o) \subseteq Keys
      BY DEF Approvers, DevicePhones, Owners
    <2> DEFINE new == [key |-> k, slot |-> s, occupant |-> o, cards |-> Approvers(o),
                       by |-> NoKey, signed |-> FALSE, onTip |-> TRUE]
    <2>2. new \in SlotEntry
      BY <2>1 DEF SlotEntry, Phones
    <2>3. entries' = entries \union {new} /\ entries \subseteq SlotEntry
      BY <1>1 DEF AskEntry, PlaneInv, TypeOK
    <2> QED  BY <2>2, <2>3
  <1>2. ASSUME NEW e \in entries, NEW k \in Keys, ApproveEntry(e, k)
        PROVE  entries' \subseteq SlotEntry
    <2>1. [e EXCEPT !.by = k] \in SlotEntry
      BY DEF SlotEntry, Phones, PlaneInv, TypeOK
    <2> QED  BY <1>2, <2>1 DEF ApproveEntry, PlaneInv, TypeOK
  <1>3. ASSUME NEW e \in entries, SignEntry(e)
        PROVE  entries' \subseteq SlotEntry
    <2>1. [e EXCEPT !.signed = TRUE] \in SlotEntry
      BY DEF SlotEntry, PlaneInv, TypeOK
    <2> QED  BY <1>3, <2>1 DEF SignEntry, PlaneInv, TypeOK
  <1>4. ASSUME NEW e \in entries, EntryLapses(e)
        PROVE  entries' \subseteq SlotEntry
    BY <1>4 DEF EntryLapses, PlaneInv, TypeOK
  <1>5. ASSUME UNCHANGED <<phones, device, seated, resets, list, acts, process, faults>>,
               entries' \subseteq SlotEntry
        PROVE  PlaneInv' /\ \A q \in Resets : Keeps(q)
    BY <1>5 DEF PlaneInv, TypeOK, Unfinished, Entry, Keeps, list, process
  <1>6. ASSUME NEW e \in entries, LandEntry(e)
        PROVE  PlaneInv' /\ \A q \in Resets : Keeps(q)
    <2>1. e \in SlotEntry
      BY DEF PlaneInv, TypeOK
    <2>2. UNCHANGED <<seated, revoked, unsaved, up, todo>> /\ todo = {}
      BY <1>6, ServingIsIdle DEF LandEntry, MayEnter, list, process
    <2>3. CASE e.onTip /\ ~Twin(e.slot, e.key)
      <3>1. PICK lands \in BOOLEAN, gone \in {{}, {e.occupant} \ {NoKey}} :
              /\ device' = [device EXCEPT ![e.slot] = e.key]
              /\ acts' = ActsOffTip
              /\ phones' = [k \in Keys |-> IF k \in gone THEN "none"
                                           ELSE IF lands /\ k = e.key THEN e.slot ELSE phones[k]]
              /\ entries' = Voided(OffTip(entries \ {e}), gone)
              /\ resets' = Uncarded(gone)
              /\ Spend(~lands)
        BY <1>6, <2>3 DEF LandEntry
      <3>2. OffTip(entries \ {e}) \in SUBSET SlotEntry /\ ActsOffTip \in [Acts -> Act]
        BY OffTipEntries, OffTipActs DEF PlaneInv, TypeOK
      <3>3. entries' \subseteq SlotEntry /\ acts' \in [Acts -> Act]
        BY <3>1, <3>2, VoidedEntries
      <3>4. device' \in [SLOTS -> Phones] /\ phones' \in [Keys -> SLOTS \union {"none"}]
        BY <2>1, <3>1 DEF PlaneInv, TypeOK, SlotEntry, Phones
      <3>5. faults' \in 0 .. MaxFaults
        BY <3>1, SpendBounds DEF PlaneInv, TypeOK
      <3>6. resets' \in [Resets -> GoodReset] /\ \A q \in Resets : Keeps(q)
        BY <3>1, UncardedKeeps, UncardedFields DEF Keeps, PlaneInv
      <3> QED  BY <2>2, <3>3, <3>4, <3>5, <3>6, TypesFollow DEF PlaneInv, TypeOK
    <2>4. CASE ~ (e.onTip /\ ~Twin(e.slot, e.key))
      <3>1. UNCHANGED <<phones, device, seated, resets, list, acts, process, faults>>
            /\ entries' \subseteq SlotEntry
        BY <1>6, <2>4 DEF LandEntry, PlaneInv, TypeOK
      <3> QED  BY <3>1, <1>5
    <2> QED  BY <2>3, <2>4
  <1>7. ASSUME NEW k \in Keys, NEW s \in SLOTS, NEW o \in Phones, AskEntry(k, s, o)
        PROVE  PlaneInv' /\ \A q \in Resets : Keeps(q)
    BY <1>1, <1>5, <1>7 DEF AskEntry
  <1>8. ASSUME NEW e \in entries, \/ \E k \in Keys : ApproveEntry(e, k)
                                 \/ SignEntry(e) \/ EntryLapses(e)
        PROVE  PlaneInv' /\ \A q \in Resets : Keeps(q)
    <2>1. UNCHANGED <<phones, device, seated, resets, list, acts, process, faults>>
      BY <1>8 DEF ApproveEntry, SignEntry, EntryLapses
    <2> QED  BY <1>2, <1>3, <1>4, <1>5, <1>8, <2>1
  <1> QED  BY <1>6, <1>7, <1>8 DEF EntrySteps

LEMMA StepAct ==
    ASSUME PlaneInv, NEW a \in Acts, ActSteps(a) \/ RollAct(a)
    PROVE  /\ PlaneInv'
           /\ \A q \in Resets : Keeps(q)
  <1>1. ASSUME UNCHANGED <<phones, device, seated, resets, list, entries, process, faults>>,
               acts' \in [Acts -> Act]
        PROVE  PlaneInv' /\ \A q \in Resets : Keeps(q)
    BY <1>1 DEF PlaneInv, TypeOK, Unfinished, Entry, Keeps, list, process
  <1>2. acts[a] \in Act /\ NoAct \in Act
    BY DEF PlaneInv, TypeOK, NoAct, Act, Phones
  <1>3. ASSUME NEW op \in ActOps, NEW s \in SLOTS, NEW k \in Keys, OpenAct(a, op, s, k)
        PROVE  PlaneInv' /\ \A q \in Resets : Keeps(q)
    <2>1. PICK cards \in SUBSET Keys :
             acts' = [acts EXCEPT ![a] = [op |-> op, slot |-> s, key |-> k, cards |-> cards,
                                          onTip |-> TRUE, chained |-> FALSE]]
      BY <1>3 DEF OpenAct, DevicePhones, Owners
    <2>2. [op |-> op, slot |-> s, key |-> k, cards |-> cards, onTip |-> TRUE, chained |-> FALSE] \in Act
      BY TopPlaneAssumption DEF Act, Phones
    <2>3. acts' \in [Acts -> Act]
      BY <2>1, <2>2 DEF PlaneInv, TypeOK
    <2> QED  BY <1>1, <1>3, <2>3 DEF OpenAct
  <1>4. CASE ActLapses(a)
    <2>1. [acts[a] EXCEPT !.cards = {}] \in Act
      BY <1>2 DEF Act
    <2>2. acts' \in [Acts -> Act]
      BY <1>2, <1>4, <2>1 DEF ActLapses, PlaneInv, TypeOK
    <2> QED  BY <1>1, <1>4, <2>2 DEF ActLapses
  <1>5. ASSUME NEW dev \in [SLOTS -> Phones], NEW waiting \in SUBSET SlotEntry,
               NEW open \in [Acts -> Act], NEW approver,
               FinishAct(a, dev, waiting, open, approver),
               device' = dev, UNCHANGED <<seated, revoked, unsaved, up>>,
               todo' \subseteq todo
        PROVE  PlaneInv' /\ \A q \in Resets : Keeps(q)
    <2>1. /\ phones' \in [Keys -> SLOTS \union {"none"}] /\ entries' \subseteq SlotEntry
          /\ resets' \in [Resets -> GoodReset] /\ acts' \in [Acts -> Act]
          /\ faults' \in 0 .. MaxFaults /\ \A q \in Resets : Keeps(q)
      BY <1>5, FinishActTypes DEF PlaneInv
    <2>2. \A q \in Resets : q \in todo' => Unfinished(q)'
      BY <1>5, <2>1, KeptUnfinished DEF PlaneInv
    <2> QED  BY <1>5, <2>1, <2>2, TypesFollow DEF PlaneInv, TypeOK
  <1>6. device \in [SLOTS -> Phones] /\ entries \in SUBSET SlotEntry /\ acts \in [Acts -> Act]
        /\ OffTip(entries) \in SUBSET SlotEntry /\ ActsOffTip \in [Acts -> Act]
    BY OffTipEntries, OffTipActs DEF PlaneInv, TypeOK
  <1>7. ASSUME NEW k \in Keys, ApproveAct(a, k)
        PROVE  PlaneInv' /\ \A q \in Resets : Keeps(q)
    <2>1. CASE k \in Devices /\ ChainTakes(acts[a])
      <3> DEFINE dev == [device EXCEPT ![acts[a].slot] = IF acts[a].op = "add" THEN acts[a].key ELSE NoKey]
      <3>1. device' = dev /\ FinishAct(a, dev, OffTip(entries), ActsOffTip, k)
            /\ UNCHANGED <<seated, revoked, unsaved, up, todo>>
        BY <1>7, <2>1 DEF ApproveAct, list, process
      <3>2. dev \in [SLOTS -> Phones]
        BY <1>2, <1>6 DEF Act, Phones
      <3> HIDE DEF dev
      <3> QED  BY <1>5, <1>6, <3>1, <3>2
    <2>2. CASE ~ (k \in Devices /\ ChainTakes(acts[a]))
      <3>1. acts' = [acts EXCEPT ![a] = NoAct]
            /\ UNCHANGED <<phones, device, seated, resets, list, entries, process, faults>>
        BY <1>7, <2>2 DEF ApproveAct
      <3> QED  BY <1>1, <1>2, <1>6, <3>1
    <2> QED  BY <2>1, <2>2
  <1>8. ASSUME NEW k \in Keys, ReapproveAct(a, k)
        PROVE  PlaneInv' /\ \A q \in Resets : Keeps(q)
    BY <1>5, <1>6, <1>8 DEF ReapproveAct, list, process
  <1>9. CASE RollAct(a)
    BY <1>5, <1>6, <1>9 DEF RollAct, list
  <1> QED  BY <1>3, <1>4, <1>7, <1>8, <1>9 DEF ActSteps

LEMMA StepRevoke ==
    ASSUME PlaneInv, NEW k \in Keys, NEW t \in Keys, Revoke(k, t)
    PROVE  /\ PlaneInv'
           /\ \A q \in Resets : Keeps(q)
  <1>1. phones' = [phones EXCEPT ![t] = "none"] /\ entries' = Voided(entries, {t})
        /\ resets' = Uncarded({t})
        /\ UNCHANGED <<device, seated, revoked, unsaved, acts, up, todo, faults>>
    BY DEF Revoke, list, process
  <1>2. resets' \in [Resets -> GoodReset] /\ \A q \in Resets : Keeps(q)
    BY <1>1, UncardedKeeps, UncardedFields DEF Keeps, PlaneInv
  <1>3. entries' \subseteq SlotEntry /\ phones' \in [Keys -> SLOTS \union {"none"}]
    BY <1>1, VoidedEntries DEF PlaneInv, TypeOK
  <1>4. \A q \in Resets : q \in todo' => Unfinished(q)'
    BY <1>1, <1>2, KeptUnfinished DEF PlaneInv
  <1> QED  BY <1>1, <1>2, <1>3, <1>4, TypesFollow DEF PlaneInv, TypeOK

LEMMA StepStop ==
    ASSUME PlaneInv, Stop
    PROVE  /\ PlaneInv'
           /\ \A q \in Resets : Keeps(q)
  <1>1. resets' \in [Resets -> GoodReset] /\ \A q \in Resets : Keeps(q)
    BY UncardedKeeps, UncardedFields DEF Stop, Keeps, PlaneInv
  <1>2. revoked' \subseteq Resets /\ unsaved' \subseteq revoked'
    BY DEF Stop, PlaneInv, TypeOK
  <1> QED  BY <1>1, <1>2, TypesFollow DEF Stop, PlaneInv, TypeOK

\* A start ends codes and challenges, and its last step cards again.
LEMMA StepStartsAndServes ==
    ASSUME PlaneInv, Start \/ Serve
    PROVE  /\ PlaneInv'
           /\ \A q \in Resets : /\ resets'[q].state = resets[q].state /\ resets'[q].slot = resets[q].slot
                               /\ resets'[q].fresh = resets[q].fresh /\ resets'[q].time = resets[q].time
                               /\ resets'[q].slots = resets[q].slots /\ resets'[q].done = resets[q].done
                               /\ resets'[q].lost = resets[q].lost
  <1>1. ASSUME NEW q \in Resets
        PROVE  /\ resets'[q] \in GoodReset
               /\ resets'[q].state = resets[q].state /\ resets'[q].slot = resets[q].slot
               /\ resets'[q].fresh = resets[q].fresh /\ resets'[q].time = resets[q].time
               /\ resets'[q].slots = resets[q].slots /\ resets'[q].done = resets[q].done
               /\ resets'[q].lost = resets[q].lost
    <2>1. resets[q] \in GoodReset
      BY DEF PlaneInv
    <2>2. \/ resets'[q] = resets[q]
          \/ resets'[q] = [resets[q] EXCEPT !.code = FALSE, !.held = FALSE, !.challenge = FALSE]
          \/ \E cards \in SUBSET Keys : resets'[q] = [resets[q] EXCEPT !.cards = cards, !.queued = cards]
      BY DEF Start, Serve, Carded, Owners
    <2>3. CASE resets'[q] = resets[q]
      BY <2>1, <2>3
    <2>4. CASE resets'[q] = [resets[q] EXCEPT !.code = FALSE, !.held = FALSE, !.challenge = FALSE]
      BY <2>1, <2>4 DEF GoodReset, ResetRecord
    <2>5. ASSUME NEW cards \in SUBSET Keys,
                 resets'[q] = [resets[q] EXCEPT !.cards = cards, !.queued = cards]
          PROVE  /\ resets'[q] \in GoodReset
                 /\ resets'[q].state = resets[q].state /\ resets'[q].slot = resets[q].slot
                 /\ resets'[q].fresh = resets[q].fresh /\ resets'[q].time = resets[q].time
                 /\ resets'[q].slots = resets[q].slots /\ resets'[q].done = resets[q].done
                 /\ resets'[q].lost = resets[q].lost
      BY <2>1, <2>5 DEF GoodReset, ResetRecord
    <2> QED  BY <2>2, <2>3, <2>4, <2>5
  <1>2. resets' \in [Resets -> GoodReset]
    <2>1. DOMAIN resets' = Resets /\ resets' = [q \in Resets |-> resets'[q]]
      BY DEF Start, Serve
    <2> QED  BY <1>1, <2>1
  <1>3. UNCHANGED <<phones, device, seated, revoked, unsaved, acts, entries, faults>>
    BY DEF Start, Serve, list
  <1>4. CASE Start
    <2>1. \A q \in Resets : q \in todo' => Unfinished(q)
      BY <1>4, TopPlaneAssumption DEF Start, RollForward
    <2>2. \A q \in Resets : q \in todo' => Unfinished(q)'
      BY <1>1, <1>3, <2>1 DEF Unfinished, Entry
    <2>3. todo' \subseteq Resets \union Acts /\ up' = "starting"
      BY <1>4 DEF Start, RollForward
    <2> QED  BY <1>1, <1>2, <1>3, <2>2, <2>3, TypesFollow DEF PlaneInv, TypeOK
  <1>5. CASE Serve
    <2>1. todo' = {} /\ up' = "serving"
      BY <1>5 DEF Serve
    <2> QED  BY <1>1, <1>2, <1>3, <2>1, TypesFollow DEF PlaneInv, TypeOK
  <1> QED  BY <1>4, <1>5

\* Every step keeps the types.
LEMMA PlaneStep == ASSUME PlaneInv, [Next]_vars PROVE PlaneInv'
  <1>1. CASE UNCHANGED vars
    BY <1>1 DEF vars, list, process, PlaneInv, TypeOK, Unfinished, Entry
  <1>2. ASSUME NEW r \in Resets, ResetSteps(r) PROVE PlaneInv'
    BY <1>2, StepStartReset, StepLapses, StepCloses, StepFresh, StepComplete, StepFinishes DEF ResetSteps
  <1>3. CASE StartSteps
    BY <1>3, StepFinishes, StepAct, StepStartsAndServes DEF StartSteps
  <1> QED  BY <1>1, <1>2, <1>3, StepEntry, StepAct, StepRevoke, StepStop DEF Next

LEMMA PlaneInit == Init => PlaneInv
  <1> SUFFICES ASSUME Init PROVE PlaneInv
    OBVIOUS
  <1>1. \A r \in Resets : resets[r] = NoReset /\ NoReset.state = "none"
    BY DEF Init, NoReset
  <1>2. resets \in [Resets -> GoodReset]
    BY NoResetIsGood DEF Init
  <1>3. resets \in [Resets -> ResetRecord]
    BY <1>2 DEF GoodReset
  <1>4. acts \in [Acts -> Act]
    BY DEF Init, NoAct, Act, Phones
  <1>5. faults \in 0 .. MaxFaults
    BY TopPlaneAssumption DEF Init
  <1> QED  BY <1>1, <1>2, <1>3, <1>4, <1>5 DEF Init, PlaneInv, TypeOK

(***************************************************************************)
(* Theorems.                                                               *)
(***************************************************************************)
THEOREM PlaneInvariant == Spec => []PlaneInv
  <1>1. PlaneInv /\ [Next]_vars => PlaneInv'
    BY PlaneStep
  <1> QED  BY <1>1, PlaneInit, PTL DEF Spec

\* Every variable keeps its type: a record is armed or registered only for a slot
\* of its own that it has not seated, and only a start has work to roll forward
\* (server.py, _roll_forward_committed).
THEOREM PlaneTypes == Spec => []TypeOK
  <1>1. PlaneInv => TypeOK
    BY DEF PlaneInv
  <1> QED  BY <1>1, PlaneInvariant, PTL

(***************************************************************************)
(* One reset moves at a time.                                              *)
(*                                                                         *)
(* OneResetMoves is not inductive: a revocation that the file does not     *)
(* have is forgotten by a restart, and the reset moves again.  So every    *)
(* revocation must be saved, as when the writes of the list succeed or no  *)
(* handler stops half way.  Then no step but a start of a reset makes one  *)
(* move, and a start waits until none does.                                *)
(***************************************************************************)
RevocationsSaved == ListWrites \/ MaxFaults = 0

LEMMA ListStep ==
    ASSUME RevocationsSaved, PlaneInv, unsaved = {}, [Next]_vars
    PROVE  unsaved' = {} /\ revoked \subseteq revoked'
  <1>1. ASSUME NEW r \in Resets, NEW reach \in Closings, AddRevocation(r, reach), Spend(reach # "recorded")
        PROVE  unsaved' = {} /\ revoked \subseteq revoked'
    <2>1. reach # "listed"
      BY <1>1 DEF AddRevocation, Spend, RevocationsSaved, PlaneInv, TypeOK
    <2> QED  BY <1>1, <2>1 DEF AddRevocation, Closings
  <1>2. ASSUME UNCHANGED list PROVE unsaved' = {} /\ revoked \subseteq revoked'
    BY <1>2 DEF list
  <1>3. CASE UNCHANGED vars
    BY <1>2, <1>3 DEF vars
  <1>4. ASSUME NEW r \in Resets, ResetSteps(r) PROVE unsaved' = {} /\ revoked \subseteq revoked'
    <2>1. CASE \E k \in Keys : Cancel(r, k)
      BY <1>1, <2>1 DEF Cancel
    <2>2. CASE Abort(r)
      BY <1>1, <2>2 DEF Abort
    <2>3. CASE ~ (Abort(r) \/ \E k \in Keys : Cancel(r, k))
      <3>1. UNCHANGED list
        BY <1>4, <2>3 DEF ResetSteps, StartReset, WindowPasses, GracePasses, Arm, Redeem, CodeEnds,
                          ChallengeLapses, RegisterFresh, Complete, FinishCommitted
      <3> QED  BY <1>2, <3>1
    <2> QED  BY <2>1, <2>2, <2>3
  <1>5. CASE EntrySteps
    BY <1>2, <1>5 DEF EntrySteps, AskEntry, ApproveEntry, SignEntry, EntryLapses, LandEntry
  <1>6. ASSUME NEW a \in Acts, ActSteps(a) PROVE UNCHANGED list
    BY <1>6 DEF ActSteps, OpenAct, ApproveAct, ReapproveAct, ActLapses
  <1>7. ASSUME NEW k \in Keys, NEW t \in Keys, Revoke(k, t) PROVE UNCHANGED list
    BY <1>7 DEF Revoke
  <1>8. CASE StartSteps
    BY <1>2, <1>8 DEF StartSteps, Start, RollReset, RollAct, Serve
  <1>9. CASE Stop
    BY <1>9 DEF Stop
  <1> QED  BY <1>2, <1>3, <1>4, <1>5, <1>6, <1>7, <1>8, <1>9 DEF Next

\* What moves after a step that left its record alone moved before.
LEMMA MovesStay ==
    ASSUME NEW q \in Resets,
           resets'[q].state = resets[q].state, resets'[q].slot = resets[q].slot,
           resets'[q].fresh = resets[q].fresh, resets'[q].time = resets[q].time,
           revoked \subseteq revoked', \A e \in seated' \ seated : e.reset # q, Moves(q)'
    PROVE  Moves(q) /\ (Open(q)' => Open(q))
  <1>1. Entry(q)' = Entry(q) /\ Entry(q).reset = q
    BY DEF Entry
  <1>2. Open(q)' => Open(q)
    BY DEF Open
  <1>3. Unfinished(q)' => Unfinished(q)
    BY <1>1 DEF Unfinished
  <1> QED  BY <1>2, <1>3 DEF Moves

\* The chain takes a reset's entry when the reset is completed, and only then.
LEMMA SeatedByComplete ==
    ASSUME [Next]_vars, seated' # seated
    PROVE  \E r \in Resets : Complete(r)
  BY ZenonT(60) DEF Next, ResetSteps, EntrySteps, ActSteps, StartSteps, vars, StartReset, WindowPasses,
         GracePasses, Cancel, Arm, Redeem, CodeEnds, ChallengeLapses, RegisterFresh, FinishCommitted,
         Abort, AskEntry, ApproveEntry, SignEntry, EntryLapses, LandEntry, OpenAct, ApproveAct,
         ReapproveAct, ActLapses, Revoke, Start, RollReset, RollAct, Serve, Stop

LEMMA StepMoves ==
    ASSUME PlaneInv, [Next]_vars, revoked \subseteq revoked', NEW q \in Resets, Moves(q)'
    PROVE  \/ Moves(q)
           \/ \E slots \in SUBSET SLOTS \ {{}}, lost \in SUBSET Keys : StartReset(q, slots, lost)
  <1>1. ASSUME Keeps(q), seated' = seated PROVE Moves(q)
    BY <1>1, MovesStay DEF Keeps
  <1>2. ASSUME NEW r \in Resets, ResetSteps(r), q # r PROVE Moves(q)
    <2>1. CASE Complete(r)
      <3>1. Keeps(q)
        BY <1>2, <2>1, StepComplete
      <3>2. \A e \in seated' \ seated : e.reset # q
        BY <1>2, <2>1 DEF Complete, Entry
      <3> QED  BY <3>1, <3>2, MovesStay DEF Keeps
    <2>2. CASE FinishCommitted(r)
      BY <1>1, <1>2, <2>2, StepFinishes DEF FinishCommitted
    <2>3. CASE ~Complete(r) /\ ~FinishCommitted(r)
      <3>1. resets'[q] = resets[q] /\ seated' = seated
        BY <1>2, <2>3 DEF ResetSteps, StartReset, WindowPasses, GracePasses, Arm, Redeem, CodeEnds,
                          ChallengeLapses, RegisterFresh, Cancel, Abort, PlaneInv
      <3> QED  BY <1>1, <3>1 DEF Keeps
    <2> QED  BY <2>1, <2>2, <2>3
  <1>3. ASSUME ResetSteps(q)
        PROVE  \/ Moves(q)
               \/ \E slots \in SUBSET SLOTS \ {{}}, lost \in SUBSET Keys : StartReset(q, slots, lost)
    <2>1. CASE \/ \E s \in SLOTS : Arm(q, s)
               \/ Redeem(q) \/ Complete(q) \/ FinishCommitted(q)
               \/ \E k \in Keys : RegisterFresh(q, k)
      BY <2>1 DEF Arm, Redeem, RegisterFresh, Complete, FinishCommitted, MayMove, Moves
    <2>2. CASE WindowPasses(q)
      <3>1. resets'[q] = [resets[q] EXCEPT !.time = "due", !.queued = {}] /\ seated' = seated
        BY <2>2 DEF WindowPasses, PlaneInv
      <3>2. resets'[q].state = resets[q].state /\ resets[q].state = "waiting" /\ resets[q].time = "early"
        BY <2>2, <3>1 DEF WindowPasses, PlaneInv, GoodReset, ResetRecord
      <3> QED  BY <3>2 DEF Moves, Open, Unfinished, OPEN_RESET_STATES
    <2>3. CASE GracePasses(q)
      <3>1. resets'[q] = [resets[q] EXCEPT !.time = "over"] /\ seated' = seated
        BY <2>3 DEF GracePasses, PlaneInv
      <3>2. /\ resets'[q].state = resets[q].state /\ resets'[q].slot = resets[q].slot
            /\ resets'[q].fresh = resets[q].fresh /\ resets'[q].time = "over"
        BY <3>1 DEF PlaneInv, GoodReset, ResetRecord
      <3> QED  BY <3>1, <3>2 DEF Moves, Open, Unfinished, Entry
    <2>4. CASE CodeEnds(q) \/ ChallengeLapses(q)
      <3>1. Keeps(q) /\ seated' = seated
        BY <2>4 DEF CodeEnds, ChallengeLapses, PlaneInv, GoodReset, ResetRecord, Keeps
      <3> QED  BY <1>1, <3>1
    <2>5. CASE Abort(q) \/ \E k \in Keys : Cancel(q, k)
      <3>1. seated' = seated /\ \/ resets'[q].state \in {"cancelled", "aborted"}
                                \/ resets'[q] = [resets[q] EXCEPT !.queued = {}]
        BY <2>5, ClosedIsGood DEF Abort, Cancel, PlaneInv
      <3>2. CASE resets'[q].state \in {"cancelled", "aborted"}
        BY <3>2 DEF Moves, Open, Unfinished, OPEN_RESET_STATES
      <3>3. CASE resets'[q] = [resets[q] EXCEPT !.queued = {}]
        <4>1. Keeps(q)
          BY <3>3 DEF PlaneInv, GoodReset, ResetRecord, Keeps
        <4> QED  BY <1>1, <3>1, <4>1
      <3> QED  BY <3>1, <3>2, <3>3
    <2> QED  BY <1>3, <2>1, <2>2, <2>3, <2>4, <2>5 DEF ResetSteps
  <1>4. CASE UNCHANGED vars
    BY <1>1, <1>4 DEF vars, Keeps
  <1>5. CASE EntrySteps
    BY <1>1, <1>5, StepEntry DEF EntrySteps, AskEntry, ApproveEntry, SignEntry, EntryLapses, LandEntry
  <1>6. ASSUME NEW a \in Acts, ActSteps(a) \/ RollAct(a) PROVE Moves(q)
    <2>1. seated' = seated
      BY <1>6 DEF ActSteps, RollAct, OpenAct, ApproveAct, ReapproveAct, ActLapses
    <2> QED  BY <1>1, <1>6, <2>1, StepAct
  <1>7. ASSUME NEW k \in Keys, NEW t \in Keys, Revoke(k, t) PROVE Moves(q)
    BY <1>1, <1>7, StepRevoke DEF Revoke
  <1>8. ASSUME NEW r \in Resets, RollReset(r) PROVE Moves(q)
    <2>1. CASE q = r
      BY <1>8, <2>1, StepFinishes DEF Moves
    <2>2. CASE q # r
      BY <1>1, <1>8, <2>2, StepFinishes DEF RollReset
    <2> QED  BY <2>1, <2>2
  <1>9. CASE Start \/ Serve
    <2>1. seated' = seated
      BY <1>9 DEF Start, Serve
    <2> QED  BY <1>9, <2>1, StepStartsAndServes, MovesStay
  <1>10. CASE Stop
    BY <1>1, <1>10, StepStop DEF Stop
  <1> QED  BY <1>2, <1>3, <1>4, <1>5, <1>6, <1>7, <1>8, <1>9, <1>10 DEF Next, StartSteps

MoveInv == PlaneInv /\ unsaved = {} /\ OneResetMoves

LEMMA MoveStep ==
    ASSUME RevocationsSaved, MoveInv, [Next]_vars
    PROVE  MoveInv'
  <1>1. PlaneInv' /\ unsaved' = {} /\ revoked \subseteq revoked'
    BY PlaneStep, ListStep DEF MoveInv
  <1>2. SUFFICES ASSUME NEW r \in Resets, NEW q \in Resets, Moves(r)', Moves(q)', r # q
                 PROVE  FALSE
    BY <1>1 DEF MoveInv, OneResetMoves
  <1>3. ASSUME NEW i \in Resets, NEW j \in Resets, i # j, Moves(j)',
               NEW slots \in SUBSET SLOTS \ {{}}, NEW lost \in SUBSET Keys, StartReset(i, slots, lost)
        PROVE  FALSE
    <2>1. ~Moves(j) /\ resets'[j] = resets[j] /\ UNCHANGED <<seated, revoked>>
      BY <1>3 DEF StartReset, StartBlocked, Moves, MoveInv, PlaneInv, list
    <2> QED  BY <1>3, <2>1, MovesStay
  <1>4. (Moves(r) \/ \E slots \in SUBSET SLOTS \ {{}}, lost \in SUBSET Keys : StartReset(r, slots, lost))
        /\ (Moves(q) \/ \E slots \in SUBSET SLOTS \ {{}}, lost \in SUBSET Keys : StartReset(q, slots, lost))
    BY <1>1, <1>2, StepMoves DEF MoveInv
  <1>5. Moves(r) /\ Moves(q)
    BY <1>2, <1>3, <1>4
  <1> QED  BY <1>2, <1>5 DEF MoveInv, OneResetMoves

THEOREM MoveInvariant == ASSUME RevocationsSaved PROVE Spec => []MoveInv
  <1>1. Init => MoveInv
    <2>1. Init => \A r \in Resets : resets[r].state = "none"
      BY DEF Init, NoReset
    <2> QED  BY <2>1, PlaneInit DEF Init, MoveInv, OneResetMoves, Moves, Open, Unfinished, OPEN_RESET_STATES
  <1>2. MoveInv /\ [Next]_vars => MoveInv'
    BY MoveStep
  <1> QED  BY <1>1, <1>2, PTL DEF Spec

\* No two owner resets can move at once, so no two seat a phone in one slot
\* (_start_reset_locked, reset_is_open), while every revocation is saved.
THEOREM OneResetAtATime == ASSUME RevocationsSaved PROVE Spec => []OneResetMoves
  <1>1. MoveInv => OneResetMoves
    BY DEF MoveInv
  <1> QED  BY <1>1, MoveInvariant, PTL

\* No reset seats a device once it is cancelled or aborted, before its window
\* has passed or after its grace (_handle_owner_reset_complete).
THEOREM ResetsSeatInTime == Spec => SeatsInItsTime
  <1>1. [Next]_vars => /\ \A e \in seated' \ seated : e.reset \notin revoked
                       /\ \A e \in seated' \ seated : resets[e.reset].time = "due"
    <2> SUFFICES ASSUME [Next]_vars, NEW e \in seated' \ seated
                 PROVE  e.reset \notin revoked /\ resets[e.reset].time = "due"
      OBVIOUS
    <2>1. PICK r \in Resets : Complete(r)
      BY SeatedByComplete
    <2>2. e.reset = r
      BY <2>1 DEF Complete, Entry
    <2> QED  BY <2>1, <2>2 DEF Complete, MayMove, Open
  <1>2. Spec => [][\A e \in seated' \ seated : e.reset \notin revoked]_vars
    BY <1>1, PTL DEF Spec
  <1>3. Spec => [][\A e \in seated' \ seated : resets[e.reset].time = "due"]_vars
    BY <1>1, PTL DEF Spec
  <1> QED  BY <1>2, <1>3 DEF SeatsInItsTime, CancelledNeverSeats, WindowRunsFirst

(***************************************************************************)
(* The owners keep the cards that cancel a reset.                          *)
(***************************************************************************)
\* What CancelStands says of one reset and one owner phone, of a step within
\* the window: the card is kept, and so is its place on the queue.
KeepsCancel(r, k) ==
    /\ k \in resets'[r].cards
    /\ Serving' /\ (Serving => k \in resets[r].queued) => k \in resets'[r].queued

\* A phone whose card a step takes off the queues is gone with that step.
LEMMA QueueKept ==
    ASSUME PlaneInv, NEW r \in Resets, NEW k \in resets[r].cards, NEW gone, k \notin gone,
           resets'[r] = [resets[r] EXCEPT !.queued = @ \ gone], Serving' => Serving
    PROVE  KeepsCancel(r, k)
  <1>1. resets'[r].cards = resets[r].cards /\ resets'[r].queued = resets[r].queued \ gone
    BY DEF PlaneInv, GoodReset, ResetRecord
  <1> QED  BY <1>1 DEF KeepsCancel

LEMMA FinishQueues ==
    ASSUME PlaneInv, NEW q \in Resets, NEW dev, NEW waiting, Finish(q, dev, waiting), up' = up,
           NEW r \in Resets, r # q, NEW k \in resets[r].cards \intersect Owners', k \in Keys
    PROVE  KeepsCancel(r, k)
  <1>1. PICK reach \in Reaches, time \in {"due", "over"} :
          LET gone == Leavers(q, dev, reach)
          IN  /\ phones' = [j \in Keys |-> IF j \in Seats(q, dev, reach) THEN resets[q].slot
                                           ELSE IF j \in gone THEN "none" ELSE phones[j]]
              /\ resets' = IF reach = "recorded"
                           THEN [Uncarded(gone) EXCEPT ![q] = Recorded(q, time)]
                           ELSE Uncarded(gone)
    BY DEF Finish
  <1> DEFINE gone == Leavers(q, dev, reach)
  <1>2. k \notin gone
    <2>1. CASE resets[q].slot \in SLOTS
      BY <1>1, <2>1 DEF Leavers, Seats, Owners, SLOTS
    <2>2. CASE resets[q].slot \notin SLOTS
      BY <1>1, <2>2 DEF Leavers, Seats, Owners, SLOTS
    <2> QED  BY <2>1, <2>2
  <1>3. resets'[r] = [resets[r] EXCEPT !.queued = @ \ gone]
    BY <1>1, UncardedKeeps DEF PlaneInv
  <1> QED  BY <1>2, <1>3, QueueKept DEF Serving

LEMMA StepCancel ==
    ASSUME PlaneInv, [Next]_vars, faults' = 0, NEW r \in Resets, InWindow(r), InWindow(r)',
           NEW k \in resets[r].cards \intersect Owners \intersect Owners'
    PROVE  KeepsCancel(r, k)
  <1>1. k \in Keys /\ k \in resets[r].cards /\ phones'[k] \in SLOTS /\ "none" \notin SLOTS
    BY DEF Owners, SLOTS
  <1>2. ASSUME resets'[r] = resets[r], Serving' => Serving PROVE KeepsCancel(r, k)
    BY <1>1, <1>2 DEF KeepsCancel
  <1>3. resets[r].state = "waiting" /\ resets[r].time = "early"
        /\ resets'[r].state = "waiting" /\ resets'[r].time = "early"
    BY DEF InWindow
  <1>4. ASSUME NEW gone, phones' = [j \in Keys |-> IF j \in gone THEN "none" ELSE phones[j]],
               resets' = Uncarded(gone), up' = up
        PROVE  KeepsCancel(r, k)
    <2>1. k \notin gone
      BY <1>1, <1>4
    <2>2. resets'[r] = [resets[r] EXCEPT !.queued = @ \ gone]
      BY <1>4, UncardedKeeps DEF PlaneInv
    <2> QED  BY <1>1, <1>4, <2>1, <2>2, QueueKept DEF Serving
  <1>5. CASE UNCHANGED vars
    BY <1>2, <1>5 DEF vars, process, Serving
  <1>6. ASSUME NEW q \in Resets, ResetSteps(q) PROVE KeepsCancel(r, k)
    <2>1. up' = up
      BY <1>6 DEF ResetSteps, StartReset, WindowPasses, GracePasses, Arm, Redeem, CodeEnds,
                  ChallengeLapses, RegisterFresh, Cancel, Abort, Complete, FinishCommitted, process
    <2>2. CASE Complete(q) \/ FinishCommitted(q)
      <3>1. resets[q].state = "registered"
        BY <2>2 DEF Complete, FinishCommitted, MayMove, Unfinished
      <3>2. q # r
        BY <1>3, <3>1
      <3> QED  BY <1>1, <2>1, <2>2, <3>2, FinishQueues DEF Complete, FinishCommitted
    <2>3. CASE q # r /\ ~Complete(q) /\ ~FinishCommitted(q)
      <3>1. resets'[r] = resets[r]
        BY <1>6, <2>3 DEF ResetSteps, StartReset, WindowPasses, GracePasses, Arm, Redeem, CodeEnds,
                          ChallengeLapses, RegisterFresh, Cancel, Abort, PlaneInv
      <3> QED  BY <1>2, <2>1, <3>1 DEF Serving
    <2>4. CASE q = r /\ (Abort(r) \/ \E j \in Keys : Cancel(r, j))
      <3>1. PICK reach \in Closings :
              /\ Spend(reach # "recorded")
              /\ resets'[r] = IF reach = "recorded" THEN resets'[r] ELSE [resets[r] EXCEPT !.queued = {}]
              /\ reach = "recorded" => resets'[r].state \in {"cancelled", "aborted"}
        BY <2>4, ClosedIsGood DEF Abort, Cancel, PlaneInv
      <3>2. reach = "recorded"
        BY <3>1 DEF Spend, PlaneInv, TypeOK
      <3> QED  BY <1>3, <3>1, <3>2
    <2>5. CASE q = r /\ ~Complete(q) /\ ~FinishCommitted(q) /\ ~ (Abort(r) \/ \E j \in Keys : Cancel(r, j))
      <3>1. resets[r] \in ResetRecord
        BY DEF PlaneInv, TypeOK
      <3>2. ~ (\E slots \in SUBSET SLOTS \ {{}}, lost \in SUBSET Keys : StartReset(r, slots, lost))
        BY <1>3 DEF StartReset
      <3>3. ~ (GracePasses(r) \/ Redeem(r) \/ CodeEnds(r) \/ ChallengeLapses(r)
               \/ (\E j \in Keys : RegisterFresh(r, j)) \/ (\E s \in SLOTS : Arm(r, s)))
        BY <1>3 DEF GracePasses, Redeem, CodeEnds, ChallengeLapses, RegisterFresh, Arm, MayMove
      <3>4. ~WindowPasses(r)
        <4> SUFFICES ASSUME WindowPasses(r) PROVE FALSE
          OBVIOUS
        <4>1. resets'[r] = [resets[r] EXCEPT !.time = "due", !.queued = {}]
          BY DEF WindowPasses, PlaneInv
        <4>2. resets'[r].time = "due"
          BY <3>1, <4>1 DEF ResetRecord
        <4> QED  BY <1>3, <4>2
      <3> QED  BY <1>6, <2>5, <3>2, <3>3, <3>4 DEF ResetSteps
    <2> QED  BY <2>2, <2>3, <2>4, <2>5
  <1>7. CASE EntrySteps
    <2>1. CASE UNCHANGED resets /\ UNCHANGED up
      BY <1>2, <2>1 DEF Serving
    <2>2. ASSUME NEW e \in entries, LandEntry(e), e.onTip, ~Twin(e.slot, e.key) PROVE KeepsCancel(r, k)
      <3>1. PICK lands \in BOOLEAN :
              LET gone == IF lands THEN {e.occupant} \ {NoKey} ELSE {}
              IN  /\ phones' = [j \in Keys |-> IF j \in gone THEN "none"
                                               ELSE IF lands /\ j = e.key THEN e.slot ELSE phones[j]]
                  /\ resets' = Uncarded(gone)
        BY <2>2 DEF LandEntry
      <3> DEFINE gone == IF lands THEN {e.occupant} \ {NoKey} ELSE {}
      <3>2. k \notin gone
        BY <1>1, <3>1
      <3>3. resets'[r] = [resets[r] EXCEPT !.queued = @ \ gone]
        BY <3>1, UncardedKeeps DEF PlaneInv
      <3>4. up' = up
        BY <2>2 DEF LandEntry, process
      <3> QED  BY <1>1, <3>2, <3>3, <3>4, QueueKept DEF Serving
    <2> QED  BY <1>7, <2>1, <2>2 DEF EntrySteps, AskEntry, ApproveEntry, SignEntry, EntryLapses,
                                     LandEntry, process
  <1>8. ASSUME NEW a \in Acts, ActSteps(a) \/ RollAct(a) PROVE KeepsCancel(r, k)
    <2>1. up' = up
      BY <1>8 DEF ActSteps, RollAct, OpenAct, ApproveAct, ReapproveAct, ActLapses, process
    <2>2. CASE UNCHANGED resets
      BY <1>2, <2>1, <2>2 DEF Serving
    <2>3. ASSUME NEW dev, NEW waiting, NEW open, NEW approver, FinishAct(a, dev, waiting, open, approver)
          PROVE  KeepsCancel(r, k)
      <3>1. PICK gone : /\ phones' = [j \in Keys |-> IF j \in gone THEN "none" ELSE phones[j]]
                        /\ resets' = Uncarded(gone)
        BY <2>3 DEF FinishAct
      <3> QED  BY <1>4, <2>1, <3>1
    <2> QED  BY <1>8, <2>2, <2>3 DEF ActSteps, RollAct, OpenAct, ApproveAct, ReapproveAct, ActLapses
  <1>9. ASSUME NEW j \in Keys, NEW t \in Keys, Revoke(j, t) PROVE KeepsCancel(r, k)
    <2>1. phones' = [i \in Keys |-> IF i \in {t} THEN "none" ELSE phones[i]]
      BY <1>9 DEF Revoke, PlaneInv, TypeOK
    <2> QED  BY <1>4, <1>9, <2>1 DEF Revoke, process
  <1>10. CASE Start
    <2>1. resets'[r] = resets[r] /\ ~Serving'
      BY <1>3, <1>10 DEF Start, Serving
    <2> QED  BY <1>2, <2>1
  <1>11. ASSUME NEW q \in Resets, RollReset(q) PROVE KeepsCancel(r, k)
    <2>1. q # r
      BY <1>3, <1>11, StepFinishes DEF Unfinished
    <2> QED  BY <1>1, <1>11, <2>1, FinishQueues DEF RollReset
  <1>12. CASE Serve
    <2>1. resets'[r] = [resets[r] EXCEPT !.cards = Owners, !.queued = Owners]
      BY <1>3, <1>12 DEF Serve, InWindow, Carded
    <2>2. resets'[r].cards = Owners /\ resets'[r].queued = Owners
      BY <2>1 DEF PlaneInv, TypeOK, ResetRecord
    <2> QED  BY <2>2 DEF KeepsCancel
  <1>13. CASE Stop
    <2>1. resets'[r] = [resets[r] EXCEPT !.queued = @ \ Keys]
      BY <1>13, UncardedKeeps DEF Stop, PlaneInv
    <2>2. resets'[r].cards = resets[r].cards /\ ~Serving'
      BY <1>13, <2>1 DEF PlaneInv, TypeOK, ResetRecord, Stop, Serving
    <2> QED  BY <1>1, <2>2 DEF KeepsCancel
  <1> QED  BY <1>5, <1>6, <1>7, <1>8, <1>9, <1>10, <1>11, <1>12, <1>13 DEF Next, StartSteps

\* While no handler stopped half way, an owner phone that could cancel a reset
\* can cancel it until the window passes, and finds its card on its queue while
\* the server serves (_card_devices, and _recard_open_resets at the next start).
THEOREM OwnersKeepTheCancel == Spec => CancelStands
  <1>1. PlaneInv /\ [Next]_vars =>
          \A r \in Resets : \A k \in resets[r].cards \intersect Owners \intersect Owners' :
             faults' = 0 /\ InWindow(r) /\ InWindow(r)' => KeepsCancel(r, k)
    BY StepCancel
  <1>2. Spec => [][\A r \in Resets : \A k \in resets[r].cards \intersect Owners \intersect Owners' :
                      faults' = 0 /\ InWindow(r) /\ InWindow(r)' => KeepsCancel(r, k)]_vars
    BY <1>1, PlaneInvariant, PTL DEF Spec
  <1> QED  BY <1>2 DEF CancelStands, KeepsCancel

(***************************************************************************)
(* The registry keeps in step with the chain.                              *)
(*                                                                         *)
(* RegistryInStep needs to know where every phone that may be removed, or  *)
(* sealed, stands: the slots an open reset has still to seat hold lost     *)
(* phones only, and the slot of an act that can still be sealed holds its  *)
(* phone only.  Both are lost when a handler of an entry or an act stops   *)
(* half way, and so is RegistryInStep.                                     *)
(***************************************************************************)
\* No handler stops half way, or the owner resets have the plane for themselves.
PlaneAlone == MaxFaults = 0 \/ (ListWrites /\ MaxEntries = 0 /\ Acts = {})

\* A slot in which a committed reset has registry work left.
Busy(s) == \E r \in Resets : Unfinished(r) /\ resets[r].slot = s

\* No two phones share a slot, but in a busy one.
OneHolder ==
    \A j, k \in Keys : phones[j] \in SLOTS /\ phones[j] = phones[k] /\ ~Busy(phones[j]) => j = k

\* A slot's device is at home there, or left, and is no other slot's.
DevicesHome ==
    \A s \in SLOTS : device[s] # NoKey =>
        /\ phones[device[s]] \in {s, "none"}
        /\ \A o \in SLOTS : device[o] = device[s] => o = s

\* The slot of an unfinished reset has the fresh device sealed, and holds no
\* phone but it and the lost ones.
UnfinishedInv ==
    \A r \in Resets : Unfinished(r) =>
        /\ device[resets[r].slot] = resets[r].fresh
        /\ Holders(resets[r].slot) \subseteq resets[r].lost \union {resets[r].fresh}

\* The slots an open reset has still to seat hold lost phones only.
LostHold ==
    \A r \in Resets : Open(r) => \A s \in resets[r].slots \ resets[r].done :
        Holders(s) \subseteq resets[r].lost \/ (Unfinished(r) /\ resets[r].slot = s)

\* An entry on the chain is its reset's last, or one of a slot it is done with.
SeatedInv ==
    \A e \in seated :
        /\ resets[e.reset].state # "none"
        /\ resets[e.reset].state \in OPEN_RESET_STATES =>
              \/ e.slot \in resets[e.reset].done
              \/ resets[e.reset].state = "registered" /\ e = Entry(e.reset)

\* A fresh device that is not sealed yet holds no slot.
FreshOut ==
    \A r \in Resets : Open(r) /\ resets[r].state = "registered" /\ ~Unfinished(r) =>
        phones[resets[r].fresh] = "none"

\* The slot of an add that can still be sealed holds its phone or none, the
\* phone a removal is about has no card for it, and no act waits half done.
ActInv(a) ==
    /\ acts[a].op = "add" /\ acts[a].onTip =>
          /\ phones[acts[a].key] \in {acts[a].slot, "none"}
          /\ Holders(acts[a].slot) \subseteq {acts[a].key}
    /\ acts[a].op = "remove" => acts[a].key \notin acts[a].cards
    /\ acts[a].cards # {} => acts[a].op # "none"
    /\ acts[a].op # "none" => acts[a].slot \in SLOTS /\ acts[a].key \in Keys
    /\ ~acts[a].chained

ActsInv == \A a \in Acts : ActInv(a)

\* Without faults nothing is left to finish; with them there are no entries.
AloneInv ==
    /\ MaxFaults = 0 => todo = {} /\ \A r \in Resets : ~Unfinished(r)
    /\ MaxFaults # 0 => entries = {}

PlacesInv ==
    /\ OneHolder /\ DevicesHome /\ SlotFollowsChain
    /\ UnfinishedInv /\ LostHold /\ SeatedInv
    /\ MaxFaults # 0 => FreshOut

StepInv == MoveInv /\ OwnersRemain /\ PlacesInv /\ AloneInv /\ ActsInv

LEMMA AloneSavesRevocations == PlaneAlone => RevocationsSaved
  BY DEF PlaneAlone, RevocationsSaved

(***************************************************************************)
(* Steps that leave chain and devices alone and at most remove phones.     *)
(***************************************************************************)
\* What such a step may do to a reset's record.
Follows(q) ==
    /\ Unfinished(q)' <=> Unfinished(q)
    /\ Unfinished(q) => /\ resets'[q].slot = resets[q].slot /\ resets'[q].fresh = resets[q].fresh
                        /\ resets'[q].lost = resets[q].lost
    /\ Open(q)' =>
          \/ /\ Open(q) /\ resets'[q].slots = resets[q].slots
             /\ resets'[q].lost = resets[q].lost /\ resets'[q].done = resets[q].done
          \/ \A s \in resets'[q].slots \ resets'[q].done : Holders(s) \subseteq resets'[q].lost
    /\ resets[q].state # "none" =>
          /\ resets'[q].state # "none"
          /\ resets'[q].state \in OPEN_RESET_STATES =>
                resets[q].state \in OPEN_RESET_STATES /\ resets'[q].done = resets[q].done
    /\ Open(q)' /\ resets'[q].state = "registered" /\ ~Unfinished(q)' =>
          \/ Open(q) /\ resets[q].state = "registered" /\ resets'[q].fresh = resets[q].fresh
          \/ phones[resets'[q].fresh] = "none"

Shrinks == \A k \in Keys : phones'[k] \in {phones[k], "none"}

LEMMA SameFollows ==
    ASSUME NEW q \in Resets, seated' = seated, Open(q)' => Open(q),
           resets'[q].state = resets[q].state, resets'[q].slots = resets[q].slots,
           resets'[q].lost = resets[q].lost, resets'[q].done = resets[q].done,
           resets'[q].slot = resets[q].slot, resets'[q].fresh = resets[q].fresh
    PROVE  Follows(q)
  <1>1. Unfinished(q)' <=> Unfinished(q)
    BY DEF Unfinished, Entry
  <1> QED  BY <1>1 DEF Follows

LEMMA KeptFollows ==
    ASSUME NEW q \in Resets, seated' = seated, revoked \subseteq revoked', Keeps(q)
    PROVE  Follows(q)
  <1>1. Open(q)' => Open(q)
    BY DEF Open, Keeps
  <1> QED  BY <1>1, SameFollows DEF Keeps

LEMMA PlacesFollow ==
    ASSUME PlaneInv, PlaneInv', PlacesInv, UNCHANGED <<device, seated>>, Shrinks,
           \A q \in Resets : Follows(q)
    PROVE  PlacesInv'
  <1>1. \A s \in SLOTS : Holders(s)' \subseteq Holders(s)
    BY DEF Shrinks, Holders, SLOTS
  <1>2. \A s : Busy(s)' <=> Busy(s)
    BY DEF Busy, Follows
  <1>3. OneHolder'
    BY <1>2 DEF OneHolder, PlacesInv, Shrinks, SLOTS
  <1>4. DevicesHome'
    BY DEF DevicesHome, PlacesInv, PlaneInv, TypeOK, Phones, Shrinks
  <1>5. SlotFollowsChain'
    BY <1>1, <1>2 DEF SlotFollowsChain, PlacesInv, Busy
  <1>6. UnfinishedInv'
    <2> SUFFICES ASSUME NEW r \in Resets, Unfinished(r)'
                 PROVE  /\ device'[resets'[r].slot] = resets'[r].fresh
                        /\ Holders(resets[r].slot)' \subseteq resets'[r].lost \union {resets'[r].fresh}
      BY DEF UnfinishedInv
    <2>1. /\ Unfinished(r) /\ resets'[r].slot = resets[r].slot /\ resets'[r].fresh = resets[r].fresh
          /\ resets'[r].lost = resets[r].lost
      BY DEF Follows
    <2>2. resets[r].slot \in SLOTS
      BY <2>1 DEF Unfinished, PlaneInv, TypeOK, ResetRecord
    <2> QED  BY <1>1, <2>1, <2>2 DEF UnfinishedInv, PlacesInv
  <1>7. LostHold'
    <2> SUFFICES ASSUME NEW r \in Resets, Open(r)', NEW s \in resets'[r].slots \ resets'[r].done
                 PROVE  Holders(s)' \subseteq resets'[r].lost \/ (Unfinished(r)' /\ resets'[r].slot = s)
      BY DEF LostHold
    <2>1. s \in SLOTS
      BY DEF PlaneInv, TypeOK, ResetRecord
    <2> QED  BY <1>1, <2>1 DEF Follows, LostHold, PlacesInv
  <1>8. SeatedInv'
    <2> SUFFICES ASSUME NEW e \in seated
                 PROVE  /\ resets'[e.reset].state # "none"
                        /\ resets'[e.reset].state \in OPEN_RESET_STATES =>
                              \/ e.slot \in resets'[e.reset].done
                              \/ resets'[e.reset].state = "registered" /\ e = Entry(e.reset)'
      BY DEF SeatedInv
    <2>1. e.reset \in Resets
      BY DEF PlaneInv, TypeOK
    <2>2. CASE resets[e.reset].state = "registered" /\ e = Entry(e.reset)
      BY <2>1, <2>2 DEF Follows, Unfinished, Entry, SeatedInv, PlacesInv
    <2>3. CASE ~ (resets[e.reset].state = "registered" /\ e = Entry(e.reset))
      BY <2>1, <2>3 DEF Follows, SeatedInv, PlacesInv
    <2> QED  BY <2>2, <2>3
  <1>9. MaxFaults # 0 => FreshOut'
    <2> SUFFICES ASSUME MaxFaults # 0, NEW r \in Resets, Open(r)', resets'[r].state = "registered", ~Unfinished(r)'
                 PROVE  phones'[resets'[r].fresh] = "none"
      BY DEF FreshOut
    <2>1. resets'[r].fresh \in Keys
      BY DEF PlaneInv, GoodReset
    <2>2. phones[resets'[r].fresh] = "none"
      BY DEF Follows, FreshOut, PlacesInv
    <2> QED  BY <2>1, <2>2 DEF Shrinks
  <1> QED  BY <1>3, <1>4, <1>5, <1>6, <1>7, <1>8, <1>9 DEF PlacesInv

\* A reset that starts names every phone lost that holds one of its slots.
LEMMA StartFollows ==
    ASSUME PlaneInv, PlacesInv, NEW r \in Resets,
           NEW slots \in SUBSET SLOTS \ {{}}, NEW lost \in SUBSET Keys, StartReset(r, slots, lost)
    PROVE  \A q \in Resets : Follows(q)
  <1> DEFINE held == UNION {Holders(s) : s \in slots}
  <1>1. ASSUME NEW s \in slots PROVE Holders(s) \subseteq lost
    <2>1. lost \in (IF slots = SLOTS THEN {held} ELSE SUBSET held) \ {{}}
      BY DEF StartReset, LostSets
    <2>2. CASE slots = SLOTS
      BY <2>1, <2>2, <1>1
    <2>3. CASE slots # SLOTS
      <3>1. \A i \in slots : i = s
        BY <2>3 DEF SLOTS
      <3>2. lost \subseteq Holders(s) /\ lost # {}
        BY <2>1, <2>3, <3>1
      <3>3. ~Busy(s) /\ s \in SLOTS
        BY DEF StartReset, StartBlocked, Busy
      <3>4. \A j, k \in Holders(s) : j = k
        BY <3>3 DEF OneHolder, PlacesInv, Holders
      <3> QED  BY <3>2, <3>4
    <2> QED  BY <2>2, <2>3
  <1>2. resets[r].state = "none" /\ UNCHANGED <<seated, revoked, phones>>
        /\ \A q \in Resets : q # r => resets'[q] = resets[q]
    BY DEF StartReset, PlaneInv, list
  <1>3. resets'[r].state = "waiting" /\ resets'[r].slots = slots /\ resets'[r].lost = lost
    BY DEF StartReset, PlaneInv, NoReset
  <1>4. Follows(r)
    BY <1>1, <1>2, <1>3 DEF Follows, Unfinished
  <1>5. ASSUME NEW q \in Resets, q # r PROVE Follows(q)
    BY <1>2, <1>5, KeptFollows DEF Keeps
  <1> QED  BY <1>4, <1>5

\* The other steps of a reset up to its completion, and its cancel and abort.
LEMMA RecordFollows ==
    ASSUME PlaneInv, PlaneInv', PlacesInv, revoked \subseteq revoked', NEW r \in Resets, ResetSteps(r),
           ~Complete(r), ~FinishCommitted(r),
           ~ \E slots \in SUBSET SLOTS \ {{}}, lost \in SUBSET Keys : StartReset(r, slots, lost)
    PROVE  \A q \in Resets : Follows(q)
  <1>1. seated' = seated /\ \A q \in Resets : q # r => resets'[q] = resets[q]
    BY DEF ResetSteps, WindowPasses, GracePasses, Arm, Redeem, CodeEnds, ChallengeLapses,
           RegisterFresh, Cancel, Abort, PlaneInv
  <1>2. resets[r] \in ResetRecord
    BY DEF PlaneInv, TypeOK
  <1>3. CASE WindowPasses(r)
    <2>1. resets'[r] = [resets[r] EXCEPT !.time = "due", !.queued = {}] /\ resets[r].time = "early"
      BY <1>3 DEF WindowPasses, PlaneInv
    <2>2. Open(r)' => Open(r)
      BY <1>2, <2>1 DEF Open, ResetRecord
    <2>3. Follows(r)
      BY <1>1, <1>2, <2>1, <2>2, SameFollows DEF ResetRecord
    <2> QED  BY <1>1, <2>3, KeptFollows DEF Keeps
  <1>4. CASE GracePasses(r)
    <2>1. resets'[r] = [resets[r] EXCEPT !.time = "over"]
      BY <1>4 DEF GracePasses, PlaneInv
    <2>2. ~Open(r)'
      BY <1>2, <2>1 DEF Open, ResetRecord
    <2>3. Follows(r)
      BY <1>1, <1>2, <2>1, <2>2, SameFollows DEF ResetRecord
    <2> QED  BY <1>1, <2>3, KeptFollows DEF Keeps
  <1>5. CASE Redeem(r) \/ CodeEnds(r) \/ ChallengeLapses(r)
    <2>1. Keeps(r)
      BY <1>2, <1>5 DEF Redeem, CodeEnds, ChallengeLapses, PlaneInv, ResetRecord, Keeps
    <2> QED  BY <1>1, <2>1, KeptFollows DEF Keeps
  <1>6. CASE Abort(r) \/ \E k \in Keys : Cancel(r, k)
    <2>1. \/ resets'[r].state \in {"cancelled", "aborted"}
          \/ resets'[r] = [resets[r] EXCEPT !.queued = {}]
      BY <1>6, ClosedIsGood DEF Abort, Cancel, PlaneInv
    <2>2. ~Unfinished(r)
      BY <1>6 DEF Abort, Cancel, Unfinished
    <2>3. CASE resets'[r].state \in {"cancelled", "aborted"}
      <3>1. Follows(r)
        BY <2>2, <2>3 DEF Follows, Unfinished, Open, OPEN_RESET_STATES
      <3> QED  BY <1>1, <3>1, KeptFollows DEF Keeps
    <2>4. CASE resets'[r] = [resets[r] EXCEPT !.queued = {}]
      <3>1. Keeps(r)
        BY <1>2, <2>4 DEF ResetRecord, Keeps
      <3> QED  BY <1>1, <3>1, KeptFollows DEF Keeps
    <2> QED  BY <2>1, <2>3, <2>4
  <1>7. ASSUME NEW s \in SLOTS, Arm(r, s) PROVE \A q \in Resets : Follows(q)
    <2>1. resets'[r] = [resets[r] EXCEPT
              !.state = "armed", !.slot = s, !.queued = {}, !.fresh = NoKey,
              !.code = TRUE, !.held = TRUE, !.challenge = FALSE]
      BY <1>7 DEF Arm, PlaneInv
    <2>2. /\ resets'[r].state = "armed" /\ resets'[r].slots = resets[r].slots
          /\ resets'[r].lost = resets[r].lost /\ resets'[r].done = resets[r].done
      BY <1>2, <2>1 DEF ResetRecord
    <2>3. Open(r) /\ resets[r].state \in {"waiting", "armed"}
      BY <1>7 DEF Arm, MayMove
    <2>4. Follows(r)
      BY <2>2, <2>3 DEF Follows, Unfinished, Open
    <2> QED  BY <1>1, <2>4, KeptFollows DEF Keeps
  <1>8. ASSUME NEW k \in Keys, RegisterFresh(r, k) PROVE \A q \in Resets : Follows(q)
    <2>1. resets'[r] = [resets[r] EXCEPT !.state = "registered", !.fresh = k, !.challenge = FALSE]
      BY <1>8 DEF RegisterFresh, PlaneInv
    <2>2. /\ resets'[r].state = "registered" /\ resets'[r].slots = resets[r].slots
          /\ resets'[r].lost = resets[r].lost /\ resets'[r].done = resets[r].done
          /\ resets'[r].slot = resets[r].slot /\ resets'[r].fresh = k
      BY <1>2, <2>1 DEF ResetRecord
    <2>3. Open(r) /\ resets[r].state = "armed" /\ phones[k] = "none"
      BY <1>8 DEF RegisterFresh
    <2>4. ~Unfinished(r)'
      <3>1. resets[r].slot \notin resets[r].done
        BY <2>3 DEF PlaneInv, TypeOK
      <3>2. \A e \in seated : e.reset = r => e.slot \in resets[r].done
        BY <2>3 DEF SeatedInv, PlacesInv, Open
      <3> QED  BY <1>1, <2>2, <3>1, <3>2 DEF Unfinished, Entry
    <2>5. Follows(r)
      BY <2>2, <2>3, <2>4 DEF Follows, Unfinished, Open
    <2> QED  BY <1>1, <2>5, KeptFollows DEF Keeps
  <1> QED  BY <1>3, <1>4, <1>5, <1>6, <1>7, <1>8 DEF ResetSteps

(***************************************************************************)
(* The steps that seat a reset's fresh device.                             *)
(***************************************************************************)
\* What finish_reset_seat does to the phones, while the chain has the fresh
\* device in the slot: as far as it goes, the fresh device comes first, and
\* when it gets through, the lost phones have left.
LEMMA FinishPlaces ==
    ASSUME PlaneInv, NEW r \in Resets, resets[r].state = "registered",
           NEW dev \in [SLOTS -> Phones], NEW waiting, Finish(r, dev, waiting),
           dev[resets[r].slot] = resets[r].fresh
    PROVE  LET slot == resets[r].slot
               fresh == resets[r].fresh
           IN  /\ \A k \in Keys : k # fresh => phones'[k] \in {phones[k], "none"}
               /\ phones'[fresh] \in {phones[fresh], slot}
               /\ \A k \in Keys : phones'[k] = phones[k] \/ phones'[fresh] = slot
               /\ \/ Keeps(r) /\ MaxFaults # 0
                  \/ /\ resets'[r].state # "registered" /\ phones'[fresh] = slot
                     /\ \A k \in resets[r].lost :
                           phones[k] = slot /\ (\A s \in SLOTS : dev[s] # k) => phones'[k] = "none"
               /\ waiting = {} => entries' = {}
  <1> DEFINE slot == resets[r].slot
             fresh == resets[r].fresh
  <1>1. PICK reach \in Reaches, time \in {"due", "over"} :
          LET gone == Leavers(r, dev, reach)
          IN  /\ phones' = [k \in Keys |-> IF k \in Seats(r, dev, reach) THEN slot
                                           ELSE IF k \in gone THEN "none" ELSE phones[k]]
              /\ entries' = Voided(waiting, gone)
              /\ resets' = IF reach = "recorded"
                           THEN [Uncarded(gone) EXCEPT ![r] = Recorded(r, time)]
                           ELSE Uncarded(gone)
              /\ Spend(reach # "recorded")
    BY DEF Finish
  <1> DEFINE gone == Leavers(r, dev, reach)
             seats == Seats(r, dev, reach)
  <1>2. slot \in SLOTS /\ fresh \in Keys /\ resets[r].lost \subseteq Keys
    BY DEF PlaneInv, TypeOK, GoodReset, ResetRecord
  <1>3. seats \subseteq {fresh} /\ fresh \notin gone /\ (gone # {} => seats = {fresh})
    BY <1>2 DEF Leavers, Seats, SeatedReach
  <1>4. reach = "recorded" => /\ seats = {fresh}
                              /\ \A k \in resets[r].lost :
                                    phones[k] = slot /\ (\A s \in SLOTS : dev[s] # k) => k \in gone
    BY DEF Leavers, Seats, SeatedReach
  <1> HIDE DEF gone, seats
  <1>5. phones' = [k \in Keys |-> IF k \in seats THEN slot ELSE IF k \in gone THEN "none" ELSE phones[k]]
    BY <1>1 DEF gone, seats
  <1>6. /\ \A k \in Keys : k # fresh => phones'[k] \in {phones[k], "none"}
        /\ phones'[fresh] \in {phones[fresh], slot}
        /\ \A k \in Keys : phones'[k] = phones[k] \/ phones'[fresh] = slot
    BY <1>2, <1>3, <1>5
  <1>7. waiting = {} => entries' = {}
    BY <1>1 DEF Voided
  <1>8. CASE reach = "recorded"
    <2>1. resets'[r] = Recorded(r, time)
      BY <1>1, <1>8, UncardedKeeps DEF PlaneInv
    <2>2. resets'[r].state # "registered"
      BY <2>1, RecordedIsGood DEF PlaneInv
    <2>3. \A k \in resets[r].lost :
             phones[k] = slot /\ (\A s \in SLOTS : dev[s] # k) => phones'[k] = "none"
      BY <1>2, <1>3, <1>4, <1>5, <1>8
    <2> QED  BY <1>2, <1>4, <1>5, <1>6, <1>7, <1>8, <2>2, <2>3
  <1>9. CASE reach # "recorded"
    <2>1. resets' = Uncarded(gone)
      BY <1>1, <1>9 DEF gone
    <2>2. Keeps(r)
      BY <2>1, UncardedFields DEF Keeps, PlaneInv
    <2>3. MaxFaults # 0
      BY <1>1, <1>9 DEF Spend, PlaneInv, TypeOK
    <2> QED  BY <1>6, <1>7, <2>2, <2>3
  <1> QED  BY <1>8, <1>9

\* Such a step keeps every phone in its place, when the slot held lost phones
\* only and the fresh device was in no other.
LEMMA SeatPlaces ==
    ASSUME PlaneInv, PlaneInv', OneResetMoves, PlacesInv,
           NEW r \in Resets, resets[r].state = "registered", Moves(r), revoked' = revoked,
           device'[resets[r].slot] = resets[r].fresh,
           \A s \in SLOTS : s # resets[r].slot => device'[s] = device[s] /\ device[s] # resets[r].fresh,
           seated' = seated \union {Entry(r)},
           Finished(r), \A q \in Resets : q # r => Keeps(q),
           Holders(resets[r].slot) \subseteq resets[r].lost \union {resets[r].fresh},
           phones'[resets[r].fresh] \in {resets[r].slot, "none"},
           \A k \in Keys : k # resets[r].fresh => phones'[k] \in {phones[k], "none"},
           phones'[resets[r].fresh] \in {phones[resets[r].fresh], resets[r].slot},
           \/ Keeps(r) /\ MaxFaults # 0
           \/ /\ resets'[r].state # "registered" /\ phones'[resets[r].fresh] = resets[r].slot
              /\ \A k \in resets[r].lost :
                    phones[k] = resets[r].slot /\ (\A s \in SLOTS : device'[s] # k) => phones'[k] = "none"
    PROVE  PlacesInv'
  <1> DEFINE slot == resets[r].slot
             fresh == resets[r].fresh
             Now(s) == {k \in Keys : phones'[k] = s}
  <1>1. slot \in SLOTS /\ fresh \in Keys /\ resets[r].lost \subseteq Keys /\ NoKey \notin Keys
    BY TopPlaneAssumption DEF PlaneInv, TypeOK, GoodReset, ResetRecord
  <1>2. ASSUME NEW q \in Resets, q # r PROVE ~Moves(q) /\ ~Unfinished(q)' /\ ~Open(q)'
    <2>1. ~Moves(q) /\ Keeps(q)
      BY <1>2 DEF OneResetMoves
    <2>2. Entry(q)' = Entry(q) /\ Entry(q) # Entry(r)
      BY <1>2, <2>1 DEF Entry, Keeps
    <2> QED  BY <2>1, <2>2 DEF Moves, Open, Unfinished, Keeps
  <1>3. Keeps(r) => Unfinished(r)'
    BY DEF Keeps, Unfinished, Entry
  <1>4. ~Keeps(r) => ~Unfinished(r)'
    BY DEF Keeps, Unfinished
  <1>5. \A s \in SLOTS : s # slot => Now(s) \subseteq Holders(s) /\ ~Busy(s)
    <2>1. \A s \in SLOTS : s # slot => Now(s) \subseteq Holders(s)
      BY DEF Holders, SLOTS
    <2>2. \A s : s # slot => ~Busy(s)
      BY <1>2 DEF Busy, Moves
    <2> QED  BY <2>1, <2>2
  <1>6. Now(slot) \subseteq Holders(slot) \union {fresh}
    BY <1>1 DEF Holders, SLOTS
  <1>7. ~Keeps(r) => Now(slot) \subseteq {fresh}
    <2> SUFFICES ASSUME ~Keeps(r), NEW k \in Now(slot), k # fresh PROVE FALSE
      OBVIOUS
    <2>1. k \in resets[r].lost /\ phones[k] = slot /\ k \in Keys /\ phones'[k] = slot
      BY <1>6 DEF Holders
    <2>2. \A s \in SLOTS : device'[s] # k
      BY <1>1, <2>1 DEF DevicesHome, PlacesInv, SLOTS
    <2> QED  BY <1>1, <2>1, <2>2 DEF SLOTS
  <1>8. \A s : Busy(s)' <=> Keeps(r) /\ s = slot
    <2> SUFFICES ASSUME NEW s PROVE Busy(s)' <=> Keeps(r) /\ s = slot
      OBVIOUS
    <2>1. Busy(s)' => Keeps(r) /\ s = slot
      BY <1>2, <1>4 DEF Busy, Keeps
    <2>2. Keeps(r) /\ s = slot => Busy(s)'
      BY <1>3 DEF Busy, Keeps
    <2> QED  BY <2>1, <2>2
  <1>9. OneHolder'
    <2> SUFFICES ASSUME NEW j \in Keys, NEW k \in Keys, phones'[j] \in SLOTS, phones'[j] = phones'[k],
                        ~ (Keeps(r) /\ phones'[j] = slot)
                 PROVE  j = k
      BY <1>8 DEF OneHolder
    <2>1. CASE phones'[j] = slot
      <3>1. j \in Now(slot) /\ k \in Now(slot)
        BY <2>1
      <3>2. ~Keeps(r)
        BY <2>1
      <3> QED  BY <1>7, <3>1, <3>2
    <2>2. CASE phones'[j] # slot
      <3>1. j \in Holders(phones'[j]) /\ k \in Holders(phones'[j]) /\ ~Busy(phones'[j])
        BY <1>5, <2>2 DEF Holders
      <3> QED  BY <3>1 DEF Holders, OneHolder, PlacesInv
    <2> QED  BY <2>1, <2>2
  <1>10. DevicesHome'
    <2>1. ASSUME NEW s \in SLOTS, device'[s] # NoKey PROVE phones'[device'[s]] \in {s, "none"}
      <3>1. CASE s = slot
        BY <3>1
      <3>2. CASE s # slot
        <4>1. device[s] \in Keys /\ device[s] # fresh /\ device'[s] = device[s]
          BY <2>1, <3>2 DEF PlaneInv, TypeOK, Phones
        <4> QED  BY <2>1, <4>1 DEF DevicesHome, PlacesInv
      <3> QED  BY <3>1, <3>2
    <2>2. \A s, o \in SLOTS : device'[s] # NoKey /\ device'[o] = device'[s] => o = s
      BY <1>1 DEF DevicesHome, PlacesInv
    <2> QED  BY <2>1, <2>2 DEF DevicesHome
  <1>11. SlotFollowsChain'
    <2> SUFFICES ASSUME NEW s \in SLOTS, device'[s] # NoKey, ~ (Keeps(r) /\ s = slot)
                 PROVE  Now(s) \subseteq {device'[s]}
      BY <1>8 DEF SlotFollowsChain, Busy, Holders
    <2>1. CASE s = slot
      BY <1>7, <2>1
    <2>2. CASE s # slot
      BY <1>5, <2>2 DEF SlotFollowsChain, PlacesInv, Busy
    <2> QED  BY <2>1, <2>2
  <1>12. UnfinishedInv'
    <2> SUFFICES ASSUME NEW q \in Resets, Unfinished(q)'
                 PROVE  q = r /\ Keeps(r)
      BY <1>6 DEF UnfinishedInv, Keeps, Holders
    <2> QED  BY <1>2, <1>4
  <1>13. LostHold'
    <2> SUFFICES ASSUME NEW q \in Resets, Open(q)', NEW s \in resets'[q].slots \ resets'[q].done
                 PROVE  Now(s) \subseteq resets'[q].lost \/ (Unfinished(q)' /\ resets'[q].slot = s)
      BY DEF LostHold, Holders
    <2>1. q = r /\ s \in SLOTS
      BY <1>2 DEF PlaneInv, TypeOK, ResetRecord
    <2>2. resets'[r].state # "completed"
      BY <2>1 DEF Open, OPEN_RESET_STATES
    <2>3. Open(r) /\ resets'[r].slots = resets[r].slots /\ resets'[r].lost = resets[r].lost
          /\ (s # slot => s \in resets[r].slots \ resets[r].done)
      BY <2>1, <2>2 DEF Finished, Keeps, Open, OPEN_RESET_STATES
    <2>4. CASE s = slot
      BY <1>3, <2>1, <2>2, <2>4 DEF Finished, Keeps
    <2>5. CASE s # slot
      BY <1>5, <2>1, <2>3, <2>5 DEF LostHold, PlacesInv
    <2> QED  BY <2>4, <2>5
  <1>14. SeatedInv'
    <2> SUFFICES ASSUME NEW e \in seated'
                 PROVE  /\ resets'[e.reset].state # "none"
                        /\ resets'[e.reset].state \in OPEN_RESET_STATES =>
                              \/ e.slot \in resets'[e.reset].done
                              \/ resets'[e.reset].state = "registered" /\ e = Entry(e.reset)'
      BY DEF SeatedInv
    <2>1. e = Entry(r) \/ (e \in seated /\ e.reset \in Resets)
      BY DEF PlaneInv, TypeOK
    <2>2. CASE e = Entry(r)
      <3>1. e.reset = r /\ e.slot = slot
        BY <2>2 DEF Entry
      <3>2. Keeps(r) => e = Entry(r)'
        BY <2>2 DEF Keeps, Entry
      <3> QED  BY <3>1, <3>2 DEF Finished, Keeps, OPEN_RESET_STATES
    <2>3. CASE e \in seated /\ e.reset = r /\ e # Entry(r)
      <3>1. e.slot \in resets[r].done
        BY <2>3 DEF SeatedInv, PlacesInv, OPEN_RESET_STATES
      <3> QED  BY <2>3, <3>1 DEF Finished, Keeps, OPEN_RESET_STATES
    <2>4. CASE e \in seated /\ e.reset \in Resets /\ e.reset # r
      <3>1. Keeps(e.reset)
        BY <2>4
      <3>2. Entry(e.reset)' = Entry(e.reset)
        BY <3>1 DEF Keeps, Entry
      <3> QED  BY <2>4, <3>1, <3>2 DEF Keeps, SeatedInv, PlacesInv
    <2> QED  BY <2>1, <2>2, <2>3, <2>4
  <1>15. FreshOut'
    <2> SUFFICES ASSUME NEW q \in Resets, Open(q)', resets'[q].state = "registered", ~Unfinished(q)'
                 PROVE  FALSE
      BY DEF FreshOut
    <2> QED  BY <1>2, <1>3
  <1> QED  BY <1>9, <1>10, <1>11, <1>12, <1>13, <1>14, <1>15 DEF PlacesInv

\* The chain takes a reset's entry, or a committed reset goes on: both keep
\* every phone in its place, and while no handler stops, both get through.
LEMMA ResetSeats ==
    ASSUME PlaneInv, PlaneInv', OneResetMoves, OwnersRemain, PlacesInv, AloneInv, NEW r \in Resets,
           Complete(r) \/ FinishCommitted(r) \/ RollReset(r)
    PROVE  PlacesInv' /\ OwnersRemain' /\ AloneInv'
  <1> DEFINE slot == resets[r].slot
             fresh == resets[r].fresh
  <1>1. resets[r].state = "registered" /\ Moves(r)
    BY StepFinishes DEF Complete, MayMove, Moves, Unfinished
  <1>2. slot \in resets[r].slots \ resets[r].done /\ slot \in SLOTS /\ fresh \in Keys
    BY <1>1 DEF PlaneInv, TypeOK, GoodReset, ResetRecord
  <1>3. Finished(r) /\ \A q \in Resets : q # r => Keeps(q)
    BY StepComplete, StepFinishes
  <1>4. /\ device' \in [SLOTS -> Phones] /\ device'[slot] = fresh
        /\ \A s \in SLOTS : s # slot => device'[s] = device[s] /\ device[s] # fresh
        /\ seated' = seated \union {Entry(r)} /\ revoked' = revoked
        /\ Holders(slot) \subseteq resets[r].lost \union {fresh}
        /\ MaxFaults # 0 => phones[fresh] \in {slot, "none"}
        /\ \E waiting : Finish(r, device', waiting) /\ (entries = {} => waiting = {})
        /\ todo' \subseteq todo
    <2>1. CASE Complete(r)
      <3>1. Open(r) /\ ~Unfinished(r) /\ ~Twin(slot, fresh)
            /\ device' = [device EXCEPT ![slot] = fresh]
            /\ seated' = seated \union {Entry(r)} /\ revoked' = revoked /\ todo' = todo
            /\ Finish(r, [device EXCEPT ![slot] = fresh], OffTip(entries))
        BY <2>1 DEF Complete, MayMove, list, process
      <3>2. Holders(slot) \subseteq resets[r].lost
        BY <1>2, <3>1 DEF LostHold, PlacesInv
      <3>3. MaxFaults # 0 => phones[fresh] = "none"
        BY <1>1, <3>1 DEF FreshOut, PlacesInv
      <3>4. entries = {} => OffTip(entries) = {}
        BY DEF OffTip
      <3>5. \A s \in SLOTS : s # slot => device[s] # fresh
        BY <3>1 DEF Twin
      <3>6. Finish(r, device', OffTip(entries))
        BY <3>1
      <3> QED  BY <1>2, <3>1, <3>2, <3>3, <3>4, <3>5, <3>6 DEF PlaneInv, TypeOK, Phones
    <2>2. CASE FinishCommitted(r) \/ RollReset(r)
      <3>1. Unfinished(r) /\ Finish(r, device, entries) /\ device' = device /\ seated' = seated
            /\ revoked' = revoked /\ todo' \subseteq todo
        BY <2>2, StepFinishes DEF FinishCommitted, RollReset, list, process
      <3>2. Entry(r) \in seated
        BY <3>1 DEF Unfinished
      <3>3. device[slot] = fresh /\ Holders(slot) \subseteq resets[r].lost \union {fresh}
        BY <3>1 DEF UnfinishedInv, PlacesInv
      <3>4. fresh # NoKey
        BY <1>2, TopPlaneAssumption
      <3>5. phones[fresh] \in {slot, "none"} /\ \A s \in SLOTS : s # slot => device[s] # fresh
        BY <1>2, <3>3, <3>4 DEF DevicesHome, PlacesInv
      <3>6. Finish(r, device', entries)
        BY <3>1
      <3> QED  BY <3>1, <3>2, <3>3, <3>5, <3>6 DEF PlaneInv, TypeOK
    <2> QED  BY <2>1, <2>2
  <1>5. PICK waiting : Finish(r, device', waiting) /\ (entries = {} => waiting = {})
    BY <1>4
  <1>6. /\ \A k \in Keys : k # fresh => phones'[k] \in {phones[k], "none"}
        /\ phones'[fresh] \in {phones[fresh], slot}
        /\ \A k \in Keys : phones'[k] = phones[k] \/ phones'[fresh] = slot
        /\ \/ Keeps(r) /\ MaxFaults # 0
           \/ /\ resets'[r].state # "registered" /\ phones'[fresh] = slot
              /\ \A k \in resets[r].lost :
                    phones[k] = slot /\ (\A s \in SLOTS : device'[s] # k) => phones'[k] = "none"
        /\ waiting = {} => entries' = {}
    <2> DEFINE dev == device'
    <2>1. dev \in [SLOTS -> Phones] /\ dev[slot] = fresh /\ Finish(r, dev, waiting)
      BY <1>4, <1>5
    <2> HIDE DEF dev
    <2>2. /\ \A k \in Keys : k # fresh => phones'[k] \in {phones[k], "none"}
          /\ phones'[fresh] \in {phones[fresh], slot}
          /\ \A k \in Keys : phones'[k] = phones[k] \/ phones'[fresh] = slot
          /\ \/ Keeps(r) /\ MaxFaults # 0
             \/ /\ resets'[r].state # "registered" /\ phones'[fresh] = slot
                /\ \A k \in resets[r].lost :
                      phones[k] = slot /\ (\A s \in SLOTS : dev[s] # k) => phones'[k] = "none"
          /\ waiting = {} => entries' = {}
      BY <1>1, <2>1, FinishPlaces
    <2> QED  BY <2>2 DEF dev
  <1>7. phones'[fresh] \in {slot, "none"}
    BY <1>4, <1>6
  <1>8. PlacesInv'
    BY <1>1, <1>3, <1>4, <1>6, <1>7, SeatPlaces
  <1>9. OwnersRemain'
    BY <1>2, <1>6 DEF OwnersRemain, Owners
  <1>10. AloneInv'
    <2>1. MaxFaults # 0 => entries' = {}
      BY <1>5, <1>6 DEF AloneInv
    <2>2. ASSUME MaxFaults = 0, NEW q \in Resets PROVE ~Unfinished(q)'
      <3>1. CASE q = r
        BY <1>6, <2>2, <3>1 DEF Unfinished
      <3>2. CASE q # r
        <4>1. Keeps(q) /\ ~Unfinished(q)
          BY <1>3, <2>2, <3>2 DEF AloneInv
        <4>2. Entry(q)' = Entry(q) /\ Entry(q) # Entry(r)
          BY <3>2, <4>1 DEF Entry, Keeps
        <4> QED  BY <1>4, <4>1, <4>2 DEF Unfinished, Keeps
      <3> QED  BY <3>1, <3>2
    <2>3. MaxFaults = 0 => todo' = {}
      BY <1>4 DEF AloneInv
    <2> QED  BY <2>1, <2>2, <2>3 DEF AloneInv
  <1> QED  BY <1>8, <1>9, <1>10

(***************************************************************************)
(* The appends of entries and acts.                                        *)
(***************************************************************************)
\* A slot gets another device, or none, while no reset is unfinished.
LEMMA DeviceChanges ==
    ASSUME PlaneInv, PlaneInv', PlacesInv, MaxFaults = 0,
           \A q \in Resets : ~Unfinished(q) /\ Keeps(q), seated' = seated, revoked' = revoked,
           NEW slot \in SLOTS, NEW key \in Phones, device' = [device EXCEPT ![slot] = key],
           key # NoKey => /\ ~Twin(slot, key)
                          /\ phones'[key] \in {slot, "none"}
                          /\ \A j \in Keys : phones'[j] = slot => j = key,
           \A k \in Keys : k # key => phones'[k] \in {phones[k], "none"},
           key # NoKey => phones'[key] \in {phones[key], "none", slot},
           key = NoKey \/ phones'[key] \in {phones[key], "none"} \/ ~InReset(slot)
    PROVE  PlacesInv'
  <1> DEFINE Now(s) == {k \in Keys : phones'[k] = s}
  <1>0. /\ \A k \in Keys : phones'[k] \in {phones[k], "none", slot}
        /\ \A k \in Keys : phones'[k] \in {phones[k], "none"} \/ (k = key /\ key # NoKey)
    BY TopPlaneAssumption
  <1>1. \A s \in SLOTS : s # slot => Now(s) \subseteq Holders(s)
    BY <1>0 DEF Holders, SLOTS
  <1>2. ASSUME NEW q \in Resets
        PROVE  ~Unfinished(q)' /\ (Open(q)' => Open(q)) /\ Entry(q)' = Entry(q)
    BY DEF Keeps, Unfinished, Open, Entry
  <1>3. (\A s : ~Busy(s)) /\ \A s : ~Busy(s)'
    BY <1>2 DEF Busy
  <1>4. device[slot] \in Phones /\ device'[slot] = key /\ \A s \in SLOTS : s # slot => device'[s] = device[s]
    BY DEF PlaneInv, TypeOK
  <1>5. OneHolder'
    <2> SUFFICES ASSUME NEW j \in Keys, NEW k \in Keys, phones'[j] \in SLOTS, phones'[j] = phones'[k]
                 PROVE  j = k
      BY DEF OneHolder
    <2>1. CASE phones'[j] # slot \/ key = NoKey
      <3>1. phones[j] = phones'[j] /\ phones[k] = phones'[k]
        BY <1>0, <2>1 DEF SLOTS
      <3> QED  BY <1>3, <3>1 DEF OneHolder, PlacesInv
    <2>2. CASE phones'[j] = slot /\ key # NoKey
      BY <2>2
    <2> QED  BY <2>1, <2>2
  <1>6. DevicesHome'
    <2>1. ASSUME NEW s \in SLOTS, device'[s] # NoKey PROVE phones'[device'[s]] \in {s, "none"}
      <3>1. CASE s = slot
        BY <1>4, <2>1, <3>1
      <3>2. CASE s # slot
        <4>1. device[s] \in Keys /\ device'[s] = device[s] /\ phones[device[s]] \in {s, "none"}
          BY <1>4, <2>1, <3>2 DEF PlaneInv, TypeOK, Phones, DevicesHome, PlacesInv
        <4>2. device[s] # key
          BY <2>1, <3>2, <4>1 DEF Twin
        <4> QED  BY <4>1, <4>2
      <3> QED  BY <3>1, <3>2
    <2>2. \A s, o \in SLOTS : device'[s] # NoKey /\ device'[o] = device'[s] => o = s
      BY <1>4 DEF DevicesHome, PlacesInv, Twin
    <2> QED  BY <2>1, <2>2 DEF DevicesHome
  <1>7. SlotFollowsChain'
    <2> SUFFICES ASSUME NEW s \in SLOTS, device'[s] # NoKey
                 PROVE  Now(s) \subseteq {device'[s]}
      BY DEF SlotFollowsChain, Holders
    <2>1. CASE s = slot
      BY <1>4, <2>1
    <2>2. CASE s # slot
      BY <1>1, <1>3, <1>4, <2>2 DEF SlotFollowsChain, PlacesInv, Busy
    <2> QED  BY <2>1, <2>2
  <1>8. UnfinishedInv'
    BY <1>2 DEF UnfinishedInv
  <1>9. LostHold'
    <2> SUFFICES ASSUME NEW q \in Resets, Open(q)', NEW s \in resets'[q].slots \ resets'[q].done
                 PROVE  Now(s) \subseteq resets'[q].lost
      BY DEF LostHold, Holders
    <2>1. Open(q) /\ s \in resets[q].slots \ resets[q].done /\ resets'[q].lost = resets[q].lost /\ s \in SLOTS
      BY <1>2 DEF Keeps, PlaneInv, TypeOK, ResetRecord
    <2>2. Holders(s) \subseteq resets[q].lost
      BY <2>1 DEF LostHold, PlacesInv
    <2>3. Now(s) \subseteq Holders(s)
      <3>1. CASE s # slot
        BY <1>1, <2>1, <3>1
      <3>2. CASE s = slot
        <4>1. InReset(slot)
          BY <2>1, <3>2 DEF InReset
        <4> QED  BY <1>0, <3>2, <4>1 DEF Holders, SLOTS
      <3> QED  BY <3>1, <3>2
    <2> QED  BY <2>1, <2>2, <2>3
  <1>10. SeatedInv'
    <2> SUFFICES ASSUME NEW e \in seated
                 PROVE  /\ resets'[e.reset].state # "none"
                        /\ resets'[e.reset].state \in OPEN_RESET_STATES =>
                              \/ e.slot \in resets'[e.reset].done
                              \/ resets'[e.reset].state = "registered" /\ e = Entry(e.reset)'
      BY DEF SeatedInv
    <2>1. e.reset \in Resets
      BY DEF PlaneInv, TypeOK
    <2> QED  BY <1>2, <2>1 DEF Keeps, SeatedInv, PlacesInv
  <1> QED  BY <1>5, <1>6, <1>7, <1>8, <1>9, <1>10 DEF PlacesInv

\* The key lands where its occupant was, in one write.
LEMMA LandPlaces ==
    ASSUME PlaneInv, PlaneInv', OwnersRemain, PlacesInv, AloneInv,
           NEW e \in entries, LandEntry(e)
    PROVE  PlacesInv' /\ OwnersRemain'
  <1>1. e \in SlotEntry /\ e.key \in Keys /\ e.slot \in SLOTS
    BY DEF PlaneInv, TypeOK, SlotEntry
  <1>2. MaxFaults = 0 /\ \A q \in Resets : ~Unfinished(q)
    BY DEF AloneInv
  <1>3. \A q \in Resets : Keeps(q)
    BY StepEntry DEF EntrySteps
  <1>4. seated' = seated /\ revoked' = revoked
    BY DEF LandEntry, list
  <1>5. CASE e.onTip /\ ~Twin(e.slot, e.key)
    <2>1. PICK lands \in BOOLEAN :
            LET gone == IF lands THEN {e.occupant} \ {NoKey} ELSE {}
            IN  /\ phones' = [k \in Keys |-> IF k \in gone THEN "none"
                                             ELSE IF lands /\ k = e.key THEN e.slot ELSE phones[k]]
                /\ Spend(~lands)
      BY <1>5 DEF LandEntry
    <2>2. lands
      BY <1>2, <2>1 DEF Spend, PlaneInv, TypeOK
    <2>3. phones[e.key] = "none" /\ ~InReset(e.slot) /\ e.occupant \in Occupants(e.slot)
          /\ device' = [device EXCEPT ![e.slot] = e.key]
      BY <1>5 DEF LandEntry, MayEnter
    <2>4. e.key # e.occupant
      BY <1>1, <2>3, TopPlaneAssumption DEF Occupants, Holders, SLOTS
    <2>5. \A j \in Keys : phones[j] = e.slot => j = e.occupant
      BY <1>1, <1>2, <2>3 DEF Occupants, Holders, OneHolder, PlacesInv, Busy
    <2>6. phones' = [k \in Keys |-> IF k \in {e.occupant} \ {NoKey} THEN "none"
                                    ELSE IF k = e.key THEN e.slot ELSE phones[k]]
      BY <2>1, <2>2
    <2>7. phones'[e.key] = e.slot /\ \A j \in Keys : phones'[j] = e.slot => j = e.key
      BY <1>1, <2>4, <2>5, <2>6, TopPlaneAssumption DEF SLOTS
    <2>8. \A k \in Keys : k # e.key => phones'[k] \in {phones[k], "none"}
      BY <2>6
    <2>9. PlacesInv'
      <3>1. e.key \in Phones
        BY <1>1 DEF Phones
      <3> QED  BY <1>1, <1>2, <1>3, <1>4, <1>5, <2>3, <2>7, <2>8, <3>1, DeviceChanges
    <2> QED  BY <1>1, <2>7, <2>9 DEF OwnersRemain, Owners
  <1>6. CASE ~ (e.onTip /\ ~Twin(e.slot, e.key))
    <2>1. phones' = phones /\ device' = device
      BY <1>6 DEF LandEntry
    <2>2. \A q \in Resets : Follows(q)
      BY <1>3, <1>4, KeptFollows
    <2> QED  BY <1>4, <2>1, <2>2, PlacesFollow DEF Shrinks, OwnersRemain, Owners
  <1> QED  BY <1>5, <1>6

\* The chain takes an act, and the registry follows.
LEMMA ApprovePlaces ==
    ASSUME PlaneInv, PlaneInv', OwnersRemain, PlacesInv, MaxFaults = 0, AloneInv, ActsInv,
           NEW a \in Acts, NEW k \in Keys, ApproveAct(a, k)
    PROVE  /\ PlacesInv' /\ OwnersRemain' /\ Shrinks
           /\ acts'[a] = NoAct
           /\ \A b \in Acts : b # a => acts'[b] = acts[b] \/ acts'[b] = [acts[b] EXCEPT !.onTip = FALSE]
  <1> DEFINE act == acts[a]
             dev == [device EXCEPT ![act.slot] = IF act.op = "add" THEN act.key ELSE NoKey]
  <1>1. \A q \in Resets : ~Unfinished(q) /\ Keeps(q)
    BY StepAct DEF ActSteps, AloneInv
  <1>2. seated' = seated /\ revoked' = revoked /\ acts \in [Acts -> Act]
    BY DEF ApproveAct, list, PlaneInv, TypeOK
  <1>3. k \in act.cards /\ k \in Owners /\ act.slot \in SLOTS /\ act.key \in Keys /\ act.op \in {"add", "remove"}
        /\ (act.op = "remove" => k # act.key)
    BY <1>2 DEF ApproveAct, ActsInv, ActInv, Act
  <1>4. CASE k \in Devices /\ ChainTakes(act)
    <2>1. device' = dev /\ FinishAct(a, dev, OffTip(entries), ActsOffTip, k)
      BY <1>4 DEF ApproveAct
    <2>2. PICK reach \in {"appended", "removed", "recorded"} :
            LET gone == IF /\ act.op = "remove" /\ reach # "appended" /\ act.key # k
                           /\ \A s \in SLOTS : dev[s] # act.key
                        THEN {act.key} \intersect Owners ELSE {}
            IN  /\ phones' = [j \in Keys |-> IF j \in gone THEN "none" ELSE phones[j]]
                /\ acts' = IF reach = "recorded"
                           THEN [ActsOffTip EXCEPT ![a] = NoAct]
                           ELSE [ActsOffTip EXCEPT ![a].chained = TRUE]
                /\ Spend(reach # "recorded")
      BY <2>1 DEF FinishAct
    <2>3. reach = "recorded"
      BY <2>2 DEF Spend, PlaneInv, TypeOK
    <2>4. acts'[a] = NoAct /\ \A b \in Acts : b # a => acts'[b] = [acts[b] EXCEPT !.onTip = FALSE]
      BY <2>2, <2>3 DEF ActsOffTip
    <2> DEFINE gone == IF /\ act.op = "remove" /\ reach # "appended" /\ act.key # k
                          /\ \A s \in SLOTS : dev[s] # act.key
                       THEN {act.key} \intersect Owners ELSE {}
    <2>5. /\ phones' = [j \in Keys |-> IF j \in gone THEN "none" ELSE phones[j]]
          /\ k \notin gone /\ (act.op = "add" => gone = {})
      BY <1>3, <2>2
    <2> HIDE DEF gone
    <2>6. Shrinks /\ phones'[k] = phones[k] /\ (act.op = "add" => \A j \in Keys : phones'[j] = phones[j])
      BY <2>5 DEF Shrinks
    <2>7. OwnersRemain'
      BY <1>3, <2>6 DEF OwnersRemain, Owners
    <2>8. CASE act.op = "add"
      <3>1. /\ ~Twin(act.slot, act.key) /\ phones[act.key] \in {act.slot, "none"}
            /\ \A j \in Keys : phones[j] = act.slot => j = act.key
        BY <1>4, <2>8 DEF ChainTakes, ActsInv, ActInv, Holders
      <3>2. act.key \in Phones /\ device' = [device EXCEPT ![act.slot] = act.key]
        BY <1>3, <2>1, <2>8 DEF Phones
      <3>3. \A j \in Keys : phones'[j] = phones[j]
        BY <2>6, <2>8
      <3>4. /\ phones'[act.key] \in {act.slot, "none"} /\ phones'[act.key] = phones[act.key]
            /\ \A j \in Keys : phones'[j] = act.slot => j = act.key
            /\ \A j \in Keys : j # act.key => phones'[j] \in {phones[j], "none"}
        BY <1>3, <3>1, <3>3
      <3>5. /\ act.key # NoKey
            /\ phones'[act.key] \in {phones[act.key], "none", act.slot}
            /\ phones'[act.key] \in {phones[act.key], "none"}
        BY <1>3, <3>4, TopPlaneAssumption
      <3> HIDE DEF act
      <3>6. PlacesInv'
        BY <1>1, <1>2, <1>3, <3>1, <3>2, <3>4, <3>5, DeviceChanges
      <3> QED  BY <2>4, <2>6, <2>7, <3>6
    <2>9. CASE act.op = "remove"
      <3>1. NoKey \in Phones /\ device' = [device EXCEPT ![act.slot] = NoKey]
        BY <2>1, <2>9 DEF Phones
      <3>2. \A j \in Keys : phones'[j] \in {phones[j], "none"}
        BY <2>6 DEF Shrinks
      <3> HIDE DEF act
      <3>3. PlacesInv'
        BY <1>1, <1>2, <1>3, <3>1, <3>2, DeviceChanges
      <3> QED  BY <2>4, <2>6, <2>7, <3>3
    <2> QED  BY <1>3, <2>8, <2>9
  <1>5. CASE ~ (k \in Devices /\ ChainTakes(act))
    <2>1. phones' = phones /\ device' = device /\ acts' = [acts EXCEPT ![a] = NoAct]
      BY <1>5 DEF ApproveAct
    <2>2. \A q \in Resets : Follows(q)
      BY <1>1, <1>2, KeptFollows
    <2>3. PlacesInv' /\ OwnersRemain' /\ Shrinks
      BY <1>2, <2>1, <2>2, PlacesFollow DEF Shrinks, OwnersRemain, Owners
    <2> QED  BY <1>2, <2>1, <2>3
  <1> QED  BY <1>4, <1>5

(***************************************************************************)
(* Every step.                                                             *)
(***************************************************************************)
LEMMA ActsAreKept ==
    ASSUME PlaneInv, NEW a \in Acts, ActInv(a),
           \/ acts'[a] = acts[a] /\ Shrinks
           \/ acts'[a] = [acts[a] EXCEPT !.onTip = FALSE]
           \/ acts'[a] = NoAct
    PROVE  ActInv(a)'
  <1>1. acts[a] \in Act
    BY DEF PlaneInv, TypeOK
  <1>2. CASE acts'[a] = acts[a] /\ Shrinks
    <2>1. acts[a].op = "add" => Holders(acts[a].slot)' \subseteq Holders(acts[a].slot)
      <3> SUFFICES ASSUME acts[a].op = "add"
                   PROVE  {k \in Keys : phones'[k] = acts[a].slot} \subseteq Holders(acts[a].slot)
        BY <1>2 DEF Holders
      <3> QED  BY <1>2 DEF Holders, Shrinks, SLOTS, ActInv
    <2>2. acts[a].op = "add" => phones'[acts[a].key] \in {phones[acts[a].key], "none"}
      BY <1>2 DEF Shrinks, ActInv
    <2> QED  BY <1>2, <2>1, <2>2 DEF ActInv, Holders
  <1>3. CASE acts'[a] = [acts[a] EXCEPT !.onTip = FALSE]
    BY <1>1, <1>3 DEF ActInv, Act
  <1>4. CASE acts'[a] = NoAct
    BY <1>4 DEF ActInv, NoAct
  <1> QED  BY <1>2, <1>3, <1>4

\* A step that leaves chain and devices alone and at most removes phones.
LEMMA QuietStep ==
    ASSUME PlaneInv, PlaneInv', PlacesInv, AloneInv, ActsInv,
           UNCHANGED <<device, seated>>, Shrinks, \A q \in Resets : Follows(q), OwnersRemain',
           MaxFaults = 0 => todo' = {}, MaxFaults # 0 => entries' = {},
           \A a \in Acts : acts'[a] = acts[a] \/ ActInv(a)'
    PROVE  PlacesInv' /\ OwnersRemain' /\ AloneInv' /\ ActsInv'
  <1>1. PlacesInv'
    BY PlacesFollow
  <1>2. AloneInv'
    BY DEF AloneInv, Follows
  <1>3. ActsInv'
    BY ActsAreKept DEF ActsInv
  <1> QED  BY <1>1, <1>2, <1>3

LEMMA PlacesStep ==
    ASSUME PlaneAlone, StepInv, [Next]_vars
    PROVE  PlacesInv' /\ OwnersRemain' /\ AloneInv' /\ ActsInv'
  <1> USE DEF StepInv, MoveInv
  <1>1. PlaneInv' /\ revoked \subseteq revoked' /\ RevocationsSaved
    BY AloneSavesRevocations, PlaneStep, ListStep
  <1> DEFINE Goal == PlacesInv' /\ OwnersRemain' /\ AloneInv' /\ ActsInv'
  <1>2. ASSUME UNCHANGED <<phones, device, seated, acts, process>>, \A q \in Resets : Follows(q),
               MaxFaults # 0 => entries' = {}
        PROVE  Goal
    <2>1. Shrinks /\ OwnersRemain' /\ (MaxFaults = 0 => todo' = {})
      BY <1>2 DEF Shrinks, OwnersRemain, Owners, process, AloneInv
    <2> QED  BY <1>1, <1>2, <2>1, QuietStep
  <1>3. ASSUME NEW r \in Resets, Complete(r) \/ FinishCommitted(r) \/ RollReset(r) PROVE Goal
    <2>1. PlacesInv' /\ OwnersRemain' /\ AloneInv'
      BY <1>1, <1>3, ResetSeats
    <2>2. ActsInv'
      <3>1. CASE Complete(r)
        <4>1. \A a \in Acts : acts'[a] = [acts[a] EXCEPT !.onTip = FALSE]
          BY <3>1 DEF Complete, ActsOffTip
        <4> QED  BY <4>1, ActsAreKept DEF ActsInv
      <3>2. CASE FinishCommitted(r) \/ RollReset(r)
        <4>1. MaxFaults # 0
          BY <3>2, StepFinishes DEF AloneInv
        <4> QED  BY <4>1 DEF PlaneAlone, ActsInv
      <3> QED  BY <1>3, <3>1, <3>2
    <2> QED  BY <2>1, <2>2
  <1>4. ASSUME NEW r \in Resets, ResetSteps(r) PROVE Goal
    <2>1. CASE Complete(r) \/ FinishCommitted(r)
      BY <1>3, <2>1
    <2>2. CASE ~Complete(r) /\ ~FinishCommitted(r)
      <3>1. \A q \in Resets : Follows(q)
        BY <1>1, <1>4, <2>2, StartFollows, RecordFollows
      <3>2. UNCHANGED <<phones, device, seated, acts, entries, process>>
        BY <1>4, <2>2 DEF ResetSteps, StartReset, WindowPasses, GracePasses, Arm, Redeem, CodeEnds,
                          ChallengeLapses, RegisterFresh, Cancel, Abort
      <3> QED  BY <1>2, <3>1, <3>2 DEF AloneInv
    <2> QED  BY <2>1, <2>2
  <1>5. CASE EntrySteps
    <2>1. \A q \in Resets : Keeps(q)
      BY <1>5, StepEntry
    <2>2. MaxFaults = 0
      <3> SUFFICES ASSUME MaxFaults # 0 PROVE FALSE
        OBVIOUS
      <3>1. entries = {} /\ Cardinality(entries) = 0 /\ MaxEntries = 0
        BY FS_EmptySet DEF AloneInv, PlaneAlone
      <3> QED  BY <1>5, <3>1 DEF EntrySteps, AskEntry
    <2>3. ASSUME NEW e \in entries, LandEntry(e) PROVE Goal
      <3>1. PlacesInv' /\ OwnersRemain'
        BY <1>1, <2>3, LandPlaces
      <3>2. AloneInv'
        BY <2>1, <2>2, <2>3 DEF LandEntry, AloneInv, process, Unfinished, Entry, Keeps
      <3>3. ActsInv'
        <4>1. CASE e.onTip /\ ~Twin(e.slot, e.key)
          <5>1. \A a \in Acts : acts'[a] = [acts[a] EXCEPT !.onTip = FALSE]
            BY <2>3, <4>1 DEF LandEntry, ActsOffTip
          <5> QED  BY <5>1, ActsAreKept DEF ActsInv
        <4>2. CASE ~ (e.onTip /\ ~Twin(e.slot, e.key))
          <5>1. acts' = acts /\ Shrinks
            BY <2>3, <4>2 DEF LandEntry, Shrinks
          <5> QED  BY <5>1, ActsAreKept DEF ActsInv
        <4> QED  BY <4>1, <4>2
      <3> QED  BY <3>1, <3>2, <3>3
    <2>4. ASSUME UNCHANGED <<phones, device, seated, acts, process, list>> PROVE Goal
      <3>1. \A q \in Resets : Follows(q)
        BY <2>1, <2>4, KeptFollows DEF list
      <3> QED  BY <1>2, <2>2, <2>4, <3>1
    <2> QED  BY <1>5, <2>3, <2>4 DEF EntrySteps, AskEntry, ApproveEntry, SignEntry, EntryLapses
  <1>6. ASSUME NEW a \in Acts, ActSteps(a) PROVE Goal
    <2>1. MaxFaults = 0 /\ \A q \in Resets : Keeps(q)
      BY <1>6, StepAct DEF PlaneAlone
    <2>2. UNCHANGED <<seated, list, process>>
      BY <1>6 DEF ActSteps, OpenAct, ApproveAct, ReapproveAct, ActLapses
    <2>3. \A q \in Resets : Follows(q)
      BY <2>1, <2>2, KeptFollows DEF list
    <2>4. ASSUME NEW op \in ActOps, NEW s \in SLOTS, NEW k \in Keys, OpenAct(a, op, s, k) PROVE Goal
      <3>1. UNCHANGED <<phones, device>> /\ \A b \in Acts : b # a => acts'[b] = acts[b]
        BY <2>4 DEF OpenAct, PlaneInv, TypeOK
      <3> DEFINE cards == IF op = "remove" THEN DevicePhones \ {k} ELSE DevicePhones
      <3>2. /\ acts'[a] = [op |-> op, slot |-> s, key |-> k, cards |-> cards,
                           onTip |-> TRUE, chained |-> FALSE]
            /\ op = "remove" => k \notin cards
            /\ op = "add" => phones[k] = s
            /\ op # "none"
        BY <2>4, TopPlaneAssumption DEF OpenAct, PlaneInv, TypeOK
      <3> HIDE DEF cards
      <3>3. op = "add" => Holders(s) \subseteq {k}
        BY <2>1, <3>2 DEF Holders, OneHolder, PlacesInv, Busy, AloneInv
      <3>4. ActInv(a)'
        <4>1. op = "add" => Holders(s)' \subseteq {k}
          BY <3>1, <3>3 DEF Holders
        <4> QED  BY <3>1, <3>2, <4>1 DEF ActInv, Holders
      <3>5. Shrinks /\ OwnersRemain'
        BY <3>1 DEF Shrinks, OwnersRemain, Owners
      <3>6. todo' = {}
        BY <2>1, <2>2 DEF process, AloneInv
      <3> QED  BY <1>1, <2>1, <2>2, <2>3, <3>1, <3>4, <3>5, <3>6, QuietStep
    <2>5. ASSUME NEW k \in Keys, ApproveAct(a, k) PROVE Goal
      <3>1. PlacesInv' /\ OwnersRemain'
        BY <1>1, <2>1, <2>5, ApprovePlaces
      <3>2. ActsInv'
        BY <1>1, <2>1, <2>5, ApprovePlaces, ActsAreKept DEF ActsInv
      <3>3. AloneInv'
        BY <2>1, <2>2, <2>3 DEF AloneInv, Follows, process
      <3> QED  BY <3>1, <3>2, <3>3
    <2>6. ASSUME NEW k \in Keys, ReapproveAct(a, k) PROVE Goal
      BY <2>6 DEF ReapproveAct, ActsInv, ActInv
    <2>7. CASE ActLapses(a)
      <3>1. UNCHANGED <<phones, device>> /\ acts'[a] = NoAct /\ \A b \in Acts : b # a => acts'[b] = acts[b]
        BY <2>7 DEF ActLapses, ActsInv, ActInv, PlaneInv, TypeOK
      <3>2. ActInv(a)'
        BY <3>1, ActsAreKept DEF ActsInv
      <3>3. Shrinks /\ OwnersRemain' /\ todo' = {}
        BY <2>1, <2>2, <3>1 DEF Shrinks, OwnersRemain, Owners, process, AloneInv
      <3> QED  BY <1>1, <2>1, <2>2, <2>3, <3>1, <3>2, <3>3, QuietStep
    <2> QED  BY <1>6, <2>4, <2>5, <2>6, <2>7 DEF ActSteps
  <1>7. ASSUME NEW k \in Keys, NEW t \in Keys, Revoke(k, t) PROVE Goal
    <2>1. /\ phones' = [phones EXCEPT ![t] = "none"] /\ entries' = Voided(entries, {t})
          /\ UNCHANGED <<device, seated, list, acts, process>> /\ ~LastOwner(t)
      BY <1>7 DEF Revoke
    <2>2. Shrinks /\ OwnersRemain'
      BY <2>1 DEF Shrinks, OwnersRemain, Owners, LastOwner, PlaneInv, TypeOK
    <2>3. \A q \in Resets : Follows(q)
      BY <1>7, <2>1, StepRevoke, KeptFollows DEF list
    <2>4. (MaxFaults = 0 => todo' = {}) /\ (MaxFaults # 0 => entries' = {})
      BY <2>1 DEF AloneInv, process, Voided
    <2> QED  BY <1>1, <2>1, <2>2, <2>3, <2>4, QuietStep
  <1>8. CASE Start \/ Serve
    <2>1. UNCHANGED <<phones, device, seated, revoked, acts, entries>>
      BY <1>8 DEF Start, Serve, list
    <2>2. ASSUME NEW q \in Resets PROVE Follows(q)
      <3>1. Open(q)' => Open(q)
        BY <1>8, <2>1, StepStartsAndServes DEF Open
      <3> QED  BY <1>8, <2>1, <3>1, StepStartsAndServes, SameFollows
    <2>3. MaxFaults = 0 => todo' = {}
      BY <1>8 DEF Start, Serve, RollForward, AloneInv, ActsInv, ActInv
    <2>4. Shrinks /\ OwnersRemain' /\ (MaxFaults # 0 => entries' = {})
      BY <2>1 DEF Shrinks, OwnersRemain, Owners, AloneInv
    <2> QED  BY <1>1, <2>1, <2>2, <2>3, <2>4, QuietStep
  <1>9. ASSUME NEW a \in Acts, RollAct(a) PROVE Goal
    BY <1>9 DEF RollAct, PlaneAlone, AloneInv
  <1>10. CASE Stop
    <2>1. UNCHANGED <<phones, device, seated, acts>> /\ todo' = {} /\ entries' = {}
      BY <1>10 DEF Stop
    <2>2. \A q \in Resets : Follows(q)
      BY <1>1, <1>10, <2>1, StepStop, KeptFollows
    <2>3. Shrinks /\ OwnersRemain'
      BY <2>1 DEF Shrinks, OwnersRemain, Owners
    <2> QED  BY <1>1, <2>1, <2>2, <2>3, QuietStep
  <1>11. CASE UNCHANGED vars
    <2>1. \A q \in Resets : Follows(q)
      BY <1>11, KeptFollows DEF vars, list, Keeps
    <2> QED  BY <1>2, <1>11, <2>1 DEF vars, AloneInv
  <1> QED  BY <1>3, <1>4, <1>5, <1>6, <1>7, <1>8, <1>9, <1>10, <1>11 DEF Next, StartSteps

LEMMA PlacesInit == Init => OwnersRemain /\ PlacesInv /\ AloneInv /\ ActsInv
  <1> SUFFICES ASSUME Init PROVE OwnersRemain /\ PlacesInv /\ AloneInv /\ ActsInv
    OBVIOUS
  <1>1. /\ phones \in [Keys -> SLOTS \union {"none"}] /\ device \in [SLOTS -> Phones]
        /\ \A j, k \in Keys : phones[j] \in SLOTS /\ phones[j] = phones[k] => j = k
        /\ \A s \in SLOTS : device[s] # NoKey => phones[device[s]] = s
        /\ \E s \in SLOTS : device[s] # NoKey
        /\ seated = {} /\ entries = {} /\ todo = {}
    BY DEF Init
  <1>2. \A s \in SLOTS : device[s] # NoKey => device[s] \in Keys
    BY <1>1 DEF Phones
  <1>3. \A r \in Resets : ~Open(r) /\ ~Unfinished(r)
    BY DEF Init, NoReset, Open, Unfinished, OPEN_RESET_STATES
  <1>4. OwnersRemain
    BY <1>1, <1>2 DEF OwnersRemain, Owners
  <1>5. OneHolder /\ DevicesHome /\ UnfinishedInv /\ LostHold /\ SeatedInv /\ FreshOut
    BY <1>1, <1>3 DEF OneHolder, DevicesHome, UnfinishedInv, LostHold, SeatedInv, FreshOut
  <1>6. SlotFollowsChain
    BY <1>1, <1>2 DEF SlotFollowsChain, Holders
  <1>7. ActsInv
    BY DEF Init, NoAct, ActsInv, ActInv
  <1> QED  BY <1>1, <1>3, <1>4, <1>5, <1>6, <1>7 DEF PlacesInv, AloneInv

THEOREM StepInvariant == ASSUME PlaneAlone PROVE Spec => []StepInv
  <1>1. Init => OwnersRemain /\ PlacesInv /\ AloneInv /\ ActsInv
    BY PlacesInit
  <1>2. StepInv /\ [Next]_vars => (OwnersRemain /\ PlacesInv /\ AloneInv /\ ActsInv)'
    BY PlacesStep
  <1>3. Spec => []MoveInv
    BY AloneSavesRevocations, MoveInvariant
  <1>4. StepInv <=> MoveInv /\ (OwnersRemain /\ PlacesInv /\ AloneInv /\ ActsInv)
    BY DEF StepInv
  <1> HIDE DEF StepInv
  <1> QED  BY <1>1, <1>2, <1>3, <1>4, PTL DEF Spec

\* The registry never loses its last owner, and no slot of a sealed device holds
\* another phone, while no handler stops half way, or whatever stops when resets
\* alone change the plane (finish_reset_seat, _handle_register, finish_act).
THEOREM RegistryKeepsStep == ASSUME PlaneAlone PROVE Spec => []RegistryInStep
  <1>1. StepInv => RegistryInStep
    BY DEF StepInv, PlacesInv, RegistryInStep
  <1> QED  BY <1>1, StepInvariant, PTL
===============================================================================
