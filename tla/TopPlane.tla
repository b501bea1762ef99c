------------------------------- MODULE TopPlane -------------------------------
(***************************************************************************)
(* A bootloader whose id is sealed: the slot entries, the device acts and  *)
(* the owner reset, and the two records they keep in step, the chain's     *)
(* device members and the registry's owner phones (server.py, top_plane.py, *)
(* on the file backend, the only one with a genesis chain).                *)
(*                                                                         *)
(* Of the chain this module keeps what its replay says: the device of each *)
(* slot, and the evidence of the reset entries.  Any append moves the tip, *)
(* and every draft made before it is off the tip.  The passphrase signs    *)
(* what the host asks of it.                                               *)
(*                                                                         *)
(* A handler runs under the registry lock and writes several times, so it  *)
(* is one step that may stop after any of its writes: a write failed or,   *)
(* with Stop next, the process died.  Lives are not counted in seconds: a  *)
(* code, a challenge, a card, a window or a grace lasts until it lapses.   *)
(***************************************************************************)
EXTENDS Integers, FiniteSets

CONSTANTS
    Keys,         \* the identity keys of the owner phones and of fresh devices
    NoKey,        \* no phone, no device
    Resets,       \* the intent ids of the owner resets
    Acts,         \* names of the device acts open at once
    ActOps,       \* the kinds of act a run opens: "add", "remove"
    MaxEntries,   \* bound on the slot entries waiting at once
    MaxFaults,    \* bound on the handlers stopped between two writes
    ListWrites    \* FALSE: the write of revocations.json may fail

VARIABLES
    phones,    \* the slot each key's registration holds, or "none"
    device,    \* the chain's device member of each slot
    seated,    \* the chain's reset entries
    resets,    \* the reset records of top_plane.json
    revoked,   \* the intents on the revocation list
    unsaved,   \* those of them that revocations.json does not have
    acts,      \* the act records of top_plane.json
    entries,   \* the slot entries waiting for approval, passphrase and landing
    up,        \* "down", "starting" or "serving"
    todo,      \* what a start has still to roll forward
    faults     \* the handlers stopped between two writes so far

process == <<up, todo>>
list == <<revoked, unsaved>>
vars == <<phones, device, seated, resets, list, acts, entries, process, faults>>

SLOTS == {"primary", "recovery"}
OPEN_RESET_STATES == {"waiting", "armed", "registered"}

ASSUME TopPlaneAssumption ==
    /\ NoKey \notin Keys
    /\ Resets \intersect Acts = {}
    /\ ActOps \subseteq {"add", "remove"}
    /\ MaxEntries \in Nat
    /\ MaxFaults \in Nat
    /\ ListWrites \in BOOLEAN

(***************************************************************************)
(* The registry and the chain.                                             *)
(***************************************************************************)
Owners == {k \in Keys : phones[k] \in SLOTS}
Holders(slot) == {k \in Keys : phones[k] = slot}
Devices == {device[s] : s \in SLOTS} \ {NoKey}
DevicePhones == Owners \intersect Devices

LastOwner(key) == Owners \subseteq {key}

\* The phone an incoming key claims to replace; a slot can hold two.
Occupants(slot) == IF Holders(slot) = {} THEN {NoKey} ELSE Holders(slot)

\* Who may approve an entry: every sealed device it does not displace, and a
\* sealed occupant when there is no other.
Approvers(occupant) ==
    LET others == DevicePhones \ {occupant}
    IN  IF others = {} THEN DevicePhones \intersect {occupant} ELSE others

\* No key is the device of two slots.
Twin(slot, key) == \E s \in SLOTS \ {slot} : device[s] = key

(***************************************************************************)
(* The reset records.                                                      *)
(***************************************************************************)
NoReset ==
    [state |-> "none", slots |-> {}, lost |-> {}, done |-> {}, slot |-> "none",
     fresh |-> NoKey, cards |-> {}, queued |-> {}, time |-> "early",
     code |-> FALSE, held |-> FALSE, challenge |-> FALSE]

\* A closed record: what it held is read by nobody, and left out.
Closed(state) == [NoReset EXCEPT !.state = state]

\* Mutant: the revocation list is not read.
OpenByState(r) == resets[r].state \in OPEN_RESET_STATES /\ resets[r].time # "over"

\* reset_is_open: an open state, not revoked, inside its grace.
Open(r) ==
    /\ resets[r].state \in OPEN_RESET_STATES
    /\ r \notin revoked
    /\ resets[r].time # "over"

Entry(r) == [reset |-> r, slot |-> resets[r].slot, key |-> resets[r].fresh]

\* A reset whose entry is on the chain and whose registry work is not done.
Unfinished(r) == resets[r].state = "registered" /\ Entry(r) \in seated

\* _open_reset: the reset may be armed, or completed.
MayMove(r, states) ==
    /\ Open(r)
    /\ resets[r].state \in states
    /\ resets[r].time = "due"

\* Mutant: a slot the reset has already seated is armed again.
ArmSlotsAny(r) == resets[r].slots
ArmSlots(r) == resets[r].slots \ resets[r].done

\* Mutant: a committed reset that passed its grace does not hold off a new one.
StartBlockedByOpen == \E r \in Resets : Open(r)
StartBlocked == \E r \in Resets : Open(r) \/ Unfinished(r)

\* Mutant: a slot entry lands beside an open reset of its slot.
InResetNever(slot) == FALSE
InReset(slot) == \E r \in Resets : Open(r) /\ slot \in resets[r].slots

\* The sets of phones a reset of these slots may name lost.
LostSets(slots) ==
    LET held == UNION {Holders(s) : s \in slots}
    IN  (IF slots = SLOTS THEN {held} ELSE SUBSET held) \ {{}}

\* Mutant: the phones named lost get no card back.
CardedWithoutLost(r) == Owners \ resets[r].lost
\* Who is carded again at a start: every owner registered now.
Carded(r) == Owners

(***************************************************************************)
(* The registry work behind a reset's entry, as far as it reaches.         *)
(***************************************************************************)
Reaches == {"appended", "seated", "removed", "recorded"}

Spend(short) == faults' = (IF short THEN faults + 1 ELSE faults) /\ faults' <= MaxFaults

\* Mutant: the fresh device is registered after the lost phones left.
SeatedReachLast(reach) == reach = "recorded"
SeatedReach(reach) == reach # "appended"

\* The fresh device takes the slot first, while the chain still says so.
Seats(r, dev, reach) ==
    IF SeatedReach(reach) /\ dev[resets[r].slot] = resets[r].fresh THEN {resets[r].fresh} ELSE {}

\* Then the phones named lost in the slot leave, unless they are devices again.
Leavers(r, dev, reach) ==
    IF reach \in {"removed", "recorded"}
    THEN {k \in resets[r].lost : phones[k] = resets[r].slot /\ \A s \in SLOTS : dev[s] # k}
    ELSE {}

\* The record is done, or waits for its other slot, whose grace may be over.
Recorded(r, time) ==
    LET rec == resets[r]
        done == rec.done \union {rec.slot}
    IN  IF rec.slots \subseteq done
        THEN Closed("completed")
        ELSE [rec EXCEPT !.state = "waiting", !.slot = "none", !.done = done,
                         !.fresh = NoKey, !.held = FALSE, !.time = time]

\* An approval a removed phone gave, and a request that names it, die with it;
\* so do its cards.
Voided(waiting, gone) == {e \in waiting : {e.by, e.occupant} \intersect gone = {}}
Uncarded(gone) == [r \in Resets |-> [resets[r] EXCEPT !.queued = @ \ gone]]

\* An append: every draft made before it is off the tip.
OffTip(waiting) == {[e EXCEPT !.onTip = FALSE] : e \in waiting}
ActsOffTip == [a \in Acts |-> [acts[a] EXCEPT !.onTip = FALSE]]

\* finish_reset_seat, over the chain's devices and the entries then waiting.
Finish(r, dev, waiting) ==
    \E reach \in Reaches, time \in {"due", "over"} :
        LET slot == resets[r].slot
            gone == Leavers(r, dev, reach)
        IN  /\ resets[r].time = "over" => time = "over"
            /\ phones' = [k \in Keys |-> IF k \in Seats(r, dev, reach) THEN slot
                                         ELSE IF k \in gone THEN "none" ELSE phones[k]]
            /\ entries' = Voided(waiting, gone)
            /\ resets' = IF reach = "recorded"
                         THEN [Uncarded(gone) EXCEPT ![r] = Recorded(r, time)]
                         ELSE Uncarded(gone)
            /\ Spend(reach # "recorded")

(***************************************************************************)
(* Types and the initial states.                                           *)
(***************************************************************************)
Phones == Keys \union {NoKey}
ResetRecord ==
    [state : {"none", "waiting", "armed", "registered", "completed", "cancelled", "aborted"},
     slots : SUBSET SLOTS, lost : SUBSET Keys, done : SUBSET SLOTS, slot : SLOTS \union {"none"},
     fresh : Phones, cards : SUBSET Keys, queued : SUBSET Keys, time : {"early", "due", "over"},
     code : BOOLEAN, held : BOOLEAN, challenge : BOOLEAN]
Act == [op : {"none", "add", "remove"}, slot : SLOTS \union {"none"}, key : Phones,
        cards : SUBSET Keys, onTip : BOOLEAN, chained : BOOLEAN]
SlotEntry == [key : Keys, slot : SLOTS, occupant : Phones, cards : SUBSET Keys,
              by : Phones, signed : BOOLEAN, onTip : BOOLEAN]
NoAct == [op |-> "none", slot |-> "none", key |-> NoKey, cards |-> {}, onTip |-> FALSE,
          chained |-> FALSE]

\* Every variable keeps its type, a record is armed or registered for a slot of
\* its own that it has not seated, and only a stopped process has work to start.
TypeOK ==
    /\ phones \in [Keys -> SLOTS \union {"none"}]
    /\ device \in [SLOTS -> Phones]
    /\ seated \subseteq [reset : Resets, slot : SLOTS, key : Keys]
    /\ resets \in [Resets -> ResetRecord]
    /\ revoked \subseteq Resets /\ unsaved \subseteq revoked
    /\ acts \in [Acts -> Act]
    /\ entries \subseteq SlotEntry
    /\ up \in {"down", "starting", "serving"}
    /\ todo \subseteq Resets \union Acts
    /\ faults \in 0 .. MaxFaults
    /\ todo # {} => up = "starting"
    /\ \A r \in Resets :
          resets[r].state \in {"armed", "registered"} => resets[r].slot \in resets[r].slots \ resets[r].done

\* A sealed bootloader: an owner in a slot or in both, and the sealed devices
\* are some of them.
Init ==
    /\ phones \in {f \in [Keys -> SLOTS \union {"none"}] :
                       \A j, k \in Keys : f[j] \in SLOTS /\ f[j] = f[k] => j = k}
    /\ device \in {d \in [SLOTS -> Phones] :
                       /\ \A s \in SLOTS : d[s] # NoKey => phones[d[s]] = s
                       /\ \E s \in SLOTS : d[s] # NoKey}
    /\ seated = {}
    /\ resets = [r \in Resets |-> NoReset]
    /\ revoked = {} /\ unsaved = {}
    /\ acts = [a \in Acts |-> NoAct]
    /\ entries = {}
    /\ up = "down"
    /\ todo = {}
    /\ faults = 0

Serving == up = "serving"

(***************************************************************************)
(* The owner reset.                                                        *)
(***************************************************************************)
\* The passphrase starts it; every owner phone, the lost ones too, gets the
\* card that cancels it.
StartReset(r, slots, lost) ==
    /\ Serving /\ resets[r].state = "none" /\ r \notin revoked
    /\ ~StartBlocked
    /\ lost \in LostSets(slots)
    /\ resets' = [resets EXCEPT ![r] = [NoReset EXCEPT
                     !.state = "waiting", !.slots = slots, !.lost = lost,
                     !.cards = Owners, !.queued = Owners]]
    /\ UNCHANGED <<phones, device, seated, list, acts, entries, process, faults>>

\* not_before passes, and with it the cards' life.
WindowPasses(r) ==
    /\ resets[r].state = "waiting" /\ resets[r].time = "early"
    /\ resets' = [resets EXCEPT ![r].time = "due", ![r].queued = {}]
    /\ UNCHANGED <<phones, device, seated, list, acts, entries, process, faults>>

\* The grace passes: a day after not_before, or after a registered one's code.
GracePasses(r) ==
    /\ resets[r].state \in OPEN_RESET_STATES /\ resets[r].time = "due"
    /\ resets' = [resets EXCEPT ![r].time = "over"]
    /\ UNCHANGED <<phones, device, seated, list, acts, entries, process, faults>>

\* A reset is closed by three writes: its cards are taken, its intent goes on
\* the revocation list, its record says so.  The list takes an intent in memory
\* first and writes its file after, unless it has the intent already.
Closings == {"taken", "listed", "revoked", "recorded"}
AddRevocation(r, reach) ==
    /\ reach = "listed" => ~ListWrites /\ r \notin revoked
    /\ revoked' = (IF reach = "taken" THEN revoked ELSE revoked \union {r})
    /\ unsaved' = CASE reach = "listed" -> unsaved \union {r}
                     [] reach \in {"revoked", "recorded"} /\ r \notin revoked -> {}
                     [] OTHER -> unsaved

\* An owner phone answers its card by the card's recorded id, queued or not.
Cancel(r, k) ==
    /\ Serving /\ resets[r].state = "waiting"
    /\ k \in resets[r].cards /\ k \in Owners
    /\ \E reach \in Closings :
          /\ AddRevocation(r, reach)
          /\ resets' = [resets EXCEPT ![r] =
                IF reach = "recorded" THEN Closed("cancelled") ELSE [@ EXCEPT !.queued = {}]]
          /\ Spend(reach # "recorded")
    /\ UNCHANGED <<phones, device, seated, acts, entries, process>>

\* The host arms a slot with a code; a code still held is never replaced.
Arm(r, slot) ==
    /\ Serving /\ MayMove(r, {"waiting", "armed"})
    /\ slot \in ArmSlots(r)
    /\ ~resets[r].held
    /\ resets' = [resets EXCEPT ![r] = [@ EXCEPT
                     !.state = "armed", !.slot = slot, !.queued = {}, !.fresh = NoKey,
                     !.code = TRUE, !.held = TRUE, !.challenge = FALSE]]
    /\ UNCHANGED <<phones, device, seated, list, acts, entries, process, faults>>

\* The code buys the one challenge, and is held until it would have lapsed.
Redeem(r) ==
    /\ Serving /\ resets[r].state = "armed" /\ resets[r].code /\ Open(r)
    /\ resets' = [resets EXCEPT ![r].code = FALSE, ![r].challenge = TRUE]
    /\ UNCHANGED <<phones, device, seated, list, acts, entries, process, faults>>

\* A code lapses, or five wrong ones burn it.
CodeEnds(r) ==
    /\ resets[r].state = "armed" /\ resets[r].held
    /\ resets' = [resets EXCEPT ![r].code = FALSE, ![r].held = FALSE]
    /\ UNCHANGED <<phones, device, seated, list, acts, entries, process, faults>>

ChallengeLapses(r) ==
    /\ resets[r].state = "armed" /\ resets[r].challenge
    /\ resets' = [resets EXCEPT ![r].challenge = FALSE]
    /\ UNCHANGED <<phones, device, seated, list, acts, entries, process, faults>>

\* A fresh device answers the challenge; nothing about it is live yet.
RegisterFresh(r, k) ==
    /\ Serving /\ resets[r].state = "armed" /\ resets[r].challenge /\ Open(r)
    /\ phones[k] = "none" /\ k \notin Devices
    /\ resets' = [resets EXCEPT ![r].state = "registered", ![r].fresh = k, ![r].challenge = FALSE]
    /\ UNCHANGED <<phones, device, seated, list, acts, entries, process, faults>>

\* The passphrase signs the entry, the chain takes it, the registry follows.
Complete(r) ==
    LET slot == resets[r].slot
        fresh == resets[r].fresh
        dev == [device EXCEPT ![slot] = fresh]
    IN  /\ Serving /\ ~Unfinished(r) /\ MayMove(r, {"registered"})
        /\ ~Twin(slot, fresh)
        /\ device' = dev
        /\ seated' = seated \union {Entry(r)}
        /\ acts' = ActsOffTip
        /\ Finish(r, dev, OffTip(entries))
        /\ UNCHANGED <<list, process>>

\* A repeat --complete, or an abort, of a committed reset finishes it.
FinishCommitted(r) ==
    /\ Serving /\ Unfinished(r)
    /\ Finish(r, device, entries)
    /\ UNCHANGED <<device, seated, list, acts, process>>

\* The host aborts a reset that is not committed, in any open state.
Abort(r) ==
    /\ Serving /\ resets[r].state \in OPEN_RESET_STATES /\ ~Unfinished(r)
    /\ \E reach \in Closings :
          /\ AddRevocation(r, reach)
          /\ resets' = [resets EXCEPT ![r] =
                IF reach = "recorded" THEN Closed("aborted") ELSE [@ EXCEPT !.queued = {}]]
          /\ Spend(reach # "recorded")
    /\ UNCHANGED <<phones, device, seated, acts, entries, process>>

(***************************************************************************)
(* The slot entries: an owner's approval, the passphrase, the landing.     *)
(***************************************************************************)
\* A key that holds nothing, and is not seated by a committed reset, asks.
MayEnter(key, slot) ==
    /\ Serving /\ phones[key] = "none"
    /\ ~ \E r \in Resets : Unfinished(r) /\ resets[r].fresh = key
    /\ ~InReset(slot)

\* A rival's request in the same slot refuses both: it is let lapse here.
AskEntry(key, slot, occupant) ==
    /\ MayEnter(key, slot)
    /\ occupant \in Occupants(slot) /\ Approvers(occupant) # {}
    /\ Cardinality(entries) < MaxEntries
    /\ ~ \E e \in entries : e.slot = slot
    /\ entries' = entries \union
          {[key |-> key, slot |-> slot, occupant |-> occupant, cards |-> Approvers(occupant),
            by |-> NoKey, signed |-> FALSE, onTip |-> TRUE]}
    /\ UNCHANGED <<phones, device, seated, resets, list, acts, process, faults>>

\* An approver answers its card; an occupant that changed closes the request.
ApproveEntry(e, k) ==
    /\ Serving /\ e.by = NoKey /\ k \in e.cards /\ k \in Owners
    /\ entries' = (entries \ {e}) \union
          (IF e.occupant \in Holders(e.slot) \union {NoKey} THEN {[e EXCEPT !.by = k]} ELSE {})
    /\ UNCHANGED <<phones, device, seated, resets, list, acts, process, faults>>

\* The passphrase's leg, over a draft that sits on the chain's tip.
SignEntry(e) ==
    /\ Serving /\ ~e.signed /\ e.onTip
    /\ entries' = (entries \ {e}) \union {[e EXCEPT !.signed = TRUE]}
    /\ UNCHANGED <<phones, device, seated, resets, list, acts, process, faults>>

EntryLapses(e) ==
    /\ entries' = entries \ {e}
    /\ UNCHANGED <<phones, device, seated, resets, list, acts, process, faults>>

\* The approval is used up, the entry appended, and the registry follows: the
\* occupant goes and the key lands in one write.  An entry the chain refuses
\* is only used up.
LandEntry(e) ==
    /\ MayEnter(e.key, e.slot)
    /\ e.occupant \in Occupants(e.slot) /\ e.by \in Approvers(e.occupant) /\ e.signed
    /\ IF e.onTip /\ ~Twin(e.slot, e.key)
       THEN /\ device' = [device EXCEPT ![e.slot] = e.key]
            /\ acts' = ActsOffTip
            /\ \E lands \in BOOLEAN :
                  LET gone == IF lands THEN {e.occupant} \ {NoKey} ELSE {}
                  IN  /\ phones' = [k \in Keys |-> IF k \in gone THEN "none"
                                                   ELSE IF lands /\ k = e.key THEN e.slot ELSE phones[k]]
                      /\ entries' = Voided(OffTip(entries \ {e}), gone)
                      /\ resets' = Uncarded(gone)
                      /\ Spend(~lands)
       ELSE /\ entries' = entries \ {e}
            /\ UNCHANGED <<phones, device, resets, acts, faults>>
    /\ UNCHANGED <<seated, list, process>>

(***************************************************************************)
(* The device acts: a registered owner phone is sealed as its slot's        *)
(* device, or a sealed device is removed.                                  *)
(***************************************************************************)
OpenAct(a, op, slot, key) ==
    /\ Serving /\ acts[a] = NoAct
    /\ \/ op = "add" /\ phones[key] = slot
       \/ op = "remove" /\ device[slot] = key
    /\ LET cards == IF op = "remove" THEN DevicePhones \ {key} ELSE DevicePhones
       IN  /\ cards # {}
           /\ acts' = [acts EXCEPT ![a] = [op |-> op, slot |-> slot, key |-> key, cards |-> cards,
                                           onTip |-> TRUE, chained |-> FALSE]]
    /\ UNCHANGED <<phones, device, seated, resets, list, entries, process, faults>>

\* finish_act: a removed device's phone leaves, unless it is a device again or
\* approved the act itself; the record closes last.
FinishAct(a, dev, waiting, open, approver) ==
    \E reach \in {"appended", "removed", "recorded"} :
        LET act == acts[a]
            gone == IF /\ act.op = "remove" /\ reach # "appended" /\ act.key # approver
                       /\ \A s \in SLOTS : dev[s] # act.key
                    THEN {act.key} \intersect Owners ELSE {}
        IN  /\ phones' = [k \in Keys |-> IF k \in gone THEN "none" ELSE phones[k]]
            /\ entries' = Voided(waiting, gone)
            /\ resets' = Uncarded(gone)
            /\ acts' = IF reach = "recorded"
                       THEN [open EXCEPT ![a] = NoAct]
                       ELSE [open EXCEPT ![a].chained = TRUE]
            /\ Spend(reach # "recorded")

\* The chain takes the act: the draft is on the tip, a device never has two
\* slots, and the last device is never removed.
ChainTakes(act) ==
    /\ act.onTip
    /\ act.op = "add" => ~Twin(act.slot, act.key)
    /\ act.op = "remove" => device[act.slot] = act.key /\ Devices # {act.key}

\* A carded device approves the act, which appends unless it is refused.
ApproveAct(a, k) ==
    /\ Serving /\ k \in acts[a].cards /\ k \in Owners /\ ~acts[a].chained
    /\ IF k \in Devices /\ ChainTakes(acts[a])
       THEN LET act == acts[a]
                dev == [device EXCEPT ![act.slot] = IF act.op = "add" THEN act.key ELSE NoKey]
            IN  /\ device' = dev
                /\ FinishAct(a, dev, OffTip(entries), ActsOffTip, k)
       ELSE /\ acts' = [acts EXCEPT ![a] = NoAct]
            /\ UNCHANGED <<phones, device, resets, entries, faults>>
    /\ UNCHANGED <<seated, list, process>>

\* A card answered again finishes an act that is on the chain.
ReapproveAct(a, k) ==
    /\ Serving /\ k \in acts[a].cards /\ k \in Owners /\ acts[a].chained
    /\ FinishAct(a, device, entries, acts, k)
    /\ UNCHANGED <<device, seated, list, process>>

\* The cards of an act live five minutes; one on the chain waits for a start.
ActLapses(a) ==
    /\ acts[a].cards # {}
    /\ acts' = [acts EXCEPT ![a] = IF @.chained THEN [@ EXCEPT !.cards = {}] ELSE NoAct]
    /\ UNCHANGED <<phones, device, seated, resets, list, entries, process, faults>>

(***************************************************************************)
(* A phone is revoked by itself or, no sealed device, by another owner.    *)
(***************************************************************************)
Revoke(revoker, target) ==
    /\ Serving /\ revoker \in Owners /\ target \in Owners
    /\ revoker # target => target \notin Devices /\ ~ \E r \in Resets : Open(r)
    /\ ~LastOwner(target)
    /\ phones' = [phones EXCEPT ![target] = "none"]
    /\ entries' = Voided(entries, {target})
    /\ resets' = Uncarded({target})
    /\ UNCHANGED <<device, seated, list, acts, process, faults>>

(***************************************************************************)
(* The process.                                                            *)
(***************************************************************************)
\* Mutant: a start finishes a reset only while its key is still the device.
RollForwardSeated ==
    {r \in Resets : Unfinished(r) /\ device[resets[r].slot] = resets[r].fresh}
        \union {a \in Acts : acts[a].chained}
RollForward == {r \in Resets : Unfinished(r)} \union {a \in Acts : acts[a].chained}

\* The pending queue, the slot entries and an unsaved revocation are memory.
Stop ==
    /\ up # "down"
    /\ up' = "down"
    /\ todo' = {}
    /\ entries' = {}
    /\ resets' = Uncarded(Keys)
    /\ revoked' = revoked \ unsaved
    /\ unsaved' = {}
    /\ UNCHANGED <<phones, device, seated, acts, faults>>

\* A start ends the codes and challenges no one can redeem, and looks for what
\* the chain has and the registry has not.
Start ==
    /\ up = "down"
    /\ up' = "starting"
    /\ todo' = RollForward
    /\ resets' = [r \in Resets |->
          IF resets[r].state = "armed" /\ (resets[r].code \/ resets[r].challenge)
          THEN [resets[r] EXCEPT !.code = FALSE, !.held = FALSE, !.challenge = FALSE]
          ELSE resets[r]]
    /\ UNCHANGED <<phones, device, seated, list, acts, entries, faults>>

\* One record after the other; one that fails never stops the start.
RollReset(r) ==
    /\ r \in todo
    /\ Finish(r, device, entries)
    /\ todo' = todo \ {r}
    /\ UNCHANGED <<device, seated, list, acts, up>>

RollAct(a) ==
    /\ a \in todo
    /\ FinishAct(a, device, entries, acts, NoKey)
    /\ todo' = todo \ {a}
    /\ UNCHANGED <<device, seated, list, up>>

\* The reset still in its window is carded again, and the server serves.
Serve ==
    /\ up = "starting" /\ todo = {}
    /\ up' = "serving"
    /\ resets' = [r \in Resets |->
          IF resets[r].state = "waiting" /\ Open(r) /\ resets[r].time = "early"
          THEN [resets[r] EXCEPT !.cards = Carded(r), !.queued = Carded(r)]
          ELSE resets[r]]
    /\ UNCHANGED <<phones, device, seated, list, acts, entries, todo, faults>>

ResetSteps(r) ==
    \/ \E slots \in SUBSET SLOTS \ {{}}, lost \in SUBSET Keys : StartReset(r, slots, lost)
    \/ WindowPasses(r) \/ GracePasses(r)
    \/ \E k \in Keys : Cancel(r, k)
    \/ \E s \in SLOTS : Arm(r, s)
    \/ Redeem(r) \/ CodeEnds(r) \/ ChallengeLapses(r)
    \/ \E k \in Keys : RegisterFresh(r, k)
    \/ Complete(r) \/ FinishCommitted(r) \/ Abort(r)

EntrySteps ==
    \/ \E k \in Keys, s \in SLOTS, o \in Phones : AskEntry(k, s, o)
    \/ \E e \in entries : \/ \E k \in Keys : ApproveEntry(e, k)
                          \/ SignEntry(e) \/ EntryLapses(e) \/ LandEntry(e)

ActSteps(a) ==
    \/ \E op \in ActOps, s \in SLOTS, k \in Keys : OpenAct(a, op, s, k)
    \/ \E k \in Keys : ApproveAct(a, k) \/ ReapproveAct(a, k)
    \/ ActLapses(a)

StartSteps == Start \/ (\E r \in Resets : RollReset(r)) \/ (\E a \in Acts : RollAct(a)) \/ Serve

Next ==
    \/ \E r \in Resets : ResetSteps(r)
    \/ EntrySteps
    \/ \E a \in Acts : ActSteps(a)
    \/ \E k, t \in Keys : Revoke(k, t)
    \/ StartSteps
    \/ Stop

Spec == Init /\ [][Next]_vars

(***************************************************************************)
(* Properties.                                                             *)
(***************************************************************************)
\* A cancelled or aborted reset never seats a device, also when the process
\* stopped between its revocation and its record.
CancelledNeverSeats == [][\A e \in seated' \ seated : e.reset \notin revoked]_vars

\* A reset seats a device only after its window, and before its grace is over.
WindowRunsFirst == [][\A e \in seated' \ seated : resets[e.reset].time = "due"]_vars

\* A reset seats a device in its time or not at all.
SeatsInItsTime == CancelledNeverSeats /\ WindowRunsFirst

\* At most one reset can still move: two would seat two phones in one slot.
Moves(r) == Open(r) \/ Unfinished(r)
OneResetMoves == \A r, q \in Resets : Moves(r) /\ Moves(q) => r = q

\* A bootloader whose id is sealed never loses its last owner phone.
OwnersRemain == Owners # {}

\* The slot of a sealed device holds no other phone, but for a reset of that
\* slot that is committed and not finished.
SlotFollowsChain ==
    \A s \in SLOTS :
        device[s] # NoKey /\ ~ (\E r \in Resets : Unfinished(r) /\ resets[r].slot = s)
            => Holders(s) \subseteq {device[s]}

\* The registry keeps in step with the chain and never loses every owner.
RegistryInStep == OwnersRemain /\ SlotFollowsChain

\* As long as no handler stopped half way, no owner phone that could cancel a
\* reset loses its cancel before the window passes, across restarts too: its
\* card is on its queue while the server serves.
InWindow(r) == resets[r].state = "waiting" /\ resets[r].time = "early" /\ Open(r)
CancelStands ==
    [][\A r \in Resets : \A k \in resets[r].cards \intersect Owners \intersect Owners' :
          faults' = 0 /\ InWindow(r) /\ InWindow(r)' =>
              /\ k \in resets'[r].cards
              /\ Serving' /\ (Serving => k \in resets[r].queued) => k \in resets'[r].queued]_vars

\* As long as restarts go on and get through, what the chain took is finished:
\* no reset stays committed and no act on the chain stays open.
RolledForward ==
    []<>(up = "down") /\ []<>Serving =>
        /\ \A r \in Resets : Unfinished(r) ~> ~Unfinished(r)
        /\ \A a \in Acts : acts[a].chained ~> ~acts[a].chained

\* No two keys hold one slot, but for a committed reset that is not finished.
OneKeyPerSlot ==
    \A s \in SLOTS :
        \/ Cardinality(Holders(s)) <= 1
        \/ \E r \in Resets : Unfinished(r) /\ resets[r].slot = s
===============================================================================
