----------------------------- MODULE DevicePairing -----------------------------
\* A phone's pairing grant: verified, spent, and relayed to a consumer that binds
\* the phone; and the unpairing that takes the binding down.
EXTENDS Naturals

CONSTANTS
    PairGrants,      \* the jti of the grants phones have signed
    PairExp,         \* grant -> its exp
    PairNotAfter,    \* grant -> the not_after of the record it pins
    Consumers,       \* base URLs
    PairHandlers,    \* requests in progress at once
    SpendsSaved,     \* TRUE: no write of the list fails
    PairEnd,         \* bound on the clock
    NoPairing

ASSUME PairTimes ==
    /\ PairExp \in [PairGrants -> Nat] /\ PairNotAfter \in [PairGrants -> Nat]
    /\ PairEnd \in Nat /\ SpendsSaved \in BOOLEAN
    /\ NoPairing \notin PairGrants

VARIABLES
    pairNow,     \* the clock
    known,       \* devices_pair_consumer_webhook_tokens of the running process
    spentHere,   \* the revocation list in memory: the grants in it
    spentSaved,   \* and in revocations.json
    pairings,    \* handler -> its request
    bindings,    \* external: the grants each consumer has bound a phone by
    delivered    \* history: the grants a consumer was handed

pairVars == <<pairNow, known, spentHere, spentSaved, pairings, bindings, delivered>>

(***************************************************************************)
(* A request: "again" when it came after its grant had been handed over,   *)
(* "stale" when it was checked against the list after the grant's exp.     *)
(***************************************************************************)
PairIdle == [pc |-> "idle", grant |-> NoPairing, again |-> FALSE, stale |-> FALSE]

RequestOf == [pc : {"verified", "admitted", "spent", "relayed"}, grant : PairGrants,
              again : BOOLEAN, stale : BOOLEAN] \union {PairIdle}

At(h, pc) == pairings[h].pc = pc

Proceeds(h, pc) == pairings' = [pairings EXCEPT ![h].pc = pc]

Leaves(h) == pairings' = [pairings EXCEPT ![h] = PairIdle]

\* The list drops an entry once its token's exp has come.
InForce(list) == {g \in list : pairNow < PairExp[g]}

(***************************************************************************)
(* POST /v0.4/devices/pair.                                                *)
(***************************************************************************)
\* The webhook tokens of the consumers; without one the endpoint is not there.
Enabled == known # {}

\* The record's own date, beside the token's.
RecordAdmits(g) == pairNow < PairNotAfter[g]

\* The grant's signature, audience and time bounds.
PairArrives(h, g) ==
    /\ At(h, "idle") /\ Enabled
    /\ pairNow < PairExp[g]
    /\ pairings' = [pairings EXCEPT ![h] = [pc |-> "verified", grant |-> g,
                                            again |-> g \in delivered, stale |-> FALSE]]
    /\ UNCHANGED <<pairNow, known, spentHere, spentSaved, bindings, delivered>>

\* The list, then what verify_pair_grant asks of the record.
PairChecked(h) ==
    LET g == pairings[h].grant
    IN /\ At(h, "verified")
       /\ spentHere' = InForce(spentHere)
       /\ spentSaved' = IF spentHere' = spentHere THEN spentSaved ELSE spentHere'
       /\ IF g \notin spentHere' /\ RecordAdmits(g)
          THEN pairings' = [pairings EXCEPT ![h].pc = "admitted", ![h].stale = pairNow >= PairExp[g]]
          ELSE Leaves(h)
       /\ UNCHANGED <<pairNow, known, bindings, delivered>>

Remembers(h) == spentHere' = InForce(spentHere) \union {pairings[h].grant}

PairSpendsUnsaved(h) ==
    /\ At(h, "admitted")
    /\ Remembers(h)
    /\ Proceeds(h, "spent")
    /\ UNCHANGED <<pairNow, known, spentSaved, bindings, delivered>>

\* The grant joins the list, in memory and in the file, before anything leaves.
PairSpends(h) ==
    /\ At(h, "admitted")
    /\ Remembers(h)
    /\ spentSaved' = IF spentHere' = spentHere THEN spentSaved ELSE spentHere'
    /\ Proceeds(h, "spent")
    /\ UNCHANGED <<pairNow, known, bindings, delivered>>

\* The write of the file fails: the list in memory has the grant, and the request ends.
PairSpendFails(h) ==
    /\ At(h, "admitted") /\ ~SpendsSaved
    /\ Remembers(h)
    /\ spentHere' # spentHere
    /\ Leaves(h)
    /\ UNCHANGED <<pairNow, known, spentSaved, bindings, delivered>>

\* A consumer nobody registered, one that cannot be reached, or one that refuses:
\* the grant is spent all the same.
PairGoesNowhere(h) ==
    /\ At(h, "spent")
    /\ Leaves(h)
    /\ UNCHANGED <<pairNow, known, spentHere, spentSaved, bindings, delivered>>

\* The consumer takes the bootloader's signed result and binds the phone.
HandsOver(c, g) ==
    /\ delivered' = delivered \union {g}
    /\ bindings' = [bindings EXCEPT ![c] = @ \union {g}]

PairRelays(h, c) ==
    /\ At(h, "spent") /\ c \in known
    /\ HandsOver(c, pairings[h].grant)
    /\ Proceeds(h, "relayed")
    /\ UNCHANGED <<pairNow, known, spentHere, spentSaved>>

\* The phone is told what the consumer answered, or a 502 if the answer was lost.
PairAnswered(h) ==
    /\ At(h, "relayed")
    /\ Leaves(h)
    /\ UNCHANGED <<pairNow, known, spentHere, spentSaved, bindings, delivered>>

(***************************************************************************)
(* POST /v0.4/devices/unpair spends nothing: the consumer judges it.       *)
(***************************************************************************)
Unpairs(c, g) ==
    /\ c \in known
    /\ bindings' = [bindings EXCEPT ![c] = @ \ {g}]
    /\ UNCHANGED <<pairNow, known, spentHere, spentSaved, pairings, delivered>>

(***************************************************************************)
(* A crash and the next start, with the consumers it is given.             *)
(***************************************************************************)
PairingRestarts(consumers) ==
    /\ known' = consumers
    /\ spentHere' = InForce(spentSaved)
    /\ pairings' = [h \in PairHandlers |-> PairIdle]
    /\ UNCHANGED <<pairNow, spentSaved, bindings, delivered>>

PairTick ==
    /\ pairNow < PairEnd
    /\ pairNow' = pairNow + 1
    /\ UNCHANGED <<known, spentHere, spentSaved, pairings, bindings, delivered>>

PairInit ==
    /\ pairNow = 0
    /\ known \in SUBSET Consumers
    /\ spentHere = {} /\ spentSaved = {}
    /\ pairings = [h \in PairHandlers |-> PairIdle]
    /\ bindings = [c \in Consumers |-> {}]
    /\ delivered = {}

PairNext ==
    \/ \E h \in PairHandlers, g \in PairGrants : PairArrives(h, g)
    \/ \E h \in PairHandlers :
          PairChecked(h) \/ PairSpends(h) \/ PairSpendFails(h) \/ PairGoesNowhere(h) \/ PairAnswered(h)
    \/ \E h \in PairHandlers, c \in Consumers : PairRelays(h, c)
    \/ \E c \in Consumers, g \in PairGrants : Unpairs(c, g)
    \/ \E consumers \in SUBSET Consumers : PairingRestarts(consumers)
    \/ PairTick

PairSpec == PairInit /\ [][PairNext]_pairVars

(***************************************************************************)
(* Properties.                                                             *)
(***************************************************************************)
\* The lists hold grants, a request is of its kind, and a binding is by a grant
\* that was handed over.
PairTypeOK ==
    /\ pairNow \in Nat /\ known \subseteq Consumers
    /\ spentHere \subseteq PairGrants /\ spentSaved \subseteq PairGrants
    /\ pairings \in [PairHandlers -> RequestOf]
    /\ delivered \subseteq PairGrants
    /\ \A c \in Consumers : bindings[c] \subseteq delivered

\* A grant that a consumer was handed is not handed over again for a request that
\* came after, whatever crashed or failed to be written in between; unless that
\* request was checked after the grant's exp, when the list had dropped the entry.
\* (Where writes fail and two requests of one grant overlap it is not so: the second
\* finds the first's entry in memory and goes on, and a restart forgets it.)
HandedOverOnce ==
    \A h \in PairHandlers : pairings[h].again => pairings[h].stale \/ At(h, "verified")
===============================================================================
