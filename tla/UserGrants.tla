------------------------------ MODULE UserGrants ------------------------------
(***************************************************************************)
(* A user's standing grants: the phone bound to the user signs that one    *)
(* agent may use one of the user's keys until a date, and takes it back    *)
(* one by one or for a whole key; the platform may ask for either with a   *)
(* request that rings the phone (user_vault/grant_record.py,               *)
(* grant_request.py; server.py: _handle_user_vault_grant, _revoke,         *)
(* _revoke_key, _grants_list, _grant_request, _status, _deny; state.py:    *)
(* the user-vault grants and the revocation list).                         *)
(*                                                                         *)
(* One user of one platform.  A handler reads and writes the grants, the   *)
(* revocation list and the requests in separate steps, each under the      *)
(* store's lock, so handlers interleave between them.  PatientPhone: the   *)
(* phone sends a grant for a slot only when its last one for that slot was *)
(* answered or lost.                                                       *)
(***************************************************************************)
EXTENDS Naturals, FiniteSets

CONSTANTS
    GrantIds,      \* grants a phone may sign
    GrantOf,       \* their records: slot (an agent and a key), key, signer, not_after
    StopIds,       \* stop-all acts a phone may sign
    StopOf,        \* their records: key, signer, not_after
    UserPhones,    \* phones the user may be bound to
    RequestIds,    \* requests the platform may raise
    Submits,       \* phone requests that can be under way at once
    RequestWindow, \* REQUEST_WINDOW_SECONDS
    RaisesPerHour, \* RAISES_PER_HOUR
    Hour,
    LastTime,      \* bound on the clock
    PatientPhone

\* GrantRecord, RevokeKeyRecord.
IsGrant(g) == g.not_after \in Nat /\ g.signer \in UserPhones /\ {"slot", "key"} \subseteq DOMAIN g
IsStop(s) == s.not_after \in Nat /\ s.signer \in UserPhones /\ "key" \in DOMAIN s

ASSUME UserGrantsAssumption ==
    /\ \A g \in GrantIds : IsGrant(GrantOf[g])
    /\ \A s \in StopIds : IsStop(StopOf[s])
    /\ GrantIds \cap StopIds = {}
    /\ {RequestWindow, RaisesPerHour, Hour, LastTime} \subseteq Nat
    /\ PatientPhone \in BOOLEAN

VARIABLES
    now,          \* the clock
    bound,        \* the phone the user is bound to
    stored,       \* user_vault_grants.json
    listed,       \* the revocation list: grants taken back, stop-alls used
    listFile,     \* and its file
    submits,      \* the phone's requests under way
    requests,     \* the book of requests, in memory
    raises,       \* the requests raised and when, in memory
    takenBack     \* history: grants whose end was answered and is in the file

grantVars == <<now, bound, stored, listed, listFile, submits, requests, raises, takenBack>>

Slot(g) == GrantOf[g].slot
Slots == {Slot(g) : g \in GrantIds}
Key(g) == GrantOf[g].key
Entry == GrantIds \union StopIds
Expires(e) == IF e \in GrantIds THEN GrantOf[e].not_after ELSE StopOf[e].not_after

NoRequest == [status |-> "none"]
Forgotten == [status |-> "gone"]
RequestStates == {"open", "admitted", "denied", "revoked", "expired"}
SubmitIdle == [pc |-> "idle"]

GrantsTypeOK ==
    /\ now \in 0..LastTime
    /\ bound \in UserPhones
    /\ stored \subseteq GrantIds
    /\ \A g, h \in stored : Slot(g) = Slot(h) => g = h
    /\ listFile \subseteq Entry /\ listed \subseteq Entry
    /\ submits \in [Submits -> {SubmitIdle}
           \union [pc : {"admissible", "putting", "resolving"}, grant : GrantIds, olds : SUBSET GrantIds]
           \union [pc : {"revoking", "revoked"}, grant : GrantIds]
           \union [pc : {"stopping", "marked", "ending"}, stop : StopIds,
                    live : SUBSET GrantIds, ends : SUBSET GrantIds, todo : SUBSET GrantIds]]
    /\ \A r \in RequestIds : requests[r] \in {NoRequest, Forgotten} \/
           /\ requests[r].status \in RequestStates /\ requests[r].asks \in {"grant", "revoke"}
           /\ requests[r].slot \in Slots /\ requests[r].raised \in 0..LastTime
           /\ requests[r].names \subseteq GrantIds
    /\ raises \subseteq [request : RequestIds, at : 0..LastTime]
    /\ takenBack \subseteq GrantIds

GrantsInit ==
    /\ now = 0
    /\ bound \in UserPhones
    /\ stored = {} /\ listed = {} /\ listFile = {}
    /\ submits = [h \in Submits |-> SubmitIdle]
    /\ requests = [r \in RequestIds |-> NoRequest]
    /\ raises = {}
    /\ takenBack = {}

(***************************************************************************)
(* The revocation list and the stored grants.                              *)
(***************************************************************************)
\* An entry past its exp is dropped whenever the list is looked at.
Lapsed(e) == Expires(e) <= now
Revoked(e) == e \in listed /\ ~Lapsed(e)

\* add_revocation: an entry already there is not written again.
Lists(e) ==
    LET kept == {x \in listed : ~Lapsed(x)} IN
    /\ listed' = kept \union {e}
    /\ listFile' = IF kept = listed /\ e \in listed THEN listFile ELSE listed'
\* Its file cannot be written: the entry stays in memory, the handler ends.
ListsUnsaved(e) == ~Revoked(e) /\ listed' = listed \union {e} /\ UNCHANGED listFile

\* _live_grants.
LiveUnchecked(g) == g \in stored /\ ~Lapsed(g)
Live(g) == g \in stored /\ ~Lapsed(g) /\ ~Revoked(g)
LiveGrants == {g \in GrantIds : Live(g)}

\* put_user_vault_grant: one grant to a slot, and none past its date.
Beside(g) == {x \in stored : Slot(x) # Slot(g) /\ ~Lapsed(x)}
Put(g) == stored' = Beside(g) \union {g}

Becomes(h, to) == submits' = [submits EXCEPT ![h] = to]
Done(h) == Becomes(h, SubmitIdle)

(***************************************************************************)
(* The book of requests.                                                   *)
(***************************************************************************)
\* _sweep.
Swept(r) ==
    CASE requests[r].status \notin RequestStates -> requests[r]
      [] now >= requests[r].raised + 2 * RequestWindow -> Forgotten
      [] requests[r].status = "open" /\ now >= requests[r].raised + RequestWindow ->
            [requests[r] EXCEPT !.status = "expired"]
      [] OTHER -> requests[r]
SweptBook == [r \in RequestIds |-> Swept(r)]

Open(book, r) == book[r].status = "open"

\* resolve_grant: no sweep, so a request not yet swept resolves past its window too.
ResolvedByGrantAny(g) ==
    [r \in RequestIds |->
        IF requests[r].status \in RequestStates /\ requests[r].asks = "grant" /\ requests[r].slot = Slot(g)
        THEN [requests[r] EXCEPT !.status = "admitted", !.names = {g}] ELSE requests[r]]
ResolvedByGrant(g) ==
    [r \in RequestIds |->
        IF Open(requests, r) /\ requests[r].asks = "grant" /\ requests[r].slot = Slot(g)
        THEN [requests[r] EXCEPT !.status = "admitted", !.names = {g}] ELSE requests[r]]

\* resolve_revoke.
ResolvedByRevoke(gs) ==
    [r \in RequestIds |->
        IF Open(requests, r) /\ requests[r].asks = "revoke" /\ requests[r].names \cap gs # {}
        THEN [requests[r] EXCEPT !.status = "revoked"] ELSE requests[r]]

(***************************************************************************)
(* The platform raises a request, reads it, or withdraws it.               *)
(***************************************************************************)
Recent == {x \in raises : x.at + Hour > now}

SlotTaken(slot) == \E r \in RequestIds : Open(SweptBook, r) /\ SweptBook[r].slot = slot

\* A grant request names a slot, a revoke request a live grant.
RaiseRequest(r) ==
    /\ requests[r] = NoRequest
    /\ Cardinality(Recent) < RaisesPerHour
    /\ \E slot \in Slots, asks \in {"grant", "revoke"}, names \in SUBSET LiveGrants :
           /\ asks = "grant" => names = {}
           /\ asks = "revoke" => \E g \in names : names = {g} /\ Slot(g) = slot
           /\ ~SlotTaken(slot)
           /\ requests' = [SweptBook EXCEPT ![r] =
                  [status |-> "open", asks |-> asks, slot |-> slot, raised |-> now, names |-> names]]
    /\ raises' = Recent \union {[request |-> r, at |-> now]}
    /\ UNCHANGED <<now, bound, stored, listed, listFile, submits, takenBack>>

\* Reading the book, for a status or for the phone's cards, sweeps it.
ReadBook ==
    /\ requests' = SweptBook
    /\ UNCHANGED <<now, bound, stored, listed, listFile, submits, raises, takenBack>>

\* The phone, or the platform that raised it.
DenyRequest(r) ==
    /\ Open(SweptBook, r)
    /\ requests' = [SweptBook EXCEPT ![r].status = "denied"]
    /\ UNCHANGED <<now, bound, stored, listed, listFile, submits, raises, takenBack>>

(***************************************************************************)
(* The phone submits a grant: _handle_user_vault_grant.                    *)
(***************************************************************************)
\* verify_grant against the bound phone's key, then is_revoked.
GrantArrives(h, g) ==
    /\ submits[h] = SubmitIdle
    /\ GrantOf[g].signer = bound /\ ~Lapsed(g) /\ ~Revoked(g)
    /\ PatientPhone => \A i \in Submits :
           submits[i].pc \in {"admissible", "putting", "resolving"} => Slot(submits[i].grant) # Slot(g)
    /\ Becomes(h, [pc |-> "admissible", grant |-> g, olds |-> {}])
    /\ UNCHANGED <<now, bound, stored, listed, listFile, requests, raises, takenBack>>

\* The grants of its slot that a newer one replaces.
OldsNone(g) == {}
Olds(g) == {x \in stored : Slot(x) = Slot(g) /\ x # g}

GrantFindsOlds(h) ==
    /\ submits[h].pc = "admissible"
    /\ Becomes(h, [submits[h] EXCEPT !.pc = "putting", !.olds = Olds(submits[h].grant)])
    /\ UNCHANGED <<now, bound, stored, listed, listFile, requests, raises, takenBack>>

GrantEndsOld(h) ==
    /\ submits[h].pc = "putting"
    /\ \E x \in submits[h].olds :
           \/ /\ Lists(x)
              /\ Becomes(h, [submits[h] EXCEPT !.olds = @ \ {x}])
           \/ ListsUnsaved(x) /\ Done(h)
    /\ UNCHANGED <<now, bound, stored, requests, raises, takenBack>>

\* The phone is told these are over; not those an earlier failed write left in memory only.
Answered(gs) == takenBack' = takenBack \union {g \in gs : g \in listFile \/ g \notin listed}

\* Or the grants' file cannot be written, and the handler ends.
GrantPuts(h) ==
    /\ submits[h].pc = "putting" /\ submits[h].olds = {}
    /\ \/ /\ Put(submits[h].grant)
          /\ Becomes(h, [submits[h] EXCEPT !.pc = "resolving"])
          /\ Answered({x \in stored : Slot(x) = Slot(submits[h].grant)} \ {submits[h].grant})
       \/ Done(h) /\ UNCHANGED <<stored, takenBack>>
    /\ UNCHANGED <<now, bound, listed, listFile, requests, raises>>

GrantResolves(h) ==
    /\ submits[h].pc = "resolving"
    /\ requests' = ResolvedByGrant(submits[h].grant)
    /\ Done(h)
    /\ UNCHANGED <<now, bound, stored, listed, listFile, raises, takenBack>>

(***************************************************************************)
(* The phone takes one grant back: _handle_user_vault_revoke.              *)
(***************************************************************************)
RevokeArrives(h, g) ==
    /\ submits[h] = SubmitIdle
    /\ g \in stored
    /\ Becomes(h, [pc |-> "revoking", grant |-> g])
    /\ UNCHANGED <<now, bound, stored, listed, listFile, requests, raises, takenBack>>

RevokeLists(h) ==
    /\ submits[h].pc = "revoking"
    /\ \/ Lists(submits[h].grant) /\ Becomes(h, [submits[h] EXCEPT !.pc = "revoked"])
       \/ ListsUnsaved(submits[h].grant) /\ Done(h)
    /\ UNCHANGED <<now, bound, stored, requests, raises, takenBack>>

RevokeResolves(h) ==
    /\ submits[h].pc = "revoked"
    /\ requests' = ResolvedByRevoke({submits[h].grant})
    /\ Answered({submits[h].grant})
    /\ Done(h)
    /\ UNCHANGED <<now, bound, stored, listed, listFile, raises>>

(***************************************************************************)
(* The phone stops a key: _handle_user_vault_revoke_key.                   *)
(***************************************************************************)
\* "live" is what a stop-all promises to end; it is not the code's.
StopArrives(h, s) ==
    /\ submits[h] = SubmitIdle
    /\ StopOf[s].signer = bound /\ ~Lapsed(s) /\ ~Revoked(s)
    /\ Becomes(h, [pc |-> "stopping", stop |-> s, ends |-> {}, todo |-> {},
                   live |-> {g \in LiveGrants : Key(g) = StopOf[s].key}])
    /\ UNCHANGED <<now, bound, stored, listed, listFile, requests, raises, takenBack>>

\* The act is marked used first.
StopMarksUsed(h) ==
    /\ submits[h].pc = "stopping"
    /\ \/ Lists(submits[h].stop) /\ Becomes(h, [submits[h] EXCEPT !.pc = "marked"])
       \/ ListsUnsaved(submits[h].stop) /\ Done(h)
    /\ UNCHANGED <<now, bound, stored, requests, raises, takenBack>>

EndedBy(s) == {g \in LiveGrants : Key(g) = StopOf[s].key}
EndedByOne(s) == IF EndedBy(s) = {} THEN {} ELSE {CHOOSE g \in EndedBy(s) : TRUE}

StopFinds(h) ==
    /\ submits[h].pc = "marked"
    /\ LET ends == EndedBy(submits[h].stop) IN
           Becomes(h, [submits[h] EXCEPT !.pc = "ending", !.ends = ends, !.todo = ends])
    /\ UNCHANGED <<now, bound, stored, listed, listFile, requests, raises, takenBack>>

StopEndsGrant(h) ==
    /\ submits[h].pc = "ending"
    /\ \E g \in submits[h].todo :
           \/ Lists(g) /\ Becomes(h, [submits[h] EXCEPT !.todo = @ \ {g}])
           \/ ListsUnsaved(g) /\ Done(h)
    /\ UNCHANGED <<now, bound, stored, requests, raises, takenBack>>

StopResolves(h) ==
    /\ submits[h].pc = "ending" /\ submits[h].todo = {}
    /\ requests' = ResolvedByRevoke(submits[h].ends)
    /\ Answered(submits[h].live)
    /\ Done(h)
    /\ UNCHANGED <<now, bound, stored, listed, listFile, raises>>

(***************************************************************************)
(* The binding, the clock, the process.                                    *)
(***************************************************************************)
Rebinds(p) ==
    /\ p # bound
    /\ bound' = p
    /\ UNCHANGED <<now, stored, listed, listFile, submits, requests, raises, takenBack>>

TimePasses ==
    /\ now < LastTime
    /\ now' = now + 1
    /\ UNCHANGED <<bound, stored, listed, listFile, submits, requests, raises, takenBack>>

\* The requests are lost; the list is loaded without what has lapsed.
GrantsRestart ==
    /\ listed' = {e \in listFile : ~Lapsed(e)}
    /\ submits' = [h \in Submits |-> SubmitIdle]
    /\ requests' = [r \in RequestIds |-> IF requests[r] = NoRequest THEN NoRequest ELSE Forgotten]
    /\ raises' = {}
    /\ UNCHANGED <<now, bound, stored, listFile, takenBack>>

GrantsNext ==
    \/ \E r \in RequestIds : RaiseRequest(r) \/ DenyRequest(r)
    \/ ReadBook
    \/ \E h \in Submits :
           \/ \E g \in GrantIds : GrantArrives(h, g) \/ RevokeArrives(h, g)
           \/ GrantFindsOlds(h) \/ GrantEndsOld(h) \/ GrantPuts(h) \/ GrantResolves(h)
           \/ RevokeLists(h) \/ RevokeResolves(h)
           \/ \E s \in StopIds : StopArrives(h, s)
           \/ StopMarksUsed(h) \/ StopFinds(h) \/ StopEndsGrant(h) \/ StopResolves(h)
    \/ \E p \in UserPhones : Rebinds(p)
    \/ TimePasses
    \/ GrantsRestart

GrantsSpec == GrantsInit /\ [][GrantsNext]_grantVars

(***************************************************************************)
(* Properties.                                                             *)
(***************************************************************************)
\* A grant the phone took back, by itself, with its whole key, or by a newer grant
\* for its slot, is never live again: not by sending it again, not while another
\* handler admits or stops, not after a restart (_live_grants).
TakenBackStaysOut == \A g \in takenBack : ~Live(g)

\* A request that is over says the same until it is forgotten, whichever of the
\* grant, the denial and the window comes first (GrantRequestBook).
RequestEndsOnce ==
    [][\A r \in RequestIds :
          requests[r].status \in RequestStates \ {"open"} =>
              requests'[r] = requests[r] \/ requests'[r].status = "gone"]_grantVars

\* At most one request for an agent and a key is on the phone (raise_request).
OneOpenRequest ==
    \A r, q \in RequestIds :
        Open(requests, r) /\ Open(requests, q) /\ requests[r].slot = requests[q].slot => r = q

\* The phone is asked one thing at a time, and what came of it stays so.
RequestBookIsKept == []OneOpenRequest /\ RequestEndsOnce
===============================================================================
