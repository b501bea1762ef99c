------------------------------- MODULE PhoneRows -------------------------------
(***************************************************************************)
(* A paired phone's row and what hangs on it: its push token, the session  *)
(* it signed, the cards on its queue.  A request finds the row in one call *)
(* of the store and acts on it in a later one, and the phone may be        *)
(* removed in between (server.py: _handle_push_token_update,               *)
(* _handle_issue_session, _handle_pending, _handle_respond,                *)
(* _handle_revoke_phone; state.py: StateStore, the file backend).          *)
(* Removals, push tokens and owner-slot entries share the registry lock;   *)
(* the others take none.                                                   *)
(***************************************************************************)
EXTENDS Naturals, FiniteSets

CONSTANTS
    RowPhones,    \* phones, all of them owners
    PushTokens,
    WaitCards,    \* the cards of agents' requests
    WindowCards,  \* those among them that ask for a grant window
    EntryCards,   \* the cards of owner-slot entries
    CardFor,      \* the phone of each card
    RowCalls,     \* requests under way at once
    Removed, NoToken

VARIABLES
    phoneRow,      \* phones.json and _phones, written in that order under one lock
    sessions,  \* the phones whose session is held in memory
    sessFile,  \* those in sessions.json
    waiting,   \* the cards on the phones' queues, in memory
    made,      \* the request cards made so far
    entry,     \* the record of each owner-slot entry
    locked,    \* a holder of the registry lock between two of its writes
    calls,     \* the requests under way
    unpaired,  \* history: the phones removed and not paired since
    late,      \* history: what was put there for a phone that was gone
    strays,    \* history: the request cards an answer took for a phone that was gone
    exposed    \* history: the entry cards on a queue that an unsigned read was shown

rowVars == <<phoneRow, sessions, sessFile, waiting, made, entry, locked, calls, unpaired, late, strays, exposed>>
ties == <<sessions, sessFile, waiting, made, entry>>
rowHistory == <<unpaired, late, strays, exposed>>

AllCards == WaitCards \union EntryCards

ASSUME RowsAssumption ==
    /\ WindowCards \subseteq WaitCards
    /\ WaitCards \intersect EntryCards = {}
    /\ RowPhones \intersect AllCards = {}
    /\ CardFor \in [AllCards -> RowPhones]
    /\ Removed \notin PushTokens \union {NoToken}

EntryStates == {"none", "pending", "approved", "refused", "gone"}
Held == {p \in RowPhones : phoneRow[p] # Removed}
CardsOf(p) == {c \in AllCards : CardFor[c] = p}
CallIdle == [pc |-> "idle"]
Unlocked == [at |-> "free"]
LockFree == locked = Unlocked

RowsInit ==
    /\ phoneRow = [p \in RowPhones |-> NoToken]
    /\ sessions = {} /\ sessFile = {} /\ waiting = {} /\ made = {}
    /\ entry = [c \in EntryCards |-> "none"]
    /\ locked = Unlocked
    /\ calls = [k \in RowCalls |-> CallIdle]
    /\ unpaired = {} /\ late = {} /\ strays = {} /\ exposed = {}

(***************************************************************************)
(* The row comes and goes.                                                 *)
(***************************************************************************)
Pairs(p) ==
    /\ LockFree /\ p \notin Held
    /\ \E t \in PushTokens \union {NoToken} : phoneRow' = [phoneRow EXCEPT ![p] = t]
    /\ unpaired' = unpaired \ {p}
    /\ late' = late \ ({p} \union CardsOf(p))
    /\ UNCHANGED <<ties, locked, calls, strays, exposed>>

\* revoke_phone: the row's sessions and cards go with it.
DropsCards(p) == waiting \ CardsOf(p)

\* A write of sessions.json that fails after phones.json landed is logged only.
RemovesPhone(p, saved) ==
    /\ LockFree /\ p \in Held /\ Held # {p}
    /\ phoneRow' = [phoneRow EXCEPT ![p] = Removed]
    /\ sessions' = sessions \ {p}
    /\ sessFile' = IF saved THEN sessions' ELSE sessFile
    /\ waiting' = DropsCards(p)
    /\ unpaired' = unpaired \union {p}
    /\ late' = late \ ({p} \union CardsOf(p))
    /\ UNCHANGED <<made, entry, locked, calls, strays, exposed>>

\* Cards are not read back, sessions are; a handler holds the lock no longer.
RowsRestart ==
    /\ sessions' = sessFile
    /\ waiting' = {}
    /\ entry' = [c \in EntryCards |-> IF entry[c] = "none" THEN "none" ELSE "gone"]
    /\ locked' = Unlocked
    /\ calls' = [k \in RowCalls |-> CallIdle]
    /\ late' = sessFile \ Held
    /\ UNCHANGED <<phoneRow, sessFile, made, unpaired, strays, exposed>>

(***************************************************************************)
(* A call finds the phone's row, and goes on from there.                   *)
(***************************************************************************)
CallGoes(k, job) == calls' = [calls EXCEPT ![k] = job]

Finds(k, job) ==
    /\ calls[k] = CallIdle
    /\ job.phone \in Held
    /\ CallGoes(k, job)
    /\ UNCHANGED <<phoneRow, ties, locked, rowHistory>>

FindsAny(k) ==
    \E p \in RowPhones :
        \/ \E t \in PushTokens : Finds(k, [pc |-> "push", phone |-> p, token |-> t])
        \/ Finds(k, [pc |-> "session", phone |-> p])
        \/ \E c \in (WaitCards \intersect CardsOf(p)) \ made : Finds(k, [pc |-> "request", phone |-> p, card |-> c])
        \/ \E s \in BOOLEAN : Finds(k, [pc |-> "poll", phone |-> p, signed |-> s])
        \/ \E c \in waiting \intersect WaitCards \intersect CardsOf(p) :
              Finds(k, [pc |-> "answer", phone |-> p, card |-> c])

WritesUpsert(job) == [phoneRow EXCEPT ![job.phone] = job.token]
\* update_phone_push: the token of a row that is still there, "never an upsert".
WritesToken(job) == IF job.phone \in Held THEN [phoneRow EXCEPT ![job.phone] = job.token] ELSE phoneRow

PushWrites(k) ==
    /\ calls[k].pc = "push" /\ LockFree
    /\ phoneRow' = WritesToken(calls[k])
    /\ CallGoes(k, CallIdle)
    /\ UNCHANGED <<ties, locked, rowHistory>>

\* put_session: in memory, and in the file unless its write fails.
SessionPuts(k, saved) ==
    /\ calls[k].pc = "session"
    /\ sessions' = sessions \union {calls[k].phone}
    /\ sessFile' = IF saved THEN sessions' ELSE sessFile
    /\ late' = late \union ({calls[k].phone} \ Held)
    /\ CallGoes(k, CallIdle)
    /\ UNCHANGED <<phoneRow, waiting, made, entry, locked, unpaired, strays, exposed>>

\* add_pending, of a request that was not queued twice.
RequestQueues(k) ==
    /\ calls[k].pc = "request"
    /\ IF calls[k].card \in made
       THEN UNCHANGED <<waiting, made, late>>
       ELSE /\ waiting' = waiting \union {calls[k].card}
            /\ made' = made \union {calls[k].card}
            /\ late' = IF calls[k].phone \in Held THEN late ELSE late \union {calls[k].card}
    /\ CallGoes(k, CallIdle)
    /\ UNCHANGED <<phoneRow, sessions, sessFile, entry, locked, unpaired, strays, exposed>>

(***************************************************************************)
(* The phone's poll: list_pending_for_phone, the restamps, and the cards   *)
(* that a read without a fresh poll signature is not shown.                *)
(***************************************************************************)
PollLists(k) ==
    /\ calls[k].pc = "poll"
    /\ CallGoes(k, [pc |-> "listed", phone |-> calls[k].phone, signed |-> calls[k].signed,
                cards |-> waiting \intersect CardsOf(calls[k].phone)])
    /\ UNCHANGED <<phoneRow, ties, locked, rowHistory>>

\* A card that asks for a window is put back, whatever became of it or its phone.
PollRestamps(k, c) ==
    /\ calls[k].pc = "listed" /\ c \in calls[k].cards \intersect WindowCards
    /\ waiting' = waiting \union {c}
    /\ late' = IF calls[k].phone \in Held THEN late ELSE late \union {c}
    /\ UNCHANGED <<phoneRow, sessions, sessFile, made, entry, locked, calls, unpaired, strays, exposed>>

\* list_owner_enrolls: the cards that any record names.
NamedCards == {c \in EntryCards : entry[c] \notin {"none", "gone"}}

\* A signature that was fresh at the gate may have aged by now.
PollReplies(k) ==
    /\ calls[k].pc = "listed"
    /\ \E fresh \in {calls[k].signed, FALSE} :
          LET shown == IF fresh THEN calls[k].cards ELSE calls[k].cards \ NamedCards
          IN  exposed' = IF fresh THEN exposed ELSE exposed \union (shown \intersect waiting \intersect EntryCards)
    /\ CallGoes(k, CallIdle)
    /\ UNCHANGED <<phoneRow, ties, locked, unpaired, late, strays>>

(***************************************************************************)
(* The phone's answer: the card was peeked at and the row found; the card  *)
(* is taken if it is still there.                                          *)
(***************************************************************************)
AnswerTakesRow(k) ==
    /\ calls[k].pc = "answer"
    /\ waiting' = waiting \ {calls[k].card}
    /\ strays' = IF calls[k].phone \in Held THEN strays ELSE strays \union (waiting \intersect {calls[k].card})
    /\ late' = late \ {calls[k].card}
    /\ CallGoes(k, CallIdle)
    /\ UNCHANGED <<phoneRow, sessions, sessFile, made, entry, locked, unpaired, exposed>>

\* A card waits no longer than its time.
CardLapses(c) ==
    /\ c \in waiting
    /\ waiting' = waiting \ {c} /\ late' = late \ {c}
    /\ UNCHANGED <<phoneRow, sessions, sessFile, made, entry, locked, calls, unpaired, strays, exposed>>

(***************************************************************************)
(* Owner-slot entries: the record lands first, then its card; a refusal    *)
(* lands before its card is withdrawn.  The registry lock is held through. *)
(***************************************************************************)
Records(c, state) == entry' = [entry EXCEPT ![c] = state]

EntryAsked(c) ==
    /\ LockFree /\ entry[c] = "none" /\ CardFor[c] \in Held
    /\ Records(c, "pending")
    /\ locked' = [at |-> "asking", card |-> c]
    /\ UNCHANGED <<phoneRow, sessions, sessFile, waiting, made, calls, rowHistory>>

EntryQueued ==
    /\ locked.at = "asking"
    /\ waiting' = waiting \union {locked.card}
    /\ locked' = Unlocked
    /\ UNCHANGED <<phoneRow, sessions, sessFile, made, entry, calls, rowHistory>>

\* void_owner_enrolls_for.
EntryVoided(c) ==
    /\ LockFree /\ entry[c] \in {"pending", "approved"}
    /\ Records(c, "refused")
    /\ locked' = [at |-> "voiding", card |-> c]
    /\ UNCHANGED <<phoneRow, sessions, sessFile, waiting, made, calls, rowHistory>>

EntryWithdrawn ==
    /\ locked.at = "voiding"
    /\ waiting' = waiting \ {locked.card}
    /\ locked' = Unlocked
    /\ UNCHANGED <<phoneRow, sessions, sessFile, made, entry, calls, rowHistory>>

\* An owner's approval, or a contest (_refuse_owner_enroll): the card goes first.
EntryAnswered(c, state) ==
    /\ LockFree /\ entry[c] = "pending"
    /\ state = "approved" => c \in waiting /\ CardFor[c] \in Held
    /\ waiting' = waiting \ {c}
    /\ Records(c, state)
    /\ UNCHANGED <<phoneRow, sessions, sessFile, made, locked, calls, rowHistory>>

\* A record whose card is gone is used up, replaced or outlived.
EntryDropped(c) ==
    /\ LockFree /\ entry[c] \notin {"none", "gone"} /\ c \notin waiting
    /\ Records(c, "gone")
    /\ UNCHANGED <<phoneRow, sessions, sessFile, waiting, made, locked, calls, rowHistory>>

RowsNext ==
    \/ \E p \in RowPhones : Pairs(p) \/ \E saved \in BOOLEAN : RemovesPhone(p, saved)
    \/ \E k \in RowCalls :
          \/ FindsAny(k) \/ PushWrites(k) \/ RequestQueues(k)
          \/ \E saved \in BOOLEAN : SessionPuts(k, saved)
          \/ PollLists(k) \/ PollReplies(k) \/ \E c \in WindowCards : PollRestamps(k, c)
          \/ AnswerTakesRow(k)
    \/ \E c \in AllCards : CardLapses(c)
    \/ \E c \in EntryCards :
          \/ EntryAsked(c) \/ EntryVoided(c) \/ EntryDropped(c)
          \/ \E state \in {"approved", "refused"} : EntryAnswered(c, state)
    \/ EntryQueued \/ EntryWithdrawn
    \/ RowsRestart

RowsSpec == RowsInit /\ [][RowsNext]_rowVars

(***************************************************************************)
(* Properties.                                                             *)
(***************************************************************************)
\* The store's rows are of their kind, and what the files hold was in memory once.
RowsTypeOK ==
    /\ phoneRow \in [RowPhones -> PushTokens \union {NoToken, Removed}]
    /\ Held # {}
    /\ sessions \union sessFile \union unpaired \subseteq RowPhones
    /\ made \subseteq WaitCards /\ waiting \subseteq made \union EntryCards
    /\ entry \in [EntryCards -> EntryStates]
    /\ \A c \in waiting \intersect EntryCards : entry[c] \notin {"none", "gone"}
    /\ late \subseteq sessions \union waiting
    /\ strays \subseteq made /\ exposed \subseteq EntryCards

\* A phone that was removed is back only by pairing again, whichever request of
\* its own was under way (update_phone_push, "stays removed").
UnpairedStaysOut == unpaired \intersect Held = {}

\* What hangs on a phone goes with it, but for what a call that had found the
\* row put there afterwards and what a start read back (revoke_phone, "Drop any
\* sessions / pending tied to this phone").
NothingLeftBehind ==
    /\ sessions \ late \subseteq Held
    /\ \A c \in waiting \ late : CardFor[c] \in Held

\* The answer of a phone that was removed resolves no card, even when its row
\* was found before; cards with a grant window, which a poll puts back, aside.
RemovedResolvesNothing == strays \subseteq WindowCards

\* An owner-slot card on a queue is served only to a read whose poll signature
\* verifies, whatever happens to its record between the poll's two looks
\* (_handle_pending, "in every mode").
EntryCardsNeedASignature == exposed = {}

\* A phone that is gone has no row, no session, no card and no say, and what a
\* registered one is shown is shown to it alone.
RemovedIsGone ==
    UnpairedStaysOut /\ NothingLeftBehind /\ RemovedResolvesNothing /\ EntryCardsNeedASignature
===============================================================================
