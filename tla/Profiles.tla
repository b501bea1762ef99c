------------------------------- MODULE Profiles -------------------------------
(***************************************************************************)
(* The profiles under a master identity: created, and their devices added  *)
(* and removed, each by a card the operator approves (server.py:           *)
(* _handle_profile_create, _handle_profile_add_device,                     *)
(* _handle_profile_revoke_device, _handle_respond and the three result     *)
(* polls; profile/manage.py and profile/store.py; cli.py: the commands     *)
(* that ask and poll).                                                     *)
(*                                                                         *)
(* All profiles are one file, master_identity.json.  An approval takes its *)
(* card, loads the file, changes what it loaded and replaces the file, and *)
(* no lock is held from the load to the replacement: of two approvals that *)
(* have both loaded it, the later replacement undoes the earlier one.  The *)
(* checks of a request are made when it is queued, and again, but not all  *)
(* of them, when the approval is applied.                                  *)
(*                                                                         *)
(* The master's own profile is left out: no card changes it.               *)
(***************************************************************************)
EXTENDS Integers, Sequences, FiniteSets, FiniteSetsExt

CONSTANTS
    ProfileIds,    \* candidate ids, chosen by who asks
    ProfileNames,  \* a kind with a display name
    CoinOf,        \* the derivation slot of each name's kind
    DeviceIds,     \* paired phones
    Wishes,        \* the commands that run: what each asks for
    FirstBooks,    \* what the file may hold at the start
    Answerers,     \* the approvals that can be under way at once
    CardsLast,     \* TRUE: Postgres keeps cards and results over a restart; it peeks at none
    MaxCards       \* bound on the cards queued

VARIABLES
    book,      \* master_identity.json
    cards,     \* the cards queued so far, by number
    outcomes,  \* the results waiting for their commands
    answering, \* the approvals under way
    commands,  \* the commands `recto profile ...` under way
    told,      \* history: what approvals reported and no later one reversed
    crossed    \* history: the approvals under way that met another between load and save

profileHistory == <<told, crossed>>
profileVars == <<book, cards, outcomes, answering, commands, profileHistory>>

Profile == [id : ProfileIds, name : ProfileNames, index : Nat, devices : SUBSET DeviceIds,
            quorum : Nat \ {0}, revoked : BOOLEAN]
IsBook(b) == \A p \in b : p \in Profile
Wish == [op : {"create"}, id : ProfileIds, name : ProfileNames]
            \union [op : {"add", "remove"}, id : ProfileIds, device : DeviceIds]

ASSUME ProfilesAssumption ==
    /\ CoinOf \in [ProfileNames -> Nat]
    /\ Wishes \subseteq Wish
    /\ \A b \in FirstBooks : IsBook(b) /\ IsFiniteSet(b)
    /\ CardsLast \in BOOLEAN
    /\ MaxCards \in Nat

Outcome == {"none", "approved", "denied", "signature_error"}
Card == [wish : Wishes, index : Nat, queued : BOOLEAN]
IdleAnswer == [pc |-> "idle"]
Fact == [fact : {"made"}, id : ProfileIds] \union [fact : {"in", "out"}, id : ProfileIds, device : DeviceIds]

\* A card carries the path its profile will get; nothing else of the book is copied.
ProfilesTypeOK ==
    /\ IsBook(book)
    /\ cards \in Seq(Card) /\ Len(cards) <= MaxCards
    /\ outcomes \in [DOMAIN cards -> Outcome]
    /\ \A n \in DOMAIN cards : cards[n].queued => outcomes[n] = "none"
    /\ DOMAIN answering = Answerers
    /\ \A a \in Answerers :
           \/ answering[a] = IdleAnswer
           \/ answering[a] \in [pc : {"taken"}, card : DOMAIN cards, says : {"approved", "denied", "garbled"}]
           \/ /\ answering[a].pc = "loaded" /\ answering[a].card \in DOMAIN cards
              /\ IsBook(answering[a].seen)
    /\ commands \in [Wishes -> [pc : {"idle", "done", "failed"}, card : {0}]
                                   \union [pc : {"polling", "missed"}, card : DOMAIN cards]]
    /\ told \subseteq Fact
    /\ crossed \subseteq Answerers

Idle_ == [pc |-> "idle", card |-> 0]

ProfilesInit ==
    /\ book \in FirstBooks
    /\ cards = <<>>
    /\ outcomes = <<>>
    /\ answering = [a \in Answerers |-> IdleAnswer]
    /\ commands = [w \in Wishes |-> Idle_]
    /\ told = {}
    /\ crossed = {}

(***************************************************************************)
(* The book: profile/manage.py.                                            *)
(***************************************************************************)
HasProfile(b, id) == \E p \in b : p.id = id
ProfileOf(b, id) == CHOOSE p \in b : p.id = id

\* ProfileDerivationPath: the coin and account of a kind's keys.
SameSlot(m, n) == CoinOf[m] = CoinOf[n]

\* _next_profile_index: one past the highest path its slot ever had.
NextIndex(b, name) ==
    LET used == {p.index : p \in {q \in b : SameSlot(q.name, name)}}
    IN  IF used = {} THEN 0 ELSE Max(used) + 1

\* create_child_profile: a profile of that kind and name is returned as it is.
Named(b, w) == \E p \in b : p.name = w.name
Created(b, w, index) ==
    IF Named(b, w) THEN b
    ELSE b \union {[id |-> w.id, name |-> w.name, index |-> index, devices |-> {},
                    quorum |-> 1, revoked |-> FALSE]}

\* profile_add_device: the profile is built anew, with the default quorum.
DeviceAdded(b, w) ==
    LET p == ProfileOf(b, w.id)
    IN  IF w.device \in p.devices THEN b
        ELSE (b \ {p}) \union {[p EXCEPT !.devices = @ \union {w.device}, !.quorum = 1]}

\* profile_revoke_device.
DeviceRemoved(b, w) ==
    LET p == ProfileOf(b, w.id) IN (b \ {p}) \union {[p EXCEPT !.devices = @ \ {w.device}]}

\* What is checked when an approval is applied.
CreateFits(b, w) == Named(b, w) \/ ~HasProfile(b, w.id)

AddFits(b, w) == HasProfile(b, w.id) /\ ~ProfileOf(b, w.id).revoked

RemoveFits(b, w) ==
    /\ HasProfile(b, w.id)
    /\ ~ProfileOf(b, w.id).revoked
    /\ w.device \in ProfileOf(b, w.id).devices => Cardinality(ProfileOf(b, w.id).devices) # 1

Fits(b, w) ==
    \/ w.op = "create" /\ CreateFits(b, w)
    \/ w.op = "add" /\ AddFits(b, w)
    \/ w.op = "remove" /\ RemoveFits(b, w)

Changed(b, w, index) ==
    CASE w.op = "create" -> Created(b, w, index)
      [] w.op = "add"    -> DeviceAdded(b, w)
      [] w.op = "remove" -> DeviceRemoved(b, w)

(***************************************************************************)
(* A command asks: what the endpoints check before they queue a card.      *)
(***************************************************************************)
CreateAnswer(w) == IF HasProfile(book, w.id) THEN "already" ELSE "queued"

AddAnswer(w) ==
    CASE ~AddFits(book, w)                             -> "refused"
      [] w.device \in ProfileOf(book, w.id).devices    -> "already"
      [] OTHER                                         -> "queued"

\* A quorum above one cannot be collected, and is refused.
RemoveAnswer(w) ==
    IF ~AddFits(book, w) THEN "refused"
    ELSE LET p == ProfileOf(book, w.id) IN
         CASE p.quorum # 1                 -> "refused"
           [] w.device \notin p.devices    -> "already"
           [] Cardinality(p.devices) = 1   -> "refused"
           [] OTHER                        -> "queued"

\* The card of a create carries the next free path of its slot.
CardOfCreate(w) == [wish |-> w, index |-> NextIndex(book, w.name), queued |-> TRUE]
CardOfAdd(w) == [wish |-> w, index |-> 0, queued |-> TRUE]
CardOfRemove(w) == [wish |-> w, index |-> 0, queued |-> TRUE]

\* The card is queued also when the reply that names it is lost.
Queues(w, card) ==
    /\ Len(cards) < MaxCards
    /\ cards' = Append(cards, card)
    /\ outcomes' = Append(outcomes, "none")
    /\ \/ commands' = [commands EXCEPT ![w] = [pc |-> "polling", card |-> Len(cards) + 1]]
       \/ commands' = [commands EXCEPT ![w].pc = "failed"]

Turned(w, answer) ==
    /\ answer # "queued"
    /\ commands' = [commands EXCEPT ![w].pc = IF answer = "already" THEN "done" ELSE "failed"]
    /\ UNCHANGED <<cards, outcomes>>

\* A command that ended may be run again, with the same candidate id.
AtRest(w) == commands[w].pc \in {"idle", "failed"}
RunsCreate(w) == w.op = "create" /\ AtRest(w)
RunsAdd(w) == w.op = "add" /\ AtRest(w)
RunsRemove(w) == w.op = "remove" /\ AtRest(w)

AskCreate(w) ==
    /\ RunsCreate(w)
    /\ UNCHANGED <<book, answering, profileHistory>>
    /\ \/ CreateAnswer(w) = "queued" /\ Queues(w, CardOfCreate(w))
       \/ Turned(w, CreateAnswer(w))

AskAdd(w) ==
    /\ RunsAdd(w)
    /\ UNCHANGED <<book, answering, profileHistory>>
    /\ \/ AddAnswer(w) = "queued" /\ Queues(w, CardOfAdd(w))
       \/ Turned(w, AddAnswer(w))

AskRemove(w) ==
    /\ RunsRemove(w)
    /\ UNCHANGED <<book, answering, profileHistory>>
    /\ \/ RemoveAnswer(w) = "queued" /\ Queues(w, CardOfRemove(w))
       \/ Turned(w, RemoveAnswer(w))

(***************************************************************************)
(* The operator answers: _handle_respond.                                  *)
(***************************************************************************)

\* The phone's signature is good and the card is taken off the queue.
AnswerTakesCard(a, n, says) ==
    /\ answering[a] = IdleAnswer
    /\ cards[n].queued /\ ~CardsLast
    /\ cards' = [cards EXCEPT ![n].queued = FALSE]
    /\ answering' = [answering EXCEPT ![a] = [pc |-> "taken", card |-> n, says |-> says]]
    /\ UNCHANGED <<book, outcomes, commands, profileHistory>>

\* A later report about a profile's device takes the place of an earlier one.
Learned(w) ==
    CASE w.op = "create" ->
             told \union {[fact |-> "made", id |-> p.id] : p \in {q \in book' : q.name = w.name}}
      [] w.op = "add"    -> (told \ {[fact |-> "out", id |-> w.id, device |-> w.device]})
                                \union {[fact |-> "in", id |-> w.id, device |-> w.device]}
      [] w.op = "remove" -> (told \ {[fact |-> "in", id |-> w.id, device |-> w.device]})
                                \union {[fact |-> "out", id |-> w.id, device |-> w.device]}

\* What a report leaves of them when its approval was crossed: it may be undone.
Unlearned(w) ==
    IF w.op = "create" THEN told
    ELSE told \ {[fact |-> x, id |-> w.id, device |-> w.device] : x \in {"in", "out"}}

\* _store_profile_create_result and its two sisters, and the handler ends.
Stores(a, status) ==
    LET n == answering[a].card  w == cards[n].wish IN
    /\ outcomes' = [outcomes EXCEPT ![n] = status]
    /\ told' = CASE status # "approved" -> told
                 [] status = "approved" /\ a \notin crossed -> Learned(w)
                 [] status = "approved" /\ a \in crossed -> Unlearned(w)
    /\ crossed' = crossed \ {a}
    /\ answering' = [answering EXCEPT ![a] = IdleAnswer]

AnswerDenied(a) ==
    /\ answering[a].pc = "taken" /\ answering[a].says = "denied"
    /\ Stores(a, "denied")
    /\ UNCHANGED <<book, cards, commands>>

\* An approval whose attestation is missing, malformed, about another card or not
\* the master's.
Misattests(a, op) ==
    /\ answering[a].pc = "taken" /\ answering[a].says = "garbled"
    /\ cards[answering[a].card].wish.op = op
    /\ Stores(a, "signature_error")
    /\ UNCHANGED <<book, cards, commands>>

MisattestsCreate(a) == Misattests(a, "create")
MisattestsAdd(a) == Misattests(a, "add")
MisattestsRemove(a) == Misattests(a, "remove")

\* load_master_identity.
AnswerLoads(a) ==
    /\ answering[a].pc = "taken"
    /\ answering[a].says = "approved"
    /\ answering' = [answering EXCEPT ![a] = [pc |-> "loaded", card |-> answering[a].card, seen |-> book]]
    /\ LET others == {b \in Answerers : answering[b].pc = "loaded"}
       IN  crossed' = IF others = {} THEN crossed ELSE crossed \union others \union {a}
    /\ UNCHANGED <<book, cards, outcomes, commands, told>>

\* The change is made to what was loaded, saved, and then reported; a change
\* that changes nothing saves nothing.
SavesBook(a, next) == book' = (IF next = answering[a].seen THEN book ELSE next) /\ Stores(a, "approved")

Applies(a, op) ==
    /\ answering[a].pc = "loaded" /\ cards[answering[a].card].wish.op = op
    /\ UNCHANGED <<cards, commands>>

ApplyCreate(a) ==
    /\ Applies(a, "create")
    /\ LET card == cards[answering[a].card] IN
       CreateFits(answering[a].seen, card.wish) /\ SavesBook(a, Created(answering[a].seen, card.wish, card.index))

ApplyAdd(a) ==
    /\ Applies(a, "add")
    /\ LET w == cards[answering[a].card].wish IN
       AddFits(answering[a].seen, w) /\ SavesBook(a, DeviceAdded(answering[a].seen, w))

ApplyRemove(a) ==
    /\ Applies(a, "remove")
    /\ LET w == cards[answering[a].card].wish IN
       RemoveFits(answering[a].seen, w) /\ SavesBook(a, DeviceRemoved(answering[a].seen, w))

AfterFailedWriteToldDone == "approved"
AfterFailedWrite == "signature_error"

\* The checks fail on what was loaded, or save_master_identity fails.
CannotApply(a) ==
    /\ answering[a].pc = "loaded"
    /\ UNCHANGED <<book, cards, commands>>
    /\ LET card == cards[answering[a].card] IN
       \/ ~Fits(answering[a].seen, card.wish) /\ Stores(a, "signature_error")
       \/ /\ Fits(answering[a].seen, card.wish)
          /\ Changed(answering[a].seen, card.wish, card.index) # answering[a].seen
          /\ Stores(a, AfterFailedWrite)

(***************************************************************************)
(* The command polls, the clock, the host and the process.                 *)
(***************************************************************************)
\* A result is handed over once.
TakesOutcome(n) == outcomes[n] # "none" /\ outcomes' = [outcomes EXCEPT ![n] = "none"]

CommandEnds(w, op) ==
    /\ w.op = op /\ commands[w].pc = "polling"
    /\ TakesOutcome(commands[w].card)
    /\ commands' = [commands EXCEPT ![w] =
                       [pc |-> IF outcomes[commands[w].card] = "approved" THEN "done" ELSE "failed", card |-> 0]]
    /\ UNCHANGED <<book, cards, answering, profileHistory>>

CreateEnds(w) == CommandEnds(w, "create")
AddEnds(w) == CommandEnds(w, "add")
RemoveEnds(w) == CommandEnds(w, "remove")

\* No result: the queues are looked at next, and an answer can come in between.
CommandMissesResult(w) ==
    /\ commands[w].pc = "polling" /\ outcomes[commands[w].card] = "none"
    /\ commands' = [commands EXCEPT ![w].pc = "missed"]
    /\ UNCHANGED <<book, cards, outcomes, answering, profileHistory>>

\* The card waits: "pending"; else 404.
CommandLooks(w) ==
    /\ commands[w].pc = "missed"
    /\ commands' = [commands EXCEPT ![w] = IF cards[@.card].queued THEN [@ EXCEPT !.pc = "polling"]
                                           ELSE [pc |-> "failed", card |-> 0]]
    /\ UNCHANGED <<book, cards, outcomes, answering, profileHistory>>

\* --poll-timeout has passed; the card stays on the phone.
CommandGivesUp(w) ==
    /\ commands[w].pc = "polling"
    /\ commands' = [commands EXCEPT ![w] = [pc |-> "failed", card |-> 0]]
    /\ UNCHANGED <<book, cards, outcomes, answering, profileHistory>>

\* A card's ttl_seconds, or a result's, have passed.
CardOrResultLapses(n) ==
    /\ cards[n].queued \/ outcomes[n] # "none"
    /\ cards' = [cards EXCEPT ![n].queued = FALSE]
    /\ outcomes' = [outcomes EXCEPT ![n] = "none"]
    /\ UNCHANGED <<book, answering, commands, profileHistory>>

\* mark_profile_revoked, called on the host while no approval is under way:
\* the row stays, without its key, its devices and its quorum.
MarkRevoked(p) ==
    /\ \A a \in Answerers : answering[a] = IdleAnswer
    /\ ~p.revoked
    /\ book' = (book \ {p}) \union {[p EXCEPT !.revoked = TRUE, !.devices = {}, !.quorum = 1]}
    /\ told' = {f \in told : f.id # p.id \/ f.fact = "made"}
    /\ UNCHANGED <<cards, outcomes, answering, commands, crossed>>

BootloaderRestarts ==
    /\ answering' = [a \in Answerers |-> IdleAnswer]
    /\ cards' = IF CardsLast THEN cards ELSE [n \in DOMAIN cards |-> [cards[n] EXCEPT !.queued = FALSE]]
    /\ outcomes' = IF CardsLast THEN outcomes ELSE [n \in DOMAIN cards |-> "none"]
    /\ crossed' = {}
    /\ UNCHANGED <<book, commands, told>>

ProfilesNext ==
    \/ \E w \in Wishes :
           \/ AskCreate(w) \/ AskAdd(w) \/ AskRemove(w)
           \/ CreateEnds(w) \/ AddEnds(w) \/ RemoveEnds(w)
           \/ CommandMissesResult(w) \/ CommandLooks(w) \/ CommandGivesUp(w)
    \/ \E n \in DOMAIN cards : CardOrResultLapses(n)
    \/ \E a \in Answerers :
           \/ \E n \in DOMAIN cards, says \in {"approved", "denied", "garbled"} : AnswerTakesCard(a, n, says)
           \/ AnswerDenied(a) \/ MisattestsCreate(a) \/ MisattestsAdd(a) \/ MisattestsRemove(a)
           \/ AnswerLoads(a) \/ ApplyCreate(a) \/ ApplyAdd(a) \/ ApplyRemove(a) \/ CannotApply(a)
    \/ \E p \in book : MarkRevoked(p)
    \/ BootloaderRestarts

ProfilesSpec == ProfilesInit /\ [][ProfilesNext]_profileVars

(***************************************************************************)
(* Properties.                                                             *)
(***************************************************************************)
\* However often a create is retried, timed out, lost or approved twice, the
\* book has one profile of a candidate id and one of a kind and name
\* (create_child_profile).
OneProfile == \A p, q \in book : p.id = q.id \/ p.name = q.name => p = q

KeepsLastDevices(b) ==
    \A p \in b, q \in book' : p.id = q.id /\ p.devices # {} => q.revoked \/ q.devices # {}
Finishes(a) == answering[a].pc = "loaded" /\ answering'[a] = IdleAnswer

\* A profile that has a device never loses its last one, also when two removals
\* that were each fine when asked are both approved, in the book that the approval
\* which changes it has loaded (profile_revoke_device).
LastDeviceStays ==
    [][book' = book \/ KeepsLastDevices(book)
          \/ \E a \in Answerers : Finishes(a) /\ KeepsLastDevices(answering[a].seen)]_profileVars

\* A revoked profile is never changed by a card queued before (profile_add_device).
RevokedProfileStays == [][\A p \in book : p.revoked => p \in book']_profileVars

\* What an approval reported is what the book says, until another approval says
\* otherwise, also while other approvals overlap; only the reports of those that
\* met one another between load and save may be undone ("never claim success when
\* source-of-truth failed").
Stored(f) ==
    \E p \in book :
        /\ p.id = f.id
        /\ f.fact = "in" => f.device \in p.devices
        /\ f.fact = "out" => f.device \notin p.devices
ToldIsStored == \A f \in told : Stored(f)

\* The book through all commands: true to what was told, and never losing a
\* device or a revocation that a later card could not have meant to take.
BookKeepsItsWord == [](OneProfile /\ ToldIsStored) /\ LastDeviceStays /\ RevokedProfileStays
===============================================================================
