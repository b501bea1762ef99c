--------------------------- MODULE ServicesProofs ---------------------------
(***************************************************************************)
(* The services of a bootloader that share no state: tokens and the list   *)
(* of revocations, the rows of phones, genesis quorums, scopes and pairing *)
(* grants, and the types of all of them, profiles and vaults included.  A  *)
(* section each, for every value of its constants.  What profiles and      *)
(* vaults keep beyond their types is in IdentityProofs.                    *)
(***************************************************************************)
EXTENDS Services, FiniteSetTheorems, WellFoundedInduction, TLAPS

(***************************************************************************)
(* The types of profiles, vaults, scopes and pairing grants, also where    *)
(* approvals or changes overlap and where a list cannot be written; those  *)
(* of tokens, phones and quorums are with their invariants.                *)
(***************************************************************************)
LEMMA LeastOf == ASSUME NEW S \in SUBSET Nat, S # {} PROVE \E x \in S : \A y \in S : x <= y
  <1>1. PICK x \in S : \A y \in S : ~ (<<y, x>> \in OpToRel(<, Nat))
    BY WFMin, NatLessThanWellFounded
  <1>2. \A y \in S : ~(y < x)
    BY <1>1, Zenon DEF OpToRel
  <1> QED  BY <1>2

\* The paths of a book have a last one.
Bounded(b) == \E u \in Nat : \A p \in b : p.index <= u

LEMMA MoreBounded ==
    ASSUME NEW b, NEW q, Bounded(b), q.index \in Nat, \A p \in b : p.index \in Nat PROVE Bounded(b \union {q})
  <1>1. PICK u \in Nat : \A p \in b : p.index <= u
    BY DEF Bounded
  <1>2. u + q.index \in Nat /\ \A p \in b \union {q} : p.index <= u + q.index
    BY <1>1
  <1> QED  BY <1>2 DEF Bounded

LEMMA LessBounded == ASSUME NEW b, NEW c, c \subseteq b, Bounded(b) PROVE Bounded(c)
  BY DEF Bounded

LEMMA FiniteBounded == ASSUME NEW b, IsFiniteSet(b), IsBook(b) PROVE Bounded(b)
  <1> DEFINE OfSize(n) == \E c \in SUBSET b : Cardinality(c) = n /\ ~Bounded(c)
             Sizes == {n \in Nat : OfSize(n)}
  <1>1. \A p \in b : p.index \in Nat
    BY DEF IsBook, Profile
  <1>2. ASSUME Sizes # {} PROVE FALSE
    <2>1. PICK n \in Sizes : \A m \in Sizes : n <= m
      BY <1>2, LeastOf
    <2>2. PICK c \in SUBSET b : Cardinality(c) = n /\ ~Bounded(c)
      BY <2>1
    <2>3. IsFiniteSet(c)
      BY FS_Subset
    <2>4. c # {}
      <3>1. \A p \in {} : p.index <= 0
        OBVIOUS
      <3>2. Bounded({})
        BY <3>1 DEF Bounded
      <3> QED  BY <2>2, <3>2
    <2>5. PICK q \in c : TRUE
      BY <2>4
    <2>6. IsFiniteSet(c \ {q}) /\ Cardinality(c \ {q}) = n - 1 /\ n - 1 \in Nat
      <3>1. IsFiniteSet(c \ {q}) /\ Cardinality(c \ {q}) = Cardinality(c) - 1
        BY <2>3, <2>5, FS_RemoveElement
      <3>2. Cardinality(c \ {q}) \in Nat
        BY <3>1, FS_CardinalityType
      <3> QED  BY <2>2, <3>1, <3>2
    <2>7. Bounded(c \ {q})
      <3>1. n - 1 \notin Sizes
        BY <2>1, <2>6
      <3>2. c \ {q} \in SUBSET b
        OBVIOUS
      <3> QED  BY <2>6, <3>1, <3>2
    <2>8. Bounded((c \ {q}) \union {q})
      BY <1>1, <2>5, <2>7, MoreBounded
    <2>9. (c \ {q}) \union {q} = c
      BY <2>5
    <2> QED  BY <2>2, <2>8, <2>9
  <1>3. Cardinality(b) \in Nat
    BY FS_CardinalityType
  <1> QED  BY <1>2, <1>3

LEMMA NextIndexIsNat == ASSUME NEW b, NEW name, IsBook(b), Bounded(b) PROVE NextIndex(b, name) \in Nat
  <1> DEFINE places == {p.index : p \in {q \in b : SameSlot(q.name, name)}}
             Over == {u \in Nat : \A x \in places : x <= u}
  <1>1. places \subseteq Nat
    BY DEF IsBook, Profile
  <1>2. Over # {}
    BY DEF Bounded
  <1>3. PICK u \in Over : \A v \in Over : u <= v
    BY <1>2, LeastOf
  <1>4. CASE places # {}
    <2> HIDE DEF places
    <2>1. u \in places
      <3>1. SUFFICES ASSUME u \notin places PROVE FALSE
        OBVIOUS
      <3>2. u \in Nat /\ \A x \in places : x \in Nat /\ x <= u /\ x # u
        BY <1>1, <3>1
      <3>3. PICK x \in places : TRUE
        BY <1>4
      <3>4. u - 1 \in Nat /\ \A y \in places : y <= u - 1
        BY <3>2, <3>3
      <3>5. ~(u <= u - 1)
        BY <3>2
      <3> QED  BY <1>3, <3>4, <3>5
    <2>2. \A x \in places : u >= x
      BY <1>1, <1>3
    <2>3. Max(places) \in places
      <3>1. \E x \in places : \A y \in places : x >= y
        BY <2>1, <2>2
      <3> QED  BY <3>1, Zenon DEF Max
    <2>4. Max(places) \in Nat
      BY <1>1, <2>3
    <2>5. Max(places) + 1 \in Nat
      BY <2>4
    <2>6. NextIndex(b, name) = Max(places) + 1
      BY <1>4 DEF NextIndex, places
    <2> QED  BY <2>5, <2>6
  <1>5. CASE places = {}
    BY <1>5 DEF NextIndex
  <1> QED  BY <1>4, <1>5

LEMMA RowOf == ASSUME NEW b, NEW i, HasProfile(b, i) PROVE ProfileOf(b, i) \in b /\ ProfileOf(b, i).id = i
  BY DEF HasProfile, ProfileOf

USE DEF profileHistory

\* Beside the types: the paths of a book have a last one, and a card that is being
\* answered is off the queue.
Working(a) ==
    /\ answering[a].card \in DOMAIN cards
    /\ ~cards[answering[a].card].queued
    /\ answering[a].pc = "loaded" => Bounded(answering[a].seen)

ProfileKinds ==
    /\ ProfilesTypeOK
    /\ Bounded(book)
    /\ \A a \in Answerers : answering[a] # IdleAnswer => Working(a)

Answering == [pc : {"taken"}, card : DOMAIN cards, says : {"approved", "denied", "garbled"}]
Running ==
    [pc : {"idle", "done", "failed"}, card : {0}] \union [pc : {"polling", "missed"}, card : DOMAIN cards]

AnswerKinds ==
    /\ DOMAIN answering = Answerers
    /\ \A a \in Answerers :
           \/ answering[a] = IdleAnswer
           \/ answering[a] \in Answering
           \/ /\ answering[a].pc = "loaded" /\ answering[a].card \in DOMAIN cards
              /\ IsBook(answering[a].seen)
    /\ \A a \in Answerers : answering[a] # IdleAnswer => Working(a)

\* The parts one by one.
LEMMA KindsByPart ==
    /\ ProfileKinds =>
          /\ IsBook(book) /\ Bounded(book) /\ cards \in Seq(Card) /\ Len(cards) <= MaxCards
          /\ outcomes \in [DOMAIN cards -> Outcome]
          /\ \A n \in DOMAIN cards : cards[n].queued => outcomes[n] = "none"
          /\ AnswerKinds
          /\ commands \in [Wishes -> Running] /\ told \subseteq Fact /\ crossed \subseteq Answerers
    /\ /\ IsBook(book') /\ Bounded(book') /\ cards' \in Seq(Card) /\ Len(cards') <= MaxCards
       /\ outcomes' \in [DOMAIN cards' -> Outcome]
       /\ \A n \in DOMAIN cards' : cards'[n].queued => outcomes'[n] = "none"
       /\ AnswerKinds'
       /\ commands' \in [Wishes -> Running'] /\ told' \subseteq Fact /\ crossed' \subseteq Answerers
       => ProfileKinds'
  BY DEF ProfileKinds, ProfilesTypeOK, AnswerKinds, Running, Answering

\* Cards are never renumbered: what named one still does, and what is off the queue stays off.
LEMMA MoreCards ==
    ASSUME AnswerKinds, DOMAIN cards \subseteq DOMAIN cards', UNCHANGED answering,
           \A n \in DOMAIN cards : cards'[n].queued => cards[n].queued
    PROVE  AnswerKinds'
  BY DEF AnswerKinds, Answering, Working

LEMMA CardOff == ASSUME NEW c \in Card PROVE [c EXCEPT !.queued = FALSE] \in Card /\ ~[c EXCEPT !.queued = FALSE].queued
  BY DEF Card

\* A row of a book is changed or added: it is a book still.
LEMMA RowTaken ==
    ASSUME NEW b, NEW c, c \subseteq b, NEW q, q \in Profile, IsBook(b), Bounded(b)
    PROVE  IsBook(c \union {q}) /\ Bounded(c \union {q})
  <1>1. q.index \in Nat /\ \A p \in c : p.index \in Nat
    BY DEF IsBook, Profile
  <1>2. IsBook(c \union {q})
    BY DEF IsBook
  <1> QED  BY <1>1, <1>2, LessBounded, MoreBounded

LEMMA Rebuilt ==
    ASSUME NEW p \in Profile, NEW d \in SUBSET DeviceIds, NEW r \in BOOLEAN, NEW k \in Nat \ {0}
    PROVE  [id |-> p.id, name |-> p.name, index |-> p.index, devices |-> d, quorum |-> k, revoked |-> r] \in Profile
  <1>1. /\ p.id \in ProfileIds /\ p.name \in ProfileNames /\ p.index \in Nat
        /\ p = [id |-> p.id, name |-> p.name, index |-> p.index, devices |-> p.devices, quorum |-> p.quorum,
                revoked |-> p.revoked]
        /\ p.revoked \in BOOLEAN /\ p.devices \in SUBSET DeviceIds /\ p.quorum \in Nat \ {0}
    BY DEF Profile
  <1> QED  BY <1>1, Zenon DEF Profile

LEMMA RowAs ==
    ASSUME NEW p \in Profile
    PROVE  /\ p = [id |-> p.id, name |-> p.name, index |-> p.index, devices |-> p.devices, quorum |-> p.quorum,
                   revoked |-> p.revoked]
           /\ p.revoked \in BOOLEAN /\ p.devices \in SUBSET DeviceIds /\ p.quorum \in Nat \ {0}
  BY DEF Profile

LEMMA LeftDevices ==
    ASSUME NEW p \in Profile, NEW d \in SUBSET DeviceIds
    PROVE  [p EXCEPT !.devices = d] \in Profile
  <1>1. [p EXCEPT !.devices = d] =
            [id |-> p.id, name |-> p.name, index |-> p.index, devices |-> d, quorum |-> p.quorum, revoked |-> p.revoked]
    BY RowAs
  <1> QED  BY <1>1, RowAs, Rebuilt

LEMMA GivenDevices ==
    ASSUME NEW p \in Profile, NEW d \in SUBSET DeviceIds
    PROVE  [p EXCEPT !.devices = d, !.quorum = 1] \in Profile
  <1> DEFINE q == [p EXCEPT !.devices = d]
  <1>1. q \in Profile
    BY LeftDevices
  <1>2. [p EXCEPT !.devices = d, !.quorum = 1] = [q EXCEPT !.quorum = 1]
    OBVIOUS
  <1> HIDE DEF q
  <1>3. [q EXCEPT !.quorum = 1] =
            [id |-> q.id, name |-> q.name, index |-> q.index, devices |-> q.devices, quorum |-> 1, revoked |-> q.revoked]
    BY <1>1, RowAs
  <1>4. [q EXCEPT !.quorum = 1] \in Profile
    BY <1>1, <1>3, RowAs, Rebuilt
  <1> QED  BY <1>2, <1>4

LEMMA MarkedAs ==
    ASSUME NEW p \in Profile, NEW r \in BOOLEAN PROVE  [p EXCEPT !.revoked = r] \in Profile
  <1>1. [p EXCEPT !.revoked = r] =
            [id |-> p.id, name |-> p.name, index |-> p.index, devices |-> p.devices, quorum |-> p.quorum, revoked |-> r]
    BY RowAs
  <1> QED  BY <1>1, RowAs, Rebuilt

LEMMA MarkedRow ==
    ASSUME NEW p \in Profile PROVE  [p EXCEPT !.revoked = TRUE, !.devices = {}, !.quorum = 1] \in Profile
  <1> DEFINE q == [p EXCEPT !.revoked = TRUE]
  <1>2. q \in Profile
    BY MarkedAs
  <1>3. [p EXCEPT !.revoked = TRUE, !.devices = {}, !.quorum = 1] = [q EXCEPT !.devices = {}, !.quorum = 1]
    OBVIOUS
  <1> HIDE DEF q
  <1> QED  BY <1>2, <1>3, GivenDevices

LEMMA CardWish == ASSUME NEW c \in Card PROVE c.wish \in Wish
  <1>1. c.wish \in Wishes
    BY DEF Card
  <1> QED  BY <1>1, ProfilesAssumption

(***************************************************************************)
(* Commands.                                                               *)
(***************************************************************************)
LEMMA QueuesKinds ==
    ASSUME ProfileKinds, NEW w \in Wishes, AtRest(w), NEW card \in Card, card.queued, Queues(w, card),
           UNCHANGED <<book, answering, told, crossed>>
    PROVE  ProfileKinds'
  <1>1. /\ cards \in Seq(Card) /\ outcomes \in [DOMAIN cards -> Outcome] /\ Len(cards) < MaxCards
        /\ commands \in [Wishes -> Running] /\ MaxCards \in Nat
        /\ \A n \in DOMAIN cards : cards[n].queued => outcomes[n] = "none"
    BY KindsByPart, ProfilesAssumption DEF Queues
  <1>2. /\ cards' \in Seq(Card) /\ Len(cards') = Len(cards) + 1
        /\ DOMAIN cards = 1..Len(cards) /\ DOMAIN cards' = 1..(Len(cards) + 1)
        /\ \A n \in DOMAIN cards : cards'[n] = cards[n]
        /\ Len(cards) \in Nat
    BY <1>1 DEF Queues
  <1>3. /\ outcomes' \in [DOMAIN cards' -> Outcome]
        /\ \A n \in DOMAIN cards : outcomes'[n] = outcomes[n]
        /\ outcomes'[Len(cards) + 1] = "none"
    <2>1. outcomes \in Seq(Outcome) /\ Len(outcomes) = Len(cards)
      BY <1>1, <1>2
    <2>2. outcomes' = Append(outcomes, "none") /\ "none" \in Outcome
      BY DEF Queues, Outcome
    <2>3. /\ outcomes' \in Seq(Outcome) /\ DOMAIN outcomes' = 1..(Len(cards) + 1)
          /\ \A n \in 1..Len(cards) : outcomes'[n] = outcomes[n]
          /\ outcomes'[Len(cards) + 1] = "none"
      BY <1>2, <2>1, <2>2
    <2> QED  BY <1>2, <2>3
  <1>4. \A n \in DOMAIN cards' : cards'[n].queued => outcomes'[n] = "none"
    BY <1>1, <1>2, <1>3
  <1>5. commands' \in [Wishes -> Running']
    <2>1. commands[w].card = 0
      BY <1>1 DEF AtRest, Running
    <2>2. Running \subseteq Running'
      BY <1>2 DEF Running
    <2>3. [pc |-> "polling", card |-> Len(cards) + 1] \in Running' /\ [pc |-> "failed", card |-> 0] \in Running'
      BY <1>2 DEF Running
    <2>4. [commands[w] EXCEPT !.pc = "failed"] = [pc |-> "failed", card |-> 0]
      BY <1>1, <2>1 DEF Running
    <2>5. PICK to \in Running' : commands' = [commands EXCEPT ![w] = to]
      BY <2>3, <2>4 DEF Queues
    <2> QED  BY <1>1, <2>2, <2>5
  <1>6. AnswerKinds'
    BY <1>2, KindsByPart, MoreCards
  <1> QED  BY <1>1, <1>2, <1>3, <1>4, <1>5, <1>6, KindsByPart

\* A command moves and nothing else.
LEMMA CommandKinds ==
    ASSUME ProfileKinds, NEW w \in Wishes, NEW to \in Running, commands' = [commands EXCEPT ![w] = to],
           UNCHANGED <<book, cards, answering, told, crossed>>,
           outcomes' \in [DOMAIN cards -> Outcome],
           \A n \in DOMAIN cards : outcomes'[n] \in {outcomes[n], "none"}
    PROVE  ProfileKinds'
  <1>1. commands' \in [Wishes -> Running'] /\ AnswerKinds'
    BY KindsByPart, MoreCards DEF Running
  <1>2. \A n \in DOMAIN cards' : cards'[n].queued => outcomes'[n] = "none"
    BY KindsByPart
  <1> QED  BY <1>1, <1>2, KindsByPart

LEMMA TurnedKinds ==
    ASSUME ProfileKinds, NEW w \in Wishes, AtRest(w), NEW answer, Turned(w, answer),
           UNCHANGED <<book, answering, told, crossed>>
    PROVE  ProfileKinds'
  <1>1. commands \in [Wishes -> Running] /\ outcomes \in [DOMAIN cards -> Outcome]
    BY KindsByPart
  <1>2. commands[w].card = 0
    BY <1>1 DEF AtRest, Running
  <1>3. PICK how \in {"done", "failed"} : commands' = [commands EXCEPT ![w].pc = how]
    BY DEF Turned
  <1>4. [commands[w] EXCEPT !.pc = how] = [pc |-> how, card |-> 0]
    BY <1>1, <1>2 DEF Running
  <1>5. [pc |-> how, card |-> 0] \in Running
    BY DEF Running
  <1>6. UNCHANGED <<cards, outcomes>>
    BY DEF Turned
  <1> QED  BY <1>1, <1>3, <1>4, <1>5, <1>6, CommandKinds

LEMMA AsksKinds ==
    ASSUME ProfileKinds, NEW w \in Wishes, AskCreate(w) \/ AskAdd(w) \/ AskRemove(w) PROVE ProfileKinds'
  <1>1. AtRest(w) /\ UNCHANGED <<book, answering, told, crossed>>
    BY DEF AskCreate, AskAdd, AskRemove, RunsCreate, RunsAdd, RunsRemove
  <1>2. IsBook(book) /\ Bounded(book)
    BY KindsByPart
  <1>3. /\ CardOfCreate(w) \in Card /\ CardOfCreate(w).queued
        /\ CardOfAdd(w) \in Card /\ CardOfAdd(w).queued
        /\ CardOfRemove(w) \in Card /\ CardOfRemove(w).queued
    BY <1>2, NextIndexIsNat DEF CardOfCreate, CardOfAdd, CardOfRemove, Card
  <1>4. \/ \E card \in Card : card.queued /\ Queues(w, card)
        \/ \E answer : Turned(w, answer)
    BY <1>3 DEF AskCreate, AskAdd, AskRemove
  <1> QED  BY <1>1, <1>4, QueuesKinds, TurnedKinds

LEMMA PollsKinds ==
    ASSUME ProfileKinds, NEW w \in Wishes,
           \/ CreateEnds(w) \/ AddEnds(w) \/ RemoveEnds(w)
           \/ CommandMissesResult(w) \/ CommandLooks(w) \/ CommandGivesUp(w)
    PROVE  ProfileKinds'
  <1>1. commands \in [Wishes -> Running] /\ outcomes \in [DOMAIN cards -> Outcome] /\ "none" \in Outcome
    BY KindsByPart DEF Outcome
  <1>2. [pc |-> "failed", card |-> 0] \in Running /\ [pc |-> "done", card |-> 0] \in Running
    BY DEF Running
  <1>3. commands[w].pc \in {"polling", "missed"} => commands[w].card \in DOMAIN cards
    BY <1>1 DEF Running
  <1>4. CASE CreateEnds(w) \/ AddEnds(w) \/ RemoveEnds(w)
    <2>1. /\ commands[w].pc = "polling" /\ TakesOutcome(commands[w].card)
          /\ UNCHANGED <<book, cards, answering, told, crossed>>
      BY <1>4 DEF CreateEnds, AddEnds, RemoveEnds, CommandEnds
    <2>2. PICK to \in Running : commands' = [commands EXCEPT ![w] = to]
      BY <1>2, <1>4 DEF CreateEnds, AddEnds, RemoveEnds, CommandEnds
    <2>3. /\ outcomes' \in [DOMAIN cards -> Outcome]
          /\ \A n \in DOMAIN cards : outcomes'[n] \in {outcomes[n], "none"}
      BY <1>1, <1>3, <2>1 DEF TakesOutcome
    <2> QED  BY <2>1, <2>2, <2>3, CommandKinds
  <1>5. CASE CommandMissesResult(w) \/ CommandLooks(w) \/ CommandGivesUp(w)
    <2>1. UNCHANGED <<book, cards, outcomes, answering, told, crossed>>
      BY <1>5 DEF CommandMissesResult, CommandLooks, CommandGivesUp
    <2>2. commands[w].pc \in {"polling", "missed"} =>
              /\ [commands[w] EXCEPT !.pc = "missed"] \in Running
              /\ [commands[w] EXCEPT !.pc = "polling"] \in Running
      BY <1>1, <1>3 DEF Running
    <2>3. PICK to \in Running : commands' = [commands EXCEPT ![w] = to]
      BY <1>1, <1>2, <1>5, <2>2 DEF CommandMissesResult, CommandLooks, CommandGivesUp
    <2> QED  BY <1>1, <2>1, <2>3, CommandKinds
  <1> QED  BY <1>4, <1>5

(***************************************************************************)
(* Answers.                                                                *)
(***************************************************************************)
LEMMA TakesKinds ==
    ASSUME ProfileKinds, NEW a \in Answerers, NEW n \in DOMAIN cards,
           NEW says \in {"approved", "denied", "garbled"}, AnswerTakesCard(a, n, says)
    PROVE  ProfileKinds'
  <1>1. cards \in Seq(Card) /\ AnswerKinds
    BY KindsByPart
  <1>2. /\ cards' \in Seq(Card) /\ DOMAIN cards' = DOMAIN cards /\ Len(cards') = Len(cards)
        /\ \A m \in DOMAIN cards : cards'[m].queued => cards[m].queued
        /\ ~cards'[n].queued
    <2>0. cards[n] \in Card
      BY <1>1
    <2>1. [cards[n] EXCEPT !.queued = FALSE] \in Card /\ ~[cards[n] EXCEPT !.queued = FALSE].queued
      BY <2>0, CardOff
    <2>2. PICK card \in Card : ~card.queued /\ cards' = [cards EXCEPT ![n] = card]
      BY <2>1 DEF AnswerTakesCard
    <2> QED  BY <1>1, <2>2
  <1>3. /\ answering' = [answering EXCEPT ![a] = [pc |-> "taken", card |-> n, says |-> says]]
        /\ UNCHANGED <<book, outcomes, commands, told, crossed>>
    BY DEF AnswerTakesCard
  <1>4. AnswerKinds'
    BY <1>1, <1>2, <1>3 DEF AnswerKinds, Answering, Working
  <1>5. /\ \A m \in DOMAIN cards' : cards'[m].queued => outcomes'[m] = "none"
        /\ Running' = Running
    BY <1>2, <1>3, KindsByPart DEF Running
  <1> QED  BY <1>2, <1>3, <1>4, <1>5, KindsByPart

\* An answer is stored; what it made of the book and reported is of its kind.
LEMMA StoresKinds ==
    ASSUME ProfileKinds, NEW a \in Answerers, answering[a] # IdleAnswer, NEW status \in Outcome, Stores(a, status),
           UNCHANGED <<cards, commands>>, IsBook(book'), Bounded(book')
    PROVE  ProfileKinds'
  <1>1. cards \in Seq(Card) /\ AnswerKinds /\ outcomes \in [DOMAIN cards -> Outcome] /\ told \subseteq Fact
        /\ crossed \subseteq Answerers
    BY KindsByPart
  <1> DEFINE n == answering[a].card
  <1>2. n \in DOMAIN cards /\ ~cards[n].queued
    BY <1>1 DEF AnswerKinds, Working
  <1>3. /\ outcomes' = [outcomes EXCEPT ![n] = status]
        /\ answering' = [answering EXCEPT ![a] = IdleAnswer]
        /\ told' = told \/ told' = Learned(cards[n].wish) \/ told' = Unlearned(cards[n].wish)
        /\ crossed' = crossed \ {a}
    <2>1. status = "approved" => a \in crossed \/ a \notin crossed
      OBVIOUS
    <2> QED  BY <2>1 DEF Stores
  <1>4. told' \subseteq Fact /\ crossed' \subseteq Answerers
    <2> DEFINE w == cards[n].wish
    <2>0. cards[n] \in Card
      BY <1>1, <1>2
    <2>1. w \in Wish
      BY <2>0, CardWish
    <2> HIDE DEF w
    <2>2. CASE w.op = "create"
      <3>1. \A p \in book' : p.id \in ProfileIds
        BY DEF IsBook, Profile
      <3>2. {[fact |-> "made", id |-> p.id] : p \in {q \in book' : q.name = w.name}} \subseteq Fact
        BY <3>1 DEF Fact
      <3> QED  BY <1>1, <1>3, <2>2, <3>2 DEF w, Learned, Unlearned
    <2>3. CASE w.op \in {"add", "remove"}
      <3>1. w.id \in ProfileIds /\ w.device \in DeviceIds
        BY <2>1, <2>3 DEF Wish
      <3>2. \A f \in {"in", "out"} : [fact |-> f, id |-> w.id, device |-> w.device] \in Fact
        BY <3>1 DEF Fact
      <3> QED  BY <1>1, <1>3, <2>3, <3>2 DEF w, Learned, Unlearned
    <2> QED  BY <2>1, <2>2, <2>3 DEF Wish
  <1>5. AnswerKinds'
    BY <1>1, <1>3 DEF AnswerKinds, Answering, Working
  <1>6. /\ outcomes' \in [DOMAIN cards' -> Outcome] /\ Running' = Running
        /\ \A m \in DOMAIN cards' : cards'[m].queued => outcomes'[m] = "none"
    BY <1>1, <1>2, <1>3, KindsByPart DEF Running
  <1> QED  BY <1>4, <1>5, <1>6, KindsByPart

LEMMA LoadsKinds == ASSUME ProfileKinds, NEW a \in Answerers, AnswerLoads(a) PROVE ProfileKinds'
  <1> DEFINE n == answering[a].card
  <1>1. AnswerKinds /\ IsBook(book) /\ Bounded(book) /\ answering[a] # IdleAnswer
    BY KindsByPart DEF AnswerLoads, IdleAnswer
  <1>2. n \in DOMAIN cards /\ ~cards[n].queued
    BY <1>1 DEF AnswerKinds, Working
  <1>3. /\ answering' = [answering EXCEPT ![a] = [pc |-> "loaded", card |-> n, seen |-> book]]
        /\ UNCHANGED <<book, cards, outcomes, commands, told>>
    BY DEF AnswerLoads
  <1>4. AnswerKinds'
    BY <1>1, <1>2, <1>3 DEF AnswerKinds, Answering, Working
  <1>5. Running' = Running
    BY <1>3 DEF Running
  <1>6. crossed' \subseteq Answerers
    BY KindsByPart DEF AnswerLoads
  <1> QED  BY <1>3, <1>4, <1>5, <1>6, KindsByPart

LEMMA FailsKinds ==
    ASSUME ProfileKinds, NEW a \in Answerers,
           AnswerDenied(a) \/ MisattestsCreate(a) \/ MisattestsAdd(a) \/ MisattestsRemove(a) \/ CannotApply(a)
    PROVE  ProfileKinds'
  <1>1. PICK status \in Outcome : Stores(a, status)
    BY DEF AnswerDenied, MisattestsCreate, MisattestsAdd, MisattestsRemove, Misattests, CannotApply, AfterFailedWrite,
           Outcome
  <1>2. UNCHANGED <<book, cards, commands>> /\ answering[a] # IdleAnswer
    BY DEF AnswerDenied, MisattestsCreate, MisattestsAdd, MisattestsRemove, Misattests, CannotApply, IdleAnswer
  <1>3. IsBook(book') /\ Bounded(book')
    BY <1>2, KindsByPart
  <1> QED  BY <1>1, <1>2, <1>3, StoresKinds

LEMMA ApplyKinds ==
    ASSUME ProfileKinds, NEW a \in Answerers, ApplyCreate(a) \/ ApplyAdd(a) \/ ApplyRemove(a) PROVE ProfileKinds'
  <1> DEFINE n == answering[a].card
             w == cards[n].wish
             b == answering[a].seen
  <1>1. answering[a].pc = "loaded" /\ answering[a] # IdleAnswer /\ UNCHANGED <<cards, commands>>
    BY DEF ApplyCreate, ApplyAdd, ApplyRemove, Applies, IdleAnswer
  <1>2. n \in DOMAIN cards /\ IsBook(b) /\ Bounded(b)
    BY <1>1, KindsByPart DEF AnswerKinds, Answering, Working
  <1>0. cards[n] \in Card
    BY <1>2, KindsByPart
  <1>3. cards[n] \in Card /\ w \in Wish
    BY <1>0, CardWish
  <1>4. PICK next : SavesBook(a, next) /\ IsBook(next) /\ Bounded(next)
    <2>0. \A p \in b : p \in Profile /\ p.index \in Nat
      BY <1>2 DEF IsBook, Profile
    <2>1. CASE ApplyCreate(a)
      <3>1. SavesBook(a, Created(b, w, cards[n].index)) /\ w.op = "create"
        BY <2>1 DEF ApplyCreate, Applies
      <3> DEFINE row == [id |-> w.id, name |-> w.name, index |-> cards[n].index, devices |-> {},
                         quorum |-> 1, revoked |-> FALSE]
      <3>2. row \in Profile /\ row.index \in Nat
        BY <1>3, <3>1 DEF Wish, Profile, Card
      <3>3. Created(b, w, cards[n].index) \in {b, b \union {row}}
        BY DEF Created
      <3> HIDE DEF row, b, w, n
      <3>4. IsBook(b \union {row}) /\ Bounded(b \union {row})
        BY <1>2, <2>0, <3>2, MoreBounded DEF IsBook
      <3> QED  BY <1>2, <3>1, <3>3, <3>4
    <2>2. CASE ApplyAdd(a)
      <3>1. SavesBook(a, DeviceAdded(b, w)) /\ w.op = "add" /\ HasProfile(b, w.id)
        BY <2>2 DEF ApplyAdd, Applies, AddFits
      <3> DEFINE p == ProfileOf(b, w.id)
                 q == [p EXCEPT !.devices = @ \union {w.device}, !.quorum = 1]
      <3>2. p \in b
        BY <3>1, RowOf
      <3>3. p \in Profile /\ w.device \in DeviceIds
        BY <1>3, <2>0, <3>1, <3>2 DEF Wish
      <3> HIDE DEF b, w, n
      <3>4. DeviceAdded(b, w) \in {b, (b \ {p}) \union {q}}
        BY DEF DeviceAdded
      <3> HIDE DEF p
      <3>5. q \in Profile
        BY <3>3, RowAs, GivenDevices
      <3> HIDE DEF q
      <3>6. IsBook((b \ {p}) \union {q}) /\ Bounded((b \ {p}) \union {q})
        BY <1>2, <3>5, RowTaken
      <3> QED  BY <1>2, <3>1, <3>4, <3>6
    <2>3. CASE ApplyRemove(a)
      <3>1. SavesBook(a, DeviceRemoved(b, w)) /\ HasProfile(b, w.id)
        BY <2>3 DEF ApplyRemove, Applies, RemoveFits
      <3> DEFINE p == ProfileOf(b, w.id)
                 q == [p EXCEPT !.devices = @ \ {w.device}]
      <3>2. p \in b
        BY <3>1, RowOf
      <3>3. p \in Profile
        BY <2>0, <3>2
      <3> HIDE DEF b, w, n
      <3>4. DeviceRemoved(b, w) = (b \ {p}) \union {q}
        BY DEF DeviceRemoved
      <3> HIDE DEF p
      <3>5. q \in Profile
        BY <3>3, RowAs, LeftDevices
      <3> HIDE DEF q
      <3>6. IsBook((b \ {p}) \union {q}) /\ Bounded((b \ {p}) \union {q})
        BY <1>2, <3>5, RowTaken
      <3> QED  BY <3>1, <3>4, <3>6
    <2> QED  BY <2>1, <2>2, <2>3
  <1>5. IsBook(book') /\ Bounded(book')
    BY <1>4, KindsByPart DEF SavesBook
  <1> QED  BY <1>1, <1>4, <1>5, StoresKinds DEF SavesBook, Outcome

(***************************************************************************)
(* The clock, the host and the process.                                    *)
(***************************************************************************)
LEMMA LapseKinds == ASSUME ProfileKinds, NEW n \in DOMAIN cards, CardOrResultLapses(n) PROVE ProfileKinds'
  <1>1. cards \in Seq(Card) /\ outcomes \in [DOMAIN cards -> Outcome] /\ "none" \in Outcome
    BY KindsByPart DEF Outcome
  <1>2. /\ cards' \in Seq(Card) /\ DOMAIN cards' = DOMAIN cards /\ Len(cards') = Len(cards)
        /\ \A m \in DOMAIN cards : cards'[m].queued => cards[m].queued
    <2>0. cards[n] \in Card
      BY <1>1
    <2>1. [cards[n] EXCEPT !.queued = FALSE] \in Card /\ ~[cards[n] EXCEPT !.queued = FALSE].queued
      BY <2>0, CardOff
    <2>2. PICK card \in Card : ~card.queued /\ cards' = [cards EXCEPT ![n] = card]
      BY <2>1 DEF CardOrResultLapses
    <2> QED  BY <1>1, <2>2
  <1>3. outcomes' = [outcomes EXCEPT ![n] = "none"] /\ UNCHANGED <<book, answering, commands, told, crossed>>
    BY DEF CardOrResultLapses
  <1>4. AnswerKinds'
    BY <1>2, <1>3, KindsByPart, MoreCards
  <1>5. /\ outcomes' \in [DOMAIN cards' -> Outcome] /\ Running' = Running
        /\ \A m \in DOMAIN cards' : cards'[m].queued => outcomes'[m] = "none"
    BY <1>1, <1>2, <1>3, KindsByPart DEF Running
  <1> QED  BY <1>2, <1>3, <1>4, <1>5, KindsByPart

LEMMA MarkedKinds == ASSUME ProfileKinds, NEW p \in book, MarkRevoked(p) PROVE ProfileKinds'
  <1> DEFINE q == [p EXCEPT !.revoked = TRUE, !.devices = {}, !.quorum = 1]
  <1>1. IsBook(book) /\ Bounded(book) /\ AnswerKinds /\ told \subseteq Fact
    BY KindsByPart
  <1>2. p \in Profile
    BY <1>1 DEF IsBook
  <1>3. q \in Profile
    BY <1>2, MarkedRow
  <1>4. book' = (book \ {p}) \union {q}
    BY DEF MarkRevoked
  <1> HIDE DEF q
  <1>5. IsBook(book') /\ Bounded(book')
    BY <1>1, <1>3, <1>4, RowTaken
  <1>6. told' \subseteq Fact /\ UNCHANGED <<cards, outcomes, answering, commands, crossed>>
    BY <1>1 DEF MarkRevoked
  <1>7. AnswerKinds' /\ Running' = Running
    BY <1>1, <1>6, MoreCards DEF Running
  <1> QED  BY <1>5, <1>6, <1>7, KindsByPart

LEMMA RestartKinds == ASSUME ProfileKinds, BootloaderRestarts PROVE ProfileKinds'
  <1>1. cards \in Seq(Card) /\ outcomes \in [DOMAIN cards -> Outcome] /\ "none" \in Outcome /\ AnswerKinds
    BY KindsByPart DEF Outcome
  <1>2. /\ cards' \in Seq(Card) /\ DOMAIN cards' = DOMAIN cards /\ Len(cards') = Len(cards)
    <2>0. \A n \in DOMAIN cards : cards[n] \in Card
      BY <1>1
    <2>1. \A n \in DOMAIN cards : [cards[n] EXCEPT !.queued = FALSE] \in Card
      BY <2>0, CardOff
    <2>2. DOMAIN cards = 1..Len(cards) /\ Len(cards) \in Nat
      BY <1>1
    <2>3. CASE CardsLast
      BY <1>1, <2>3 DEF BootloaderRestarts
    <2>4. CASE ~CardsLast
      <3>1. cards' = [n \in DOMAIN cards |-> [cards[n] EXCEPT !.queued = FALSE]]
        BY <2>4 DEF BootloaderRestarts
      <3>2. cards' \in [1..Len(cards) -> Card]
        BY <2>1, <2>2, <3>1
      <3> QED  BY <2>2, <3>2
    <2> QED  BY <2>3, <2>4
  <1>3. /\ outcomes' \in [DOMAIN cards' -> Outcome]
        /\ \A n \in DOMAIN cards' : cards'[n].queued => outcomes'[n] = "none"
    BY <1>1, <1>2, KindsByPart DEF BootloaderRestarts
  <1>4. AnswerKinds'
    BY DEF BootloaderRestarts, AnswerKinds
  <1>5. UNCHANGED <<book, commands, told>> /\ crossed' = {} /\ Running' = Running
    BY <1>2 DEF BootloaderRestarts, Running
  <1> QED  BY <1>2, <1>3, <1>4, <1>5, KindsByPart

\* Books, cards, results, answers and commands keep their types, also where approvals
\* overlap and on either store: a card that is being answered is off the queue, so no
\* result meets a queued card.
THEOREM ProfilesTypes == ProfilesSpec => []ProfilesTypeOK
  <1>1. ProfilesInit => ProfileKinds
    <2> SUFFICES ASSUME ProfilesInit PROVE ProfileKinds
      OBVIOUS
    <2>1. IsBook(book) /\ Bounded(book)
      BY ProfilesAssumption, FiniteBounded DEF ProfilesInit
    <2>2. /\ cards = <<>> /\ outcomes = <<>> /\ told = {} /\ crossed = {} /\ MaxCards \in Nat
          /\ answering = [a \in Answerers |-> IdleAnswer] /\ commands = [w \in Wishes |-> Idle_]
      BY ProfilesAssumption DEF ProfilesInit
    <2>3. cards \in Seq(Card) /\ Len(cards) <= MaxCards /\ outcomes \in [DOMAIN cards -> Outcome] /\ DOMAIN cards = {}
      BY <2>2
    <2>4. commands \in [Wishes -> [pc : {"idle", "done", "failed"}, card : {0}]]
      BY <2>2 DEF Idle_
    <2> QED  BY <2>1, <2>2, <2>3, <2>4 DEF ProfileKinds, ProfilesTypeOK
  <1>2. ProfileKinds /\ [ProfilesNext]_profileVars => ProfileKinds'
    <2> SUFFICES ASSUME ProfileKinds, [ProfilesNext]_profileVars PROVE ProfileKinds'
      OBVIOUS
    <2>1. CASE UNCHANGED profileVars
      BY <2>1 DEF profileVars, ProfileKinds, ProfilesTypeOK, Working
    <2>2. CASE ProfilesNext
      BY <2>2, AsksKinds, PollsKinds, TakesKinds, FailsKinds, LoadsKinds, ApplyKinds, LapseKinds, MarkedKinds,
         RestartKinds DEF ProfilesNext
    <2> QED  BY <2>1, <2>2
  <1>3. ProfileKinds => ProfilesTypeOK
    BY DEF ProfileKinds
  <1> QED  BY <1>1, <1>2, <1>3, PTL DEF ProfilesSpec

HIDE DEF profileHistory

(***************************************************************************)
(* Vaults.                                                                 *)
(***************************************************************************)
\* What a change under way is, by how far it is.
LEMMA ChangeKinds ==
    ASSUME VaultTypeOK, NEW h \in VaultHandlers
    PROVE  /\ handlers[h].pc = "checked" => handlers[h].grant \in VaultGrants /\ handlers[h].order \in Order
           /\ handlers[h].pc = "admitted" => handlers[h].order \in Order /\ handlers[h].auth \in Authority
           /\ handlers[h].pc \in {"loaded", "written"} =>
                  handlers[h] \in [pc : {"loaded", "written"}, order : Order, auth : Authority, seen : Rows]
  <1>1. handlers[h] \in ChangesOf
    BY DEF VaultTypeOK, ChangesOf
  <1> QED  BY <1>1 DEF ChangesOf, VaultIdle

LEMMA GoesTyped ==
    ASSUME VaultTypeOK, NEW h \in VaultHandlers, NEW to \in ChangesOf, Goes(h, to)
    PROVE  handlers' \in [VaultHandlers -> ChangesOf]
  BY DEF VaultTypeOK, ChangesOf, Goes

LEMMA OrderParts ==
    ASSUME NEW order \in Order
    PROVE  /\ order.key \in VaultKeys
           /\ order.op = "set" => order.value \in VaultValues
  BY DEF Order

\* A change goes on and the file, the values and the answers stay.
LEMMA OnlyGoes ==
    ASSUME VaultTypeOK, handlers' \in [VaultHandlers -> ChangesOf],
           UNCHANGED <<rows, secrets, acted, answered>>,
           spentFile' \subseteq spent' /\ spent' \subseteq VaultGrants,
           mixed' \subseteq VaultHandlers /\ copied' \subseteq VaultGrants
    PROVE  VaultTypeOK'
  BY DEF VaultTypeOK, ChangesOf

LEMMA VaultTypesBegin ==
    ASSUME VaultTypeOK, NEW h \in VaultHandlers,
           \/ SetAsked(h) \/ EditAsked(h) \/ DeleteAsked(h)
           \/ \E g \in VaultGrants, order \in Order : ActArrives(h, g, order)
    PROVE  VaultTypeOK'
  <1>1. PICK to \in ChangesOf : Goes(h, to)
    <2>1. CASE SetAsked(h) \/ EditAsked(h) \/ DeleteAsked(h)
      <3>1. PICK order \in Order : Goes(h, [pc |-> "admitted", order |-> order, auth |-> NoGrant])
        BY <2>1 DEF SetAsked, EditAsked, DeleteAsked, Asked
      <3>2. [pc |-> "admitted", order |-> order, auth |-> NoGrant] \in ChangesOf
        BY DEF ChangesOf, Authority
      <3> QED  BY <3>1, <3>2
    <2>2. ASSUME NEW g \in VaultGrants, NEW order \in Order, ActArrives(h, g, order)
          PROVE  \E to \in ChangesOf : Goes(h, to)
      <3>1. [pc |-> "checked", grant |-> g, order |-> order] \in ChangesOf
        BY DEF ChangesOf
      <3> QED  BY <2>2, <3>1 DEF ActArrives
    <2> QED  BY <2>1, <2>2
  <1>2. UNCHANGED <<rows, secrets, spent, spentFile, acted, answered>>
    BY DEF SetAsked, EditAsked, DeleteAsked, Asked, ActArrives, vaultHistory
  <1>3. /\ spentFile \subseteq spent /\ spent \subseteq VaultGrants
        /\ mixed' \subseteq VaultHandlers /\ copied' \subseteq VaultGrants
    BY DEF SetAsked, EditAsked, DeleteAsked, Asked, ActArrives, vaultHistory, VaultTypeOK
  <1> QED  BY <1>1, <1>2, <1>3, GoesTyped, OnlyGoes

LEMMA VaultTypesSpend ==
    ASSUME VaultTypeOK, NEW h \in VaultHandlers, ActSpends(h) \/ ActCannotSpend(h) PROVE VaultTypeOK'
  <1> DEFINE j == handlers[h]
  <1>1. j.grant \in VaultGrants /\ j.order \in Order
    BY ChangeKinds DEF ActSpends, ActCannotSpend
  <1>2. /\ VaultIdle \in ChangesOf
        /\ [pc |-> "admitted", order |-> j.order, auth |-> By(j.grant)] \in ChangesOf
    BY <1>1 DEF ChangesOf, Authority
  <1>3. PICK to \in ChangesOf : Goes(h, to)
    BY <1>2 DEF ActSpends, ActCannotSpend, Ends
  <1>4. spentFile \subseteq spent /\ spent \subseteq VaultGrants
    BY DEF VaultTypeOK
  <1>5. spentFile' \subseteq spent' /\ spent' \subseteq VaultGrants /\ UNCHANGED <<rows, secrets, acted, answered, mixed, copied>>
    BY <1>1, <1>4 DEF ActSpends, ActCannotSpend, vaultHistory
  <1>6. mixed' \subseteq VaultHandlers /\ copied' \subseteq VaultGrants
    BY <1>5 DEF VaultTypeOK
  <1> QED  BY <1>3, <1>5, <1>6, GoesTyped, OnlyGoes

LEMMA VaultTypesLoad ==
    ASSUME VaultTypeOK, NEW h \in VaultHandlers, Loads(h) \/ ChangeFails(h) PROVE VaultTypeOK'
  <1> DEFINE j == handlers[h]
  <1>1. VaultIdle \in ChangesOf
    BY DEF ChangesOf
  <1>2. Loads(h) => [pc |-> "loaded", order |-> j.order, auth |-> j.auth, seen |-> rows] \in ChangesOf
    BY ChangeKinds DEF Loads, ChangesOf, VaultTypeOK
  <1>3. PICK to \in ChangesOf : Goes(h, to)
    BY <1>1, <1>2 DEF Loads, ChangeFails, ChangeEnds, Ends
  <1>4. UNCHANGED <<rows, secrets, spent, spentFile, acted, answered>>
    BY DEF Loads, ChangeFails
  <1>5. /\ spentFile \subseteq spent /\ spent \subseteq VaultGrants
        /\ mixed' \subseteq VaultHandlers /\ copied' \subseteq VaultGrants
    BY DEF Loads, ChangeFails, ChangeEnds, VaultTypeOK
  <1> QED  BY <1>3, <1>4, <1>5, GoesTyped, OnlyGoes

LEMMA VaultTypesWrite ==
    ASSUME VaultTypeOK, NEW h \in VaultHandlers, WritesSecret(h) \/ RemovesSecret(h) PROVE VaultTypeOK'
  <1> DEFINE j == handlers[h]
  <1>1. j \in [pc : {"loaded", "written"}, order : Order, auth : Authority, seen : Rows]
    BY ChangeKinds DEF WritesSecret, RemovesSecret
  <1>2. PICK value \in VaultValues \union {NoValue} : Backend(h, value)
    BY <1>1, OrderParts DEF WritesSecret, RemovesSecret
  <1>3. j.order \in Order /\ j.order.key \in VaultKeys
    BY <1>1, OrderParts
  <1>4. handlers' \in [VaultHandlers -> ChangesOf]
    <2>1. [j EXCEPT !.pc = "written"] \in ChangesOf
      BY <1>1 DEF ChangesOf
    <2> QED  BY <1>2, <2>1, GoesTyped DEF Backend
  <1>5. secrets' \in [VaultKeys -> VaultValues \union {NoValue}]
    BY <1>2, <1>3 DEF Backend, Writes, VaultTypeOK
  <1>6. answered' \in [VaultKeys -> {Unknown, SaidDeleted, SaidNothing} \union {SaidSet(v) : v \in VaultValues}]
    BY <1>2, <1>3 DEF Backend, VaultTypeOK
  <1>7. acted' \in [VaultGrants -> Seq(Order)]
    <2>1. acted \in [VaultGrants -> Seq(Order)]
      BY DEF VaultTypeOK
    <2>2. j.auth # NoGrant => j.auth.grant \in VaultGrants
      BY <1>1 DEF Authority, By
    <2>3. \A g \in VaultGrants : Append(acted[g], j.order) \in Seq(Order)
      BY <1>3, <2>1
    <2> QED  BY <1>2, <2>1, <2>2, <2>3 DEF Backend
  <1>8. /\ rows' \in Rows /\ spentFile' \subseteq spent' /\ spent' \subseteq VaultGrants
        /\ mixed' \subseteq VaultHandlers /\ copied' \subseteq VaultGrants
    BY <1>2 DEF Backend, VaultTypeOK
  <1> QED  BY <1>4, <1>5, <1>6, <1>7, <1>8 DEF VaultTypeOK, ChangesOf

LEMMA VaultTypesAnswer ==
    ASSUME VaultTypeOK, NEW h \in VaultHandlers, DeleteFindsNothing(h) \/ SavesRows(h) PROVE VaultTypeOK'
  <1> DEFINE j == handlers[h]
             Answers == {Unknown, SaidDeleted, SaidNothing} \union {SaidSet(v) : v \in VaultValues}
  <1>1. j \in [pc : {"loaded", "written"}, order : Order, auth : Authority, seen : Rows]
    BY ChangeKinds DEF DeleteFindsNothing, SavesRows
  <1>2. j.order \in Order /\ j.order.key \in VaultKeys /\ (j.order.op = "set" => j.order.value \in VaultValues)
    BY <1>1, OrderParts
  <1>3. handlers' \in [VaultHandlers -> ChangesOf]
    <2>1. VaultIdle \in ChangesOf /\ Goes(h, VaultIdle)
      BY DEF ChangesOf, DeleteFindsNothing, SavesRows, ChangeEnds, Ends
    <2> QED  BY <2>1, GoesTyped
  <1>4. answered \in [VaultKeys -> Answers]
    BY DEF VaultTypeOK
  <1>5. SaidNothing \in Answers /\ Said(h) \in Answers
    BY <1>2, <1>4 DEF Said
  <1> HIDE DEF Answers
  <1>6. answered' \in [VaultKeys -> Answers]
    BY <1>2, <1>4, <1>5 DEF DeleteFindsNothing, SavesRows
  <1>7. rows' \in Rows
    <2>1. rows \in Rows /\ j.seen \in Rows
      BY <1>1 DEF VaultTypeOK
    <2>2. NewRow(h) \in {NoRow, Row(FALSE), Row(TRUE)}
      <3>1. HasNow(h) \in BOOLEAN
        BY <1>1, <1>2 DEF HasNow, Rows, NoRow, Row
      <3> QED  BY <3>1 DEF NewRow
    <2> QED  BY <1>2, <2>1, <2>2 DEF DeleteFindsNothing, SavesRows, WithRow, Rows
  <1>8. UNCHANGED <<secrets, spent, spentFile, acted, copied>> /\ mixed' \subseteq VaultHandlers
    BY DEF DeleteFindsNothing, SavesRows, ChangeEnds, VaultTypeOK
  <1> QED  BY <1>3, <1>6, <1>7, <1>8 DEF VaultTypeOK, ChangesOf, Answers

LEMMA VaultTypesStop == ASSUME VaultTypeOK, BootloaderStops PROVE VaultTypeOK'
  BY DEF VaultTypeOK, BootloaderStops, ChangesOf

LEMMA VaultTypesStep == ASSUME VaultTypeOK, [VaultNext]_vaultVars PROVE VaultTypeOK'
  <1>1. CASE UNCHANGED vaultVars
    BY <1>1 DEF VaultTypeOK, vaultVars, vaultHistory
  <1>2. CASE VaultNext
    BY <1>2, VaultTypesBegin, VaultTypesSpend, VaultTypesLoad, VaultTypesWrite, VaultTypesAnswer, VaultTypesStop
       DEF VaultNext
  <1> QED  BY <1>1, <1>2

\* The rows, the values, the changes under way and the answers keep their types, also
\* where changes overlap.
THEOREM VaultTypes == VaultSpec => []VaultTypeOK
  <1>1. VaultInit => VaultTypeOK
    BY DEF VaultInit, VaultTypeOK, Rows, ChangesOf
  <1>2. VaultTypeOK /\ [VaultNext]_vaultVars => VaultTypeOK'
    BY VaultTypesStep
  <1> QED  BY <1>1, <1>2, PTL DEF VaultSpec

(***************************************************************************)
(* Scopes.                                                                 *)
(***************************************************************************)
\* A use is of a signed card, and nothing but the uses changes.
LEMMA UsesTyped ==
    ASSUME ScopesTypeOK, NEW i \in ScopeAsks, Holds(i), NEW action \in Actions, NEW audience,
           Uses(i, action, audience)
    PROVE  ScopesTypeOK'
  <1>1. asked[i] \in Cards
    BY DEF Holds, ScopesTypeOK
  <1>2. asked[i].claims.aud \subseteq Audiences
    BY <1>1, ScopesAssumption DEF Cards, IsClaims
  <1> QED  BY <1>2 DEF Uses, ScopesTypeOK

LEMMA AllowsActions == ASSUME ScopesTypeOK, NEW i \in ScopeAsks, Holds(i) PROVE asked[i].claims.allow \subseteq Actions
  <1>1. asked[i] \in Cards
    BY DEF Holds, ScopesTypeOK
  <1> QED  BY <1>1, ScopesAssumption DEF Cards, IsClaims

LEMMA ScopesTypesStep == ASSUME ScopesTypeOK, [ScopesNext]_scopeVars PROVE ScopesTypeOK'
  <1>1. ASSUME NEW i \in ScopeAsks, NEW a \in Agents, NEW c \in AskedClaims, NEW r, RequestCard(i, a, c, r)
        PROVE  ScopesTypeOK'
    <2> DEFINE card == [agent |-> a, claims |-> c, under |-> settings, signed |-> FALSE]
    <2>1. card \in Cards /\ card.agent \notin card.under.authOnly
      BY <1>1 DEF RequestCard, MayRaise, Cards, ScopesTypeOK
    <2>2. asked' = [asked EXCEPT ![i] = card] /\ UNCHANGED <<settings, copy, used>>
      BY <1>1 DEF RequestCard
    <2> HIDE DEF card
    <2> QED  BY <2>1, <2>2 DEF ScopesTypeOK
  <1>2. ASSUME NEW i \in ScopeAsks, SignCard(i) PROVE ScopesTypeOK'
    <2> DEFINE card == [asked[i] EXCEPT !.signed = TRUE]
    <2>1. asked[i] \in Cards /\ asked[i].agent \notin asked[i].under.authOnly
      BY <1>2 DEF SignCard, ScopesTypeOK
    <2>2. card \in Cards /\ card.agent = asked[i].agent /\ card.under = asked[i].under
      BY <2>1 DEF Cards
    <2>3. asked' = [asked EXCEPT ![i] = card] /\ UNCHANGED <<settings, copy, used>>
      BY <1>2 DEF SignCard
    <2> HIDE DEF card
    <2> QED  BY <2>1, <2>2, <2>3 DEF ScopesTypeOK
  <1>3. ASSUME NEW i \in ScopeAsks, NEW s \in ScopeServices, ReadSecret(i, s) PROVE ScopesTypeOK'
    BY <1>3, UsesTyped, ScopesAssumption DEF ReadSecret
  <1>4. ASSUME NEW i \in ScopeAsks, NEW r \in ActRecords, ActOnConnection(i, r) PROVE ScopesTypeOK'
    <2>1. r.act \in Actions
      BY <1>4, AllowsActions DEF ActOnConnection, AdmitsAct
    <2> QED  BY <1>4, <2>1, UsesTyped DEF ActOnConnection
  <1>5. ASSUME NEW i \in ScopeAsks, RelayPairing(i) PROVE ScopesTypeOK'
    BY <1>5, AllowsActions, UsesTyped DEF RelayPairing
  <1>6. ASSUME NEW i \in ScopeAsks, NEW action \in Actions, NEW audience \in Audiences,
               ConsumerAdmits(i, action, audience)
        PROVE  ScopesTypeOK'
    BY <1>6, UsesTyped DEF ConsumerAdmits
  <1>7. CASE FetchManifest
    BY <1>7 DEF FetchManifest, ScopesTypeOK, Fetched
  <1>8. ASSUME NEW s \in Settings, RestartWith(s) PROVE ScopesTypeOK'
    BY <1>8 DEF RestartWith, ScopesTypeOK
  <1>9. CASE UNCHANGED scopeVars
    BY <1>9 DEF scopeVars, ScopesTypeOK
  <1> QED  BY <1>1, <1>2, <1>3, <1>4, <1>5, <1>6, <1>7, <1>8, <1>9 DEF ScopesNext

\* Cards are of agents that were not auth-only when they asked, and uses are of actions.
THEOREM ScopesTypes == ScopesSpec => []ScopesTypeOK
  <1>1. ScopesInit => ScopesTypeOK
    BY DEF ScopesInit, ScopesTypeOK
  <1>2. ScopesTypeOK /\ [ScopesNext]_scopeVars => ScopesTypeOK'
    BY ScopesTypesStep
  <1> QED  BY <1>1, <1>2, PTL DEF ScopesSpec

(***************************************************************************)
(* Pairing grants.                                                         *)
(***************************************************************************)
LEMMA PairTypesStep == ASSUME PairTypeOK, [PairNext]_pairVars PROVE PairTypeOK'
  <1> USE PairTimes DEF PairTypeOK, PairIdle, At, InForce
  <1>1. ASSUME NEW h \in PairHandlers, NEW g \in PairGrants, PairArrives(h, g) PROVE PairTypeOK'
    BY <1>1 DEF PairArrives, RequestOf
  <1>2. ASSUME NEW h \in PairHandlers, PairChecked(h) PROVE PairTypeOK'
    <2>1. pairings' \in [PairHandlers -> RequestOf]
      BY <1>2 DEF PairChecked, Leaves, RequestOf
    <2> QED  BY <1>2, <2>1 DEF PairChecked
  <1>3. ASSUME NEW h \in PairHandlers, PairSpends(h) \/ PairSpendFails(h) PROVE PairTypeOK'
    <2>1. pairings[h].grant \in PairGrants
      BY <1>3 DEF PairSpends, PairSpendFails, RequestOf
    <2>2. pairings' \in [PairHandlers -> RequestOf]
      BY <1>3 DEF PairSpends, PairSpendFails, Proceeds, Leaves, RequestOf
    <2> QED  BY <1>3, <2>1, <2>2 DEF PairSpends, PairSpendFails, Remembers
  <1>4. ASSUME NEW h \in PairHandlers, PairGoesNowhere(h) \/ PairAnswered(h) PROVE PairTypeOK'
    BY <1>4 DEF PairGoesNowhere, PairAnswered, Leaves, RequestOf
  <1>5. ASSUME NEW h \in PairHandlers, NEW c \in Consumers, PairRelays(h, c) PROVE PairTypeOK'
    <2>1. pairings[h].grant \in PairGrants
      BY <1>5 DEF PairRelays, RequestOf
    <2>2. pairings' \in [PairHandlers -> RequestOf]
      BY <1>5 DEF PairRelays, Proceeds, RequestOf
    <2>3. \A d \in Consumers : bindings'[d] \subseteq delivered'
      BY <1>5 DEF PairRelays, HandsOver
    <2> QED  BY <1>5, <2>1, <2>2, <2>3 DEF PairRelays, HandsOver
  <1>6. ASSUME NEW c \in Consumers, NEW g \in PairGrants, Unpairs(c, g) PROVE PairTypeOK'
    BY <1>6 DEF Unpairs
  <1>7. ASSUME NEW consumers \in SUBSET Consumers, PairingRestarts(consumers) PROVE PairTypeOK'
    BY <1>7 DEF PairingRestarts, RequestOf
  <1>8. CASE PairTick
    BY <1>8 DEF PairTick
  <1>9. CASE UNCHANGED pairVars
    BY <1>9 DEF pairVars
  <1> HIDE DEF PairTypeOK
  <1> QED  BY <1>1, <1>2, <1>3, <1>4, <1>5, <1>6, <1>7, <1>8, <1>9 DEF PairNext

\* Bindings are by grants that were handed over, also where the list's writes fail.
THEOREM PairTypes == PairSpec => []PairTypeOK
  <1>1. PairInit => PairTypeOK
    BY DEF PairInit, PairTypeOK, RequestOf
  <1>2. PairTypeOK /\ [PairNext]_pairVars => PairTypeOK'
    BY PairTypesStep
  <1> QED  BY <1>1, <1>2, PTL DEF PairSpec

(***************************************************************************)
(* Tokens, for every set of tokens, every exp, any number of concurrent    *)
(* reads and both stores.                                                  *)
(***************************************************************************)

(***************************************************************************)
(* The list and its file.                                                  *)
(***************************************************************************)
\* A list whose entries last no longer than their tokens.
Sound(l) == l \in [Jtis -> Nat] /\ \A j \in Jtis : l[j] <= ExpOf[j]

UseInv == TypeOK /\ Sound(saved) /\ (Durable => saved = list)

\* The exps of tokens, and those a revoke may carry, are numbers.
LEMMA Exps ==
    ASSUME NEW j \in Jtis, NEW early \in 0..EarlyExp
    PROVE  /\ ExpOf[j] \in Nat \ {0}
           /\ ExpOf[j] - early \in Nat
           /\ 0 < ExpOf[j] - early
           /\ ExpOf[j] - early <= ExpOf[j]
  <1>1. ExpOf[j] \in Nat /\ EarlyExp \in Nat /\ EarlyExp < ExpOf[j]
    BY UseAssumption
  <1> QED  BY <1>1, UseAssumption

\* Purging drops the entries whose time has come and leaves the others.
LEMMA PurgedIs ==
    ASSUME Sound(list)
    PROVE  /\ Sound(Purged)
           /\ \A j \in Jtis : Purged[j] = IF list[j] > clock THEN list[j] ELSE 0
  <1>1. \A j \in Jtis : ExpOf[j] \in Nat
    BY UseAssumption
  <1> QED  BY <1>1 DEF Sound, Purged

\* Adding an entry changes that entry alone, and on the file backend only if there is none.
LEMMA AddedIs ==
    ASSUME Sound(list), NEW j \in Jtis, NEW exp \in Nat, exp <= ExpOf[j]
    PROVE  /\ Sound(Added(j, exp))
           /\ \A i \in Jtis : i # j => Added(j, exp)[i] = Purged[i]
           /\ Added(j, exp)[j] = IF Purged[j] # 0 /\ ~Durable THEN Purged[j] ELSE exp
  <1>1. Sound(Purged)
    BY PurgedIs
  <1>2. CASE Purged[j] # 0 /\ ~Durable
    BY <1>1, <1>2 DEF Added
  <1>3. CASE ~(Purged[j] # 0 /\ ~Durable)
    BY <1>1, <1>3 DEF Added, Sound
  <1> QED  BY <1>2, <1>3

\* A restart reads the entries of the file that still stand.
LEMMA LoadedIs ==
    ASSUME Sound(saved)
    PROVE  /\ Sound(Loaded)
           /\ \A j \in Jtis : Loaded[j] = IF saved[j] > clock THEN saved[j] ELSE 0
  <1>1. \A j \in Jtis : ExpOf[j] \in Nat
    BY UseAssumption
  <1> QED  BY <1>1 DEF Sound, Loaded

(***************************************************************************)
(* What a step does to the list and the file.                              *)
(***************************************************************************)
\* The list was purged, or had an entry added; the file followed, unless the write failed.
Follows(l) == list' = l /\ Saves
Reloads == list' = (IF Durable THEN list ELSE Loaded) /\ UNCHANGED saved

ListStep ==
    \/ UNCHANGED <<list, saved>>
    \/ Follows(Purged)
    \/ \E j \in Jtis, early \in 0..EarlyExp :
           Follows(Added(j, ExpOf[j] - early)) \/ AddFails(j, ExpOf[j] - early)
    \/ Reloads

LEMMA NoEarly == 0 \in 0..EarlyExp /\ \A j \in Jtis : ExpOf[j] - 0 = ExpOf[j]
  BY UseAssumption

\* Every step of the system is one of these to the list.
LEMMA StepsOfTheList ==
    ASSUME TypeOK, [Next]_vars
    PROVE  ListStep
  <1>1. CASE UNCHANGED vars
    BY <1>1 DEF vars, ListStep
  <1>2. CASE \E r \in Readers, j \in Jtis : Verifies(r, j)
    BY <1>2 DEF Verifies, ListStep, Follows
  <1>3. CASE \E r \in Readers : Releases(r)
    <2>1. PICK r \in Readers : Releases(r)
      BY <1>3
    <2>2. readers[r].jti \in Jtis
      BY <2>1 DEF TypeOK, Releases, Idle
    <2>3. CASE readers[r].jti \in SingleUse
      BY <2>1, <2>2, <2>3, NoEarly DEF Releases, ListStep, Follows
    <2>4. CASE readers[r].jti \notin SingleUse
      BY <2>1, <2>4 DEF Releases, ListStep
    <2> QED  BY <2>3, <2>4
  <1>4. CASE \E r \in Readers : Refuses(r)
    <2>1. PICK r \in Readers : Refuses(r)
      BY <1>4
    <2>2. readers[r].jti \in Jtis
      BY <2>1 DEF TypeOK, Refuses, Idle
    <2> QED  BY <2>1, <2>2, NoEarly DEF Refuses, ListStep, Follows
  <1>5. CASE \E j \in Jtis, early \in 0..EarlyExp : Revoke(j, ExpOf[j] - early)
    BY <1>5 DEF Revoke, RevokeAnswered, RevokeFails, ListStep, Follows
  <1>6. CASE Restart
    BY <1>6 DEF Restart, ListStep, Reloads
  <1>7. CASE Tick
    BY <1>7 DEF Tick, ListStep
  <1> QED  BY <1>1, <1>2, <1>3, <1>4, <1>5, <1>6, <1>7 DEF Next

\* The list and the file stay sound, and on Postgres they are one.
LEMMA ListStaysSound ==
    ASSUME UseInv, [Next]_vars
    PROVE  /\ Sound(list') /\ Sound(saved')
           /\ Durable => saved' = list'
  <1>1. Sound(list) /\ Sound(saved) /\ Sound(Purged)
    BY PurgedIs DEF UseInv, TypeOK, Sound
  <1>2. ListStep
    BY StepsOfTheList DEF UseInv
  <1>0. Durable => saved = list
    BY DEF UseInv
  <1>3. CASE UNCHANGED <<list, saved>>
    BY <1>0, <1>1, <1>3
  <1>4. CASE Follows(Purged)
    BY <1>0, <1>1, <1>4 DEF Follows, Saves
  <1>5. CASE \E j \in Jtis, early \in 0..EarlyExp :
                 Follows(Added(j, ExpOf[j] - early)) \/ AddFails(j, ExpOf[j] - early)
    <2>1. PICK j \in Jtis, early \in 0..EarlyExp :
                 Follows(Added(j, ExpOf[j] - early)) \/ AddFails(j, ExpOf[j] - early)
      BY <1>5
    <2>2. Sound(Added(j, ExpOf[j] - early))
      BY <1>1, Exps, AddedIs
    <2>3. CASE Follows(Added(j, ExpOf[j] - early))
      BY <1>0, <1>1, <2>2, <2>3 DEF Follows, Saves
    <2>4. CASE AddFails(j, ExpOf[j] - early)
      BY <1>0, <1>1, <2>2, <2>4 DEF AddFails
    <2> QED  BY <2>1, <2>3, <2>4
  <1>6. CASE Reloads
    BY <1>0, <1>1, <1>6, LoadedIs DEF Reloads
  <1> QED  BY <1>2, <1>3, <1>4, <1>5, <1>6 DEF ListStep

(***************************************************************************)
(* Types.                                                                  *)
(***************************************************************************)
\* The reads, the releases and the revokes keep their types.
LEMMA ReadersStayTyped ==
    ASSUME TypeOK, [Next]_vars
    PROVE  /\ clock' \in 0..MaxTime
           /\ readers' \in [Readers -> {Idle} \union [pc : {"verified"}, jti : Jtis, late : BOOLEAN]]
           /\ released' \in [SingleUse -> Nat]
           /\ revoked' \subseteq Jtis
  <1> USE DEF TypeOK
  <1>1. CASE UNCHANGED vars
    BY <1>1 DEF vars
  <1>2. CASE \E r \in Readers, j \in Jtis : Verifies(r, j)
    BY <1>2 DEF Verifies
  <1>3. CASE \E r \in Readers : Releases(r)
    <2>1. PICK r \in Readers : Releases(r)
      BY <1>3
    <2>2. readers' \in [Readers -> {Idle} \union [pc : {"verified"}, jti : Jtis, late : BOOLEAN]]
      BY <2>1 DEF Releases
    <2>3. released' \in [SingleUse -> Nat]
      BY <2>1 DEF Releases
    <2> QED  BY <2>1, <2>2, <2>3 DEF Releases
  <1>4. CASE \E r \in Readers : Refuses(r)
    BY <1>4 DEF Refuses
  <1>5. CASE \E j \in Jtis, early \in 0..EarlyExp : Revoke(j, ExpOf[j] - early)
    BY <1>5 DEF Revoke, RevokeAnswered, RevokeFails
  <1>6. CASE Restart
    BY <1>6 DEF Restart
  <1>7. CASE Tick
    BY <1>7, UseAssumption DEF Tick
  <1> QED  BY <1>1, <1>2, <1>3, <1>4, <1>5, <1>6, <1>7 DEF Next

LEMMA UseInvStep == UseInv /\ [Next]_vars => UseInv'
  <1> SUFFICES ASSUME UseInv, [Next]_vars PROVE UseInv'
    OBVIOUS
  <1> QED  BY ListStaysSound, ReadersStayTyped DEF UseInv, TypeOK, Sound

\* The inductive invariant behind the types: the entries of the file, which a
\* restart makes the list, last no longer than their tokens either.
THEOREM UseInvariant == Spec => []UseInv
  <1>1. Init => UseInv
    BY UseAssumption DEF Init, UseInv, TypeOK, Sound, Idle
  <1> QED  BY <1>1, UseInvStep, PTL DEF Spec

\* Every variable keeps its type, and no entry of the list outlasts its token.
THEOREM UseTypes == Spec => []TypeOK
  <1>1. UseInv => TypeOK
    BY DEF UseInv
  <1> QED  BY <1>1, UseInvariant, PTL

(***************************************************************************)
(* A single-use token is spent once.                                       *)
(***************************************************************************)
\* While it lives, the token's entry is in the list, and in the file.
Entered(j) ==
    clock < ExpOf[j] => list[j] = ExpOf[j] /\ saved[j] = ExpOf[j]

\* What holds when a read can have been verified only while its token lives.
SpentInv ==
    /\ \A r \in Readers : readers[r] # Idle => clock < ExpOf[readers[r].jti]
    /\ \A j \in SingleUse : released[j] <= 1 /\ (released[j] = 1 => Entered(j))

LEMMA ClockGoesOn ==
    ASSUME TypeOK, [Next]_vars
    PROVE  clock <= clock' /\ (clock' = clock \/ Tick)
  <1>1. clock \in Nat
    BY UseAssumption DEF TypeOK
  <1>2. clock' = clock \/ Tick
    BY DEF Next, vars, Verifies, Releases, Refuses, Revoke, RevokeAnswered, RevokeFails, Restart
  <1> QED  BY <1>1, <1>2 DEF Tick

\* Neither the purge, nor a second entry, nor a failed write, nor a restart
\* takes away an entry that is held - on Postgres if every revoke carries the token's exp.
LEMMA HeldStays ==
    ASSUME UseInv, [Next]_vars, Durable => EarlyExp = 0, NEW j \in Jtis, Entered(j)
    PROVE  Entered(j)'
  <1> SUFFICES ASSUME clock' < ExpOf[j]
               PROVE  list'[j] = ExpOf[j] /\ saved'[j] = ExpOf[j]
    BY DEF Entered
  <1>1. Sound(list) /\ Sound(saved)
    BY DEF UseInv, TypeOK, Sound
  <1>2. clock < ExpOf[j] /\ clock \in Nat /\ ExpOf[j] \in Nat
    BY ClockGoesOn, UseAssumption DEF UseInv, TypeOK, Tick
  <1>3. list[j] = ExpOf[j] /\ saved[j] = ExpOf[j]
    BY <1>2 DEF Entered
  <1>4. Purged[j] = ExpOf[j] /\ ExpOf[j] # 0
    BY <1>1, <1>2, <1>3, PurgedIs, UseAssumption
  <1>5. ListStep
    BY StepsOfTheList DEF UseInv
  <1>6. CASE UNCHANGED <<list, saved>>
    BY <1>3, <1>6
  <1>7. CASE Follows(Purged)
    BY <1>3, <1>4, <1>7 DEF Follows, Saves
  <1>8. CASE \E i \in Jtis, early \in 0..EarlyExp :
                 Follows(Added(i, ExpOf[i] - early)) \/ AddFails(i, ExpOf[i] - early)
    <2>1. PICK i \in Jtis, early \in 0..EarlyExp :
                 Follows(Added(i, ExpOf[i] - early)) \/ AddFails(i, ExpOf[i] - early)
      BY <1>8
    <2>2. Durable => early = 0
      BY UseAssumption
    <2>3. Durable => ExpOf[i] - early = ExpOf[i]
      BY <2>2, NoEarly
    <2>4. Added(i, ExpOf[i] - early)[j] = ExpOf[j]
      <3>1. CASE i # j
        BY <1>1, <1>4, <3>1, Exps, AddedIs
      <3>2. CASE i = j
        BY <1>1, <1>4, <2>3, <3>2, Exps, AddedIs
      <3> QED  BY <3>1, <3>2
    <2>5. CASE Follows(Added(i, ExpOf[i] - early))
      BY <1>3, <2>4, <2>5 DEF Follows, Saves
    <2>6. CASE AddFails(i, ExpOf[i] - early)
      BY <1>3, <1>4, <2>4, <2>6 DEF AddFails
    <2> QED  BY <2>1, <2>5, <2>6
  <1>9. CASE Reloads
    BY <1>1, <1>2, <1>3, <1>9, LoadedIs DEF Reloads
  <1> QED  BY <1>5, <1>6, <1>7, <1>8, <1>9 DEF ListStep

\* A release finds the token not spent, and leaves it held.
LEMMA ReleaseSpends ==
    ASSUME UseInv, SpentInv, NEW r \in Readers, Releases(r), NEW j \in SingleUse, readers[r].jti = j
    PROVE  released[j] = 0 /\ Entered(j)'
  <1>1. j \in Jtis /\ readers[r] # Idle
    BY DEF UseInv, TypeOK, Releases, Idle
  <1>2. clock < ExpOf[j] /\ clock \in Nat /\ ExpOf[j] \in Nat \ {0} /\ Sound(list)
    BY <1>1, UseAssumption DEF SpentInv, UseInv, TypeOK, Sound
  <1>3. Purged[j] = 0 /\ list' = Added(j, ExpOf[j]) /\ Saves /\ clock' = clock
    BY DEF Releases, Spendable
  <1>4. list[j] # ExpOf[j]
    BY <1>1, <1>2, <1>3, PurgedIs
  <1>5. released[j] = 0
    BY <1>1, <1>2, <1>4 DEF SpentInv, Entered, UseInv, TypeOK
  <1>6. list'[j] = ExpOf[j]
    BY <1>1, <1>2, <1>3, AddedIs
  <1>7. saved'[j] = ExpOf[j]
    BY <1>3, <1>4, <1>6 DEF Saves
  <1> QED  BY <1>5, <1>6, <1>7 DEF Entered

LEMMA SpentInvStep ==
    ASSUME ~Stalls, Durable => EarlyExp = 0
    PROVE  UseInv /\ SpentInv /\ [Next]_vars => SpentInv'
  <1> SUFFICES ASSUME UseInv, SpentInv, [Next]_vars PROVE SpentInv'
    OBVIOUS
  <1>1. ASSUME NEW r \in Readers, readers'[r] # Idle
        PROVE  clock' < ExpOf[readers'[r].jti]
    <2>1. CASE Tick
      BY <1>1, <2>1 DEF Tick
    <2>2. CASE clock' = clock /\ readers'[r] = readers[r]
      BY <1>1, <2>2 DEF SpentInv
    <2>3. CASE readers'[r] # readers[r]
      <3>1. PICK j \in Jtis : Verifies(r, j)
        BY <1>1, <2>3 DEF UseInv, TypeOK, Next, vars, Verifies, Releases, Refuses, Revoke, RevokeAnswered,
           RevokeFails, Restart, Tick
      <3> QED  BY <3>1 DEF Verifies, UseInv, TypeOK
    <2> QED  BY <2>1, <2>2, <2>3, ClockGoesOn DEF UseInv
  <1>2. ASSUME NEW j \in SingleUse
        PROVE  released'[j] <= 1 /\ (released'[j] = 1 => Entered(j)')
    <2>1. j \in Jtis /\ released[j] \in Nat
      BY UseAssumption DEF UseInv, TypeOK
    <2>2. CASE released'[j] = released[j]
      BY <2>1, <2>2, HeldStays DEF SpentInv
    <2>3. CASE released'[j] # released[j]
      <3>1. PICK r \in Readers : Releases(r)
        BY <2>3 DEF Next, vars, Verifies, Refuses, Revoke, RevokeAnswered, RevokeFails, Restart, Tick
      <3>2. readers[r].jti = j /\ released'[j] = released[j] + 1
        BY <2>3, <3>1 DEF Releases, UseInv, TypeOK
      <3>3. released[j] = 0 /\ Entered(j)'
        BY <3>1, <3>2, ReleaseSpends
      <3> QED  BY <3>2, <3>3
    <2> QED  BY <2>2, <2>3
  <1> QED  BY <1>1, <1>2 DEF SpentInv

\* A single-use token reads a secret once, when no read that was verified is
\* still under way at the token's exp, and on Postgres no revoke carries
\* another exp than the token's.
THEOREM TokensSpentOnce ==
    ASSUME ~Stalls, Durable => EarlyExp = 0
    PROVE  Spec => []SpentOnce
  <1>1. Init => SpentInv
    BY UseAssumption DEF Init, SpentInv
  <1>2. UseInv /\ SpentInv /\ [Next]_vars => SpentInv'
    BY SpentInvStep
  <1>3. SpentInv => SpentOnce
    BY DEF SpentInv, SpentOnce
  <1> QED  BY <1>1, <1>2, <1>3, UseInvariant, PTL DEF Spec

(***************************************************************************)
(* Entries stand until their exp, and revokes outlive restarts.            *)
(***************************************************************************)
\* On Postgres an entry has its token's exp.
ListInv == Durable => \A j \in Jtis : list[j] > clock => list[j] = ExpOf[j]

\* What a step may do to an entry that stands is nothing, and ListInv is kept.
LEMMA EntryStands ==
    ASSUME UseInv, ListInv, [Next]_vars, Durable => EarlyExp = 0, NEW j \in Jtis
    PROVE  /\ Stands(j) => list'[j] = list[j]
           /\ Durable /\ list'[j] > clock' => list'[j] = ExpOf[j]
  <1>1. Sound(list) /\ Sound(saved) /\ clock \in Nat /\ clock' \in Nat
    BY ReadersStayTyped, UseAssumption DEF UseInv, TypeOK, Sound
  <1>2. Durable /\ list[j] > clock => list[j] = ExpOf[j]
    BY DEF ListInv
  <1>3. clock <= clock'
    BY ClockGoesOn DEF UseInv
  <1>4. list[j] \in Nat /\ saved[j] \in Nat /\ Purged[j] = IF list[j] > clock THEN list[j] ELSE 0
    BY <1>1, PurgedIs DEF Sound
  <1>5. ListStep
    BY StepsOfTheList DEF UseInv
  <1>6. CASE UNCHANGED <<list, saved>>
    BY <1>1, <1>2, <1>3, <1>4, <1>6
  <1>7. CASE Follows(Purged)
    BY <1>1, <1>2, <1>3, <1>4, <1>7 DEF Follows, Stands
  <1>8. CASE \E i \in Jtis, early \in 0..EarlyExp :
                 Follows(Added(i, ExpOf[i] - early)) \/ AddFails(i, ExpOf[i] - early)
    <2>1. PICK i \in Jtis, early \in 0..EarlyExp :
                 Follows(Added(i, ExpOf[i] - early)) \/ AddFails(i, ExpOf[i] - early)
      BY <1>8
    <2> DEFINE exp == ExpOf[i] - early
               added == Added(i, exp)
    <2>2. exp \in Nat /\ exp <= ExpOf[i]
      BY Exps
    <2>3. Durable => exp = ExpOf[i]
      BY NoEarly, UseAssumption
    <2>4. /\ i # j => added[j] = Purged[j]
          /\ i = j => added[j] = IF Purged[j] # 0 /\ ~Durable THEN Purged[j] ELSE exp
      BY <1>1, <2>2, AddedIs
    <2>5. list[j] > clock => added[j] = list[j]
      BY <1>1, <1>2, <1>4, <2>3, <2>4
    <2>6. Durable /\ added[j] > clock => added[j] = ExpOf[j]
      BY <1>1, <1>2, <1>4, <2>3, <2>4
    <2>7. CASE Follows(added)
      <3>1. list' = added
        BY <2>7 DEF Follows
      <3>2. added[j] \in Nat
        BY <1>1, <2>2, AddedIs DEF Sound
      <3>3. list'[j] > clock' => list'[j] > clock
        BY <1>1, <1>3, <3>1, <3>2
      <3> QED  BY <2>5, <2>6, <3>1, <3>3 DEF Stands
    <2>8. CASE AddFails(i, exp)
      <3>1. CASE Durable
        BY <1>1, <1>2, <1>3, <1>4, <2>8, <3>1 DEF AddFails, Stands
      <3>2. CASE ~Durable
        <4>1. list' = added \/ list' = Purged
          BY <2>8, <3>2 DEF AddFails
        <4> QED  BY <1>4, <2>5, <3>2, <4>1 DEF Stands
      <3> QED  BY <3>1, <3>2
    <2> QED  BY <2>1, <2>7, <2>8
  <1>9. CASE Reloads
    <2>1. CASE Durable
      BY <1>1, <1>2, <1>3, <1>4, <1>9, <2>1 DEF Reloads, Stands
    <2>2. CASE ~Durable
      <3>1. list'[j] = IF saved[j] > clock THEN saved[j] ELSE 0
        BY <1>1, <1>9, <2>2, LoadedIs DEF Reloads
      <3> QED  BY <2>2, <3>1 DEF Stands
    <2> QED  BY <2>1, <2>2
  <1> QED  BY <1>5, <1>6, <1>7, <1>8, <1>9 DEF ListStep

\* A written entry stands until its exp, also when later writes fail, if on
\* Postgres no revoke carries another exp than the token's.
THEOREM EntriesStandUntilExp ==
    ASSUME Durable => EarlyExp = 0
    PROVE  Spec => EntriesStand
  <1>1. Init => ListInv
    BY DEF Init, ListInv
  <1>2. UseInv /\ ListInv /\ [Next]_vars => ListInv'
    BY EntryStands DEF ListInv
  <1>3. UseInv /\ ListInv /\ [Next]_vars => [\A j \in Jtis : Stands(j) => list'[j] = list[j]]_vars
    BY EntryStands DEF vars, Stands
  <1> QED  BY <1>1, <1>2, <1>3, UseInvariant, PTL DEF Spec, EntriesStand

\* A revoked token's entry is held, and no read under way was begun after its revoke.
RevokedInv ==
    /\ \A j \in revoked : Entered(j)
    /\ \A r \in Readers : readers[r] # Idle => ~readers[r].late

LEMMA RevokedInvStep ==
    ASSUME Durable => EarlyExp = 0
    PROVE  UseInv /\ RevokedInv /\ [Next]_vars => RevokedInv'
  <1> SUFFICES ASSUME UseInv, RevokedInv, [Next]_vars PROVE RevokedInv'
    OBVIOUS
  <1>1. ASSUME NEW j \in revoked' PROVE Entered(j)'
    <2>1. j \in Jtis
      BY <1>1, ReadersStayTyped DEF UseInv
    <2>2. CASE j \in revoked
      BY <2>1, <2>2, HeldStays DEF RevokedInv
    <2>3. CASE j \notin revoked
      <3>1. list'[j] = ExpOf[j] /\ saved'[j] = ExpOf[j]
        BY <1>1, <2>3 DEF Next, vars, Verifies, Releases, Refuses, Revoke, RevokeAnswered, RevokeFails, Restart, Tick
      <3> QED  BY <3>1 DEF Entered
    <2> QED  BY <2>2, <2>3
  <1>2. ASSUME NEW r \in Readers, readers'[r] # Idle PROVE ~readers'[r].late
    <2>1. CASE readers'[r] = readers[r]
      BY <1>2, <2>1 DEF RevokedInv
    <2>2. CASE readers'[r] # readers[r]
      <3>1. PICK j \in Jtis : Verifies(r, j)
        BY <1>2, <2>2 DEF UseInv, TypeOK, Next, vars, Verifies, Releases, Refuses, Revoke, RevokeAnswered,
           RevokeFails, Restart, Tick
      <3>2. readers'[r].late = (j \in revoked)
        BY <3>1 DEF Verifies, UseInv, TypeOK
      <3>3. Sound(list) /\ clock < ExpOf[j] /\ Purged[j] = 0 /\ ExpOf[j] \in Nat \ {0}
        BY <3>1, UseAssumption DEF Verifies, UseInv, TypeOK, Sound
      <3>4. clock \in Nat
        BY UseAssumption DEF UseInv, TypeOK
      <3>5. list[j] # ExpOf[j]
        BY <3>3, <3>4, PurgedIs
      <3> QED  BY <3>2, <3>3, <3>5 DEF RevokedInv, Entered
    <2> QED  BY <2>1, <2>2
  <1> QED  BY <1>1, <1>2 DEF RevokedInv

\* No read begun after a revoke was answered and written gets the value, whatever
\* restarts and failed writes lie between.
THEOREM RevokesOutliveRestarts ==
    ASSUME Durable => EarlyExp = 0
    PROVE  Spec => RevokedStays
  <1>1. Init => RevokedInv
    BY DEF Init, RevokedInv
  <1>2. UseInv /\ RevokedInv /\ [Next]_vars => RevokedInv'
    BY RevokedInvStep
  <1>3. RevokedInv /\ [Next]_vars => [\A r \in Readers : Releases(r) => ~readers[r].late]_vars
    BY DEF RevokedInv, Releases, Idle
  <1> QED  BY <1>1, <1>2, <1>3, UseInvariant, PTL DEF Spec, RevokedStays

\* What was taken back stays taken back, in the list and for every later read.
THEOREM RevocationsAlwaysStand ==
    ASSUME Durable => EarlyExp = 0
    PROVE  Spec => RevocationsStand
  BY EntriesStandUntilExp, RevokesOutliveRestarts DEF RevocationsStand

(***************************************************************************)
(* Quorums: the count of members is the count of signatures that counted,  *)
(* for any roster, signers and order.                                      *)
(*                                                                         *)
(* QuorumCountsMembers is not inductive: it compares two counts, and they  *)
(* keep step because a key that signed before belongs to a member that is  *)
(* counted already.                                                        *)
(***************************************************************************)
QuorumInv ==
    /\ QuorumTypeOK
    /\ IsFiniteSet(satisfied) /\ IsFiniteSet(Signers)
    /\ Cardinality(satisfied) + unmatched = Len(presented)
    /\ Len(presented) <= MaxSignatures
    /\ \A i \in satisfied : roster[i] \in Signers
    /\ OwnKeys =>
          /\ satisfied = {i \in DOMAIN roster : roster[i] \in Signers}
          /\ Cardinality(satisfied) <= Cardinality(Signers)

LEMMA QuorumInvInit == ASSUME QuorumInit PROVE QuorumInv
  <1>1. presented = <<>> /\ satisfied = {} /\ unmatched = 0
    BY DEF QuorumInit
  <1>2. Signers = {}
    BY <1>1 DEF Signers
  <1> QED  BY <1>1, <1>2, FS_EmptySet, QuorumAssumption DEF QuorumInit, QuorumInv, QuorumTypeOK

\* What one more signature adds to the keys that signed.
LEMMA SignersGrow ==
    ASSUME presented \in Seq(Signatures), NEW s \in Signatures, presented' = Append(presented, s)
    PROVE  Signers' = IF s \in DOMAIN SignerOf THEN Signers \union {SignerOf[s]} ELSE Signers
  <1>1. {presented'[n] : n \in DOMAIN presented'} = {presented[n] : n \in DOMAIN presented} \union {s}
    <2>1. DOMAIN presented' = DOMAIN presented \union {Len(presented) + 1}
      OBVIOUS
    <2>2. \A n \in DOMAIN presented : presented'[n] = presented[n]
      OBVIOUS
    <2>3. presented'[Len(presented) + 1] = s
      OBVIOUS
    <2> QED  BY <2>1, <2>2, <2>3
  <1> QED  BY <1>1 DEF Signers

LEMMA PresentStep == ASSUME QuorumInv, NEW s \in Signatures, Present(s) PROVE QuorumInv'
  <1>1. presented' = Append(presented, s) /\ Len(presented) < MaxSignatures /\ UNCHANGED <<roster, needed>>
    BY DEF Present
  <1>2. presented \in Seq(Signatures) /\ unmatched \in Nat /\ MaxSignatures \in Nat /\ satisfied \subseteq DOMAIN roster
    BY QuorumAssumption DEF QuorumInv, QuorumTypeOK
  <1>3. Len(presented') = Len(presented) + 1 /\ presented' \in Seq(Signatures) /\ Len(presented) \in Nat
    BY <1>1, <1>2
  <1>4. Signers' = IF s \in DOMAIN SignerOf THEN Signers \union {SignerOf[s]} ELSE Signers
    BY <1>1, <1>2, SignersGrow
  <1>5. IsFiniteSet(Signers') /\ Signers \subseteq Signers'
    BY <1>4, FS_AddElement DEF QuorumInv
  <1>6. Cardinality(Signers) \in Nat /\ Cardinality(satisfied) \in Nat
    BY FS_CardinalityType DEF QuorumInv
  <1>7. PICK counted \in Fitting(s) :
            /\ satisfied' = satisfied \union counted
            /\ unmatched' = IF counted = {} THEN unmatched + 1 ELSE unmatched
    BY DEF Present
  <1>8. CASE counted = {}
    <2>1. \A i \in DOMAIN roster \ satisfied : ~FitsKey(i, s)
      BY <1>7, <1>8 DEF Fitting
    <2>2. satisfied' = satisfied /\ unmatched' = unmatched + 1
      BY <1>7, <1>8
    <2>3. Cardinality(Signers) <= Cardinality(Signers')
      BY <1>5, FS_Subset
    <2>4. ASSUME OwnKeys PROVE satisfied = {i \in DOMAIN roster : roster[i] \in Signers'}
      BY <2>1, <2>4, <1>4 DEF QuorumInv, FitsKey
    <2>5. IsFiniteSet(Signers') => Cardinality(Signers') \in Nat
      BY FS_CardinalityType
    <2>6. Cardinality(satisfied') + unmatched' = Len(presented')
      BY <2>2, <1>2, <1>3, <1>6 DEF QuorumInv
    <2>7. unmatched' \in 0 .. MaxSignatures
      BY <2>6, <2>2, <1>1, <1>2, <1>3, <1>6
    <2>8. ASSUME OwnKeys PROVE Cardinality(satisfied) <= Cardinality(Signers')
      BY <2>3, <2>5, <2>8, <1>5, <1>6 DEF QuorumInv
    <2>9. \A i \in satisfied : roster[i] \in Signers'
      BY <1>5 DEF QuorumInv
    <2> QED  BY <2>2, <2>4, <2>6, <2>7, <2>8, <2>9, <1>1, <1>2, <1>3, <1>5 DEF QuorumInv, QuorumTypeOK, OwnKeys
  <1>9. CASE counted # {}
    <2>1. PICK i \in DOMAIN roster \ satisfied : counted = {i} /\ FitsKey(i, s)
      BY <1>7, <1>9 DEF Fitting
    <2>2. satisfied' = satisfied \union {i} /\ unmatched' = unmatched /\ i \notin satisfied
      BY <1>7, <1>9, <2>1
    <2>3. IsFiniteSet(satisfied') /\ Cardinality(satisfied') = Cardinality(satisfied) + 1
      BY <2>2, FS_AddElement DEF QuorumInv
    <2>4. s \in DOMAIN SignerOf /\ roster[i] = SignerOf[s] /\ Signers' = Signers \union {roster[i]}
      BY <2>1, <1>4 DEF FitsKey
    <2>5. ASSUME OwnKeys
          PROVE  /\ satisfied' = {j \in DOMAIN roster : roster[j] \in Signers'}
                 /\ Cardinality(satisfied') <= Cardinality(Signers')
      <3>1. roster[i] \notin Signers
        BY <2>5, <2>2, <2>1 DEF QuorumInv
      <3>2. Cardinality(Signers') = Cardinality(Signers) + 1
        BY <3>1, <2>4, FS_AddElement DEF QuorumInv
      <3>3. satisfied' = {j \in DOMAIN roster : roster[j] \in Signers'}
        BY <2>5, <2>2, <2>4, <2>1 DEF QuorumInv, OwnKeys
      <3> QED  BY <3>2, <3>3, <2>3, <2>5, <1>6 DEF QuorumInv
    <2>6. \A j \in satisfied' : roster[j] \in Signers'
      BY <2>2, <2>4 DEF QuorumInv
    <2>7. Cardinality(satisfied') + unmatched' = Len(presented')
      BY <2>2, <2>3, <1>2, <1>3, <1>6 DEF QuorumInv
    <2> QED  BY <2>1, <2>2, <2>3, <2>5, <2>6, <2>7, <1>1, <1>2, <1>3, <1>5 DEF QuorumInv, QuorumTypeOK, OwnKeys
  <1> QED  BY <1>8, <1>9

\* The members counted are those whose keys have signed, where each has a key of its own.
THEOREM QuorumInvariant == QuorumSpec => []QuorumInv
  <1>1. QuorumInit => QuorumInv
    BY QuorumInvInit
  <1>2. QuorumInv /\ [QuorumNext]_quorumVars => QuorumInv'
    <2>1. QuorumInv /\ UNCHANGED quorumVars => QuorumInv'
      BY DEF QuorumInv, QuorumTypeOK, Possible, Signers, OwnKeys, quorumVars
    <2> QED  BY <2>1, PresentStep DEF QuorumNext
  <1> QED  BY <1>1, <1>2, PTL DEF QuorumSpec

\* A verdict's members, signatures and counts keep their types.
THEOREM QuorumTypes == QuorumSpec => []QuorumTypeOK
  <1>1. QuorumInv => QuorumTypeOK
    BY DEF QuorumInv
  <1> QED  BY <1>1, QuorumInvariant, PTL

\* A quorum is met only when enough members signed, and whom it counts does not depend on the order of the signatures,
\* for any roster and any signatures (quorum.py).
THEOREM QuorumsCountMembers == QuorumSpec => []QuorumCountsMembers
  <1>1. QuorumInv => QuorumCountsMembers
    <2> SUFFICES ASSUME QuorumInv PROVE QuorumCountsMembers
      OBVIOUS
    <2>1. Cardinality(Signers) \in Nat /\ Cardinality(satisfied) \in Nat
      BY FS_CardinalityType DEF QuorumInv
    <2>2. ASSUME OwnKeys, TopPlaneMet PROVE Cardinality(Signers) >= 2
      <3>1. PICK d \in satisfied : d # Passphrase
        BY <2>2 DEF TopPlaneMet
      <3>2. {Passphrase, d} \subseteq satisfied /\ Cardinality({Passphrase, d}) = 2
        <4>1. Cardinality({Passphrase}) = 1 /\ IsFiniteSet({Passphrase})
          BY FS_Singleton
        <4>2. Cardinality({Passphrase} \union {d}) = 2
          BY <4>1, <3>1, FS_AddElement
        <4>3. {Passphrase} \union {d} = {Passphrase, d}
          OBVIOUS
        <4> QED  BY <4>2, <4>3, <3>1, <2>2 DEF TopPlaneMet
      <3>3. Cardinality({Passphrase, d}) <= Cardinality(satisfied)
        BY <3>2, FS_Subset DEF QuorumInv
      <3> QED  BY <3>2, <3>3, <2>1, <2>2 DEF QuorumInv
    <2>3. ASSUME OwnKeys, Met PROVE Cardinality(Signers) >= needed
      BY <2>1, <2>3 DEF QuorumInv, Met, QuorumTypeOK, Possible
    <2> QED  BY <2>2, <2>3 DEF QuorumInv, QuorumCountsMembers
  <1> QED  BY <1>1, QuorumInvariant, PTL

(***************************************************************************)
(* What a phone's removal takes with it, for any number of phones, cards   *)
(* and requests under way.                                                 *)
(*                                                                         *)
(* None of the properties is inductive alone: they rest on what a request  *)
(* under way knows of the row and the card it found (CallsInv), and on     *)
(* what the holder of the registry lock keeps true between its two writes  *)
(* (LockInv).                                                              *)
(***************************************************************************)
\* What a call learnt from the store and still relies on.  An answer's card was
\* made once and is never made again, so off the queue it stays off, unless a
\* poll puts it back, which only cards with a window are.
CallOK(j) ==
    /\ j.pc \in {"idle", "push", "session", "request", "poll", "listed", "answer"}
    /\ j.pc = "push" => j.token \in PushTokens
    /\ j.pc # "idle" => j.phone \in RowPhones
    /\ j.pc = "request" => j.card \in WaitCards /\ CardFor[j.card] = j.phone
    /\ j.pc = "listed" => \A c \in j.cards : c \in made \union EntryCards /\ CardFor[c] = j.phone
    /\ j.pc = "answer" =>
          /\ j.card \in made /\ CardFor[j.card] = j.phone
          /\ j.card \in waiting \ WindowCards => j.phone \in Held

CallsInv ==
    /\ calls = [k \in RowCalls |-> calls[k]]
    /\ \A k \in RowCalls : CallOK(calls[k])

\* Nobody moves a row or a record under the lock's holder.
LockInv ==
    /\ locked.at \in {"free", "asking", "voiding"}
    /\ locked.at # "free" => locked.card \in EntryCards
    /\ locked.at = "asking" => entry[locked.card] = "pending" /\ CardFor[locked.card] \in Held

\* An entry's card is queued under the lock, so never late.
EntriesNeverLate == late \intersect EntryCards = {}

RowsInv ==
    /\ RowsTypeOK /\ CallsInv /\ LockInv /\ EntriesNeverLate
    /\ UnpairedStaysOut /\ NothingLeftBehind
    /\ RemovedResolvesNothing /\ EntryCardsNeedASignature

(***************************************************************************)
(* One lemma per action.                                                   *)
(***************************************************************************)
USE RowsAssumption DEF RowsInv, RowsTypeOK, CallsInv, CallOK, LockInv, EntriesNeverLate, UnpairedStaysOut,
        NothingLeftBehind, RemovedResolvesNothing, EntryCardsNeedASignature, Held, AllCards, EntryStates, rowHistory, ties

LEMMA RowsInvInit == ASSUME RowsInit, RowPhones # {} PROVE RowsInv
  BY DEF RowsInit, CallIdle, Unlocked

LEMMA StepPairs == ASSUME RowsInv, NEW p \in RowPhones, Pairs(p) PROVE RowsInv'
  BY DEF Pairs, LockFree, Unlocked, CardsOf

LEMMA StepRemovesPhone ==
    ASSUME RowsInv, NEW p \in RowPhones, NEW kept \in BOOLEAN, RemovesPhone(p, kept) PROVE RowsInv'
  BY DEF RemovesPhone, DropsCards, LockFree, Unlocked, CardsOf

LEMMA StepRestart == ASSUME RowsInv, RowsRestart PROVE RowsInv'
  BY DEF RowsRestart, CallIdle, Unlocked

LEMMA StepCardLapses == ASSUME RowsInv, NEW c \in AllCards, CardLapses(c) PROVE RowsInv'
  BY DEF CardLapses

\* A call that has just found its row.
LEMMA StepFinds ==
    ASSUME RowsInv, NEW k \in RowCalls, NEW j, CallOK(j), Finds(k, j) PROVE RowsInv'
  BY DEF Finds, CallGoes

LEMMA StepFindsAny == ASSUME RowsInv, NEW k \in RowCalls, FindsAny(k) PROVE RowsInv'
  <1>1. PICK p \in RowPhones :
            \/ \E t \in PushTokens : Finds(k, [pc |-> "push", phone |-> p, token |-> t])
            \/ Finds(k, [pc |-> "session", phone |-> p])
            \/ \E c \in (WaitCards \intersect CardsOf(p)) \ made :
                  Finds(k, [pc |-> "request", phone |-> p, card |-> c])
            \/ \E s \in BOOLEAN : Finds(k, [pc |-> "poll", phone |-> p, signed |-> s])
            \/ \E c \in waiting \intersect WaitCards \intersect CardsOf(p) :
                  Finds(k, [pc |-> "answer", phone |-> p, card |-> c])
    BY DEF FindsAny
  <1>2. ASSUME NEW t \in PushTokens, Finds(k, [pc |-> "push", phone |-> p, token |-> t]) PROVE RowsInv'
    <2>1. CallOK([pc |-> "push", phone |-> p, token |-> t])
      BY <1>2
    <2> HIDE DEF RowsInv, CallOK
    <2> QED  BY <1>2, <2>1, StepFinds
  <1>3. ASSUME Finds(k, [pc |-> "session", phone |-> p]) PROVE RowsInv'
    <2>1. CallOK([pc |-> "session", phone |-> p])
      BY <1>3
    <2> HIDE DEF RowsInv, CallOK
    <2> QED  BY <1>3, <2>1, StepFinds
  <1>4. ASSUME NEW c \in WaitCards \intersect CardsOf(p), Finds(k, [pc |-> "request", phone |-> p, card |-> c])
        PROVE  RowsInv'
    <2> HIDE DEF RowsInv
    <2>1. CallOK([pc |-> "request", phone |-> p, card |-> c])
      BY <1>4 DEF CardsOf
    <2> HIDE DEF CallOK
    <2> QED  BY <1>4, <2>1, StepFinds
  <1>5. ASSUME NEW s \in BOOLEAN, Finds(k, [pc |-> "poll", phone |-> p, signed |-> s]) PROVE RowsInv'
    <2>1. CallOK([pc |-> "poll", phone |-> p, signed |-> s])
      BY <1>5
    <2> HIDE DEF RowsInv, CallOK
    <2> QED  BY <1>5, <2>1, StepFinds
  <1>6. ASSUME NEW c \in waiting \intersect WaitCards \intersect CardsOf(p),
               Finds(k, [pc |-> "answer", phone |-> p, card |-> c])
        PROVE  RowsInv'
    <2>1. p \in Held /\ c \in made
      BY <1>6 DEF Finds
    <2> HIDE DEF RowsInv
    <2>2. CallOK([pc |-> "answer", phone |-> p, card |-> c])
      BY <1>6, <2>1 DEF CardsOf
    <2> HIDE DEF CallOK
    <2> QED  BY <1>6, <2>2, StepFinds
  <1> QED  BY <1>1, <1>2, <1>3, <1>4, <1>5, <1>6

LEMMA StepPushWrites == ASSUME RowsInv, NEW k \in RowCalls, PushWrites(k) PROVE RowsInv'
  <1>1. /\ calls' = [calls EXCEPT ![k] = CallIdle] /\ Held' = Held
        /\ phoneRow' \in [RowPhones -> PushTokens \union {NoToken, Removed}]
        /\ UNCHANGED <<sessions, sessFile, waiting, made, entry, locked, unpaired, late, strays, exposed>>
    BY DEF PushWrites, WritesToken, CallGoes
  <1>2. CallsInv'
    <2>1. CallsInv /\ CallOK(CallIdle)
      BY DEF CallIdle
    <2> HIDE DEF RowsInv, RowsTypeOK, Held
    <2>2. ASSUME NEW l \in RowCalls PROVE CallOK(calls[l])'
      <3>1. CallOK(calls[l]) /\ (calls'[l] = calls[l] \/ calls'[l] = CallIdle)
        BY <1>1, <2>1
      <3>2. CASE calls'[l] = CallIdle
        BY <3>2 DEF CallIdle
      <3>3. CASE calls'[l] = calls[l]
        BY <1>1, <3>1, <3>3
      <3> QED  BY <3>1, <3>2, <3>3
    <2> QED  BY <1>1, <2>1, <2>2
  <1> HIDE DEF CallsInv, Held
  <1> QED  BY <1>1, <1>2

LEMMA StepSessionPuts ==
    ASSUME RowsInv, NEW k \in RowCalls, NEW kept \in BOOLEAN, SessionPuts(k, kept) PROVE RowsInv'
  BY DEF SessionPuts, CallGoes, CallIdle

LEMMA StepRequestQueues == ASSUME RowsInv, NEW k \in RowCalls, RequestQueues(k) PROVE RowsInv'
  <1> DEFINE c == calls[k].card
  <1>1. c \in WaitCards /\ calls' = [calls EXCEPT ![k] = CallIdle]
    BY DEF RequestQueues, CallGoes
  <1>2. CASE c \in made
    BY <1>1, <1>2 DEF RequestQueues, CallIdle
  <1>3. CASE c \notin made
    <2>1. /\ waiting' = waiting \union {c} /\ made' = made \union {c}
          /\ late' = IF CardFor[c] \in Held THEN late ELSE late \union {c}
          /\ UNCHANGED <<phoneRow, sessions, sessFile, entry, locked, unpaired, strays, exposed>>
      BY <1>3 DEF RequestQueues
    <2>2. RowsTypeOK' /\ NothingLeftBehind' /\ LockInv' /\ EntriesNeverLate'
      BY <1>1, <2>1
    <2>3. \A l \in RowCalls : CallOK(calls[l])'
      <3> SUFFICES ASSUME NEW l \in RowCalls PROVE CallOK(calls[l])'
        OBVIOUS
      <3>1. CallOK(calls[l])
        OBVIOUS
      <3>2. CASE l = k
        BY <1>1, <3>2 DEF CallIdle
      <3>3. CASE l # k
        <4>1. calls'[l] = calls[l]
          BY <1>1, <3>3
        <4> QED  BY <1>3, <2>1, <3>1, <4>1
      <3> QED  BY <3>2, <3>3
    <2>4. calls' = [l \in RowCalls |-> calls'[l]]
      BY <1>1
    <2>5. CallsInv'
      <3> HIDE DEF RowsInv, CallOK
      <3> QED  BY <2>3, <2>4
    <2>6. UnpairedStaysOut' /\ RemovedResolvesNothing' /\ EntryCardsNeedASignature'
      BY <2>1
    <2> HIDE DEF RowsTypeOK, CallsInv, LockInv, EntriesNeverLate, UnpairedStaysOut, NothingLeftBehind,
                 RemovedResolvesNothing, EntryCardsNeedASignature
    <2> QED  BY <2>2, <2>5, <2>6
  <1> QED  BY <1>2, <1>3

LEMMA StepPollLists == ASSUME RowsInv, NEW k \in RowCalls, PollLists(k) PROVE RowsInv'
  <1> DEFINE j == [pc |-> "listed", phone |-> calls[k].phone, signed |-> calls[k].signed,
                   cards |-> waiting \intersect CardsOf(calls[k].phone)]
  <1>1. /\ calls' = [calls EXCEPT ![k] = j]
        /\ UNCHANGED <<phoneRow, sessions, sessFile, waiting, made, entry, locked, unpaired, late, strays, exposed>>
    BY DEF PollLists, CallGoes
  <1>2. CallOK(calls[k]) /\ calls[k].pc = "poll"
    BY DEF PollLists
  <1>3. CallOK(j)
    BY <1>2 DEF CardsOf
  <1> HIDE DEF j
  <1>4. CallsInv'
    BY <1>1, <1>3
  <1> HIDE DEF CallsInv
  <1> QED  BY <1>1, <1>4

LEMMA StepPollRestamps ==
    ASSUME RowsInv, NEW k \in RowCalls, NEW c \in WindowCards, PollRestamps(k, c) PROVE RowsInv'
  BY DEF PollRestamps

\* An entry card on the queue has a record, and every record names its card.
LEMMA StepPollReplies == ASSUME RowsInv, NEW k \in RowCalls, PollReplies(k) PROVE RowsInv'
  BY DEF PollReplies, NamedCards, CallGoes, CallIdle

LEMMA StepAnswerTakesRow == ASSUME RowsInv, NEW k \in RowCalls, AnswerTakesRow(k) PROVE RowsInv'
  BY DEF AnswerTakesRow, CallGoes, CallIdle

LEMMA StepEntries ==
    ASSUME RowsInv, NEW c \in EntryCards, NEW state \in {"approved", "refused"},
           EntryAsked(c) \/ EntryVoided(c) \/ EntryDropped(c) \/ EntryAnswered(c, state)
    PROVE  RowsInv'
  <1>1. CASE EntryAsked(c)
    <2>1. /\ entry' = [entry EXCEPT ![c] = "pending"] /\ locked' = [at |-> "asking", card |-> c]
          /\ entry[c] = "none" /\ CardFor[c] \in Held
          /\ UNCHANGED <<phoneRow, sessions, sessFile, waiting, made, calls, unpaired, late, strays, exposed>>
      BY <1>1 DEF EntryAsked, Records
    <2>2. RowsTypeOK'
      BY <2>1
    <2>3. LockInv' /\ CallsInv'
      BY <2>1
    <2> QED  BY <2>1, <2>2, <2>3
  <1>2. CASE EntryVoided(c)
    BY <1>2 DEF EntryVoided, Records, LockFree, Unlocked
  <1>3. CASE EntryDropped(c)
    BY <1>3 DEF EntryDropped, Records, LockFree, Unlocked
  <1>4. CASE EntryAnswered(c, state)
    <2>1. /\ waiting' = waiting \ {c} /\ entry' = [entry EXCEPT ![c] = state] /\ locked = Unlocked
          /\ UNCHANGED <<phoneRow, sessions, sessFile, made, locked, calls, unpaired, late, strays, exposed>>
      BY <1>4 DEF EntryAnswered, Records, LockFree
    <2>2. RowsTypeOK'
      BY <2>1
    <2>3. LockInv' /\ CallsInv'
      BY <2>1 DEF Unlocked
    <2> QED  BY <2>1, <2>2, <2>3
  <1> QED  BY <1>1, <1>2, <1>3, <1>4

\* The row is still there when the card of a record is queued: its removal waits for the lock.
LEMMA StepLockHolder == ASSUME RowsInv, EntryQueued \/ EntryWithdrawn PROVE RowsInv'
  <1>1. CASE EntryQueued
    BY <1>1 DEF EntryQueued, Unlocked
  <1>2. CASE EntryWithdrawn
    BY <1>2 DEF EntryWithdrawn, Unlocked
  <1> QED  BY <1>1, <1>2

LEMMA StepRowsStutter == ASSUME RowsInv, UNCHANGED rowVars PROVE RowsInv'
  BY DEF rowVars

HIDE RowsAssumption DEF RowsInv, RowsTypeOK, CallsInv, CallOK, LockInv, EntriesNeverLate, UnpairedStaysOut,
        NothingLeftBehind, RemovedResolvesNothing, EntryCardsNeedASignature, Held, AllCards, EntryStates, rowHistory, ties

LEMMA RowsStep == ASSUME RowsInv, [RowsNext]_rowVars PROVE RowsInv'
  <1>1. ASSUME NEW p \in RowPhones, Pairs(p) \/ \E kept \in BOOLEAN : RemovesPhone(p, kept)
        PROVE  RowsInv'
    BY <1>1, StepPairs, StepRemovesPhone
  <1>2. ASSUME NEW k \in RowCalls,
               \/ FindsAny(k) \/ PushWrites(k) \/ RequestQueues(k)
               \/ \E kept \in BOOLEAN : SessionPuts(k, kept)
               \/ PollLists(k) \/ PollReplies(k) \/ \E c \in WindowCards : PollRestamps(k, c)
               \/ AnswerTakesRow(k)
        PROVE  RowsInv'
    BY <1>2, StepFindsAny, StepPushWrites, StepRequestQueues, StepSessionPuts, StepPollLists,
       StepPollReplies, StepPollRestamps, StepAnswerTakesRow
  <1>3. ASSUME NEW c \in EntryCards,
               \/ EntryAsked(c) \/ EntryVoided(c) \/ EntryDropped(c)
               \/ \E state \in {"approved", "refused"} : EntryAnswered(c, state)
        PROVE  RowsInv'
    BY <1>3, StepEntries
  <1> QED  BY <1>1, <1>2, <1>3, StepCardLapses, StepLockHolder, StepRestart, StepRowsStutter DEF RowsNext

(***************************************************************************)
(* The theorems.  A bootloader with no phone has no row to speak of.       *)
(***************************************************************************)

\* The inductive invariant, with what each call under way and the lock's holder rely on.
THEOREM RowsInvariant == ASSUME RowPhones # {} PROVE RowsSpec => []RowsInv
  <1>1. RowsInit => RowsInv
    BY RowsInvInit
  <1>2. RowsInv /\ [RowsNext]_rowVars => RowsInv'
    BY RowsStep
  <1> QED  BY <1>1, <1>2, PTL DEF RowsSpec

\* A bootloader's phones, calls, cards and sessions keep their types.
THEOREM RowsTypes == ASSUME RowPhones # {} PROVE RowsSpec => []RowsTypeOK
  <1>1. RowsInv => RowsTypeOK
    BY DEF RowsInv
  <1> QED  BY <1>1, RowsInvariant, PTL

\* No request that was under way puts a removed phone's row back (update_phone_push).
THEOREM RemovedStaysRemoved == ASSUME RowPhones # {} PROVE RowsSpec => []UnpairedStaysOut
  <1>1. RowsInv => UnpairedStaysOut
    BY DEF RowsInv
  <1> QED  BY <1>1, RowsInvariant, PTL

\* A removed phone's sessions and cards go with it, but for what a call that had
\* found the row put there later and what a start read back (revoke_phone).
THEOREM RemovalTakesAll == ASSUME RowPhones # {} PROVE RowsSpec => []NothingLeftBehind
  <1>1. RowsInv => NothingLeftBehind
    BY DEF RowsInv
  <1> QED  BY <1>1, RowsInvariant, PTL

\* A removed phone's answer resolves nothing but a card a poll put back (_handle_respond).
THEOREM RemovedAnswersNothing == ASSUME RowPhones # {} PROVE RowsSpec => []RemovedResolvesNothing
  <1>1. RowsInv => RemovedResolvesNothing
    BY DEF RowsInv
  <1> QED  BY <1>1, RowsInvariant, PTL

\* No unsigned poll is shown an owner-slot card that is on a queue (_handle_pending).
THEOREM EntryCardsStaySigned == ASSUME RowPhones # {} PROVE RowsSpec => []EntryCardsNeedASignature
  <1>1. RowsInv => EntryCardsNeedASignature
    BY DEF RowsInv
  <1> QED  BY <1>1, RowsInvariant, PTL

\* A removed phone is gone: its row, what hung on it, its answers, and what an
\* unsigned poll in its name is shown.
THEOREM RemovalIsFinal == ASSUME RowPhones # {} PROVE RowsSpec => []RemovedIsGone
  <1>1. RowsInv => RemovedIsGone
    BY DEF RowsInv, RemovedIsGone
  <1> QED  BY <1>1, RowsInvariant, PTL

(***************************************************************************)
(* Two parties that act on a phone's word: a token's verifiers, and the    *)
(* consumer that is handed a device pairing.                               *)
(***************************************************************************)
USE DEF Enabled, RecordAdmits, HandsOver

(***************************************************************************)
(* What a signed token lets its agent do stays within the policy it was    *)
(* asked under, for any agents, manifests, policies and sequences of       *)
(* restarts.                                                               *)
(*                                                                         *)
(* The argument: a card names a group only if its version was the running  *)
(* manifest's, and a version is published once, so whatever verifier       *)
(* resolves the group later finds the members that were judged then.  A    *)
(* card itself never changes but for its signature.                        *)
(***************************************************************************)

\* What a card passed when it was asked for.
JudgedOK(card) ==
    /\ card.under \in Settings
    /\ card.agent \in DOMAIN card.under.requestable =>
          /\ card.claims.groups # {} => Resolves(card.claims, card.under.manifest)
          /\ NamedAllow(card.claims, card.under.manifest) \subseteq card.under.requestable[card.agent]
    /\ card.agent \in DOMAIN card.under.audiences =>
          card.claims.aud \subseteq card.under.audiences[card.agent]

WithinPolicy(card, action) ==
    card.agent \in DOMAIN card.under.requestable => action \in card.under.requestable[card.agent]
WhereAllowed(card, audience) ==
    card.agent \in DOMAIN card.under.audiences => audience \in card.under.audiences[card.agent]

ScopesInv ==
    /\ settings \in Settings
    /\ copy \in Fetched \union {NoManifest}
    /\ asked \in [ScopeAsks -> Cards \union {NoAsk}]
    /\ \A i \in ScopeAsks : asked[i] # NoAsk => JudgedOK(asked[i])
    /\ \A u \in used :
          /\ u.ask \in ScopeAsks /\ asked[u.ask] # NoAsk
          /\ WithinPolicy(asked[u.ask], u.action)
          /\ WhereAllowed(asked[u.ask], u.audience)

\* A group means the same at every verifier that resolves it.
LEMMA ResolvedOnce ==
    ASSUME NEW c, NEW m \in Fetched, NEW n \in Fetched, Resolves(c, m), Resolves(c, n)
    PROVE  m = n
  BY ManifestsArePublishedOnce DEF Fetched, Resolves

\* Whatever a manifest permits was named on the allow side that was judged.
LEMMA PermittedWasNamed ==
    ASSUME NEW card, JudgedOK(card), NEW m \in Fetched, NEW action, Permitted(action, card.claims, m)
    PROVE  WithinPolicy(card, action)
  <1> SUFFICES ASSUME card.agent \in DOMAIN card.under.requestable
               PROVE  action \in card.under.requestable[card.agent]
    BY DEF WithinPolicy
  <1> DEFINE c == card.claims
             n == card.under.manifest
  <1>1. Resolves(c, m) /\ action \in MembersOf(c.groups, m) \union c.allow
    BY DEF Permitted
  <1>2. NamedAllow(c, n) \subseteq card.under.requestable[card.agent]
    BY DEF JudgedOK
  <1>3. CASE action \in c.allow
    BY <1>2, <1>3 DEF NamedAllow
  <1>4. CASE action \in MembersOf(c.groups, m)
    <2>1. c.groups # {}
      BY <1>4 DEF MembersOf
    <2>2. m = n
      BY <1>1, <2>1, ResolvedOnce DEF JudgedOK, Fetched
    <2> QED  BY <1>2, <1>4, <2>1, <2>2 DEF NamedAllow
  <1> QED  BY <1>1, <1>3, <1>4

LEMMA AllowWasNamed ==
    ASSUME NEW card, JudgedOK(card), NEW action \in card.claims.allow
    PROVE  WithinPolicy(card, action)
  BY DEF JudgedOK, WithinPolicy, NamedAllow

\* A use that some verifier lets through.
LEMMA StepUses ==
    ASSUME ScopesInv, NEW i \in ScopeAsks, Holds(i), NEW action, NEW audience,
           WithinPolicy(asked[i], action), Uses(i, action, audience)
    PROVE  ScopesInv'
  <1>1. asked[i] # NoAsk /\ JudgedOK(asked[i])
    BY DEF Holds, ScopesInv
  <1>2. WhereAllowed(asked[i], audience)
    BY <1>1 DEF Uses, JudgedOK, WhereAllowed
  <1> QED  BY <1>1, <1>2 DEF Uses, ScopesInv

LEMMA StepRequestCard ==
    ASSUME ScopesInv, NEW i \in ScopeAsks, NEW a \in Agents, NEW c \in AskedClaims, NEW r,
           RequestCard(i, a, c, r)
    PROVE  ScopesInv'
  <1> DEFINE card == [agent |-> a, claims |-> c, under |-> settings, signed |-> FALSE]
  <1>1. JudgedOK(card)
    BY DEF RequestCard, MayAskFor, MayName, JudgedOK, ScopesInv
  <1>2. asked[i] = NoAsk /\ asked' = [asked EXCEPT ![i] = card]
        /\ settings' = settings /\ copy' = copy /\ used' = used
    BY DEF RequestCard
  <1>3. card \in Cards
    BY DEF ScopesInv, Cards
  <1> HIDE DEF card
  <1> QED  BY <1>1, <1>2, <1>3 DEF ScopesInv

LEMMA StepSignCard ==
    ASSUME ScopesInv, NEW i \in ScopeAsks, SignCard(i)
    PROVE  ScopesInv'
  <1> DEFINE card == [asked[i] EXCEPT !.signed = TRUE]
  <1>1. asked[i] # NoAsk /\ asked[i] \in Cards /\ JudgedOK(asked[i])
    BY DEF SignCard, ScopesInv
  <1>2. asked' = [asked EXCEPT ![i] = card] /\ settings' = settings /\ copy' = copy /\ used' = used
    BY DEF SignCard
  <1>3. card \in Cards /\ card.agent = asked[i].agent /\ card.claims = asked[i].claims
        /\ card.under = asked[i].under
    BY <1>1 DEF Cards
  <1> HIDE DEF card
  <1>4. \A u \in used : /\ WithinPolicy(asked'[u.ask], u.action) = WithinPolicy(asked[u.ask], u.action)
                       /\ WhereAllowed(asked'[u.ask], u.audience) = WhereAllowed(asked[u.ask], u.audience)
    BY <1>2, <1>3 DEF ScopesInv, WithinPolicy, WhereAllowed
  <1>5. JudgedOK(card)
    BY <1>1, <1>3 DEF JudgedOK
  <1>6. card # NoAsk
    BY <1>3, NoAskIsNoCard
  <1> QED  BY <1>1, <1>2, <1>3, <1>4, <1>5, <1>6 DEF ScopesInv

LEMMA ScopesStep == ASSUME ScopesInv, [ScopesNext]_scopeVars PROVE ScopesInv'
  <1>1. ASSUME NEW i \in ScopeAsks, NEW s \in ScopeServices, ReadSecret(i, s) PROVE ScopesInv'
    <2>1. Holds(i) /\ Uses(i, ReadAction, VaultAudience) /\ Permitted(ReadAction, asked[i].claims, settings.manifest)
      BY <1>1 DEF ReadSecret
    <2>2. JudgedOK(asked[i]) /\ settings.manifest \in Fetched
      BY <2>1 DEF Holds, ScopesInv, Fetched
    <2> QED  BY <2>1, <2>2, PermittedWasNamed, StepUses
  <1>2. ASSUME NEW i \in ScopeAsks, NEW r \in ActRecords, ActOnConnection(i, r) PROVE ScopesInv'
    <2>1. Holds(i) /\ Uses(i, r.act, Bootloader) /\ r.act \in asked[i].claims.allow
      BY <1>2 DEF ActOnConnection, AdmitsAct
    <2>2. JudgedOK(asked[i])
      BY <2>1 DEF Holds, ScopesInv
    <2> QED  BY <2>1, <2>2, AllowWasNamed, StepUses
  <1>3. ASSUME NEW i \in ScopeAsks, RelayPairing(i) PROVE ScopesInv'
    <2>1. Holds(i) /\ Uses(i, PairAction, Bootloader) /\ PairAction \in asked[i].claims.allow
      BY <1>3 DEF RelayPairing
    <2>2. JudgedOK(asked[i])
      BY <2>1 DEF Holds, ScopesInv
    <2> QED  BY <2>1, <2>2, AllowWasNamed, StepUses
  <1>4. ASSUME NEW i \in ScopeAsks, NEW action \in Actions, NEW audience \in Audiences,
               ConsumerAdmits(i, action, audience)
        PROVE  ScopesInv'
    <2>1. Holds(i) /\ Uses(i, action, audience) /\ Permitted(action, asked[i].claims, copy)
      BY <1>4 DEF ConsumerAdmits
    <2>2. JudgedOK(asked[i]) /\ copy \in Fetched
      BY <2>1 DEF Holds, ScopesInv, Permitted, Resolves
    <2> QED  BY <2>1, <2>2, PermittedWasNamed, StepUses
  <1>5. CASE FetchManifest
    BY <1>5 DEF FetchManifest, ScopesInv, Fetched
  <1>6. ASSUME NEW s \in Settings, RestartWith(s) PROVE ScopesInv'
    BY <1>6 DEF RestartWith, ScopesInv
  <1>7. CASE UNCHANGED scopeVars
    BY <1>7 DEF scopeVars, ScopesInv
  <1> QED  BY <1>1, <1>2, <1>3, <1>4, <1>5, <1>6, <1>7, StepRequestCard, StepSignCard DEF ScopesNext

\* The inductive invariant.
THEOREM ScopesInvariant == ScopesSpec => []ScopesInv
  <1>1. ScopesInit => ScopesInv
    BY DEF ScopesInit, ScopesInv
  <1>2. ScopesInv /\ [ScopesNext]_scopeVars => ScopesInv'
    BY ScopesStep
  <1> QED  BY <1>1, <1>2, PTL DEF ScopesSpec

\* No verifier lets a token do what the policy it was asked under keeps from its
\* agent, whatever the server was restarted with since (_handle_capability_request).
THEOREM AlwaysWithinPolicy == ScopesSpec => []UsedWithinPolicy
  <1>1. ScopesInv => UsedWithinPolicy
    BY DEF ScopesInv, UsedWithinPolicy, WithinPolicy
  <1> QED  BY <1>1, ScopesInvariant, PTL

\* Nor anywhere its agent's policy does not name.
THEOREM AlwaysWhereAllowed == ScopesSpec => []UsedWhereAllowed
  <1>1. ScopesInv => UsedWhereAllowed
    BY DEF ScopesInv, UsedWhereAllowed, WhereAllowed
  <1> QED  BY <1>1, ScopesInvariant, PTL

\* Whatever a token is used for, by whichever verifier and after however many
\* restarts with another manifest, is within the policy its agent asked under,
\* and at an audience that policy names.
THEOREM UsesAreAllowed == ScopesSpec => []UsedAsAllowed
  <1>1. UsedWithinPolicy /\ UsedWhereAllowed => UsedAsAllowed
    BY DEF UsedAsAllowed
  <1> QED  BY <1>1, AlwaysWithinPolicy, AlwaysWhereAllowed, PTL

(***************************************************************************)
(* A pairing grant is handed over once, for any number of grants,          *)
(* consumers and requests that overlap, through restarts, while the writes *)
(* of the list succeed.                                                    *)
(*                                                                         *)
(* HandedOverOnce is not inductive: it needs that a grant which may have   *)
(* left is still on the list, in memory and in the file, until its exp.    *)
(***************************************************************************)

\* Until its exp the list has the grant, whether the process restarts or not.
Remembered(g) == pairNow < PairExp[g] => g \in spentHere /\ g \in spentSaved

PairInv ==
    /\ PairTypeOK
    /\ spentHere \subseteq spentSaved
    /\ \A g \in delivered : Remembered(g)
    /\ \A h \in PairHandlers :
          /\ At(h, "spent") => Remembered(pairings[h].grant)
          /\ pairings[h].again => pairings[h].grant \in delivered
    /\ HandedOverOnce

USE PairTimes DEF PairInv, PairTypeOK, RequestOf, PairIdle, At, InForce, HandedOverOnce, Remembered

LEMMA PairInvInit == ASSUME PairInit PROVE PairInv
  BY DEF PairInit

LEMMA StepArrives ==
    ASSUME PairInv, NEW h \in PairHandlers, NEW g \in PairGrants, PairArrives(h, g) PROVE PairInv'
  <1> DEFINE again == g \in delivered
  <1>1. pairings' = [pairings EXCEPT ![h] = [pc |-> "verified", grant |-> g, again |-> again, stale |-> FALSE]]
        /\ UNCHANGED <<pairNow, known, spentHere, spentSaved, bindings, delivered>>
    BY DEF PairArrives
  <1>2. again \in BOOLEAN /\ (again => g \in delivered)
    OBVIOUS
  <1> HIDE DEF again
  <1> QED  BY <1>1, <1>2

\* A request that came after is turned away by the list, or the list had dropped the entry.
LEMMA StepChecked == ASSUME PairInv, NEW h \in PairHandlers, PairChecked(h) PROVE PairInv'
  <1> DEFINE g == pairings[h].grant
             tardy == pairNow >= PairExp[g]
  <1>1. /\ g \in PairGrants /\ pairNow \in Nat /\ PairExp[g] \in Nat
        /\ spentHere' = InForce(spentHere)
        /\ spentSaved' = IF spentHere' = spentHere THEN spentSaved ELSE spentHere'
        /\ UNCHANGED <<pairNow, known, bindings, delivered>>
    BY DEF PairChecked
  <1>2. spentHere' \subseteq spentSaved' /\ \A f \in PairGrants : Remembered(f) => Remembered(f)'
    BY <1>1
  <1>3. CASE Leaves(h)
    BY <1>1, <1>2, <1>3 DEF Leaves
  <1>4. CASE g \notin spentHere' /\ pairings' = [pairings EXCEPT ![h].pc = "admitted", ![h].stale = tardy]
    <2>1. /\ pairings[h] \in [pc : {"verified"}, grant : PairGrants, again : BOOLEAN, stale : BOOLEAN]
          /\ pairings \in [PairHandlers -> RequestOf]
      BY DEF PairChecked
    <2>2. pairings[h].again => tardy
      BY <1>1, <1>4
    <2>3. pairings[h].again => g \in delivered
      OBVIOUS
    <2>4. tardy \in BOOLEAN
      OBVIOUS
    <2> HIDE DEF tardy
    <2>5. pairings' = [pairings EXCEPT ![h] = [pc |-> "admitted", grant |-> g,
                                                again |-> pairings[h].again, stale |-> tardy]]
      <3> DEFINE r == [pc |-> "admitted", grant |-> g, again |-> pairings[h].again, stale |-> tardy]
      <3>1. pairings'[h] = r
        BY <1>4, <2>1
      <3>2. \A k \in PairHandlers : k # h => pairings'[k] = pairings[k]
        BY <1>4, <2>1
      <3>3. pairings' = [k \in PairHandlers |-> pairings'[k]]
        BY <1>4, <2>1
      <3> QED  BY <3>1, <3>2, <3>3, <2>1
    <2> HIDE DEF g
    <2> QED  BY <1>1, <1>2, <2>1, <2>2, <2>3, <2>4, <2>5
  <1>5. Leaves(h) \/ (g \notin spentHere' /\ pairings' = [pairings EXCEPT ![h].pc = "admitted", ![h].stale = tardy])
    <2> HIDE DEF PairTypeOK, PairInv
    <2>1. \/ Leaves(h)
          \/ /\ g \notin spentHere'
             /\ pairings' = [pairings EXCEPT ![h].pc = "admitted", ![h].stale = pairNow >= PairExp[g]]
      BY Zenon DEF PairChecked
    <2> QED  BY Zenon, <2>1
  <1> QED  BY <1>3, <1>4, <1>5

LEMMA StepSpends == ASSUME PairInv, NEW h \in PairHandlers, PairSpends(h) PROVE PairInv'
  BY DEF PairSpends, Remembers, Proceeds

LEMMA StepRelays ==
    ASSUME PairInv, NEW h \in PairHandlers, NEW c \in Consumers, PairRelays(h, c) PROVE PairInv'
  BY DEF PairRelays, Proceeds

LEMMA StepLeaves ==
    ASSUME PairInv, NEW h \in PairHandlers, PairGoesNowhere(h) \/ PairAnswered(h) PROVE PairInv'
  BY DEF PairGoesNowhere, PairAnswered, Leaves

LEMMA StepUnpairs ==
    ASSUME PairInv, NEW c \in Consumers, NEW g \in PairGrants, Unpairs(c, g) PROVE PairInv'
  BY DEF Unpairs

LEMMA StepRestarts == ASSUME PairInv, NEW s \in SUBSET Consumers, PairingRestarts(s) PROVE PairInv'
  BY DEF PairingRestarts

LEMMA StepTick == ASSUME PairInv, PairTick \/ UNCHANGED pairVars PROVE PairInv'
  BY DEF PairTick, pairVars

HIDE PairTimes DEF PairInv, PairTypeOK, RequestOf, PairIdle, At, InForce, HandedOverOnce, Remembered

LEMMA PairStep == ASSUME SpendsSaved, PairInv, [PairNext]_pairVars PROVE PairInv'
  <1>1. ASSUME NEW h \in PairHandlers, PairSpendFails(h) PROVE FALSE
    BY <1>1 DEF PairSpendFails
  <1> QED  BY <1>1, StepArrives, StepChecked, StepSpends, StepRelays, StepLeaves, StepUnpairs, StepRestarts,
              StepTick DEF PairNext

\* The inductive invariant, while no write of the list fails.
THEOREM PairInvariant == ASSUME SpendsSaved PROVE PairSpec => []PairInv
  <1>1. PairInit => PairInv
    BY PairInvInit
  <1>2. PairInv /\ [PairNext]_pairVars => PairInv'
    BY PairStep
  <1> QED  BY <1>1, <1>2, PTL DEF PairSpec

\* A grant a consumer was handed is handed over to no request that came after,
\* unless that one was checked past the grant's exp (_handle_devices_pair).
THEOREM GrantsAreHandedOverOnce == ASSUME SpendsSaved PROVE PairSpec => []HandedOverOnce
  <1>1. PairInv => HandedOverOnce
    BY DEF PairInv
  <1> QED  BY <1>1, PairInvariant, PTL

(***************************************************************************)
(* The services side by side.                                              *)
(***************************************************************************)
\* Beside each other, the services keep their types, whatever overlaps, fails or restarts.
THEOREM ServicesTypes == ASSUME RowPhones # {} PROVE AllServices => []ServicesTypeOK
  BY UseTypes, ProfilesTypes, VaultTypes, ScopesTypes, PairTypes, RowsTypes, QuorumTypes, PTL
     DEF AllServices, ServicesTypeOK
==============================================================================
