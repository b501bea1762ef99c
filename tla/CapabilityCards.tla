---------------------------- MODULE CapabilityCards ----------------------------
(***************************************************************************)
(* A capability request from an agent's ask to the agent's answer          *)
(* (server.py: _handle_capability_request, _handle_pending,                *)
(* _handle_respond, _handle_capability_result; state.py and                *)
(* state_postgres.py: the pending cards and the capability results).       *)
(*                                                                         *)
(* Every HTTP request runs on a thread of its own and takes the store's    *)
(* lock once per store call, never across two calls.  A poll of the phone  *)
(* lists the cards, puts the stamped ones back, withdraws the dead ones    *)
(* and serves the rest; an answer reads the card, takes it, and stores the *)
(* result; the agent's poll looks for a result, and then takes it or       *)
(* looks for the card.  Each call is a step here, a poll's withdrawals one. *)
(*                                                                         *)
(* What a card asks for is left out: its bytes differ only in the exp the  *)
(* first poll stamps on a card that asks for a grant window.               *)
(***************************************************************************)
EXTENDS Integers, FiniteSets

CONSTANTS
    Requests,     \* the requests agents make
    Grants,       \* those that ask for a grant window (grant_ttl_seconds)
    Polls,        \* the phone's polls that can run at once
    Answers,      \* the phone's answers that can run at once
    Fetches,      \* the agent's polls that can run at once
    Durable,      \* TRUE: Postgres.  FALSE: the file backend, all of it in memory
    QueueTTL,     \* ttl_seconds of a request
    ClaimsTTL,    \* how long the claims a request came with last
    GrantTTL,     \* grant_ttl_seconds
    ResultTTL,    \* capability_result_ttl_seconds
    MaxTime       \* bound on the clock

VARIABLES
    clock,
    asked,       \* the requests queued so far
    queue,       \* the pending cards
    results,     \* the answers waiting for their agents
    polls,       \* the polls under way: the cards each has listed
    shown,       \* the bytes the phone was served
    answers,     \* the answers under way
    fetches,     \* the agents' polls under way
    answered,    \* history: how many results each request was given
    delivered,   \* history: to how many polls the last answer of each request was handed
    shared,      \* history: the requests whose answer two polls had got at once
    turnedAway   \* history: the requests whose answer was told there is no such card
                 \* while the card was on the queue

threads == <<polls, answers, fetches>>
history == <<answered, delivered, shared, turnedAway>>
cardVars == <<clock, asked, queue, results, threads, shown, history>>

ASSUME CardsAssumption ==
    /\ Grants \subseteq Requests
    /\ {QueueTTL, ClaimsTTL, GrantTTL, ResultTTL} \subseteq Nat \ {0}
    /\ MaxTime \in Nat
    /\ Durable \in BOOLEAN

Said == {"approved", "denied", "garbled"}
Status == {"approved", "denied", "signature_error"}
Cards == [exp : Nat, stamped : BOOLEAN, until : Nat]
Results == [status : Status \union {"none"}, exp : Nat, until : Nat]
NoCard == [exp |-> 0, stamped |-> FALSE, until |-> 0]
NoResult == [status |-> "none", exp |-> 0, until |-> 0]

IdlePoll == [busy |-> FALSE, cards |-> [r \in Requests |-> NoCard]]
Idle == [pc |-> "idle"]

Reading == [pc : {"read", "taken"}, req : Requests, exp : Nat, says : Said]
Fetching == [pc : {"got", "missed"}, req : Requests]

\* Types, and the clock behind every card: no window, queue time or result
\* outlasts what its own step gave it.
CardsTypeOK ==
    /\ clock \in 0..MaxTime
    /\ asked \subseteq Requests
    /\ queue \in [Requests -> Cards]
    /\ \A r \in Requests : queue[r] # NoCard =>
           /\ r \in asked
           /\ queue[r].until <= clock + QueueTTL
           /\ queue[r].exp <= clock + (IF queue[r].stamped THEN GrantTTL ELSE ClaimsTTL)
    /\ results \in [Requests -> Results]
    /\ \A r \in Requests : results[r].until <= clock + ResultTTL
    /\ polls \in [Polls -> [busy : BOOLEAN, cards : [Requests -> Cards]]]
    /\ shown \subseteq [req : asked, exp : Nat]
    /\ answers \in [Answers -> Reading \union {Idle}]
    /\ fetches \in [Fetches -> Fetching \union {Idle}]
    /\ answered \in [Requests -> Nat]
    /\ delivered \in [Requests -> Nat]
    /\ shared \subseteq Requests
    /\ turnedAway \subseteq asked

CardsInit ==
    /\ clock = 0
    /\ asked = {}
    /\ queue = [r \in Requests |-> NoCard]
    /\ results = [r \in Requests |-> NoResult]
    /\ polls = [p \in Polls |-> IdlePoll]
    /\ shown = {}
    /\ answers = [a \in Answers |-> Idle]
    /\ fetches = [f \in Fetches |-> Idle]
    /\ answered = [r \in Requests |-> 0]
    /\ delivered = [r \in Requests |-> 0]
    /\ shared = {}
    /\ turnedAway = {}

(***************************************************************************)
(* The two stores' statements: a put replaces, a take takes what there is, *)
(* whether it has expired or not, and a look purges first.                 *)
(***************************************************************************)
PutCard(r, card) == [queue EXCEPT ![r] = card]
CardTaken(r) == [queue EXCEPT ![r] = NoCard]
PutResult(r, result) == [results EXCEPT ![r] = result]
LiveResults == [r \in Requests |-> IF results[r].until > clock THEN results[r] ELSE NoResult]

(***************************************************************************)
(* The agent asks: new_capability_request, add_pending.                    *)
(***************************************************************************)
NewCard == [exp |-> clock + ClaimsTTL, stamped |-> FALSE, until |-> clock + QueueTTL]

Request(r) ==
    /\ r \notin asked
    /\ asked' = asked \union {r}
    /\ queue' = PutCard(r, NewCard)
    /\ UNCHANGED <<clock, results, threads, shown, history>>

(***************************************************************************)
(* The phone polls: list_pending_for_phone, _restamp_grant_window,         *)
(* _withdraw_if_authority_expired, and the answer.                         *)
(***************************************************************************)
\* The queue after _purge_expired_pending.
Purged == [r \in Requests |-> IF queue[r].until > clock THEN queue[r] ELSE NoCard]

PollLists(p) ==
    /\ ~polls[p].busy
    /\ queue' = Purged
    /\ polls' = [polls EXCEPT ![p] = [busy |-> TRUE, cards |-> Purged]]
    /\ UNCHANGED <<clock, asked, results, shown, answers, fetches, history>>

Unstamped(p) == {r \in Grants : polls[p].cards[r] # NoCard /\ ~polls[p].cards[r].stamped}

\* A card listed without a window is given one and put back, whatever became of it since.
PollStamps(p, r) ==
    /\ polls[p].busy
    /\ r \in Unstamped(p)
    /\ LET card == [polls[p].cards[r] EXCEPT !.exp = clock + GrantTTL, !.stamped = TRUE] IN
       /\ queue' = PutCard(r, card)
       /\ polls' = [polls EXCEPT ![p].cards[r] = card]
    /\ UNCHANGED <<clock, asked, results, shown, answers, fetches, history>>

\* The cards whose claims have run out are taken off the queue, the others served.
PollServes(p) ==
    /\ polls[p].busy
    /\ Unstamped(p) = {}
    /\ LET listed == {r \in Requests : polls[p].cards[r] # NoCard}
           dead == {r \in listed : polls[p].cards[r].exp <= clock} IN
       /\ queue' = [r \in Requests |-> IF r \in dead THEN NoCard ELSE queue[r]]
       /\ shown' = shown \union {[req |-> r, exp |-> polls[p].cards[r].exp] : r \in listed \ dead}
    /\ polls' = [polls EXCEPT ![p] = IdlePoll]
    /\ UNCHANGED <<clock, asked, results, answers, fetches, history>>

\* A write of the queue failed: the poll answers 500.
PollFails(p) ==
    /\ polls[p].busy
    /\ polls' = [polls EXCEPT ![p] = IdlePoll]
    /\ UNCHANGED <<clock, asked, queue, results, shown, answers, fetches, history>>

(***************************************************************************)
(* The phone answers: peek_pending and the signature checks, take_pending, *)
(* _store_capability_result.                                               *)
(***************************************************************************)
\* peek_pending: what Postgres leaves to the base class, which says of no card.
Peeked(r) == IF Durable THEN NoCard ELSE queue[r]

\* The signature of an approval is checked against the card as it is now; a
\* denial signs the request's id alone.  "garbled" is an approval whose
\* capability signature does not verify.
AnswerReads(a, r, says) ==
    /\ answers[a] = Idle
    /\ Peeked(r) # NoCard
    /\ \E b \in shown : b.req = r /\ (says = "denied" \/ b.exp = queue[r].exp)
    /\ answers' = [answers EXCEPT ![a] = [pc |-> "read", req |-> r, exp |-> queue[r].exp,
                                          says |-> says]]
    /\ UNCHANGED <<clock, asked, queue, results, polls, shown, fetches, history>>

\* request_not_found.
AnswerFindsNone(r) ==
    /\ \E b \in shown : b.req = r
    /\ Peeked(r) = NoCard
    /\ turnedAway' = IF queue[r] # NoCard THEN turnedAway \union {r} ELSE turnedAway
    /\ UNCHANGED <<clock, asked, queue, results, threads, shown, answered, delivered, shared>>

MissingIgnored(r) == FALSE
Missing(r) == queue[r] = NoCard

AnswerTakes(a) ==
    /\ answers[a].pc = "read"
    /\ LET r == answers[a].req IN
       IF Missing(r)
       THEN /\ answers' = [answers EXCEPT ![a] = Idle]
            /\ UNCHANGED queue
       ELSE /\ answers' = [answers EXCEPT ![a].pc = "taken"]
            /\ queue' = CardTaken(r)
    /\ UNCHANGED <<clock, asked, results, polls, shown, fetches, history>>

\* verify_jws judges the exp when the answer is stored.
Verdict(job) ==
    IF job.says = "denied" THEN "denied"
    ELSE IF job.says = "approved" /\ clock < job.exp THEN "approved" ELSE "signature_error"

Stored(job) == [status |-> Verdict(job), exp |-> job.exp, until |-> clock + ResultTTL]

AnswerStores(a) ==
    /\ answers[a].pc = "taken"
    /\ results' = PutResult(answers[a].req, Stored(answers[a]))
    /\ answered' = [answered EXCEPT ![answers[a].req] = @ + 1]
    /\ delivered' = [delivered EXCEPT ![answers[a].req] = 0]
    /\ answers' = [answers EXCEPT ![a] = Idle]
    /\ UNCHANGED <<clock, asked, queue, polls, shown, fetches, shared, turnedAway>>

\* On the file backend the take's write of pending.json fails after the card
\* is out of memory.  On Postgres the instance dies, or its statement fails.
AnswerStops(a) ==
    /\ answers[a] # Idle
    /\ Durable \/ (answers[a].pc = "read" /\ queue[answers[a].req] # NoCard)
    /\ queue' = IF Durable THEN queue ELSE CardTaken(answers[a].req)
    /\ answers' = [answers EXCEPT ![a] = Idle]
    /\ UNCHANGED <<clock, asked, results, polls, shown, fetches, history>>

(***************************************************************************)
(* The agent polls: get_capability_result, then take_capability_result, or *)
(* a look at the queue and a 404.                                          *)
(***************************************************************************)
HasGot(f, r) == fetches[f].pc = "got" /\ fetches[f].req = r

FetchLooks(f, r) ==
    /\ fetches[f] = Idle
    /\ r \in asked
    /\ results' = LiveResults
    /\ shared' = IF LiveResults[r] # NoResult /\ (\E g \in Fetches : HasGot(g, r))
                 THEN shared \union {r} ELSE shared
    /\ fetches' = [fetches EXCEPT ![f] = [pc |-> IF LiveResults[r] = NoResult THEN "missed" ELSE "got",
                                          req |-> r]]
    /\ UNCHANGED <<clock, asked, queue, polls, shown, answers, answered, delivered, turnedAway>>

Taken(r) == [results EXCEPT ![r] = NoResult]

\* The result that was got is handed over, whether or not it is still there to take.
FetchTakes(f) ==
    /\ fetches[f].pc = "got"
    /\ results' = Taken(fetches[f].req)
    /\ delivered' = [delivered EXCEPT ![fetches[f].req] = @ + 1]
    /\ fetches' = [fetches EXCEPT ![f] = Idle]
    /\ UNCHANGED <<clock, asked, queue, polls, shown, answers, answered, shared, turnedAway>>

FetchSweeps(f) ==
    /\ fetches[f].pc = "missed"
    /\ queue' = Purged
    /\ fetches' = [fetches EXCEPT ![f] = Idle]
    /\ UNCHANGED <<clock, asked, results, polls, shown, answers, history>>

(***************************************************************************)
(* Time, and the process: neither cards nor results outlive it on the file *)
(* backend; on Postgres both do.                                           *)
(***************************************************************************)
Restart ==
    /\ queue' = IF Durable THEN queue ELSE [r \in Requests |-> NoCard]
    /\ results' = IF Durable THEN results ELSE [r \in Requests |-> NoResult]
    /\ polls' = [p \in Polls |-> IdlePoll]
    /\ answers' = [a \in Answers |-> Idle]
    /\ fetches' = [f \in Fetches |-> Idle]
    /\ UNCHANGED <<clock, asked, shown, history>>

Tick ==
    /\ clock < MaxTime
    /\ clock' = clock + 1
    /\ UNCHANGED <<asked, queue, results, threads, shown, history>>

PollSteps(p) == PollLists(p) \/ (\E r \in Requests : PollStamps(p, r)) \/ PollServes(p) \/ PollFails(p)

AnswerSteps(a) ==
    \/ \E r \in Requests, says \in Said : AnswerReads(a, r, says)
    \/ AnswerTakes(a)
    \/ AnswerStores(a)
    \/ AnswerStops(a)

FetchSteps(f) == (\E r \in Requests : FetchLooks(f, r)) \/ FetchTakes(f) \/ FetchSweeps(f)

CardsNext ==
    \/ \E r \in Requests : Request(r)
    \/ \E p \in Polls : PollSteps(p)
    \/ \E a \in Answers : AnswerSteps(a)
    \/ \E r \in Requests : AnswerFindsNone(r)
    \/ \E f \in Fetches : FetchSteps(f)
    \/ Restart
    \/ Tick

CardsSpec == CardsInit /\ [][CardsNext]_cardVars

(***************************************************************************)
(* Properties.                                                             *)
(***************************************************************************)
\* A request is given one answer: two answers to one card, or a poll that
\* listed the card before it was taken, never store a second one
\* (_handle_respond, take_pending).
AnsweredOnce == \A r \in Requests : answered[r] <= 1

\* What the phone was shown is what its signature will be checked against:
\* the window is stamped once, and every poll serves the same bytes
\* (_restamp_grant_window).
ShownIsQueued ==
    \A b \in shown : queue[b.req] # NoCard => queue[b.req].exp = b.exp

\* An answer that was handed over is out of the store, so that no later poll is
\* handed it, and it is handed to one poll only, unless a second one had got it
\* before the first took it (take_capability_result).
DeliveredOnce ==
    \A r \in Requests :
        /\ delivered[r] # 0 => answered[r] # 0 /\ results[r] = NoResult
        /\ r \notin shared => delivered[r] <= 1

\* What the phone was shown is answered once, and the answer delivered once.
AnsweredAsShown == ShownIsQueued /\ AnsweredOnce /\ DeliveredOnce

\* An answer is told that there is no such card only when there is none, on
\* either backend: the swap of the two is "a constructor argument" (StateStoreBase).
QueuedIsFound == turnedAway = {}
===============================================================================
