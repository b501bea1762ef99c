------------------------------ MODULE MCStanding ------------------------------
\* What stands until it is answered or taken back, side by side: a behaviour is one component
\* at work, in the world its first state names, and the others standing still.
EXTENDS StandingWork, TLC

VARIABLE world

Turn(w, component) == world = w /\ component

(***************************************************************************)
(* Standing grants: two for one slot, of which the newer lasts longer, and *)
(* one of another agent for the same key; an act that stops the key.       *)
(***************************************************************************)
CONSTANTS key, older, newer, beside, stop, phone, otherPhone, r1, r2

GrantFor(agent, t) == [slot |-> agent, key |-> key, signer |-> phone, not_after |-> t]
SomeGrants == older :> GrantFor("a1", 1) @@ newer :> GrantFor("a1", 2) @@ beside :> GrantFor("a2", 2)
SomeStops == stop :> [key |-> key, signer |-> phone, not_after |-> 2]

\* One phone request at a time, the book of requests, the clock and both phones.
\* The requests have their names in the order they are raised.
OneByOne ==
    /\ GrantsNext
    /\ \E h \in Submits : \A i \in Submits \ {h} : submits'[i] = SubmitIdle
    /\ listed' = listFile'
    /\ stop \notin listed' /\ \A h \in Submits : submits'[h].pc # "stopping"
    /\ beside \notin stored'
    /\ requests'[r2] = NoRequest \/ requests'[r1] # NoRequest
\* Phone requests that overlap, and writes that fail; no request of the platform.
Raced ==
    /\ GrantsNext
    /\ UNCHANGED <<requests, bound>>
    /\ now' <= 1 /\ (beside \in stored' => now' = 0)

(***************************************************************************)
(* The limiter: one code that is minted, and one that is only guessed.     *)
(***************************************************************************)
CONSTANTS guessed, issued

OneIssued == LimiterNext /\ live'[guessed] = 0

(***************************************************************************)
(* Two members of one consumer, and two registrations at once.             *)
(* Nothing tells the members apart, so the first code is the first one's;  *)
(* one move is signed, which may be sent more than once.                   *)
(***************************************************************************)
OneMove ==
    /\ MembersNext
    /\ \A n \in DOMAIN minted' : n = 1 => minted'[n].subject = "s1"
    /\ Cardinality(signed') <= 1
TwoMembers == [consumer : {"c"}, subject : {"s1", "s2"}]

(***************************************************************************)
(* Cards: one with two answers and two polls of its agent, or one of each  *)
(* kind with one of either.                                                *)
(***************************************************************************)
CONSTANTS y1, y2, f1, f2

OneCard == CardsNext /\ asked' # Requests
BothCards == CardsNext /\ answers'[y2] = answers[y2] /\ fetches'[f2] = fetches[f2] /\ clock' <= 2

(***************************************************************************)
(* The worlds.                                                             *)
(***************************************************************************)
StandingInit ==
    /\ GrantsInit /\ LimiterInit /\ MembersInit /\ ClustersInit /\ CardsInit
    /\ world \in {"grants asked", "grants raced", "codes guessed", "members", "clusters",
                "one card", "cards"}
    /\ bound = phone

StandingNext ==
    /\ UNCHANGED world
    /\ \/ /\ Turn("grants asked", OneByOne) \/ Turn("grants raced", Raced)
          /\ UNCHANGED <<limiterVars, memberVars, clusterVars, cardVars>>
       \/ Turn("codes guessed", OneIssued) /\ UNCHANGED <<grantVars, memberVars, clusterVars, cardVars>>
       \/ Turn("members", OneMove) /\ UNCHANGED <<grantVars, limiterVars, clusterVars, cardVars>>
       \/ Turn("clusters", ClustersNext) /\ UNCHANGED <<grantVars, limiterVars, memberVars, cardVars>>
       \/ /\ Turn("one card", OneCard) \/ Turn("cards", BothCards)
          /\ UNCHANGED <<grantVars, limiterVars, memberVars, clusterVars>>

StandingSpec ==
    StandingInit /\ [][StandingNext]_<<world, grantVars, limiterVars, memberVars, clusterVars, cardVars>>

Symmetry == Permutations(Submits)
===============================================================================
