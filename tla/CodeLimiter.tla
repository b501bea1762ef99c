------------------------------ MODULE CodeLimiter ------------------------------
(***************************************************************************)
(* The wrong-code limiter of the public edge (owner_slots.py:              *)
(* CodeAttemptLimiter; server.py: _handle_registration_challenge).         *)
(*                                                                         *)
(* A client that guessed wrong too often is refused for a while, and a     *)
(* live code that sat through too many wrong guesses of all clients is     *)
(* burned when it is redeemed.  How many it sat through is told from the   *)
(* total at its mint; for a code another instance minted, from the oldest  *)
(* of the totals marked on the way.  All of this is in memory; on Postgres *)
(* the codes outlive it.                                                   *)
(***************************************************************************)
EXTENDS Integers, Sequences, FiniteSets, SequencesExt

CONSTANTS
    SixDigits,     \* pairing codes
    Clients,       \* buckets of public addresses
    WrongLimit,    \* WRONG_CODE_LIMIT
    WrongWindow,   \* WRONG_CODE_WINDOW_SECONDS
    Budget,        \* CODE_PUBLIC_EXPOSURE_BUDGET
    MaxLife,       \* CODE_MAX_TTL_SECONDS
    MarkEvery,     \* the marks' interval
    SpentMemory,   \* SPENT_CODE_MEMORY_SECONDS
    EndTime        \* bound on the clock

ASSUME LimiterAssumption ==
    /\ {WrongLimit, WrongWindow, Budget, MaxLife, MarkEvery, SpentMemory} \subseteq Nat \ {0}
    /\ EndTime \in Nat

VARIABLES
    time,
    live,      \* the codes' expiry in the store, 0 for no code
    events,    \* the public failures of the window
    counts,    \* and how many of them are each client's
    total,     \* every public failure since the start
    marks,     \* totals on the way
    stamps,    \* totals at mint
    spentAt,   \* when codes were spent, -1 for never
    sat,       \* history: the public failures each live code sat through here
    worst      \* history: the most that a code had when it was redeemed over the edge

limiterVars == <<time, live, events, counts, total, marks, stamps, spentAt, sat, worst>>

NoStamp == [base |-> -1, forget |-> 0]

CountOf(s, client) == Cardinality({i \in DOMAIN s : s[i].client = client})

LimiterTypeOK ==
    /\ time \in 0..EndTime
    /\ live \in [SixDigits -> Nat]
    /\ events \in Seq([at : 0..EndTime, client : Clients])
    /\ counts = [c \in Clients |-> CountOf(events, c)]
    /\ total \in Nat /\ worst \in Nat
    /\ marks \in Seq([at : 0..EndTime, base : Nat])
    /\ \A d \in SixDigits : stamps[d] = NoStamp \/ stamps[d].base \in 0..total
    /\ spentAt \in [SixDigits -> -1..EndTime]
    /\ sat \in [SixDigits -> Nat]

Started ==
    /\ events' = <<>> /\ marks' = <<>>
    /\ counts' = [c \in Clients |-> 0]
    /\ total' = 0
    /\ stamps' = [d \in SixDigits |-> NoStamp]
    /\ spentAt' = [d \in SixDigits |-> -1]
    /\ sat' = [d \in SixDigits |-> 0]

LimiterInit ==
    /\ time = 0
    /\ live = [d \in SixDigits |-> 0]
    /\ events = <<>> /\ marks = <<>>
    /\ counts = [c \in Clients |-> 0]
    /\ total = 0
    /\ stamps = [d \in SixDigits |-> NoStamp]
    /\ spentAt = [d \in SixDigits |-> -1]
    /\ sat = [d \in SixDigits |-> 0]
    /\ worst = 0

(***************************************************************************)
(* _trim: what has aged out, popped from the old end until one stays.      *)
(***************************************************************************)
From(s, staying) ==
    IF staying = {} THEN <<>> ELSE SubSeq(s, CHOOSE i \in staying : \A j \in staying : i <= j, Len(s))

InWindow(e) == e.at > time - WrongWindow
Events == From(events, {i \in DOMAIN events : InWindow(events[i])})
AgedOutNone(client) == 0
AgedOut(client) == CountOf(events, client) - CountOf(Events, client)
Counts == [c \in Clients |-> counts[c] - AgedOut(c)]

\* A mark is kept one interval past the longest life of a code.
KeptForALife(m) == m.at > time - MaxLife
Kept(m) == m.at > time - MaxLife - MarkEvery
Marks == From(marks, {i \in DOMAIN marks : Kept(marks[i])})

Stamps == [d \in SixDigits |-> IF stamps[d].forget <= time THEN NoStamp ELSE stamps[d]]
SpentAt == [d \in SixDigits |-> IF spentAt[d] <= time - SpentMemory THEN -1 ELSE spentAt[d]]

Trims == events' = Events /\ counts' = Counts

(***************************************************************************)
(* Minting.                                                                *)
(***************************************************************************)
LiveCode(d) == live[d] > time

\* issue_pairing_code draws a code that is not live, and tells the limiter.
Mints(d, life) ==
    /\ ~LiveCode(d)
    /\ live' = [live EXCEPT ![d] = time + life]
    /\ sat' = [sat EXCEPT ![d] = 0]
    /\ UNCHANGED <<time, total, worst>>

MintsHere(d, life) ==
    /\ Mints(d, life)
    /\ Trims /\ marks' = Marks /\ spentAt' = SpentAt
    /\ stamps' = [Stamps EXCEPT ![d] = [base |-> total, forget |-> time + life + MarkEvery]]

MintsElsewhere(d, life) ==
    /\ Mints(d, life)
    /\ UNCHANGED <<events, counts, marks, stamps, spentAt>>

(***************************************************************************)
(* A code is sent: all under the limiter's lock.                           *)
(***************************************************************************)
Blocked(client) == Counts[client] >= WrongLimit

Exposure(d) ==
    total - (IF Stamps[d] # NoStamp THEN Stamps[d].base
             ELSE IF Marks # <<>> THEN Head(Marks).base
             ELSE total)

Spends(d) ==
    /\ LiveCode(d)
    /\ live' = [live EXCEPT ![d] = 0]
    /\ spentAt' = [SpentAt EXCEPT ![d] = time]

\* Over the edge: the code is spent, and buys its challenge unless it was exposed.
RedeemsPublic(client, d) ==
    /\ ~Blocked(client)
    /\ Spends(d)
    /\ worst' = IF Exposure(d) < Budget /\ sat[d] > worst THEN sat[d] ELSE worst
    /\ Trims /\ marks' = Marks /\ stamps' = Stamps
    /\ UNCHANGED <<time, total, sat>>

\* From a private network or loopback: never blocked, counted or burned.
RedeemsPrivate(d) ==
    /\ Spends(d)
    /\ UNCHANGED <<time, events, counts, total, marks, stamps, sat, worst>>

\* record_failure: the mark carries the total before this failure.
MarkedAfter == IF Marks = <<>> \/ time - Last(Marks).at >= MarkEvery
               THEN Append(Marks, [at |-> time, base |-> total + 1]) ELSE Marks
Marked == IF Marks = <<>> \/ time - Last(Marks).at >= MarkEvery
          THEN Append(Marks, [at |-> time, base |-> total]) ELSE Marks

\* A code that is neither live nor remembered as spent.
GuessesWrong(client, d) ==
    /\ ~Blocked(client)
    /\ ~LiveCode(d) /\ SpentAt[d] = -1
    /\ events' = Append(Events, [at |-> time, client |-> client])
    /\ counts' = [Counts EXCEPT ![client] = @ + 1]
    /\ marks' = Marked
    /\ total' = total + 1
    /\ stamps' = Stamps /\ spentAt' = SpentAt
    /\ sat' = [x \in SixDigits |-> IF LiveCode(x) THEN sat[x] + 1 ELSE sat[x]]
    /\ UNCHANGED <<time, live, worst>>

\* Refused for the client's failures, told that the code was used, or not over
\* the edge: only what aged out goes.
GuessesInVain(d) ==
    /\ ~LiveCode(d) \/ \E client \in Clients : Blocked(client)
    /\ Trims /\ marks' = Marks /\ stamps' = Stamps /\ spentAt' = SpentAt
    /\ UNCHANGED <<time, live, total, sat, worst>>

LimiterTick ==
    /\ time < EndTime
    /\ time' = time + 1
    /\ UNCHANGED <<live, events, counts, total, marks, stamps, spentAt, sat, worst>>

\* On Postgres the codes stay; the file backend's are gone.
LimiterRestarts ==
    /\ Started
    /\ live' \in {live, [d \in SixDigits |-> 0]}
    /\ UNCHANGED <<time, worst>>

LimiterNext ==
    \/ \E d \in SixDigits :
           \/ \E life \in 1..MaxLife : MintsHere(d, life) \/ MintsElsewhere(d, life)
           \/ \E c \in Clients : RedeemsPublic(c, d) \/ GuessesWrong(c, d)
           \/ RedeemsPrivate(d) \/ GuessesInVain(d)
    \/ LimiterTick
    \/ LimiterRestarts

LimiterSpec == LimiterInit /\ [][LimiterNext]_limiterVars

(***************************************************************************)
(* Properties.                                                             *)
(***************************************************************************)
\* A code redeemed over the edge sat through fewer wrong guesses than its budget,
\* wherever it was minted and whatever was trimmed, remembered or minted again
\* since ("never counted looser than one stamped here").
ExposureBudget == worst < Budget
==============================================================================
