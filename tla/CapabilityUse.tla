----------------------------- MODULE CapabilityUse -----------------------------
(***************************************************************************)
(* What a minted capability is worth: reading a vault secret with it,      *)
(* spending a single-use one, and revoking it (server.py:                  *)
(* _handle_secrets_read, _handle_capability_revoke; state.py and           *)
(* state_postgres.py: the revocation list).                                *)
(*                                                                         *)
(* A read verifies the token and asks the list, and then, for a single-use *)
(* token, asks and writes the list again as one step under the registry    *)
(* lock.  An entry of the list goes when its exp has passed.  The file     *)
(* backend keeps the list in memory and writes it after every change;      *)
(* Postgres is the list itself.                                            *)
(***************************************************************************)
EXTENDS Integers

CONSTANTS
    Jtis,         \* the tokens' identifiers
    SingleUse,    \* those of tokens with max_uses = 1
    ExpOf,        \* the exp of each token
    Readers,      \* the reads that can run at once
    Durable,      \* TRUE: Postgres.  FALSE: the file backend
    ListWrites,   \* FALSE: the write of revocations.json may fail
    Stalls,       \* TRUE: a read may take longer than the clock's tick
    EarlyExp,     \* how much too early an exp the operator may send with a revoke
    MaxTime       \* bound on the clock

VARIABLES
    clock,
    list,       \* the exp of each jti's entry, 0 for no entry
    saved,      \* the same of revocations.json; on Postgres, the list itself
    readers,    \* the reads under way
    released,   \* history: how often a secret was read with each single-use token
    revoked     \* history: the tokens whose revoke was answered 200 while the list, and on the
                \* file backend its file too, had them until their exp

vars == <<clock, list, saved, readers, released, revoked>>

ASSUME UseAssumption ==
    /\ SingleUse \subseteq Jtis
    /\ ExpOf \in [Jtis -> Nat \ {0}]
    /\ {Durable, ListWrites, Stalls} \subseteq BOOLEAN
    /\ EarlyExp \in Nat
    /\ \A j \in Jtis : EarlyExp < ExpOf[j]
    /\ MaxTime \in Nat

Idle == [pc |-> "idle"]

\* Types; and no entry outlasts its token, so that the list stays as short as
\* the tokens that live (_purge_expired_revocations).
TypeOK ==
    /\ clock \in 0..MaxTime
    /\ list \in [Jtis -> Nat]
    /\ saved \in [Jtis -> Nat]
    /\ \A j \in Jtis : list[j] <= ExpOf[j]
    /\ readers \in [Readers -> {Idle} \union [pc : {"verified"}, jti : Jtis, late : BOOLEAN]]
    /\ released \in [SingleUse -> Nat]
    /\ revoked \subseteq Jtis

Init ==
    /\ clock = 0
    /\ list = [j \in Jtis |-> 0]
    /\ saved = [j \in Jtis |-> 0]
    /\ readers = [r \in Readers |-> Idle]
    /\ released = [j \in SingleUse |-> 0]
    /\ revoked = {}

(***************************************************************************)
(* The list: _purge_expired_revocations and add_revocation.                *)
(***************************************************************************)
PurgedEarly == [j \in Jtis |-> IF list[j] > clock + 1 THEN list[j] ELSE 0]
Purged == [j \in Jtis |-> IF list[j] > clock THEN list[j] ELSE 0]

\* The file is written when the list changed.
Saves == saved' = IF list' = list THEN saved ELSE list'

AddedPadded(j, exp) == [Purged EXCEPT ![j] = exp + 1]

\* A second entry for a jti is dropped on the file backend and replaces the
\* first on Postgres.
Added(j, exp) ==
    IF Purged[j] # 0 /\ ~Durable THEN Purged ELSE [Purged EXCEPT ![j] = exp]

\* The file backend has put the entry in memory when its write fails, the one
\* after the purge or the one after the entry; on Postgres nothing is left of it.
AddFails(j, exp) ==
    /\ ~ListWrites
    /\ Added(j, exp) # list
    /\ IF Durable
       THEN UNCHANGED <<list, saved>>
       ELSE \/ list' = Added(j, exp) /\ saved' \in {saved, IF Purged = list THEN saved ELSE Purged}
            \/ list' = Purged /\ Purged # list /\ UNCHANGED saved

(***************************************************************************)
(* A read of a secret.                                                     *)
(***************************************************************************)
\* verify_jws and is_revoked.  "late" marks a read begun after a revoke was
\* answered; it is not the code's.
Verifies(r, j) ==
    /\ readers[r] = Idle
    /\ clock < ExpOf[j]
    /\ list' = Purged /\ Saves
    /\ Purged[j] = 0
    /\ readers' = [readers EXCEPT ![r] = [pc |-> "verified", jti |-> j, late |-> j \in revoked]]
    /\ UNCHANGED <<clock, released, revoked>>

SpendableAlways(j) == TRUE
Spendable(j) == Purged[j] = 0

\* consume_single_use_capability, and the value is sent; a reusable token is only sent.
Releases(r) ==
    /\ readers[r].pc = "verified"
    /\ LET j == readers[r].jti IN
       /\ IF j \in SingleUse
          THEN /\ Spendable(j)
               /\ list' = Added(j, ExpOf[j]) /\ Saves
               /\ released' = [released EXCEPT ![j] = @ + 1]
          ELSE UNCHANGED <<list, saved, released>>
    /\ readers' = [readers EXCEPT ![r] = Idle]
    /\ UNCHANGED <<clock, revoked>>

\* The token was spent by another read, the spend could not be written, or the
\* answer was lost after it was.
Refuses(r) ==
    /\ readers[r].pc = "verified"
    /\ LET j == readers[r].jti IN
       /\ j \in SingleUse
       /\ \/ ~Spendable(j) /\ list' = Purged /\ Saves
          \/ Spendable(j) /\ AddFails(j, ExpOf[j])
          \/ Spendable(j) /\ list' = Added(j, ExpOf[j]) /\ Saves
    /\ readers' = [readers EXCEPT ![r] = Idle]
    /\ UNCHANGED <<clock, released, revoked>>

(***************************************************************************)
(* The operator revokes a token, with the exp it says the token has.       *)
(***************************************************************************)
RevokeAnswered(j, exp) ==
    /\ list' = Added(j, exp) /\ Saves
    /\ revoked' = IF list'[j] = ExpOf[j] /\ saved'[j] = ExpOf[j]
                  THEN revoked \union {j} ELSE revoked
    /\ UNCHANGED <<clock, readers, released>>

RevokeFails(j, exp) == AddFails(j, exp) /\ UNCHANGED <<clock, readers, released, revoked>>

Revoke(j, exp) == RevokeAnswered(j, exp) \/ RevokeFails(j, exp)

(***************************************************************************)
(* Restart and time.                                                       *)
(***************************************************************************)
Loaded == [j \in Jtis |-> IF saved[j] > clock THEN saved[j] ELSE 0]

Restart ==
    /\ list' = IF Durable THEN list ELSE Loaded
    /\ readers' = [r \in Readers |-> Idle]
    /\ UNCHANGED <<clock, saved, released, revoked>>

Tick ==
    /\ clock < MaxTime
    /\ Stalls \/ \A r \in Readers : readers[r] = Idle
    /\ clock' = clock + 1
    /\ UNCHANGED <<list, saved, readers, released, revoked>>

Next ==
    \/ \E r \in Readers : (\E j \in Jtis : Verifies(r, j)) \/ Releases(r) \/ Refuses(r)
    \/ \E j \in Jtis, early \in 0..EarlyExp : Revoke(j, ExpOf[j] - early)
    \/ Restart
    \/ Tick

Spec == Init /\ [][Next]_vars

(***************************************************************************)
(* Properties.                                                             *)
(***************************************************************************)
\* A single-use token reads a secret once, through concurrent reads, restarts
\* and failed writes (consume_single_use_capability).
SpentOnce == \A j \in SingleUse : released[j] <= 1

\* No read begun after a revoke was answered and written gets the value, failed
\* writes and restarts in between or not (_handle_capability_revoke).
RevokedStays == [][\A r \in Readers : Releases(r) => ~readers[r].late]_vars

\* An entry that is written stands until its exp: adding it again changes
\* nothing, and a restart does not lose it (add_revocation).
Stands(j) == list[j] > clock /\ saved[j] = list[j]
EntriesStand == [][\A j \in Jtis : Stands(j) => list'[j] = list[j]]_vars

\* A revocation counts from its answer to the token's exp.
RevocationsStand == EntriesStand /\ RevokedStays
===============================================================================
