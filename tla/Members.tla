-------------------------------- MODULE Members --------------------------------
(***************************************************************************)
(* Phones of a consumer's members: a consumer mints a code for one of its  *)
(* subjects, the code buys a challenge, and a phone that answers the       *)
(* challenge is bound to that subject; a bound subject moves to another    *)
(* phone only with the bound phone's signature (server.py:                 *)
(* _handle_mint_pairing_code, _handle_registration_challenge,              *)
(* _handle_register, _handle_revoke_phone; state.py and                    *)
(* state_postgres.py: codes, challenges, phones).                          *)
(*                                                                         *)
(* A registration looks at its challenge and the phone's proof first, and  *)
(* spends the challenge, asks the registry and writes it under the         *)
(* registry lock.                                                          *)
(***************************************************************************)
EXTENDS Naturals, Sequences, FiniteSets

CONSTANTS
    MemberPhones,   \* keys, each its phone's identity
    Bindings,       \* [consumer, subject]
    Registrations,  \* registrations that can be under way at once
    MaxTickets      \* bound on the codes minted

ASSUME MembersAssumption ==
    /\ \A b, c \in Bindings : b.consumer = c.consumer /\ b.subject = c.subject => b = c
    /\ MaxTickets \in Nat

VARIABLES
    minted,       \* the bindings that codes were minted for, in order: a code and the
                  \* challenge it buys are called by its place
    codes,        \* live codes
    challenges,   \* live challenges
    phones,       \* registered phones
    held,         \* member_bindings
    registering,  \* registrations under way
    signed,       \* the moves that phones signed
    bought       \* history: how many registrations each challenge bought

memberVars == <<minted, codes, challenges, phones, held, registering, signed, bought>>

Tickets == 1..Len(minted)
Move == [from : MemberPhones, to : MemberPhones, ticket : 1..MaxTickets]
NoMove == [from |-> "nobody"]
RegistrationIdle == [pc |-> "idle"]

MembersTypeOK ==
    /\ minted \in Seq(Bindings) /\ Len(minted) <= MaxTickets
    /\ codes \subseteq Tickets /\ challenges \subseteq Tickets \ codes
    /\ phones \subseteq MemberPhones
    /\ held \in [MemberPhones -> SUBSET Bindings]
    /\ \A p \in MemberPhones \ phones : held[p] = {}
    /\ registering \in [Registrations -> {RegistrationIdle}
           \union [pc : {"proven"}, phone : MemberPhones, ticket : 1..MaxTickets, move : {NoMove} \union Move]]
    /\ signed \subseteq Move
    /\ bought \in [1..MaxTickets -> Nat]

MembersInit ==
    /\ minted = <<>>
    /\ codes = {} /\ challenges = {}
    /\ phones = {}
    /\ held = [p \in MemberPhones |-> {}]
    /\ registering = [h \in Registrations |-> RegistrationIdle]
    /\ signed = {}
    /\ bought = [n \in 1..MaxTickets |-> 0]

(***************************************************************************)
(* Codes and challenges.                                                   *)
(***************************************************************************)
\* issue_member_pairing_code: a code that no live code equals.
IssuesCode(b) ==
    /\ Len(minted) < MaxTickets
    /\ minted' = Append(minted, b)
    /\ codes' = codes \union {Len(minted) + 1}
ConsumesCode(n) == n \in codes /\ codes' = codes \ {n}

MintMemberCode(b) ==
    /\ IssuesCode(b)
    /\ UNCHANGED <<challenges, phones, held, registering, signed, bought>>

WithChallenge(n) == challenges \union {n}

\* The code is spent also when the process stops before its challenge is stored.
CodeBuysChallenge(n) ==
    /\ ConsumesCode(n)
    /\ challenges' = WithChallenge(n) \/ UNCHANGED challenges
    /\ UNCHANGED <<minted, phones, held, registering, signed, bought>>

TicketExpires(n) ==
    /\ n \in codes \union challenges
    /\ codes' = codes \ {n} /\ challenges' = challenges \ {n}
    /\ UNCHANGED <<minted, phones, held, registering, signed, bought>>

(***************************************************************************)
(* A registration.                                                         *)
(***************************************************************************)
\* The holder of a bound phone signs a move, over the new phone's key and challenge.
PhoneSigns(m) ==
    /\ m.ticket \in challenges
    /\ m.from # m.to /\ minted[m.ticket] \in held[m.from]
    /\ signed' = signed \union {m}
    /\ UNCHANGED <<minted, codes, challenges, phones, held, registering, bought>>

\* The challenge is live, and the phone's proof is over it; any signature may come along.
RegisterProves(h, p, n, m) ==
    /\ registering[h] = RegistrationIdle
    /\ n \in challenges
    /\ registering' = [registering EXCEPT ![h] = [pc |-> "proven", phone |-> p, ticket |-> n, move |-> m]]
    /\ UNCHANGED <<minted, codes, challenges, phones, held, signed, bought>>

\* consume_member_challenge, the first thing under the lock.
Consumed(n) == challenges \ {n}

\* The phone is another subject's of this consumer already.
BoundElsewhere(p, b) == \E o \in held[p] : o.consumer = b.consumer /\ o.subject # b.subject

\* The other phone that is bound to it.
BoundTo(b, p) == {q \in MemberPhones \ {p} : b \in held[q]}

\* member_rebind_b64u verifies over the pair, both keys and the fresh challenge.
MovesAnyTicket(r, q) ==
    r.move # NoMove /\ r.move.from = q /\ r.move.to = r.phone /\ minted[r.move.ticket] = minted[r.ticket]
Moves(r, q) == r.move = [from |-> q, to |-> r.phone, ticket |-> r.ticket]

\* member_bindings of the phone that is registered, and of the one it moves from.
Parted(p, b) == [q \in MemberPhones |-> IF q = p THEN held[q] ELSE held[q] \ {b}]
RegisterPhone(p, b) ==
    /\ phones' = phones \union {p}
    /\ held' = [Parted(p, b) EXCEPT ![p] = @ \union {b}]

RegisterMember(h) ==
    LET r == registering[h]  b == minted[r.ticket] IN
    /\ r.pc = "proven"
    /\ r.ticket \in challenges
    /\ challenges' = Consumed(r.ticket)
    /\ ~BoundElsewhere(r.phone, b)
    /\ \A q \in BoundTo(b, r.phone) : Moves(r, q)
    /\ \* The bound phone's record is written first; the new phone's may then fail to follow.
       \/ RegisterPhone(r.phone, b) /\ bought' = [bought EXCEPT ![r.ticket] = @ + 1]
       \/ /\ held' \in {held, Parted(r.phone, b)}
          /\ UNCHANGED <<phones, bought>>
    /\ registering' = [registering EXCEPT ![h] = RegistrationIdle]
    /\ UNCHANGED <<minted, codes, signed>>

\* The challenge is gone, or is spent on a registration that is refused.
RegisterRefused(h) ==
    LET r == registering[h]  b == minted[r.ticket] IN
    /\ r.pc = "proven"
    /\ \/ r.ticket \notin challenges
       \/ BoundElsewhere(r.phone, b)
       \/ \E q \in BoundTo(b, r.phone) : ~Moves(r, q)
    /\ challenges' = Consumed(r.ticket)
    /\ registering' = [registering EXCEPT ![h] = RegistrationIdle]
    /\ UNCHANGED <<minted, codes, phones, held, signed, bought>>

(***************************************************************************)
(* A phone is revoked; the process starts again.                           *)
(***************************************************************************)
Forgets(p) == [held EXCEPT ![p] = {}]

\* The bindings are part of the phone's record.
PhoneRevoked(p) ==
    /\ p \in phones
    /\ phones' = phones \ {p}
    /\ held' = Forgets(p)
    /\ UNCHANGED <<minted, codes, challenges, registering, signed, bought>>

\* Postgres keeps codes and challenges, the file backend does not.
MembersRestart ==
    /\ registering' = [h \in Registrations |-> RegistrationIdle]
    /\ UNCHANGED <<codes, challenges>> \/ (codes' = {} /\ challenges' = {})
    /\ UNCHANGED <<minted, phones, held, signed, bought>>

MembersNext ==
    \/ \E b \in Bindings : MintMemberCode(b)
    \/ \E n \in Tickets : CodeBuysChallenge(n) \/ TicketExpires(n)
    \/ \E m \in Move : PhoneSigns(m)
    \/ \E h \in Registrations :
           \/ \E p \in MemberPhones, n \in challenges, m \in {NoMove} \union signed : RegisterProves(h, p, n, m)
           \/ RegisterMember(h) \/ RegisterRefused(h)
    \/ \E p \in MemberPhones : PhoneRevoked(p)
    \/ MembersRestart

MembersSpec == MembersInit /\ [][MembersNext]_memberVars

(***************************************************************************)
(* Properties.                                                             *)
(***************************************************************************)
\* One phone to a subject and one subject of a consumer to a phone, whatever
\* registrations race, are refused or stop halfway (hard rule 15.n).
BindingsAreOneToOne ==
    \A p, q \in MemberPhones : \A b \in held[p], c \in held[q] :
        /\ b = c => p = q
        /\ p = q /\ b.consumer = c.consumer => b = c

\* A code buys at most one registration, also when several phones answer its
\* challenge at once or one bought it again.
CodeRegistersOnce == \A n \in 1..MaxTickets : bought[n] <= 1

\* A subject leaves a phone only when the phone is revoked, or when that phone
\* signed the very challenge that is spent on the move: a signature kept from an
\* earlier move is worth nothing.
SubjectLeavesBySignature ==
    [][\A p \in MemberPhones : \A b \in held[p] \ held'[p] :
          \/ p \notin phones'
          \/ \E m \in signed : m.from = p /\ minted[m.ticket] = b /\ m.ticket \in challenges \ challenges']_memberVars

\* A member's binding is given once, to one phone, and moved by that phone alone.
MembersAreBoundOnce == [](BindingsAreOneToOne /\ CodeRegistersOnce) /\ SubjectLeavesBySignature
================================================================================
