-------------------------- MODULE GenesisStoreProofs --------------------------
(***************************************************************************)
(* Theorems about GenesisStore, for every set of keys, kinds, operator     *)
(* keys and intents and every bound on the chain.                          *)
(***************************************************************************)
EXTENDS GenesisStore, TLAPS

(***************************************************************************)
(* Lemmas about the operators of ChainRules.                               *)
(***************************************************************************)

\* d has the first n entries of c.
SameUpTo(c, d, n) == \A i \in 1..n : c[i] = d[i]

\* What a chain says after n entries depends on those n entries only.
LEMMA SamePrefixSame ==
    ASSUME NEW c, NEW d, NEW n \in Nat, SameUpTo(c, d, n)
    PROVE  /\ Seated(c, n) = Seated(d, n)
           /\ HashOf(c, n) = HashOf(d, n)
           /\ Sealed(c, n) = Sealed(d, n)
           /\ DeviceEver(c, n) = DeviceEver(d, n)
           /\ MemberKinds(c, n) = MemberKinds(d, n)
  <1>1. Seated(c, n) = Seated(d, n)
    <2>1. \A i \in 1..n : \A j \in (i + 1)..n : j \in 1..n
      OBVIOUS
    <2> QED  BY <2>1 DEF SameUpTo, Seated
  <1>2. HashOf(c, n) = HashOf(d, n)
    BY DEF SameUpTo, HashOf, Content
  <1>3. Sealed(c, n) = Sealed(d, n) /\ DeviceEver(c, n) = DeviceEver(d, n)
    BY DEF SameUpTo, Sealed, DeviceEver
  <1>4. MemberKinds(c, n) = MemberKinds(d, n)
    <2>1. \A i \in Seated(c, n) : c[i] = d[i]
      BY DEF SameUpTo, Seated
    <2> QED  BY <1>1, <2>1 DEF MemberKinds
  <1> QED  BY <1>1, <1>2, <1>3, <1>4

\* Whether an entry may follow n entries depends on those n entries only.
LEMMA SamePrefixMayFollow ==
    ASSUME NEW c, NEW d, NEW n \in Nat, SameUpTo(c, d, n), NEW e
    PROVE  MayFollow(c, n, e) = MayFollow(d, n, e)
  <1>1. /\ Seated(c, n) = Seated(d, n)
        /\ HashOf(c, n) = HashOf(d, n)
        /\ Sealed(c, n) = Sealed(d, n)
        /\ DeviceEver(c, n) = DeviceEver(d, n)
        /\ MemberKinds(c, n) = MemberKinds(d, n)
    BY SamePrefixSame
  <1>2. \A i \in Seated(c, n) : c[i] = d[i]
    BY DEF SameUpTo, Seated
  <1>3. SatisfiedKinds(c, n, e) = SatisfiedKinds(d, n, e)
    BY <1>1, <1>2 DEF SatisfiedKinds
  <1>4. RequireThreshold(c, n, e) = RequireThreshold(d, n, e)
    BY <1>1, <1>3 DEF RequireThreshold, RequireMajority, HasPassphrase
  <1>5. Authorised(c, n, e) = Authorised(d, n, e)
    BY <1>1, <1>3, <1>4 DEF Authorised, RequireReset, HasDevice
  <1>6. MaySeat(c, n, e) = MaySeat(d, n, e)
    BY <1>1, <1>2 DEF MaySeat, Twin, SameUpTo
  <1>7. MayRemove(c, n, e) = MayRemove(d, n, e)
    BY <1>1, <1>2 DEF MayRemove, HasPassphrase
  <1> QED  BY <1>1, <1>5, <1>6, <1>7 DEF MayFollow

\* How one entry moves the members: a move of a kind displaces the entry in
\* force for that kind, a seat puts itself in force, the rest change nothing.
LEMMA SeatedStep ==
    ASSUME NEW c, NEW n \in Nat
    PROVE  Seated(c, n + 1) =
              {i \in Seated(c, n) : c[n + 1].op \in MOVING => c[i].kind # c[n + 1].kind}
                 \union (IF c[n + 1].op \in SEATING THEN {n + 1} ELSE {})
  <1>1. \A i \in 1..n : \A j : j \in (i + 1)..(n + 1) <=> j \in (i + 1)..n \/ j = n + 1
    OBVIOUS
  <1>2. (n + 1 + 1)..(n + 1) = {}
    OBVIOUS
  <1>3. 1..(n + 1) = (1..n) \union {n + 1} /\ n + 1 \notin 1..n
    OBVIOUS
  <1>4. ASSUME NEW i \in 1..n
        PROVE  i \in Seated(c, n + 1) <=>
                  i \in Seated(c, n) /\ (c[n + 1].op \in MOVING => c[i].kind # c[n + 1].kind)
    BY <1>1, <1>3, <1>4 DEF Seated
  <1>5. n + 1 \in Seated(c, n + 1) <=> c[n + 1].op \in SEATING
    BY <1>2, <1>3 DEF Seated
  <1>6. Seated(c, n + 1) \subseteq 1..(n + 1) /\ Seated(c, n) \subseteq 1..n
    BY DEF Seated
  <1> QED  BY <1>3, <1>4, <1>5, <1>6

\* The same for the kinds that are seated.
LEMMA MemberKindsStep ==
    ASSUME NEW c, NEW n \in Nat
    PROVE  /\ c[n + 1].op \in SEATING =>
                  MemberKinds(c, n + 1) = MemberKinds(c, n) \union {c[n + 1].kind}
           /\ c[n + 1].op = "remove" =>
                  MemberKinds(c, n + 1) = MemberKinds(c, n) \ {c[n + 1].kind}
           /\ c[n + 1].op \notin MOVING => MemberKinds(c, n + 1) = MemberKinds(c, n)
  <1>1. CASE c[n + 1].op \in SEATING
    BY <1>1, SeatedStep DEF MemberKinds, MOVING, SEATING
  <1>2. CASE c[n + 1].op = "remove"
    BY <1>2, SeatedStep DEF MemberKinds, MOVING, SEATING
  <1>3. CASE c[n + 1].op \notin MOVING
    BY <1>3, SeatedStep DEF MemberKinds, MOVING, SEATING
  <1> QED  BY <1>1, <1>2, <1>3 DEF MOVING, SEATING

\* A hash is a point of its own length.
LEMMA HashType ==
    ASSUME NEW c \in Seq(Entries), NEW n \in 0..Len(c), n <= MaxLen
    PROVE  HashOf(c, n) \in Points /\ Len(HashOf(c, n)) = n
  <1>1. \A i \in 1..n : c[i] \in Entries
    OBVIOUS
  <1>2. \A i \in 1..n : Content(c[i]) \in Contents
    BY <1>1 DEF Entries, Contents, Content
  <1>3. HashOf(c, n) \in [1..n -> Contents]
    BY <1>2 DEF HashOf
  <1> QED  BY <1>3, MaxLenAssumption DEF Points

(***************************************************************************)
(* Type correctness.                                                       *)
(***************************************************************************)
LEMMA EntryType ==
    ASSUME TypeOK, NEW o \in Ops, NEW k \in Kinds \union {"operator", "bootloader-id"},
           NEW v \in Values, NEW i \in Intents \union {NoIntent}, NEW s \in SUBSET Keys,
           NEW f \in BOOLEAN
    PROVE  Entry(o, k, v, i, s, f) \in Entries
  <1>1. HashOf(chain, Len(chain)) \in Points
    BY HashType DEF TypeOK
  <1> QED  BY <1>1 DEF Entry, Entries

\* What the two processes take are entries; the server's meet require_sealed.
LEMMA ServerTakesEntry ==
    ASSUME TypeOK, ServerTakes
    PROVE  \E e \in Entries : up /\ RequireSealed(e.op) /\ Take("server", e)
  <1> USE DEF Ops, Kinds, Values, ServerAppends
  <1>1. PICK s \in Signings :
          \/ \E k \in DEVICE_KINDS \union {PASSPHRASE_KIND}, v \in Keys :
                ServerAppends(Entry("add", k, v, NoIntent, s, FALSE))
          \/ \E k \in DEVICE_KINDS, v \in Keys :
                ServerAppends(Entry("remove", k, v, NoIntent, s, FALSE))
          \/ \E v \in OperatorKeys :
                ServerAppends(Entry("rotate-operator", "operator", v, NoIntent, s, FALSE))
          \/ ServerAppends(Entry("seal-id", "bootloader-id", SealedId, NoIntent, s, FALSE))
          \/ \E k \in DEVICE_KINDS, v \in Keys, i \in Intents, f \in BOOLEAN :
                ServerAppends(Entry("reset", k, v, i, s, f))
    BY DEF ServerTakes
  <1>2. s \in SUBSET Keys
    BY DEF Signings
  <1>3. CASE \E k \in DEVICE_KINDS \union {PASSPHRASE_KIND}, v \in Keys :
                ServerAppends(Entry("add", k, v, NoIntent, s, FALSE))
    BY <1>2, <1>3, EntryType
  <1>4. CASE \E k \in DEVICE_KINDS, v \in Keys :
                ServerAppends(Entry("remove", k, v, NoIntent, s, FALSE))
    BY <1>2, <1>4, EntryType
  <1>5. CASE \E v \in OperatorKeys :
                ServerAppends(Entry("rotate-operator", "operator", v, NoIntent, s, FALSE))
    BY <1>2, <1>5, EntryType
  <1>6. CASE ServerAppends(Entry("seal-id", "bootloader-id", SealedId, NoIntent, s, FALSE))
    BY <1>2, <1>6, EntryType
  <1>7. CASE \E k \in DEVICE_KINDS, v \in Keys, i \in Intents, f \in BOOLEAN :
                ServerAppends(Entry("reset", k, v, i, s, f))
    BY <1>2, <1>7, EntryType
  <1> QED  BY <1>1, <1>3, <1>4, <1>5, <1>6, <1>7

LEMMA HostTakesEntry ==
    ASSUME TypeOK, HostTakes
    PROVE  \E e \in Entries : /\ HostOverlaps \/ ~up
                             /\ e.op \in {"add", "remove"}
                             /\ Take("host", e)
  <1>1. PICK s \in Signings, o \in {"add", "remove"}, k \in Kinds, v \in Keys :
              HostAppends(Entry(o, k, v, NoIntent, s, FALSE))
    BY DEF HostTakes
  <1>2. Entry(o, k, v, NoIntent, s, FALSE) \in Entries
    BY EntryType DEF Signings, Ops, Values
  <1>3. Entry(o, k, v, NoIntent, s, FALSE).op = o
    BY DEF Entry
  <1> QED  BY <1>1, <1>2, <1>3 DEF HostAppends

LEMMA SealMarkType ==
    ASSUME NEW c \in Seq(Entries), Len(c) <= MaxLen
    PROVE  SealMarkOf(c) \in Points
  BY HashType, MaxLenAssumption DEF SealMarkOf, Points

\* Every variable keeps its type: in particular a mark is two points and never
\* a mark inside a mark.
THEOREM TypeCorrect == Spec => []TypeOK
  <1>1. Init => TypeOK
    <2> SUFFICES ASSUME Init PROVE TypeOK
      OBVIOUS
    <2>1. <<>> \in Points /\ NoJob \in Jobs /\ Len(NoJob.cand) <= MaxLen
      BY MaxLenAssumption DEF NoJob, Jobs, Points
    <2>2. job \in [Processes -> Jobs] /\ \A p \in Processes : Len(job[p].cand) <= MaxLen
      BY <2>1 DEF Init
    <2>3. chain \in Seq(Entries) /\ Len(chain) <= MaxLen
      BY MaxLenAssumption DEF Init
    <2> QED  BY <2>1, <2>2, <2>3 DEF Init, TypeOK, NoMark
  <1>2. TypeOK /\ [Next]_vars => TypeOK'
    <2> SUFFICES ASSUME TypeOK, [Next]_vars PROVE TypeOK'
      OBVIOUS
    <2> USE DEF TypeOK
    <2>0. NoJob \in Jobs /\ Len(NoJob.cand) <= MaxLen
      BY MaxLenAssumption DEF NoJob, Jobs, Points
    <2>1. ASSUME NEW p \in Processes, NEW e \in Entries, Take(p, e)
          PROVE  TypeOK'
      <3>1. Append(chain, e) \in Seq(Entries) /\ Len(Append(chain, e)) <= MaxLen
        BY <2>1, MaxLenAssumption DEF Take
      <3>2. ResolveSealMark(chain, mark) \in Points
        BY DEF ResolveSealMark
      <3> QED  BY <2>1, <3>1, <3>2 DEF Take, Jobs
    <2>2. CASE ServerTakes
      <3>1. PICK e \in Entries : Take("server", e)
        BY <2>2, ServerTakesEntry
      <3> QED  BY <2>1, <3>1 DEF Processes
    <2>3. CASE HostTakes
      <3>1. PICK e \in Entries : Take("host", e)
        BY <2>3, HostTakesEntry
      <3> QED  BY <2>1, <3>1 DEF Processes
    <2>4. ASSUME NEW p \in Processes, WriteMarkAhead(p)
          PROVE  TypeOK'
      BY <2>4, SealMarkType DEF WriteMarkAhead, Jobs
    <2>5. ASSUME NEW p \in Processes, WriteChain(p)
          PROVE  TypeOK'
      BY <2>0, <2>5 DEF WriteChain, Jobs
    <2>6. ASSUME NEW p \in Processes, WriteMark(p)
          PROVE  TypeOK'
      BY <2>0, <2>6, SealMarkType DEF WriteMark, PlainMark, Jobs
    <2>7. ASSUME NEW p \in Processes, WriteFails(p)
          PROVE  TypeOK'
      BY <2>0, <2>7 DEF WriteFails
    <2>8. CASE Crash
      BY <2>0, <2>8 DEF Crash, Processes
    <2>9. CASE Start
      BY <2>9 DEF Start, PlainMark, ResolveSealMark
    <2>10. CASE RestoreChain
      <3>1. PICK n \in 0..(Len(chain) - 1) : chain' = SubSeq(chain, 1, n)
        BY <2>10 DEF RestoreChain
      <3>2. chain' \in Seq(Entries) /\ Len(chain') = n
        BY <3>1
      <3> QED  BY <2>10, <3>2, MaxLenAssumption DEF RestoreChain
    <2>11. CASE LoseMark
      BY <2>11, MaxLenAssumption DEF LoseMark, NoMark, Points
    <2>12. CASE UNCHANGED vars
      BY <2>12 DEF vars
    <2> QED  BY <2>2, <2>3, <2>4, <2>5, <2>6, <2>7, <2>8, <2>9, <2>10, <2>11, <2>12
             DEF Next, Append_
  <1> QED  BY <1>1, <1>2, PTL DEF Spec

(***************************************************************************)
(* The two files answer to each other.                                     *)
(*                                                                         *)
(* CheckSealMark(chain, mark) alone is not inductive: a half-done append   *)
(* holds a candidate and a resolved point in memory, and the next write    *)
(* is sound only because the candidate extends the stored chain and the    *)
(* point still holds on it.  The same facts, with the recorded prefix,     *)
(* give NoSilentRollback.                                                  *)
(***************************************************************************)

\* Point p is the beginning of point q.
Within(p, q) == Len(p) <= Len(q) /\ \A i \in 1..Len(p) : p[i] = q[i]

\* Point p is the beginning of chain c.
WithinChain(p, c) == Len(p) <= Len(c) /\ HashOf(c, Len(p)) = p

\* d is c and one entry more.
Extends(c, d) == Len(d) = Len(c) + 1 /\ SameUpTo(c, d, Len(c))

\* One process appends at a time.
OneWriter ==
    /\ pc["server"] # "idle" => up
    /\ pc["host"] # "idle" => ~up

\* What an append in progress knows of the files.
AppendOK(p) ==
    /\ pc[p] \in {"ready", "marked"} => /\ Extends(chain, job[p].cand)
                                        /\ SideHolds(chain, job[p].prev)
    /\ pc[p] = "marked" => /\ Sealed(job[p].cand, Len(job[p].cand))
                           /\ mark = [prev |-> job[p].prev, next |-> SealMarkOf(job[p].cand)]
    /\ pc[p] = "written" => /\ Sealed(job[p].cand, Len(job[p].cand))
                            /\ chain = job[p].cand
                            /\ mark.next = SealMarkOf(job[p].cand)

AppendInv == \A p \in Processes : AppendOK(p)

\* What the files keep of the chain a plain mark recorded.
PinInv ==
    /\ damage \in {"none", "mark"} => WithinChain(pinned, chain)
    /\ damage \in {"none", "chain"} /\ pinned # <<>> =>
          /\ Within(pinned, mark.prev)
          /\ Within(pinned, mark.next)
          /\ \A p \in Processes : pc[p] \in {"ready", "marked"} => Within(pinned, job[p].prev)

StoreInv == TypeOK /\ OneWriter /\ OwnChainAccepted /\ AppendInv /\ PinInv

\* A chain answers to its own mark, and a longer one still holds every point
\* the shorter one held; an unsealed longer one holds what it held.
LEMMA OwnMarkHolds ==
    ASSUME NEW c \in Seq(Entries), Len(c) <= MaxLen, Sealed(c, Len(c))
    PROVE  SideHolds(c, SealMarkOf(c)) /\ SealMarkOf(c) # <<>> /\ Len(SealMarkOf(c)) = Len(c)
  <1>1. SealMarkOf(c) = HashOf(c, Len(c)) /\ Len(SealMarkOf(c)) = Len(c)
    BY HashType DEF SealMarkOf
  <1>2. Len(c) # 0
    BY DEF Sealed
  <1> QED  BY <1>1, <1>2 DEF SideHolds

LEMMA ExtendsFacts ==
    ASSUME NEW c \in Seq(Entries), NEW d \in Seq(Entries), Extends(c, d), Len(d) <= MaxLen
    PROVE  /\ Sealed(c, Len(c)) => Sealed(d, Len(d))
           /\ \A n \in 0..Len(c) : HashOf(d, n) = HashOf(c, n)
           /\ \A p \in Points : p # <<>> /\ SideHolds(c, p) => Within(p, HashOf(d, Len(d)))
           /\ \A p \in Points : WithinChain(p, c) => WithinChain(p, d)
  <1>1. \A n \in 0..Len(c) : HashOf(d, n) = HashOf(c, n)
    <2>1. ASSUME NEW n \in 0..Len(c) PROVE SameUpTo(c, d, n)
      BY DEF Extends, SameUpTo
    <2> QED  BY <2>1, SamePrefixSame
  <1>2. Sealed(c, Len(c)) => Sealed(d, Len(d))
    BY DEF Extends, Sealed, SameUpTo
  <1>3. \A p \in Points : WithinChain(p, c) => WithinChain(p, d)
    BY <1>1 DEF WithinChain, Extends, Points
  <1>4. ASSUME NEW p \in Points, p # <<>>, SideHolds(c, p)
        PROVE  Within(p, HashOf(d, Len(d)))
    <2>1. Len(p) <= Len(c) /\ HashOf(d, Len(p)) = p
      BY <1>1, <1>4 DEF SideHolds, Points
    <2>2. Len(HashOf(d, Len(d))) = Len(d)
      BY HashType
    <2>3. \A i \in 1..Len(p) : HashOf(d, Len(d))[i] = HashOf(d, Len(p))[i]
      BY <2>1 DEF HashOf, Extends, Points
    <2> QED  BY <2>1, <2>2, <2>3 DEF Within, Extends
  <1> QED  BY <1>1, <1>2, <1>3, <1>4

LEMMA WithinWithin ==
    ASSUME NEW p \in Points, NEW q \in Points, NEW r \in Points, Within(p, q), Within(q, r)
    PROVE  Within(p, r)
  <1>1. Len(p) \in Nat /\ Len(q) \in Nat /\ Len(r) \in Nat
    BY DEF Points
  <1>2. \A i \in 1..Len(p) : i \in 1..Len(q)
    BY <1>1 DEF Within
  <1> QED  BY <1>1, <1>2 DEF Within

\* A point within a held point is within the chain.
LEMMA WithinHeld ==
    ASSUME NEW c \in Seq(Entries), NEW p \in Points, NEW q \in Points,
           p # <<>>, Within(p, q), SideHolds(c, q)
    PROVE  WithinChain(p, c)
  <1>1. q # <<>>
    BY DEF Within, Points
  <1>2. Len(q) <= Len(c) /\ HashOf(c, Len(q)) = q
    BY <1>1 DEF SideHolds
  <1>3. Len(p) <= Len(c)
    BY <1>2 DEF Within, Points
  <1>4. \A i \in 1..Len(p) : HashOf(c, Len(p))[i] = HashOf(c, Len(q))[i]
    BY <1>2 DEF HashOf, Within, Points
  <1>5. HashOf(c, Len(p)) = p
    <2>1. HashOf(c, Len(p)) = [i \in 1..Len(p) |-> p[i]]
      BY <1>2, <1>4 DEF HashOf, Within
    <2> QED  BY <2>1 DEF Points
  <1> QED  BY <1>3, <1>5 DEF WithinChain

LEMMA StoreInvTake ==
    ASSUME StoreInv, TypeOK', NEW p \in Processes, NEW e \in Entries, Take(p, e),
           IF p = "server" THEN up ELSE ~up
    PROVE  StoreInv'
  <1> USE DEF StoreInv
  <1> DEFINE d == Append(chain, e)
  <1>1. d \in Seq(Entries) /\ Extends(chain, d)
    BY DEF TypeOK, Extends, SameUpTo
  <1>2. SideHolds(chain, ResolveSealMark(chain, mark))
    BY DEF Take, CheckSealMark, ResolveSealMark
  <1>3. /\ job'[p] = [cand |-> d, prev |-> ResolveSealMark(chain, mark)] /\ pc'[p] = "ready"
        /\ \A q \in Processes \ {p} : job'[q] = job[q] /\ pc'[q] = pc[q]
    BY DEF Take, TypeOK
  <1>4. OneWriter'
    BY <1>3 DEF OneWriter, Take, Processes
  <1>5. OwnChainAccepted'
    BY DEF OwnChainAccepted, Take
  <1>6. AppendInv'
    <2>1. AppendOK(p)'
      <3>1. chain' = chain /\ mark' = mark
        BY DEF Take
      <3>2. pc'[p] = "ready" /\ job'[p].cand = d /\ job'[p].prev = ResolveSealMark(chain, mark)
        BY <1>3
      <3>3. Extends(chain', job'[p].cand) /\ SideHolds(chain', job'[p].prev)
        BY <1>1, <1>2, <3>1, <3>2
      <3> QED  BY <3>2, <3>3 DEF AppendOK
    <2>2. ASSUME NEW q \in Processes \ {p} PROVE AppendOK(q)'
      BY <1>3 DEF AppendInv, AppendOK, Take
    <2> QED  BY <2>1, <2>2 DEF AppendInv
  <1>7. PinInv'
    BY <1>3 DEF PinInv, Take, ResolveSealMark
  <1> QED  BY <1>4, <1>5, <1>6, <1>7

\* One process writes, so the other is idle.
LEMMA OtherIdle ==
    ASSUME OneWriter, NEW p \in Processes, pc[p] # "idle"
    PROVE  \A q \in Processes \ {p} : pc[q] = "idle"
  BY DEF OneWriter, Processes

LEMMA StoreInvWriteMarkAhead ==
    ASSUME StoreInv, TypeOK', NEW p \in Processes, WriteMarkAhead(p)
    PROVE  StoreInv'
  <1> USE DEF StoreInv
  <1> DEFINE d == job[p].cand
  <1>1. d \in Seq(Entries) /\ Len(d) <= MaxLen /\ job[p].prev \in Points /\ SealMarkOf(d) \in Points
    BY SealMarkType DEF TypeOK, Jobs
  <1>2. Extends(chain, d) /\ SideHolds(chain, job[p].prev) /\ Sealed(d, Len(d))
    BY DEF AppendInv, AppendOK, WriteMarkAhead
  <1>3. \A q \in Processes \ {p} : pc[q] = "idle"
    BY OtherIdle DEF WriteMarkAhead
  <1>4. /\ mark' = [prev |-> job[p].prev, next |-> SealMarkOf(d)]
        /\ pc'[p] = "marked" /\ job' = job /\ chain' = chain
        /\ \A q \in Processes \ {p} : pc'[q] = "idle"
    BY <1>3 DEF WriteMarkAhead, TypeOK
  <1>5. OneWriter'
    BY <1>4 DEF OneWriter, WriteMarkAhead, Processes
  <1>6. OwnChainAccepted'
    BY <1>2, <1>4 DEF OwnChainAccepted, CheckSealMark
  <1>7. AppendInv'
    <2>1. AppendOK(p)'
      BY <1>2, <1>4 DEF AppendOK
    <2>2. ASSUME NEW q \in Processes \ {p} PROVE AppendOK(q)'
      BY <1>4 DEF AppendOK
    <2> QED  BY <2>1, <2>2 DEF AppendInv
  <1>8. PinInv'
    <2>1. damage' = damage /\ pinned' = pinned
      BY DEF WriteMarkAhead
    <2>2. damage \in {"none", "mark"} => WithinChain(pinned, chain)'
      BY <1>4, <2>1 DEF PinInv, WithinChain
    <2>3. ASSUME damage \in {"none", "chain"}, pinned # <<>>
          PROVE  Within(pinned, job[p].prev) /\ Within(pinned, SealMarkOf(d))
      <3>1. Within(pinned, job[p].prev)
        BY <2>3 DEF PinInv, WriteMarkAhead
      <3>2. job[p].prev # <<>>
        BY <2>3, <3>1, <1>1 DEF Within, TypeOK, Points
      <3>3. Within(job[p].prev, HashOf(d, Len(d)))
        BY <1>1, <1>2, <3>2, ExtendsFacts DEF TypeOK
      <3>4. SealMarkOf(d) = HashOf(d, Len(d))
        BY <1>2 DEF SealMarkOf
      <3> QED  BY <1>1, <3>1, <3>3, <3>4, WithinWithin DEF TypeOK
    <2> QED  BY <1>4, <2>1, <2>2, <2>3 DEF PinInv
  <1> QED  BY <1>5, <1>6, <1>7, <1>8

LEMMA StoreInvWriteChain ==
    ASSUME StoreInv, TypeOK', NEW p \in Processes, WriteChain(p)
    PROVE  StoreInv'
  <1> USE DEF StoreInv
  <1> DEFINE d == job[p].cand
  <1>1. d \in Seq(Entries) /\ Len(d) <= MaxLen /\ job[p].prev \in Points /\ chain \in Seq(Entries)
    BY DEF TypeOK, Jobs
  <1>2. pc[p] \in {"ready", "marked"} /\ Extends(chain, d) /\ chain' = d
    BY DEF AppendInv, AppendOK, WriteChain
  <1>3. \A q \in Processes \ {p} : pc[q] = "idle"
    BY <1>2, OtherIdle
  <1>4. \A q \in Processes \ {p} : pc'[q] = "idle"
    BY <1>3 DEF WriteChain, TypeOK
  <1>5. /\ Sealed(d, Len(d)) => pc[p] = "marked" /\ pc'[p] = "written" /\ job' = job
        /\ ~Sealed(d, Len(d)) => pc'[p] = "idle"
    BY DEF WriteChain, TypeOK
  <1>6. mark' = mark /\ damage' = damage /\ pinned' = pinned /\ up' = up
    BY DEF WriteChain
  <1>7. Sealed(d, Len(d)) => mark = [prev |-> job[p].prev, next |-> SealMarkOf(d)]
    BY <1>5 DEF AppendInv, AppendOK
  <1>8. OneWriter'
    BY <1>2, <1>4, <1>6 DEF OneWriter, Processes
  <1>9. OwnChainAccepted'
    <2>1. CASE Sealed(d, Len(d))
      BY <1>1, <1>2, <1>6, <1>7, <2>1, OwnMarkHolds DEF OwnChainAccepted, CheckSealMark
    <2>2. CASE ~Sealed(d, Len(d))
      <3>1. ~Sealed(chain, Len(chain))
        BY <1>1, <1>2, <2>2, ExtendsFacts
      <3> QED  BY <1>2, <1>6, <2>2, <3>1 DEF OwnChainAccepted, CheckSealMark, SideHolds
    <2> QED  BY <2>1, <2>2
  <1>10. AppendInv'
    <2>1. AppendOK(p)'
      BY <1>2, <1>5, <1>6, <1>7 DEF AppendOK
    <2>2. ASSUME NEW q \in Processes \ {p} PROVE AppendOK(q)'
      BY <1>4 DEF AppendOK
    <2> QED  BY <2>1, <2>2 DEF AppendInv
  <1>11. PinInv'
    <2>1. damage \in {"none", "mark"} => WithinChain(pinned, d)
      BY <1>1, <1>2, ExtendsFacts DEF PinInv, TypeOK
    <2> QED  BY <1>2, <1>4, <1>5, <1>6, <2>1 DEF PinInv, WithinChain
  <1> QED  BY <1>8, <1>9, <1>10, <1>11

LEMMA StoreInvWriteMark ==
    ASSUME StoreInv, TypeOK', NEW p \in Processes, WriteMark(p)
    PROVE  StoreInv'
  <1> USE DEF StoreInv
  <1> DEFINE d == job[p].cand
  <1>1. d \in Seq(Entries) /\ Len(d) <= MaxLen /\ SealMarkOf(d) \in Points
    BY SealMarkType DEF TypeOK, Jobs
  <1>2. Sealed(d, Len(d)) /\ chain = d
    BY DEF AppendInv, AppendOK, WriteMark
  <1>3. \A q \in Processes \ {p} : pc[q] = "idle"
    BY OtherIdle DEF WriteMark
  <1>4. \A q \in Processes : pc'[q] = "idle"
    BY <1>3 DEF WriteMark, TypeOK
  <1>5. /\ mark' = PlainMark(SealMarkOf(d)) /\ pinned' = SealMarkOf(d)
        /\ chain' = chain /\ damage' = damage /\ up' = up
    BY DEF WriteMark
  <1>6. SideHolds(d, SealMarkOf(d)) /\ Len(SealMarkOf(d)) = Len(d)
    BY <1>1, <1>2, OwnMarkHolds
  <1>7. OneWriter'
    BY <1>4 DEF OneWriter, Processes
  <1>8. OwnChainAccepted'
    BY <1>2, <1>5, <1>6 DEF OwnChainAccepted, CheckSealMark, PlainMark
  <1>9. AppendInv'
    BY <1>4 DEF AppendInv, AppendOK
  <1>10. PinInv'
    <2>1. WithinChain(SealMarkOf(d), d)
      BY <1>1, <1>2, <1>6 DEF WithinChain, SealMarkOf
    <2>2. Within(SealMarkOf(d), SealMarkOf(d))
      BY <1>1 DEF Within, Points
    <2> QED  BY <1>2, <1>4, <1>5, <2>1, <2>2 DEF PinInv, PlainMark
  <1> QED  BY <1>7, <1>8, <1>9, <1>10

\* A process that gives up, or dies, leaves the files as they are.
LEMMA StoreInvStops ==
    ASSUME StoreInv, TypeOK', NEW p \in Processes,
           chain' = chain, mark' = mark, pinned' = pinned, damage' = damage,
           pc' = [pc EXCEPT ![p] = "idle"], job' = [job EXCEPT ![p] = NoJob],
           up' = up \/ (p = "server" /\ up' = FALSE)
    PROVE  StoreInv'
  <1> USE DEF StoreInv
  <1>1. /\ pc'[p] = "idle"
        /\ \A q \in Processes \ {p} : pc'[q] = pc[q] /\ job'[q] = job[q]
    BY DEF TypeOK
  <1>2. OneWriter'
    BY <1>1 DEF OneWriter, Processes, TypeOK
  <1>3. OwnChainAccepted'
    BY DEF OwnChainAccepted
  <1>4. AppendInv'
    <2>1. ASSUME NEW q \in Processes PROVE AppendOK(q)'
      BY <1>1 DEF AppendInv, AppendOK
    <2> QED  BY <2>1 DEF AppendInv
  <1>5. PinInv'
    BY <1>1 DEF PinInv
  <1> QED  BY <1>2, <1>3, <1>4, <1>5

\* A start settles the mark on the side that holds.
LEMMA StoreInvStart ==
    ASSUME StoreInv, TypeOK', ~HostOverlaps, Start
    PROVE  StoreInv'
  <1> USE DEF StoreInv
  <1> DEFINE s == ResolveSealMark(chain, mark)
  <1>1. SideHolds(chain, s) /\ (s = mark.next \/ s = mark.prev)
    BY DEF Start, CheckSealMark, ResolveSealMark
  <1>2. \A q \in Processes : pc[q] = "idle" /\ pc'[q] = "idle"
    BY DEF Start, OneWriter, Processes
  <1>3. /\ mark' = PlainMark(s) /\ chain' = chain /\ pinned' = pinned /\ damage' = damage
        /\ job' = job
    BY DEF Start
  <1>4. OneWriter'
    BY <1>2 DEF OneWriter, Processes
  <1>5. OwnChainAccepted'
    BY <1>1, <1>3 DEF OwnChainAccepted, CheckSealMark, PlainMark
  <1>6. AppendInv'
    BY <1>2 DEF AppendInv, AppendOK
  <1>7. PinInv'
    BY <1>1, <1>2, <1>3 DEF PinInv, PlainMark, WithinChain
  <1> QED  BY <1>4, <1>5, <1>6, <1>7

\* Damage to one file, with nothing in progress.
LEMMA StoreInvDamage ==
    ASSUME StoreInv, TypeOK', RestoreChain \/ LoseMark
    PROVE  StoreInv'
  <1> USE DEF StoreInv
  <1>1. /\ \A q \in Processes : pc'[q] = "idle"
        /\ pinned' = pinned
        /\ up' = up
    BY DEF RestoreChain, LoseMark, Quiet
  <1>2. damage' # "none"
    BY DEF RestoreChain, LoseMark
  <1>3. OneWriter'
    BY <1>1 DEF OneWriter, Processes
  <1>4. OwnChainAccepted'
    BY <1>2 DEF OwnChainAccepted
  <1>5. AppendInv'
    BY <1>1 DEF AppendInv, AppendOK
  <1>6. PinInv'
    <2>1. CASE RestoreChain
      BY <1>1, <2>1 DEF PinInv, RestoreChain
    <2>2. CASE LoseMark
      BY <1>1, <2>2 DEF PinInv, LoseMark, WithinChain
    <2> QED  BY <2>1, <2>2
  <1> QED  BY <1>3, <1>4, <1>5, <1>6

LEMMA StoreInvInit ==
    ASSUME Init, TypeOK PROVE StoreInv
  <1>1. Len(chain) = 0 /\ chain = <<>>
    BY DEF Init
  <1>2. ~Sealed(chain, Len(chain))
    BY <1>1 DEF Sealed
  <1>3. OwnChainAccepted
    BY <1>2 DEF Init, OwnChainAccepted, CheckSealMark, SideHolds, NoMark
  <1>4. OneWriter /\ AppendInv
    BY DEF Init, OneWriter, AppendInv, AppendOK, Processes
  <1>5. PinInv
    <2>1. WithinChain(<<>>, <<>>)
      BY DEF WithinChain, HashOf
    <2> QED  BY <2>1 DEF Init, PinInv
  <1> QED  BY <1>3, <1>4, <1>5 DEF StoreInv

LEMMA StoreInvStep ==
    ASSUME ~HostOverlaps, StoreInv, [Next]_vars, TypeOK'
    PROVE  StoreInv'
  <1>0. TypeOK
    BY DEF StoreInv
  <1>1. CASE ServerTakes
    <2>1. PICK e \in Entries : up /\ Take("server", e)
      BY <1>0, <1>1, ServerTakesEntry
    <2> QED  BY <2>1, StoreInvTake DEF Processes
  <1>2. CASE HostTakes
    <2>1. PICK e \in Entries : ~up /\ Take("host", e)
      BY <1>0, <1>2, HostTakesEntry
    <2> QED  BY <2>1, StoreInvTake DEF Processes
  <1>3. ASSUME NEW p \in Processes, Append_(p)
        PROVE  StoreInv'
    <2>1. CASE WriteMarkAhead(p)
      BY <2>1, StoreInvWriteMarkAhead
    <2>2. CASE WriteChain(p)
      BY <2>2, StoreInvWriteChain
    <2>3. CASE WriteMark(p)
      BY <2>3, StoreInvWriteMark
    <2>4. CASE WriteFails(p)
      BY <2>4, StoreInvStops DEF WriteFails
    <2> QED  BY <1>3, <2>1, <2>2, <2>3, <2>4 DEF Append_
  <1>4. CASE Crash
    BY <1>4, StoreInvStops DEF Crash, Processes
  <1>5. CASE Start
    BY <1>5, StoreInvStart
  <1>6. CASE RestoreChain \/ LoseMark
    BY <1>6, StoreInvDamage
  <1>7. CASE UNCHANGED vars
    <2>1. /\ chain' = chain /\ mark' = mark /\ up' = up /\ pc' = pc /\ job' = job
          /\ pinned' = pinned /\ damage' = damage
      BY <1>7 DEF vars
    <2>2. OneWriter' /\ OwnChainAccepted'
      BY <2>1 DEF StoreInv, OneWriter, OwnChainAccepted
    <2>3. AppendInv' /\ PinInv'
      BY <2>1 DEF StoreInv, AppendInv, AppendOK, PinInv
    <2> QED  BY <2>2, <2>3 DEF StoreInv
  <1> QED  BY <1>1, <1>2, <1>3, <1>4, <1>5, <1>6, <1>7 DEF Next

\* The inductive invariant, while the host command keeps clear of a serving
\* bootloader.
THEOREM StoreInvariant == ASSUME ~HostOverlaps PROVE Spec => []StoreInv
  <1>1. Init /\ TypeOK => StoreInv
    BY StoreInvInit
  <1>2. StoreInv /\ [Next]_vars /\ TypeOK' => StoreInv'
    BY StoreInvStep
  <1>3. Spec => []TypeOK
    BY TypeCorrect
  <1> QED  BY <1>1, <1>2, <1>3, PTL DEF Spec

\* Undamaged files always answer to each other: no crash and no failed write
\* makes the store refuse a chain it wrote itself.
THEOREM OwnChainAlwaysAccepted == ASSUME ~HostOverlaps PROVE Spec => []OwnChainAccepted
  <1>1. StoreInv => OwnChainAccepted
    BY DEF StoreInv
  <1> QED  BY <1>1, StoreInvariant, PTL

LEMMA HeldWhenAccepted ==
    ASSUME StoreInv, CheckSealMark(chain, mark)
    PROVE  WithinChain(pinned, chain)
  <1> USE DEF StoreInv
  <1>1. chain \in Seq(Entries) /\ pinned \in Points /\ mark.prev \in Points /\ mark.next \in Points
    BY DEF TypeOK
  <1>2. CASE damage \in {"none", "mark"}
    BY <1>2 DEF PinInv
  <1>3. CASE damage = "chain" /\ pinned # <<>>
    BY <1>1, <1>3, WithinHeld DEF PinInv, CheckSealMark
  <1>4. CASE pinned = <<>>
    BY <1>1, <1>4 DEF WithinChain, HashOf
  <1> QED  BY <1>2, <1>3, <1>4 DEF TypeOK

\* A chain that answers to its mark holds everything a finished append sealed,
\* whichever one of the two files was restored or deleted.
THEOREM NeverRolledBackSilently == ASSUME ~HostOverlaps PROVE Spec => []NoSilentRollback
  <1>1. StoreInv => NoSilentRollback
    BY HeldWhenAccepted DEF NoSilentRollback, WithinChain
  <1> QED  BY <1>1, StoreInvariant, PTL

(***************************************************************************)
(* The store implements SealedLog.  Every step but three leaves chain,     *)
(* pinned and up alone; the three change one each, and the invariant gives *)
(* the promise's guard.                                                    *)
(***************************************************************************)
LEMMA PointTypes ==
    ASSUME NEW c \in Seq(Entries), Len(c) <= MaxLen
    PROVE  HashOf(c, Len(c)) \in Points /\ Len(HashOf(c, Len(c))) = Len(c)
  BY HashType, MaxLenAssumption

\* A chain that holds a point begins with it.
LEMMA WithinChainBegins ==
    ASSUME NEW c \in Seq(Entries), Len(c) <= MaxLen, NEW p \in Points, WithinChain(p, c)
    PROVE  Within(p, HashOf(c, Len(c)))
  <1>1. Len(HashOf(c, Len(c))) = Len(c)
    BY PointTypes
  <1>2. Len(p) \in 0..Len(c)
    BY DEF WithinChain, Points
  <1>3. \A i \in 1..Len(p) : p[i] = HashOf(c, Len(c))[i]
    BY <1>2 DEF WithinChain, HashOf
  <1> QED  BY <1>1, <1>2, <1>3 DEF Within

\* An append under way read a chain that holds what was acknowledged.
LEMMA HeldWhileAppending ==
    ASSUME StoreInv, NEW p \in Processes, pc[p] \in {"ready", "marked"}
    PROVE  WithinChain(pinned, chain)
  <1> USE DEF StoreInv
  <1>1. chain \in Seq(Entries) /\ pinned \in Points /\ job[p].prev \in Points
    BY DEF TypeOK, Jobs
  <1>2. CASE damage \in {"none", "mark"}
    BY <1>2 DEF PinInv
  <1>3. CASE damage = "chain" /\ pinned # <<>>
    <2>1. Within(pinned, job[p].prev) /\ SideHolds(chain, job[p].prev)
      BY <1>3 DEF PinInv, AppendInv, AppendOK
    <2> QED  BY <1>1, <1>3, <2>1, WithinHeld
  <1>4. CASE pinned = <<>>
    BY <1>1, <1>4 DEF WithinChain, HashOf
  <1> QED  BY <1>2, <1>3, <1>4 DEF TypeOK

LEMMA LogHolds ==
    ASSUME StoreInv, WithinChain(pinned, chain)
    PROVE  Log!Holds
  BY WithinChainBegins DEF StoreInv, TypeOK, Within, Log!Holds, Log!Begins

LEMMA ImplementsWriteChain ==
    ASSUME StoreInv, TypeOK', NEW p \in Processes, WriteChain(p)
    PROVE  Log!Grow
  <1> USE DEF StoreInv
  <1> DEFINE d == job[p].cand
  <1>1. d \in Seq(Entries) /\ Len(d) <= MaxLen /\ chain \in Seq(Entries) /\ Len(chain) <= MaxLen
    BY DEF TypeOK, Jobs
  <1>2. pc[p] \in {"ready", "marked"} /\ chain' = d /\ pinned' = pinned /\ up' = up
    BY DEF WriteChain
  <1>3. Extends(chain, d)
    BY <1>2 DEF AppendInv, AppendOK
  <1>4. Log!Holds
    BY <1>2, HeldWhileAppending, LogHolds
  <1>5. Len(HashOf(d, Len(d))) = Len(d) /\ Len(HashOf(chain, Len(chain))) = Len(chain)
    BY <1>1, PointTypes
  <1>6. Len(d) = Len(chain) + 1
    BY <1>3 DEF Extends
  <1>7. \A i \in 1..Len(chain) : HashOf(chain, Len(chain))[i] = HashOf(d, Len(d))[i]
    BY <1>1, <1>3, <1>6 DEF HashOf, Extends, SameUpTo
  <1>8. Log!Begins(HashOf(chain, Len(chain)), HashOf(d, Len(d)))
    BY <1>1, <1>5, <1>6, <1>7 DEF Log!Begins
  <1> QED  BY <1>2, <1>4, <1>5, <1>6, <1>8 DEF Log!Grow

LEMMA ImplementsWriteMark ==
    ASSUME StoreInv, TypeOK', NEW p \in Processes, WriteMark(p)
    PROVE  Log!Acknowledge
  <1> USE DEF StoreInv
  <1>1. chain = job[p].cand /\ Sealed(chain, Len(chain)) /\ pc[p] = "written"
    BY DEF WriteMark, AppendInv, AppendOK
  <1>2. pinned' = HashOf(chain, Len(chain)) /\ chain' = chain /\ up' = up
    BY <1>1 DEF WriteMark, SealMarkOf
  <1>3. SideHolds(chain, mark.next)
    BY <1>1, OwnMarkHolds DEF TypeOK, AppendInv, AppendOK
  <1>4. Log!Holds
    BY <1>3, HeldWhenAccepted, LogHolds DEF CheckSealMark
  <1> QED  BY <1>2, <1>4 DEF Log!Acknowledge

LEMMA ImplementsRestoreChain ==
    ASSUME StoreInv, RestoreChain
    PROVE  Log!CutBack
  <1> USE DEF StoreInv
  <1>1. PICK n \in 0..(Len(chain) - 1) : chain' = SubSeq(chain, 1, n)
    BY DEF RestoreChain
  <1>2. chain \in Seq(Entries) /\ Len(chain) <= MaxLen
    BY DEF TypeOK
  <1>3. chain' \in Seq(Entries) /\ Len(chain') = n /\ \A i \in 1..n : chain'[i] = chain[i]
    BY <1>1, <1>2
  <1>4. Len(HashOf(chain', Len(chain'))) = n /\ Len(HashOf(chain, Len(chain))) = Len(chain)
    <2>1. Len(chain') <= MaxLen
      BY <1>2, <1>3, MaxLenAssumption
    <2> QED  BY <1>2, <1>3, <2>1, PointTypes
  <1>5. \A i \in 1..n : HashOf(chain', Len(chain'))[i] = HashOf(chain, Len(chain))[i]
    BY <1>2, <1>3 DEF HashOf
  <1>6. Log!Begins(HashOf(chain', Len(chain')), HashOf(chain, Len(chain)))
    BY <1>2, <1>4, <1>5 DEF Log!Begins
  <1> QED  BY <1>2, <1>4, <1>6 DEF RestoreChain, Quiet, Log!CutBack

LEMMA ImplementsStart ==
    ASSUME StoreInv, Start
    PROVE  Log!Open
  <1>1. Log!Holds
    BY HeldWhenAccepted, LogHolds DEF Start
  <1> QED  BY <1>1 DEF Start, Log!Open

LEMMA ImplementsStep ==
    ASSUME StoreInv, TypeOK', [Next]_vars
    PROVE  [Log!LogNext]_(Log!logVars)
  <1> USE DEF Log!LogNext
  <1>1. CASE ServerTakes
    BY <1>1, ServerTakesEntry DEF StoreInv, Take, Log!logVars
  <1>2. CASE HostTakes
    <2>1. PICK e \in Entries : Take("host", e)
      BY <1>2, HostTakesEntry DEF StoreInv
    <2> QED  BY <2>1 DEF Take, Log!logVars
  <1>3. ASSUME NEW p \in Processes, Append_(p)
        PROVE  [Log!LogNext]_(Log!logVars)
    <2>1. CASE WriteMarkAhead(p)
      BY <2>1 DEF WriteMarkAhead, Log!logVars
    <2>2. CASE WriteChain(p)
      BY <2>2, ImplementsWriteChain
    <2>3. CASE WriteMark(p)
      BY <2>3, ImplementsWriteMark
    <2>4. CASE WriteFails(p)
      BY <2>4 DEF WriteFails, Log!logVars
    <2> QED  BY <1>3, <2>1, <2>2, <2>3, <2>4 DEF Append_
  <1>4. CASE Crash
    BY <1>4 DEF Crash, Log!Close
  <1>5. CASE Start
    BY <1>5, ImplementsStart
  <1>6. CASE RestoreChain
    BY <1>6, ImplementsRestoreChain
  <1>7. CASE LoseMark
    BY <1>7 DEF LoseMark, Log!logVars
  <1>8. CASE UNCHANGED vars
    BY <1>8 DEF vars, Log!logVars
  <1> QED  BY <1>1, <1>2, <1>3, <1>4, <1>5, <1>6, <1>7, <1>8 DEF Next

\* The two files and their three writes are one log that is never served, or
\* added to, without what it acknowledged, for chains of every length.
THEOREM StoreImplementsSealedLog == ASSUME ~HostOverlaps PROVE Spec => ImplementsSealedLog
  <1>1. Init => Log!LogInit
    BY DEF Init, Log!LogInit, HashOf
  <1>2. StoreInv /\ TypeOK' /\ [Next]_vars => [Log!LogNext]_(Log!logVars)
    BY ImplementsStep
  <1>3. Spec => []StoreInv /\ []TypeOK
    BY StoreInvariant, TypeCorrect, PTL
  <1> QED  BY <1>1, <1>2, <1>3, PTL DEF Spec, ImplementsSealedLog, Log!LogSpec

(***************************************************************************)
(* What every stored chain says of its members, for every set of keys,     *)
(* kinds and intents, under every fault, and with the host command beside  *)
(* a serving bootloader or not: an append proves its candidate before it   *)
(* writes, so a roster rule needs no lock.                                 *)
(***************************************************************************)

\* No key is seated under two kinds.
DistinctKeys(c, n) ==
    \A i, j \in Seated(c, n) : c[i].kind # c[j].kind => c[i].key # c[j].key

SealComplete(c, n) == Sealed(c, n) => HasPassphrase(c, n) /\ HasDevice(c, n)

RosterOK(c) ==
    \A n \in 1..Len(c) :
        MayFollow(c, n - 1, c[n]) /\ DistinctKeys(c, n) /\ SealComplete(c, n)

\* Neither rule of Authorised speaks of a twin, and replay_state does not ask
\* for the passphrase at the seal: the roster rules hold of a chain only
\* together, and of the candidates too, since a write puts one in place.
RosterInv == RosterOK(chain) /\ \A p \in Processes : RosterOK(job[p].cand)

\* A chain has the roster rules of every beginning of it, and of one entry more
\* when that entry may follow.
LEMMA RosterPrefix ==
    ASSUME NEW c \in Seq(Entries), NEW d \in Seq(Entries), RosterOK(c),
           Len(d) <= Len(c), SameUpTo(c, d, Len(d))
    PROVE  RosterOK(d)
  <1> SUFFICES ASSUME NEW n \in 1..Len(d)
               PROVE  MayFollow(d, n - 1, d[n]) /\ DistinctKeys(d, n) /\ SealComplete(d, n)
    BY DEF RosterOK
  <1>1. n \in 1..Len(c) /\ n - 1 \in Nat /\ n \in Nat /\ c[n] = d[n]
    BY DEF SameUpTo
  <1>2. SameUpTo(c, d, n) /\ SameUpTo(c, d, n - 1)
    BY DEF SameUpTo
  <1>3. MayFollow(d, n - 1, d[n])
    BY <1>1, <1>2, SamePrefixMayFollow DEF RosterOK
  <1>4. Seated(c, n) = Seated(d, n) /\ Sealed(c, n) = Sealed(d, n)
          /\ MemberKinds(c, n) = MemberKinds(d, n)
    BY <1>1, <1>2, SamePrefixSame
  <1>5. \A i \in Seated(c, n) : c[i] = d[i]
    BY <1>2 DEF SameUpTo, Seated
  <1>6. DistinctKeys(d, n)
    BY <1>1, <1>4, <1>5 DEF RosterOK, DistinctKeys
  <1>7. SealComplete(d, n)
    BY <1>1, <1>4 DEF RosterOK, SealComplete, HasPassphrase, HasDevice
  <1> QED  BY <1>3, <1>6, <1>7

\* A seat that makes no twin keeps the members' keys apart.
LEMMA DistinctKeysStep ==
    ASSUME NEW c, NEW n \in Nat, DistinctKeys(c, n), MayFollow(c, n, c[n + 1])
    PROVE  DistinctKeys(c, n + 1)
  <1>1. ASSUME NEW i \in Seated(c, n + 1) PROVE i = n + 1 \/ i \in Seated(c, n)
    BY SeatedStep
  <1>2. n + 1 \in Seated(c, n + 1) => c[n + 1].op \in SEATING
    <2>1. n + 1 \notin Seated(c, n)
      BY DEF Seated
    <2> QED  BY <2>1, SeatedStep
  <1>3. c[n + 1].op \in SEATING => ~Twin(c, n, c[n + 1])
    BY DEF MayFollow, MaySeat
  <1> QED  BY <1>1, <1>2, <1>3 DEF DistinctKeys, Twin

\* A seal that finds both kinds keeps them, and every later entry keeps them.
LEMMA SealCompleteStep ==
    ASSUME NEW c, NEW n \in Nat, SealComplete(c, n), MayFollow(c, n, c[n + 1]),
           c[n + 1].op = "seal-id" => HasPassphrase(c, n) /\ HasDevice(c, n)
    PROVE  SealComplete(c, n + 1)
  <1> SUFFICES ASSUME Sealed(c, n + 1)
               PROVE  HasPassphrase(c, n + 1) /\ HasDevice(c, n + 1)
    BY DEF SealComplete
  <1>1. HasPassphrase(c, n) /\ HasDevice(c, n)
    BY DEF SealComplete, Sealed
  <1>2. CASE c[n + 1].op \in SEATING
    BY <1>1, <1>2, MemberKindsStep DEF HasPassphrase, HasDevice
  <1>3. CASE c[n + 1].op = "remove"
    <2>1. MemberKinds(c, n + 1) = MemberKinds(c, n) \ {c[n + 1].kind}
      BY <1>3, MemberKindsStep
    <2>2. DeviceEver(c, n)
      BY <1>1 DEF HasDevice, MemberKinds, Seated, DeviceEver
    <2>3. /\ c[n + 1].kind # PASSPHRASE_KIND
          /\ (MemberKinds(c, n) \ {c[n + 1].kind}) \intersect DEVICE_KINDS # {}
      BY <1>1, <1>3, <2>2 DEF MayFollow, MayRemove
    <2> QED  BY <1>1, <2>1, <2>3 DEF HasPassphrase, HasDevice
  <1>4. CASE c[n + 1].op \notin MOVING
    BY <1>1, <1>4, MemberKindsStep DEF HasPassphrase, HasDevice
  <1> QED  BY <1>2, <1>3, <1>4 DEF MOVING, SEATING

LEMMA RosterTake ==
    ASSUME TypeOK, RosterInv, NEW p \in Processes, NEW e \in Entries, Take(p, e),
           e.op = "seal-id" => HasPassphrase(chain, Len(chain)) /\ HasDevice(chain, Len(chain))
    PROVE  RosterInv'
  <1> DEFINE d == Append(chain, e)
             n == Len(chain)
  <1>1. /\ d \in Seq(Entries) /\ Len(d) = n + 1 /\ n \in Nat /\ d[n + 1] = e
        /\ SameUpTo(chain, d, n)
    BY DEF TypeOK, SameUpTo
  <1>2. \A m \in 1..(n + 1) : MayFollow(d, m - 1, d[m])
    BY <1>1 DEF Take, Replays
  <1> HIDE DEF d, n
  <1>3. /\ DistinctKeys(d, n) /\ SealComplete(d, n)
        /\ \A m \in 1..n : DistinctKeys(d, m) /\ SealComplete(d, m)
    <2>1. ASSUME NEW m \in 1..n PROVE DistinctKeys(d, m) /\ SealComplete(d, m)
      <3>1. m \in Nat /\ SameUpTo(chain, d, m)
        BY <1>1 DEF SameUpTo
      <3>2. /\ Seated(d, m) = Seated(chain, m) /\ Sealed(d, m) = Sealed(chain, m)
            /\ MemberKinds(d, m) = MemberKinds(chain, m)
        BY <3>1, SamePrefixSame
      <3>3. \A i \in Seated(d, m) : chain[i] = d[i]
        BY <3>1 DEF SameUpTo, Seated
      <3>4. DistinctKeys(chain, m) /\ SealComplete(chain, m)
        BY DEF RosterInv, RosterOK, n
      <3> QED  BY <3>2, <3>3, <3>4 DEF DistinctKeys, SealComplete, HasPassphrase, HasDevice
    <2>2. CASE n = 0
      BY <2>1, <2>2 DEF DistinctKeys, SealComplete, Seated, Sealed
    <2>3. CASE n # 0
      BY <1>1, <2>1, <2>3
    <2> QED  BY <2>1, <2>2, <2>3
  <1>4. e.op = "seal-id" => HasPassphrase(d, n) /\ HasDevice(d, n)
    <2>1. MemberKinds(d, n) = MemberKinds(chain, n)
      BY <1>1, SamePrefixSame
    <2> QED  BY <2>1 DEF HasPassphrase, HasDevice, n
  <1>5. MayFollow(d, n, d[n + 1])
    <2>1. n + 1 \in 1..(n + 1) /\ (n + 1) - 1 = n
      BY <1>1
    <2> QED  BY <1>2, <2>1
  <1>6. DistinctKeys(d, n + 1) /\ SealComplete(d, n + 1)
    BY <1>1, <1>3, <1>4, <1>5, DistinctKeysStep, SealCompleteStep
  <1>7. RosterOK(d)
    <2>1. \A m \in 1..(n + 1) : m \in 1..n \/ m = n + 1
      BY <1>1
    <2> QED  BY <1>1, <1>2, <1>3, <1>6, <2>1 DEF RosterOK
  <1>8. chain' = chain /\ job'[p].cand = d /\ \A q \in Processes \ {p} : job'[q] = job[q]
    BY DEF Take, TypeOK, d
  <1> QED  BY <1>7, <1>8 DEF RosterInv

LEMMA RosterStep ==
    ASSUME TypeOK, RosterInv, [Next]_vars
    PROVE  RosterInv'
  <1>0. RosterOK(NoJob.cand)
    BY DEF RosterOK, NoJob
  <1>1. CASE ServerTakes
    <2>1. PICK e \in Entries : RequireSealed(e.op) /\ Take("server", e)
      BY <1>1, ServerTakesEntry
    <2> QED  BY <2>1, RosterTake DEF Processes, RequireSealed
  <1>2. CASE HostTakes
    <2>1. PICK e \in Entries : e.op \in {"add", "remove"} /\ Take("host", e)
      BY <1>2, HostTakesEntry
    <2> QED  BY <2>1, RosterTake DEF Processes
  <1>3. ASSUME NEW p \in Processes, Append_(p)
        PROVE  RosterInv'
    <2>1. CASE WriteMarkAhead(p)
      BY <2>1 DEF WriteMarkAhead, RosterInv
    <2>2. CASE WriteChain(p)
      BY <1>0, <2>2 DEF WriteChain, RosterInv, TypeOK
    <2>3. CASE WriteMark(p)
      BY <1>0, <2>3 DEF WriteMark, RosterInv, TypeOK
    <2>4. CASE WriteFails(p)
      BY <1>0, <2>4 DEF WriteFails, RosterInv, TypeOK
    <2> QED  BY <1>3, <2>1, <2>2, <2>3, <2>4 DEF Append_
  <1>4. CASE Crash
    BY <1>0, <1>4 DEF Crash, RosterInv, TypeOK
  <1>5. CASE Start
    BY <1>5 DEF Start, RosterInv
  <1>6. CASE RestoreChain
    <2>1. PICK n \in 0..(Len(chain) - 1) : chain' = SubSeq(chain, 1, n)
      BY <1>6 DEF RestoreChain
    <2>2. /\ chain' \in Seq(Entries) /\ Len(chain') = n /\ n <= Len(chain)
          /\ SameUpTo(chain, chain', Len(chain'))
      BY <2>1 DEF TypeOK, SameUpTo
    <2>3. RosterOK(chain')
      BY <2>2, RosterPrefix DEF RosterInv, TypeOK
    <2> QED  BY <1>6, <2>3 DEF RestoreChain, RosterInv
  <1>7. CASE LoseMark
    BY <1>7 DEF LoseMark, RosterInv
  <1>8. CASE UNCHANGED vars
    BY <1>8 DEF vars, RosterInv
  <1> QED  BY <1>1, <1>2, <1>3, <1>4, <1>5, <1>6, <1>7, <1>8 DEF Next

\* Every stored chain, and every candidate, keeps the roster rules.
THEOREM RosterInvariant == Spec => []RosterInv
  <1>1. Init => RosterInv
    <2>1. RosterOK(<<>>)
      BY DEF RosterOK
    <2> QED  BY <2>1 DEF Init, RosterInv, NoJob
  <1>2. TypeOK /\ RosterInv /\ [Next]_vars => RosterInv'
    BY RosterStep
  <1> QED  BY <1>1, <1>2, TypeCorrect, PTL DEF Spec

\* A sealed set is never without its passphrase or without a device.
THEOREM SealedSetAlwaysComplete == Spec => []SealedSetComplete
  <1>1. RosterInv => SealedSetComplete
    BY DEF RosterInv, RosterOK, SealComplete, SealedSetComplete
  <1> QED  BY <1>1, RosterInvariant, PTL

\* Two different keys stand behind every change of a set that has both kinds.
THEOREM TwoKeysBehindEveryChange == Spec => []TwoKeysPerChange
  <1>1. TypeOK /\ RosterInv => TwoKeysPerChange
    <2> SUFFICES ASSUME TypeOK, RosterInv, NEW n \in 1..(Len(chain) - 1),
                        HasPassphrase(chain, n), DeviceEver(chain, n)
                 PROVE  \E i \in Seated(chain, n) :
                            /\ chain[i].key \in chain[n + 1].signers
                            /\ \/ \E j \in Seated(chain, n) :
                                    chain[j].key \in chain[n + 1].signers \ {chain[i].key}
                               \/ /\ chain[n + 1].fresh
                                  /\ chain[n + 1].key # chain[i].key
      BY DEF TwoKeysPerChange
    <2> DEFINE e == chain[n + 1]
    <2>1. MayFollow(chain, n, e) /\ DistinctKeys(chain, n) /\ n # 0
      <3>1. n + 1 \in 1..Len(chain) /\ (n + 1) - 1 = n /\ n \in 1..Len(chain) /\ n # 0
        BY DEF TypeOK
      <3> QED  BY <3>1 DEF RosterInv, RosterOK
    <2>2. Authorised(chain, n, e)
      BY <2>1 DEF MayFollow
    <2> HIDE DEF e
    <2>3. PASSPHRASE_KIND \in SatisfiedKinds(chain, n, e)
      BY <2>2 DEF Authorised, RequireReset, RequireThreshold
    <2>4. PICK i \in Seated(chain, n) :
                chain[i].key \in e.signers /\ chain[i].kind = PASSPHRASE_KIND
      BY <2>3 DEF SatisfiedKinds
    <2>5. CASE e.op = "reset"
      <3>1. e.fresh /\ e.kind \in DEVICE_KINDS /\ ~Twin(chain, n, e)
        BY <2>1, <2>2, <2>5 DEF Authorised, RequireReset, MayFollow, MaySeat, SEATING
      <3>2. e.kind # chain[i].kind
        BY <2>4, <3>1 DEF DEVICE_KINDS, PASSPHRASE_KIND
      <3>3. e.key # chain[i].key
        BY <3>1, <3>2 DEF Twin
      <3> QED  BY <2>4, <3>1, <3>3 DEF e
    <2>6. CASE e.op # "reset"
      <3>1. SatisfiedKinds(chain, n, e) \intersect DEVICE_KINDS # {}
        BY <2>2, <2>6 DEF Authorised, RequireThreshold
      <3>2. PICK j \in Seated(chain, n) :
                  chain[j].key \in e.signers /\ chain[j].kind \in DEVICE_KINDS
        BY <3>1 DEF SatisfiedKinds
      <3>3. chain[j].kind # chain[i].kind
        BY <2>4, <3>2 DEF DEVICE_KINDS, PASSPHRASE_KIND
      <3>4. chain[j].key # chain[i].key
        BY <2>1, <3>3 DEF DistinctKeys
      <3> QED  BY <2>4, <3>2, <3>4 DEF e
    <2> QED  BY <2>5, <2>6
  <1> QED  BY <1>1, RosterInvariant, TypeCorrect, PTL

(***************************************************************************)
(* Where every chain starts with the passphrase, a set never locks itself  *)
(* out: it holds the passphrase, and a device from the first one on.       *)
(***************************************************************************)
Usable(c, n) == HasPassphrase(c, n) /\ (DeviceEver(c, n) => HasDevice(c, n))
UsableAll(c) == \A n \in 1..Len(c) : Usable(c, n)

\* The passphrase is at the root of every stored chain and of every candidate,
\* and no entry takes it, or the last device, away.
UsableInv == UsableAll(chain) /\ \A p \in Processes : UsableAll(job[p].cand)

LEMMA UsablePrefix ==
    ASSUME NEW c, NEW d, NEW n \in Nat, SameUpTo(c, d, n), Usable(c, n)
    PROVE  Usable(d, n)
  <1>1. MemberKinds(d, n) = MemberKinds(c, n)
    BY SamePrefixSame
  <1>2. DeviceEver(d, n) => DeviceEver(c, n)
    BY DEF DeviceEver, SameUpTo
  <1> QED  BY <1>1, <1>2 DEF Usable, HasPassphrase, HasDevice

LEMMA UsableStep ==
    ASSUME NEW c, NEW n \in Nat \ {0}, Usable(c, n), MayFollow(c, n, c[n + 1])
    PROVE  Usable(c, n + 1)
  <1>1. DeviceEver(c, n + 1) =>
            DeviceEver(c, n) \/ (c[n + 1].op \in SEATING /\ c[n + 1].kind \in DEVICE_KINDS)
    BY DEF DeviceEver
  <1>2. CASE c[n + 1].op \in SEATING
    BY <1>1, <1>2, MemberKindsStep DEF Usable, HasPassphrase, HasDevice
  <1>3. CASE c[n + 1].op = "remove"
    <2>1. MemberKinds(c, n + 1) = MemberKinds(c, n) \ {c[n + 1].kind}
      BY <1>3, MemberKindsStep
    <2>2. /\ c[n + 1].kind # PASSPHRASE_KIND
          /\ DeviceEver(c, n) => (MemberKinds(c, n) \ {c[n + 1].kind}) \intersect DEVICE_KINDS # {}
      BY <1>3 DEF MayFollow, MayRemove, Usable
    <2> QED  BY <1>1, <1>3, <2>1, <2>2 DEF Usable, HasPassphrase, HasDevice, SEATING
  <1>4. CASE c[n + 1].op \notin MOVING
    BY <1>1, <1>4, MemberKindsStep DEF Usable, HasPassphrase, HasDevice, MOVING
  <1> QED  BY <1>2, <1>3, <1>4 DEF MOVING, SEATING

LEMMA UsableTake ==
    ASSUME TypeOK, UsableInv, NEW p \in Processes, NEW e \in Entries, Take(p, e),
           chain = <<>> => e.kind = PASSPHRASE_KIND
    PROVE  UsableInv'
  <1> DEFINE d == Append(chain, e)
             n == Len(chain)
  <1>1. /\ d \in Seq(Entries) /\ Len(d) = n + 1 /\ n \in Nat /\ d[n + 1] = e
        /\ SameUpTo(chain, d, n) /\ (n = 0 => chain = <<>>)
    BY DEF TypeOK, SameUpTo
  <1>2. MayFollow(d, n, d[n + 1])
    <2>1. n + 1 \in 1..Len(d) /\ (n + 1) - 1 = n
      BY <1>1
    <2> QED  BY <2>1 DEF Take, Replays
  <1>3. chain' = chain /\ job'[p].cand = d /\ \A q \in Processes \ {p} : job'[q] = job[q]
    BY DEF Take, TypeOK
  <1>4. \A m \in 1..n : Usable(chain, m)
    BY DEF UsableInv, UsableAll
  <1> HIDE DEF d, n
  <1>5. \A m \in 1..n : Usable(d, m)
    <2> TAKE m \in 1..n
    <2>1. m \in Nat /\ SameUpTo(chain, d, m)
      BY <1>1 DEF SameUpTo
    <2> QED  BY <2>1, <1>4, UsablePrefix
  <1>6. Usable(d, n + 1)
    <2>1. CASE n = 0
      <3>1. d[1].kind = PASSPHRASE_KIND /\ d[1].op \in SEATING /\ n + 1 = 1
        BY <1>1, <1>2, <2>1 DEF MayFollow, SEATING
      <3>2. Seated(d, 1) = {1}
        BY <3>1 DEF Seated
      <3>3. MemberKinds(d, 1) = {PASSPHRASE_KIND}
        BY <3>1, <3>2 DEF MemberKinds
      <3>4. ~DeviceEver(d, 1)
        BY <3>1 DEF DeviceEver, PASSPHRASE_KIND, DEVICE_KINDS
      <3> QED  BY <3>1, <3>3, <3>4 DEF Usable, HasPassphrase
    <2>2. CASE n # 0
      BY <1>1, <1>2, <1>5, <2>2, UsableStep
    <2> QED  BY <2>1, <2>2
  <1>7. UsableAll(d)
    <2>1. \A m \in 1..(n + 1) : m \in 1..n \/ m = n + 1
      BY <1>1
    <2> QED  BY <1>1, <1>5, <1>6, <2>1 DEF UsableAll
  <1> QED  BY <1>3, <1>7 DEF UsableInv

LEMMA UsableInvStep ==
    ASSUME GenesisKinds = {PASSPHRASE_KIND}, TypeOK, UsableInv, [Next]_vars
    PROVE  UsableInv'
  <1>0. UsableAll(NoJob.cand)
    BY DEF UsableAll, NoJob
  <1>1. CASE ServerTakes
    <2>1. PICK e \in Entries : RequireSealed(e.op) /\ Take("server", e)
      BY <1>1, ServerTakesEntry
    <2>2. chain # <<>>
      BY <2>1 DEF RequireSealed, HasPassphrase, MemberKinds, Seated
    <2> QED  BY <2>1, <2>2, UsableTake DEF Processes
  <1>2. CASE HostTakes
    <2>1. PICK s \in Signings, o \in {"add", "remove"}, k \in Kinds, v \in Keys :
                HostAppends(Entry(o, k, v, NoIntent, s, FALSE))
      BY <1>2 DEF HostTakes
    <2> DEFINE e == Entry(o, k, v, NoIntent, s, FALSE)
    <2>2. e \in Entries
      BY EntryType DEF Ops, Signings, Values
    <2>3. Take("host", e) /\ (chain = <<>> => e.kind = PASSPHRASE_KIND)
      BY <2>1 DEF HostAppends
    <2> HIDE DEF e
    <2> QED  BY <2>2, <2>3, UsableTake DEF Processes
  <1>3. ASSUME NEW p \in Processes, Append_(p)
        PROVE  UsableInv'
    <2>1. CASE WriteMarkAhead(p)
      BY <2>1 DEF WriteMarkAhead, UsableInv
    <2>2. CASE WriteChain(p)
      BY <1>0, <2>2 DEF WriteChain, UsableInv, TypeOK
    <2>3. CASE WriteMark(p)
      BY <1>0, <2>3 DEF WriteMark, UsableInv, TypeOK
    <2>4. CASE WriteFails(p)
      BY <1>0, <2>4 DEF WriteFails, UsableInv, TypeOK
    <2> QED  BY <1>3, <2>1, <2>2, <2>3, <2>4 DEF Append_
  <1>4. CASE Crash
    BY <1>0, <1>4 DEF Crash, UsableInv, TypeOK
  <1>5. CASE Start
    BY <1>5 DEF Start, UsableInv
  <1>6. CASE RestoreChain
    <2>1. PICK n \in 0..(Len(chain) - 1) : chain' = SubSeq(chain, 1, n)
      BY <1>6 DEF RestoreChain
    <2>2. Len(chain') = n /\ n <= Len(chain) /\ n \in Nat /\ SameUpTo(chain, chain', n)
      BY <2>1 DEF TypeOK, SameUpTo
    <2>3. UsableAll(chain')
      <3> SUFFICES ASSUME NEW m \in 1..n PROVE Usable(chain', m)
        BY <2>2 DEF UsableAll
      <3>1. m \in Nat /\ m \in 1..Len(chain) /\ SameUpTo(chain, chain', m)
        BY <2>2 DEF SameUpTo, TypeOK
      <3>2. Usable(chain, m)
        BY <3>1 DEF UsableInv, UsableAll
      <3> QED  BY <3>1, <3>2, UsablePrefix
    <2> QED  BY <1>6, <2>3 DEF RestoreChain, UsableInv
  <1>7. CASE LoseMark
    BY <1>7 DEF LoseMark, UsableInv
  <1>8. CASE UNCHANGED vars
    BY <1>8 DEF vars, UsableInv
  <1> QED  BY <1>1, <1>2, <1>3, <1>4, <1>5, <1>6, <1>7, <1>8 DEF Next

\* Where entry 0 is the passphrase's, no sequence of changes, resets, crashes
\* and restores leaves a set that is not whole, or that nothing can change.
THEOREM SetsAlwaysUsable ==
    ASSUME GenesisKinds = {PASSPHRASE_KIND} PROVE Spec => []SetsStayUsable
  <1>1. Init => UsableInv
    BY DEF Init, UsableInv, UsableAll, NoJob
  <1>2. TypeOK /\ UsableInv /\ [Next]_vars => UsableInv'
    BY UsableInvStep
  <1>3. TypeOK /\ UsableInv => Manageable
    <2> SUFFICES ASSUME TypeOK, UsableInv, chain # <<>>
                 PROVE  RequireThreshold(chain, Len(chain),
                            [signers |-> {chain[i].key : i \in Seated(chain, Len(chain))}])
      BY DEF Manageable
    <2> DEFINE n == Len(chain)
               all == [signers |-> {chain[i].key : i \in Seated(chain, n)}]
    <2>1. n \in 1..Len(chain)
      BY DEF TypeOK
    <2>2. Usable(chain, n)
      BY <2>1 DEF UsableInv, UsableAll
    <2>3. SatisfiedKinds(chain, n, all) = MemberKinds(chain, n)
      BY DEF SatisfiedKinds, MemberKinds
    <2> HIDE DEF n, all
    <2>4. RequireThreshold(chain, n, all)
      BY <2>2, <2>3 DEF RequireThreshold, Usable, HasPassphrase, HasDevice
    <2> QED  BY <2>4 DEF n, all
  <1>4. SealedSetComplete /\ Manageable => SetsStayUsable
    BY DEF SetsStayUsable
  <1> QED  BY <1>1, <1>2, <1>3, <1>4, TypeCorrect, SealedSetAlwaysComplete, PTL DEF Spec
==============================================================================
