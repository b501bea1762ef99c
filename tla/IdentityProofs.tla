--------------------------- MODULE IdentityProofs ---------------------------
(***************************************************************************)
(* Identities: the key and the id a bootloader serves with, the profiles   *)
(* an operator keeps, and the vault a user keeps.  A section each, for     *)
(* every value of its constants.                                           *)
(***************************************************************************)
EXTENDS TrustRoot, Profiles, Vault, FiniteSetTheorems, WellFoundedInduction, TLAPS

(***************************************************************************)
(* Which key and id a bootloader serves with, for every set of keys and    *)
(* ids, any number of acts and a chain of any length.                      *)
(*                                                                         *)
(* TrustRootHolds is not inductive.  A seal that is committed after a      *)
(* restart names the key of the start that opened it; that it is this      *)
(* start's key too follows from the ids being equal, because an id is the  *)
(* set of its keys and an operator key is nobody's phone key.              *)
(***************************************************************************)
DraftOK(r) ==
    r.state = "pending" =>
        /\ r.draft.op \in {"seal-id", "rotate-operator"}
        /\ r.seq <= Len(links) + 1
        /\ r.draft.op = "seal-id" =>
              /\ r.draft.key \in OpKeys /\ Derived(r.draft.key, r.draft.members) = r.draft.id
              /\ r.seq = Len(links) + 1 => ~SealedIn(links)
        /\ r.draft.op = "rotate-operator" => SealedIn(links)

\* The seals of a chain recompute, and no rotation is older than the first of them.
ChainOK(c) ==
    /\ \A i \in At(c, "seal-id") : c[i].key \in OpKeys /\ Derived(c[i].key, c[i].members) = c[i].id
    /\ At(c, "rotate-operator") # {} => SealedIn(c)

\* A start that derived an id derived it from its key, and serves it until the chain is sealed.
DerivedOK ==
    proc.derives /\ proc.pc # "down" /\ (proc.pc = "starting" \/ ~SealedIn(links)) =>
        proc.key \in OpKeys /\ \E ms \in MemberSets : proc.id = Derived(proc.key, ms)

RootInv ==
    /\ RootTypeOK
    /\ ChainOK(links)
    /\ \A a \in ActNumbers : DraftOK(rootActs[a])
    /\ DerivedOK
    /\ ServesTheChain

(***************************************************************************)
(* The first and the last of some numbers.                                 *)
(***************************************************************************)
LEMMA LeastExists == ASSUME NEW S \in SUBSET Nat, S # {} PROVE \E x \in S : \A y \in S : x <= y
  <1>1. PICK x \in S : \A y \in S : ~ (<<y, x>> \in OpToRel(<, Nat))
    BY WFMin, NatLessThanWellFounded
  <1>2. \A y \in S : ~(y < x)
    BY <1>1, Zenon DEF OpToRel
  <1> QED  BY <1>2

LEMMA MinIsLeast == ASSUME NEW S \in SUBSET Nat, S # {} PROVE Min(S) \in S /\ \A y \in S : Min(S) <= y
  BY LeastExists, Zenon DEF Min

LEMMA MaxIsGreatest ==
    ASSUME NEW n \in Nat, NEW S \in SUBSET (0..n), S # {} PROVE Max(S) \in S /\ \A y \in S : Max(S) >= y
  <1> DEFINE Above == {m \in Nat : \A y \in S : y <= m}
  <1>1. n \in Above
    OBVIOUS
  <1>2. PICK m \in Above : \A k \in Above : m <= k
    BY <1>1, LeastExists
  <1>3. m \in S
    <2> SUFFICES ASSUME m \notin S PROVE FALSE
      OBVIOUS
    <2>1. m \in Nat /\ \A y \in S : y \in Nat /\ y <= m /\ y # m
      BY <1>2
    <2>2. PICK y \in S : TRUE
      OBVIOUS
    <2>3. m # 0
      BY <2>1, <2>2
    <2>4. m - 1 \in Nat /\ \A z \in S : z <= m - 1
      BY <2>1, <2>3
    <2>5. m - 1 \in Above
      BY <2>4
    <2> QED  BY <1>2, <2>1, <2>5
  <1>4. \E x \in S : \A y \in S : x >= y
    BY <1>2, <1>3
  <1> QED  BY <1>4, Zenon DEF Max

(***************************************************************************)
(* The chain.                                                              *)
(***************************************************************************)
LEMMA AtIsInside ==
    ASSUME NEW c \in Seq(Drafts), NEW op
    PROVE  /\ At(c, op) \in SUBSET (0..Len(c)) /\ At(c, op) \in SUBSET Nat
           /\ At(c, op) # {} => /\ Min(At(c, op)) \in At(c, op) /\ Max(At(c, op)) \in At(c, op)
                                /\ c[Min(At(c, op))] \in Drafts /\ c[Max(At(c, op))] \in Drafts
                                /\ c[Min(At(c, op))].op = op /\ c[Max(At(c, op))].op = op
  <1>1. At(c, op) \subseteq DOMAIN c /\ DOMAIN c = 1..Len(c) /\ Len(c) \in Nat
    BY DEF At
  <1>2. At(c, op) \in SUBSET (0..Len(c)) /\ At(c, op) \in SUBSET Nat
    BY <1>1
  <1>3. ASSUME At(c, op) # {} PROVE Min(At(c, op)) \in At(c, op) /\ Max(At(c, op)) \in At(c, op)
    BY <1>1, <1>2, <1>3, MinIsLeast, MaxIsGreatest
  <1>4. \A i \in At(c, op) : c[i] \in Drafts /\ c[i].op = op
    BY <1>1 DEF At
  <1> QED  BY <1>2, <1>3, <1>4

LEMMA SealOfChain ==
    ASSUME NEW c \in Seq(Drafts), ChainOK(c), SealedIn(c)
    PROVE  SealOf(c) \in Drafts /\ SealOf(c).key \in OpKeys /\ SealTimeInputs(c) /\ SealOf(c).id \in Ids
  <1>1. SealOf(c) \in Drafts /\ Min(At(c, "seal-id")) \in At(c, "seal-id")
    BY AtIsInside DEF SealedIn, SealOf
  <1>2. SealOf(c).key \in OpKeys /\ Derived(SealOf(c).key, SealOf(c).members) = SealOf(c).id
    BY <1>1 DEF ChainOK, SealOf
  <1>3. SealOf(c).members \in MemberSets
    BY <1>1 DEF Drafts
  <1> QED  BY <1>1, <1>2, <1>3 DEF SealTimeInputs, Ids

LEMMA ChainKeyType ==
    ASSUME NEW c \in Seq(Drafts), ChainOK(c)
    PROVE  ChainKey(c) \in OpKeys \union {NoOperator} /\ IdentityMembers(c) \in MemberSets
  <1>1. ChainKey(c) \in OpKeys \union {NoOperator}
    <2>1. CASE At(c, "rotate-operator") # {}
      BY <2>1, AtIsInside DEF ChainKey, Drafts
    <2>2. CASE At(c, "rotate-operator") = {} /\ SealedIn(c)
      BY <2>2, SealOfChain DEF ChainKey
    <2>3. CASE At(c, "rotate-operator") = {} /\ ~SealedIn(c)
      BY <2>3 DEF ChainKey
    <2> QED  BY <2>1, <2>2, <2>3
  <1>2. IdentityMembers(c) \in MemberSets
    <2>1. CASE At(c, "roster") # {}
      BY <2>1, AtIsInside DEF IdentityMembers, Drafts
    <2>2. CASE At(c, "roster") = {}
      BY <2>2 DEF IdentityMembers, MemberSets
    <2> QED  BY <2>1, <2>2
  <1> QED  BY <1>1, <1>2

Grows(c, e, d) == c \in Seq(Drafts) /\ e \in Drafts /\ d = Append(c, e)

LEMMA GrowsByOne ==
    ASSUME NEW c, NEW e, NEW d, Grows(c, e, d)
    PROVE  /\ d \in Seq(Drafts) /\ Len(d) = Len(c) + 1 /\ d[Len(c) + 1] = e /\ Len(c) \in Nat
           /\ DOMAIN d = 1..(Len(c) + 1) /\ DOMAIN c = 1..Len(c)
           /\ \A i \in 1..Len(c) : d[i] = c[i]
  BY DEF Grows

LEMMA AppendAt ==
    ASSUME NEW c, NEW e, NEW d, Grows(c, e, d), NEW op
    PROVE  /\ e.op = op => At(d, op) = At(c, op) \union {Len(c) + 1}
           /\ e.op # op => At(d, op) = At(c, op)
           /\ \A i \in At(c, op) : d[i] = c[i]
  <1>1. \A i : i \in 1..(Len(c) + 1) <=> i \in 1..Len(c) \/ i = Len(c) + 1
    BY GrowsByOne
  <1> QED  BY <1>1, GrowsByOne DEF At

\* An entry that is neither a seal nor a rotation leaves what the chain says of key and id.
LEMMA RosterSays ==
    ASSUME NEW c, NEW e, NEW d, Grows(c, e, d), e.op = "roster", ChainOK(c)
    PROVE  /\ ChainOK(d) /\ (SealedIn(d) <=> SealedIn(c))
           /\ SealedIn(c) => ChainKey(d) = ChainKey(c) /\ SealOf(d) = SealOf(c)
  <1>1. /\ At(d, "seal-id") = At(c, "seal-id") /\ At(d, "rotate-operator") = At(c, "rotate-operator")
        /\ \A i \in At(c, "seal-id") \union At(c, "rotate-operator") : d[i] = c[i]
    <2>0. e.op # "seal-id" /\ e.op # "rotate-operator"
      OBVIOUS
    <2>1. /\ At(d, "seal-id") = At(c, "seal-id")
          /\ \A i \in At(c, "seal-id") : d[i] = c[i]
      BY <2>0, AppendAt
    <2>2. /\ At(d, "rotate-operator") = At(c, "rotate-operator")
          /\ \A i \in At(c, "rotate-operator") : d[i] = c[i]
      BY <2>0, AppendAt
    <2> QED  BY <2>1, <2>2
  <1>2. ChainOK(d) /\ (SealedIn(d) <=> SealedIn(c))
    BY <1>1 DEF ChainOK, SealedIn
  <1>3. SealedIn(c) => SealOf(d) = SealOf(c)
    BY <1>1, AtIsInside DEF Grows, SealOf, SealedIn
  <1>4. SealedIn(c) => ChainKey(d) = ChainKey(c)
    BY <1>1, <1>2, <1>3, AtIsInside DEF Grows, ChainKey
  <1> QED  BY <1>2, <1>3, <1>4

\* A rotation's key is the chain's from then on, and the seal stands.
LEMMA RotationSays ==
    ASSUME NEW c, NEW e, NEW d, Grows(c, e, d), e.op = "rotate-operator", ChainOK(c), SealedIn(c)
    PROVE  /\ ChainOK(d) /\ SealedIn(d)
           /\ ChainKey(d) = e.key /\ SealOf(d) = SealOf(c)
  <1>1. /\ At(d, "seal-id") = At(c, "seal-id") /\ At(d, "rotate-operator") = At(c, "rotate-operator") \union {Len(c) + 1}
        /\ \A i \in At(c, "seal-id") : d[i] = c[i]
        /\ d \in Seq(Drafts) /\ Len(d) = Len(c) + 1 /\ d[Len(c) + 1] = e
    <2>0. e.op # "seal-id"
      OBVIOUS
    <2>1. At(d, "seal-id") = At(c, "seal-id") /\ \A i \in At(c, "seal-id") : d[i] = c[i]
      BY <2>0, AppendAt
    <2>2. At(d, "rotate-operator") = At(c, "rotate-operator") \union {Len(c) + 1}
      BY AppendAt
    <2> QED  BY <2>1, <2>2, GrowsByOne
  <1>2. Len(c) \in Nat /\ At(d, "rotate-operator") \in SUBSET (0..(Len(c) + 1))
    BY <1>1, AtIsInside DEF Grows
  <1>3. ChainOK(d) /\ SealedIn(d)
    BY <1>1 DEF ChainOK, SealedIn
  <1>4. SealOf(d) = SealOf(c)
    BY <1>1, AtIsInside DEF Grows, SealOf, SealedIn
  <1>5. Max(At(d, "rotate-operator")) = Len(c) + 1
    <2>1. Len(c) + 1 \in At(d, "rotate-operator") /\ Len(c) + 1 \in Nat
      BY <1>1, <1>2
    <2>2. /\ Max(At(d, "rotate-operator")) \in At(d, "rotate-operator")
          /\ \A i \in At(d, "rotate-operator") : Max(At(d, "rotate-operator")) >= i
      BY <1>2, <2>1, MaxIsGreatest
    <2>3. Max(At(d, "rotate-operator")) \in 0..(Len(c) + 1) /\ Max(At(d, "rotate-operator")) >= Len(c) + 1
      BY <1>2, <2>1, <2>2
    <2> QED  BY <1>2, <2>3
  <1>6. ChainKey(d) = e.key
    BY <1>1, <1>5 DEF ChainKey
  <1> QED  BY <1>3, <1>4, <1>6

\* The first seal's key and id are the chain's.
LEMMA SealSays ==
    ASSUME NEW c, NEW e, NEW d, Grows(c, e, d), e.op = "seal-id", ChainOK(c), ~SealedIn(c),
           e.key \in OpKeys, Derived(e.key, e.members) = e.id
    PROVE  /\ ChainOK(d) /\ SealedIn(d)
           /\ ChainKey(d) = e.key /\ SealOf(d) = e
  <1>1. At(c, "seal-id") = {} /\ At(c, "rotate-operator") = {}
    BY DEF ChainOK, SealedIn
  <1>2. /\ At(d, "seal-id") = {Len(c) + 1} /\ At(d, "rotate-operator") = {}
        /\ d \in Seq(Drafts) /\ d[Len(c) + 1] = e
    <2>1. At(d, "seal-id") = At(c, "seal-id") \union {Len(c) + 1}
      BY AppendAt
    <2>2. e.op # "rotate-operator"
      OBVIOUS
    <2>3. At(d, "rotate-operator") = At(c, "rotate-operator")
      BY <2>2, AppendAt
    <2> QED  BY <1>1, <2>1, <2>3, GrowsByOne
  <1>3. ChainOK(d) /\ SealedIn(d)
    BY <1>2 DEF ChainOK, SealedIn
  <1>4. SealOf(d) = e
    BY <1>2, <1>3, AtIsInside DEF Grows, SealOf, SealedIn
  <1>5. ChainKey(d) = e.key
    BY <1>2, <1>3, <1>4 DEF ChainKey
  <1> QED  BY <1>3, <1>4, <1>5

\* Two equal ids were derived from one operator key.
LEMMA IdNamesItsKey ==
    ASSUME NEW k \in OpKeys, NEW m \in OpKeys, NEW ks \in MemberSets, NEW ms \in MemberSets,
           Derived(k, ks) = Derived(m, ms)
    PROVE  k = m
  BY RootAssumption DEF Derived, MemberSets

(***************************************************************************)
(* The steps.                                                              *)
(***************************************************************************)
Procs ==
    [pc : {"down", "starting", "rolling", "serving"}, key : OpKeys \union {NoOperator},
     id : Ids \union {Label}, derives : BOOLEAN, configured : Ids \union {Label},
     expected : Ids \union {NoId}, todo : SUBSET ActNumbers]
Records == [state : {"none", "pending", "refused", "appended"}, seq : Nat, draft : Drafts]

LEMMA NoDraftType == NoDraft \in Drafts /\ NoRecord \in Records /\ NoRecord.state = "none"
  BY DEF NoDraft, NoRecord, Link, Drafts, Records, MemberSets

LEMMA EndedType ==
    ASSUME NEW s \in {"refused", "appended"} PROVE Ended(s) \in Records /\ Ended(s).state = s
  <1>1. Ended(s) = [state |-> s, seq |-> 0, draft |-> NoDraft]
    BY DEF Ended, NoRecord
  <1> QED  BY <1>1, NoDraftType DEF Records

LEMMA NoProcType == NoProc \in Procs /\ NoProc.pc = "down"
  BY DEF NoProc, Procs

LEMMA RootInvInit == ASSUME RootInit PROVE RootInv
  <1>1. RootTypeOK
    BY NoDraftType, NoProcType DEF RootInit, RootTypeOK, Procs, Records
  <1>2. \A op : At(links, op) = {}
    BY DEF RootInit, At
  <1> QED  BY <1>1, <1>2, NoDraftType, NoProcType
           DEF RootInit, RootInv, ChainOK, DraftOK, DerivedOK, ServesTheChain, SealedIn

\* The chain is as it was.
LEMMA ChainStands ==
    ASSUME RootInv, links' = links PROVE ChainOK(links)' /\ (\A r : DraftOK(r) => DraftOK(r)')
  BY DEF RootInv, ChainOK, At, SealedIn, DraftOK

LEMMA StepStarts ==
    ASSUME RootInv, NEW k \in OpKeys \union {NoOperator}, NEW i \in Configured, NEW e \in Expected,
           StartsWith(k, i, e)
    PROVE  RootInv'
  <1> DEFINE h == HeldKey(k)
             d == IF h = NoOperator THEN NoId ELSE Derived(h, IdentityMembers(links))
  <1>1. UNCHANGED <<links, vaultRoot, rootActs, resealing>>
    BY DEF StartsWith
  <1>2. proc \in Procs /\ links \in Seq(Drafts) /\ ChainOK(links) /\ h \in OpKeys \union {NoOperator}
    BY DEF RootInv, RootTypeOK, Procs, HeldKey
  <1>3. IdentityMembers(links) \in MemberSets
    BY <1>2, ChainKeyType
  <1>4. d # NoId => h \in OpKeys /\ d = Derived(h, IdentityMembers(links)) /\ d \in Ids
    BY <1>2, <1>3 DEF Ids
  <1>5. i \in Ids \union {Label} /\ e \in Ids \union {NoId}
    BY RootAssumption
  <1>6. PICK id, derives : id = (IF d = NoId THEN i ELSE d) /\ derives = (d # NoId)
    OBVIOUS
  <1>7. proc' = [pc |-> "starting", key |-> h, id |-> id, derives |-> derives, configured |-> i, expected |-> e,
                 todo |-> proc.todo]
    BY <1>2, <1>6 DEF StartsWith, Procs
  <1>8. /\ id \in Ids \union {Label} /\ derives \in BOOLEAN
        /\ derives => h \in OpKeys /\ id = Derived(h, IdentityMembers(links))
    BY <1>4, <1>5, <1>6
  <1> HIDE DEF h, d
  <1>9. proc' \in Procs
    BY <1>2, <1>5, <1>7, <1>8 DEF Procs
  <1>10. DerivedOK'
    BY <1>3, <1>7, <1>8 DEF DerivedOK
  <1>11. ServesTheChain'
    BY <1>7 DEF ServesTheChain
  <1> QED  BY <1>1, <1>9, <1>10, <1>11, ChainStands DEF RootInv, RootTypeOK, Procs

LEMMA StepMeetsSeal == ASSUME RootInv, MeetsSeal PROVE RootInv'
  <1>1. UNCHANGED <<links, vaultRoot, rootActs, resealing>> /\ proc.pc = "starting"
    BY DEF MeetsSeal
  <1>2. proc \in Procs /\ links \in Seq(Drafts) /\ ChainOK(links) /\ DerivedOK
    BY DEF RootInv, RootTypeOK, Procs
  <1>3. CASE SealAgrees(links, proc.key, proc.configured, proc.expected)
    <2>1. PICK id, todo : /\ id = IF SealedIn(links) THEN SealOf(links).id ELSE proc.id
                          /\ todo = {a \in ActNumbers : rootActs[a].state = "pending"}
      OBVIOUS
    <2>2. proc' = [pc |-> "rolling", key |-> proc.key, id |-> id, derives |-> proc.derives,
                   configured |-> Label, expected |-> NoId, todo |-> todo]
      BY <1>2, <1>3, <2>1 DEF MeetsSeal, Procs
    <2>3. id \in Ids \union {Label} /\ todo \in SUBSET ActNumbers
      BY <1>2, <2>1, SealOfChain DEF Procs
    <2>4. proc' \in Procs
      BY <1>2, <2>2, <2>3 DEF Procs
    <2>5. DerivedOK'
      <3>1. SealedIn(links)' <=> SealedIn(links)
        BY <1>1 DEF SealedIn, At
      <3> QED  BY <1>1, <1>2, <2>1, <2>2, <3>1 DEF DerivedOK
    <2>6. ServesTheChain'
      <3>1. (SealedIn(links)' <=> SealedIn(links)) /\ ChainKey(links)' = ChainKey(links) /\ SealOf(links)' = SealOf(links)
        BY <1>1 DEF SealedIn, At, ChainKey, SealOf
      <3>2. SealedIn(links) => proc.key = ChainKey(links)
        BY <1>3 DEF SealAgrees
      <3> QED  BY <2>1, <2>2, <3>1, <3>2 DEF ServesTheChain
    <2> QED  BY <1>1, <1>2, <2>4, <2>5, <2>6, ChainStands DEF RootInv, RootTypeOK, Procs
  <1>4. CASE ~SealAgrees(links, proc.key, proc.configured, proc.expected)
    <2>1. proc' = NoProc
      BY <1>4 DEF MeetsSeal
    <2> QED  BY <1>1, <2>1, NoProcType, ChainStands DEF RootInv, RootTypeOK, Procs, DerivedOK, ServesTheChain
  <1> QED  BY <1>3, <1>4

LEMMA StepStops == ASSUME RootInv, Stops PROVE RootInv'
  <1>1. UNCHANGED <<links, vaultRoot, rootActs, resealing>> /\ proc' = NoProc
    BY DEF Stops
  <1> QED  BY <1>1, NoProcType, ChainStands DEF RootInv, RootTypeOK, Procs, DerivedOK, ServesTheChain

LEMMA StepServes == ASSUME RootInv, Serves PROVE RootInv'
  <1>1. UNCHANGED <<links, vaultRoot, rootActs, resealing>> /\ proc.pc = "rolling" /\ proc \in Procs
    BY DEF Serves, RootInv, RootTypeOK, Procs
  <1>2. proc' = [pc |-> "serving", key |-> proc.key, id |-> proc.id, derives |-> proc.derives,
                 configured |-> proc.configured, expected |-> proc.expected, todo |-> proc.todo]
    BY <1>1 DEF Serves, Procs
  <1>3. proc' \in Procs
    BY <1>1, <1>2 DEF Procs
  <1>4. (SealedIn(links)' <=> SealedIn(links)) /\ ChainKey(links)' = ChainKey(links) /\ SealOf(links)' = SealOf(links)
    BY <1>1 DEF SealedIn, At, ChainKey, SealOf
  <1>5. DerivedOK' /\ ServesTheChain'
    BY <1>1, <1>2, <1>4 DEF RootInv, DerivedOK, ServesTheChain
  <1> QED  BY <1>1, <1>3, <1>5, ChainStands DEF RootInv, RootTypeOK, Procs

\* finish_act over a chain the act is on.
LEMMA FinishActHolds ==
    ASSUME RootInv, NEW a \in ActNumbers, NEW todo \in SUBSET ActNumbers,
           links' \in Seq(Drafts), ChainOK(links)', Len(links') >= Len(links),
           SealedIn(links) => SealedIn(links)',
           \A b \in ActNumbers, r \in Records : r = rootActs[b] => DraftOK(r)',
           proc.pc \in {"rolling", "serving"}, FinishAct(a, links', todo), resealing' = resealing,
           \* the act is on the chain, and this start agreed with it before it came
           rootActs[a].draft.op = "rotate-operator" => SealedIn(links)',
           SealedIn(links)' /\ proc.derives =>
               /\ \/ rootActs[a].draft.op = "rotate-operator" /\ rootActs[a].draft.key = ChainKey(links')
                  \/ proc.key = ChainKey(links')
               /\ proc.id = SealOf(links').id
    PROVE  RootInv'
  <1>1. PICK moves, key : /\ moves = Follows(links', rootActs[a].draft)
                          /\ key = IF moves THEN rootActs[a].draft.key ELSE proc.key
    OBVIOUS
  <1>2. proc \in Procs /\ rootActs \in [ActNumbers -> Records] /\ DerivedOK
    BY DEF RootInv, RootTypeOK, Procs, Records
  <1>3. /\ proc' = [pc |-> proc.pc, key |-> key, id |-> proc.id, derives |-> proc.derives,
                    configured |-> proc.configured, expected |-> proc.expected, todo |-> todo]
        /\ vaultRoot' \in {vaultRoot, key}
        /\ rootActs' \in {rootActs, [rootActs EXCEPT ![a] = Ended("appended")]}
    BY <1>1, <1>2 DEF FinishAct, Procs
  <1>4. key \in OpKeys \union {NoOperator}
    BY <1>1, <1>2 DEF Procs, Records, Drafts
  <1>5. proc' \in Procs /\ vaultRoot' \in OpKeys \union {NoOperator}
    BY <1>2, <1>3, <1>4 DEF Procs, RootInv, RootTypeOK
  <1>6. rootActs' \in [ActNumbers -> Records] /\ \A b \in ActNumbers : DraftOK(rootActs[b])'
    <2>1. \A b \in ActNumbers : rootActs'[b] \in {rootActs[b], Ended("appended")}
      BY <1>2, <1>3
    <2>2. rootActs' \in [ActNumbers -> Records]
      BY <1>2, <1>3, EndedType
    <2>3. \A r \in Records : r = Ended("appended") => DraftOK(r)'
      BY EndedType DEF DraftOK
    <2>4. \A b \in ActNumbers, r \in Records : r = rootActs'[b] => DraftOK(r)'
      BY <1>2, <2>1, <2>3
    <2> QED  BY <2>2, <2>4
  <1>7. DerivedOK'
    <2>1. moves => SealedIn(links)'
      BY <1>1 DEF Follows
    <2> QED  BY <1>1, <1>2, <1>3, <2>1 DEF DerivedOK
  <1>8. ServesTheChain'
    BY <1>1, <1>3 DEF ServesTheChain, Follows
  <1> QED  BY <1>5, <1>6, <1>7, <1>8 DEF RootInv, RootTypeOK, Procs, Records

\* An act that is on the chain already: the chain stands.
LEMMA FinishOnChain ==
    ASSUME RootInv, NEW a \in ActNumbers, NEW todo \in SUBSET ActNumbers, OnChain(a),
           links' = links, proc.pc \in {"rolling", "serving"}, FinishAct(a, links, todo), resealing' = resealing
    PROVE  RootInv'
  <1>1. /\ links \in Seq(Drafts) /\ ChainOK(links) /\ ServesTheChain
        /\ (SealedIn(links)' <=> SealedIn(links))
        /\ \A b \in ActNumbers : DraftOK(rootActs[b])
    BY DEF RootInv, RootTypeOK, SealedIn, At
  <1>2. ChainOK(links)' /\ \A b \in ActNumbers, r \in Records : r = rootActs[b] => DraftOK(r)'
    BY <1>1, ChainStands
  <1>3. rootActs[a].draft.op = "rotate-operator" => SealedIn(links)
    BY <1>1 DEF OnChain, ChainOK, At
  <1>4. Len(links') >= Len(links)
    BY <1>1
  <1>5. SealedIn(links)' /\ proc.derives => proc.key = ChainKey(links') /\ proc.id = SealOf(links').id
    BY <1>1 DEF ServesTheChain
  <1>6. FinishAct(a, links', todo)
    OBVIOUS
  <1> QED  BY <1>1, <1>2, <1>3, <1>4, <1>5, <1>6, FinishActHolds

LEMMA StepRollsForward == ASSUME RootInv, RollsForward PROVE RootInv'
  <1>1. /\ UNCHANGED <<links, resealing>> /\ proc.pc = "rolling" /\ proc.todo # {}
        /\ proc \in Procs
    BY DEF RollsForward, RootInv, RootTypeOK, Procs
  <1>2. PICK a : a = Min(proc.todo)
    OBVIOUS
  <1>3. a \in ActNumbers
    <2>1. proc.todo \in SUBSET ActNumbers /\ ActNumbers \subseteq Nat
      BY <1>1 DEF Procs, ActNumbers
    <2>2. proc.todo \in SUBSET Nat
      BY <2>1
    <2>3. Min(proc.todo) \in proc.todo
      BY <1>1, <2>2, MinIsLeast
    <2> QED  BY <1>2, <2>1, <2>3
  <1>4. PICK todo : todo = proc.todo \ {a} /\ todo \in SUBSET ActNumbers
    <2>1. proc.todo \subseteq ActNumbers
      BY <1>1 DEF Procs
    <2>2. proc.todo \ {a} \in SUBSET ActNumbers
      BY <2>1
    <2> QED  BY <2>2
  <1>5. CASE OnChain(a)
    <2>1. FinishAct(a, links, todo)
      BY <1>2, <1>4, <1>5 DEF RollsForward
    <2> QED  BY <1>1, <1>3, <1>4, <1>5, <2>1, FinishOnChain
  <1>6. CASE ~OnChain(a)
    <2>1. UNCHANGED <<vaultRoot, rootActs>>
          /\ proc' = [pc |-> proc.pc, key |-> proc.key, id |-> proc.id, derives |-> proc.derives,
                      configured |-> proc.configured, expected |-> proc.expected, todo |-> todo]
      BY <1>1, <1>2, <1>4, <1>6 DEF RollsForward, Procs
    <2>2. proc' \in Procs
      BY <1>1, <1>4, <2>1 DEF Procs
    <2>3. (SealedIn(links)' <=> SealedIn(links)) /\ ChainKey(links)' = ChainKey(links) /\ SealOf(links)' = SealOf(links)
      BY <1>1 DEF SealedIn, At, ChainKey, SealOf
    <2>4. DerivedOK' /\ ServesTheChain'
      BY <2>1, <2>3 DEF RootInv, DerivedOK, ServesTheChain
    <2> QED  BY <1>1, <2>1, <2>2, <2>4, ChainStands DEF RootInv, RootTypeOK, Procs
  <1> QED  BY <1>5, <1>6

LEMMA OpensHolds ==
    ASSUME RootInv, NEW a \in ActNumbers, NEW draft \in Drafts, Opens(a, draft),
           draft.op \in {"seal-id", "rotate-operator"},
           draft.op = "seal-id" =>
              draft.key \in OpKeys /\ Derived(draft.key, draft.members) = draft.id /\ ~SealedIn(links),
           draft.op = "rotate-operator" => SealedIn(links)
    PROVE  RootInv'
  <1>1. UNCHANGED <<links, vaultRoot, proc, resealing>>
        /\ rootActs' = [rootActs EXCEPT ![a] = [state |-> "pending", seq |-> Len(links) + 1, draft |-> draft]]
    BY DEF Opens
  <1>2. PICK new : new = [state |-> "pending", seq |-> Len(links) + 1, draft |-> draft]
    OBVIOUS
  <1>3. links \in Seq(Drafts) /\ rootActs \in [ActNumbers -> Records]
    BY DEF RootInv, RootTypeOK, Records
  <1>4. new \in Records /\ DraftOK(new)
    BY <1>2, <1>3 DEF Records, DraftOK
  <1>5. rootActs' \in [ActNumbers -> Records] /\ \A b \in ActNumbers : rootActs'[b] \in {rootActs[b], new}
    BY <1>1, <1>2, <1>3, <1>4
  <1>6. \A b \in ActNumbers : DraftOK(rootActs[b])'
    <2>1. DraftOK(new)' /\ \A b \in ActNumbers : DraftOK(rootActs'[b])
      BY <1>1, <1>4, <1>5 DEF RootInv, DraftOK, SealedIn, At
    <2> QED  BY <1>1, <2>1 DEF DraftOK, SealedIn, At
  <1>7. (SealedIn(links)' <=> SealedIn(links)) /\ ChainKey(links)' = ChainKey(links) /\ SealOf(links)' = SealOf(links)
    BY <1>1 DEF SealedIn, At, ChainKey, SealOf
  <1>8. DerivedOK' /\ ServesTheChain'
    BY <1>1, <1>7 DEF RootInv, DerivedOK, ServesTheChain
  <1> QED  BY <1>1, <1>5, <1>6, <1>8, ChainStands DEF RootInv, RootTypeOK, Procs, Records

LEMMA StepOpens == ASSUME RootInv, NEW a \in ActNumbers, OpensSeal(a) \/ OpensRotation(a) PROVE RootInv'
  <1>1. CASE OpensSeal(a)
    <2>1. PICK k \in OpKeys, ms \in MemberSets :
              MaySeal(k, ms) /\ Opens(a, Link("seal-id", a, k, proc.id, ms))
      BY <1>1 DEF OpensSeal
    <2>2. Derived(k, ms) = proc.id /\ proc.id \in Ids /\ ~SealedIn(links)
      BY <2>1 DEF MaySeal, Ids
    <2>3. PICK draft : draft = [op |-> "seal-id", act |-> a, key |-> k, id |-> proc.id, members |-> ms]
      OBVIOUS
    <2>4. draft \in Drafts /\ Opens(a, draft)
      BY <2>1, <2>2, <2>3 DEF Drafts, Link, ActNumbers
    <2> QED  BY <2>2, <2>3, <2>4, OpensHolds
  <1>2. CASE OpensRotation(a)
    <2>1. PICK k \in OpKeys : Opens(a, Link("rotate-operator", a, k, NoId, {}))
      BY <1>2 DEF OpensRotation
    <2>2. PICK draft : draft = [op |-> "rotate-operator", act |-> a, key |-> k, id |-> NoId, members |-> {}]
      OBVIOUS
    <2>3. draft \in Drafts /\ Opens(a, draft)
      BY <2>1, <2>2 DEF Drafts, Link, ActNumbers, MemberSets
    <2> QED  BY <1>2, <2>2, <2>3, OpensHolds DEF OpensRotation
  <1> QED  BY <1>1, <1>2

\* What a longer chain leaves of the records that are under way.
LEMMA DraftsOutgrown ==
    ASSUME NEW r \in Records, DraftOK(r), links \in Seq(Drafts), Len(links') = Len(links) + 1,
           SealedIn(links) => SealedIn(links)'
    PROVE  DraftOK(r)'
  <1>1. Len(links) \in Nat /\ r.seq \in Nat
    BY DEF Records
  <1> QED  BY <1>1 DEF DraftOK

LEMMA StepActApproved == ASSUME RootInv, NEW a \in ActNumbers, ActApproved(a) PROVE RootInv'
  <1>1. /\ proc.pc = "serving" /\ rootActs[a].state = "pending" /\ resealing' = resealing
        /\ links \in Seq(Drafts) /\ rootActs \in [ActNumbers -> Records] /\ ChainOK(links)
        /\ \A b \in ActNumbers : DraftOK(rootActs[b])
    BY DEF ActApproved, RootInv, RootTypeOK, Records
  <1>2. CASE OnChain(a) /\ FinishAct(a, links, {}) /\ UNCHANGED links
    BY <1>1, <1>2, FinishOnChain
  <1>3. CASE rootActs' = [rootActs EXCEPT ![a] = Ended("refused")] /\ UNCHANGED <<links, vaultRoot, proc>>
    <2>1. rootActs' \in [ActNumbers -> Records] /\ \A b \in ActNumbers : rootActs'[b] \in {rootActs[b], Ended("refused")}
      BY <1>1, <1>3, EndedType
    <2>2. \A b \in ActNumbers : DraftOK(rootActs[b])'
      BY <1>1, <1>3, <2>1, EndedType DEF DraftOK, SealedIn, At
    <2>3. (SealedIn(links)' <=> SealedIn(links)) /\ ChainKey(links)' = ChainKey(links) /\ SealOf(links)' = SealOf(links)
      BY <1>3 DEF SealedIn, At, ChainKey, SealOf
    <2>4. DerivedOK' /\ ServesTheChain'
      BY <1>3, <2>3 DEF RootInv, DerivedOK, ServesTheChain
    <2> QED  BY <1>1, <1>3, <2>1, <2>2, <2>4, ChainStands DEF RootInv, RootTypeOK, Procs, Records
  <1>4. CASE /\ ~OtherId(rootActs[a].draft) /\ rootActs[a].seq = Len(links) + 1
             /\ links' = Append(links, rootActs[a].draft) /\ FinishAct(a, links', {})
    <2>1. PICK e : e = rootActs[a].draft
      OBVIOUS
    <2>2. e \in Drafts /\ Grows(links, e, links') /\ DraftOK(rootActs[a])
      BY <1>1, <1>4, <2>1 DEF Grows, Records
    <2>3. links' \in Seq(Drafts) /\ Len(links') = Len(links) + 1 /\ Len(links) \in Nat
      BY <2>2, GrowsByOne
    <2>4. /\ ChainOK(links') /\ SealedIn(links')
          /\ e.op = "rotate-operator" => e.key = ChainKey(links')
          /\ proc.derives => (e.op = "rotate-operator" \/ proc.key = ChainKey(links')) /\ proc.id = SealOf(links').id
      <3>1. CASE e.op = "rotate-operator"
        <4>1. SealedIn(links)
          BY <1>1, <2>1, <2>2, <3>1 DEF DraftOK
        <4>2. ChainOK(links') /\ SealedIn(links') /\ ChainKey(links') = e.key /\ SealOf(links') = SealOf(links)
          BY <1>1, <2>2, <3>1, <4>1, RotationSays
        <4> QED  BY <1>1, <3>1, <4>1, <4>2 DEF RootInv, ServesTheChain
      <3>2. CASE e.op = "seal-id"
        <4>1. /\ ~SealedIn(links) /\ e.key \in OpKeys /\ Derived(e.key, e.members) = e.id
              /\ e.id = proc.id
          BY <1>1, <1>4, <2>1, <2>2, <3>2 DEF DraftOK, OtherId
        <4>2. ChainOK(links') /\ SealedIn(links') /\ ChainKey(links') = e.key /\ SealOf(links') = e
          BY <1>1, <2>2, <3>2, <4>1, SealSays
        <4>3. proc.derives => proc.key = e.key
          <5>1. proc.derives => proc.key \in OpKeys /\ \E ms \in MemberSets : proc.id = Derived(proc.key, ms)
            BY <1>1, <4>1 DEF RootInv, DerivedOK
          <5>2. e.members \in MemberSets
            BY <2>2 DEF Drafts
          <5> QED  BY <4>1, <5>1, <5>2, IdNamesItsKey
        <4> QED  BY <3>2, <4>1, <4>2, <4>3
      <3> QED  BY <1>1, <2>1, <2>2, <3>1, <3>2 DEF DraftOK
    <2>5. ChainOK(links)' /\ SealedIn(links)'
      BY <2>4 DEF ChainOK, SealedIn, At
    <2>6. \A b \in ActNumbers, r \in Records : r = rootActs[b] => DraftOK(r)'
      BY <1>1, <2>3, <2>5, DraftsOutgrown
    <2> QED  BY <1>1, <1>4, <2>1, <2>3, <2>4, <2>5, <2>6, FinishActHolds
  <1> QED  BY <1>2, <1>3, <1>4 DEF ActApproved

LEMMA StepRosterMoves == ASSUME RootInv, RosterMoves PROVE RootInv'
  <1>1. /\ UNCHANGED <<vaultRoot, proc, rootActs, resealing>>
        /\ links \in Seq(Drafts) /\ rootActs \in [ActNumbers -> Records] /\ ChainOK(links)
        /\ \A b \in ActNumbers : DraftOK(rootActs[b])
    BY DEF RosterMoves, RootInv, RootTypeOK, Records
  <1>2. PICK ms \in MemberSets : links' = Append(links, Link("roster", 0, NoOperator, NoId, ms))
    BY DEF RosterMoves
  <1>3. PICK e : e = [op |-> "roster", act |-> 0, key |-> NoOperator, id |-> NoId, members |-> ms]
    OBVIOUS
  <1>4. Grows(links, e, links') /\ e.op = "roster"
    BY <1>1, <1>2, <1>3 DEF Grows, Drafts, Link
  <1>5. links' \in Seq(Drafts) /\ Len(links') = Len(links) + 1 /\ Len(links) \in Nat
    BY <1>4, GrowsByOne
  <1>6. /\ ChainOK(links') /\ (SealedIn(links') <=> SealedIn(links))
        /\ SealedIn(links) => ChainKey(links') = ChainKey(links) /\ SealOf(links') = SealOf(links)
    BY <1>1, <1>4, RosterSays
  <1>7. ChainOK(links)' /\ (SealedIn(links)' <=> SealedIn(links))
    BY <1>6 DEF ChainOK, SealedIn, At
  <1>8. \A b \in ActNumbers, r \in Records : r = rootActs[b] => DraftOK(r)'
    BY <1>1, <1>5, <1>7, DraftsOutgrown
  <1>9. \A b \in ActNumbers : DraftOK(rootActs[b])'
    BY <1>1, <1>8
  <1>10. DerivedOK' /\ ServesTheChain'
    BY <1>1, <1>6, <1>7 DEF RootInv, DerivedOK, ServesTheChain
  <1> QED  BY <1>1, <1>5, <1>7, <1>9, <1>10 DEF RootInv, RootTypeOK, Procs, Records

\* Nothing but what the host is about to write and vault_root.json.
LEMMA StepHost ==
    ASSUME RootInv, UNCHANGED <<links, proc, rootActs>>, {vaultRoot', resealing'} \subseteq OpKeys \union {NoOperator}
    PROVE  RootInv'
  <1>1. (SealedIn(links)' <=> SealedIn(links)) /\ ChainKey(links)' = ChainKey(links) /\ SealOf(links)' = SealOf(links)
    BY DEF SealedIn, At, ChainKey, SealOf
  <1>2. DerivedOK' /\ ServesTheChain'
    BY <1>1 DEF RootInv, DerivedOK, ServesTheChain
  <1> QED  BY <1>2, ChainStands DEF RootInv, RootTypeOK

LEMMA RootStep == ASSUME RootInv, [RootNext]_rootVars PROVE RootInv'
  <1>1. vaultRoot \in OpKeys \union {NoOperator} /\ resealing \in OpKeys \union {NoOperator}
    BY DEF RootInv, RootTypeOK
  <1>2. ASSUME NEW k \in OpKeys, HostReads(k) PROVE RootInv'
    BY <1>1, <1>2, StepHost DEF HostReads
  <1>3. CASE HostWrites
    BY <1>1, <1>3, StepHost DEF HostWrites
  <1>4. CASE UNCHANGED rootVars
    BY <1>1, <1>4, StepHost DEF rootVars
  <1> QED  BY <1>2, <1>3, <1>4, StepStarts, StepMeetsSeal, StepRollsForward, StepServes, StepStops, StepOpens,
              StepActApproved, StepRosterMoves DEF RootNext

\* The chain's own key starts a sealed bootloader: its seal recomputes.
LEMMA RepairFromChain == ASSUME RootInv PROVE RepairIsEnough
  <1>1. links \in Seq(Drafts) /\ ChainOK(links)
    BY DEF RootInv, RootTypeOK
  <1>2. SealedIn(links) => SealTimeInputs(links)
    BY <1>1, SealOfChain
  <1> QED  BY <1>2 DEF RepairIsEnough, MayReseal, SealAgrees

\* What the record of an act says fits the chain it was made over, and what is served is what the chain holds.
THEOREM RootInvariant == RootSpec => []RootInv
  <1>1. RootInit => RootInv
    BY RootInvInit
  <1>2. RootInv /\ [RootNext]_rootVars => RootInv'
    BY RootStep
  <1> QED  BY <1>1, <1>2, PTL DEF RootSpec

\* A bootloader past its gates serves the id and the key its chain holds, and the chain's own key always lets a start
\* through: rotations that stop half way, old acts finished late, failed writes, host writes and restarts included, for
\* every set of keys, any number of acts and a chain of any length (server.py:8960, GATE 5d).
THEOREM TrustRootAlwaysHolds == RootSpec => []TrustRootHolds
  <1>1. RootInv => TrustRootHolds
    BY RepairFromChain DEF RootInv, TrustRootHolds
  <1> QED  BY <1>1, RootInvariant, PTL

(***************************************************************************)
(* Profiles, for any commands, candidate ids and devices, any number of    *)
(* cards and of approvals at once, answers that are lost and restarts,     *)
(* when the file holds one profile of a kind and name to begin with.       *)
(*                                                                         *)
(* BookKeepsItsWord is not inductive: an approval replaces the book by a   *)
(* change of the one it loaded.  That one is as good as the book, has the  *)
(* same revoked profiles, bears out all that was reported, and is the book *)
(* when no other approval has loaded it (LoadedOK).                        *)
(***************************************************************************)
LEMMA RowOf == ASSUME NEW b, NEW i, HasProfile(b, i) PROVE ProfileOf(b, i) \in b /\ ProfileOf(b, i).id = i
  BY DEF HasProfile, ProfileOf

FullRow(p) ==
    p \in [id : {p.id}, name : {p.name}, index : {p.index}, devices : {p.devices},
           quorum : {p.quorum}, revoked : {p.revoked}]

Single(b) == \A p, q \in b : p.id = q.id \/ p.name = q.name => p = q
SingleBooks == \A b \in FirstBooks : Single(b)
GoodBook(b) == (\A p \in b : FullRow(p)) /\ Single(b)

Reported(f) ==
    \/ f \in [fact : {"made"}, id : {f.id}]
    \/ f \in [fact : {"in", "out"}, id : {f.id}, device : {f.device}]

\* A book that bears a report out.
Bears(b, f) ==
    \E p \in b :
        /\ p.id = f.id
        /\ f.fact = "in" => f.device \in p.devices
        /\ f.fact = "out" => f.device \notin p.devices

SameRevoked(b, c) == \A p : p.revoked => (p \in b <=> p \in c)

LoadedOK(a) ==
    answering[a].pc = "loaded" =>
        /\ GoodBook(answering[a].seen)
        /\ SameRevoked(answering[a].seen, book)
        /\ \A f \in told : Bears(answering[a].seen, f)
        /\ a \notin crossed =>
              /\ answering[a].seen = book
              /\ \A c \in Answerers : answering[c].pc = "loaded" => c = a

ProfilesInv ==
    /\ GoodBook(book)
    /\ \A f \in told : Reported(f) /\ Bears(book, f)
    /\ answering = [a \in Answerers |-> answering[a]]
    /\ \A a \in Answerers : LoadedOK(a)

LEMMA ProfilesInvInit == ASSUME SingleBooks, ProfilesInit PROVE ProfilesInv
  <1>1. \A p \in book : p \in Profile
    BY ProfilesAssumption DEF ProfilesInit, IsBook
  <1>2. \A p \in book : FullRow(p)
    BY <1>1 DEF Profile, FullRow
  <1>3. Single(book)
    BY DEF SingleBooks, ProfilesInit, Single
  <1>4. told = {} /\ answering = [a \in Answerers |-> IdleAnswer] /\ IdleAnswer.pc # "loaded"
    BY DEF ProfilesInit, IdleAnswer
  <1> QED  BY <1>2, <1>3, <1>4 DEF ProfilesInv, GoodBook, LoadedOK

(***************************************************************************)
(* What a change makes of a book: it stays good, no profile loses its last *)
(* device, and the revoked ones stay as they are.                          *)
(***************************************************************************)
LastKept(b, next) == \A p \in b, q \in next : p.id = q.id /\ p.devices # {} => q.revoked \/ q.devices # {}

Sound(b, next) == GoodBook(next) /\ LastKept(b, next) /\ SameRevoked(b, next)

LEMMA SameIsSound == ASSUME NEW b, GoodBook(b) PROVE Sound(b, b)
  BY DEF GoodBook, Single, Sound, LastKept, SameRevoked

\* One row takes the place of another.
LEMMA RowReplaced ==
    ASSUME NEW b, GoodBook(b), NEW p \in b, NEW q, FullRow(q), q.id = p.id, q.name = p.name,
           ~p.revoked, ~q.revoked, p.devices = {} \/ q.devices # {}
    PROVE  Sound(b, (b \ {p}) \union {q})
  <1> DEFINE next == (b \ {p}) \union {q}
  <1>1. \A r \in b : r.id = p.id \/ r.name = p.name => r = p
    BY DEF GoodBook, Single
  <1>2. \A r \in next : r = q \/ (r \in b /\ r # p)
    OBVIOUS
  <1>3. GoodBook(next)
    BY <1>1, <1>2 DEF GoodBook, Single
  <1>4. LastKept(b, next)
    BY <1>1, <1>2 DEF GoodBook, Single, LastKept
  <1>5. SameRevoked(b, next)
    BY DEF SameRevoked
  <1> QED  BY <1>3, <1>4, <1>5 DEF Sound

\* A new row, of which no other has the id or the name.
LEMMA RowAdded ==
    ASSUME NEW b, GoodBook(b), NEW q, FullRow(q), q.devices = {}, ~q.revoked,
           \A p \in b : p.id # q.id /\ p.name # q.name
    PROVE  Sound(b, b \union {q})
  <1>1. GoodBook(b \union {q})
    BY DEF GoodBook, Single
  <1>2. LastKept(b, b \union {q}) /\ SameRevoked(b, b \union {q})
    BY DEF GoodBook, Single, LastKept, SameRevoked
  <1> QED  BY <1>1, <1>2 DEF Sound

LEMMA DevicesOf ==
    ASSUME NEW p, FullRow(p), NEW D, NEW q, q = [p EXCEPT !.devices = D]
    PROVE  FullRow(q) /\ q.id = p.id /\ q.name = p.name /\ q.devices = D /\ q.revoked = p.revoked
  BY DEF FullRow

\* With other devices a profile is built anew, and its quorum with it.
WithDevices(p, D) == [p EXCEPT !.devices = D, !.quorum = 1]

LEMMA DevicesAndQuorumOf ==
    ASSUME NEW p, FullRow(p), NEW D
    PROVE  /\ FullRow(WithDevices(p, D)) /\ WithDevices(p, D).id = p.id /\ WithDevices(p, D).name = p.name
           /\ WithDevices(p, D).devices = D /\ WithDevices(p, D).revoked = p.revoked
  BY DEF FullRow, WithDevices

LEMMA MarkedOf ==
    ASSUME NEW p, FullRow(p), NEW q, q = [p EXCEPT !.revoked = TRUE, !.devices = {}, !.quorum = 1]
    PROVE  FullRow(q) /\ q.id = p.id /\ q.name = p.name /\ q.revoked
  BY DEF FullRow

\* A report of a device.
DeviceFact(said, w) == [fact |-> said, id |-> w.id, device |-> w.device]

LEMMA DeviceFactIs ==
    ASSUME NEW w, NEW said \in {"in", "out"}
    PROVE  /\ Reported(DeviceFact(said, w))
           /\ DeviceFact(said, w).fact = said /\ DeviceFact(said, w).id = w.id /\ DeviceFact(said, w).device = w.device
  BY DEF DeviceFact, Reported

\* A report stays borne out when one row changes in another device than its own, or to what it says.
LEMMA ReportStands ==
    ASSUME NEW b, GoodBook(b), NEW p \in b, NEW q, NEW w, NEW other \in {"in", "out"},
           p.id = w.id, q.id = w.id,
           \A e : e # w.device => (e \in p.devices <=> e \in q.devices),
           other = "out" => w.device \in q.devices,
           other = "in" => w.device \notin q.devices,
           NEW f, Reported(f), Bears(b, f), f # DeviceFact(other, w)
    PROVE  Bears((b \ {p}) \union {q}, f)
  <1> DEFINE next == (b \ {p}) \union {q}
  <1>1. PICK r \in b :
           r.id = f.id /\ (f.fact = "in" => f.device \in r.devices) /\ (f.fact = "out" => f.device \notin r.devices)
    BY DEF Bears
  <1>2. CASE r # p
    <2>1. r \in (b \ {p}) \union {q}
      BY <1>2
    <2> QED  BY <1>1, <2>1 DEF Bears
  <1>3. CASE r = p
    <2>1. q \in next /\ q.id = f.id
      BY <1>1, <1>3
    <2>2. "in" # "out" /\ "made" # "in" /\ "made" # "out"
      OBVIOUS
    <2>3. ASSUME f.fact = "in" PROVE f.device \in q.devices
      <3>1. other = "in" => f = DeviceFact("in", w) \/ f.device # w.device
        BY <1>1, <1>3, <2>2, <2>3 DEF Reported, DeviceFact
      <3> QED  BY <1>1, <1>3, <2>3, <3>1
    <2>4. ASSUME f.fact = "out" PROVE f.device \notin q.devices
      <3>1. other = "out" => f = DeviceFact("out", w) \/ f.device # w.device
        BY <1>1, <1>3, <2>2, <2>4 DEF Reported, DeviceFact
      <3> QED  BY <1>1, <1>3, <2>4, <3>1
    <2> HIDE DEF next
    <2> QED  BY <2>1, <2>3, <2>4 DEF Bears
  <1> QED  BY <1>2, <1>3

LEMMA CreateIsSound ==
    ASSUME NEW b, GoodBook(b), NEW w, NEW index, CreateFits(b, w)
    PROVE  Sound(b, Created(b, w, index)) /\ b \subseteq Created(b, w, index)
  <1> DEFINE row == [id |-> w.id, name |-> w.name, index |-> index, devices |-> {}, quorum |-> 1, revoked |-> FALSE]
  <1>1. CASE Named(b, w)
    BY <1>1, SameIsSound DEF Created
  <1>2. CASE ~Named(b, w)
    <2>1. FullRow(row) /\ row.id = w.id /\ row.name = w.name /\ row.devices = {} /\ ~row.revoked
      BY DEF FullRow
    <2>2. Created(b, w, index) = b \union {row}
      BY <1>2 DEF Created
    <2>3. \A p \in b : p.id # w.id /\ p.name # w.name
      BY <1>2 DEF CreateFits, Named, HasProfile
    <2> HIDE DEF row
    <2> QED  BY <2>1, <2>2, <2>3, RowAdded
  <1> QED  BY <1>1, <1>2

LEMMA AddIsSound ==
    ASSUME NEW b, GoodBook(b), NEW w, AddFits(b, w)
    PROVE  /\ Sound(b, DeviceAdded(b, w))
           /\ Bears(DeviceAdded(b, w), DeviceFact("in", w))
           /\ \A f : Reported(f) /\ Bears(b, f) /\ f # DeviceFact("out", w) => Bears(DeviceAdded(b, w), f)
  <1> DEFINE p == ProfileOf(b, w.id)
             q == WithDevices(p, p.devices \union {w.device})
  <1>1. p \in b /\ p.id = w.id /\ FullRow(p) /\ ~p.revoked
    BY RowOf DEF AddFits, GoodBook
  <1>2. FullRow(q) /\ q.id = p.id /\ q.name = p.name /\ q.revoked = p.revoked /\ q.devices = p.devices \union {w.device}
    BY <1>1, DevicesAndQuorumOf
  <1>3. DeviceAdded(b, w) = IF w.device \in p.devices THEN b ELSE (b \ {p}) \union {q}
    BY DEF DeviceAdded, WithDevices
  <1>4. DeviceFact("in", w).fact = "in" /\ DeviceFact("in", w).id = w.id /\ DeviceFact("in", w).device = w.device
    BY DeviceFactIs
  <1>5. "in" # "out"
    OBVIOUS
  <1> HIDE DEF p, q
  <1>6. CASE w.device \in p.devices
    BY <1>1, <1>3, <1>4, <1>5, <1>6, SameIsSound DEF Bears
  <1>7. CASE w.device \notin p.devices
    <2>1. DeviceAdded(b, w) = (b \ {p}) \union {q}
      BY <1>3, <1>7
    <2>2. Sound(b, DeviceAdded(b, w))
      BY <1>1, <1>2, <2>1, RowReplaced
    <2>3. Bears(DeviceAdded(b, w), DeviceFact("in", w))
      BY <1>1, <1>2, <1>4, <1>5, <2>1 DEF Bears
    <2>4. \A f : Reported(f) /\ Bears(b, f) /\ f # DeviceFact("out", w) => Bears(DeviceAdded(b, w), f)
      <3>1. \A e : e # w.device => (e \in p.devices <=> e \in q.devices)
        BY <1>2
      <3>2. w.device \in q.devices /\ q.id = w.id
        BY <1>1, <1>2
      <3> QED  BY <1>1, <1>5, <2>1, <3>1, <3>2, ReportStands
    <2> QED  BY <2>2, <2>3, <2>4
  <1> QED  BY <1>6, <1>7

LEMMA RemoveIsSound ==
    ASSUME NEW b, GoodBook(b), NEW w, RemoveFits(b, w)
    PROVE  /\ Sound(b, DeviceRemoved(b, w))
           /\ Bears(DeviceRemoved(b, w), DeviceFact("out", w))
           /\ \A f : Reported(f) /\ Bears(b, f) /\ f # DeviceFact("in", w) => Bears(DeviceRemoved(b, w), f)
  <1> DEFINE p == ProfileOf(b, w.id)
             q == [p EXCEPT !.devices = p.devices \ {w.device}]
  <1>1. p \in b /\ p.id = w.id /\ FullRow(p) /\ ~p.revoked
    BY RowOf DEF RemoveFits, GoodBook
  <1>2. FullRow(q) /\ q.id = p.id /\ q.name = p.name /\ q.revoked = p.revoked /\ q.devices = p.devices \ {w.device}
    BY <1>1, DevicesOf
  <1>3. DeviceRemoved(b, w) = (b \ {p}) \union {q}
    BY DEF DeviceRemoved
  <1>4. DeviceFact("out", w).fact = "out" /\ DeviceFact("out", w).id = w.id /\ DeviceFact("out", w).device = w.device
    BY DeviceFactIs
  <1>5. w.device \in p.devices => Cardinality(p.devices) # 1
    BY DEF RemoveFits
  <1>6. "in" # "out"
    OBVIOUS
  <1> HIDE DEF p, q
  <1>7. p.devices = {} \/ q.devices # {}
    <2>1. p.devices # {w.device}
      BY <1>5, FS_Singleton
    <2> QED  BY <1>2, <2>1
  <1>8. Sound(b, DeviceRemoved(b, w))
    BY <1>1, <1>2, <1>3, <1>7, RowReplaced
  <1>9. Bears(DeviceRemoved(b, w), DeviceFact("out", w))
    BY <1>1, <1>2, <1>3, <1>4, <1>6 DEF Bears
  <1>10. \A f : Reported(f) /\ Bears(b, f) /\ f # DeviceFact("in", w) => Bears(DeviceRemoved(b, w), f)
    <2>1. \A e : e # w.device => (e \in p.devices <=> e \in q.devices)
      BY <1>2
    <2>2. w.device \notin q.devices /\ q.id = w.id
      BY <1>1, <1>2
    <2> QED  BY <1>1, <1>3, <1>6, <2>1, <2>2, ReportStands
  <1> QED  BY <1>8, <1>9, <1>10

(***************************************************************************)
(* An approval that is applied.                                            *)
(***************************************************************************)
\* A step takes away no last device and changes no revoked profile.
LastDevices ==
    book' = book \/ KeepsLastDevices(book) \/ \E a \in Answerers : Finishes(a) /\ KeepsLastDevices(answering[a].seen)
KeepsRevoked == \A p \in book : p.revoked => p \in book'
BookStep == LastDevices /\ KeepsRevoked

LEMMA BookStands == ASSUME UNCHANGED book PROVE BookStep
  BY DEF BookStep, LastDevices, KeepsRevoked

\* What is left when an approval ends: the others as they were, and none of them uncrossed if this one had loaded.
LEMMA OneEnds ==
    ASSUME ProfilesInv, NEW a \in Answerers, answering' = [answering EXCEPT ![a] = IdleAnswer],
           NEW c \in Answerers, answering'[c].pc = "loaded"
    PROVE  c # a /\ answering'[c] = answering[c] /\ answering[c].pc = "loaded" /\ LoadedOK(c)
  <1>1. IdleAnswer.pc # "loaded"
    BY DEF IdleAnswer
  <1> QED  BY <1>1 DEF ProfilesInv

LEMMA AnsweringStays ==
    ASSUME ProfilesInv, NEW a \in Answerers, NEW j, answering' = [answering EXCEPT ![a] = j]
    PROVE  /\ answering' = [c \in Answerers |-> answering'[c]]
           /\ \A c \in Answerers : answering'[c] = IF c = a THEN j ELSE answering[c]
  BY DEF ProfilesInv

LEMMA ApprovalEnds ==
    ASSUME ProfilesInv, NEW a \in Answerers, answering[a].pc = "loaded",
           NEW next, Sound(answering[a].seen, next),
           book' = IF next = answering[a].seen THEN book ELSE next,
           answering' = [answering EXCEPT ![a] = IdleAnswer], crossed' = crossed \ {a},
           \A f \in told' : Reported(f) /\ Bears(next, f),
           a \in crossed => told' \subseteq told
    PROVE  ProfilesInv' /\ BookStep
  <1>1. LoadedOK(a)
    BY DEF ProfilesInv
  <1>2. a \notin crossed => book' = next
    BY <1>1 DEF LoadedOK
  <1>3. book' = book \/ book' = next
    OBVIOUS
  <1>4. GoodBook(book')
    BY <1>3 DEF ProfilesInv, Sound
  <1>5. SameRevoked(book, book')
    BY <1>1, <1>3 DEF LoadedOK, Sound, SameRevoked
  <1>6. \A f \in told' : Reported(f) /\ Bears(book', f)
    BY <1>2, <1>3 DEF ProfilesInv
  <1>7. ASSUME NEW c \in Answerers, answering'[c].pc = "loaded"
        PROVE  /\ GoodBook(answering'[c].seen)
               /\ SameRevoked(answering'[c].seen, book')
               /\ \A f \in told' : Bears(answering'[c].seen, f)
               /\ c \in crossed'
    <2>1. c # a /\ answering'[c] = answering[c] /\ answering[c].pc = "loaded" /\ LoadedOK(c)
      BY <1>7, OneEnds
    <2>2. a \in crossed /\ c \in crossed
      BY <1>1, <2>1 DEF LoadedOK
    <2> QED  BY <1>5, <2>1, <2>2 DEF LoadedOK, SameRevoked
  <1>8. \A c \in Answerers : LoadedOK(c)'
    BY <1>7 DEF LoadedOK, GoodBook, Single, FullRow, SameRevoked, Bears
  <1>9. ProfilesInv'
    BY <1>4, <1>6, <1>8, AnsweringStays DEF ProfilesInv, GoodBook, Single, FullRow, Reported, Bears
  <1>10. LastDevices
    <2>1. answering'[a] = IdleAnswer
      BY DEF ProfilesInv
    <2>2. book' = next => KeepsLastDevices(answering[a].seen)
      BY DEF Sound, LastKept, KeepsLastDevices
    <2> QED  BY <1>3, <2>1, <2>2 DEF LastDevices, Finishes
  <1>11. KeepsRevoked
    BY <1>5 DEF KeepsRevoked, SameRevoked
  <1> QED  BY <1>9, <1>10, <1>11 DEF BookStep

\* What the book an approval loaded is, and what it was told about it.
LEMMA Loaded ==
    ASSUME ProfilesInv, NEW a \in Answerers, answering[a].pc = "loaded"
    PROVE  /\ GoodBook(answering[a].seen)
           /\ \A f \in told : Reported(f) /\ Bears(answering[a].seen, f)
           /\ a \notin crossed => answering[a].seen = book
  BY DEF ProfilesInv, LoadedOK

LEMMA CreateKeeps == ASSUME ProfilesInv, NEW a \in Answerers, ApplyCreate(a) PROVE ProfilesInv' /\ BookStep
  <1> DEFINE w == cards[answering[a].card].wish
             seen == answering[a].seen
             next == Created(seen, w, cards[answering[a].card].index)
  <1>1. /\ answering[a].pc = "loaded" /\ w.op = "create" /\ CreateFits(seen, w)
        /\ book' = IF next = seen THEN book ELSE next
        /\ answering' = [answering EXCEPT ![a] = IdleAnswer] /\ crossed' = crossed \ {a}
        /\ told' = IF a \in crossed THEN Unlearned(w) ELSE Learned(w)
    BY DEF ApplyCreate, Applies, SavesBook, Stores
  <1>2. GoodBook(seen) /\ (\A f \in told : Reported(f) /\ Bears(seen, f)) /\ (a \notin crossed => seen = book)
    BY <1>1, Loaded
  <1>3. Sound(seen, next) /\ seen \subseteq next
    BY <1>1, <1>2, CreateIsSound
  <1>4. told' = IF a \in crossed THEN told
                ELSE told \union {[fact |-> "made", id |-> p.id] : p \in {q \in book' : q.name = w.name}}
    BY <1>1 DEF Unlearned, Learned
  <1> HIDE DEF w, seen, next
  <1>5. \A f \in told : Reported(f) /\ Bears(next, f)
    BY <1>2, <1>3 DEF Bears
  <1>6. a \notin crossed => book' = next
    BY <1>1, <1>2
  <1>7. ASSUME NEW p \in next, NEW f, f = [fact |-> "made", id |-> p.id] PROVE Reported(f) /\ Bears(next, f)
    <2>1. f.fact = "made" /\ f.id = p.id
      BY <1>7
    <2>2. "made" # "in" /\ "made" # "out"
      OBVIOUS
    <2> QED  BY <1>7, <2>1, <2>2 DEF Reported, Bears
  <1>8. \A f \in told' : Reported(f) /\ Bears(next, f)
    BY <1>4, <1>5, <1>6, <1>7
  <1>9. a \in crossed => told' \subseteq told
    BY <1>4
  <1> QED  BY <1>1, <1>3, <1>8, <1>9, ApprovalEnds DEF seen

\* The reports after an approval of a device: the new one if it met no other, and the old ones that it leaves.
LEMMA DeviceReports ==
    ASSUME NEW a, NEW w, NEW next, NEW said \in {"in", "out"}, NEW other \in {"in", "out"}, said # other,
           told' = IF a \in crossed THEN Unlearned(w) ELSE Learned(w),
           w.op # "create",
           Learned(w) = (told \ {DeviceFact(other, w)}) \union {DeviceFact(said, w)},
           Bears(next, DeviceFact(said, w)),
           \A f \in told : Reported(f),
           \A f \in told : f # DeviceFact(other, w) => Bears(next, f)
    PROVE  (\A f \in told' : Reported(f) /\ Bears(next, f)) /\ (a \in crossed => told' \subseteq told)
  <1>1. Reported(DeviceFact(said, w))
    BY DeviceFactIs
  <1>2. Unlearned(w) = told \ {DeviceFact("in", w), DeviceFact("out", w)}
    BY DEF Unlearned, DeviceFact
  <1> HIDE DEF Unlearned, Learned
  <1> QED  BY <1>1, <1>2

LEMMA AddKeeps == ASSUME ProfilesInv, NEW a \in Answerers, ApplyAdd(a) PROVE ProfilesInv' /\ BookStep
  <1> DEFINE w == cards[answering[a].card].wish
             seen == answering[a].seen
             next == DeviceAdded(seen, w)
  <1>1. /\ answering[a].pc = "loaded" /\ w.op = "add" /\ AddFits(seen, w)
        /\ book' = IF next = seen THEN book ELSE next
        /\ answering' = [answering EXCEPT ![a] = IdleAnswer] /\ crossed' = crossed \ {a}
        /\ told' = IF a \in crossed THEN Unlearned(w) ELSE Learned(w)
    BY DEF ApplyAdd, Applies, SavesBook, Stores
  <1>2. GoodBook(seen) /\ \A f \in told : Reported(f) /\ Bears(seen, f)
    BY <1>1, Loaded
  <1>3. /\ Sound(seen, next) /\ Bears(next, DeviceFact("in", w))
        /\ \A f : Reported(f) /\ Bears(seen, f) /\ f # DeviceFact("out", w) => Bears(next, f)
    BY <1>1, <1>2, AddIsSound
  <1>4. Learned(w) = (told \ {DeviceFact("out", w)}) \union {DeviceFact("in", w)} /\ w.op # "create" /\ "in" # "out"
    BY <1>1 DEF Learned, DeviceFact
  <1> HIDE DEF w, seen, next
  <1>5. (\A f \in told' : Reported(f) /\ Bears(next, f)) /\ (a \in crossed => told' \subseteq told)
    BY <1>1, <1>2, <1>3, <1>4, DeviceReports
  <1> QED  BY <1>1, <1>3, <1>5, ApprovalEnds DEF seen

LEMMA RemoveKeeps == ASSUME ProfilesInv, NEW a \in Answerers, ApplyRemove(a) PROVE ProfilesInv' /\ BookStep
  <1> DEFINE w == cards[answering[a].card].wish
             seen == answering[a].seen
             next == DeviceRemoved(seen, w)
  <1>1. /\ answering[a].pc = "loaded" /\ w.op = "remove" /\ RemoveFits(seen, w)
        /\ book' = IF next = seen THEN book ELSE next
        /\ answering' = [answering EXCEPT ![a] = IdleAnswer] /\ crossed' = crossed \ {a}
        /\ told' = IF a \in crossed THEN Unlearned(w) ELSE Learned(w)
    BY DEF ApplyRemove, Applies, SavesBook, Stores
  <1>2. GoodBook(seen) /\ \A f \in told : Reported(f) /\ Bears(seen, f)
    BY <1>1, Loaded
  <1>3. /\ Sound(seen, next) /\ Bears(next, DeviceFact("out", w))
        /\ \A f : Reported(f) /\ Bears(seen, f) /\ f # DeviceFact("in", w) => Bears(next, f)
    BY <1>1, <1>2, RemoveIsSound
  <1>4. Learned(w) = (told \ {DeviceFact("in", w)}) \union {DeviceFact("out", w)} /\ w.op # "create" /\ "in" # "out"
    BY <1>1 DEF Learned, DeviceFact
  <1> HIDE DEF w, seen, next
  <1>5. (\A f \in told' : Reported(f) /\ Bears(next, f)) /\ (a \in crossed => told' \subseteq told)
    BY <1>1, <1>2, <1>3, <1>4, DeviceReports
  <1> QED  BY <1>1, <1>3, <1>5, ApprovalEnds DEF seen

(***************************************************************************)
(* The other steps.                                                        *)
(***************************************************************************)
\* Commands, cards and results leave the book, the reports and the approvals alone.
LEMMA RestKeeps == ASSUME ProfilesInv, UNCHANGED <<book, answering, told, crossed>> PROVE ProfilesInv' /\ BookStep
  <1>1. ProfilesInv'
    BY DEF ProfilesInv, GoodBook, Single, Bears, LoadedOK, SameRevoked, FullRow, Reported
  <1> QED  BY <1>1, BookStands

\* An approval that takes its card, or ends without a change.
LEMMA GoesUnloaded ==
    ASSUME ProfilesInv, NEW a \in Answerers, NEW j, j.pc # "loaded",
           answering' = [answering EXCEPT ![a] = j], crossed \ {a} \subseteq crossed', UNCHANGED <<book, told>>
    PROVE  ProfilesInv' /\ BookStep
  <1>1. \A c \in Answerers : answering'[c] = IF c = a THEN j ELSE answering[c]
    BY AnsweringStays
  <1>2. \A c \in Answerers : LoadedOK(c)'
    BY <1>1 DEF ProfilesInv, LoadedOK, GoodBook, Single, FullRow, SameRevoked, Bears
  <1>3. GoodBook(book)' /\ \A f \in told' : Reported(f)' /\ Bears(book, f)'
    BY DEF ProfilesInv, GoodBook, Single, FullRow, Reported, Bears
  <1> QED  BY <1>2, <1>3, AnsweringStays, BookStands DEF ProfilesInv

\* What is loaded is the book as it is; the approvals that have loaded it by now have met.
LEMMA LoadsKeeps == ASSUME ProfilesInv, NEW a \in Answerers, AnswerLoads(a) PROVE ProfilesInv' /\ BookStep
  <1>1. PICK j : j = [pc |-> "loaded", card |-> answering[a].card, seen |-> book]
    OBVIOUS
  <1>2. answering' = [answering EXCEPT ![a] = j] /\ UNCHANGED <<book, told>> /\ j.pc = "loaded" /\ j.seen = book
    BY <1>1 DEF AnswerLoads
  <1>3. \A c \in Answerers : answering'[c] = IF c = a THEN j ELSE answering[c]
    BY <1>2, AnsweringStays
  <1>4. /\ crossed \subseteq crossed'
        /\ \A c \in Answerers : answering[c].pc = "loaded" => {a, c} \subseteq crossed'
    BY DEF AnswerLoads
  <1>5. GoodBook(book) /\ SameRevoked(book, book) /\ \A f \in told : Reported(f) /\ Bears(book, f)
    BY DEF ProfilesInv, SameRevoked
  <1>6. ASSUME NEW c \in Answerers, answering'[c].pc = "loaded"
        PROVE  /\ GoodBook(answering'[c].seen)
               /\ SameRevoked(answering'[c].seen, book)
               /\ \A f \in told : Bears(answering'[c].seen, f)
               /\ c \notin crossed' =>
                     /\ answering'[c].seen = book
                     /\ \A d \in Answerers : answering'[d].pc = "loaded" => d = c
    <2>1. CASE c = a
      BY <1>2, <1>3, <1>4, <1>5, <2>1
    <2>2. CASE c # a
      <3>1. answering'[c] = answering[c] /\ answering[c].pc = "loaded" /\ LoadedOK(c)
        BY <1>3, <1>6, <2>2 DEF ProfilesInv
      <3> QED  BY <1>4, <3>1 DEF LoadedOK
    <2> QED  BY <2>1, <2>2
  <1>7. \A c \in Answerers : LoadedOK(c)'
    BY <1>2, <1>6 DEF LoadedOK, GoodBook, Single, FullRow, SameRevoked, Bears
  <1>8. GoodBook(book)' /\ \A f \in told' : Reported(f)' /\ Bears(book, f)'
    BY <1>2, <1>5 DEF GoodBook, Single, FullRow, Reported, Bears
  <1> QED  BY <1>2, <1>7, <1>8, AnsweringStays, BookStands DEF ProfilesInv

LEMMA MarkKeeps == ASSUME ProfilesInv, NEW p \in book, MarkRevoked(p) PROVE ProfilesInv' /\ BookStep
  <1> DEFINE q == [p EXCEPT !.revoked = TRUE, !.devices = {}, !.quorum = 1]
  <1>1. FullRow(p)
    BY DEF ProfilesInv, GoodBook
  <1>2. /\ book' = (book \ {p}) \union {q} /\ ~p.revoked
        /\ \A a \in Answerers : answering[a] = IdleAnswer
        /\ told' = {f \in told : f.id # p.id \/ f.fact = "made"} /\ UNCHANGED answering
    BY DEF MarkRevoked
  <1>3. FullRow(q) /\ q.id = p.id /\ q.name = p.name /\ q.revoked
    BY <1>1, MarkedOf
  <1> HIDE DEF q
  <1>4. \A r \in book : r.id = p.id \/ r.name = p.name => r = p
    BY DEF ProfilesInv, GoodBook, Single
  <1>5. \A r \in book' : r = q \/ (r \in book /\ r # p)
    BY <1>2
  <1>6. GoodBook(book')
    BY <1>3, <1>4, <1>5 DEF ProfilesInv, GoodBook, Single
  <1>7. KeepsLastDevices(book) /\ KeepsRevoked
    BY <1>2, <1>3, <1>4, <1>5 DEF ProfilesInv, GoodBook, Single, KeepsLastDevices, KeepsRevoked
  <1>8. ASSUME NEW f \in told' PROVE Reported(f) /\ Bears(book', f)
    <2>1. f \in told /\ (f.id # p.id \/ f.fact = "made") /\ Reported(f)
      BY <1>2 DEF ProfilesInv
    <2>2. PICK r \in book :
             r.id = f.id /\ (f.fact = "in" => f.device \in r.devices) /\ (f.fact = "out" => f.device \notin r.devices)
      BY <2>1 DEF ProfilesInv, Bears
    <2>3. CASE f.id # p.id
      <3>1. r \in book'
        BY <1>2, <2>2, <2>3
      <3> QED  BY <2>1, <2>2, <3>1 DEF Bears
    <2>4. CASE f.id = p.id /\ f.fact = "made"
      <3>1. q \in book' /\ "made" # "in" /\ "made" # "out"
        BY <1>2
      <3> QED  BY <1>3, <2>1, <2>4, <3>1 DEF Bears
    <2> QED  BY <2>1, <2>3, <2>4
  <1>9. \A a \in Answerers : LoadedOK(a)'
    BY <1>2 DEF LoadedOK, IdleAnswer
  <1>10. ProfilesInv'
    BY <1>2, <1>6, <1>8, <1>9 DEF ProfilesInv, GoodBook, Single, FullRow, Reported, Bears
  <1> QED  BY <1>7, <1>10 DEF BookStep, LastDevices

LEMMA RestartKeeps == ASSUME ProfilesInv, BootloaderRestarts PROVE ProfilesInv' /\ BookStep
  <1>1. answering' = [a \in Answerers |-> IdleAnswer] /\ UNCHANGED <<book, told>>
    BY DEF BootloaderRestarts
  <1>2. \A a \in Answerers : answering'[a] = IdleAnswer
    BY <1>1
  <1>3. \A a \in Answerers : LoadedOK(a)'
    BY <1>2 DEF LoadedOK, IdleAnswer
  <1>4. answering' = [a \in Answerers |-> answering'[a]]
    BY <1>1
  <1>5. GoodBook(book)' /\ \A f \in told' : Reported(f)' /\ Bears(book, f)'
    BY <1>1 DEF ProfilesInv, GoodBook, Single, FullRow, Reported, Bears
  <1> QED  BY <1>1, <1>3, <1>4, <1>5, BookStands DEF ProfilesInv

LEMMA ProfilesStep ==
    ASSUME ProfilesInv, [ProfilesNext]_profileVars
    PROVE  ProfilesInv' /\ BookStep
  <1>1. CASE \/ \E w \in Wishes :
                   \/ AskCreate(w) \/ AskAdd(w) \/ AskRemove(w)
                   \/ CreateEnds(w) \/ AddEnds(w) \/ RemoveEnds(w)
                   \/ CommandMissesResult(w) \/ CommandLooks(w) \/ CommandGivesUp(w)
             \/ \E n \in DOMAIN cards : CardOrResultLapses(n)
             \/ UNCHANGED profileVars
    BY <1>1, RestKeeps DEF AskCreate, AskAdd, AskRemove, CreateEnds, AddEnds, RemoveEnds, CommandEnds,
                           CommandMissesResult, CommandLooks, CommandGivesUp, CardOrResultLapses, profileVars,
                           profileHistory
  <1>2. ASSUME NEW a \in Answerers, NEW n \in DOMAIN cards, NEW says, AnswerTakesCard(a, n, says)
        PROVE  ProfilesInv' /\ BookStep
    <2>1. PICK j : j = [pc |-> "taken", card |-> n, says |-> says]
      OBVIOUS
    <2>2. answering' = [answering EXCEPT ![a] = j] /\ UNCHANGED <<book, told, crossed>> /\ j.pc # "loaded"
      BY <1>2, <2>1 DEF AnswerTakesCard, profileHistory
    <2> QED  BY <2>2, GoesUnloaded
  <1>3. ASSUME NEW a \in Answerers,
               \/ AnswerDenied(a) \/ MisattestsCreate(a) \/ MisattestsAdd(a) \/ MisattestsRemove(a) \/ CannotApply(a)
        PROVE  ProfilesInv' /\ BookStep
    <2>1. /\ answering' = [answering EXCEPT ![a] = IdleAnswer] /\ crossed' = crossed \ {a}
          /\ UNCHANGED <<book, told>> /\ IdleAnswer.pc # "loaded"
      BY <1>3 DEF AnswerDenied, MisattestsCreate, MisattestsAdd, MisattestsRemove, Misattests, CannotApply,
                  Stores, AfterFailedWrite, IdleAnswer
    <2> QED  BY <2>1, GoesUnloaded
  <1>4. CASE (\E p \in book : MarkRevoked(p)) \/ BootloaderRestarts
    BY <1>4, MarkKeeps, RestartKeeps
  <1> QED  BY <1>1, <1>2, <1>3, <1>4, LoadsKeeps, CreateKeeps, AddKeeps, RemoveKeeps DEF ProfilesNext

\* The book and what each approval has loaded are good books, with the same revoked profiles, that bear out every report.
THEOREM ProfilesInvariant == ASSUME SingleBooks PROVE ProfilesSpec => []ProfilesInv
  <1>1. ProfilesInit => ProfilesInv
    BY ProfilesInvInit
  <1>2. ProfilesInv /\ [ProfilesNext]_profileVars => ProfilesInv'
    BY ProfilesStep
  <1> QED  BY <1>1, <1>2, PTL DEF ProfilesSpec

\* The book has one profile of an id and of a kind and name, never loses a revocation, and takes no profile's last device
\* from the book an approval loaded, and it says what the approvals reported that met no other between load and save:
\* for any number of approvals at once, through retries, lost answers, failed writes and restarts, when the file holds
\* one profile of a kind and name to begin with (manage.py: create_child_profile, profile_add_device,
\* profile_revoke_device).
THEOREM BookAlwaysKeepsItsWord == ASSUME SingleBooks PROVE ProfilesSpec => BookKeepsItsWord
  <1>1. ProfilesInv => OneProfile /\ ToldIsStored
    BY DEF ProfilesInv, GoodBook, Single, OneProfile, ToldIsStored, Stored, Bears
  <1>2. ProfilesInv /\ [ProfilesNext]_profileVars =>
            /\ [book' = book \/ KeepsLastDevices(book)
                   \/ \E a \in Answerers : Finishes(a) /\ KeepsLastDevices(answering[a].seen)]_profileVars
            /\ [\A p \in book : p.revoked => p \in book']_profileVars
    BY ProfilesStep DEF BookStep, LastDevices, KeepsRevoked
  <1> QED  BY <1>1, <1>2, ProfilesInvariant, PTL
           DEF ProfilesSpec, BookKeepsItsWord, LastDeviceStays, RevokedProfileStays

(***************************************************************************)
(* Vaults, for any keys and grants, any number of changes at once, failed  *)
(* writes and restarts.                                                    *)
(*                                                                         *)
(* VaultKeepsItsWord is not inductive.  A grant that came in one copy is   *)
(* with one change at most, which spends it before it acts (GrantOK).  A   *)
(* change between load and save has read rows that bear out every answer   *)
(* that stands (ChangeOK), because no set or delete is answered as done    *)
(* past another one's back; alone it has read the rows as they are.        *)
(***************************************************************************)
\* A signed change does what was signed.
SignedFor(h) ==
    handlers[h].pc \in {"admitted", "loaded", "written"} /\ handlers[h].auth # NoGrant =>
        handlers[h].order = SignedOrder[handlers[h].auth.grant]

MayAct(h, g) == handlers[h].pc \in {"admitted", "loaded"} /\ handlers[h].auth = By(g)
Carries(h, g) == Checked(h, g) \/ MayAct(h, g)

\* A grant is unspent while it is checked, in the list's file from then on, and done with once it has acted.
GrantOK(g) ==
    g \notin copied =>
        /\ Len(acted[g]) <= 1
        /\ acted[g] # <<>> => g \in spentFile /\ \A h \in VaultHandlers : ~Carries(h, g)
        /\ \A h \in VaultHandlers : Checked(h, g) => g \notin spent
        /\ \A h \in VaultHandlers : MayAct(h, g) => g \in spentFile
        /\ \A h, i \in VaultHandlers : Carries(h, g) /\ Carries(i, g) => h = i
ActedOK(g) == \A i \in DOMAIN acted[g] : acted[g][i] = SignedOrder[g]

GrantsInv ==
    /\ \A h \in VaultHandlers : SignedFor(h)
    /\ \A g \in VaultGrants : GrantOK(g) /\ ActedOK(g)

\* What was answered about a key is what its row says.
Tells(k, row) ==
    /\ answered[k].said = "set" => row = Row(TRUE)
    /\ answered[k] = SaidDeleted => row = NoRow
AnswerOK(k) ==
    /\ Tells(k, rows[k])
    /\ answered[k].said = "set" => secrets[k] = answered[k].value
    /\ answered[k] = SaidDeleted => secrets[k] = NoValue

ChangeOK(h) ==
    /\ InHand(h) => \A k \in VaultKeys : Tells(k, handlers[h].seen[k])
    /\ handlers[h].pc = "written" =>
          /\ handlers[h].order.op \in {"set", "delete"}
          /\ answered[handlers[h].order.key] \in {Unknown, SaidNothing}

Alone(h) ==
    InHand(h) /\ h \notin mixed =>
        /\ \A i \in VaultHandlers : InHand(i) => i = h
        /\ handlers[h].seen = rows
        /\ handlers[h].pc = "written" => secrets[handlers[h].order.key] = handlers[h].order.value

RowsInv ==
    /\ \A k \in VaultKeys : AnswerOK(k)
    /\ \A h \in VaultHandlers : ChangeOK(h) /\ Alone(h)

VaultInv == VaultTypeOK /\ GrantsInv /\ RowsInv

Answers == {Unknown, SaidDeleted, SaidNothing} \union {SaidSet(v) : v \in VaultValues}

\* The words are different, and so are the rows.
LEMMA WordsDiffer ==
    /\ Unknown.said # "set" /\ Unknown # SaidDeleted
    /\ SaidNothing.said # "set" /\ SaidNothing # SaidDeleted /\ SaidDeleted.said # "set"
    /\ \A v : SaidSet(v).said = "set" /\ SaidSet(v).value = v /\ SaidSet(v) # SaidDeleted
    /\ Row(TRUE).row /\ Row(TRUE).has /\ ~NoRow.row /\ ~NoRow.has
  BY DEF Unknown, SaidNothing, SaidDeleted, SaidSet, Row, NoRow

LEMMA AuthorityDiffers == \A g : By(g) # NoGrant /\ By(g).grant = g
  BY DEF By, NoGrant

\* What a change under way holds.
LEMMA ChangeFields ==
    ASSUME NEW j \in ChangesOf
    PROVE  /\ j.pc = "checked" => j.grant \in VaultGrants /\ j.order \in Order
           /\ j.pc \in {"admitted", "loaded", "written"} => j.order \in Order /\ j.auth \in Authority
           /\ j.pc \in {"loaded", "written"} => j.seen \in Rows
  BY DEF ChangesOf, VaultIdle

LEMMA OnceWritten ==
    ASSUME NEW j \in ChangesOf, j.pc = "loaded", NEW to, to = [j EXCEPT !.pc = "written"]
    PROVE  to \in ChangesOf /\ to.pc = "written" /\ to.order = j.order /\ to.auth = j.auth /\ to.seen = j.seen
  <1> DEFINE Under == [pc : {"loaded", "written"}, order : Order, auth : Authority, seen : Rows]
  <1>1. j \in Under
    BY DEF ChangesOf, VaultIdle
  <1>2. to \in Under /\ to.pc = "written" /\ to.order = j.order /\ to.auth = j.auth /\ to.seen = j.seen
    BY <1>1
  <1> QED  BY <1>2 DEF ChangesOf

LEMMA OrderFields ==
    ASSUME NEW order \in Order
    PROVE  /\ order.key \in VaultKeys /\ order.value \in VaultValues \union {NoValue}
           /\ order.op \in {"set", "edit", "delete"}
           /\ order.op = "set" => order.value \in VaultValues
           /\ order.op # "set" => order.value = NoValue
  BY DEF Order

LEMMA AuthorityFields == ASSUME NEW a \in Authority, a # NoGrant PROVE a.grant \in VaultGrants /\ a = By(a.grant)
  BY DEF Authority, By, NoGrant

LEMMA IdleHolds ==
    /\ VaultIdle \in ChangesOf
    /\ VaultIdle.pc \notin {"checked", "admitted", "loaded", "written"}
  BY DEF ChangesOf, VaultIdle

LEMMA OneGoes ==
    ASSUME VaultTypeOK, NEW h \in VaultHandlers, NEW to \in ChangesOf, Goes(h, to)
    PROVE  /\ handlers' \in [VaultHandlers -> ChangesOf] /\ handlers'[h] = to
           /\ \A i \in VaultHandlers : i # h => handlers'[i] = handlers[i]
  <1>1. handlers \in [VaultHandlers -> ChangesOf] /\ handlers' = [handlers EXCEPT ![h] = to]
    BY DEF VaultTypeOK, Goes
  <1> QED  BY <1>1

\* The invariant, by part, for the steps that cite it.
LEMMA VaultParts ==
    VaultInv => /\ VaultTypeOK
                /\ handlers \in [VaultHandlers -> ChangesOf]
                /\ spentFile \subseteq spent /\ spent \subseteq VaultGrants
                /\ rows \in Rows
                /\ answered \in [VaultKeys -> Answers]
                /\ secrets \in [VaultKeys -> VaultValues \union {NoValue}]
                /\ acted \in [VaultGrants -> Seq(Order)]
  BY DEF VaultInv, VaultTypeOK, Answers

LEMMA VaultInvInit == ASSUME VaultInit PROVE VaultInv
  <1>1. VaultTypeOK
    BY IdleHolds DEF VaultInit, VaultTypeOK, Rows
  <1>2. \A h \in VaultHandlers : handlers[h] = VaultIdle
    BY DEF VaultInit
  <1>3. GrantsInv
    <2>1. \A g \in VaultGrants : acted[g] = <<>>
      BY DEF VaultInit
    <2>2. \A h \in VaultHandlers, g \in VaultGrants : ~Checked(h, g) /\ ~MayAct(h, g) /\ ~Carries(h, g)
      BY <1>2, IdleHolds DEF Checked, MayAct, Carries
    <2>3. \A h \in VaultHandlers : SignedFor(h)
      BY <1>2, IdleHolds DEF SignedFor
    <2> QED  BY <2>1, <2>2, <2>3 DEF GrantsInv, GrantOK, ActedOK
  <1>4. RowsInv
    <2>1. \A k \in VaultKeys : answered[k] = Unknown
      BY DEF VaultInit
    <2>2. \A h \in VaultHandlers : ~InHand(h) /\ handlers[h].pc # "written"
      BY <1>2, IdleHolds DEF InHand
    <2> QED  BY <2>1, <2>2, WordsDiffer DEF RowsInv, AnswerOK, Tells, ChangeOK, Alone
  <1> QED  BY <1>1, <1>3, <1>4 DEF VaultInv

(***************************************************************************)
(* The grants.                                                             *)
(***************************************************************************)
\* A change goes on without acting: it carries no grant it did not carry, and has spent the one it may act with.
LEMMA GrantsStand ==
    ASSUME VaultTypeOK, GrantsInv, NEW h \in VaultHandlers, NEW to \in ChangesOf, Goes(h, to),
           UNCHANGED <<acted, copied>>, spentFile \subseteq spentFile',
           \A g \in VaultGrants : g \in spent' => g \in spent \/ Checked(h, g),
           to.pc # "checked",
           to.pc \in {"admitted", "loaded", "written"} /\ to.auth # NoGrant => to.order = SignedOrder[to.auth.grant],
           \A g \in VaultGrants : to.pc \in {"admitted", "loaded"} /\ to.auth = By(g) =>
               Carries(h, g) /\ (g \notin copied => g \in spentFile')
    PROVE  GrantsInv'
  <1>1. /\ handlers'[h] = to
        /\ \A i \in VaultHandlers : i # h => handlers'[i] = handlers[i]
    BY OneGoes
  <1>2. \A i \in VaultHandlers : SignedFor(i)'
    BY <1>1 DEF GrantsInv, SignedFor
  <1>3. ASSUME NEW g \in VaultGrants PROVE GrantOK(g)'
    <2>1. ~Checked(h, g)' /\ (MayAct(h, g)' => Carries(h, g) /\ (g \notin copied => g \in spentFile'))
      BY <1>1 DEF Checked, MayAct
    <2>2. \A i \in VaultHandlers : i # h => (Checked(i, g)' <=> Checked(i, g)) /\ (MayAct(i, g)' <=> MayAct(i, g))
      BY <1>1 DEF Checked, MayAct
    <2>3. \A i \in VaultHandlers : Carries(i, g)' => Carries(i, g)
      BY <2>1, <2>2 DEF Carries
    <2>4. SUFFICES ASSUME g \notin copied PROVE GrantOK(g)'
      BY DEF GrantOK
    <2>5. GrantOK(g)
      BY DEF GrantsInv
    <2>6. \A i \in VaultHandlers : Checked(i, g)' => g \notin spent'
      <3>1. ASSUME NEW i \in VaultHandlers, Checked(i, g)', g \in spent' PROVE FALSE
        <4>1. i # h /\ Checked(i, g)
          BY <2>1, <2>2, <3>1
        <4>2. g \notin spent
          BY <2>4, <2>5, <4>1 DEF GrantOK
        <4>3. Checked(h, g)
          BY <3>1, <4>2
        <4> QED  BY <2>4, <2>5, <4>1, <4>3 DEF GrantOK, Carries
      <3> QED  BY <3>1
    <2>7. \A i \in VaultHandlers : MayAct(i, g)' => g \in spentFile'
      BY <2>1, <2>2, <2>4, <2>5 DEF GrantOK
    <2> QED  BY <2>3, <2>4, <2>5, <2>6, <2>7 DEF GrantOK
  <1>4. \A g \in VaultGrants : ActedOK(g)'
    BY DEF GrantsInv, ActedOK
  <1> QED  BY <1>2, <1>3, <1>4 DEF GrantsInv

\* A second copy is noted; a first one is of a grant that is with no change.
LEMMA GrantArrives ==
    ASSUME VaultTypeOK, GrantsInv, NEW h \in VaultHandlers, NEW new \in VaultGrants, NEW order \in Order,
           ActArrives(h, new, order)
    PROVE  GrantsInv'
  <1> DEFINE to == [pc |-> "checked", grant |-> new, order |-> order]
  <1>1. to \in ChangesOf /\ Goes(h, to) /\ to.pc = "checked" /\ to.grant = new
    BY DEF ActArrives, ChangesOf
  <1> HIDE DEF to
  <1>2. /\ handlers'[h] = to
        /\ \A i \in VaultHandlers : i # h => handlers'[i] = handlers[i]
    BY <1>1, OneGoes
  <1>3. /\ new \notin spent /\ UNCHANGED <<spent, spentFile, acted>> /\ copied \subseteq copied'
        /\ \A i \in VaultHandlers : Checked(i, new) => new \in copied'
        /\ handlers[h] = VaultIdle
    BY DEF ActArrives, Free
  <1>4. \A i \in VaultHandlers : SignedFor(i)'
    BY <1>1, <1>2 DEF GrantsInv, SignedFor
  <1>5. ASSUME NEW g \in VaultGrants PROVE GrantOK(g)'
    <2>1. (Checked(h, g)' <=> g = new) /\ ~MayAct(h, g)'
      BY <1>1, <1>2 DEF Checked, MayAct
    <2>2. \A i \in VaultHandlers : i # h => (Checked(i, g)' <=> Checked(i, g)) /\ (MayAct(i, g)' <=> MayAct(i, g))
      BY <1>2 DEF Checked, MayAct
    <2>3. SUFFICES ASSUME g \notin copied' PROVE GrantOK(g)'
      BY DEF GrantOK
    <2>4. GrantOK(g) /\ g \notin copied
      BY <1>3, <2>3 DEF GrantsInv
    <2>5. CASE g # new
      <3>1. \A i \in VaultHandlers : Carries(i, g)' => Carries(i, g)
        BY <2>1, <2>2, <2>5 DEF Carries
      <3> QED  BY <1>3, <2>1, <2>2, <2>3, <2>4, <2>5, <3>1 DEF GrantOK
    <2>6. CASE g = new
      <3>1. \A i \in VaultHandlers : ~Checked(i, g)
        BY <1>3, <2>3, <2>6
      <3>2. spentFile \subseteq spent
        BY DEF VaultTypeOK
      <3>3. acted[g] = <<>> /\ \A i \in VaultHandlers : ~MayAct(i, g)
        BY <1>3, <2>4, <2>6, <3>2 DEF GrantOK
      <3>4. \A i \in VaultHandlers : ~MayAct(i, g)' /\ (Checked(i, g)' <=> i = h)
        BY <2>1, <2>2, <2>6, <3>1, <3>3
      <3> QED  BY <1>3, <2>4, <2>6, <3>3, <3>4 DEF GrantOK, Carries
    <2> QED  BY <2>5, <2>6
  <1>6. \A g \in VaultGrants : ActedOK(g)'
    BY <1>3 DEF GrantsInv, ActedOK
  <1> QED  BY <1>4, <1>5, <1>6 DEF GrantsInv

LEMMA OneMore ==
    ASSUME NEW s \in Seq(Order), NEW o \in Order
    PROVE  /\ Append(s, o) \in Seq(Order)
           /\ s = <<>> => Len(Append(s, o)) = 1
           /\ \A n \in DOMAIN Append(s, o) : Append(s, o)[n] = o \/ (n \in DOMAIN s /\ Append(s, o)[n] = s[n])
  <1>1. Append(s, o) \in Seq(Order) /\ Len(Append(s, o)) = Len(s) + 1
    OBVIOUS
  <1>2. s = <<>> => Len(s) = 0
    OBVIOUS
  <1>3. DOMAIN Append(s, o) = 1 .. Len(s) + 1 /\ DOMAIN s = 1 .. Len(s) /\ Len(s) \in Nat
    OBVIOUS
  <1>4. \A n \in 1 .. Len(s) + 1 : Append(s, o)[n] = IF n = Len(s) + 1 THEN o ELSE s[n]
    OBVIOUS
  <1> QED  BY <1>1, <1>2, <1>3, <1>4

\* The grant acts as it was signed; if it came in one copy, for the first time, and no other change has it.
LEMMA GrantActs ==
    ASSUME VaultTypeOK, GrantsInv, NEW h \in VaultHandlers, handlers[h].pc = "loaded",
           NEW value, Backend(h, value)
    PROVE  GrantsInv' /\ acted' \in [VaultGrants -> Seq(Order)]
  <1> DEFINE to == [handlers[h] EXCEPT !.pc = "written"]
             order == handlers[h].order
             auth == handlers[h].auth
  <1>1. /\ to \in ChangesOf /\ to.pc = "written" /\ to.auth = auth /\ to.order = order
        /\ order \in Order /\ auth \in Authority
    <2>1. handlers[h] \in ChangesOf
      BY DEF VaultTypeOK
    <2> QED  BY <2>1, OnceWritten, ChangeFields
  <1>2. /\ UNCHANGED <<spent, spentFile, copied>> /\ Goes(h, to)
        /\ acted' = IF auth = NoGrant THEN acted ELSE [acted EXCEPT ![auth.grant] = Append(@, order)]
    BY DEF Backend
  <1>3. acted \in [VaultGrants -> Seq(Order)]
    BY DEF VaultTypeOK
  <1>4. acted' \in [VaultGrants -> Seq(Order)]
    <2>1. auth # NoGrant => auth.grant \in VaultGrants
      BY <1>1, AuthorityFields
    <2>2. \A g \in VaultGrants : Append(acted[g], order) \in Seq(Order)
      BY <1>1, <1>3, OneMore
    <2> HIDE DEF to, order, auth
    <2> QED  BY <1>2, <1>3, <2>1, <2>2
  <1>5. ASSUME NEW g \in VaultGrants
        PROVE  acted'[g] = IF auth = By(g) THEN Append(acted[g], order) ELSE acted[g]
    <2>1. auth = By(g) => auth # NoGrant /\ auth.grant = g
      BY AuthorityDiffers
    <2>2. auth # NoGrant => auth = By(auth.grant) /\ auth.grant \in VaultGrants
      BY <1>1, AuthorityFields
    <2> HIDE DEF to, order, auth
    <2> QED  BY <1>2, <1>3, <2>1, <2>2
  <1>6. order = SignedOrder[auth.grant] \/ auth = NoGrant
    BY DEF GrantsInv, SignedFor
  <1>7. /\ handlers'[h] = to
        /\ \A i \in VaultHandlers : i # h => handlers'[i] = handlers[i]
    <2> HIDE DEF to
    <2> QED  BY <1>1, <1>2, OneGoes
  <1>8. \A g \in VaultGrants : ~Carries(h, g)' /\ (MayAct(h, g) <=> auth = By(g))
    BY <1>1, <1>7 DEF Carries, Checked, MayAct
  <1>9. \A i \in VaultHandlers : SignedFor(i)'
    BY <1>1, <1>6, <1>7 DEF GrantsInv, SignedFor
  <1> HIDE DEF to, order, auth
  <1>10. \A g \in VaultGrants : ActedOK(g)'
    <2>1. SUFFICES ASSUME NEW g \in VaultGrants, NEW n \in DOMAIN acted'[g] PROVE acted'[g][n] = SignedOrder[g]
      BY DEF ActedOK
    <2>2. auth = By(g) => order = SignedOrder[g]
      BY <1>6, AuthorityDiffers
    <2>3. acted[g] \in Seq(Order) /\ \A m \in DOMAIN acted[g] : acted[g][m] = SignedOrder[g]
      BY <1>3 DEF GrantsInv, ActedOK
    <2>4. CASE auth # By(g)
      BY <1>5, <2>1, <2>3, <2>4
    <2>5. CASE auth = By(g)
      <3>1. acted'[g] = Append(acted[g], order)
        BY <1>5, <2>5
      <3>2. \A m \in DOMAIN Append(acted[g], order) :
               Append(acted[g], order)[m] = order \/ (m \in DOMAIN acted[g] /\ Append(acted[g], order)[m] = acted[g][m])
        BY <1>1, <2>3, OneMore
      <3> QED  BY <2>1, <2>2, <2>3, <2>5, <3>1, <3>2
    <2> QED  BY <2>4, <2>5
  <1>11. ASSUME NEW g \in VaultGrants PROVE GrantOK(g)'
    <2>1. \A i \in VaultHandlers : i # h => (Checked(i, g)' <=> Checked(i, g)) /\ (MayAct(i, g)' <=> MayAct(i, g))
      BY <1>7 DEF Checked, MayAct
    <2>2. \A i \in VaultHandlers : Carries(i, g)' => Carries(i, g) /\ i # h
      BY <1>8, <2>1 DEF Carries
    <2>3. \A i \in VaultHandlers : (Checked(i, g)' => Checked(i, g)) /\ (MayAct(i, g)' => MayAct(i, g))
      BY <1>8, <2>1 DEF Carries
    <2>4. SUFFICES ASSUME g \notin copied PROVE GrantOK(g)'
      BY <1>2 DEF GrantOK
    <2>5. GrantOK(g)
      BY DEF GrantsInv
    <2>6. CASE auth # By(g)
      <3>1. acted'[g] = acted[g]
        BY <1>5, <2>6
      <3> QED  BY <1>2, <2>2, <2>3, <2>4, <2>5, <3>1 DEF GrantOK
    <2>7. CASE auth = By(g)
      <3>1. Carries(h, g) /\ MayAct(h, g)
        BY <1>8, <2>7 DEF Carries
      <3>2. acted[g] = <<>> /\ g \in spentFile /\ \A i \in VaultHandlers : Carries(i, g) => i = h
        BY <2>4, <2>5, <3>1 DEF GrantOK
      <3>3. \A i \in VaultHandlers : ~Carries(i, g)'
        BY <2>2, <3>2
      <3>4. Len(acted'[g]) = 1
        <4>1. acted'[g] = Append(acted[g], order) /\ acted[g] \in Seq(Order)
          BY <1>3, <1>5, <2>7
        <4>2. Len(Append(acted[g], order)) = 1
          BY <1>1, <3>2, <4>1, OneMore
        <4> QED  BY <4>1, <4>2
      <3> QED  BY <1>2, <3>2, <3>3, <3>4 DEF GrantOK, Carries
    <2> QED  BY <2>6, <2>7
  <1> QED  BY <1>4, <1>9, <1>10, <1>11 DEF GrantsInv

(***************************************************************************)
(* The rows and the answers.                                               *)
(***************************************************************************)
\* A change that is not between load and save touches none of it.
LEMMA RowsStand ==
    ASSUME VaultTypeOK, RowsInv, NEW h \in VaultHandlers, NEW to \in ChangesOf, Goes(h, to),
           ~InHand(h), to.pc \notin {"loaded", "written"}, UNCHANGED <<rows, secrets, answered, mixed>>
    PROVE  RowsInv'
  <1>1. /\ handlers'[h] = to
        /\ \A i \in VaultHandlers : i # h => handlers'[i] = handlers[i]
    BY OneGoes
  <1>2. \A i \in VaultHandlers : (InHand(i)' <=> InHand(i)) /\ (InHand(i) => handlers'[i] = handlers[i])
    BY <1>1 DEF InHand
  <1>3. \A i \in VaultHandlers : handlers'[i].pc = "written" => InHand(i) /\ handlers'[i] = handlers[i]
    BY <1>1, <1>2 DEF InHand
  <1>4. \A k \in VaultKeys : AnswerOK(k)'
    BY DEF RowsInv, AnswerOK, Tells
  <1>5. ASSUME NEW i \in VaultHandlers PROVE ChangeOK(i)' /\ Alone(i)'
    <2>1. ChangeOK(i) /\ Alone(i)
      BY DEF RowsInv
    <2>2. ChangeOK(i)'
      BY <1>2, <1>3, <2>1 DEF ChangeOK, Tells
    <2>3. Alone(i)'
      BY <1>2, <1>3, <2>1 DEF Alone
    <2> QED  BY <2>2, <2>3
  <1> QED  BY <1>4, <1>5 DEF RowsInv

\* A change is over. What it answered is borne out; another one that goes on has met it, and heard of no set or delete.
LEMMA LeavesHand ==
    ASSUME VaultTypeOK, RowsInv, NEW h \in VaultHandlers, InHand(h), ChangeEnds(h), UNCHANGED secrets,
           \A k \in VaultKeys : AnswerOK(k)',
           h \in mixed => \A k \in VaultKeys : answered'[k] \in {answered[k], Unknown, SaidNothing}
    PROVE  RowsInv'
  <1>1. Goes(h, VaultIdle) /\ mixed' = mixed \ {h}
    BY DEF ChangeEnds, Ends
  <1>2. /\ handlers'[h] = VaultIdle
        /\ \A i \in VaultHandlers : i # h => handlers'[i] = handlers[i]
    BY <1>1, IdleHolds, OneGoes
  <1>3. /\ \A i \in VaultHandlers : InHand(i)' => InHand(i) /\ i # h /\ i \in mixed /\ i \in mixed' /\ h \in mixed
        /\ \A i \in VaultHandlers : handlers'[i].pc = "written" => InHand(i)'
    <2>1. \A i \in VaultHandlers : InHand(i)' => InHand(i) /\ i # h
      BY <1>2, IdleHolds DEF InHand
    <2>2. \A i \in VaultHandlers : InHand(i) /\ i # h => i \in mixed /\ h \in mixed
      BY DEF RowsInv, Alone
    <2>3. \A i \in VaultHandlers : handlers'[i].pc = "written" => InHand(i)'
      BY DEF InHand
    <2> QED  BY <1>1, <2>1, <2>2, <2>3
  <1>4. ASSUME NEW i \in VaultHandlers PROVE ChangeOK(i)'
    <2>1. SUFFICES ASSUME InHand(i)' PROVE ChangeOK(i)'
      BY <1>3 DEF ChangeOK
    <2>2. /\ handlers'[i] = handlers[i] /\ InHand(i) /\ ChangeOK(i)
          /\ \A k \in VaultKeys : answered'[k] \in {answered[k], Unknown, SaidNothing}
      BY <1>2, <1>3, <2>1 DEF RowsInv
    <2>3. \A k \in VaultKeys : Tells(k, handlers[i].seen[k])'
      BY <2>2, WordsDiffer DEF ChangeOK, Tells
    <2>4. handlers[i].pc = "written" => handlers[i].order.key \in VaultKeys
      BY ChangeFields, OrderFields DEF VaultTypeOK
    <2> QED  BY <2>2, <2>3, <2>4 DEF ChangeOK
  <1>5. \A i \in VaultHandlers : Alone(i)'
    BY <1>3 DEF Alone
  <1> QED  BY <1>4, <1>5 DEF RowsInv

\* A change reads the rows, which bear out what was answered; if another has read them too, both are mixed.
LEMMA RowsLoaded == ASSUME VaultTypeOK, RowsInv, NEW h \in VaultHandlers, Loads(h) PROVE RowsInv'
  <1> DEFINE to == [pc |-> "loaded", order |-> handlers[h].order, auth |-> handlers[h].auth, seen |-> rows]
  <1>1. to \in ChangesOf /\ Goes(h, to) /\ handlers[h].pc = "admitted" /\ to.pc = "loaded" /\ to.seen = rows
    <2>1. handlers[h].pc = "admitted" /\ handlers[h] \in ChangesOf /\ rows \in Rows
      BY DEF VaultTypeOK, Loads
    <2>2. handlers[h].order \in Order /\ handlers[h].auth \in Authority
      BY <2>1, ChangeFields
    <2> QED  BY <2>1, <2>2 DEF Loads, ChangesOf
  <1> HIDE DEF to
  <1>2. /\ handlers'[h] = to
        /\ \A i \in VaultHandlers : i # h => handlers'[i] = handlers[i]
    BY <1>1, OneGoes
  <1>3. UNCHANGED <<rows, secrets, answered>>
    BY DEF Loads
  <1>4. /\ InHand(h)' /\ ~InHand(h) /\ \A i \in VaultHandlers : i # h => (InHand(i)' <=> InHand(i))
        /\ \A i \in VaultHandlers : InHand(i) => i # h
    BY <1>1, <1>2 DEF InHand
  <1>5. \A i \in VaultHandlers : InHand(i) => i \in mixed' /\ h \in mixed'
    BY DEF Loads
  <1>6. \A k \in VaultKeys : AnswerOK(k)'
    BY <1>3 DEF RowsInv, AnswerOK, Tells
  <1>7. ASSUME NEW i \in VaultHandlers PROVE ChangeOK(i)'
    <2>1. CASE i = h
      <3>1. handlers'[i].pc # "written" /\ handlers'[i].seen = rows
        BY <1>1, <1>2, <2>1
      <3>2. \A k \in VaultKeys : Tells(k, rows[k])'
        BY <1>3 DEF RowsInv, AnswerOK, Tells
      <3> QED  BY <1>3, <3>1, <3>2 DEF ChangeOK, Tells
    <2>2. CASE i # h
      <3>1. ChangeOK(i)
        BY DEF RowsInv
      <3>2. handlers'[i] = handlers[i] /\ answered' = answered /\ (InHand(i)' => InHand(i))
        BY <1>2, <1>3, <1>4, <2>2
      <3> QED  BY <3>1, <3>2 DEF ChangeOK, Tells
    <2> QED  BY <2>1, <2>2
  <1>8. ASSUME NEW i \in VaultHandlers PROVE Alone(i)'
    <2>1. SUFFICES ASSUME InHand(i)', i \notin mixed' PROVE Alone(i)'
      BY DEF Alone
    <2>2. i = h /\ \A o \in VaultHandlers : ~InHand(o)
      BY <1>4, <1>5, <2>1
    <2> QED  BY <1>1, <1>2, <1>3, <1>4, <2>2 DEF Alone
  <1> QED  BY <1>6, <1>7, <1>8 DEF RowsInv

\* A value is written or removed: nothing that was answered about its key stands any more.
LEMMA RowsWritten ==
    ASSUME VaultTypeOK, RowsInv, NEW h \in VaultHandlers, handlers[h].pc = "loaded",
           handlers[h].order.op \in {"set", "delete"}, Backend(h, handlers[h].order.value)
    PROVE  RowsInv'
  <1> DEFINE to == [handlers[h] EXCEPT !.pc = "written"]
             key == handlers[h].order.key
             value == handlers[h].order.value
  <1>1. /\ to \in ChangesOf /\ to.pc = "written" /\ to.order = handlers[h].order /\ to.seen = handlers[h].seen
        /\ key \in VaultKeys /\ Goes(h, to)
    <2>1. handlers[h] \in ChangesOf
      BY DEF VaultTypeOK
    <2>2. Goes(h, to)
      BY DEF Backend
    <2> QED  BY <2>1, <2>2, OnceWritten, ChangeFields, OrderFields
  <1>2. /\ handlers'[h] = to
        /\ \A i \in VaultHandlers : i # h => handlers'[i] = handlers[i]
    <2> HIDE DEF to
    <2> QED  BY <1>1, OneGoes
  <1>3. /\ UNCHANGED <<rows, mixed>>
        /\ secrets' = [secrets EXCEPT ![key] = value] /\ answered' = [answered EXCEPT ![key] = Unknown]
    BY DEF Backend, Writes
  <1>4. /\ \A k \in VaultKeys : secrets'[k] = IF k = key THEN value ELSE secrets[k]
        /\ \A k \in VaultKeys : answered'[k] = IF k = key THEN Unknown ELSE answered[k]
    <2>1. /\ secrets \in [VaultKeys -> VaultValues \union {NoValue}]
          /\ answered \in [VaultKeys -> Answers]
      BY DEF VaultTypeOK, Answers
    <2> HIDE DEF key, value
    <2> QED  BY <1>3, <2>1
  <1>5. /\ \A i \in VaultHandlers : InHand(i)' <=> InHand(i)
        /\ InHand(h) /\ \A i \in VaultHandlers : i # h /\ InHand(i) => i \in mixed
        /\ \A i \in VaultHandlers : handlers'[i].order = handlers[i].order /\ handlers'[i].seen = handlers[i].seen
    <2>1. ASSUME NEW i \in VaultHandlers PROVE InHand(i)' <=> InHand(i)
      <3> HIDE DEF to
      <3>1. CASE i = h
        BY <1>1, <1>2, <3>1 DEF InHand
      <3>2. CASE i # h
        BY <1>2, <3>2 DEF InHand
      <3> QED  BY <3>1, <3>2
    <2>2. InHand(h)
      BY DEF InHand
    <2>3. \A i \in VaultHandlers : i # h /\ InHand(i) => i \in mixed
      BY <2>2 DEF RowsInv, Alone
    <2> QED  BY <1>1, <1>2, <2>1, <2>2, <2>3
  <1> HIDE DEF to, key, value
  <1>6. ASSUME NEW k \in VaultKeys PROVE AnswerOK(k)'
    <2>1. AnswerOK(k) /\ rows' = rows
      BY <1>3 DEF RowsInv
    <2>2. CASE k = key
      <3>1. answered'[k] = Unknown
        BY <1>4, <2>2
      <3> QED  BY <3>1, WordsDiffer DEF AnswerOK, Tells
    <2>3. CASE k # key
      <3>1. answered'[k] = answered[k] /\ secrets'[k] = secrets[k]
        BY <1>4, <2>3
      <3> QED  BY <2>1, <3>1 DEF AnswerOK, Tells
    <2> QED  BY <2>2, <2>3
  <1>7. ASSUME NEW i \in VaultHandlers PROVE ChangeOK(i)'
    <2>1. ChangeOK(i) /\ ChangeOK(h)
      BY DEF RowsInv
    <2>2. InHand(i)' => \A k \in VaultKeys : Tells(k, handlers[i].seen[k])'
      <3>1. SUFFICES ASSUME InHand(i)', NEW k \in VaultKeys PROVE Tells(k, handlers[i].seen[k])'
        OBVIOUS
      <3>2. Tells(k, handlers[i].seen[k])
        BY <1>5, <2>1, <3>1 DEF ChangeOK
      <3>3. handlers'[i].seen = handlers[i].seen
        BY <1>5
      <3>4. CASE k = key
        BY <1>4, <3>4, WordsDiffer DEF Tells
      <3>5. CASE k # key
        BY <1>4, <3>2, <3>3, <3>5 DEF Tells
      <3> QED  BY <3>4, <3>5
    <2>3. i # h => handlers'[i] = handlers[i]
      BY <1>2
    <2>4. handlers'[i].pc = "written" => handlers[i].order.op \in {"set", "delete"}
      BY <2>1, <2>3 DEF ChangeOK
    <2>5. handlers'[i].pc = "written" => handlers[i].order.key \in VaultKeys
      <3>1. handlers'[i] \in ChangesOf
        BY <1>1, <1>2 DEF VaultTypeOK
      <3> QED  BY <1>5, <3>1, ChangeFields, OrderFields
    <2>6. handlers'[i].pc = "written" => answered'[handlers[i].order.key] \in {Unknown, SaidNothing}
      BY <1>4, <2>1, <2>3, <2>5 DEF ChangeOK, key
    <2> QED  BY <1>3, <1>5, <2>2, <2>4, <2>6 DEF ChangeOK, Tells
  <1>8. ASSUME NEW i \in VaultHandlers PROVE Alone(i)'
    <2>1. SUFFICES ASSUME InHand(i)', i \notin mixed' PROVE Alone(i)'
      BY DEF Alone
    <2>2. i = h /\ InHand(i) /\ i \notin mixed
      BY <1>3, <1>5, <2>1
    <2>3. secrets'[handlers'[i].order.key] = handlers'[i].order.value
      BY <1>1, <1>4, <1>5, <2>2 DEF key, value
    <2> QED  BY <1>3, <1>5, <2>2, <2>3 DEF RowsInv, Alone
  <1> QED  BY <1>6, <1>7, <1>8 DEF RowsInv

\* The last answer about a key says set or deleted only when no other change has met this one.
LEMMA RowsSaved == ASSUME VaultTypeOK, RowsInv, NEW h \in VaultHandlers, SavesRows(h)
                   PROVE  RowsInv' /\ rows' \in Rows /\ answered' \in [VaultKeys -> Answers]
  <1> DEFINE key == handlers[h].order.key
             op == handlers[h].order.op
             seen == handlers[h].seen
             row == NewRow(h)
  <1>1. /\ InHand(h) /\ (handlers[h].pc = "written" \/ op = "edit")
        /\ handlers[h].order \in Order /\ key \in VaultKeys /\ seen \in Rows
        /\ op \in {"set", "edit", "delete"}
    <2>1. InHand(h) /\ (handlers[h].pc = "written" \/ op = "edit") /\ handlers[h] \in ChangesOf
      BY DEF SavesRows, InHand, VaultTypeOK
    <2> QED  BY <2>1, ChangeFields, OrderFields DEF InHand
  <1>2. /\ rows' = [seen EXCEPT ![key] = row]
        /\ answered' = [answered EXCEPT ![key] = Said(h)]
        /\ ChangeEnds(h) /\ UNCHANGED secrets
    BY DEF SavesRows, WithRow
  <1>3. row \in {NoRow, Row(FALSE), Row(TRUE)}
    <2>1. seen[key] \in {NoRow, Row(FALSE), Row(TRUE)}
      BY <1>1 DEF Rows
    <2> QED  BY <2>1 DEF NewRow, HasNow, NoRow, Row
  <1>4. answered \in [VaultKeys -> Answers]
    BY DEF VaultTypeOK, Answers
  <1>5. /\ ChangeOK(h) /\ Alone(h) /\ \A k \in VaultKeys : AnswerOK(k) /\ Tells(k, seen[k])
    <2>1. ChangeOK(h) /\ Alone(h) /\ \A k \in VaultKeys : AnswerOK(k)
      BY DEF RowsInv
    <2>2. \A k \in VaultKeys : Tells(k, handlers[h].seen[k])
      BY <1>1, <2>1 DEF ChangeOK
    <2> QED  BY <2>1, <2>2
  <1>6. /\ Said(h) \in Answers
        /\ Said(h).said = "set" => row = Row(TRUE) /\ secrets[key] = Said(h).value
        /\ Said(h) = SaidDeleted => row = NoRow /\ secrets[key] = NoValue
        /\ h \in mixed => Said(h) \in {answered[key], Unknown}
    <2>1. CASE op # "edit" /\ h \in mixed
      <3>1. Said(h) = Unknown
        BY <2>1 DEF Said
      <3> QED  BY <3>1, WordsDiffer DEF Answers
    <2>2. CASE op = "set" /\ h \notin mixed
      <3>1. Said(h) = SaidSet(handlers[h].order.value) /\ row = Row(TRUE)
        BY <2>2 DEF Said, NewRow, HasNow
      <3>2. secrets[key] = handlers[h].order.value /\ handlers[h].order.value \in VaultValues
        BY <1>1, <1>5, <2>2, OrderFields DEF Alone
      <3> QED  BY <2>2, <3>1, <3>2, WordsDiffer DEF Answers
    <2>3. CASE op = "delete" /\ h \notin mixed
      <3>1. Said(h) = SaidDeleted /\ row = NoRow
        BY <2>3 DEF Said, NewRow
      <3>2. secrets[key] = NoValue
        BY <1>1, <1>5, <2>3, OrderFields DEF Alone
      <3> QED  BY <2>3, <3>1, <3>2, WordsDiffer DEF Answers
    <2>4. CASE op = "edit"
      <3>1. Said(h) = IF answered[key].said = "set" THEN answered[key] ELSE Unknown
        BY <2>4 DEF Said
      <3>2. answered[key].said = "set" => seen[key] = Row(TRUE) /\ secrets[key] = answered[key].value
        BY <1>1, <1>5 DEF Tells, AnswerOK
      <3>3. seen[key] = Row(TRUE) => row = Row(TRUE)
        BY <2>4, WordsDiffer DEF NewRow, HasNow
      <3>4. answered[key] \in Answers
        BY <1>1, <1>4
      <3> HIDE DEF key, row
      <3> QED  BY <3>1, <3>2, <3>3, <3>4, WordsDiffer DEF Answers
    <2> QED  BY <1>1, <2>1, <2>2, <2>3, <2>4
  <1> HIDE DEF row, key, seen, op
  <1>7. \A k \in VaultKeys :
            /\ rows'[k] = IF k = key THEN row ELSE seen[k]
            /\ answered'[k] = IF k = key THEN Said(h) ELSE answered[k]
    BY <1>1, <1>2, <1>4 DEF Rows
  <1>8. rows' \in Rows /\ answered' \in [VaultKeys -> Answers]
    BY <1>1, <1>2, <1>3, <1>4, <1>6 DEF Rows
  <1>9. ASSUME NEW k \in VaultKeys PROVE AnswerOK(k)'
    <2>1. CASE k = key
      BY <1>2, <1>6, <1>7, <2>1 DEF AnswerOK, Tells
    <2>2. CASE k # key
      <3>1. rows'[k] = seen[k] /\ answered'[k] = answered[k] /\ secrets' = secrets
        BY <1>2, <1>7, <2>2
      <3>2. AnswerOK(k) /\ Tells(k, seen[k])
        BY <1>5
      <3> QED  BY <3>1, <3>2 DEF AnswerOK, Tells
    <2> QED  BY <2>1, <2>2
  <1>10. h \in mixed => \A k \in VaultKeys : answered'[k] \in {answered[k], Unknown, SaidNothing}
    BY <1>6, <1>7
  <1>11. RowsInv'
    BY <1>1, <1>2, <1>9, <1>10, LeavesHand
  <1> QED  BY <1>8, <1>11

(***************************************************************************)
(* The steps.                                                              *)
(***************************************************************************)
\* The types, when the handlers, the list and the history of what was met change and the rest does not.
LEMMA TypesStand ==
    ASSUME VaultTypeOK, NEW h \in VaultHandlers, NEW to \in ChangesOf, Goes(h, to),
           UNCHANGED <<rows, secrets, acted, answered>>,
           spentFile' \subseteq spent', spent' \subseteq VaultGrants,
           mixed' \subseteq VaultHandlers, copied' \subseteq VaultGrants
    PROVE  VaultTypeOK'
  <1>1. handlers' \in [VaultHandlers -> ChangesOf]
    BY OneGoes
  <1> QED  BY <1>1 DEF VaultTypeOK, ChangesOf, Authority

LEMMA StepAsked ==
    ASSUME VaultInv, NEW h \in VaultHandlers, SetAsked(h) \/ EditAsked(h) \/ DeleteAsked(h)
    PROVE  VaultInv'
  <1>1. PICK order \in Order : Goes(h, [pc |-> "admitted", order |-> order, auth |-> NoGrant])
    BY DEF SetAsked, EditAsked, DeleteAsked, Asked
  <1>2. /\ handlers[h] = VaultIdle /\ VaultTypeOK
        /\ UNCHANGED <<rows, secrets, spent, spentFile, acted, answered, mixed, copied>>
    BY DEF SetAsked, EditAsked, DeleteAsked, Asked, Free, vaultHistory, VaultInv
  <1>3. PICK to : to = [pc |-> "admitted", order |-> order, auth |-> NoGrant]
    OBVIOUS
  <1>4. /\ to \in ChangesOf /\ Goes(h, to) /\ to.pc = "admitted" /\ to.auth = NoGrant
    BY <1>1, <1>3 DEF ChangesOf, Authority
  <1>5. GrantsInv'
    BY <1>2, <1>4, GrantsStand, AuthorityDiffers DEF VaultInv
  <1>6. RowsInv'
    BY <1>2, <1>4, RowsStand, IdleHolds DEF VaultInv, InHand
  <1>7. VaultTypeOK'
    <2>1. spentFile' \subseteq spent' /\ spent' \subseteq VaultGrants
             /\ mixed' \subseteq VaultHandlers /\ copied' \subseteq VaultGrants
      BY <1>2 DEF VaultTypeOK
    <2> QED  BY <1>2, <1>4, <2>1, TypesStand
  <1> QED  BY <1>5, <1>6, <1>7 DEF VaultInv

LEMMA StepActArrives ==
    ASSUME VaultInv, NEW h \in VaultHandlers, NEW g \in VaultGrants, NEW order \in Order, ActArrives(h, g, order)
    PROVE  VaultInv'
  <1>1. PICK to : to = [pc |-> "checked", grant |-> g, order |-> order]
    OBVIOUS
  <1>2. /\ handlers[h] = VaultIdle /\ VaultTypeOK /\ to \in ChangesOf /\ to.pc = "checked" /\ Goes(h, to)
        /\ UNCHANGED <<rows, secrets, spent, spentFile, acted, answered, mixed>>
    BY <1>1 DEF ActArrives, Free, ChangesOf, VaultInv
  <1>3. GrantsInv'
    BY GrantArrives DEF VaultInv
  <1>4. RowsInv'
    BY <1>2, RowsStand, IdleHolds DEF VaultInv, InHand
  <1>5. VaultTypeOK'
    <2>1. spentFile' \subseteq spent' /\ spent' \subseteq VaultGrants
             /\ mixed' \subseteq VaultHandlers /\ copied' \subseteq VaultGrants
      BY <1>2 DEF VaultTypeOK, ActArrives
    <2> QED  BY <1>2, <2>1, TypesStand
  <1> QED  BY <1>3, <1>4, <1>5 DEF VaultInv

LEMMA StepActSpends == ASSUME VaultInv, NEW h \in VaultHandlers, ActSpends(h) PROVE VaultInv'
  <1> DEFINE g == handlers[h].grant
             order == handlers[h].order
             admitted == [pc |-> "admitted", order |-> order, auth |-> By(g)]
  <1>1. /\ VaultTypeOK /\ handlers[h].pc = "checked" /\ g \in VaultGrants /\ order \in Order
    <2>1. VaultTypeOK /\ handlers[h].pc = "checked"
      BY DEF VaultInv, ActSpends
    <2> QED  BY <2>1, ChangeFields DEF VaultTypeOK
  <1>2. /\ spent' = spent \union {g} /\ spentFile' = (IF g \in spent THEN spentFile ELSE spent')
        /\ UNCHANGED <<rows, secrets, acted, answered, mixed, copied>>
    BY DEF ActSpends, vaultHistory
  <1>3. PICK to \in {VaultIdle, admitted} : Goes(h, to) /\ (to = admitted => order = SignedOrder[g])
    <2>1. (Goes(h, admitted) /\ order = SignedOrder[g]) \/ Goes(h, VaultIdle)
      BY DEF ActSpends, Matches, Ends
    <2>2. VaultIdle # admitted
      BY DEF VaultIdle
    <2> HIDE DEF admitted, order, g
    <2> QED  BY <2>1, <2>2
  <1>4. /\ to \in ChangesOf /\ to.pc \in {"idle", "admitted"}
        /\ to.pc = "admitted" => to.auth = By(g) /\ to.order = SignedOrder[g]
    <2>1. By(g) \in Authority
      BY <1>1 DEF Authority
    <2>2. admitted \in ChangesOf
      BY <1>1, <2>1 DEF ChangesOf
    <2> QED  BY <1>3, <2>2, IdleHolds DEF VaultIdle
  <1> HIDE DEF admitted
  <1>5. spentFile \subseteq spentFile' /\ spentFile' \subseteq spent' /\ spent' \subseteq VaultGrants
    BY <1>1, <1>2 DEF VaultTypeOK
  <1>6. GrantsInv'
    <2>1. Checked(h, g) /\ Carries(h, g)
      BY <1>1 DEF Checked, Carries
    <2>2. g \notin copied => g \in spentFile'
      BY <1>1, <1>2, <2>1 DEF VaultInv, GrantsInv, GrantOK
    <2>3. \A s \in VaultGrants : s \in spent' => s \in spent \/ Checked(h, s)
      BY <1>2, <2>1
    <2>4. \A s \in VaultGrants : to.pc \in {"admitted", "loaded"} /\ to.auth = By(s) => s = g
      BY <1>4, AuthorityDiffers
    <2>5. to.pc \in {"admitted", "loaded", "written"} /\ to.auth # NoGrant => to.order = SignedOrder[to.auth.grant]
      BY <1>4, AuthorityDiffers
    <2> HIDE DEF g, order
    <2> QED  BY <1>1, <1>2, <1>3, <1>4, <1>5, <2>1, <2>2, <2>3, <2>4, <2>5, GrantsStand DEF VaultInv
  <1>7. RowsInv'
    <2>1. ~InHand(h) /\ to.pc \notin {"loaded", "written"}
      BY <1>1, <1>4 DEF InHand
    <2> QED  BY <1>1, <1>2, <1>3, <1>4, <2>1, RowsStand DEF VaultInv
  <1>8. VaultTypeOK'
    <2>1. mixed' \subseteq VaultHandlers /\ copied' \subseteq VaultGrants
      BY <1>1, <1>2 DEF VaultTypeOK
    <2> QED  BY <1>1, <1>2, <1>3, <1>4, <1>5, <2>1, TypesStand
  <1> QED  BY <1>6, <1>7, <1>8 DEF VaultInv

LEMMA StepActCannotSpend == ASSUME VaultInv, NEW h \in VaultHandlers, ActCannotSpend(h) PROVE VaultInv'
  <1> DEFINE g == handlers[h].grant
  <1>1. /\ VaultTypeOK /\ handlers[h].pc = "checked" /\ g \in VaultGrants
    <2>1. VaultTypeOK /\ handlers[h].pc = "checked"
      BY DEF VaultInv, ActCannotSpend
    <2> QED  BY <2>1, ChangeFields DEF VaultTypeOK
  <1>2. /\ spent' = spent \union {g} /\ Goes(h, VaultIdle) /\ Checked(h, g)
        /\ UNCHANGED <<rows, secrets, spentFile, acted, answered, mixed, copied>>
    BY <1>1 DEF ActCannotSpend, vaultHistory, Ends, Checked
  <1>3. spentFile' \subseteq spent' /\ spent' \subseteq VaultGrants
           /\ mixed' \subseteq VaultHandlers /\ copied' \subseteq VaultGrants
    BY <1>1, <1>2 DEF VaultTypeOK
  <1>4. GrantsInv'
    <2>1. \A s \in VaultGrants : s \in spent' => s \in spent \/ Checked(h, s)
      BY <1>2
    <2> HIDE DEF g
    <2> QED  BY <1>1, <1>2, <2>1, IdleHolds, GrantsStand DEF VaultInv
  <1>5. RowsInv'
    <2>1. ~InHand(h)
      BY <1>1 DEF InHand
    <2> QED  BY <1>1, <1>2, <2>1, IdleHolds, RowsStand DEF VaultInv
  <1>6. VaultTypeOK'
    BY <1>1, <1>2, <1>3, IdleHolds, TypesStand
  <1> QED  BY <1>4, <1>5, <1>6 DEF VaultInv

LEMMA StepLoads == ASSUME VaultInv, NEW h \in VaultHandlers, Loads(h) PROVE VaultInv'
  <1> DEFINE order == handlers[h].order
             auth == handlers[h].auth
  <1>1. /\ VaultTypeOK /\ handlers[h].pc = "admitted" /\ order \in Order /\ auth \in Authority /\ rows \in Rows
    <2>1. VaultTypeOK /\ handlers[h].pc = "admitted"
      BY DEF VaultInv, Loads
    <2> QED  BY <2>1, ChangeFields DEF VaultTypeOK
  <1>2. PICK to : to = [pc |-> "loaded", order |-> order, auth |-> auth, seen |-> rows]
    OBVIOUS
  <1>3. to \in ChangesOf /\ Goes(h, to) /\ to.pc = "loaded" /\ to.order = order /\ to.auth = auth
    BY <1>1, <1>2 DEF Loads, ChangesOf
  <1>4. UNCHANGED <<rows, secrets, spent, spentFile, acted, answered, copied>> /\ mixed' \subseteq VaultHandlers
    BY <1>1 DEF Loads, VaultTypeOK
  <1>5. GrantsInv'
    <2>1. \A g \in VaultGrants : auth = By(g) => Carries(h, g) /\ (g \notin copied => g \in spentFile)
      BY <1>1 DEF VaultInv, GrantsInv, GrantOK, Carries, MayAct
    <2>2. auth # NoGrant => order = SignedOrder[auth.grant]
      BY <1>1 DEF VaultInv, GrantsInv, SignedFor
    <2> HIDE DEF order, auth
    <2> QED  BY <1>1, <1>3, <1>4, <2>1, <2>2, GrantsStand DEF VaultInv
  <1>6. RowsInv'
    BY RowsLoaded DEF VaultInv
  <1>7. VaultTypeOK'
    <2>1. spentFile' \subseteq spent' /\ spent' \subseteq VaultGrants /\ copied' \subseteq VaultGrants
      BY <1>1, <1>4 DEF VaultTypeOK
    <2> QED  BY <1>1, <1>3, <1>4, <2>1, TypesStand
  <1> QED  BY <1>5, <1>6, <1>7 DEF VaultInv

LEMMA BackendStep ==
    ASSUME VaultInv, NEW h \in VaultHandlers, handlers[h].pc = "loaded",
           handlers[h].order.op \in {"set", "delete"}, Backend(h, handlers[h].order.value)
    PROVE  VaultInv'
  <1> DEFINE key == handlers[h].order.key
             value == handlers[h].order.value
             to == [handlers[h] EXCEPT !.pc = "written"]
  <1>1. VaultTypeOK /\ key \in VaultKeys /\ value \in VaultValues \union {NoValue}
    <2>1. VaultTypeOK
      BY DEF VaultInv
    <2> QED  BY <2>1, ChangeFields, OrderFields DEF VaultTypeOK
  <1>2. GrantsInv' /\ acted' \in [VaultGrants -> Seq(Order)]
    BY GrantActs DEF VaultInv
  <1>3. RowsInv'
    BY RowsWritten DEF VaultInv
  <1>4. /\ UNCHANGED <<rows, spent, spentFile, mixed, copied>> /\ Goes(h, to)
        /\ secrets' = [secrets EXCEPT ![key] = value] /\ answered' = [answered EXCEPT ![key] = Unknown]
    BY DEF Backend, Writes
  <1>5. handlers' \in [VaultHandlers -> ChangesOf]
    <2>1. to \in ChangesOf
      BY <1>1, OnceWritten DEF VaultTypeOK
    <2> HIDE DEF to
    <2> QED  BY <1>1, <1>4, <2>1, OneGoes
  <1> HIDE DEF key, value, to
  <1>6. /\ secrets' \in [VaultKeys -> VaultValues \union {NoValue}] /\ answered' \in [VaultKeys -> Answers]
    BY <1>1, <1>4 DEF VaultTypeOK, Answers
  <1>7. VaultTypeOK'
    BY <1>1, <1>2, <1>4, <1>5, <1>6 DEF VaultTypeOK, ChangesOf, Answers, Authority
  <1> QED  BY <1>2, <1>3, <1>7 DEF VaultInv

LEMMA StepWritesSecret == ASSUME VaultInv, NEW h \in VaultHandlers, WritesSecret(h) PROVE VaultInv'
  BY BackendStep DEF WritesSecret

LEMMA StepRemovesSecret == ASSUME VaultInv, NEW h \in VaultHandlers, RemovesSecret(h) PROVE VaultInv'
  <1>1. handlers[h].order.value = NoValue
    BY ChangeFields, OrderFields DEF RemovesSecret, VaultInv, VaultTypeOK
  <1> QED  BY <1>1, BackendStep DEF RemovesSecret

\* A change that was under way is over; the grants do not mind.
LEMMA ChangeIsOver ==
    ASSUME VaultInv, NEW h \in VaultHandlers, InHand(h), ChangeEnds(h),
           UNCHANGED <<spent, spentFile, acted, copied>>
    PROVE  /\ GrantsInv' /\ mixed' \subseteq VaultHandlers
           /\ handlers' \in [VaultHandlers -> ChangesOf]
  <1>1. Goes(h, VaultIdle) /\ mixed' = mixed \ {h} /\ VaultTypeOK
    BY DEF ChangeEnds, Ends, VaultInv
  <1>2. GrantsInv'
    BY <1>1, IdleHolds, GrantsStand DEF VaultInv
  <1> QED  BY <1>1, <1>2, IdleHolds, OneGoes DEF VaultTypeOK

LEMMA StepDeleteFindsNothing == ASSUME VaultInv, NEW h \in VaultHandlers, DeleteFindsNothing(h) PROVE VaultInv'
  <1> DEFINE key == handlers[h].order.key
  <1>1. /\ VaultTypeOK /\ InHand(h) /\ key \in VaultKeys
    <2>1. VaultTypeOK /\ InHand(h)
      BY DEF VaultInv, DeleteFindsNothing, InHand
    <2> QED  BY <2>1, ChangeFields, OrderFields DEF VaultTypeOK, InHand
  <1>2. /\ answered' = [answered EXCEPT ![key] = SaidNothing] /\ ChangeEnds(h)
        /\ UNCHANGED <<rows, secrets, spent, spentFile, acted, copied>>
    BY DEF DeleteFindsNothing
  <1> HIDE DEF key
  <1>3. \A k \in VaultKeys : answered'[k] = IF k = key THEN SaidNothing ELSE answered[k]
    BY <1>1, <1>2 DEF VaultTypeOK
  <1>4. ASSUME NEW k \in VaultKeys PROVE AnswerOK(k)'
    <2>1. AnswerOK(k)
      BY DEF VaultInv, RowsInv
    <2> QED  BY <1>2, <1>3, <2>1, WordsDiffer DEF AnswerOK, Tells
  <1>5. RowsInv'
    BY <1>1, <1>2, <1>3, <1>4, LeavesHand DEF VaultInv
  <1>6. GrantsInv' /\ mixed' \subseteq VaultHandlers /\ handlers' \in [VaultHandlers -> ChangesOf]
    BY <1>1, <1>2, ChangeIsOver
  <1>7. answered' \in [VaultKeys -> Answers]
    BY <1>1, <1>2 DEF VaultTypeOK, Answers
  <1>8. VaultTypeOK'
    BY <1>1, <1>2, <1>6, <1>7 DEF VaultTypeOK, ChangesOf, Answers, Authority
  <1> QED  BY <1>5, <1>6, <1>8 DEF VaultInv

LEMMA StepSavesRows == ASSUME VaultInv, NEW h \in VaultHandlers, SavesRows(h) PROVE VaultInv'
  <1>1. /\ InHand(h) /\ ChangeEnds(h) /\ UNCHANGED <<secrets, spent, spentFile, acted, copied>>
        /\ VaultTypeOK
    BY DEF SavesRows, InHand, VaultInv
  <1>2. RowsInv' /\ rows' \in Rows /\ answered' \in [VaultKeys -> Answers]
    BY RowsSaved DEF VaultInv
  <1>3. GrantsInv' /\ mixed' \subseteq VaultHandlers /\ handlers' \in [VaultHandlers -> ChangesOf]
    BY <1>1, ChangeIsOver
  <1>4. VaultTypeOK'
    BY <1>1, <1>2, <1>3 DEF VaultTypeOK, ChangesOf, Answers, Authority, Rows
  <1> QED  BY <1>2, <1>3, <1>4 DEF VaultInv

LEMMA StepChangeFails == ASSUME VaultInv, NEW h \in VaultHandlers, ChangeFails(h) PROVE VaultInv'
  <1>1. /\ InHand(h) /\ ChangeEnds(h) /\ VaultTypeOK
        /\ UNCHANGED <<rows, secrets, spent, spentFile, acted, answered, copied>>
    BY DEF ChangeFails, VaultInv
  <1>2. \A k \in VaultKeys : AnswerOK(k)'
    BY <1>1 DEF VaultInv, RowsInv, AnswerOK, Tells
  <1>3. RowsInv'
    BY <1>1, <1>2, LeavesHand DEF VaultInv
  <1>4. GrantsInv' /\ mixed' \subseteq VaultHandlers /\ handlers' \in [VaultHandlers -> ChangesOf]
    BY <1>1, ChangeIsOver
  <1>5. VaultTypeOK'
    BY <1>1, <1>4 DEF VaultTypeOK, ChangesOf, Authority
  <1> QED  BY <1>3, <1>4, <1>5 DEF VaultInv

\* The changes under way are gone, and with them the grants that were spent in memory only.
LEMMA StepBootloaderStops == ASSUME VaultInv, BootloaderStops PROVE VaultInv'
  <1>1. /\ \A h \in VaultHandlers : handlers'[h] = VaultIdle
        /\ handlers' \in [VaultHandlers -> ChangesOf]
        /\ spent' = spentFile /\ mixed' = {}
        /\ UNCHANGED <<rows, secrets, spentFile, acted, answered, copied>>
    BY IdleHolds DEF BootloaderStops
  <1>2. \A h \in VaultHandlers : ~InHand(h)' /\ handlers'[h].pc # "written" /\ SignedFor(h)'
    BY <1>1, IdleHolds DEF InHand, SignedFor
  <1>3. \A h \in VaultHandlers, g \in VaultGrants : ~Checked(h, g)' /\ ~MayAct(h, g)' /\ ~Carries(h, g)'
    BY <1>1, IdleHolds DEF Checked, MayAct, Carries
  <1>4. ASSUME NEW g \in VaultGrants PROVE GrantOK(g)' /\ ActedOK(g)'
    <2>1. GrantOK(g) /\ ActedOK(g)
      BY DEF VaultInv, GrantsInv
    <2> QED  BY <1>1, <1>3, <2>1 DEF GrantOK, ActedOK
  <1>5. RowsInv'
    <2>1. \A k \in VaultKeys : AnswerOK(k)'
      BY <1>1 DEF VaultInv, RowsInv, AnswerOK, Tells
    <2> QED  BY <1>2, <2>1 DEF RowsInv, ChangeOK, Alone
  <1>6. VaultTypeOK'
    BY <1>1 DEF VaultInv, VaultTypeOK, ChangesOf, Authority
  <1> QED  BY <1>2, <1>4, <1>5, <1>6 DEF VaultInv, GrantsInv

LEMMA StepVaultStutters == ASSUME VaultInv, UNCHANGED vaultVars PROVE VaultInv'
  <1>1. UNCHANGED <<rows, secrets, handlers, spent, spentFile, acted, answered, mixed, copied>>
    BY DEF vaultVars, vaultHistory
  <1>2. VaultTypeOK'
    BY <1>1 DEF VaultInv, VaultTypeOK, ChangesOf, Authority
  <1>3. GrantsInv'
    BY <1>1 DEF VaultInv, GrantsInv, SignedFor, GrantOK, ActedOK, Carries, Checked, MayAct
  <1>4. RowsInv'
    BY <1>1 DEF VaultInv, RowsInv, AnswerOK, Tells, ChangeOK, Alone, InHand
  <1> QED  BY <1>2, <1>3, <1>4 DEF VaultInv

\* A grant is with one change while it came in one copy, and what a change read bears out every answer that stands,
\* however many changes, copies of acts, failed writes and restarts there are.
THEOREM VaultInvariant == VaultSpec => []VaultInv
  <1>1. VaultInit => VaultInv
    BY VaultInvInit
  <1>2. VaultInv /\ [VaultNext]_vaultVars => VaultInv'
    BY StepAsked, StepActArrives, StepActSpends, StepActCannotSpend, StepLoads, StepWritesSecret, StepRemovesSecret,
       StepDeleteFindsNothing, StepSavesRows, StepChangeFails, StepBootloaderStops, StepVaultStutters DEF VaultNext
  <1> QED  BY <1>1, <1>2, PTL DEF VaultSpec

\* A set or a delete answered with no other change between its load and its save stands until a later change of the
\* value, whatever overlaps after it; a grant does what was signed, and once if it came in one copy; with any number
\* of changes at once, failed writes and restarts (manage.py: set_connection, delete_connection; server.py:
\* _handle_connections_act).
THEOREM VaultAlwaysKeepsItsWord == VaultSpec => []VaultKeepsItsWord
  <1>1. VaultInv => VaultKeepsItsWord
    <2>1. ASSUME VaultInv PROVE AnsweredSetStands /\ AnsweredDeleteStands
      BY <2>1, WordsDiffer
         DEF VaultInv, RowsInv, AnswerOK, Tells, AnsweredSetStands, AnsweredDeleteStands, ConnectionSecret, UserSecret
    <2>2. ASSUME VaultInv PROVE GrantActsOnce
      BY <2>2 DEF VaultInv, GrantsInv, GrantOK, ActedOK, GrantActsOnce
    <2> QED  BY <2>1, <2>2 DEF VaultKeepsItsWord
  <1> QED  BY <1>1, VaultInvariant, PTL
==============================================================================
