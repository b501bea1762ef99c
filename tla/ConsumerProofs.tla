--------------------------- MODULE ConsumerProofs ---------------------------
(***************************************************************************)
(* What consumers and their agents ask of a bootloader: members and their  *)
(* registrations, leases of clusters, and capability cards.  A section     *)
(* each, for every value of its constants.                                 *)
(***************************************************************************)
EXTENDS CapabilityCards, Members, Clusters,
    SequenceTheorems, FiniteSetTheorems, WellFoundedInduction, TLAPS

(***************************************************************************)
(* Members: one phone to a subject, for any registrations that race.       *)
(*                                                                         *)
(* The invariant adds that a code is spent before it registers, and that a *)
(* move that comes with a registration was signed.                         *)
(***************************************************************************)
MemberInv ==
    /\ MembersTypeOK
    /\ \A n \in codes \union challenges : bought[n] = 0
    /\ \A n \in 1 .. MaxTickets : n > Len(minted) => bought[n] = 0
    /\ \A h \in Registrations : registering[h].pc = "proven" =>
          /\ registering[h].ticket <= Len(minted)
          /\ registering[h].move \in {NoMove} \union signed
    /\ \A m \in signed : m.ticket <= Len(minted)
    /\ BindingsAreOneToOne /\ CodeRegistersOnce

SubjectLeaves ==
    \A p \in MemberPhones : \A b \in held[p] \ held'[p] :
       \/ p \notin phones'
       \/ \E m \in signed : m.from = p /\ minted[m.ticket] = b /\ m.ticket \in challenges \ challenges'

USE MembersAssumption DEF MemberInv, MembersTypeOK, BindingsAreOneToOne, CodeRegistersOnce, Tickets, Move, NoMove,
    RegistrationIdle, SubjectLeaves

LEMMA MemberInvInit == ASSUME MembersInit PROVE MemberInv
  BY DEF MembersInit

\* A step that touches no phone.
LEMMA PhonesUntouched ==
    ASSUME MemberInv, UNCHANGED <<phones, held, bought>>
    PROVE  /\ SubjectLeaves /\ BindingsAreOneToOne' /\ CodeRegistersOnce'
           /\ phones' \subseteq MemberPhones
           /\ held' \in [MemberPhones -> SUBSET Bindings]
           /\ \A p \in MemberPhones \ phones' : held'[p] = {}
           /\ bought' \in [1..MaxTickets -> Nat]
  OBVIOUS

RegistrationsOf ==
    {RegistrationIdle}
       \union [pc : {"proven"}, phone : MemberPhones, ticket : 1..MaxTickets, move : {NoMove} \union Move]

LEMMA StepMintMemberCode == ASSUME MemberInv, NEW b \in Bindings, MintMemberCode(b) PROVE MemberInv' /\ SubjectLeaves
  <1>1. /\ Len(minted) < MaxTickets /\ minted' = Append(minted, b) /\ codes' = codes \union {Len(minted) + 1}
        /\ UNCHANGED <<challenges, phones, held, registering, signed, bought>>
    BY DEF MintMemberCode, IssuesCode
  <1>2. minted' \in Seq(Bindings) /\ Len(minted') = Len(minted) + 1 /\ Len(minted) \in Nat
    BY <1>1
  <1>3. codes \subseteq 1 .. Len(minted) /\ challenges \subseteq 1 .. Len(minted)
    OBVIOUS
  <1>4. codes' \subseteq 1 .. Len(minted') /\ challenges' \subseteq (1 .. Len(minted')) \ codes'
    <2>1. \A k \in 1 .. Len(minted) : k \in 1 .. Len(minted') /\ k # Len(minted) + 1
      BY <1>2
    <2>2. Len(minted) + 1 \in 1 .. Len(minted')
      BY <1>2
    <2>3. challenges \subseteq (1 .. Len(minted)) \ codes
      OBVIOUS
    <2> HIDE DEF MemberInv
    <2> QED  BY <1>1, <1>3, <2>1, <2>2, <2>3
  <1>5. \A n \in codes' \union challenges' : bought'[n] = 0
    BY <1>1, <1>2
  <1>6. /\ \A n \in 1 .. MaxTickets : n > Len(minted') => bought'[n] = 0
        /\ \A h \in Registrations : registering'[h].pc = "proven" => registering'[h].ticket <= Len(minted')
        /\ \A m \in signed' : m.ticket <= Len(minted')
    <2>1. \A n \in 1 .. MaxTickets : n > Len(minted) => bought[n] = 0
      OBVIOUS
    <2>2. \A h \in Registrations : registering[h].pc = "proven" =>
             registering[h].ticket \in Nat /\ registering[h].ticket <= Len(minted)
      OBVIOUS
    <2>3. \A m \in signed : m.ticket \in Nat /\ m.ticket <= Len(minted)
      OBVIOUS
    <2> HIDE DEF MemberInv
    <2> QED  BY <1>1, <1>2, <2>1, <2>2, <2>3
  <1>7. SubjectLeaves /\ BindingsAreOneToOne' /\ CodeRegistersOnce'
    BY <1>1, PhonesUntouched
  <1>8. MembersTypeOK'
    BY <1>1, <1>2, <1>4
  <1>9. \A h \in Registrations : registering'[h].pc = "proven" => registering'[h].move \in {NoMove} \union signed'
    BY <1>1
  <1> HIDE DEF MembersTypeOK, BindingsAreOneToOne, CodeRegistersOnce, SubjectLeaves
  <1> QED  BY <1>5, <1>6, <1>7, <1>8, <1>9

LEMMA StepCodeBuysChallenge ==
    ASSUME MemberInv, NEW n \in Tickets, CodeBuysChallenge(n) PROVE MemberInv' /\ SubjectLeaves
  <1>1. /\ n \in codes /\ codes' = codes \ {n} /\ challenges' \subseteq challenges \union {n}
        /\ UNCHANGED <<minted, phones, held, registering, signed, bought>>
    BY DEF CodeBuysChallenge, ConsumesCode, WithChallenge
  <1> HIDE DEF BindingsAreOneToOne, CodeRegistersOnce, SubjectLeaves
  <1> QED  BY <1>1, PhonesUntouched

LEMMA StepTicketExpires ==
    ASSUME MemberInv, NEW n \in Tickets, TicketExpires(n) PROVE MemberInv' /\ SubjectLeaves
  BY DEF TicketExpires

LEMMA StepPhoneSigns == ASSUME MemberInv, NEW m \in Move, PhoneSigns(m) PROVE MemberInv' /\ SubjectLeaves
  BY DEF PhoneSigns

LEMMA StepRegisterProves ==
    ASSUME MemberInv, NEW h \in Registrations, NEW p \in MemberPhones, NEW n \in challenges,
           NEW m \in {NoMove} \union signed, RegisterProves(h, p, n, m)
    PROVE  MemberInv' /\ SubjectLeaves
  BY DEF RegisterProves

LEMMA StepRegisterMember ==
    ASSUME MemberInv, NEW h \in Registrations, RegisterMember(h) PROVE MemberInv' /\ SubjectLeaves
  <1> DEFINE r == registering[h]
             n == r.ticket
             b == minted[n]
             new == r.phone
  <1>1. /\ r \in [pc : {"proven"}, phone : MemberPhones, ticket : 1..MaxTickets, move : {NoMove} \union Move]
        /\ n \in challenges /\ challenges' = challenges \ {n}
        /\ registering' = [registering EXCEPT ![h] = RegistrationIdle]
        /\ UNCHANGED <<minted, codes, signed>>
    BY DEF RegisterMember, Consumed
  <1>2. n \in 1 .. Len(minted) /\ n \in 1 .. MaxTickets /\ b \in Bindings /\ new \in MemberPhones
    BY <1>1
  <1>3. \A o \in held[new] : o.consumer = b.consumer => o = b
    <2>1. \A o \in held[new] : o.consumer = b.consumer => o.subject = b.subject
      BY DEF RegisterMember, BoundElsewhere
    <2> QED  BY <2>1, <1>2
  <1>4. \A q \in MemberPhones \ {new} : b \in held[q] => r.move = [from |-> q, to |-> new, ticket |-> n]
    BY DEF RegisterMember, BoundTo, Moves
  <1>5. \/ /\ held' = [Parted(new, b) EXCEPT ![new] = @ \union {b}]
           /\ phones' = phones \union {new} /\ bought' = [bought EXCEPT ![n] = @ + 1]
        \/ held' \in {held, Parted(new, b)} /\ UNCHANGED <<phones, bought>>
    BY DEF RegisterMember, RegisterPhone
  <1>6. PICK taken \in BOOLEAN, given \in BOOLEAN :
            /\ held' = [q \in MemberPhones |-> IF q = new THEN IF given THEN held[q] \union {b} ELSE held[q]
                                               ELSE IF taken THEN held[q] \ {b} ELSE held[q]]
            /\ given => taken
    <2>1. CASE held' = [Parted(new, b) EXCEPT ![new] = @ \union {b}]
      <3>1. held' = [q \in MemberPhones |-> IF q = new THEN held[q] \union {b} ELSE held[q] \ {b}]
        BY <1>2, <2>1, Zenon DEF Parted
      <3> QED  BY <3>1, Zenon
    <2>2. CASE held' = Parted(new, b)
      BY <2>2, Zenon DEF Parted
    <2>3. CASE held' = held
      <3>1. held = [q \in MemberPhones |-> held[q]]
        OBVIOUS
      <3> QED  BY <2>3, <3>1
    <2> QED  BY <1>5, <2>1, <2>2, <2>3
  <1>7. held' \in [MemberPhones -> SUBSET Bindings]
    BY <1>2, <1>6
  <1>8. /\ \A q \in MemberPhones : q # new => held'[q] \subseteq held[q] /\ held[q] \ {b} \subseteq held'[q]
        /\ held[new] \subseteq held'[new] /\ held'[new] \subseteq held[new] \union {b}
        /\ b \in held'[new] \ held[new] => \A q \in MemberPhones \ {new} : b \notin held'[q]
    BY <1>2, <1>6
  <1>9. BindingsAreOneToOne'
    <2> SUFFICES ASSUME NEW p \in MemberPhones, NEW q \in MemberPhones, NEW x \in held'[p], NEW y \in held'[q]
                 PROVE  (x = y => p = q) /\ (p = q /\ x.consumer = y.consumer => x = y)
      OBVIOUS
    <2>1. \A p1, q1 \in MemberPhones : \A x1 \in held[p1], y1 \in held[q1] :
              (x1 = y1 => p1 = q1) /\ (p1 = q1 /\ x1.consumer = y1.consumer => x1 = y1)
      OBVIOUS
    <2>2. x \in held[p] \/ (p = new /\ x = b /\ b \in held'[new] \ held[new])
      BY <1>8
    <2>3. y \in held[q] \/ (q = new /\ y = b /\ b \in held'[new] \ held[new])
      BY <1>8
    <2> HIDE DEF MemberInv
    <2> QED  BY <1>3, <1>8, <2>1, <2>2, <2>3
  <1>10. SubjectLeaves
    <2> SUFFICES ASSUME NEW q \in MemberPhones, NEW x \in held[q] \ held'[q]
                 PROVE  \E m \in signed : m.from = q /\ minted[m.ticket] = x /\ m.ticket \in challenges \ challenges'
      OBVIOUS
    <2>1. q # new /\ x = b
      BY <1>8
    <2>2. r.move = [from |-> q, to |-> new, ticket |-> n]
      BY <1>4, <2>1
    <2>3. r.move \in signed
      <3>1. r.move \in {NoMove} \union signed
        BY <1>1
      <3>2. r.move # NoMove
        BY <2>2
      <3> QED  BY <3>1, <3>2
    <2> QED  BY <1>1, <2>1, <2>2, <2>3
  <1>11. /\ bought' \in [1..MaxTickets -> Nat] /\ CodeRegistersOnce'
         /\ \A k \in codes' \union challenges' : bought'[k] = 0
         /\ \A k \in 1 .. MaxTickets : k > Len(minted') => bought'[k] = 0
    <2>1. bought[n] = 0 /\ n \notin codes' \union challenges'
      BY <1>1
    <2>2. \A k \in 1 .. MaxTickets : k # n => bought'[k] = bought[k]
      BY <1>2, <1>5
    <2>3. bought'[n] \in {0, 1}
      BY <1>2, <1>5, <2>1
    <2>4. bought' \in [1..MaxTickets -> Nat]
      BY <1>2, <1>5
    <2>5. codes' \union challenges' \subseteq 1 .. MaxTickets
      <3>1. \A k \in 1 .. Len(minted) : k \in 1 .. MaxTickets
        BY <1>2
      <3>2. codes \subseteq 1 .. Len(minted) /\ challenges \subseteq 1 .. Len(minted)
        OBVIOUS
      <3> QED  BY <1>1, <3>1, <3>2
    <2>6. ~(n > Len(minted'))
      <3>1. Len(minted') \in Nat /\ Len(minted') = Len(minted)
        BY <1>1
      <3> QED  BY <1>2, <3>1
    <2>7. CodeRegistersOnce'
      <3>1. \A k \in 1 .. MaxTickets : bought[k] <= 1
        OBVIOUS
      <3> QED  BY <2>2, <2>3, <3>1
    <2> QED  BY <1>1, <2>1, <2>2, <2>4, <2>5, <2>6, <2>7
  <1>12. phones' \subseteq MemberPhones /\ \A q \in MemberPhones \ phones' : held'[q] = {}
    <2>1. phones \subseteq phones' /\ phones' \subseteq phones \union {new}
      BY <1>5
    <2>2. new \notin phones' => held' \in {held, Parted(new, b)} /\ held[new] = {}
      BY <1>2, <1>5
    <2>3. new \notin phones' => held'[new] = {}
      BY <1>2, <2>2 DEF Parted
    <2> QED  BY <1>2, <1>8, <2>1, <2>3
  <1>13. /\ registering' \in [Registrations -> RegistrationsOf]
         /\ \A k \in Registrations : registering'[k] \in {registering[k], RegistrationIdle}
    BY <1>1 DEF RegistrationsOf
  <1> HIDE DEF BindingsAreOneToOne, CodeRegistersOnce, SubjectLeaves
  <1> QED  BY <1>1, <1>7, <1>9, <1>10, <1>11, <1>12, <1>13 DEF RegistrationsOf

LEMMA StepRegisterRefused ==
    ASSUME MemberInv, NEW h \in Registrations, RegisterRefused(h) PROVE MemberInv' /\ SubjectLeaves
  <1>1. /\ registering' = [registering EXCEPT ![h] = RegistrationIdle]
        /\ challenges' \subseteq challenges
        /\ UNCHANGED <<minted, codes, phones, held, signed, bought>>
    BY DEF RegisterRefused, Consumed
  <1> HIDE DEF BindingsAreOneToOne, CodeRegistersOnce, SubjectLeaves
  <1> QED  BY <1>1, PhonesUntouched

LEMMA StepPhoneRevoked == ASSUME MemberInv, NEW p \in MemberPhones, PhoneRevoked(p) PROVE MemberInv' /\ SubjectLeaves
  BY DEF PhoneRevoked, Forgets

LEMMA StepMembersRestart == ASSUME MemberInv, MembersRestart PROVE MemberInv' /\ SubjectLeaves
  <1>1. /\ registering' = [h \in Registrations |-> RegistrationIdle]
        /\ codes' \subseteq codes /\ challenges' \subseteq challenges
        /\ UNCHANGED <<minted, phones, held, signed, bought>>
    BY DEF MembersRestart
  <1> HIDE DEF BindingsAreOneToOne, CodeRegistersOnce, SubjectLeaves
  <1> QED  BY <1>1, PhonesUntouched

LEMMA StepMembersStutters == ASSUME MemberInv, UNCHANGED memberVars PROVE MemberInv' /\ SubjectLeaves
  BY DEF memberVars

HIDE MembersAssumption DEF MemberInv, MembersTypeOK, BindingsAreOneToOne, CodeRegistersOnce, Tickets, Move, NoMove,
    RegistrationIdle, SubjectLeaves

LEMMA MembersStep == ASSUME MemberInv, [MembersNext]_memberVars PROVE MemberInv' /\ SubjectLeaves
  BY StepMintMemberCode, StepCodeBuysChallenge, StepTicketExpires, StepPhoneSigns, StepRegisterProves,
     StepRegisterMember, StepRegisterRefused, StepPhoneRevoked, StepMembersRestart, StepMembersStutters DEF MembersNext

\* The inductive invariant.
THEOREM MemberInvariant == MembersSpec => []MemberInv
  <1>1. MembersInit => MemberInv
    BY MemberInvInit
  <1>2. MemberInv /\ [MembersNext]_memberVars => MemberInv'
    BY MembersStep
  <1> QED  BY <1>1, <1>2, PTL DEF MembersSpec

\* Codes, registrations, phones and moves keep their types.
THEOREM MembersTypes == MembersSpec => []MembersTypeOK
  <1>1. MemberInv => MembersTypeOK
    BY DEF MemberInv
  <1> QED  BY <1>1, MemberInvariant, PTL

\* A subject has one phone and a phone one subject of each consumer, a code
\* registers once, and a bound subject leaves its phone only by that phone's
\* signature over the challenge it spends (_handle_register), for any number of
\* phones and registrations, through refused and half-written ones.
THEOREM MembersAreAlwaysBoundOnce == MembersSpec => MembersAreBoundOnce
  <1>1. MemberInv => BindingsAreOneToOne /\ CodeRegistersOnce
    BY DEF MemberInv
  <1>2. MemberInv /\ [MembersNext]_memberVars => [SubjectLeaves]_memberVars
    BY MembersStep
  <1> QED  BY <1>1, <1>2, MemberInvariant, PTL DEF MembersSpec, MembersAreBoundOnce, SubjectLeavesBySignature, SubjectLeaves

(***************************************************************************)
(* Clusters: a lease that was told and neither lapsed nor was given back is *)
(* the cluster's in the records, in the file and for the projection's      *)
(* readers, for any clusters, any lease time and any restarts.             *)
(*                                                                         *)
(* LeasesAreKept needs what a told lease, its record and the file say of   *)
(* one token (Keeps), and that no two clusters share one (Names).          *)
(***************************************************************************)
\* A lease that was told and neither ended nor was given back.
Standing(l) == l.token \notin leaving \union {0} /\ leaseClock - l.beat <= LeaseTTL
Keeps(r, l) == r.token = l.token /\ r.status = "active" /\ r.beat >= l.beat

\* The tokens a cluster goes by anywhere.
Names(c) == {records[c].token, registry[c].token, projection[c].token} \ {0}

Projected == [status : {"none", "active", "orphaned", "retired"}, token : 0 .. MaxSpawned]

ClusterInv ==
    /\ ClustersTypeOK
    /\ leases \in [ClusterIds -> [token : 0 .. spawned, beat : 0 .. leaseClock]]
    /\ \A c \in ClusterIds :
          /\ Names(c) \subseteq 1 .. spawned
          /\ registry[c].beat <= leaseClock
          /\ leases[c].token <= records[c].token /\ leases[c].token <= registry[c].token
          /\ Standing(leases[c]) => Keeps(records[c], leases[c]) /\ Keeps(registry[c], leases[c])
    /\ \A c, d \in ClusterIds : c # d => Names(c) \intersect Names(d) = {}
    /\ RetiredIsRetired

USE ClustersAssumption DEF ClusterInv, ClustersTypeOK, Standing, Keeps, Names, Projected, RetiredIsRetired, ClusterRecords,
    NoCluster, SpawnTokens, View, Effective, LeaseLapsed

LEMMA ClusterInvInit == ASSUME ClustersInit PROVE ClusterInv
  BY DEF ClustersInit


\* The numbers, as the arithmetic below needs them.
LEMMA ClusterNumbers ==
    ASSUME ClusterInv
    PROVE  /\ spawned \in Nat /\ leaseClock \in Nat /\ MaxSpawned \in Nat /\ LeaseTTL \in Int /\ spawned <= MaxSpawned
           /\ \A c \in ClusterIds :
                 /\ records[c].token \in 0 .. spawned /\ registry[c].token \in 0 .. spawned
                 /\ projection[c].token \in 0 .. spawned /\ leases[c].token \in 0 .. spawned
                 /\ records[c].beat \in 0 .. leaseClock /\ registry[c].beat \in 0 .. leaseClock
                 /\ leases[c].beat \in 0 .. leaseClock
  <1>1. spawned \in Nat /\ leaseClock \in Nat /\ spawned <= MaxSpawned
    OBVIOUS
  <1>2. \A c \in ClusterIds : records[c].token \in Nat /\ registry[c].token \in Nat /\ projection[c].token \in Nat
                              /\ records[c].beat \in Nat /\ registry[c].beat \in Nat
    <2>1. \A r \in ClusterRecords : r.token \in Nat /\ r.beat \in Nat
      OBVIOUS
    <2>2. /\ records \in [ClusterIds -> ClusterRecords] /\ registry \in [ClusterIds -> ClusterRecords]
          /\ \A c \in ClusterIds : projection[c].token \in Nat
      OBVIOUS
    <2> HIDE DEF ClusterInv, ClusterRecords
    <2> QED  BY <2>1, <2>2
  <1>3. \A c \in ClusterIds : {records[c].token, registry[c].token, projection[c].token} \subseteq {0} \union 1 .. spawned
    BY DEF Names
  <1>4. \A c \in ClusterIds : leases[c].token \in 0 .. spawned /\ leases[c].beat \in 0 .. leaseClock
    OBVIOUS
  <1>5. \A c \in ClusterIds : records[c].beat <= leaseClock /\ registry[c].beat <= leaseClock
    OBVIOUS
  <1> HIDE DEF ClusterInv
  <1> QED  BY <1>1, <1>2, <1>3, <1>4, <1>5

\* What a call may make of the record of a cluster, and what reaches the files.
Changes(c) ==
    /\ records' \in [ClusterIds -> ClusterRecords]
    /\ leaseClock' = leaseClock /\ spawned' \in spawned .. MaxSpawned
    /\ \A d \in ClusterIds :
          /\ records'[d].beat <= leaseClock
          /\ \/ records'[d].token = records[d].token
             \/ d = c /\ records'[d].token = spawned' /\ spawned' > spawned
    /\ registry' = registry \/ registry' = records'
    /\ projection' = projection \/ projection' = View(records')

LEMMA ChangesNames ==
    ASSUME ClusterInv, NEW c \in ClusterIds, Changes(c)
    PROVE  /\ projection' \in [ClusterIds -> Projected]
           /\ \A d \in ClusterIds :
                 /\ projection'[d].token <= spawned'
                 /\ Names(d)' \subseteq 1 .. spawned'
                 /\ Names(d)' \subseteq Names(d) \union (IF d = c THEN {spawned'} \ (1 .. spawned) ELSE {})
           /\ \A d, e \in ClusterIds : d # e => Names(d)' \intersect Names(e)' = {}
  <1>1. \A d \in ClusterIds : records'[d].token \in {0} \union 1 .. spawned'
    <2> HIDE DEF ClusterInv
    <2> QED  BY ClusterNumbers DEF Changes
  <1>2. View(records') \in [ClusterIds -> Projected]
    BY DEF Changes
  <1>3. projection' \in [ClusterIds -> Projected]
    BY <1>2 DEF Changes
  <1>4. \A d \in ClusterIds : View(records')[d].token = records'[d].token
    OBVIOUS
  <1>5. \A d \in ClusterIds :
           /\ registry'[d].token \in {registry[d].token, records'[d].token}
           /\ projection'[d].token \in {projection[d].token, records'[d].token}
    BY <1>4 DEF Changes
  <1>6. \A d \in ClusterIds : projection'[d].token <= spawned'
    <2> HIDE DEF ClusterInv
    <2> QED  BY <1>1, <1>5, ClusterNumbers DEF Changes
  <1>7. \A d \in ClusterIds : Names(d)' \subseteq Names(d) \union (IF d = c THEN {spawned'} \ (1 .. spawned) ELSE {})
    BY <1>5 DEF Changes
  <1>8. \A d \in ClusterIds : Names(d)' \subseteq 1 .. spawned'
    BY <1>7 DEF Changes
  <1>9. \A d, e \in ClusterIds : d # e => Names(d)' \intersect Names(e)' = {}
    <2> HIDE DEF Names, RetiredIsRetired
    <2> QED  BY <1>7
  <1> QED  BY <1>3, <1>6, <1>7, <1>8, <1>9

\* A retired record stays retired wherever it reaches.
LEMMA ChangesRetired ==
    ASSUME ClusterInv, NEW c \in ClusterIds, Changes(c), gone' = gone,
           \A d \in ClusterIds : records'[d].token \in gone => records'[d].status = "retired"
    PROVE  RetiredIsRetired'
  <1>1. \A d \in ClusterIds : View(records')[d].token = records'[d].token
                              /\ (records'[d].status = "retired" => View(records')[d].status = "retired")
    OBVIOUS
  <1> QED  BY <1>1 DEF Changes

\* A call that was not told of a lease keeps all the leases that stand.
LEMMA ChangesKeep ==
    ASSUME ClusterInv, NEW c \in ClusterIds, Changes(c), leaving \subseteq leaving',
           \A d \in ClusterIds :
              \/ records'[d] = records[d]
              \/ Standing(leases[d])' => Keeps(records'[d], leases'[d]),
           \A d \in ClusterIds :
              \/ leases'[d] = leases[d]
              \/ leases'[d].token = records'[d].token /\ Keeps(records'[d], leases'[d]) /\ registry' = records'
    PROVE  \A d \in ClusterIds :
              /\ leases'[d].token <= records'[d].token /\ leases'[d].token <= registry'[d].token
              /\ Standing(leases[d])' => Keeps(records'[d], leases'[d]) /\ Keeps(registry'[d], leases'[d])
  <1> TAKE d \in ClusterIds
  <1>1. records'[d].token \in Nat /\ records[d].token \in Nat /\ registry[d].token \in Nat /\ leases[d].token \in Nat
        /\ registry[d].beat \in Int /\ records'[d].beat \in Int /\ leases[d].beat \in Int
    BY ClusterNumbers DEF Changes
  <1>2. records'[d].token >= records[d].token
    <2> HIDE DEF ClusterInv
    <2> QED  BY ClusterNumbers DEF Changes
  <1>3. CASE leases'[d] = leases[d]
    <2>1. Standing(leases[d])' => Standing(leases[d])
      BY <1>3 DEF Changes
    <2>2. leases[d].token <= records[d].token /\ leases[d].token <= registry[d].token
          /\ (Standing(leases[d]) => Keeps(records[d], leases[d]) /\ Keeps(registry[d], leases[d]))
      OBVIOUS
    <2>3. registry'[d] = registry[d] \/ registry'[d] = records'[d]
      BY DEF Changes
    <2> HIDE DEF ClusterInv, Standing, Keeps
    <2> QED  BY <1>1, <1>2, <1>3, <2>1, <2>2, <2>3
  <1>4. CASE leases'[d].token = records'[d].token /\ Keeps(records'[d], leases'[d]) /\ registry' = records'
    BY <1>1, <1>4
  <1> QED  BY <1>3, <1>4

\* A call leaves the inductive invariant when it leaves these parts of it.
LEMMA ChangesInv ==
    ASSUME ClusterInv, NEW c \in ClusterIds, Changes(c),
           leases' \in [ClusterIds -> [token : 0 .. spawned', beat : 0 .. leaseClock']],
           leaving' \union gone' \subseteq 1 .. spawned',
           \A d \in ClusterIds :
              /\ leases'[d].token <= records'[d].token /\ leases'[d].token <= registry'[d].token
              /\ Standing(leases[d])' => Keeps(records'[d], leases'[d]) /\ Keeps(registry'[d], leases'[d]),
           RetiredIsRetired'
    PROVE  ClusterInv'
  <1>1. ClustersTypeOK'
    <2>1. /\ leaseClock' \in 0 .. ClockEnd /\ spawned' \in 0 .. MaxSpawned
          /\ records' \in [ClusterIds -> ClusterRecords] /\ registry' \in [ClusterIds -> ClusterRecords]
          /\ \A d \in ClusterIds : records'[d].beat <= leaseClock'
      BY ClusterNumbers DEF Changes
    <2> HIDE DEF ClusterInv, ClusterRecords, Names
    <2> QED  BY <2>1, ChangesNames DEF Projected
  <1>2. \A d \in ClusterIds : registry'[d].beat <= leaseClock'
    BY DEF Changes
  <1> HIDE DEF Standing, Keeps, Names, RetiredIsRetired, ClustersTypeOK
  <1> QED  BY <1>1, <1>2, ChangesNames

LEMMA StepRegisterCluster ==
    ASSUME ClusterInv, NEW c \in ClusterIds, NEW outcome \in Writes, RegisterCluster(c, outcome)
    PROVE  ClusterInv' /\ leases'[c].token >= leases[c].token
  <1> DEFINE fresh == [status |-> "active", token |-> spawned + 1, beat |-> leaseClock]
  <1>1. /\ records' = [records EXCEPT ![c] = fresh]
        /\ spawned' = spawned + 1 /\ spawned < MaxSpawned /\ records[c].status # "active"
        /\ UNCHANGED <<leaseClock, leaving, gone>>
    BY DEF RegisterCluster, NewCluster
  <1>2. fresh \in ClusterRecords
    BY <1>1
  <1>3. records' \in [ClusterIds -> ClusterRecords]
    BY <1>1, <1>2
  <1>4. /\ registry' = registry \/ registry' = records'
        /\ projection' = projection \/ projection' = View(records')
        /\ \/ leases' = leases
           \/ leases' = [leases EXCEPT ![c] = [token |-> spawned + 1, beat |-> leaseClock]] /\ registry' = records'
    BY <1>1 DEF RegisterCluster, Persist, Tells, Writes
  <1>5. Changes(c)
    BY <1>1, <1>3, <1>4 DEF Changes
  <1>6. \A d \in ClusterIds : records'[d].token \in gone => records'[d].status = "retired"
    BY <1>1
  <1>7. ~Standing(leases[c]) /\ Keeps(fresh, [token |-> spawned + 1, beat |-> leaseClock])
    BY <1>1
  <1>8. /\ leases' \in [ClusterIds -> [token : 0 .. spawned', beat : 0 .. leaseClock']]
        /\ leases'[c].token >= leases[c].token
    <2>1. leases \in [ClusterIds -> [token : 0 .. spawned, beat : 0 .. leaseClock]] /\ leases[c].token <= records[c].token
      OBVIOUS
    <2>2. spawned' \in Nat /\ spawned <= spawned' /\ leaseClock' = leaseClock
      BY <1>1, ClusterNumbers
    <2>3. leases' \in [ClusterIds -> [token : 0 .. spawned', beat : 0 .. leaseClock']]
      <3> HIDE DEF ClusterInv
      <3> QED  BY <1>1, <1>4, <2>1, <2>2, ClusterNumbers
    <2>4. leases'[c].token >= leases[c].token
      <3> HIDE DEF ClusterInv
      <3> QED  BY <1>1, <1>4, <2>1, ClusterNumbers
    <2> QED  BY <2>3, <2>4
  <1>9. \A d \in ClusterIds :
           \/ records'[d] = records[d]
           \/ Standing(leases[d])' => Keeps(records'[d], leases'[d])
    <2>1. CASE leases' = leases
      BY <1>1, <1>7, <2>1
    <2>2. CASE leases' # leases
      BY <1>1, <1>4, <2>2
    <2> QED  BY <2>1, <2>2
  <1>10. \A d \in ClusterIds :
              \/ leases'[d] = leases[d]
              \/ leases'[d].token = records'[d].token /\ Keeps(records'[d], leases'[d]) /\ registry' = records'
    BY <1>1, <1>4
  <1>11. \A d \in ClusterIds :
              /\ leases'[d].token <= records'[d].token /\ leases'[d].token <= registry'[d].token
              /\ Standing(leases[d])' => Keeps(records'[d], leases'[d]) /\ Keeps(registry'[d], leases'[d])
    BY <1>1, <1>5, <1>9, <1>10, ChangesKeep
  <1>12. RetiredIsRetired'
    BY <1>1, <1>5, <1>6, ChangesRetired
  <1>13. leaving' \union gone' \subseteq 1 .. spawned'
    BY <1>1
  <1> HIDE DEF ClusterInv, Standing, Keeps, RetiredIsRetired, fresh
  <1> QED  BY <1>5, <1>8, <1>11, <1>12, <1>13, ChangesInv

LEMMA StepHeartbeat ==
    ASSUME ClusterInv, NEW c \in ClusterIds, NEW t \in 1 .. spawned, NEW outcome \in Writes, Heartbeat(c, t, outcome)
    PROVE  ClusterInv' /\ leases'[c].token >= leases[c].token
  <1> DEFINE renewed == [status |-> "active", token |-> t, beat |-> leaseClock]
  <1>1. /\ records[c].token = t /\ records[c].status \in {"active", "orphaned"}
        /\ UNCHANGED <<leaseClock, spawned, leaving, gone>>
    BY DEF Heartbeat, Accepts
  <1>2. records' = [records EXCEPT ![c] = renewed]
    <2>1. records' = [records EXCEPT ![c] = [@ EXCEPT !.status = "active", !.beat = leaseClock]]
      BY DEF Heartbeat
    <2>2. records[c] \in [status : {"active", "orphaned"}, token : SpawnTokens, beat : Nat]
      BY <1>1
    <2>3. [records[c] EXCEPT !.status = "active", !.beat = leaseClock] = renewed
      <3>1. \A r \in [status : {"active", "orphaned"}, token : SpawnTokens, beat : Nat] :
               [r EXCEPT !.status = "active", !.beat = leaseClock]
                 = [status |-> "active", token |-> r.token, beat |-> leaseClock]
        <4> HIDE DEF ClusterInv, SpawnTokens
        <4> TAKE r \in [status : {"active", "orphaned"}, token : SpawnTokens, beat : Nat]
        <4>1. [r EXCEPT !.status = "active"] = [status |-> "active", token |-> r.token, beat |-> r.beat]
          OBVIOUS
        <4>2. [[status |-> "active", token |-> r.token, beat |-> r.beat] EXCEPT !.beat = leaseClock]
                 = [status |-> "active", token |-> r.token, beat |-> leaseClock]
          OBVIOUS
        <4>3. [r EXCEPT !.status = "active", !.beat = leaseClock]
                 = [[r EXCEPT !.status = "active"] EXCEPT !.beat = leaseClock]
          OBVIOUS
        <4> QED  BY <4>1, <4>2, <4>3
      <3> QED  BY <1>1, <2>2, <3>1
    <2> QED  BY <2>1, <2>3
  <1>3. records' \in [ClusterIds -> ClusterRecords]
    <2>1. renewed \in ClusterRecords
      OBVIOUS
    <2> QED  BY <1>2, <2>1
  <1>4. /\ registry' = registry \/ registry' = records'
        /\ projection' = projection \/ projection' = View(records')
        /\ \/ leases' = leases
           \/ leases' = [leases EXCEPT ![c] = [token |-> t, beat |-> leaseClock]] /\ registry' = records'
    BY DEF Heartbeat, Persist, Tells, Writes
  <1>5. Changes(c)
    BY <1>1, <1>2, <1>3, <1>4 DEF Changes
  <1>6. \A d \in ClusterIds : records'[d].token \in gone => records'[d].status = "retired"
    BY <1>1, <1>2
  <1>7. /\ leases' \in [ClusterIds -> [token : 0 .. spawned', beat : 0 .. leaseClock']]
        /\ leases'[c].token >= leases[c].token
    <2>1. leases \in [ClusterIds -> [token : 0 .. spawned, beat : 0 .. leaseClock]] /\ leases[c].token <= records[c].token
      OBVIOUS
    <2>2. spawned' \in Nat /\ spawned <= spawned' /\ leaseClock' = leaseClock
      BY <1>1, ClusterNumbers
    <2>3. leases' \in [ClusterIds -> [token : 0 .. spawned', beat : 0 .. leaseClock']]
      <3> HIDE DEF ClusterInv
      <3> QED  BY <1>1, <1>4, <2>1, <2>2, ClusterNumbers
    <2>4. leases'[c].token >= leases[c].token
      <3> HIDE DEF ClusterInv
      <3> QED  BY <1>1, <1>4, <2>1, ClusterNumbers
    <2> QED  BY <2>3, <2>4
  <1>8. \A d \in ClusterIds :
           \/ records'[d] = records[d]
           \/ Standing(leases[d])' => Keeps(records'[d], leases'[d])
    <2>1. CASE leases' = leases
      <3>1. Standing(leases[c])' => Keeps(records[c], leases[c])
        BY <1>1, <2>1
      <3> QED  BY <1>1, <1>2, <2>1, <3>1
    <2>2. CASE leases' # leases
      BY <1>1, <1>2, <1>4, <2>2
    <2> QED  BY <2>1, <2>2
  <1>9. \A d \in ClusterIds :
              \/ leases'[d] = leases[d]
              \/ leases'[d].token = records'[d].token /\ Keeps(records'[d], leases'[d]) /\ registry' = records'
    BY <1>2, <1>4
  <1>10. \A d \in ClusterIds :
              /\ leases'[d].token <= records'[d].token /\ leases'[d].token <= registry'[d].token
              /\ Standing(leases[d])' => Keeps(records'[d], leases'[d]) /\ Keeps(registry'[d], leases'[d])
    BY <1>1, <1>5, <1>8, <1>9, ChangesKeep
  <1>11. RetiredIsRetired'
    BY <1>1, <1>5, <1>6, ChangesRetired
  <1>12. leaving' \union gone' \subseteq 1 .. spawned'
    BY <1>1
  <1> HIDE DEF ClusterInv, Standing, Keeps, RetiredIsRetired, renewed
  <1> QED  BY <1>5, <1>7, <1>10, <1>11, <1>12, ChangesInv

LEMMA StepRetire ==
    ASSUME ClusterInv, NEW c \in ClusterIds, NEW t \in 1 .. spawned, NEW outcome \in Writes, Retire(c, t, outcome)
    PROVE  ClusterInv' /\ leases' = leases
  <1>1. /\ records[c].token = t /\ records' = [records EXCEPT ![c].status = "retired"]
        /\ leaving' = leaving \union {t} /\ UNCHANGED <<leaseClock, spawned, leases>>
    BY DEF Retire
  <1>2. /\ records' \in [ClusterIds -> ClusterRecords]
        /\ records'[c].status = "retired" /\ records'[c].token = t /\ records'[c].beat = records[c].beat
        /\ \A d \in ClusterIds \ {c} : records'[d] = records[d]
    BY <1>1
  <1>3. /\ registry' = registry \/ registry' = records'
        /\ projection' = projection \/ projection' = View(records')
        /\ gone' = gone \/ (gone' = gone \union {t} /\ registry' = records' /\ projection' = View(records'))
    BY DEF Retire, Persist, Writes
  <1>4. Changes(c)
    BY <1>1, <1>2, <1>3 DEF Changes
  <1>5. ~Standing(leases[c])'
    BY <1>1, <1>2
  <1>6. \A d \in ClusterIds :
              /\ leases'[d].token <= records'[d].token /\ leases'[d].token <= registry'[d].token
              /\ Standing(leases[d])' => Keeps(records'[d], leases'[d]) /\ Keeps(registry'[d], leases'[d])
    BY <1>1, <1>2, <1>4, <1>5, ChangesKeep
  <1>7. RetiredIsRetired'
    <2>1. CASE gone' = gone
      <3>1. \A d \in ClusterIds : records'[d].token \in gone => records'[d].status = "retired"
        BY <1>2
      <3> HIDE DEF ClusterInv, RetiredIsRetired
      <3> QED  BY <1>4, <2>1, <3>1, ChangesRetired
    <2>2. CASE gone' = gone \union {t} /\ registry' = records' /\ projection' = View(records')
      <3>1. \A d \in ClusterIds : View(records')[d].token = records'[d].token
                              /\ (records'[d].status = "retired" => View(records')[d].status = "retired")
        OBVIOUS
      <3>2. t \in Names(c) /\ t # 0
        BY <1>1
      <3>3. \A d \in ClusterIds \ {c} : records[d].token # t
        BY <1>1, <3>2
      <3>4. \A d \in ClusterIds : records[d].token \in gone => records[d].status = "retired"
        OBVIOUS
      <3>5. \A d \in ClusterIds : records'[d].token \in gone' => records'[d].status = "retired"
        <4> TAKE d \in ClusterIds
        <4>1. CASE d = c
          BY <1>2, <4>1
        <4>2. CASE d # c
          <5> HIDE DEF ClusterInv
          <5> QED  BY <1>2, <2>2, <3>3, <3>4, <4>2
        <4> QED  BY <4>1, <4>2
      <3> HIDE DEF ClusterInv, View
      <3> QED  BY <2>2, <3>1, <3>5
    <2> QED  BY <1>3, <2>1, <2>2
  <1>8. leaving' \union gone' \subseteq 1 .. spawned'
    BY <1>1, <1>3
  <1>9. leases' \in [ClusterIds -> [token : 0 .. spawned', beat : 0 .. leaseClock']]
    BY <1>1
  <1> HIDE DEF ClusterInv, Standing, Keeps, RetiredIsRetired
  <1> QED  BY <1>1, <1>4, <1>6, <1>7, <1>8, <1>9, ChangesInv

LEMMA StepReap == ASSUME ClusterInv, NEW outcome \in Writes, Reap(outcome) PROVE ClusterInv' /\ leases' = leases
  <1>1. PICK c \in ClusterIds : records[c].status = "active"
    BY DEF Reap
  <1>2. /\ records' = [d \in ClusterIds |-> [records[d] EXCEPT !.status = Effective(records[d])]]
        /\ UNCHANGED <<leaseClock, spawned, leases, leaving, gone>>
    BY DEF Reap
  <1>3. \A d \in ClusterIds :
            /\ records'[d] \in ClusterRecords
            /\ records'[d].token = records[d].token /\ records'[d].beat = records[d].beat
            /\ records'[d].status = Effective(records[d])
    <2> TAKE d \in ClusterIds
    <2>1. records'[d] = [records[d] EXCEPT !.status = Effective(records[d])]
      BY <1>2
    <2>2. CASE records[d] = NoCluster
      BY <2>1, <2>2
    <2>3. CASE records[d] # NoCluster
      BY <2>1, <2>3
    <2> QED  BY <2>2, <2>3
  <1>4. /\ registry' = registry \/ registry' = records'
        /\ projection' = projection \/ projection' = View(records')
    BY DEF Reap, Persist, Writes
  <1>5. records' \in [ClusterIds -> ClusterRecords]
    <2> HIDE DEF ClusterInv, ClusterRecords, Effective
    <2> QED  BY <1>2, <1>3
  <1>6. Changes(c)
    <2> HIDE DEF ClusterInv, ClusterRecords
    <2> QED  BY <1>2, <1>3, <1>4, <1>5, ClusterNumbers DEF Changes
  <1>7. \A d \in ClusterIds : Standing(leases[d])' => Keeps(records'[d], leases'[d])
    <2>1. \A d \in ClusterIds : Standing(leases[d]) => Keeps(records[d], leases[d])
      OBVIOUS
    <2> HIDE DEF ClusterInv
    <2> QED  BY <1>2, <1>3, <2>1, ClusterNumbers
  <1>8. \A d \in ClusterIds :
              /\ leases'[d].token <= records'[d].token /\ leases'[d].token <= registry'[d].token
              /\ Standing(leases[d])' => Keeps(records'[d], leases'[d]) /\ Keeps(registry'[d], leases'[d])
    BY <1>2, <1>6, <1>7, ChangesKeep
  <1>9. RetiredIsRetired'
    <2>1. \A d \in ClusterIds : records[d].token \in gone => records[d].status = "retired"
      OBVIOUS
    <2>2. \A d \in ClusterIds : records'[d].token \in gone => records'[d].status = "retired"
      <3> HIDE DEF ClusterInv
      <3> QED  BY <1>3, <2>1
    <2> HIDE DEF ClusterInv, RetiredIsRetired
    <2> QED  BY <1>2, <1>6, <2>2, ChangesRetired
  <1>10. leaving' \union gone' \subseteq 1 .. spawned'
    BY <1>2
  <1>11. leases' \in [ClusterIds -> [token : 0 .. spawned', beat : 0 .. leaseClock']]
    BY <1>2
  <1> HIDE DEF ClusterInv, Standing, Keeps, RetiredIsRetired
  <1> QED  BY <1>2, <1>6, <1>8, <1>9, <1>10, <1>11, ChangesInv

LEMMA StepRegistryRestarts == ASSUME ClusterInv, RegistryRestarts PROVE ClusterInv' /\ leases' = leases
  BY DEF RegistryRestarts

LEMMA StepClockTicks == ASSUME ClusterInv, ClockTicks PROVE ClusterInv' /\ leases' = leases
  <1>1. /\ leaseClock' = leaseClock + 1 /\ leaseClock < ClockEnd
        /\ UNCHANGED <<records, registry, projection, spawned, leases, leaving, gone>>
    BY DEF ClockTicks
  <1>2. \A d \in ClusterIds : Standing(leases[d])' => Standing(leases[d])
    BY <1>1, ClusterNumbers
  <1>3. ClustersTypeOK' /\ (\A d \in ClusterIds : registry'[d].beat <= leaseClock')
    <2>1. \A d \in ClusterIds : records[d].beat <= leaseClock + 1 /\ registry[d].beat <= leaseClock + 1
      <3> HIDE DEF ClusterInv
      <3> QED  BY ClusterNumbers
    <2>2. leaseClock + 1 \in 0 .. ClockEnd
      BY <1>1, ClusterNumbers
    <2>3. ClustersTypeOK
      OBVIOUS
    <2> HIDE DEF ClusterInv, ClusterRecords
    <2> QED  BY <1>1, <2>1, <2>2, <2>3
  <1>4. leases' \in [ClusterIds -> [token : 0 .. spawned', beat : 0 .. leaseClock']]
    BY <1>1, ClusterNumbers
  <1> HIDE DEF ClustersTypeOK, Standing
  <1> QED  BY <1>1, <1>2, <1>3, <1>4

LEMMA StepClustersStutters == ASSUME ClusterInv, UNCHANGED clusterVars PROVE ClusterInv' /\ leases' = leases
  BY DEF clusterVars

HIDE ClustersAssumption DEF ClusterInv, ClustersTypeOK, Standing, Keeps, Names, Projected, RetiredIsRetired,
     ClusterRecords, NoCluster, SpawnTokens, View, Effective, LeaseLapsed
LEMMA ClustersStep ==
    ASSUME ClusterInv, [ClustersNext]_clusterVars
    PROVE  ClusterInv' /\ \A c \in ClusterIds : leases'[c].token >= leases[c].token
  <1> USE DEF ClusterInv
  <1>1. \A c \in ClusterIds : leases[c].token \in Nat
    OBVIOUS
  <1>2. ASSUME leases' = leases PROVE \A c \in ClusterIds : leases'[c].token >= leases[c].token
    BY <1>1, <1>2
  <1>3. ASSUME NEW c \in ClusterIds, NEW outcome \in Writes, RegisterCluster(c, outcome)
        PROVE  \A d \in ClusterIds : leases'[d].token >= leases[d].token
    <2>1. \A d \in ClusterIds \ {c} : leases'[d] = leases[d]
      BY <1>3 DEF RegisterCluster, Tells
    <2> QED  BY <1>1, <1>3, <2>1, StepRegisterCluster
  <1>4. ASSUME NEW c \in ClusterIds, NEW t \in 1 .. spawned, NEW outcome \in Writes, Heartbeat(c, t, outcome)
        PROVE  \A d \in ClusterIds : leases'[d].token >= leases[d].token
    <2>1. \A d \in ClusterIds \ {c} : leases'[d] = leases[d]
      BY <1>4 DEF Heartbeat, Tells
    <2> QED  BY <1>1, <1>4, <2>1, StepHeartbeat
  <1> HIDE DEF ClusterInv
  <1> QED  BY <1>2, <1>3, <1>4, StepRegisterCluster, StepHeartbeat, StepRetire, StepReap, StepRegistryRestarts,
              StepClockTicks, StepClustersStutters DEF ClustersNext

\* The inductive invariant.
THEOREM ClusterInvariant == ClustersSpec => []ClusterInv
  <1>1. ClustersInit => ClusterInv
    BY ClusterInvInit
  <1>2. ClusterInv /\ [ClustersNext]_clusterVars => ClusterInv'
    BY ClustersStep
  <1> QED  BY <1>1, <1>2, PTL DEF ClustersSpec

\* The registry, its records and both files keep their types.
THEOREM ClustersTypes == ClustersSpec => []ClustersTypeOK
  <1>1. ClusterInv => ClustersTypeOK
    BY DEF ClusterInv
  <1> QED  BY <1>1, ClusterInvariant, PTL

\* A lease stands until its end unless its cluster asked to retire, what was told
\* to be retired stays so in memory and in both files, and no cluster is told of
\* an earlier registration again, for any number of clusters and any failed
\* write, unanswered call or restart (clusters.py).
THEOREM LeasesAreAlwaysKept == ClustersSpec => LeasesAreKept
  <1>1. ClusterInv => LeaseHolds /\ RetiredIsRetired
    <2> SUFFICES ASSUME ClusterInv, NEW c \in ClusterIds, Standing(leases[c])
                 PROVE  records[c].token = leases[c].token /\ Effective(records[c]) = "active"
      BY DEF LeaseHolds, ClusterInv, Standing
    <2>1. Keeps(records[c], leases[c])
      BY DEF ClusterInv
    <2> QED  BY <2>1, ClusterNumbers, ClustersAssumption DEF Keeps, Standing, Effective, LeaseLapsed
  <1>2. ClusterInv /\ [ClustersNext]_clusterVars => [\A c \in ClusterIds : leases'[c].token >= leases[c].token]_clusterVars
    BY ClustersStep
  <1> QED  BY <1>1, <1>2, ClusterInvariant, PTL DEF ClustersSpec, LeasesAreKept, LeaseMovesForward

(***************************************************************************)
(* Theorems about CapabilityCards, for every set of requests, any number   *)
(* of concurrent answers and agents' polls, every lifetime and both        *)
(* stores.                                                                 *)
(***************************************************************************)
USE DEF PutCard, CardTaken, PutResult, LiveResults, NewCard

(***************************************************************************)
(* Types.                                                                  *)
(***************************************************************************)
\* The card of a request lives no longer than its own step gave it.
InTime(r) ==
    queue[r] # NoCard =>
        /\ r \in asked
        /\ queue[r].until <= clock + QueueTTL
        /\ queue[r].exp <= clock + (IF queue[r].stamped THEN GrantTTL ELSE ClaimsTTL)

\* What a poll has listed was asked for and lives no longer than that either.
ListedInTime(p, r) ==
    polls[p].cards[r] # NoCard =>
        /\ r \in asked
        /\ polls[p].cards[r].until <= clock + QueueTTL
        /\ polls[p].cards[r].exp <= clock + (IF polls[p].cards[r].stamped THEN GrantTTL ELSE ClaimsTTL)

CardsInv ==
    /\ CardsTypeOK
    /\ \A p \in Polls, r \in Requests : ListedInTime(p, r)
    /\ \A f \in Fetches : fetches[f] # Idle => fetches[f].req \in asked

LEMMA Lifetimes ==
    /\ QueueTTL \in Nat /\ ClaimsTTL \in Nat /\ GrantTTL \in Nat /\ ResultTTL \in Nat
    /\ NoCard \in Cards /\ NoResult \in Results
    /\ \A t \in 0..MaxTime : t \in Nat
  BY CardsAssumption DEF NoCard, Cards, NoResult, Results, Status

LEMMA PurgedIs ==
    ASSUME CardsTypeOK
    PROVE  /\ Purged \in [Requests -> Cards]
           /\ \A r \in Requests : Purged[r] = queue[r] \/ Purged[r] = NoCard
  BY Lifetimes DEF CardsTypeOK, Purged

\* Stamping a card changes its window alone.
LEMMA StampedCard ==
    ASSUME NEW c \in Cards, NEW exp \in Nat
    PROVE  LET d == [c EXCEPT !.exp = exp, !.stamped = TRUE] IN
           d \in Cards /\ d.until = c.until /\ d.exp = exp /\ d.stamped
  BY DEF Cards

LEMMA CardsInvStep == CardsInv /\ [CardsNext]_cardVars => CardsInv'
  <1> SUFFICES ASSUME CardsInv, [CardsNext]_cardVars PROVE CardsInv'
    OBVIOUS
  <1> USE Lifetimes DEF CardsInv, CardsTypeOK, ListedInTime, threads, history
  <1>1. CASE UNCHANGED cardVars
    BY <1>1 DEF cardVars
  <1>2. ASSUME NEW r \in Requests, Request(r) PROVE CardsInv'
    <2> DEFINE card == [exp |-> clock + ClaimsTTL, stamped |-> FALSE, until |-> clock + QueueTTL]
    <2>1. card \in Cards /\ card.until <= clock + QueueTTL /\ card.exp <= clock + ClaimsTTL /\ ~card.stamped
      BY DEF Cards
    <2>2. queue' = [queue EXCEPT ![r] = card] /\ asked' = asked \union {r}
      BY <1>2 DEF Request
    <2>3. shown' \subseteq [req : asked', exp : Nat]
      BY <1>2, <2>2 DEF Request
    <2> QED  BY <1>2, <2>1, <2>2, <2>3 DEF Request
  <1>3. ASSUME NEW p \in Polls, PollLists(p) PROVE CardsInv'
    BY <1>3, PurgedIs DEF PollLists
  <1>4. ASSUME NEW p \in Polls, NEW r \in Requests, PollStamps(p, r) PROVE CardsInv'
    <2> DEFINE card == [polls[p].cards[r] EXCEPT !.exp = clock + GrantTTL, !.stamped = TRUE]
    <2>1. polls[p].cards[r] # NoCard /\ polls[p].cards[r] \in Cards
      BY <1>4 DEF PollStamps, Unstamped
    <2>2. card \in Cards /\ card.until <= clock + QueueTTL /\ card.exp <= clock + GrantTTL /\ card.stamped
      <3>1. polls[p].cards[r].until <= clock + QueueTTL /\ clock + GrantTTL \in Nat
        BY <2>1
      <3>2. /\ card \in Cards /\ card.until = polls[p].cards[r].until
            /\ card.exp = clock + GrantTTL /\ card.stamped
        BY ONLY <2>1, <3>1, StampedCard, Zenon
      <3> HIDE DEF card
      <3> QED  BY <3>1, <3>2
    <2>3. queue' = [queue EXCEPT ![r] = card] /\ polls' = [polls EXCEPT ![p].cards[r] = card] /\ r \in asked
      BY <1>4, <2>1 DEF PollStamps
    <2>4. queue' \in [Requests -> Cards]
      BY <2>2, <2>3
    <2>5. polls' \in [Polls -> [busy : BOOLEAN, cards : [Requests -> Cards]]]
      BY <2>2, <2>3
    <2>6. \A q \in Polls, x \in Requests :
              polls'[q].cards[x] = IF q = p /\ x = r THEN card ELSE polls[q].cards[x]
      BY <2>3
    <2>7. \A q \in Polls, x \in Requests : ListedInTime(q, x)'
      BY <1>4, <2>2, <2>3, <2>6 DEF PollStamps
    <2>8. UNCHANGED <<clock, asked, results, shown, answers, fetches, history>>
      BY <1>4 DEF PollStamps
    <2> HIDE DEF card
    <2>9. \A x \in Requests : queue'[x] # NoCard =>
              /\ x \in asked'
              /\ queue'[x].until <= clock' + QueueTTL
              /\ queue'[x].exp <= clock' + (IF queue'[x].stamped THEN GrantTTL ELSE ClaimsTTL)
      BY <2>2, <2>3, <2>8
    <2> QED  BY <2>4, <2>5, <2>7, <2>8, <2>9 DEF history
  <1>5. ASSUME NEW p \in Polls, PollServes(p) PROVE CardsInv'
    BY <1>5, SMTT(30) DEF PollServes, IdlePoll, Cards
  <1>6. ASSUME NEW p \in Polls, PollFails(p) PROVE CardsInv'
    BY <1>6 DEF PollFails, IdlePoll
  <1>7. ASSUME NEW a \in Answers, NEW r \in Requests, NEW says \in Said, AnswerReads(a, r, says) PROVE CardsInv'
    BY <1>7 DEF AnswerReads, Peeked, Reading, Cards
  <1>8. ASSUME NEW a \in Answers, AnswerTakes(a) PROVE CardsInv'
    <2>1. answers[a] \in Reading
      BY <1>8 DEF AnswerTakes, Idle
    <2>2. [answers[a] EXCEPT !.pc = "taken"] \in Reading
      BY <2>1 DEF Reading
    <2>3. \/ answers' = [answers EXCEPT ![a] = Idle]
          \/ answers' = [answers EXCEPT ![a] = [answers[a] EXCEPT !.pc = "taken"]]
      BY <1>8 DEF AnswerTakes
    <2>4. answers' \in [Answers -> Reading \union {Idle}]
      BY <2>2, <2>3
    <2> QED  BY <1>8, <2>4 DEF AnswerTakes
  <1>9. ASSUME NEW a \in Answers, AnswerStores(a) PROVE CardsInv'
    BY <1>9 DEF AnswerStores, Stored, Verdict, Reading, Results, Status, Idle
  <1>10. ASSUME NEW a \in Answers, AnswerStops(a) PROVE CardsInv'
    BY <1>10 DEF AnswerStops, Reading, Idle
  <1>11. ASSUME NEW f \in Fetches, NEW r \in Requests, FetchLooks(f, r) PROVE CardsInv'
    BY <1>11 DEF FetchLooks, Fetching, NoResult
  <1>12. ASSUME NEW f \in Fetches, FetchTakes(f) PROVE CardsInv'
    BY <1>12 DEF FetchTakes, Taken, Fetching, NoResult, Idle
  <1>13. ASSUME NEW f \in Fetches, FetchSweeps(f) PROVE CardsInv'
    BY <1>13, PurgedIs DEF FetchSweeps, Fetching, Idle
  <1>14. CASE Restart
    BY <1>14 DEF Restart, IdlePoll, NoResult
  <1>15. CASE Tick
    <2>1. clock \in Nat /\ clock' = clock + 1 /\ clock' \in 0..MaxTime
      BY <1>15, CardsAssumption DEF Tick
    <2>2. \A c \in Cards : c.until \in Nat /\ c.exp \in Nat
      BY DEF Cards
    <2>3. \A c \in Cards, ttl \in Nat :
              /\ c.until <= clock + ttl => c.until <= clock' + ttl
              /\ c.exp <= clock + ttl => c.exp <= clock' + ttl
      BY <2>1, <2>2
    <2>4. \A r \in Requests : results'[r].until <= clock' + ResultTTL
      BY <1>15, <2>1 DEF Tick, Results
    <2>5. \A r \in Requests : queue'[r] # NoCard =>
              /\ r \in asked'
              /\ queue'[r].until <= clock' + QueueTTL
              /\ queue'[r].exp <= clock' + (IF queue'[r].stamped THEN GrantTTL ELSE ClaimsTTL)
      BY <1>15, <2>3 DEF Tick
    <2>6. \A p \in Polls, r \in Requests : ListedInTime(p, r)'
      BY <1>15, <2>3 DEF Tick
    <2> QED  BY <1>15, <2>1, <2>4, <2>5, <2>6 DEF Tick
  <1>16. ASSUME NEW r \in Requests, AnswerFindsNone(r) PROVE CardsInv'
    BY <1>16 DEF AnswerFindsNone
  <1> QED
    BY <1>1, <1>2, <1>3, <1>4, <1>5, <1>6, <1>7, <1>8, <1>9, <1>10, <1>11, <1>12, <1>13, <1>14, <1>15, <1>16
    DEF CardsNext, PollSteps, AnswerSteps, FetchSteps

\* The inductive invariant behind the types: what a poll has listed, and may put back, is in time too.
THEOREM CardsInvariant == CardsSpec => []CardsInv
  <1>1. CardsInit => CardsInv
    BY Lifetimes, CardsAssumption DEF CardsInit, CardsInv, CardsTypeOK, ListedInTime, IdlePoll, NoResult
  <1> QED  BY <1>1, CardsInvStep, PTL DEF CardsSpec

\* Every variable keeps its type, and no card, window or result outlasts what its own step gave it.
THEOREM CardsTypes == CardsSpec => []CardsTypeOK
  <1>1. CardsInv => CardsTypeOK
    BY DEF CardsInv
  <1> QED  BY <1>1, CardsInvariant, PTL

(***************************************************************************)
(* What the phone was shown.                                               *)
(***************************************************************************)
Shown(r) == \E b \in shown : b.req = r

\* A grant card that has no window yet, on the queue or in a poll's list, was
\* never shown, and a card that has one is the same wherever it is.
WindowInv ==
    /\ \A p \in Polls : \A r \in Unstamped(p) : ~Shown(r)
    /\ \A r \in Grants : queue[r] # NoCard /\ ~queue[r].stamped => ~Shown(r)
    /\ \A p \in Polls : \A r \in Requests :
           polls[p].cards[r] # NoCard /\ r \notin Unstamped(p) /\ queue[r] # NoCard =>
               queue[r].exp = polls[p].cards[r].exp /\ (r \in Grants => queue[r].stamped)
    /\ ShownIsQueued

\* The take of a card is the right to answer it: who has it is alone, and the
\* card stays off the queue.
AnswerInv ==
    /\ \A a \in Answers : answers[a] # Idle => Shown(answers[a].req)
    /\ \A a \in Answers : answers[a].pc = "taken" =>
           /\ queue[answers[a].req] = NoCard
           /\ answered[answers[a].req] = 0
           /\ \A b \in Answers : answers[b].pc = "taken" /\ answers[b].req = answers[a].req => b = a
    /\ \A r \in Requests : answered[r] # 0 => answered[r] = 1 /\ queue[r] = NoCard /\ Shown(r)

\* No grant cards, or no two polls at once.
PollsApart == Grants = {} \/ \A p, q \in Polls : p = q

\* A step that puts no card on the queue, lists none and shows none.
Quiet ==
    /\ UNCHANGED <<asked, shown>>
    /\ \A r \in Requests : queue'[r] = queue[r] \/ queue'[r] = NoCard
    /\ \A p \in Polls : polls'[p] = polls[p] \/ polls'[p] = IdlePoll

LEMMA QuietKeepsWindows ==
    ASSUME CardsInv, WindowInv, Quiet
    PROVE  WindowInv'
  <1> USE CardsAssumption DEF Quiet
  <1>1. \A r : Shown(r)' = Shown(r)
    BY DEF Shown
  <1>2. \A p \in Polls : Unstamped(p)' \subseteq Unstamped(p)
    BY DEF Unstamped, IdlePoll
  <1>3. \A p \in Polls : \A r \in Unstamped(p)' : ~Shown(r)'
    BY <1>1, <1>2 DEF WindowInv
  <1>4. \A r \in Grants : queue'[r] # NoCard /\ ~queue'[r].stamped => ~Shown(r)'
    BY <1>1 DEF WindowInv
  <1>5. ASSUME NEW p \in Polls, NEW r \in Requests,
               polls'[p].cards[r] # NoCard, r \notin Unstamped(p)', queue'[r] # NoCard
        PROVE  queue'[r].exp = polls'[p].cards[r].exp /\ (r \in Grants => queue'[r].stamped)
    <2>1. polls'[p] = polls[p] /\ queue'[r] = queue[r]
      BY <1>5 DEF IdlePoll
    <2>2. r \notin Unstamped(p)
      BY <1>5, <2>1 DEF Unstamped
    <2> QED  BY <1>5, <2>1, <2>2 DEF WindowInv
  <1>6. ShownIsQueued'
    BY DEF WindowInv, ShownIsQueued, CardsInv, CardsTypeOK
  <1> QED  BY <1>3, <1>4, <1>5, <1>6 DEF WindowInv

\* A new card was shown to nobody and is on nobody's list.
LEMMA RequestKeepsWindows ==
    ASSUME CardsInv, WindowInv, NEW r \in Requests, Request(r)
    PROVE  WindowInv'
  <1> USE CardsAssumption DEF Request, threads, history
  <1>1. ~Shown(r) /\ \A q : Shown(q)' = Shown(q)
    BY DEF CardsInv, CardsTypeOK, Shown
  <1>2. \A p \in Polls : polls[p].cards[r] = NoCard /\ polls'[p] = polls[p] /\ Unstamped(p)' = Unstamped(p)
    BY DEF CardsInv, ListedInTime, Unstamped
  <1>3. \A q \in Requests : q # r => queue'[q] = queue[q]
    BY DEF CardsInv, CardsTypeOK
  <1>4. \A p \in Polls : \A q \in Unstamped(p)' : ~Shown(q)'
    BY <1>1, <1>2 DEF WindowInv
  <1>5. \A q \in Grants : queue'[q] # NoCard /\ ~queue'[q].stamped => ~Shown(q)'
    BY <1>1, <1>3 DEF WindowInv
  <1>6. \A p \in Polls, q \in Requests :
            polls'[p].cards[q] # NoCard /\ q \notin Unstamped(p)' /\ queue'[q] # NoCard =>
                queue'[q].exp = polls'[p].cards[q].exp /\ (q \in Grants => queue'[q].stamped)
    BY <1>2, <1>3 DEF WindowInv
  <1>7. ShownIsQueued'
    BY <1>1, <1>3 DEF WindowInv, ShownIsQueued, Shown, CardsInv, CardsTypeOK
  <1> QED  BY <1>4, <1>5, <1>6, <1>7 DEF WindowInv

\* A poll lists the cards that are on the queue.
LEMMA ListingKeepsWindows ==
    ASSUME CardsInv, WindowInv, NEW p \in Polls, PollLists(p)
    PROVE  WindowInv'
  <1> USE CardsAssumption
  <1>1. \A q : Shown(q)' = Shown(q)
    BY DEF PollLists, Shown
  <1>2. \A r \in Requests : queue'[r] = queue[r] \/ queue'[r] = NoCard
    BY PurgedIs DEF CardsInv, PollLists
  <1>3. /\ polls'[p].cards = queue'
        /\ \A q \in Polls : q # p => polls'[q] = polls[q] /\ Unstamped(q)' = Unstamped(q)
    BY DEF PollLists, CardsInv, CardsTypeOK, Unstamped
  <1>4. \A r \in Grants : queue'[r] # NoCard /\ ~queue'[r].stamped => ~Shown(r)'
    BY <1>1, <1>2 DEF WindowInv
  <1>5. Unstamped(p)' = {r \in Grants : queue'[r] # NoCard /\ ~queue'[r].stamped}
    BY <1>3 DEF Unstamped
  <1>6. \A q \in Polls : \A r \in Unstamped(q)' : ~Shown(r)'
    BY <1>1, <1>3, <1>4, <1>5 DEF WindowInv
  <1>7. ASSUME NEW q \in Polls, NEW r \in Requests,
               polls'[q].cards[r] # NoCard, r \notin Unstamped(q)', queue'[r] # NoCard
        PROVE  queue'[r].exp = polls'[q].cards[r].exp /\ (r \in Grants => queue'[r].stamped)
    <2>1. CASE q = p
      BY <1>3, <1>5, <1>7, <2>1
    <2>2. CASE q # p
      BY <1>2, <1>3, <1>7, <2>2 DEF WindowInv
    <2> QED  BY <2>1, <2>2
  <1>8. ShownIsQueued'
    BY <1>2 DEF PollLists, WindowInv, ShownIsQueued, CardsInv, CardsTypeOK
  <1> QED  BY <1>4, <1>6, <1>7, <1>8 DEF WindowInv

\* A card that gets its window was shown to nobody, and no other poll has it listed.
LEMMA StampingKeepsWindows ==
    ASSUME PollsApart, CardsInv, WindowInv, NEW p \in Polls, NEW r \in Requests, PollStamps(p, r)
    PROVE  WindowInv'
  <1> DEFINE card == [polls[p].cards[r] EXCEPT !.exp = clock + GrantTTL, !.stamped = TRUE]
  <1>1. r \in Grants /\ r \in Unstamped(p) /\ ~Shown(r) /\ \A q \in Polls : q = p
    BY CardsAssumption DEF PollStamps, Unstamped, PollsApart, WindowInv
  <1>2. card.stamped
    <2>1. polls[p].cards[r] \in Cards
      BY DEF CardsInv, CardsTypeOK
    <2> QED  BY <2>1 DEF Cards
  <1>3. queue' = [queue EXCEPT ![r] = card] /\ polls' = [polls EXCEPT ![p].cards[r] = card] /\ shown' = shown
    BY DEF PollStamps
  <1> HIDE DEF card
  <1>4. /\ queue'[r] = card /\ polls'[p].cards[r] = card
        /\ \A q \in Requests : q # r => queue'[q] = queue[q] /\ polls'[p].cards[q] = polls[p].cards[q]
    BY <1>3 DEF CardsInv, CardsTypeOK
  <1>5. \A q : Shown(q)' = Shown(q)
    BY <1>3 DEF Shown
  <1>6. Unstamped(p)' = Unstamped(p) \ {r}
    BY <1>1, <1>2, <1>4, CardsAssumption DEF Unstamped
  <1>7. \A q \in Polls : \A x \in Unstamped(q)' : ~Shown(x)'
    BY <1>1, <1>5, <1>6 DEF WindowInv
  <1>8. \A q \in Grants : queue'[q] # NoCard /\ ~queue'[q].stamped => ~Shown(q)'
    BY <1>1, <1>4, <1>5, CardsAssumption DEF WindowInv
  <1>9. \A q \in Polls, x \in Requests :
            polls'[q].cards[x] # NoCard /\ x \notin Unstamped(q)' /\ queue'[x] # NoCard =>
                queue'[x].exp = polls'[q].cards[x].exp /\ (x \in Grants => queue'[x].stamped)
    BY <1>1, <1>2, <1>4, <1>6 DEF WindowInv
  <1>10. ShownIsQueued'
    BY <1>1, <1>3, <1>4 DEF WindowInv, ShownIsQueued, Shown, CardsInv, CardsTypeOK
  <1> QED  BY <1>7, <1>8, <1>9, <1>10 DEF WindowInv

\* The cards a poll serves have their window, and so have those on the queue.
LEMMA ServingKeepsWindows ==
    ASSUME PollsApart, CardsInv, WindowInv, NEW p \in Polls, PollServes(p)
    PROVE  WindowInv'
  <1>1. /\ Unstamped(p) = {}
        /\ polls' = [polls EXCEPT ![p] = IdlePoll]
        /\ \A r \in Requests : queue'[r] = queue[r] \/ queue'[r] = NoCard
    BY DEF PollServes
  <1>2. \A b \in shown' : b \in shown \/ (b.req \in Requests /\ polls[p].cards[b.req] # NoCard
                                          /\ b.exp = polls[p].cards[b.req].exp)
    BY DEF PollServes
  <1>3. /\ polls'[p] = IdlePoll /\ Unstamped(p)' = {}
        /\ \A q \in Polls : q # p => polls'[q] = polls[q] /\ Unstamped(q)' = Unstamped(q)
    BY <1>1, CardsAssumption DEF CardsInv, CardsTypeOK, Unstamped, IdlePoll
  <1>4. \A q \in Polls : \A r \in Unstamped(q)' : ~Shown(r)'
    BY <1>3 DEF PollsApart, Unstamped
  <1>5. \A r \in Grants : queue'[r] # NoCard /\ ~queue'[r].stamped => ~Shown(r)'
    BY <1>1, <1>2, CardsAssumption DEF WindowInv, Shown
  <1>6. \A q \in Polls, r \in Requests :
            polls'[q].cards[r] # NoCard /\ r \notin Unstamped(q)' /\ queue'[r] # NoCard =>
                queue'[r].exp = polls'[q].cards[r].exp /\ (r \in Grants => queue'[r].stamped)
    BY <1>1, <1>3 DEF WindowInv, IdlePoll
  <1>7. ASSUME NEW b \in shown', queue'[b.req] # NoCard
        PROVE  queue'[b.req].exp = b.exp
    <2>1. CASE b \in shown
      <3>1. b.req \in Requests
        BY <2>1 DEF CardsInv, CardsTypeOK
      <3> QED  BY <1>1, <1>7, <2>1, <3>1 DEF WindowInv, ShownIsQueued
    <2>2. CASE b \notin shown
      <3>1. b.req \in Requests /\ polls[p].cards[b.req] # NoCard /\ b.exp = polls[p].cards[b.req].exp
        BY <1>2, <1>7, <2>2
      <3> QED  BY <1>1, <1>7, <3>1 DEF WindowInv
    <2> QED  BY <2>1, <2>2
  <1> QED  BY <1>4, <1>5, <1>6, <1>7 DEF WindowInv, ShownIsQueued

LEMMA WindowInvStep ==
    ASSUME PollsApart
    PROVE  CardsInv /\ WindowInv /\ [CardsNext]_cardVars => WindowInv'
  <1> SUFFICES ASSUME CardsInv, WindowInv, [CardsNext]_cardVars PROVE WindowInv'
    OBVIOUS
  <1> USE DEF threads, history, CardsInv, CardsTypeOK
  <1>1. CASE \E r \in Requests : Request(r)
    BY <1>1, RequestKeepsWindows
  <1>2. CASE \E p \in Polls : PollLists(p) \/ (\E r \in Requests : PollStamps(p, r)) \/ PollServes(p)
    BY <1>2, ListingKeepsWindows, StampingKeepsWindows, ServingKeepsWindows
  <1>3. CASE \E p \in Polls : PollFails(p)
    BY <1>3, QuietKeepsWindows DEF PollFails, Quiet
  <1>4. CASE \E a \in Answers : AnswerSteps(a)
    <2>1. PICK a \in Answers : AnswerSteps(a)
      BY <1>4
    <2>2. CASE answers[a] = Idle
      <3>1. UNCHANGED <<asked, queue, shown, polls>>
        BY <2>1, <2>2 DEF AnswerSteps, AnswerReads, AnswerTakes, AnswerStores, AnswerStops, Idle
      <3> QED  BY <3>1, QuietKeepsWindows DEF Quiet
    <2>3. CASE answers[a] # Idle
      <3>1. answers[a].req \in Requests
        BY <2>3 DEF Reading
      <3>2. Quiet
        BY <2>1, <2>3, <3>1 DEF AnswerSteps, AnswerReads, AnswerTakes, AnswerStores, AnswerStops, Quiet
      <3> QED  BY <3>2, QuietKeepsWindows
    <2> QED  BY <2>2, <2>3
  <1>5. CASE \E f \in Fetches : FetchSteps(f)
    BY <1>5, PurgedIs, QuietKeepsWindows DEF FetchSteps, FetchLooks, FetchTakes, FetchSweeps, Quiet
  <1>6. CASE Restart
    BY <1>6, QuietKeepsWindows DEF Restart, Quiet
  <1>7. CASE Tick \/ UNCHANGED cardVars
    BY <1>7, QuietKeepsWindows DEF Tick, cardVars, Quiet
  <1>8. CASE \E r \in Requests : AnswerFindsNone(r)
    BY <1>8, QuietKeepsWindows DEF AnswerFindsNone, Quiet
  <1> QED  BY <1>1, <1>2, <1>3, <1>4, <1>5, <1>6, <1>7, <1>8 DEF CardsNext, PollSteps

\* What the phone was shown is what its signature is checked against, when
\* there are no grant cards or no two polls at once.
THEOREM ShownBytesStand == ASSUME PollsApart PROVE CardsSpec => []ShownIsQueued
  <1>1. CardsInit => WindowInv
    BY CardsAssumption DEF CardsInit, WindowInv, Shown, Unstamped, IdlePoll, ShownIsQueued
  <1>2. CardsInv /\ WindowInv /\ [CardsNext]_cardVars => WindowInv'
    BY WindowInvStep
  <1>3. WindowInv => ShownIsQueued
    BY DEF WindowInv
  <1> QED  BY <1>1, <1>2, <1>3, CardsInvariant, PTL DEF CardsSpec

(***************************************************************************)
(* Answers.                                                                *)
(***************************************************************************)
\* An answer that is not under way has nothing taken.
LEMMA AnswerTyped ==
    ASSUME CardsTypeOK, NEW a \in Answers, answers[a] # Idle
    PROVE  answers[a] \in Reading /\ answers[a].req \in Requests
  BY DEF CardsTypeOK, Reading

LEMMA IdleTakesNothing == Idle.pc # "taken"
  BY DEF Idle

\* A step that leaves the answers alone puts back no card that was shown.
LEMMA OthersKeepAnswers ==
    ASSUME CardsTypeOK, AnswerInv, UNCHANGED <<answers, answered>>, shown \subseteq shown',
           \A r \in Requests : queue'[r] # NoCard => queue[r] # NoCard \/ ~Shown(r)
    PROVE  AnswerInv'
  <1>1. \A r : Shown(r) => Shown(r)'
    BY DEF Shown
  <1>2. \A a \in Answers : answers'[a] # Idle => Shown(answers[a].req)'
    BY <1>1 DEF AnswerInv, Shown
  <1>3. ASSUME NEW a \in Answers, answers'[a].pc = "taken"
        PROVE  /\ queue'[answers'[a].req] = NoCard
               /\ answered'[answers'[a].req] = 0
               /\ \A b \in Answers : answers'[b].pc = "taken" /\ answers'[b].req = answers'[a].req => b = a
    <2>1. answers[a] # Idle /\ answers[a].req \in Requests /\ answers' = answers
      BY <1>3, AnswerTyped, IdleTakesNothing
    <2>2. Shown(answers[a].req) /\ queue[answers[a].req] = NoCard
      BY <1>3, <2>1 DEF AnswerInv
    <2>3. queue'[answers[a].req] = NoCard
      BY <2>1, <2>2
    <2> QED  BY <1>3, <2>1, <2>3 DEF AnswerInv
  <1>4. \A r \in Requests : answered'[r] # 0 => answered'[r] = 1 /\ queue'[r] = NoCard /\ Shown(r)'
    BY <1>1 DEF AnswerInv
  <1> QED  BY <1>2, <1>3, <1>4 DEF AnswerInv

\* An answer that starts, finds its card gone or stops gives the request nothing.
LEMMA AnswerNotTaken ==
    ASSUME CardsTypeOK, AnswerInv, NEW a \in Answers,
           \A b \in Answers : b # a => answers'[b] = answers[b],
           answers'[a].pc # "taken", answers'[a] # Idle => Shown(answers'[a].req),
           UNCHANGED <<answered, shown>>,
           \A r \in Requests : queue'[r] = queue[r] \/ queue'[r] = NoCard
    PROVE  AnswerInv'
  <1>1. \A r : Shown(r)' = Shown(r)
    BY DEF Shown
  <1>2. \A b \in Answers : answers'[b] # Idle => Shown(answers[b].req)'
    <2> SUFFICES ASSUME NEW b \in Answers, answers'[b] # Idle PROVE Shown(answers'[b].req)
      BY <1>1 DEF Shown
    <2>1. CASE b = a
      BY <2>1
    <2>2. CASE b # a
      BY <2>2 DEF AnswerInv
    <2> QED  BY <2>1, <2>2
  <1>3. ASSUME NEW b \in Answers, answers'[b].pc = "taken"
        PROVE  /\ queue'[answers'[b].req] = NoCard
               /\ answered'[answers'[b].req] = 0
               /\ \A c \in Answers : answers'[c].pc = "taken" /\ answers'[c].req = answers'[b].req => c = b
    <2>1. b # a /\ answers'[b] = answers[b] /\ answers[b].req \in Requests
      BY <1>3, AnswerTyped, IdleTakesNothing
    <2> QED  BY <1>3, <2>1 DEF AnswerInv
  <1>4. \A r \in Requests : answered'[r] # 0 => answered'[r] = 1 /\ queue'[r] = NoCard /\ Shown(r)'
    BY <1>1 DEF AnswerInv
  <1> QED  BY <1>2, <1>3, <1>4 DEF AnswerInv

\* One answer goes on its way: only with a take has it a card taken, and only
\* with a store has the request one more answer.
LEMMA AnsweringKeepsAnswers ==
    ASSUME CardsInv, AnswerInv, NEW a \in Answers, AnswerSteps(a)
    PROVE  AnswerInv'
  <1> USE DEF CardsInv, CardsTypeOK, threads, history
  <1>1. shown' = shown /\ \A r : Shown(r)' = Shown(r)
    BY DEF AnswerSteps, AnswerReads, AnswerTakes, AnswerStores, AnswerStops, Shown
  <1>2. \A b \in Answers : b # a => answers'[b] = answers[b]
    BY DEF AnswerSteps, AnswerReads, AnswerTakes, AnswerStores, AnswerStops
  <1>3. \A r \in Requests : queue'[r] = queue[r] \/ queue'[r] = NoCard
    BY DEF AnswerSteps, AnswerReads, AnswerTakes, AnswerStores, AnswerStops
  <1>4. CASE \E r \in Requests, says \in Said : AnswerReads(a, r, says)
    <2>1. PICK r \in Requests, says \in Said : AnswerReads(a, r, says)
      BY <1>4
    <2>2. /\ answers'[a].pc = "read" /\ answers'[a].req = r /\ Shown(r)
          /\ UNCHANGED <<queue, answered>>
      BY <2>1 DEF AnswerReads, Shown
    <2> QED  BY <1>1, <1>2, <1>3, <2>2, AnswerNotTaken
  <1>5. CASE AnswerTakes(a)
    <2> DEFINE r == answers[a].req
    <2>1. r \in Requests /\ Shown(r) /\ answers[a] \in Reading
      BY <1>5, AnswerTyped DEF AnswerTakes, AnswerInv, Idle
    <2>2. CASE queue[r] = NoCard
      <3>1. answers'[a] = Idle /\ UNCHANGED <<queue, answered>>
        BY <1>5, <2>2 DEF AnswerTakes, Missing
      <3> QED  BY <1>1, <1>2, <1>3, <3>1, IdleTakesNothing, AnswerNotTaken
    <2>3. CASE queue[r] # NoCard
      <3>1. /\ answers'[a] # Idle /\ answers'[a].req = r
            /\ queue' = [queue EXCEPT ![r] = NoCard] /\ answered' = answered
        BY <1>5, <2>1, <2>3 DEF AnswerTakes, Missing, Idle, Reading
      <3>2. answered[r] = 0 /\ \A b \in Answers : answers[b].pc = "taken" => answers[b].req # r
        BY <2>1, <2>3 DEF AnswerInv
      <3>3. \A q \in Requests : queue'[q] = IF q = r THEN NoCard ELSE queue[q]
        BY <2>1, <3>1
      <3>4. \A b \in Answers : answers'[b] # Idle => Shown(answers[b].req)'
        BY <1>1, <1>2, <2>1, <3>1 DEF AnswerInv, Shown
      <3>5. ASSUME NEW b \in Answers, answers'[b].pc = "taken"
            PROVE  /\ queue'[answers'[b].req] = NoCard
                   /\ answered'[answers'[b].req] = 0
                   /\ \A c \in Answers : answers'[c].pc = "taken" /\ answers'[c].req = answers'[b].req => c = b
        <4>1. CASE b = a
          BY <1>2, <2>1, <3>1, <3>2, <3>3, <4>1
        <4>2. CASE b # a
          <5>1. answers'[b] = answers[b] /\ answers[b].req \in Requests /\ answers[b].req # r
            BY <1>2, <3>2, <3>5, <4>2, AnswerTyped, IdleTakesNothing
          <5> QED  BY <1>2, <3>1, <3>3, <3>5, <5>1 DEF AnswerInv
        <4> QED  BY <4>1, <4>2
      <3>6. \A q \in Requests : answered'[q] # 0 => answered'[q] = 1 /\ queue'[q] = NoCard /\ Shown(q)'
        BY <1>1, <3>1, <3>3 DEF AnswerInv
      <3> QED  BY <3>4, <3>5, <3>6 DEF AnswerInv
    <2> QED  BY <2>2, <2>3
  <1>6. CASE AnswerStores(a)
    <2> DEFINE r == answers[a].req
    <2>1. /\ r \in Requests /\ Shown(r) /\ queue[r] = NoCard /\ answered[r] = 0
          /\ \A b \in Answers : answers[b].pc = "taken" /\ answers[b].req = r => b = a
      BY <1>6, AnswerTyped DEF AnswerStores, AnswerInv, Idle
    <2>2. /\ answers'[a] = Idle /\ queue' = queue
          /\ \A q \in Requests : answered'[q] = IF q = r THEN 1 ELSE answered[q]
      BY <1>6, <2>1 DEF AnswerStores
    <2>3. ASSUME NEW b \in Answers, answers'[b].pc = "taken"
          PROVE  b # a /\ answers'[b] = answers[b] /\ answers[b].req \in Requests /\ answers[b].req # r
      BY <1>2, <2>1, <2>2, <2>3, AnswerTyped, IdleTakesNothing
    <2> QED  BY <1>1, <1>2, <2>1, <2>2, <2>3 DEF AnswerInv
  <1>7. CASE AnswerStops(a)
    <2>1. answers'[a] = Idle /\ answered' = answered
      BY <1>7 DEF AnswerStops
    <2> QED  BY <1>1, <1>2, <1>3, <2>1, IdleTakesNothing, AnswerNotTaken
  <1> QED  BY <1>4, <1>5, <1>6, <1>7 DEF AnswerSteps

LEMMA AnswerInvStep == CardsInv /\ WindowInv /\ AnswerInv /\ [CardsNext]_cardVars => AnswerInv'
  <1> SUFFICES ASSUME CardsInv, WindowInv, AnswerInv, [CardsNext]_cardVars PROVE AnswerInv'
    OBVIOUS
  <1> USE DEF threads, history, CardsInv, CardsTypeOK
  <1>1. ASSUME NEW r \in Requests, Request(r) PROVE AnswerInv'
    <2>1. ~Shown(r)
      BY <1>1 DEF Request, Shown
    <2>2. \A q \in Requests : queue'[q] # NoCard => queue[q] # NoCard \/ ~Shown(q)
      BY <1>1, <2>1 DEF Request
    <2> QED  BY <1>1, <2>2, OthersKeepAnswers DEF Request
  <1>2. ASSUME NEW p \in Polls, PollLists(p) PROVE AnswerInv'
    BY <1>2, PurgedIs, OthersKeepAnswers DEF PollLists
  <1>3. ASSUME NEW p \in Polls, NEW r \in Requests, PollStamps(p, r) PROVE AnswerInv'
    <2>1. ~Shown(r)
      BY <1>3 DEF PollStamps, WindowInv
    <2>2. \A q \in Requests : queue'[q] # NoCard => queue[q] # NoCard \/ ~Shown(q)
      BY <1>3, <2>1 DEF PollStamps
    <2> QED  BY <1>3, <2>2, OthersKeepAnswers DEF PollStamps
  <1>4. ASSUME NEW p \in Polls, PollServes(p) \/ PollFails(p) PROVE AnswerInv'
    <2>1. /\ UNCHANGED <<answers, answered>> /\ shown \subseteq shown'
          /\ \A q \in Requests : queue'[q] # NoCard => queue[q] # NoCard
      BY <1>4 DEF PollServes, PollFails
    <2> QED  BY <2>1, OthersKeepAnswers
  <1>5. ASSUME NEW a \in Answers, AnswerSteps(a) PROVE AnswerInv'
    BY <1>5, AnsweringKeepsAnswers
  <1>6. ASSUME NEW f \in Fetches, FetchSteps(f) PROVE AnswerInv'
    BY <1>6, PurgedIs, OthersKeepAnswers DEF FetchSteps, FetchLooks, FetchTakes, FetchSweeps
  <1>7. CASE Restart
    <2>1. UNCHANGED <<shown, answered>> /\ \A a \in Answers : answers'[a] = Idle
      BY <1>7 DEF Restart
    <2>2. \A r \in Requests : queue'[r] # NoCard => queue[r] # NoCard
      BY <1>7 DEF Restart
    <2> QED  BY <2>1, <2>2, IdleTakesNothing DEF AnswerInv, Shown
  <1>8. CASE Tick \/ UNCHANGED cardVars
    BY <1>8, OthersKeepAnswers DEF Tick, cardVars
  <1>9. CASE \E r \in Requests : AnswerFindsNone(r)
    BY <1>9, OthersKeepAnswers DEF AnswerFindsNone
  <1> QED  BY <1>1, <1>2, <1>3, <1>4, <1>5, <1>6, <1>7, <1>8, <1>9 DEF CardsNext, PollSteps

LEMMA AnswersInvariant == ASSUME PollsApart PROVE CardsSpec => []AnswerInv
  <1>1. CardsInit => WindowInv /\ AnswerInv
    BY CardsAssumption, IdleTakesNothing
    DEF CardsInit, WindowInv, AnswerInv, Shown, Unstamped, IdlePoll, ShownIsQueued
  <1>2. CardsInv /\ WindowInv /\ [CardsNext]_cardVars => WindowInv'
    BY WindowInvStep
  <1>3. CardsInv /\ WindowInv /\ AnswerInv /\ [CardsNext]_cardVars => AnswerInv'
    BY AnswerInvStep
  <1> QED  BY <1>1, <1>2, <1>3, CardsInvariant, PTL DEF CardsSpec

\* However many answers and agents' polls run at once, a request is given one
\* answer, when there are no grant cards or no two polls of the phone at once.
THEOREM OneAnswer == ASSUME PollsApart PROVE CardsSpec => []AnsweredOnce
  <1>1. CardsInv /\ AnswerInv => AnsweredOnce
    BY DEF AnswerInv, AnsweredOnce, CardsInv, CardsTypeOK
  <1> QED  BY <1>1, CardsInvariant, AnswersInvariant, PTL

(***************************************************************************)
(* Deliveries.                                                             *)
(***************************************************************************)
\* A result that waits was handed to nobody, and so was one that a single poll has got.
DeliverInv ==
    /\ \A r \in Requests : results[r] # NoResult => answered[r] # 0 /\ delivered[r] = 0
    /\ \A r \in Requests : delivered[r] # 0 => answered[r] # 0
    /\ \A f \in Fetches, r \in Requests : HasGot(f, r) => answered[r] # 0
    /\ \A f \in Fetches, r \in Requests : HasGot(f, r) /\ r \notin shared => delivered[r] = 0
    /\ \A f, g \in Fetches, r \in Requests : HasGot(f, r) /\ HasGot(g, r) /\ r \notin shared => f = g
    /\ \A r \in Requests : r \notin shared => delivered[r] <= 1

\* A step that gives no result, gets none and hands none over.
LEMMA OthersKeepDeliveries ==
    ASSUME DeliverInv, UNCHANGED <<answered, delivered, shared>>,
           \A r \in Requests : results'[r] = results[r] \/ results'[r] = NoResult,
           \A f \in Fetches, r \in Requests : HasGot(f, r)' => HasGot(f, r)
    PROVE  DeliverInv'
  BY DEF DeliverInv

\* A stored answer is a new one, which nobody was handed yet.
LEMMA StoringKeepsDeliveries ==
    ASSUME CardsInv, DeliverInv, NEW a \in Answers, AnswerStores(a)
    PROVE  DeliverInv'
  <1> DEFINE r == answers[a].req
  <1>1. r \in Requests
    BY AnswerTyped, IdleTakesNothing DEF AnswerStores, CardsInv, CardsTypeOK
  <1>2. /\ \A q \in Requests : q # r => results'[q] = results[q]
        /\ \A q \in Requests : answered'[q] = IF q = r THEN answered[r] + 1 ELSE answered[q]
        /\ \A q \in Requests : delivered'[q] = IF q = r THEN 0 ELSE delivered[q]
        /\ UNCHANGED <<fetches, shared>>
    BY <1>1 DEF AnswerStores, PutResult, CardsInv, CardsTypeOK
  <1>3. \A f \in Fetches, q \in Requests : HasGot(f, q)' = HasGot(f, q)
    BY <1>2 DEF HasGot
  <1>4. answered[r] \in Nat /\ answered'[r] # 0
    BY <1>1, <1>2 DEF CardsInv, CardsTypeOK
  <1> HIDE DEF r
  <1> QED  BY <1>1, <1>2, <1>3, <1>4 DEF DeliverInv

\* A poll that gets a result another one has got shares it.
LEMMA LookingKeepsDeliveries ==
    ASSUME CardsInv, DeliverInv, NEW f \in Fetches, NEW r \in Requests, FetchLooks(f, r)
    PROVE  DeliverInv'
  <1>1. /\ \A q \in Requests : results'[q] = results[q] \/ results'[q] = NoResult
        /\ UNCHANGED <<answered, delivered>>
    BY DEF FetchLooks, LiveResults
  <1>2. \A g \in Fetches, q \in Requests : HasGot(g, q)' => HasGot(g, q) \/ (g = f /\ q = r /\ results[r] # NoResult)
    <2>1. PICK to : to = [pc |-> IF LiveResults[r] = NoResult THEN "missed" ELSE "got", req |-> r]
      OBVIOUS
    <2>2. fetches' = [fetches EXCEPT ![f] = to]
      BY <2>1 DEF FetchLooks
    <2>3. LiveResults[r] # NoResult => results[r] # NoResult
      <3>1. LiveResults[r] = results[r] \/ LiveResults[r] = NoResult
        BY DEF LiveResults
      <3> QED  BY <3>1
    <2>4. to.req = r /\ (to.pc = "got" => results[r] # NoResult)
      BY <2>1, <2>3
    <2>5. \A g \in Fetches : fetches'[g] = IF g = f THEN to ELSE fetches[g]
      <3>1. fetches \in [Fetches -> Fetching \union {Idle}]
        BY DEF CardsInv, CardsTypeOK
      <3> QED  BY <2>2, <3>1
    <2> QED  BY <2>4, <2>5 DEF HasGot
  <1>3. shared \subseteq shared'
    BY DEF FetchLooks
  <1>4. \A g \in Fetches : HasGot(f, r)' /\ HasGot(g, r) => r \in shared'
    BY DEF FetchLooks, HasGot, CardsInv, CardsTypeOK
  <1>5. ASSUME NEW g \in Fetches, NEW h \in Fetches, NEW q \in Requests,
               HasGot(g, q)', HasGot(h, q)', q \notin shared'
        PROVE  g = h
    <2>1. CASE HasGot(g, q) /\ HasGot(h, q)
      BY <1>3, <1>5, <2>1 DEF DeliverInv
    <2>2. CASE ~HasGot(g, q)
      <3>1. g = f /\ q = r
        BY <1>2, <1>5, <2>2
      <3>2. ~HasGot(h, q)
        BY <1>4, <1>5, <3>1
      <3> QED  BY <1>2, <1>5, <3>1, <3>2
    <2>3. CASE ~HasGot(h, q)
      <3>1. h = f /\ q = r
        BY <1>2, <1>5, <2>3
      <3>2. ~HasGot(g, q)
        BY <1>4, <1>5, <3>1
      <3> QED  BY <1>2, <1>5, <3>1, <3>2
    <2> QED  BY <2>1, <2>2, <2>3
  <1>6. \A g \in Fetches, q \in Requests : HasGot(g, q)' => answered'[q] # 0 /\ (q \notin shared' => delivered'[q] = 0)
    BY <1>1, <1>2, <1>3 DEF DeliverInv
  <1> QED  BY <1>1, <1>3, <1>5, <1>6 DEF DeliverInv

\* What is handed over leaves the store, and only a shared result is left with another poll.
LEMMA TakingKeepsDeliveries ==
    ASSUME CardsInv, DeliverInv, NEW f \in Fetches, FetchTakes(f)
    PROVE  DeliverInv'
  <1> DEFINE r == fetches[f].req
  <1>1. r \in Requests /\ HasGot(f, r)
    BY DEF FetchTakes, HasGot, Fetching, Idle, CardsInv, CardsTypeOK
  <1>2. /\ \A q \in Requests : results'[q] = IF q = r THEN NoResult ELSE results[q]
        /\ \A q \in Requests : delivered'[q] = IF q = r THEN delivered[r] + 1 ELSE delivered[q]
        /\ UNCHANGED <<answered, shared>>
    BY <1>1 DEF FetchTakes, Taken, CardsInv, CardsTypeOK
  <1>3. \A g \in Fetches, q \in Requests : HasGot(g, q)' => HasGot(g, q) /\ g # f
    BY DEF FetchTakes, HasGot, Idle, CardsInv, CardsTypeOK
  <1>4. delivered[r] \in Nat /\ answered[r] # 0
    BY <1>1 DEF DeliverInv, CardsInv, CardsTypeOK
  <1>5. \A q \in Requests : q \notin shared' => delivered'[q] <= 1
    BY <1>1, <1>2, <1>4 DEF DeliverInv
  <1>6. \A g \in Fetches, q \in Requests : HasGot(g, q)' /\ q \notin shared' => q # r
    BY <1>1, <1>2, <1>3 DEF DeliverInv
  <1> HIDE DEF r
  <1> QED  BY <1>1, <1>2, <1>3, <1>4, <1>5, <1>6 DEF DeliverInv

LEMMA DeliverInvStep == CardsInv /\ DeliverInv /\ [CardsNext]_cardVars => DeliverInv'
  <1> SUFFICES ASSUME CardsInv, DeliverInv, [CardsNext]_cardVars PROVE DeliverInv'
    OBVIOUS
  <1>1. ASSUME UNCHANGED <<results, fetches, answered, delivered, shared>> PROVE DeliverInv'
    BY <1>1, OthersKeepDeliveries DEF HasGot
  <1>2. ASSUME NEW f \in Fetches, FetchSweeps(f) PROVE DeliverInv'
    <2>1. \A g \in Fetches, r \in Requests : HasGot(g, r)' => HasGot(g, r)
      BY <1>2 DEF FetchSweeps, HasGot, Idle, CardsInv, CardsTypeOK
    <2> QED  BY <1>2, <2>1, OthersKeepDeliveries DEF FetchSweeps, history
  <1>3. CASE Restart
    <2>1. \A f \in Fetches, r \in Requests : ~HasGot(f, r)'
      BY <1>3 DEF Restart, HasGot, Idle
    <2>2. \A r \in Requests : results'[r] = results[r] \/ results'[r] = NoResult
      BY <1>3 DEF Restart
    <2> QED  BY <1>3, <2>1, <2>2, OthersKeepDeliveries DEF Restart, history
  <1>4. ASSUME NEW a \in Answers, AnswerSteps(a), ~AnswerStores(a)
        PROVE  UNCHANGED <<results, fetches, answered, delivered, shared>>
    BY <1>4 DEF AnswerSteps, AnswerReads, AnswerTakes, AnswerStops, history
  <1>5. ASSUME NEW p \in Polls, PollSteps(p)
        PROVE  UNCHANGED <<results, fetches, answered, delivered, shared>>
    BY <1>5 DEF PollSteps, PollLists, PollStamps, PollServes, PollFails, history
  <1>6. CASE \E r \in Requests : Request(r) \/ AnswerFindsNone(r)
    BY <1>1, <1>6 DEF Request, AnswerFindsNone, threads, history
  <1>7. CASE Tick \/ UNCHANGED cardVars
    BY <1>1, <1>7 DEF Tick, cardVars, threads, history
  <1> QED
    BY <1>1, <1>2, <1>3, <1>4, <1>5, <1>6, <1>7,
       StoringKeepsDeliveries, LookingKeepsDeliveries, TakingKeepsDeliveries DEF CardsNext, FetchSteps

\* An answer that was handed over is out of the store, and only polls that had got it before its first take are handed
\* it too: for any number of polls, answers and agents' polls at once, restarts included, on either backend
\* (_handle_capability_result, take_capability_result).
THEOREM OneDelivery == CardsSpec => []DeliveredOnce
  <1>1. CardsInit => DeliverInv
    BY DEF CardsInit, DeliverInv, HasGot, Idle
  <1>2. CardsInv /\ DeliverInv /\ [CardsNext]_cardVars => DeliverInv'
    BY DeliverInvStep
  <1>3. DeliverInv => DeliveredOnce
    BY DEF DeliverInv, DeliveredOnce
  <1> QED  BY <1>1, <1>2, <1>3, CardsInvariant, PTL DEF CardsSpec

\* One answer, given to the bytes that are queued, and handed over once.
THEOREM AnswersMatchCards ==
    ASSUME PollsApart PROVE CardsSpec => []AnsweredAsShown
  <1>1. ShownIsQueued /\ AnsweredOnce /\ DeliveredOnce => AnsweredAsShown
    BY DEF AnsweredAsShown
  <1> QED  BY <1>1, ShownBytesStand, OneAnswer, OneDelivery, PTL
===============================================================================
