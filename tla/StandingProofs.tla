--------------------------- MODULE StandingProofs ---------------------------
(***************************************************************************)
(* What stands until it is answered or taken back: a user's grants and the *)
(* book of requests for them, and the wrong-code limiter, for every value  *)
(* of their constants; with the types of members, of clusters and of       *)
(* capability cards beside them (ConsumerProofs).                          *)
(***************************************************************************)
EXTENDS StandingWork, ConsumerProofs,
    SequenceTheorems, FiniteSetTheorems, WellFoundedInduction, TLAPS

(***************************************************************************)
(* A user's grants: what was taken back stays out, for any number of       *)
(* grants, keys and requests under way, through failed writes and          *)
(* restarts, while the phone sends one grant for a slot at a time.         *)
(*                                                                         *)
(* TakenBackStaysOut is not inductive.  What was taken back must be on the *)
(* list and in its file until it lapses (OutInv), and that follows from    *)
(* what a handler under way has already listed (SubmitOK).                 *)
(***************************************************************************)
SubmitsOf ==
    {SubmitIdle}
       \union [pc : {"admissible", "putting", "resolving"}, grant : GrantIds, olds : SUBSET GrantIds]
       \union [pc : {"revoking", "revoked"}, grant : GrantIds]
       \union [pc : {"stopping", "marked", "ending"}, stop : StopIds,
                live : SUBSET GrantIds, ends : SUBSET GrantIds, todo : SUBSET GrantIds]

Over(e) == e \in listed \/ Lapsed(e)

\* A newer grant has the older ones of its slot still to end, or they are over; so
\* has a stop-all what was live when it came.
SubmitOK(j) ==
    /\ j.pc = "putting" =>
          \A x \in stored : Slot(x) = Slot(j.grant) /\ x # j.grant => x \in j.olds \/ Over(x)
    /\ j.pc = "revoked" => Over(j.grant)
    /\ j.pc \in {"stopping", "marked"} =>
          \A g \in j.live : Key(g) = StopOf[j.stop].key /\ (g \in stored \/ Over(g))
    /\ j.pc = "ending" => \A g \in j.live : g \in j.todo \/ Over(g)

Admitting(j) == j.pc \in {"admissible", "putting", "resolving"}

\* The phone waits for the answer about a slot before it sends another grant for it.
OneAdmission ==
    \A h, i \in Submits :
        Admitting(submits[h]) /\ Admitting(submits[i]) /\ Slot(submits[h].grant) = Slot(submits[i].grant) => h = i

OutInv == \A g \in takenBack : Lapsed(g) \/ (g \in listed /\ g \in listFile)

StoreTypes ==
    /\ now \in Nat
    /\ stored \subseteq GrantIds /\ takenBack \subseteq GrantIds
    /\ submits \in [Submits -> SubmitsOf]
    /\ listed \subseteq Entry /\ listFile \subseteq Entry

GrantInv ==
    /\ StoreTypes
    /\ \A h \in Submits : SubmitOK(submits[h])
    /\ OneAdmission
    /\ OutInv

\* Expires is a number: the records are grants and stop-all acts.
LEMMA ExpiresIsNumber == \A e \in Entry : Expires(e) \in Nat
  BY UserGrantsAssumption DEF Entry, Expires, IsGrant, IsStop

(***************************************************************************)
(* The list.                                                               *)
(***************************************************************************)
\* What a step does to the list and the grants' file: what leaves the list has
\* lapsed, what is in its file stays there until it lapses, and a grant that
\* leaves the grants' file is over.
ListGrows ==
    /\ now' \in Nat /\ now' >= now
    /\ \A e \in Entry : e \in listed /\ e \notin listed' => Expires(e) <= now'
    /\ \A e \in Entry : e \in listed /\ e \in listFile /\ e \notin listFile' => Expires(e) <= now'
    /\ listed' \subseteq Entry /\ listFile' \subseteq Entry

LEMMA OverStands ==
    ASSUME StoreTypes, ListGrows PROVE \A e \in Entry : Over(e) => Over(e)'
  BY ExpiresIsNumber DEF StoreTypes, ListGrows, Over, Lapsed

LEMMA OutStands == ASSUME StoreTypes, OutInv, ListGrows, takenBack' = takenBack PROVE OutInv'
  BY ExpiresIsNumber DEF StoreTypes, ListGrows, OutInv, Lapsed, Entry

LEMMA ListsGrows ==
    ASSUME StoreTypes, NEW e \in Entry, now' = now, Lists(e) \/ ListsUnsaved(e) PROVE ListGrows /\ (e \in listed')
  BY ExpiresIsNumber DEF StoreTypes, ListGrows, Lists, ListsUnsaved, Lapsed

LEMMA ListStays == ASSUME StoreTypes, UNCHANGED <<now, listed, listFile>> PROVE ListGrows
  BY DEF StoreTypes, ListGrows

\* No grant enters the grants' file.
LEMMA SubmitStands ==
    ASSUME StoreTypes, ListGrows, stored' \subseteq stored,
           \A g \in stored : g \notin stored' => Over(g)'
    PROVE  \A j \in SubmitsOf : SubmitOK(j) => SubmitOK(j)'
  <1>1. \A e \in Entry : Over(e) => Over(e)'
    BY OverStands
  <1>2. \A j \in SubmitsOf :
           /\ j.pc = "revoked" => j.grant \in Entry
           /\ j.pc \in {"stopping", "marked", "ending"} => j.live \subseteq Entry
    BY DEF SubmitsOf, Entry, SubmitIdle
  <1>3. stored \subseteq Entry
    BY DEF StoreTypes, Entry
  <1> QED  BY <1>1, <1>2, <1>3 DEF SubmitOK

\* One handler goes on; the others and the grants' file stand.
LEMMA OneStep ==
    ASSUME GrantInv, NEW h \in Submits, NEW to \in SubmitsOf, Becomes(h, to), SubmitOK(to)',
           ListGrows, stored' \subseteq stored, \A g \in stored : g \notin stored' => Over(g)',
           Admitting(to) => \A i \in Submits \ {h} : Admitting(submits[i]) => Slot(submits[i].grant) # Slot(to.grant),
           takenBack' \subseteq GrantIds, OutInv'
    PROVE  GrantInv'
  <1>1. /\ submits' \in [Submits -> SubmitsOf] /\ submits'[h] = to
        /\ \A i \in Submits \ {h} : submits'[i] = submits[i]
    BY DEF Becomes, GrantInv, StoreTypes
  <1>2. StoreTypes'
    BY <1>1 DEF GrantInv, StoreTypes, ListGrows
  <1>3. \A i \in Submits : SubmitOK(submits[i])'
    <2>1. \A j \in SubmitsOf : SubmitOK(j) => SubmitOK(j)'
      BY SubmitStands DEF GrantInv
    <2>2. \A i \in Submits : submits[i] \in SubmitsOf /\ SubmitOK(submits[i])
      BY DEF GrantInv, StoreTypes
    <2> QED  BY <1>1, <2>1, <2>2
  <1>4. OneAdmission'
    BY <1>1 DEF GrantInv, OneAdmission
  <1> QED  BY <1>2, <1>3, <1>4 DEF GrantInv

(***************************************************************************)
(* The phone's requests.                                                   *)
(***************************************************************************)
LEMMA GrantInvInit == ASSUME GrantsInit PROVE GrantInv
  BY DEF GrantsInit, GrantInv, StoreTypes, SubmitsOf, SubmitIdle, SubmitOK, OneAdmission, Admitting, OutInv

LEMMA IdleIsFine == SubmitIdle \in SubmitsOf /\ SubmitOK(SubmitIdle)' /\ ~Admitting(SubmitIdle)
  BY DEF SubmitsOf, SubmitIdle, SubmitOK, Admitting

LEMMA StepGrantArrives ==
    ASSUME PatientPhone, GrantInv, NEW h \in Submits, NEW g \in GrantIds, GrantArrives(h, g) PROVE GrantInv'
  <1> DEFINE to == [pc |-> "admissible", grant |-> g, olds |-> {}]
  <1>1. /\ Becomes(h, to) /\ UNCHANGED <<now, stored, listed, listFile, takenBack>>
        /\ \A i \in Submits : Admitting(submits[i]) => Slot(submits[i].grant) # Slot(g)
    BY DEF GrantArrives, Admitting
  <1>2. to \in SubmitsOf /\ SubmitOK(to)' /\ to.grant = g
    BY DEF SubmitsOf, SubmitOK
  <1>3. StoreTypes /\ ListGrows /\ OutInv'
    BY <1>1, ListStays, OutStands DEF GrantInv
  <1> HIDE DEF to
  <1> QED  BY <1>1, <1>2, <1>3, OneStep DEF GrantInv, StoreTypes

AdmissionOfPc(pc) == [pc : {pc}, grant : GrantIds, olds : SUBSET GrantIds]

LEMMA StepGrantFindsOlds == ASSUME GrantInv, NEW h \in Submits, GrantFindsOlds(h) PROVE GrantInv'
  <1>1. submits[h] \in AdmissionOfPc("admissible")
    BY DEF GrantFindsOlds, GrantInv, StoreTypes, SubmitsOf, SubmitIdle, AdmissionOfPc
  <1>2. PICK g \in GrantIds : g = submits[h].grant
    BY <1>1 DEF AdmissionOfPc
  <1>3. PICK to : to = [submits[h] EXCEPT !.pc = "putting", !.olds = Olds(g)]
    OBVIOUS
  <1>4. Becomes(h, to) /\ UNCHANGED <<now, stored, listed, listFile, takenBack>>
    BY <1>2, <1>3 DEF GrantFindsOlds
  <1>5. Olds(g) \subseteq GrantIds
    BY DEF Olds, GrantInv, StoreTypes
  <1>6. to \in AdmissionOfPc("putting") /\ to.grant = g /\ to.olds = Olds(g)
    BY <1>1, <1>2, <1>3, <1>5 DEF AdmissionOfPc
  <1>7. to \in SubmitsOf /\ SubmitOK(to)'
    BY <1>4, <1>6 DEF SubmitsOf, SubmitOK, Olds, AdmissionOfPc
  <1>8. StoreTypes /\ ListGrows /\ OutInv'
    BY <1>4, ListStays, OutStands DEF GrantInv
  <1>9. \A i \in Submits \ {h} : Admitting(submits[i]) => Slot(submits[i].grant) # Slot(to.grant)
    BY <1>1, <1>2, <1>6 DEF GrantInv, OneAdmission, Admitting, AdmissionOfPc
  <1> QED  BY <1>4, <1>7, <1>8, <1>9, OneStep DEF GrantInv, StoreTypes

LEMMA StepGrantEndsOld == ASSUME GrantInv, NEW h \in Submits, GrantEndsOld(h) PROVE GrantInv'
  <1>1. PICK g \in GrantIds, o \in SUBSET GrantIds : submits[h] = [pc |-> "putting", grant |-> g, olds |-> o]
    BY DEF GrantEndsOld, GrantInv, StoreTypes, SubmitsOf, SubmitIdle
  <1>2. PICK x \in o : \/ Lists(x) /\ Becomes(h, [submits[h] EXCEPT !.olds = @ \ {x}])
                       \/ ListsUnsaved(x) /\ Becomes(h, SubmitIdle)
    <2>1. submits[h].olds = o
      BY <1>1
    <2>2. PICK x \in submits[h].olds :
               \/ Lists(x) /\ Becomes(h, [submits[h] EXCEPT !.olds = @ \ {x}])
               \/ ListsUnsaved(x) /\ Done(h)
      BY Zenon DEF GrantEndsOld
    <2> QED  BY <2>1, <2>2, Zenon DEF Done
  <1>3. UNCHANGED <<now, stored, takenBack>> /\ x \in Entry
    BY <1>1 DEF GrantEndsOld, Entry
  <1>4. StoreTypes /\ ListGrows /\ OutInv' /\ x \in listed'
    BY <1>2, <1>3, ListsGrows, OutStands DEF GrantInv
  <1>5. PICK to : to = [pc |-> "putting", grant |-> g, olds |-> o \ {x}]
    OBVIOUS
  <1>6. Becomes(h, to) \/ Becomes(h, SubmitIdle)
    BY <1>1, <1>2, <1>5
  <1>7. to \in SubmitsOf /\ SubmitOK(to)' /\ to.grant = g
    <2>1. \A y \in stored : Slot(y) = Slot(g) /\ y # g => y \in o \/ Over(y)
      BY <1>1 DEF GrantInv, SubmitOK
    <2>2. \A y \in stored : Over(y) => Over(y)'
      BY <1>4, OverStands DEF StoreTypes, Entry
    <2>3. Over(x)'
      BY <1>4 DEF Over
    <2> QED  BY <1>3, <1>5, <2>1, <2>2, <2>3 DEF SubmitsOf, SubmitOK
  <1>8. \A i \in Submits \ {h} : Admitting(submits[i]) => Slot(submits[i].grant) # Slot(to.grant)
    BY <1>1, <1>7 DEF GrantInv, OneAdmission, Admitting
  <1> QED  BY <1>3, <1>4, <1>6, <1>7, <1>8, OneStep, IdleIsFine DEF GrantInv, StoreTypes

LEMMA StepGrantResolves == ASSUME GrantInv, NEW h \in Submits, GrantResolves(h) PROVE GrantInv'
  <1>1. Becomes(h, SubmitIdle) /\ UNCHANGED <<now, stored, listed, listFile, takenBack>>
    BY DEF GrantResolves, Done
  <1>2. StoreTypes /\ ListGrows /\ OutInv'
    BY <1>1, ListStays, OutStands DEF GrantInv
  <1> QED  BY <1>1, <1>2, OneStep, IdleIsFine DEF GrantInv, StoreTypes

LEMMA StepRevokeArrives ==
    ASSUME GrantInv, NEW h \in Submits, NEW g \in GrantIds, RevokeArrives(h, g) PROVE GrantInv'
  <1> DEFINE to == [pc |-> "revoking", grant |-> g]
  <1>1. Becomes(h, to) /\ UNCHANGED <<now, stored, listed, listFile, takenBack>>
    BY DEF RevokeArrives
  <1>2. to \in SubmitsOf /\ SubmitOK(to)' /\ ~Admitting(to)
    BY DEF SubmitsOf, SubmitOK, Admitting
  <1>3. StoreTypes /\ ListGrows /\ OutInv'
    BY <1>1, ListStays, OutStands DEF GrantInv
  <1> HIDE DEF to
  <1> QED  BY <1>1, <1>2, <1>3, OneStep DEF GrantInv, StoreTypes

LEMMA StepRevokeLists == ASSUME GrantInv, NEW h \in Submits, RevokeLists(h) PROVE GrantInv'
  <1>1. PICK g \in GrantIds : submits[h] = [pc |-> "revoking", grant |-> g]
    BY DEF RevokeLists, GrantInv, StoreTypes, SubmitsOf, SubmitIdle
  <1>2. PICK to : to = [pc |-> "revoked", grant |-> g]
    OBVIOUS
  <1>3. /\ (Lists(g) /\ Becomes(h, to)) \/ (ListsUnsaved(g) /\ Becomes(h, SubmitIdle))
        /\ UNCHANGED <<now, stored, takenBack>> /\ g \in Entry
    BY <1>1, <1>2 DEF RevokeLists, Done, Entry
  <1>4. StoreTypes /\ ListGrows /\ OutInv' /\ g \in listed'
    BY <1>3, ListsGrows, OutStands DEF GrantInv
  <1>5. to \in SubmitsOf /\ SubmitOK(to)' /\ ~Admitting(to)
    BY <1>2, <1>4 DEF SubmitsOf, SubmitOK, Admitting, Over
  <1> QED  BY <1>3, <1>4, <1>5, OneStep, IdleIsFine DEF GrantInv, StoreTypes

\* What a handler answers for is over, and in the file if it is on the list.
LEMMA AnsweredIsOut ==
    ASSUME GrantInv, NEW gs \in SUBSET GrantIds, Answered(gs), \A g \in gs : Over(g),
           UNCHANGED <<now, listed, listFile>>
    PROVE  OutInv' /\ takenBack' \subseteq GrantIds
  BY DEF GrantInv, StoreTypes, OutInv, Answered, Over, Lapsed

LEMMA StepRevokeResolves == ASSUME GrantInv, NEW h \in Submits, RevokeResolves(h) PROVE GrantInv'
  <1>1. PICK g \in GrantIds : submits[h] = [pc |-> "revoked", grant |-> g]
    BY DEF RevokeResolves, GrantInv, StoreTypes, SubmitsOf, SubmitIdle
  <1>2. Answered({g}) /\ Becomes(h, SubmitIdle) /\ UNCHANGED <<now, stored, listed, listFile>>
    BY <1>1 DEF RevokeResolves, Done
  <1>3. Over(g)
    BY <1>1 DEF GrantInv, SubmitOK
  <1>4. OutInv' /\ takenBack' \subseteq GrantIds
    BY <1>2, <1>3, AnsweredIsOut
  <1>5. ListGrows
    BY <1>2, ListStays DEF GrantInv
  <1> QED  BY <1>2, <1>4, <1>5, OneStep, IdleIsFine

LEMMA StepStopArrives ==
    ASSUME GrantInv, NEW h \in Submits, NEW s \in StopIds, StopArrives(h, s) PROVE GrantInv'
  <1>1. PICK to : to = [pc |-> "stopping", stop |-> s, ends |-> {}, todo |-> {},
                        live |-> {g \in LiveGrants : Key(g) = StopOf[s].key}]
    OBVIOUS
  <1>2. Becomes(h, to) /\ UNCHANGED <<now, stored, listed, listFile, takenBack>>
    BY <1>1 DEF StopArrives
  <1>3. to \in SubmitsOf /\ SubmitOK(to)' /\ ~Admitting(to)
    BY <1>1, <1>2 DEF SubmitsOf, SubmitOK, Admitting, LiveGrants, Live
  <1>4. StoreTypes /\ ListGrows /\ OutInv'
    BY <1>2, ListStays, OutStands DEF GrantInv
  <1> QED  BY <1>2, <1>3, <1>4, OneStep DEF GrantInv, StoreTypes

StopOfPc(pc) == [pc : {pc}, stop : StopIds, live : SUBSET GrantIds, ends : SUBSET GrantIds, todo : SUBSET GrantIds]

LEMMA StepStopMarksUsed == ASSUME GrantInv, NEW h \in Submits, StopMarksUsed(h) PROVE GrantInv'
  <1>1. submits[h] \in StopOfPc("stopping")
    BY DEF StopMarksUsed, GrantInv, StoreTypes, SubmitsOf, SubmitIdle, StopOfPc
  <1>2. PICK to : to = [submits[h] EXCEPT !.pc = "marked"]
    OBVIOUS
  <1>3. PICK s \in StopIds : s = submits[h].stop
    BY <1>1 DEF StopOfPc
  <1>4. /\ (Lists(s) /\ Becomes(h, to)) \/ (ListsUnsaved(s) /\ Becomes(h, SubmitIdle))
        /\ UNCHANGED <<now, stored, takenBack>> /\ s \in Entry
    BY <1>2, <1>3 DEF StopMarksUsed, Done, Entry
  <1>5. StoreTypes /\ ListGrows /\ OutInv'
    BY <1>4, ListsGrows, OutStands DEF GrantInv
  <1>6. to \in StopOfPc("marked") /\ to.live = submits[h].live /\ to.stop = s
    BY <1>1, <1>2, <1>3 DEF StopOfPc
  <1>7. SubmitOK(to)
    <2>1. SubmitOK(submits[h]) /\ submits[h].pc = "stopping"
      BY <1>1 DEF GrantInv, StopOfPc
    <2> QED  BY <1>3, <1>6, <2>1 DEF SubmitOK, StopOfPc
  <1>8. to \in SubmitsOf /\ ~Admitting(to)
    BY <1>6 DEF SubmitsOf, StopOfPc, Admitting
  <1>9. SubmitOK(to)'
    BY <1>4, <1>5, <1>7, <1>8, SubmitStands
  <1> QED  BY <1>4, <1>5, <1>8, <1>9, OneStep, IdleIsFine DEF GrantInv, StoreTypes

LEMMA StepStopFinds == ASSUME GrantInv, NEW h \in Submits, StopFinds(h) PROVE GrantInv'
  <1>1. submits[h] \in StopOfPc("marked")
    BY DEF StopFinds, GrantInv, StoreTypes, SubmitsOf, SubmitIdle, StopOfPc
  <1> DEFINE ended == EndedBy(submits[h].stop)
  <1>2. PICK to : to = [submits[h] EXCEPT !.pc = "ending", !.ends = ended, !.todo = ended]
    OBVIOUS
  <1>3. Becomes(h, to) /\ UNCHANGED <<now, stored, listed, listFile, takenBack>>
    BY <1>2 DEF StopFinds
  <1>4. ended \subseteq GrantIds
    BY DEF EndedBy, LiveGrants
  <1>5. to \in StopOfPc("ending") /\ to.live = submits[h].live /\ to.todo = ended
    BY <1>1, <1>2, <1>4 DEF StopOfPc
  <1>6. SubmitOK(to)
    <2>1. \A g \in to.live : Key(g) = StopOf[submits[h].stop].key /\ (g \in stored \/ Over(g)) /\ g \in GrantIds
      BY <1>1, <1>5 DEF GrantInv, SubmitOK, StopOfPc
    <2>2. \A g \in to.live : g \in ended \/ Over(g)
      BY <2>1 DEF EndedBy, LiveGrants, Live, Over, Revoked
    <2> QED  BY <1>5, <2>2 DEF SubmitOK, StopOfPc
  <1>7. to \in SubmitsOf /\ ~Admitting(to)
    BY <1>5 DEF SubmitsOf, StopOfPc, Admitting
  <1>8. StoreTypes /\ ListGrows /\ OutInv'
    BY <1>3, ListStays, OutStands DEF GrantInv
  <1>9. SubmitOK(to)'
    BY <1>3, <1>6, <1>7, <1>8, SubmitStands
  <1> QED  BY <1>3, <1>7, <1>8, <1>9, OneStep DEF GrantInv, StoreTypes

LEMMA StepStopEndsGrant == ASSUME GrantInv, NEW h \in Submits, StopEndsGrant(h) PROVE GrantInv'
  <1>1. submits[h] \in StopOfPc("ending")
    BY DEF StopEndsGrant, GrantInv, StoreTypes, SubmitsOf, SubmitIdle, StopOfPc
  <1>2. PICK g \in submits[h].todo : \/ Lists(g) /\ Becomes(h, [submits[h] EXCEPT !.todo = @ \ {g}])
                                     \/ ListsUnsaved(g) /\ Becomes(h, SubmitIdle)
    BY DEF StopEndsGrant, Done
  <1>3. PICK to : to = [submits[h] EXCEPT !.todo = @ \ {g}]
    OBVIOUS
  <1>4. /\ (Lists(g) /\ Becomes(h, to)) \/ (ListsUnsaved(g) /\ Becomes(h, SubmitIdle))
        /\ UNCHANGED <<now, stored, takenBack>> /\ g \in Entry
    <2>1. g \in Entry /\ UNCHANGED <<now, stored, takenBack>>
      BY <1>1, <1>2 DEF StopEndsGrant, Entry, StopOfPc
    <2> QED  BY <1>2, <1>3, <2>1
  <1>5. StoreTypes /\ ListGrows /\ OutInv' /\ g \in listed'
    BY <1>4, ListsGrows, OutStands DEF GrantInv
  <1>6. to \in StopOfPc("ending") /\ to.live = submits[h].live /\ to.todo = submits[h].todo \ {g}
    BY <1>1, <1>3 DEF StopOfPc
  <1>7. SubmitOK(to)'
    <2>1. \A x \in to.live : (x \in submits[h].todo \/ Over(x)) /\ x \in Entry
      BY <1>1, <1>6 DEF GrantInv, SubmitOK, StopOfPc, Entry
    <2>2. \A x \in to.live : Over(x) => Over(x)'
      BY <1>5, <2>1, OverStands
    <2>3. Over(g)'
      BY <1>5 DEF Over
    <2>4. \A x \in to.live : x \in to.todo \/ Over(x)'
      BY <1>6, <2>1, <2>2, <2>3
    <2> QED  BY <1>6, <2>4 DEF SubmitOK, StopOfPc
  <1>8. to \in SubmitsOf /\ ~Admitting(to)
    BY <1>6 DEF SubmitsOf, StopOfPc, Admitting
  <1> QED  BY <1>4, <1>5, <1>7, <1>8, OneStep, IdleIsFine DEF GrantInv, StoreTypes

LEMMA StepStopResolves == ASSUME GrantInv, NEW h \in Submits, StopResolves(h) PROVE GrantInv'
  <1>1. submits[h] \in StopOfPc("ending") /\ submits[h].todo = {}
    BY DEF StopResolves, GrantInv, StoreTypes, SubmitsOf, SubmitIdle, StopOfPc
  <1>2. Answered(submits[h].live) /\ Becomes(h, SubmitIdle) /\ UNCHANGED <<now, stored, listed, listFile>>
    BY DEF StopResolves, Done
  <1>3. submits[h].live \subseteq GrantIds /\ \A g \in submits[h].live : Over(g)
    BY <1>1 DEF GrantInv, SubmitOK, StopOfPc
  <1>4. OutInv' /\ takenBack' \subseteq GrantIds
    BY <1>2, <1>3, AnsweredIsOut
  <1>5. ListGrows
    BY <1>2, ListStays DEF GrantInv
  <1> QED  BY <1>2, <1>4, <1>5, OneStep, IdleIsFine
\* The put displaces only what is over: nobody else admits for its slot.
LEMMA StepGrantPuts == ASSUME GrantInv, NEW h \in Submits, GrantPuts(h) PROVE GrantInv'
  <1>1. submits[h] \in AdmissionOfPc("putting") /\ submits[h].olds = {}
    BY DEF GrantPuts, GrantInv, StoreTypes, SubmitsOf, SubmitIdle, AdmissionOfPc
  <1>2. PICK g \in GrantIds : g = submits[h].grant
    BY <1>1 DEF AdmissionOfPc
  <1>3. UNCHANGED <<now, listed, listFile>> /\ StoreTypes /\ ListGrows
    BY ListStays DEF GrantPuts, GrantInv
  <1>4. CASE Becomes(h, SubmitIdle) /\ UNCHANGED <<stored, takenBack>>
    <2>1. OutInv'
      BY <1>3, <1>4, OutStands DEF GrantInv
    <2> QED  BY <1>3, <1>4, <2>1, OneStep, IdleIsFine DEF StoreTypes
  <1>5. CASE /\ Put(g) /\ Becomes(h, [submits[h] EXCEPT !.pc = "resolving"])
             /\ Answered({x \in stored : Slot(x) = Slot(g)} \ {g})
    <2>1. PICK to : to = [submits[h] EXCEPT !.pc = "resolving"]
      OBVIOUS
    <2>2. to \in AdmissionOfPc("resolving") /\ to.grant = g
      BY <1>1, <1>2, <2>1 DEF AdmissionOfPc
    <2>3. /\ submits' \in [Submits -> SubmitsOf] /\ submits'[h] = to
          /\ \A i \in Submits \ {h} : submits'[i] = submits[i]
      BY <1>5, <2>1, <2>2 DEF Becomes, GrantInv, StoreTypes, SubmitsOf, AdmissionOfPc
    <2>4. \A x \in stored : Slot(x) = Slot(g) /\ x # g => Over(x)
      BY <1>1, <1>2 DEF GrantInv, SubmitOK, AdmissionOfPc
    <2>5. {x \in stored : Slot(x) = Slot(g)} \ {g} \subseteq GrantIds
      BY <1>3 DEF StoreTypes
    <2>6. OutInv' /\ takenBack' \subseteq GrantIds
      BY <1>3, <1>5, <2>4, <2>5, AnsweredIsOut
    <2>7. /\ stored' \subseteq GrantIds
          /\ \A x \in stored' : x = g \/ (x \in stored /\ Slot(x) # Slot(g))
          /\ \A x \in stored : x \in stored' \/ Over(x)
      BY <1>3, <1>5, <2>4 DEF Put, Beside, Over, StoreTypes
    <2>8. StoreTypes'
      BY <1>3, <2>3, <2>6, <2>7 DEF StoreTypes, ListGrows
    <2>9. \A e \in Entry : Over(e) => Over(e)'
      BY <1>3, OverStands
    <2>10. \A i \in Submits \ {h} : SubmitOK(submits[i])'
      <3> SUFFICES ASSUME NEW i \in Submits \ {h} PROVE SubmitOK(submits[i])'
        OBVIOUS
      <3>1. submits'[i] = submits[i] /\ SubmitOK(submits[i]) /\ submits[i] \in SubmitsOf
        BY <2>3 DEF GrantInv, StoreTypes
      <3>2. PICK j \in SubmitsOf : j = submits[i] /\ j = submits'[i] /\ SubmitOK(j)
        BY <3>1
      <3>3. ASSUME j.pc = "putting" PROVE Slot(j.grant) # Slot(g)
        BY <1>1, <1>2, <3>2, <3>3 DEF GrantInv, OneAdmission, Admitting, AdmissionOfPc
      <3>4. j.pc = "putting" => \A x \in stored' : Slot(x) = Slot(j.grant) /\ x # j.grant => x \in j.olds \/ Over(x)'
        <4> SUFFICES ASSUME j.pc = "putting", NEW x \in stored', Slot(x) = Slot(j.grant), x # j.grant
                     PROVE  x \in j.olds \/ Over(x)'
          OBVIOUS
        <4>1. x \in stored /\ x \in Entry
          BY <2>7, <3>3 DEF Entry
        <4> QED  BY <2>9, <3>2, <4>1 DEF SubmitOK
      <3>5. /\ j.pc = "revoked" => j.grant \in Entry
            /\ j.pc \in {"stopping", "marked", "ending"} => j.live \subseteq Entry
        BY DEF SubmitsOf, Entry, SubmitIdle
      <3>6. j.pc = "revoked" => Over(j.grant)'
        BY <2>9, <3>2, <3>5 DEF SubmitOK
      <3>7. j.pc \in {"stopping", "marked"} =>
               \A x \in j.live : Key(x) = StopOf[j.stop].key /\ (x \in stored' \/ Over(x)')
        BY <2>7, <2>9, <3>2, <3>5 DEF SubmitOK
      <3>8. j.pc = "ending" => \A x \in j.live : x \in j.todo \/ Over(x)'
        BY <2>9, <3>2, <3>5 DEF SubmitOK
      <3>9. SubmitOK(j)'
        BY <3>4, <3>6, <3>7, <3>8 DEF SubmitOK
      <3> QED  BY <3>2, <3>9
    <2>11. SubmitOK(submits[h])'
      BY <2>2, <2>3 DEF SubmitOK, AdmissionOfPc
    <2>12. OneAdmission'
      BY <1>1, <1>2, <2>2, <2>3 DEF GrantInv, OneAdmission, Admitting, AdmissionOfPc
    <2> QED  BY <2>6, <2>8, <2>10, <2>11, <2>12 DEF GrantInv
  <1> QED  BY <1>2, <1>4, <1>5 DEF GrantPuts, Done

(***************************************************************************)
(* The clock, the process, and what touches neither list nor grants.       *)
(***************************************************************************)
LEMMA NobodyMoves ==
    ASSUME GrantInv, ListGrows, UNCHANGED <<stored, submits, takenBack>> PROVE GrantInv'
  <1>1. StoreTypes' /\ OutInv' /\ OneAdmission'
    BY OutStands DEF GrantInv, StoreTypes, ListGrows, OneAdmission
  <1>2. \A j \in SubmitsOf : SubmitOK(j) => SubmitOK(j)'
    BY SubmitStands DEF GrantInv, StoreTypes
  <1>3. \A i \in Submits : submits[i] \in SubmitsOf /\ SubmitOK(submits[i]) /\ submits'[i] = submits[i]
    BY DEF GrantInv, StoreTypes
  <1>4. \A i \in Submits : SubmitOK(submits[i])'
    BY <1>2, <1>3
  <1> QED  BY <1>1, <1>4 DEF GrantInv

LEMMA StepTimePasses == ASSUME GrantInv, TimePasses PROVE GrantInv'
  <1>1. ListGrows
    BY ExpiresIsNumber DEF TimePasses, ListGrows, GrantInv, StoreTypes
  <1> QED  BY <1>1, NobodyMoves DEF TimePasses

LEMMA StepGrantsRestart == ASSUME GrantInv, GrantsRestart PROVE GrantInv'
  <1>1. /\ listed' = {e \in listFile : ~Lapsed(e)} /\ submits' = [h \in Submits |-> SubmitIdle]
        /\ UNCHANGED <<now, stored, listFile, takenBack>>
    BY DEF GrantsRestart
  <1>2. OutInv'
    BY <1>1 DEF GrantInv, OutInv, Lapsed
  <1>3. StoreTypes'
    BY <1>1, IdleIsFine DEF GrantInv, StoreTypes
  <1>4. \A h \in Submits : SubmitOK(submits[h])' /\ ~Admitting(submits'[h])
    BY <1>1, IdleIsFine
  <1> QED  BY <1>2, <1>3, <1>4 DEF GrantInv, OneAdmission

LEMMA StepBookOnly ==
    ASSUME GrantInv, UNCHANGED <<now, stored, listed, listFile, submits, takenBack>> PROVE GrantInv'
  BY ListStays, NobodyMoves DEF GrantInv

LEMMA GrantStep == ASSUME PatientPhone, GrantInv, [GrantsNext]_grantVars PROVE GrantInv'
  <1>1. ASSUME NEW r \in RequestIds, RaiseRequest(r) \/ DenyRequest(r) PROVE GrantInv'
    BY <1>1, StepBookOnly DEF RaiseRequest, DenyRequest
  <1>2. CASE ReadBook
    BY <1>2, StepBookOnly DEF ReadBook
  <1>3. ASSUME NEW p \in UserPhones, Rebinds(p) PROVE GrantInv'
    BY <1>3, StepBookOnly DEF Rebinds
  <1>4. CASE UNCHANGED grantVars
    BY <1>4, StepBookOnly DEF grantVars
  <1> QED  BY <1>1, <1>2, <1>3, <1>4, StepGrantArrives, StepRevokeArrives, StepGrantFindsOlds, StepGrantEndsOld,
              StepGrantPuts, StepGrantResolves, StepRevokeLists, StepRevokeResolves, StepStopArrives, StepStopMarksUsed,
              StepStopFinds, StepStopEndsGrant, StepStopResolves, StepTimePasses, StepGrantsRestart DEF GrantsNext

\* The inductive invariant.
THEOREM GrantInvariant == ASSUME PatientPhone PROVE GrantsSpec => []GrantInv
  <1>1. GrantsInit => GrantInv
    BY GrantInvInit
  <1>2. GrantInv /\ [GrantsNext]_grantVars => GrantInv'
    BY GrantStep
  <1> QED  BY <1>1, <1>2, PTL DEF GrantsSpec

\* A grant whose end the phone was told of, by itself, with its key or by a newer
\* one, is never live again (_live_grants), for any number of grants and phones.
THEOREM TakenBackAlwaysStaysOut == ASSUME PatientPhone PROVE GrantsSpec => []TakenBackStaysOut
  <1>1. GrantInv => TakenBackStaysOut
    BY DEF GrantInv, OutInv, TakenBackStaysOut, Live, Revoked
  <1> QED  BY <1>1, GrantInvariant, PTL

(***************************************************************************)
(* The book of requests.  A step leaves a request as it was, ends an open  *)
(* one, or forgets it; only a raise opens one, in a slot that has none.    *)
(***************************************************************************)
Raised(b) ==
    /\ b = [status |-> b.status, asks |-> b.asks, slot |-> b.slot, raised |-> b.raised, names |-> b.names]
    /\ b.status \in RequestStates /\ b.raised \in Nat
RequestOK(b) == b = NoRequest \/ b = Forgotten \/ Raised(b)

\* From a, the request a step may leave without opening it.
MayLeave(a, b) ==
    b = a \/ (RequestOK(b) /\ b.status # "open" /\ (a.status \in RequestStates \ {"open"} => b.status = "gone"))

BookInv ==
    /\ now \in Nat
    /\ requests = [r \in RequestIds |-> requests[r]]
    /\ \A r \in RequestIds : RequestOK(requests[r])
    /\ OneOpenRequest

EndsOnce ==
    \A r \in RequestIds :
        requests[r].status \in RequestStates \ {"open"} => requests'[r] = requests[r] \/ requests'[r].status = "gone"

LEMMA BookInvInit == ASSUME GrantsInit PROVE BookInv
  BY DEF GrantsInit, BookInv, RequestOK, OneOpenRequest, Open, NoRequest

\* A status changes to an end.
LEMMA EndsRequest ==
    ASSUME NEW b, Raised(b), NEW s \in RequestStates \ {"open"}
    PROVE  Raised([b EXCEPT !.status = s]) /\ [b EXCEPT !.status = s].status = s
  <1>1. [b EXCEPT !.status = s]
          = [status |-> s, asks |-> b.asks, slot |-> b.slot, raised |-> b.raised, names |-> b.names]
    BY DEF Raised
  <1> QED  BY <1>1 DEF Raised

LEMMA BookStep ==
    ASSUME BookInv, now' \in Nat, requests' = [r \in RequestIds |-> requests'[r]],
           \A r \in RequestIds : MayLeave(requests[r], requests'[r])
    PROVE  BookInv' /\ EndsOnce
  BY DEF BookInv, OneOpenRequest, Open, EndsOnce, MayLeave

LEMMA SweptLeaves ==
    ASSUME BookInv, NEW r \in RequestIds PROVE MayLeave(requests[r], Swept(r)) /\ RequestOK(Swept(r))
  <1>1. RequestOK(requests[r])
    BY DEF BookInv
  <1>2. CASE requests[r].status = "open"
    <2>1. Raised(requests[r])
      BY <1>1, <1>2 DEF RequestOK, NoRequest, Forgotten
    <2>2. Swept(r) \in {requests[r], Forgotten, [requests[r] EXCEPT !.status = "expired"]}
      BY <1>2, Zenon DEF Swept, RequestStates
    <2>3. CASE Swept(r) \in {requests[r], Forgotten}
      BY <1>1, <2>3 DEF MayLeave, RequestOK, Forgotten
    <2>4. CASE Swept(r) = [requests[r] EXCEPT !.status = "expired"]
      <3>1. Raised(Swept(r)) /\ Swept(r).status = "expired"
        BY <2>1, <2>4, EndsRequest DEF RequestStates
      <3> QED  BY <1>2, <3>1 DEF MayLeave, RequestOK, RequestStates
    <2> QED  BY <2>2, <2>3, <2>4
  <1>3. CASE requests[r].status # "open"
    <2>1. Swept(r) \in {requests[r], Forgotten}
      BY <1>3, Zenon DEF Swept
    <2> QED  BY <1>1, <2>1 DEF MayLeave, RequestOK, Forgotten
  <1> QED  BY <1>2, <1>3

LEMMA StepReadBook == ASSUME BookInv, ReadBook PROVE BookInv' /\ EndsOnce
  <1>1. now' = now /\ requests' = [r \in RequestIds |-> Swept(r)]
    BY DEF ReadBook, SweptBook
  <1> QED  BY <1>1, SweptLeaves, BookStep DEF BookInv

LEMMA StepDenyRequest == ASSUME BookInv, NEW q \in RequestIds, DenyRequest(q) PROVE BookInv' /\ EndsOnce
  <1>1. now' = now /\ requests' = [SweptBook EXCEPT ![q].status = "denied"] /\ Swept(q).status = "open"
    BY DEF DenyRequest, Open, SweptBook
  <1>2. requests' = [r \in RequestIds |-> IF r = q THEN [Swept(q) EXCEPT !.status = "denied"] ELSE Swept(r)]
    BY <1>1 DEF SweptBook
  <1>3. Raised(Swept(q)) /\ Swept(q) = requests[q]
    BY <1>1, SweptLeaves DEF RequestOK, NoRequest, Forgotten, MayLeave
  <1>4. \A r \in RequestIds : MayLeave(requests[r], requests'[r])
    <2>1. MayLeave(requests[q], requests'[q])
      <3>1. requests'[q] = [requests[q] EXCEPT !.status = "denied"] /\ requests[q].status = "open"
        BY <1>1, <1>2, <1>3
      <3>2. Raised(requests'[q]) /\ requests'[q].status = "denied"
        BY <1>3, <3>1, EndsRequest DEF RequestStates
      <3> QED  BY <3>1, <3>2 DEF MayLeave, RequestOK
    <2> QED  BY <1>2, <2>1, SweptLeaves
  <1> QED  BY <1>1, <1>2, <1>4, BookStep DEF BookInv

LEMMA BookGrantResolves ==
    ASSUME BookInv, NEW g, now' = now, requests' = ResolvedByGrant(g) PROVE BookInv' /\ EndsOnce
  <1>1. \A r \in RequestIds : MayLeave(requests[r], requests'[r])
    <2> SUFFICES ASSUME NEW r \in RequestIds PROVE MayLeave(requests[r], requests'[r])
      OBVIOUS
    <2>1. requests'[r] = requests[r]
          \/ (requests[r].status = "open" /\ requests'[r] = [requests[r] EXCEPT !.status = "admitted", !.names = {g}])
      BY DEF ResolvedByGrant, Open
    <2>2. ASSUME requests[r].status = "open" PROVE Raised(requests[r])
      BY <2>2 DEF BookInv, RequestOK, NoRequest, Forgotten
    <2>3. ASSUME NEW b, Raised(b)
          PROVE  /\ Raised([b EXCEPT !.status = "admitted", !.names = {g}])
                 /\ [b EXCEPT !.status = "admitted", !.names = {g}].status = "admitted"
      <3>1. [b EXCEPT !.status = "admitted"]
              = [status |-> "admitted", asks |-> b.asks, slot |-> b.slot, raised |-> b.raised, names |-> b.names]
        BY <2>3 DEF Raised
      <3>2. [[b EXCEPT !.status = "admitted"] EXCEPT !.names = {g}]
              = [status |-> "admitted", asks |-> b.asks, slot |-> b.slot, raised |-> b.raised, names |-> {g}]
        <4>1. PICK c : c = [status |-> "admitted", asks |-> b.asks, slot |-> b.slot, raised |-> b.raised,
                            names |-> b.names]
          OBVIOUS
        <4>2. [c EXCEPT !.names = {g}]
                = [status |-> "admitted", asks |-> b.asks, slot |-> b.slot, raised |-> b.raised, names |-> {g}]
          BY <4>1
        <4> QED  BY <3>1, <4>1, <4>2
      <3>3. [b EXCEPT !.status = "admitted", !.names = {g}] = [[b EXCEPT !.status = "admitted"] EXCEPT !.names = {g}]
        OBVIOUS
      <3> QED  BY <2>3, <3>2, <3>3 DEF Raised, RequestStates
    <2> QED  BY <2>1, <2>2, <2>3 DEF MayLeave, RequestOK
  <1> QED  BY <1>1, BookStep DEF BookInv, ResolvedByGrant

LEMMA BookRevokeResolves ==
    ASSUME BookInv, NEW gs, now' = now, requests' = ResolvedByRevoke(gs) PROVE BookInv' /\ EndsOnce
  <1>1. \A r \in RequestIds : MayLeave(requests[r], requests'[r])
    <2> SUFFICES ASSUME NEW r \in RequestIds PROVE MayLeave(requests[r], requests'[r])
      OBVIOUS
    <2>1. requests'[r] = requests[r]
          \/ (requests[r].status = "open" /\ requests'[r] = [requests[r] EXCEPT !.status = "revoked"])
      BY DEF ResolvedByRevoke, Open
    <2>2. ASSUME requests[r].status = "open" PROVE Raised(requests[r])
      BY <2>2 DEF BookInv, RequestOK, NoRequest, Forgotten
    <2>3. CASE requests[r].status = "open" /\ requests'[r] = [requests[r] EXCEPT !.status = "revoked"]
      <3>1. Raised(requests'[r]) /\ requests'[r].status = "revoked"
        BY <2>2, <2>3, EndsRequest DEF RequestStates
      <3> QED  BY <2>3, <3>1 DEF MayLeave, RequestOK, RequestStates
    <2> QED  BY <2>1, <2>3 DEF MayLeave, BookInv
  <1> QED  BY <1>1, BookStep DEF BookInv, ResolvedByRevoke

LEMMA StepRestartsBook == ASSUME BookInv, GrantsRestart PROVE BookInv' /\ EndsOnce
  <1>1. now' = now /\ requests' = [r \in RequestIds |-> IF requests[r] = NoRequest THEN NoRequest ELSE Forgotten]
    BY DEF GrantsRestart
  <1>2. \A r \in RequestIds : MayLeave(requests[r], requests'[r])
    BY <1>1 DEF MayLeave, RequestOK, NoRequest, Forgotten
  <1> QED  BY <1>1, <1>2, BookStep DEF BookInv

LEMMA StepRaiseRequest == ASSUME BookInv, NEW q \in RequestIds, RaiseRequest(q) PROVE BookInv' /\ EndsOnce
  <1>1. PICK slot \in Slots, asks \in {"grant", "revoke"}, names \in SUBSET LiveGrants :
            /\ ~SlotTaken(slot)
            /\ requests' = [SweptBook EXCEPT ![q] =
                  [status |-> "open", asks |-> asks, slot |-> slot, raised |-> now, names |-> names]]
    BY DEF RaiseRequest
  <1> DEFINE new == [status |-> "open", asks |-> asks, slot |-> slot, raised |-> now, names |-> names]
  <1>2. now' = now /\ requests[q] = NoRequest /\ now \in Nat
    BY DEF RaiseRequest, BookInv
  <1>3. requests' = [r \in RequestIds |-> IF r = q THEN new ELSE Swept(r)]
    BY <1>1 DEF SweptBook
  <1>4. RequestOK(new)
    BY <1>2 DEF RequestOK, Raised, RequestStates
  <1>5. \A r \in RequestIds \ {q} :
           /\ RequestOK(requests'[r]) /\ MayLeave(requests[r], requests'[r])
           /\ Open(requests', r) => Open(requests, r) /\ requests'[r] = requests[r] /\ requests[r].slot # slot
    <2> SUFFICES ASSUME NEW r \in RequestIds \ {q}
                 PROVE  /\ RequestOK(requests'[r]) /\ MayLeave(requests[r], requests'[r])
                        /\ Open(requests', r) => Open(requests, r) /\ requests'[r] = requests[r] /\ requests[r].slot # slot
      OBVIOUS
    <2>1. requests'[r] = Swept(r) /\ RequestOK(Swept(r)) /\ MayLeave(requests[r], Swept(r))
      BY <1>3, SweptLeaves
    <2>2. Swept(r).status = "open" => Swept(r).slot # slot
      BY <1>1 DEF SlotTaken, Open, SweptBook
    <2> QED  BY <2>1, <2>2 DEF Open, MayLeave
  <1>6. requests'[q] = new /\ new.status = "open" /\ new.slot = slot
    BY <1>3
  <1>7. OneOpenRequest'
    <2> HIDE DEF new
    <2> QED  BY <1>5, <1>6 DEF BookInv, OneOpenRequest, Open
  <1>8. EndsOnce
    BY <1>2, <1>5 DEF EndsOnce, MayLeave, NoRequest, RequestStates
  <1>9. \A r \in RequestIds : RequestOK(requests'[r])
    <2> HIDE DEF new
    <2> QED  BY <1>4, <1>5, <1>6
  <1> QED  BY <1>2, <1>3, <1>7, <1>8, <1>9 DEF BookInv

LEMMA StepBookStands == ASSUME BookInv, now' \in Nat, requests' = requests PROVE BookInv' /\ EndsOnce
  BY DEF BookInv, OneOpenRequest, Open, EndsOnce

LEMMA BookNext == ASSUME BookInv, [GrantsNext]_grantVars PROVE BookInv' /\ EndsOnce
  <1>1. ASSUME NEW h \in Submits, NEW g \in GrantIds, GrantArrives(h, g) \/ RevokeArrives(h, g)
        PROVE  BookInv' /\ EndsOnce
    BY <1>1, StepBookStands DEF GrantArrives, RevokeArrives, BookInv
  <1>2. ASSUME NEW h \in Submits, \/ GrantFindsOlds(h) \/ GrantEndsOld(h) \/ GrantPuts(h) \/ RevokeLists(h)
                                  \/ StopMarksUsed(h) \/ StopFinds(h) \/ StopEndsGrant(h)
        PROVE  BookInv' /\ EndsOnce
    BY <1>2, StepBookStands
       DEF GrantFindsOlds, GrantEndsOld, GrantPuts, RevokeLists, StopMarksUsed, StopFinds, StopEndsGrant, BookInv
  <1>3. ASSUME NEW h \in Submits, GrantResolves(h) \/ RevokeResolves(h) \/ StopResolves(h) PROVE BookInv' /\ EndsOnce
    BY <1>3, BookGrantResolves, BookRevokeResolves DEF GrantResolves, RevokeResolves, StopResolves
  <1>4. ASSUME NEW h \in Submits, NEW s \in StopIds, StopArrives(h, s) PROVE BookInv' /\ EndsOnce
    BY <1>4, StepBookStands DEF StopArrives, BookInv
  <1>5. ASSUME NEW p \in UserPhones, Rebinds(p) PROVE BookInv' /\ EndsOnce
    BY <1>5, StepBookStands DEF Rebinds, BookInv
  <1>6. CASE TimePasses
    BY <1>6, StepBookStands DEF TimePasses, BookInv
  <1>7. CASE UNCHANGED grantVars
    BY <1>7, StepBookStands DEF grantVars, BookInv
  <1> QED  BY <1>1, <1>2, <1>3, <1>4, <1>5, <1>6, <1>7, StepReadBook, StepDenyRequest, StepRaiseRequest,
              StepRestartsBook DEF GrantsNext

\* A slot has one open request at most, whatever was raised, approved, withdrawn or forgotten before.
THEOREM BookInvariant == GrantsSpec => []BookInv
  <1>1. GrantsInit => BookInv
    BY BookInvInit
  <1>2. BookInv /\ [GrantsNext]_grantVars => BookInv'
    BY BookNext
  <1> QED  BY <1>1, <1>2, PTL DEF GrantsSpec

\* A request that ended never opens again and a slot never has two open, for any number of requests and grants
\* (grant_request.py: GrantRequestBook).
THEOREM RequestBookIsAlwaysKept == GrantsSpec => RequestBookIsKept
  <1>1. BookInv => OneOpenRequest
    BY DEF BookInv
  <1>2. BookInv /\ [GrantsNext]_grantVars => [EndsOnce]_grantVars
    BY BookNext
  <1> QED  BY <1>1, <1>2, BookInvariant, PTL DEF GrantsSpec, RequestBookIsKept, RequestEndsOnce, EndsOnce

(***************************************************************************)
(* The types of grants and requests, also where a phone is not patient: an *)
(* invariant of their own, with the shape of a request from BookInv.       *)
(***************************************************************************)
TypedRequest(b) ==
    b \in {NoRequest, Forgotten} \/
       /\ b.status \in RequestStates /\ b.asks \in {"grant", "revoke"}
       /\ b.slot \in Slots /\ b.raised \in 0..LastTime
       /\ b.names \subseteq GrantIds

TypedGrants ==
    /\ now \in 0..LastTime
    /\ bound \in UserPhones
    /\ stored \subseteq GrantIds /\ takenBack \subseteq GrantIds
    /\ \A g, h \in stored : Slot(g) = Slot(h) => g = h
    /\ listFile \subseteq Entry /\ listed \subseteq Entry
TypedRaises == raises \subseteq [request : RequestIds, at : 0..LastTime]
TypedBook == \A r \in RequestIds : TypedRequest(requests[r])
TypedSubmits == submits \in [Submits -> SubmitsOf]

LEMMA GrantsByPart ==
    /\ GrantsTypeOK <=> TypedGrants /\ TypedRaises /\ TypedBook /\ TypedSubmits
    /\ GrantsTypeOK' <=> TypedGrants' /\ TypedRaises' /\ TypedBook' /\ TypedSubmits'
  BY DEF GrantsTypeOK, TypedGrants, TypedRaises, TypedBook, TypedRequest, TypedSubmits, SubmitsOf

(***************************************************************************)
(* The phone's requests.                                                   *)
(***************************************************************************)
LEMMA PutTyped == ASSUME TypedGrants, NEW g \in GrantIds, Put(g) PROVE
    stored' \subseteq GrantIds /\ \A x, y \in stored' : Slot(x) = Slot(y) => x = y
  BY DEF TypedGrants, Put, Beside

LEMMA ListsTyped ==
    ASSUME TypedGrants, NEW e \in Entry, Lists(e) \/ ListsUnsaved(e) PROVE listed' \subseteq Entry /\ listFile' \subseteq Entry
  BY DEF TypedGrants, Lists, ListsUnsaved

\* A handler that admits a grant goes on.
LEMMA AdmissionMoves ==
    ASSUME TypedGrants, TypedSubmits, NEW h \in Submits,
           GrantFindsOlds(h) \/ GrantEndsOld(h) \/ GrantPuts(h) \/ GrantResolves(h)
    PROVE  (\E to \in SubmitsOf : Becomes(h, to)) /\ submits[h].grant \in GrantIds /\ submits[h].olds \subseteq GrantIds
  <1>1. PICK g \in GrantIds, o \in SUBSET GrantIds, pc \in {"admissible", "putting", "resolving"} :
            submits[h] = [pc |-> pc, grant |-> g, olds |-> o]
    BY DEF GrantFindsOlds, GrantEndsOld, GrantPuts, GrantResolves, TypedSubmits, SubmitsOf, SubmitIdle
  <1>2. SubmitIdle \in SubmitsOf
    BY DEF SubmitsOf
  <1>3. Olds(g) \in SUBSET GrantIds
    BY DEF Olds, TypedGrants
  <1>4. \A p \in {"putting", "resolving"}, l \in SUBSET GrantIds : [pc |-> p, grant |-> g, olds |-> l] \in SubmitsOf
    BY DEF SubmitsOf
  <1>5. /\ [submits[h] EXCEPT !.pc = "resolving"] = [pc |-> "resolving", grant |-> g, olds |-> o]
        /\ \A x : [submits[h] EXCEPT !.olds = @ \ {x}] = [pc |-> pc, grant |-> g, olds |-> o \ {x}]
    BY <1>1
  <1>6. CASE GrantFindsOlds(h)
    <2>1. Becomes(h, [submits[h] EXCEPT !.pc = "putting", !.olds = Olds(g)])
      BY <1>1, <1>6 DEF GrantFindsOlds
    <2>2. PICK l \in SUBSET GrantIds : l = Olds(g)
      BY <1>3
    <2>3. PICK j : j = [submits[h] EXCEPT !.pc = "putting"]
      OBVIOUS
    <2>4. j = [pc |-> "putting", grant |-> g, olds |-> o]
      BY <1>1, <2>3
    <2>5. [j EXCEPT !.olds = l] = [pc |-> "putting", grant |-> g, olds |-> l]
      BY <2>4
    <2>6. Becomes(h, [pc |-> "putting", grant |-> g, olds |-> l])
      BY <2>1, <2>2, <2>3, <2>5
    <2> QED  BY <1>1, <1>4, <2>6
  <1>7. CASE GrantEndsOld(h)
    <2>1. pc = "putting" /\ \E x : Becomes(h, [submits[h] EXCEPT !.olds = @ \ {x}]) \/ Becomes(h, SubmitIdle)
      BY <1>1, <1>7 DEF GrantEndsOld, Done
    <2> QED  BY <1>1, <1>2, <1>4, <1>5, <2>1
  <1>8. CASE GrantPuts(h)
    <2>1. Becomes(h, [submits[h] EXCEPT !.pc = "resolving"]) \/ Becomes(h, SubmitIdle)
      BY <1>8 DEF GrantPuts, Done
    <2> QED  BY <1>1, <1>2, <1>4, <1>5, <2>1
  <1>9. CASE GrantResolves(h)
    BY <1>1, <1>2, <1>9 DEF GrantResolves, Done
  <1> QED  BY <1>6, <1>7, <1>8, <1>9

LEMMA RevokeMoves ==
    ASSUME TypedSubmits, NEW h \in Submits, RevokeLists(h) \/ RevokeResolves(h)
    PROVE  (\E to \in SubmitsOf : Becomes(h, to)) /\ submits[h].grant \in GrantIds
  <1>1. PICK g \in GrantIds, pc \in {"revoking", "revoked"} : submits[h] = [pc |-> pc, grant |-> g]
    BY DEF RevokeLists, RevokeResolves, TypedSubmits, SubmitsOf, SubmitIdle
  <1>2. SubmitIdle \in SubmitsOf /\ [pc |-> "revoked", grant |-> g] \in SubmitsOf
    BY DEF SubmitsOf
  <1>3. [submits[h] EXCEPT !.pc = "revoked"] = [pc |-> "revoked", grant |-> g]
    BY <1>1
  <1>4. Becomes(h, [submits[h] EXCEPT !.pc = "revoked"]) \/ Becomes(h, SubmitIdle)
    BY DEF RevokeLists, RevokeResolves, Done
  <1> QED  BY <1>1, <1>2, <1>3, <1>4

LEMMA StopMoves ==
    ASSUME TypedSubmits, NEW h \in Submits, StopMarksUsed(h) \/ StopFinds(h) \/ StopEndsGrant(h) \/ StopResolves(h)
    PROVE  /\ \E to \in SubmitsOf : Becomes(h, to)
           /\ submits[h].stop \in StopIds /\ submits[h].live \subseteq GrantIds /\ submits[h].todo \subseteq GrantIds
  <1>1. PICK s \in StopIds, l \in SUBSET GrantIds, e \in SUBSET GrantIds, t \in SUBSET GrantIds,
             pc \in {"stopping", "marked", "ending"} :
            submits[h] = [pc |-> pc, stop |-> s, live |-> l, ends |-> e, todo |-> t]
    BY DEF StopMarksUsed, StopFinds, StopEndsGrant, StopResolves, TypedSubmits, SubmitsOf, SubmitIdle
  <1>2. SubmitIdle \in SubmitsOf
    BY DEF SubmitsOf
  <1>3. EndedBy(s) \in SUBSET GrantIds
    BY DEF EndedBy, LiveGrants
  <1>4. \A p \in {"marked", "ending"}, d \in SUBSET GrantIds, x \in SUBSET GrantIds :
            [pc |-> p, stop |-> s, live |-> l, ends |-> d, todo |-> x] \in SubmitsOf
    BY DEF SubmitsOf
  <1>5. /\ [submits[h] EXCEPT !.pc = "marked"] = [pc |-> "marked", stop |-> s, live |-> l, ends |-> e, todo |-> t]
        /\ \A x : [submits[h] EXCEPT !.todo = @ \ {x}] = [pc |-> pc, stop |-> s, live |-> l, ends |-> e, todo |-> t \ {x}]
    BY <1>1
  <1>6. CASE StopMarksUsed(h)
    <2>1. Becomes(h, [submits[h] EXCEPT !.pc = "marked"]) \/ Becomes(h, SubmitIdle)
      BY <1>6 DEF StopMarksUsed, Done
    <2> QED  BY <1>1, <1>2, <1>4, <1>5, <2>1
  <1>7. CASE StopFinds(h)
    <2>1. Becomes(h, [submits[h] EXCEPT !.pc = "ending", !.ends = EndedBy(s), !.todo = EndedBy(s)])
      BY <1>1, <1>7 DEF StopFinds
    <2>2. PICK d \in SUBSET GrantIds : d = EndedBy(s)
      BY <1>3
    <2>3. PICK i : i = [submits[h] EXCEPT !.pc = "ending"]
      OBVIOUS
    <2>4. i = [pc |-> "ending", stop |-> s, live |-> l, ends |-> e, todo |-> t]
      BY <1>1, <2>3
    <2>5. PICK j : j = [i EXCEPT !.ends = d]
      OBVIOUS
    <2>6. j = [pc |-> "ending", stop |-> s, live |-> l, ends |-> d, todo |-> t]
      BY <2>4, <2>5
    <2>7. [j EXCEPT !.todo = d] = [pc |-> "ending", stop |-> s, live |-> l, ends |-> d, todo |-> d]
      BY <2>6
    <2>8. Becomes(h, [pc |-> "ending", stop |-> s, live |-> l, ends |-> d, todo |-> d])
      BY <2>1, <2>2, <2>3, <2>5, <2>7
    <2> QED  BY <1>1, <1>4, <2>8
  <1>8. CASE StopEndsGrant(h)
    <2>1. pc = "ending"
      BY <1>1, <1>8 DEF StopEndsGrant
    <2>2. PICK x : Becomes(h, [submits[h] EXCEPT !.todo = @ \ {x}]) \/ Becomes(h, SubmitIdle)
      BY <1>8 DEF StopEndsGrant, Done
    <2>3. [submits[h] EXCEPT !.todo = @ \ {x}] = [pc |-> pc, stop |-> s, live |-> l, ends |-> e, todo |-> t \ {x}]
      BY <1>5
    <2>4. [pc |-> pc, stop |-> s, live |-> l, ends |-> e, todo |-> t \ {x}] \in SubmitsOf
      BY <1>4, <2>1
    <2> QED  BY <1>1, <1>2, <2>2, <2>3, <2>4
  <1>9. CASE StopResolves(h)
    BY <1>1, <1>2, <1>9 DEF StopResolves, Done
  <1> QED  BY <1>6, <1>7, <1>8, <1>9

LEMMA ArrivalMoves ==
    ASSUME NEW h \in Submits,
           \/ \E g \in GrantIds : GrantArrives(h, g) \/ RevokeArrives(h, g)
           \/ \E s \in StopIds : StopArrives(h, s)
    PROVE  \E to \in SubmitsOf : Becomes(h, to)
  <1>1. \A g \in GrantIds : /\ [pc |-> "admissible", grant |-> g, olds |-> {}] \in SubmitsOf
                            /\ [pc |-> "revoking", grant |-> g] \in SubmitsOf
    BY DEF SubmitsOf
  <1>2. \A s \in StopIds : [pc |-> "stopping", stop |-> s, ends |-> {}, todo |-> {},
                            live |-> {g \in LiveGrants : Key(g) = StopOf[s].key}] \in SubmitsOf
    BY DEF SubmitsOf, LiveGrants
  <1>3. CASE \E g \in GrantIds : GrantArrives(h, g) \/ RevokeArrives(h, g)
    BY <1>1, <1>3 DEF GrantArrives, RevokeArrives
  <1>4. CASE \E s \in StopIds : StopArrives(h, s)
    BY <1>2, <1>4 DEF StopArrives
  <1> QED  BY <1>3, <1>4

LEMMA MovesTyped == ASSUME TypedSubmits, NEW h \in Submits, \E to \in SubmitsOf : Becomes(h, to) PROVE TypedSubmits'
  BY DEF TypedSubmits, Becomes

(***************************************************************************)
(* The book.                                                               *)
(***************************************************************************)
LEMMA StatusTyped ==
    ASSUME NEW b, Raised(b), TypedRequest(b), NEW s \in RequestStates PROVE TypedRequest([b EXCEPT !.status = s])
  <1>1. [b EXCEPT !.status = s]
          = [status |-> s, asks |-> b.asks, slot |-> b.slot, raised |-> b.raised, names |-> b.names]
    BY DEF Raised
  <1>2. b \notin {NoRequest, Forgotten}
    BY DEF Raised, NoRequest, Forgotten, RequestStates
  <1> QED  BY <1>1, <1>2 DEF TypedRequest

LEMMA NamesTyped ==
    ASSUME NEW b, Raised(b), TypedRequest(b), NEW g \in GrantIds
    PROVE  TypedRequest([b EXCEPT !.status = "admitted", !.names = {g}])
  <1>1. PICK c : c = [b EXCEPT !.status = "admitted"]
    OBVIOUS
  <1>2. c = [status |-> "admitted", asks |-> b.asks, slot |-> b.slot, raised |-> b.raised, names |-> b.names]
    BY <1>1 DEF Raised
  <1>3. [c EXCEPT !.names = {g}]
          = [status |-> "admitted", asks |-> b.asks, slot |-> b.slot, raised |-> b.raised, names |-> {g}]
    BY <1>2
  <1>4. [b EXCEPT !.status = "admitted", !.names = {g}] = [c EXCEPT !.names = {g}]
    BY <1>1
  <1>5. b \notin {NoRequest, Forgotten}
    BY DEF Raised, NoRequest, Forgotten, RequestStates
  <1> QED  BY <1>3, <1>4, <1>5 DEF TypedRequest, RequestStates

\* A request that has a status of the book is a raised one.
LEMMA RaisedOne ==
    ASSUME BookInv, NEW r \in RequestIds, requests[r].status \in RequestStates PROVE Raised(requests[r])
  BY DEF BookInv, RequestOK, NoRequest, Forgotten, RequestStates

LEMMA SweptTyped == ASSUME BookInv, TypedBook, NEW r \in RequestIds PROVE TypedRequest(Swept(r))
  <1>1. Swept(r) \in {requests[r], Forgotten}
        \/ (requests[r].status = "open" /\ Swept(r) = [requests[r] EXCEPT !.status = "expired"])
    <2>1. CASE requests[r].status = "open"
      <3>1. Swept(r) \in {requests[r], Forgotten, [requests[r] EXCEPT !.status = "expired"]}
        BY <2>1, Zenon DEF Swept, RequestStates
      <3> QED  BY <2>1, <3>1
    <2>2. CASE requests[r].status # "open"
      BY <2>2, Zenon DEF Swept
    <2> QED  BY <2>1, <2>2
  <1>2. TypedRequest(requests[r]) /\ TypedRequest(Forgotten)
    BY DEF TypedBook, TypedRequest
  <1>3. requests[r].status = "open" => Raised(requests[r])
    BY RaisedOne DEF RequestStates
  <1>4. "expired" \in RequestStates
    BY DEF RequestStates
  <1> QED  BY <1>1, <1>2, <1>3, <1>4, StatusTyped

LEMMA ReadTyped == ASSUME BookInv, TypedBook, ReadBook PROVE TypedBook'
  <1>1. requests' = [r \in RequestIds |-> Swept(r)]
    BY DEF ReadBook, SweptBook
  <1> QED  BY <1>1, SweptTyped DEF TypedBook, TypedRequest

LEMMA DenyTyped == ASSUME BookInv, TypedBook, NEW q \in RequestIds, DenyRequest(q) PROVE TypedBook'
  <1>1. requests' = [SweptBook EXCEPT ![q].status = "denied"] /\ Swept(q).status = "open"
    BY DEF DenyRequest, Open, SweptBook
  <1>2. \A r \in RequestIds : requests'[r] = IF r = q THEN [Swept(q) EXCEPT !.status = "denied"] ELSE Swept(r)
    BY <1>1 DEF SweptBook
  <1>3. Raised(Swept(q))
    BY <1>1, SweptLeaves DEF RequestOK, NoRequest, Forgotten
  <1>4. "denied" \in RequestStates
    BY DEF RequestStates
  <1>5. \A r \in RequestIds : TypedRequest(requests'[r])
    BY <1>2, <1>3, <1>4, SweptTyped, StatusTyped
  <1> QED  BY <1>5 DEF TypedBook, TypedRequest

LEMMA GrantResolvesTyped ==
    ASSUME BookInv, TypedBook, NEW g \in GrantIds, requests' = ResolvedByGrant(g) PROVE TypedBook'
  <1>1. ASSUME NEW r \in RequestIds PROVE TypedRequest(requests'[r])
    <2>1. \/ requests'[r] = requests[r]
          \/ /\ requests[r].status = "open"
             /\ requests'[r] = [requests[r] EXCEPT !.status = "admitted", !.names = {g}]
      BY DEF ResolvedByGrant, Open
    <2>2. TypedRequest(requests[r])
      BY DEF TypedBook
    <2>3. CASE requests[r].status = "open"
      <3>1. Raised(requests[r])
        BY <2>3, RaisedOne DEF RequestStates
      <3>2. TypedRequest([requests[r] EXCEPT !.status = "admitted", !.names = {g}])
        BY <2>2, <3>1, NamesTyped
      <3> QED  BY <2>1, <2>2, <3>2, Zenon
    <2> QED  BY <2>1, <2>2, <2>3
  <1> QED  BY <1>1 DEF TypedBook, TypedRequest

LEMMA RevokeResolvesTyped ==
    ASSUME BookInv, TypedBook, NEW gs, requests' = ResolvedByRevoke(gs) PROVE TypedBook'
  <1>1. ASSUME NEW r \in RequestIds PROVE TypedRequest(requests'[r])
    <2>1. \/ requests'[r] = requests[r]
          \/ requests[r].status = "open" /\ requests'[r] = [requests[r] EXCEPT !.status = "revoked"]
      BY DEF ResolvedByRevoke, Open
    <2>2. requests[r].status = "open" => Raised(requests[r])
      BY RaisedOne DEF RequestStates
    <2>3. TypedRequest(requests[r]) /\ "revoked" \in RequestStates
      BY DEF TypedBook, RequestStates
    <2> QED  BY <2>1, <2>2, <2>3, StatusTyped
  <1> QED  BY <1>1 DEF TypedBook, TypedRequest

LEMMA RaiseTyped ==
    ASSUME BookInv, TypedGrants, TypedBook, TypedRaises, NEW q \in RequestIds, RaiseRequest(q)
    PROVE  TypedBook' /\ TypedRaises'
  <1>1. PICK slot \in Slots, asks \in {"grant", "revoke"}, names \in SUBSET LiveGrants :
            requests' = [SweptBook EXCEPT ![q] =
                  [status |-> "open", asks |-> asks, slot |-> slot, raised |-> now, names |-> names]]
    BY DEF RaiseRequest
  <1> DEFINE new == [status |-> "open", asks |-> asks, slot |-> slot, raised |-> now, names |-> names]
  <1>2. TypedRequest(new)
    BY DEF TypedRequest, TypedGrants, RequestStates, LiveGrants
  <1>3. \A r \in RequestIds : requests'[r] = IF r = q THEN new ELSE Swept(r)
    BY <1>1 DEF SweptBook
  <1>4. \A r \in RequestIds : TypedRequest(requests'[r])
    <2> HIDE DEF new
    <2> QED  BY <1>2, <1>3, SweptTyped
  <1>5. raises' = Recent \union {[request |-> q, at |-> now]}
    BY DEF RaiseRequest
  <1> QED  BY <1>4, <1>5 DEF TypedBook, TypedRequest, TypedRaises, TypedGrants, Recent

(***************************************************************************)
(* The steps.                                                              *)
(***************************************************************************)
LEMMA GrantsTypesBegin == ASSUME GrantsInit PROVE GrantsTypeOK
  <1>1. TypedGrants /\ TypedRaises
    BY UserGrantsAssumption DEF GrantsInit, TypedGrants, TypedRaises
  <1>2. TypedBook /\ TypedSubmits
    BY DEF GrantsInit, TypedBook, TypedRequest, TypedSubmits, SubmitsOf
  <1> QED  BY <1>1, <1>2, GrantsByPart

LEMMA PhoneActs ==
    ASSUME TypedGrants, TypedBook, TypedSubmits, BookInv, NEW h \in Submits,
           \/ GrantFindsOlds(h) \/ GrantEndsOld(h) \/ GrantPuts(h) \/ GrantResolves(h)
           \/ RevokeLists(h) \/ RevokeResolves(h)
           \/ StopMarksUsed(h) \/ StopFinds(h) \/ StopEndsGrant(h) \/ StopResolves(h)
    PROVE  TypedGrants' /\ TypedBook' /\ TypedSubmits' /\ raises' = raises
  <1>1. CASE GrantFindsOlds(h)
    BY <1>1, AdmissionMoves, MovesTyped DEF GrantFindsOlds, TypedGrants, TypedBook, TypedRequest
  <1>2. CASE GrantEndsOld(h)
    <2>1. TypedSubmits' /\ submits[h].olds \subseteq GrantIds
      BY <1>2, AdmissionMoves, MovesTyped
    <2>2. PICK x \in submits[h].olds : Lists(x) \/ ListsUnsaved(x)
      BY <1>2 DEF GrantEndsOld
    <2>3. listed' \subseteq Entry /\ listFile' \subseteq Entry
      BY <2>1, <2>2, ListsTyped DEF Entry
    <2> QED  BY <1>2, <2>1, <2>3 DEF GrantEndsOld, TypedGrants, TypedBook, TypedRequest
  <1>3. CASE GrantPuts(h)
    <2>1. TypedSubmits' /\ submits[h].grant \in GrantIds
      BY <1>3, AdmissionMoves, MovesTyped
    <2>2. \/ /\ Put(submits[h].grant)
             /\ Answered({x \in stored : Slot(x) = Slot(submits[h].grant)} \ {submits[h].grant})
          \/ UNCHANGED <<stored, takenBack>>
      BY <1>3 DEF GrantPuts
    <2>3. /\ stored' \subseteq GrantIds /\ takenBack' \subseteq GrantIds
          /\ \A x, y \in stored' : Slot(x) = Slot(y) => x = y
      BY <2>1, <2>2, PutTyped DEF TypedGrants, Answered
    <2> QED  BY <1>3, <2>1, <2>3 DEF GrantPuts, TypedGrants, TypedBook, TypedRequest
  <1>4. CASE GrantResolves(h)
    <2>1. TypedSubmits' /\ submits[h].grant \in GrantIds
      BY <1>4, AdmissionMoves, MovesTyped
    <2> QED  BY <1>4, <2>1, GrantResolvesTyped DEF GrantResolves, TypedGrants
  <1>5. CASE RevokeLists(h)
    <2>1. TypedSubmits' /\ submits[h].grant \in Entry
      BY <1>5, RevokeMoves, MovesTyped DEF Entry
    <2>2. listed' \subseteq Entry /\ listFile' \subseteq Entry
      BY <1>5, <2>1, ListsTyped DEF RevokeLists
    <2> QED  BY <1>5, <2>1, <2>2 DEF RevokeLists, TypedGrants, TypedBook, TypedRequest
  <1>6. CASE RevokeResolves(h)
    <2>1. TypedSubmits' /\ submits[h].grant \in GrantIds
      BY <1>6, RevokeMoves, MovesTyped
    <2>2. takenBack' \subseteq GrantIds
      BY <1>6, <2>1 DEF RevokeResolves, Answered, TypedGrants
    <2> QED  BY <1>6, <2>1, <2>2, RevokeResolvesTyped DEF RevokeResolves, TypedGrants
  <1>7. CASE StopMarksUsed(h)
    <2>1. TypedSubmits' /\ submits[h].stop \in Entry
      BY <1>7, StopMoves, MovesTyped DEF Entry
    <2>2. listed' \subseteq Entry /\ listFile' \subseteq Entry
      BY <1>7, <2>1, ListsTyped DEF StopMarksUsed
    <2> QED  BY <1>7, <2>1, <2>2 DEF StopMarksUsed, TypedGrants, TypedBook, TypedRequest
  <1>8. CASE StopFinds(h)
    BY <1>8, StopMoves, MovesTyped DEF StopFinds, TypedGrants, TypedBook, TypedRequest
  <1>9. CASE StopEndsGrant(h)
    <2>1. TypedSubmits' /\ submits[h].todo \subseteq GrantIds
      BY <1>9, StopMoves, MovesTyped
    <2>2. PICK g \in submits[h].todo : Lists(g) \/ ListsUnsaved(g)
      BY <1>9 DEF StopEndsGrant
    <2>3. listed' \subseteq Entry /\ listFile' \subseteq Entry
      BY <2>1, <2>2, ListsTyped DEF Entry
    <2> QED  BY <1>9, <2>1, <2>3 DEF StopEndsGrant, TypedGrants, TypedBook, TypedRequest
  <1>10. CASE StopResolves(h)
    <2>1. TypedSubmits' /\ submits[h].live \subseteq GrantIds
      BY <1>10, StopMoves, MovesTyped
    <2>2. takenBack' \subseteq GrantIds
      BY <1>10, <2>1 DEF StopResolves, Answered, TypedGrants
    <2> QED  BY <1>10, <2>1, <2>2, RevokeResolvesTyped DEF StopResolves, TypedGrants
  <1> QED  BY <1>1, <1>2, <1>3, <1>4, <1>5, <1>6, <1>7, <1>8, <1>9, <1>10

LEMMA GrantsTypesStep == ASSUME GrantsTypeOK, BookInv, [GrantsNext]_grantVars PROVE GrantsTypeOK'
  <1>1. TypedGrants /\ TypedRaises /\ TypedBook /\ TypedSubmits
    BY GrantsByPart
  <1>2. CASE UNCHANGED grantVars
    BY <1>2 DEF grantVars, GrantsTypeOK
  <1>3. ASSUME NEW r \in RequestIds, RaiseRequest(r) PROVE GrantsTypeOK'
    <2>1. TypedGrants' /\ TypedSubmits'
      BY <1>1, <1>3 DEF RaiseRequest, TypedGrants, TypedSubmits
    <2> QED  BY <1>1, <1>3, <2>1, RaiseTyped, GrantsByPart
  <1>4. ASSUME NEW r \in RequestIds, DenyRequest(r) PROVE GrantsTypeOK'
    <2>1. TypedGrants' /\ TypedSubmits' /\ TypedRaises'
      BY <1>1, <1>4 DEF DenyRequest, TypedGrants, TypedSubmits, TypedRaises
    <2> QED  BY <1>1, <1>4, <2>1, DenyTyped, GrantsByPart
  <1>5. CASE ReadBook
    <2>1. TypedGrants' /\ TypedSubmits' /\ TypedRaises'
      BY <1>1, <1>5 DEF ReadBook, TypedGrants, TypedSubmits, TypedRaises
    <2> QED  BY <1>1, <1>5, <2>1, ReadTyped, GrantsByPart
  <1>6. ASSUME NEW h \in Submits, \/ \E g \in GrantIds : GrantArrives(h, g) \/ RevokeArrives(h, g)
                                  \/ \E s \in StopIds : StopArrives(h, s)
        PROVE  GrantsTypeOK'
    <2>1. TypedSubmits'
      BY <1>1, <1>6, ArrivalMoves, MovesTyped
    <2>2. UNCHANGED <<now, bound, stored, listed, listFile, requests, raises, takenBack>>
      BY <1>6 DEF GrantArrives, RevokeArrives, StopArrives
    <2>3. TypedGrants' /\ TypedBook' /\ TypedRaises'
      BY <1>1, <2>2 DEF TypedGrants, TypedBook, TypedRequest, TypedRaises
    <2> QED  BY <2>1, <2>3, GrantsByPart
  <1>7. ASSUME NEW h \in Submits,
               \/ GrantFindsOlds(h) \/ GrantEndsOld(h) \/ GrantPuts(h) \/ GrantResolves(h)
               \/ RevokeLists(h) \/ RevokeResolves(h)
               \/ StopMarksUsed(h) \/ StopFinds(h) \/ StopEndsGrant(h) \/ StopResolves(h)
        PROVE  GrantsTypeOK'
    BY <1>1, <1>7, PhoneActs, GrantsByPart DEF TypedRaises
  <1>8. ASSUME NEW p \in UserPhones, Rebinds(p) PROVE GrantsTypeOK'
    <2>1. TypedGrants' /\ TypedBook' /\ TypedRaises' /\ TypedSubmits'
      BY <1>1, <1>8 DEF Rebinds, TypedGrants, TypedBook, TypedRequest, TypedRaises, TypedSubmits
    <2> QED  BY <2>1, GrantsByPart
  <1>9. CASE TimePasses
    <2>1. TypedGrants' /\ TypedBook' /\ TypedRaises' /\ TypedSubmits'
      BY <1>1, <1>9, UserGrantsAssumption DEF TimePasses, TypedGrants, TypedBook, TypedRequest, TypedRaises, TypedSubmits
    <2> QED  BY <2>1, GrantsByPart
  <1>10. CASE GrantsRestart
    <2>1. TypedGrants' /\ TypedBook' /\ TypedRaises' /\ TypedSubmits'
      BY <1>1, <1>10 DEF GrantsRestart, TypedGrants, TypedBook, TypedRequest, TypedRaises, TypedSubmits, SubmitsOf
    <2> QED  BY <2>1, GrantsByPart
  <1> QED  BY <1>2, <1>3, <1>4, <1>5, <1>6, <1>7, <1>8, <1>9, <1>10 DEF GrantsNext

\* Grants, the list, the requests and the handlers keep their types, and a slot has one
\* stored grant, also where a phone is not patient.
THEOREM GrantsTypes == GrantsSpec => []GrantsTypeOK
  <1>1. GrantsInit => GrantsTypeOK
    BY GrantsTypesBegin
  <1>2. GrantsTypeOK /\ BookInv /\ [GrantsNext]_grantVars => GrantsTypeOK'
    BY GrantsTypesStep
  <1> QED  BY <1>1, <1>2, BookInvariant, PTL DEF GrantsSpec

(***************************************************************************)
(* The wrong-code limiter: a code that is redeemed over the edge sat       *)
(* through fewer wrong guesses than its budget, for any codes, clients,    *)
(* limits and times.                                                       *)
(*                                                                         *)
(* ExposureBudget needs, for every live code, a total that was taken at or *)
(* before its mint and is still remembered when it is redeemed: its stamp  *)
(* or, where that is gone or was never here, one of the marks (Counted);   *)
(* and that the oldest mark counts no fewer guesses than that one          *)
(* (MarksInOrder).                                                         *)
(***************************************************************************)
MarkOf == [at : Nat, base : Nat]

\* Marks are in order, none is later than t or counts more than n.
MarksInOrder(q, t, n) ==
    /\ q \in Seq(MarkOf)
    /\ \A i \in 1..Len(q) : q[i].at <= t /\ q[i].base <= n
    /\ \A i, j \in 1..Len(q) : i <= j => q[i].at <= q[j].at /\ q[i].base <= q[j].base

\* One of the marks is kept as long as a code that ends at `end', and the code sat
\* through m of the n guesses after it.
Reaches(mark, end, m, n) == mark.at > end - MaxLife - MarkEvery /\ mark.base + m <= n
SomeReaches(q, end, m, n) == \E i \in 1..Len(q) : Reaches(q[i], end, m, n)

StampsOf == [base : Int, forget : Nat]
StampUpTo(s, n) == s = NoStamp \/ (s.base \in Nat /\ s.base <= n)

Counted(d) ==
    /\ stamps[d] # NoStamp => stamps[d].base + sat[d] <= total
    /\ sat[d] > 0 => SomeReaches(marks, live[d], sat[d], total)

LimiterInv ==
    /\ time \in Nat /\ total \in Nat
    /\ live \in [SixDigits -> Nat] /\ sat \in [SixDigits -> Nat]
    /\ stamps \in [SixDigits -> StampsOf]
    /\ \A d \in SixDigits : StampUpTo(stamps[d], total) /\ live[d] <= time + MaxLife
    /\ MarksInOrder(marks, time, total)
    /\ \A d \in SixDigits : LiveCode(d) => Counted(d)
    /\ worst \in Nat /\ worst < Budget

LEMMA LimiterNumbers ==
    /\ MaxLife \in Nat /\ MarkEvery \in Nat /\ MarkEvery > 0 /\ Budget \in Nat /\ Budget > 0
  BY LimiterAssumption

LEMMA LeastExists == ASSUME NEW S \in SUBSET Nat, S # {} PROVE \E x \in S : \A y \in S : x <= y
  <1>1. PICK x \in S : \A y \in S : ~ (<<y, x>> \in OpToRel(<, Nat))
    BY WFMin, NatLessThanWellFounded
  <1>2. \A y \in S : ~(y < x)
    BY <1>1, Zenon DEF OpToRel
  <1> QED  BY <1>2

(***************************************************************************)
(* _trim pops a prefix in which nothing stays.                             *)
(***************************************************************************)
Suffix(q, s, k) == Len(q) = Len(s) - k /\ \A j \in 1..(Len(s) - k) : q[j] = s[k + j]

LEMMA FromIsASuffix ==
    ASSUME NEW T, NEW s \in Seq(T), NEW staying \in SUBSET (1..Len(s))
    PROVE  \E k \in 0..Len(s) : /\ From(s, staying) \in Seq(T)
                                /\ Suffix(From(s, staying), s, k)
                                /\ \A i \in staying : i > k
  <1>1. CASE staying = {}
    <2>1. From(s, staying) = << >> /\ Len(s) \in 0..Len(s)
      BY <1>1 DEF From
    <2>2. Suffix(<< >>, s, Len(s))
      <3>1. Len(s) - Len(s) = 0 /\ Len(<< >>) = 0
        OBVIOUS
      <3>4. 1..0 = {}
        OBVIOUS
      <3>2. 1..(Len(s) - Len(s)) = {} /\ Len(<< >>) = Len(s) - Len(s)
        BY <3>1, <3>4, Zenon
      <3> QED  BY <3>2, Zenon DEF Suffix
    <2>3. From(s, staying) \in Seq(T) /\ Suffix(From(s, staying), s, Len(s)) /\ \A i \in staying : i > Len(s)
      <3>1. << >> \in Seq(T) /\ \A i \in staying : i > Len(s)
        BY <1>1
      <3> QED  BY <2>1, <2>2, <3>1, Zenon
    <2> QED  BY <2>1, <2>3, Zenon
  <1>2. CASE staying # {}
    <2>1. \E i \in staying : \A j \in staying : i <= j
      BY <1>2, LeastExists
    <2>2. PICK m \in staying : m = CHOOSE i \in staying : \A j \in staying : i <= j
      BY <2>1
    <2>3. m \in 1..Len(s) /\ \A j \in staying : m <= j
      BY <2>1, <2>2
    <2>4. From(s, staying) = SubSeq(s, m, Len(s))
      BY <1>2, <2>2 DEF From
    <2>5. SubSeq(s, m, Len(s)) \in Seq(T) /\ Suffix(SubSeq(s, m, Len(s)), s, m - 1)
      BY <2>3 DEF Suffix
    <2>6. m - 1 \in 0..Len(s) /\ \A i \in staying : i > m - 1
      BY <2>3
    <2> QED  BY <2>4, <2>5, <2>6
  <1> QED  BY <1>1, <1>2

\* What is trimmed keeps the order, and every mark that a live code needs.
LEMMA TrimmedMarks ==
    ASSUME LimiterInv
    PROVE  /\ MarksInOrder(Marks, time, total)
           /\ \A end, m \in Nat : end > time /\ SomeReaches(marks, end, m, total) => SomeReaches(Marks, end, m, total)
  <1>1. marks \in Seq(MarkOf) /\ time \in Nat /\ total \in Nat
    BY DEF LimiterInv, MarksInOrder
  <1> DEFINE staying == {i \in DOMAIN marks : Kept(marks[i])}
  <1>2. staying \in SUBSET (1..Len(marks))
    BY <1>1
  <1>3. PICK k \in 0..Len(marks) : /\ Marks \in Seq(MarkOf)
                                   /\ Suffix(Marks, marks, k)
                                   /\ \A i \in staying : i > k
    BY <1>1, <1>2, FromIsASuffix DEF Marks
  <1>4. PICK q : q = Marks
    OBVIOUS
  <1>5. /\ q \in Seq(MarkOf) /\ Len(q) = Len(marks) - k /\ Len(marks) \in Nat
        /\ \A j \in 1..Len(q) : k + j \in 1..Len(marks) /\ q[j] = marks[k + j]
    BY <1>1, <1>3, <1>4 DEF Suffix
  <1>6. MarksInOrder(q, time, total)
    <2>1. MarksInOrder(marks, time, total)
      BY DEF LimiterInv
    <2>2. \A i \in 1..Len(q) : q[i].at <= time /\ q[i].base <= total
      BY <1>5, <2>1 DEF MarksInOrder
    <2>3. \A i, j \in 1..Len(q) : i <= j => q[i].at <= q[j].at /\ q[i].base <= q[j].base
      <3> SUFFICES ASSUME NEW i \in 1..Len(q), NEW j \in 1..Len(q), i <= j
                   PROVE  q[i].at <= q[j].at /\ q[i].base <= q[j].base
        OBVIOUS
      <3>1. k + i \in 1..Len(marks) /\ k + j \in 1..Len(marks) /\ k + i <= k + j
        BY <1>5
      <3>2. q[i] = marks[k + i] /\ q[j] = marks[k + j]
        BY <1>5
      <3> QED  BY <2>1, <3>1, <3>2 DEF MarksInOrder
    <2> QED  BY <1>5, <2>2, <2>3 DEF MarksInOrder
  <1>7. ASSUME NEW end \in Nat, NEW m \in Nat, end > time, SomeReaches(marks, end, m, total)
        PROVE  SomeReaches(q, end, m, total)
    <2>1. PICK i \in 1..Len(marks) : Reaches(marks[i], end, m, total)
      BY <1>7 DEF SomeReaches
    <2>2. marks[i] \in MarkOf
      BY <1>1
    <2>3. Kept(marks[i])
      <3>1. PICK mark : mark = marks[i]
        OBVIOUS
      <3>2. mark \in MarkOf /\ Reaches(mark, end, m, total)
        BY <2>1, <2>2, <3>1
      <3>3. Kept(mark)
        BY <1>1, <1>7, <3>2, LimiterNumbers DEF Kept, Reaches, MarkOf
      <3> QED  BY <3>1, <3>3
    <2>4. i \in staying
      BY <1>1, <2>3
    <2>5. i > k
      BY <1>3, <2>4
    <2>6. i - k \in 1..Len(q) /\ k + (i - k) = i
      BY <1>5, <2>5
    <2>7. q[i - k] = marks[i]
      BY <1>5, <2>6
    <2> QED  BY <2>1, <2>6, <2>7 DEF SomeReaches
  <1> QED  BY <1>4, <1>6, <1>7

\* The stamps that are remembered.
LEMMA TrimmedStamps ==
    ASSUME LimiterInv
    PROVE  /\ Stamps \in [SixDigits -> StampsOf]
           /\ \A d \in SixDigits : StampUpTo(Stamps[d], total) /\ (Stamps[d] = NoStamp \/ Stamps[d] = stamps[d])
  <1>1. NoStamp \in StampsOf /\ stamps \in [SixDigits -> StampsOf]
    BY DEF NoStamp, StampsOf, LimiterInv
  <1> QED  BY <1>1 DEF LimiterInv, Stamps, StampUpTo

\* A code's exposure is no less than what it sat through.
LEMMA ExposureIsEnough ==
    ASSUME LimiterInv, NEW d \in SixDigits, LiveCode(d)
    PROVE  sat[d] <= Exposure(d) /\ Exposure(d) \in Int
  <1>1. Counted(d) /\ total \in Nat /\ sat[d] \in Nat /\ live[d] \in Nat /\ time \in Nat /\ live[d] > time
    BY DEF LimiterInv, LiveCode
  <1>2. StampUpTo(Stamps[d], total) /\ (Stamps[d] = NoStamp \/ Stamps[d] = stamps[d])
    BY TrimmedStamps
  <1>3. CASE Stamps[d] # NoStamp
    <2>1. Stamps[d].base \in Nat /\ Stamps[d].base + sat[d] <= total
      BY <1>1, <1>2, <1>3 DEF Counted, StampUpTo
    <2>2. Exposure(d) = total - Stamps[d].base
      BY <1>3 DEF Exposure
    <2> QED  BY <1>1, <2>1, <2>2
  <1>4. ASSUME Stamps[d] = NoStamp, sat[d] > 0 PROVE sat[d] <= Exposure(d) /\ Exposure(d) \in Int
    <2>1. PICK q : q = Marks
      OBVIOUS
    <2>2. SomeReaches(q, live[d], sat[d], total) /\ MarksInOrder(q, time, total)
      BY <1>1, <1>4, <2>1, TrimmedMarks DEF Counted
    <2>3. PICK i \in 1..Len(q) : Reaches(q[i], live[d], sat[d], total)
      BY <2>2, <2>1 DEF SomeReaches
    <2>4. q \in Seq(MarkOf)
      BY <2>2 DEF MarksInOrder
    <2>7. q # << >> /\ Len(q) \in Nat /\ 1 \in 1..Len(q) /\ 1 <= i
      <3>1. Len(q) \in Nat /\ Len(q) >= 1
        BY <2>3, <2>4
      <3>2. q # << >>
        BY <3>1
      <3> QED  BY <2>3, <3>1, <3>2
    <2>5. q[1].base \in Nat /\ q[i].base \in Nat /\ q[1].base <= q[i].base
      <3>1. q[1] \in MarkOf /\ q[i] \in MarkOf
        BY <2>3, <2>4, <2>7
      <3>2. q[1].base <= q[i].base
        BY <2>2, <2>3, <2>7 DEF MarksInOrder
      <3> QED  BY <3>1, <3>2 DEF MarkOf
    <2>6. Exposure(d) = total - q[1].base
      BY <1>4, <2>1, <2>7 DEF Exposure
    <2> QED  BY <1>1, <2>3, <2>5, <2>6 DEF Reaches
  <1>5. ASSUME Stamps[d] = NoStamp, sat[d] = 0 PROVE sat[d] <= Exposure(d) /\ Exposure(d) \in Int
    <2>1. PICK q : q = Marks
      OBVIOUS
    <2>2. MarksInOrder(q, time, total)
      BY <2>1, TrimmedMarks
    <2>3. CASE q = << >>
      <3>1. Exposure(d) = total - total
        BY <1>5, <2>1, <2>3 DEF Exposure
      <3> QED  BY <1>1, <1>5, <3>1
    <2>4. CASE q # << >>
      <3>4. q \in Seq(MarkOf)
        BY <2>2 DEF MarksInOrder
      <3>1. 1 \in 1..Len(q) /\ q \in Seq(MarkOf)
        <4>1. Len(q) \in Nat \ {0}
          BY <2>4, <3>4, EmptySeq, Zenon
        <4> QED  BY <3>4, <4>1
      <3>5. q[1] \in MarkOf /\ q[1].base <= total
        BY <2>2, <3>1 DEF MarksInOrder
      <3>2. q[1].base \in Nat /\ q[1].base <= total
        BY <3>5 DEF MarkOf
      <3>3. Exposure(d) = total - q[1].base
        BY <1>5, <2>1, <2>4 DEF Exposure
      <3> QED  BY <1>1, <1>5, <3>2, <3>3
    <2> QED  BY <2>3, <2>4, EmptySeq
  <1> QED  BY <1>1, <1>3, <1>4, <1>5

(***************************************************************************)
(* The steps.                                                              *)
(***************************************************************************)
LEMMA LimiterInvInit == LimiterInit => LimiterInv
  <1> SUFFICES ASSUME LimiterInit PROVE LimiterInv
    OBVIOUS
  <1>1. NoStamp \in StampsOf
    BY DEF NoStamp, StampsOf
  <1>2. stamps \in [SixDigits -> StampsOf] /\ \A d \in SixDigits : StampUpTo(stamps[d], total)
    BY <1>1 DEF LimiterInit, StampUpTo
  <1>3. MarksInOrder(marks, time, total)
    <2>1. marks = << >> /\ Len(<< >>) = 0 /\ << >> \in Seq(MarkOf)
      BY DEF LimiterInit
    <2>2. \A i \in 1..0 : FALSE
      OBVIOUS
    <2> QED  BY <2>1, <2>2 DEF MarksInOrder
  <1>4. \A d \in SixDigits : ~LiveCode(d)
    BY DEF LimiterInit, LiveCode
  <1> QED  BY <1>2, <1>3, <1>4, LimiterNumbers DEF LimiterInit, LimiterInv

\* What every step that leaves the total and the clock keeps: the marks as they are
\* or trimmed, and a code's count and end as they are, or gone, or begun anew.
CodeStep(d) ==
    \/ LiveCode(d) /\ live'[d] = live[d] /\ sat'[d] = sat[d]
    \/ live'[d] = 0
    \/ sat'[d] = 0

LEMMA QuietStep ==
    ASSUME LimiterInv, time' = time, total' = total,
           live' \in [SixDigits -> Nat], sat' \in [SixDigits -> Nat],
           marks' = marks \/ marks' = Marks,
           stamps' \in [SixDigits -> StampsOf],
           \A d \in SixDigits : /\ live'[d] <= time + MaxLife
                                /\ CodeStep(d) \/ ~LiveCode(d)'
                                /\ StampUpTo(stamps'[d], total)
                                /\ \/ stamps'[d] \in {NoStamp, stamps[d]}
                                   \/ sat'[d] = 0,
           worst' \in Nat, worst' < Budget
    PROVE  LimiterInv'
  <1>1. MarksInOrder(marks, time, total) /\ MarksInOrder(Marks, time, total)
    BY TrimmedMarks DEF LimiterInv
  <1>2. MarksInOrder(marks', time, total)
    BY <1>1, Zenon
  <1>3. ASSUME NEW d \in SixDigits, LiveCode(d)' PROVE Counted(d)'
    <2>1. CodeStep(d) /\ live'[d] > time /\ time \in Nat /\ total \in Nat
      BY <1>3 DEF LiveCode, LimiterInv
    <2>2. sat[d] \in Nat /\ live[d] \in Nat /\ sat'[d] \in Nat /\ StampUpTo(stamps'[d], total)
      BY DEF LimiterInv
    <2>3. CASE sat'[d] = 0
      <3>1. stamps'[d] # NoStamp => stamps'[d].base + sat'[d] <= total'
        BY <2>1, <2>2, <2>3 DEF StampUpTo
      <3>2. ~(sat'[d] > 0)
        BY <2>3
      <3> QED  BY <3>1, <3>2 DEF Counted
    <2>4. CASE sat'[d] # 0
      <3>1. LiveCode(d) /\ live'[d] = live[d] /\ sat'[d] = sat[d] /\ sat[d] > 0
        BY <2>1, <2>2, <2>4 DEF CodeStep
      <3>2. Counted(d)
        BY <3>1 DEF LimiterInv
      <3>3. SomeReaches(marks, live[d], sat[d], total)
        BY <3>1, <3>2 DEF Counted
      <3>4. SomeReaches(Marks, live[d], sat[d], total)
        BY <2>1, <2>2, <3>1, <3>3, TrimmedMarks
      <3>5. SomeReaches(marks', live[d], sat[d], total)
        BY <3>3, <3>4, Zenon
      <3>6. SomeReaches(marks', live'[d], sat'[d], total')
        BY <3>1, <3>5
      <3>7. stamps'[d] # NoStamp => stamps'[d].base + sat'[d] <= total'
        BY <2>4, <3>1, <3>2 DEF Counted
      <3> QED  BY <3>6, <3>7 DEF Counted, SomeReaches, Reaches
    <2> QED  BY <2>3, <2>4
  <1>4. \A d \in SixDigits : StampUpTo(stamps'[d], total') /\ live'[d] <= time' + MaxLife
    OBVIOUS
  <1>5. MarksInOrder(marks', time', total')
    BY <1>2
  <1>6. time' \in Nat /\ total' \in Nat
    BY DEF LimiterInv
  <1>7. (\A d \in SixDigits : StampUpTo(stamps[d], total) /\ live[d] <= time + MaxLife)'
    BY <1>4 DEF StampUpTo, NoStamp
  <1>8. MarksInOrder(marks, time, total)'
    BY <1>5 DEF MarksInOrder, MarkOf
  <1>9. (\A d \in SixDigits : LiveCode(d) => Counted(d))'
    BY <1>3
  <1> QED  BY <1>6, <1>7, <1>8, <1>9 DEF LimiterInv

LEMMA CodesKept ==
    ASSUME LimiterInv, NEW x \in SixDigits, time' = time, live'[x] = live[x], sat'[x] = sat[x]
    PROVE  CodeStep(x) \/ ~LiveCode(x)'
  BY DEF CodeStep, LiveCode

LEMMA StepMints ==
    ASSUME LimiterInv, NEW d \in SixDigits, NEW life \in 1..MaxLife,
           MintsHere(d, life) \/ MintsElsewhere(d, life)
    PROVE  LimiterInv'
  <1>1. Mints(d, life) /\ time' = time /\ total' = total /\ worst' = worst
    BY DEF MintsHere, MintsElsewhere, Mints
  <1>2. time \in Nat /\ total \in Nat /\ life \in Nat /\ life <= MaxLife
    BY LimiterNumbers DEF LimiterInv
  <1>3. live' \in [SixDigits -> Nat] /\ sat' \in [SixDigits -> Nat]
    BY <1>1, <1>2 DEF Mints, LimiterInv
  <1>4. live'[d] = time + life /\ sat'[d] = 0 /\ \A x \in SixDigits \ {d} : live'[x] = live[x] /\ sat'[x] = sat[x]
    BY <1>1 DEF Mints, LimiterInv
  <1>5. marks' = marks \/ marks' = Marks
    BY DEF MintsHere, MintsElsewhere
  <1>6. /\ stamps' \in [SixDigits -> StampsOf]
        /\ \A x \in SixDigits : StampUpTo(stamps'[x], total)
        /\ \A x \in SixDigits \ {d} : stamps'[x] \in {NoStamp, stamps[x]}
    <2>1. CASE MintsHere(d, life)
      <3>1. PICK stamp : stamp = [base |-> total, forget |-> time + life + MarkEvery]
        OBVIOUS
      <3>2. stamp \in StampsOf /\ StampUpTo(stamp, total)
        BY <1>2, <3>1, LimiterNumbers DEF StampsOf, StampUpTo
      <3>3. stamps' = [Stamps EXCEPT ![d] = stamp]
        BY <2>1, <3>1 DEF MintsHere
      <3>4. PICK f : f = Stamps
        OBVIOUS
      <3>5. /\ f \in [SixDigits -> StampsOf]
            /\ \A x \in SixDigits : StampUpTo(f[x], total) /\ (f[x] = NoStamp \/ f[x] = stamps[x])
        BY <3>4, TrimmedStamps
      <3>6. stamps' = [f EXCEPT ![d] = stamp]
        BY <3>3, <3>4
      <3>7. stamps' \in [SixDigits -> StampsOf] /\ stamps'[d] = stamp /\ \A x \in SixDigits \ {d} : stamps'[x] = f[x]
        BY <3>2, <3>5, <3>6
      <3> QED  BY <3>2, <3>5, <3>7
    <2>2. CASE MintsElsewhere(d, life)
      <3>1. stamps' = stamps
        BY <2>2 DEF MintsElsewhere
      <3> QED  BY <3>1 DEF LimiterInv
    <2> QED  BY <2>1, <2>2
  <1>7. \A x \in SixDigits : /\ live'[x] <= time + MaxLife
                             /\ CodeStep(x) \/ ~LiveCode(x)'
    <2> SUFFICES ASSUME NEW x \in SixDigits PROVE live'[x] <= time + MaxLife /\ (CodeStep(x) \/ ~LiveCode(x)')
      OBVIOUS
    <2>1. CASE x = d
      BY <1>2, <1>4, <2>1, LimiterNumbers DEF CodeStep
    <2>2. CASE x # d
      <3>1. live'[x] = live[x] /\ sat'[x] = sat[x]
        BY <1>4, <2>2
      <3> QED  BY <1>1, <3>1, CodesKept DEF LimiterInv
    <2> QED  BY <2>1, <2>2
  <1>8. \A x \in SixDigits : stamps'[x] \in {NoStamp, stamps[x]} \/ sat'[x] = 0
    BY <1>4, <1>6
  <1>9. worst' \in Nat /\ worst' < Budget
    BY <1>1 DEF LimiterInv
  <1> QED  BY <1>1, <1>3, <1>5, <1>6, <1>7, <1>8, <1>9, QuietStep

\* What a redemption does to the codes: the one that is sent is spent.
LEMMA Spending ==
    ASSUME LimiterInv, NEW d \in SixDigits, Spends(d), time' = time, sat' = sat
    PROVE  /\ LiveCode(d) /\ live' \in [SixDigits -> Nat]
           /\ \A x \in SixDigits : live'[x] <= time + MaxLife /\ (CodeStep(x) \/ ~LiveCode(x)')
  <1>1. LiveCode(d) /\ live' \in [SixDigits -> Nat] /\ live'[d] = 0 /\ \A x \in SixDigits \ {d} : live'[x] = live[x]
    BY DEF Spends, LimiterInv
  <1>2. ASSUME NEW x \in SixDigits PROVE live'[x] <= time + MaxLife /\ (CodeStep(x) \/ ~LiveCode(x)')
    <2>1. CASE x = d
      <3>1. time \in Nat
        BY DEF LimiterInv
      <3> QED  BY <1>1, <2>1, <3>1, LimiterNumbers DEF CodeStep
    <2>2. CASE x # d
      BY <1>1, <2>2, CodesKept DEF LimiterInv
    <2> QED  BY <2>1, <2>2
  <1> QED  BY <1>1, <1>2

LEMMA StepRedeemsPublic ==
    ASSUME LimiterInv, NEW c \in Clients, NEW d \in SixDigits, RedeemsPublic(c, d)
    PROVE  LimiterInv'
  <1>1. Spends(d) /\ time' = time /\ total' = total /\ sat' = sat /\ marks' = Marks /\ stamps' = Stamps
    BY DEF RedeemsPublic
  <1>2. LiveCode(d) /\ live' \in [SixDigits -> Nat]
        /\ \A x \in SixDigits : live'[x] <= time + MaxLife /\ (CodeStep(x) \/ ~LiveCode(x)')
    BY <1>1, Spending
  <1>3. sat[d] <= Exposure(d) /\ Exposure(d) \in Int /\ sat[d] \in Nat /\ worst \in Nat /\ worst < Budget
    BY <1>2, ExposureIsEnough DEF LimiterInv
  <1>4. worst' = IF Exposure(d) < Budget /\ sat[d] > worst THEN sat[d] ELSE worst
    BY DEF RedeemsPublic
  <1>5. worst' \in Nat /\ worst' < Budget
    BY <1>3, <1>4, LimiterNumbers
  <1>6. /\ stamps' \in [SixDigits -> StampsOf]
        /\ \A x \in SixDigits : StampUpTo(stamps'[x], total) /\ stamps'[x] \in {NoStamp, stamps[x]}
    BY <1>1, TrimmedStamps
  <1>7. sat' \in [SixDigits -> Nat]
    BY <1>1 DEF LimiterInv
  <1> QED  BY <1>1, <1>2, <1>5, <1>6, <1>7, QuietStep

LEMMA StepRedeemsPrivate ==
    ASSUME LimiterInv, NEW d \in SixDigits, RedeemsPrivate(d)
    PROVE  LimiterInv'
  <1>1. Spends(d) /\ time' = time /\ total' = total /\ sat' = sat /\ marks' = marks /\ stamps' = stamps /\ worst' = worst
    BY DEF RedeemsPrivate
  <1>2. live' \in [SixDigits -> Nat]
        /\ \A x \in SixDigits : live'[x] <= time + MaxLife /\ (CodeStep(x) \/ ~LiveCode(x)')
    BY <1>1, Spending
  <1>3. /\ stamps' \in [SixDigits -> StampsOf] /\ sat' \in [SixDigits -> Nat]
        /\ \A x \in SixDigits : StampUpTo(stamps'[x], total) /\ stamps'[x] \in {NoStamp, stamps[x]}
        /\ worst' \in Nat /\ worst' < Budget
    BY <1>1 DEF LimiterInv
  <1> QED  BY <1>1, <1>2, <1>3, QuietStep

LEMMA StepGuessesInVain ==
    ASSUME LimiterInv, NEW d \in SixDigits, GuessesInVain(d)
    PROVE  LimiterInv'
  <1>1. /\ time' = time /\ live' = live /\ total' = total /\ sat' = sat /\ worst' = worst
        /\ marks' = Marks /\ stamps' = Stamps
    BY DEF GuessesInVain
  <1>2. /\ live' \in [SixDigits -> Nat] /\ sat' \in [SixDigits -> Nat] /\ worst' \in Nat /\ worst' < Budget
        /\ \A x \in SixDigits : live'[x] <= time + MaxLife
    BY <1>1 DEF LimiterInv
  <1>3. \A x \in SixDigits : CodeStep(x) \/ ~LiveCode(x)'
    BY <1>1, CodesKept
  <1>4. /\ stamps' \in [SixDigits -> StampsOf]
        /\ \A x \in SixDigits : StampUpTo(stamps'[x], total) /\ stamps'[x] \in {NoStamp, stamps[x]}
    BY <1>1, TrimmedStamps
  <1> QED  BY <1>1, <1>2, <1>3, <1>4, QuietStep

LEMMA StepStutters == ASSUME LimiterInv, UNCHANGED limiterVars PROVE LimiterInv'
  <1>1. /\ time' = time /\ live' = live /\ total' = total /\ sat' = sat /\ worst' = worst
        /\ marks' = marks /\ stamps' = stamps
    BY DEF limiterVars
  <1>2. /\ live' \in [SixDigits -> Nat] /\ sat' \in [SixDigits -> Nat] /\ worst' \in Nat /\ worst' < Budget
        /\ stamps' \in [SixDigits -> StampsOf]
        /\ \A x \in SixDigits : live'[x] <= time + MaxLife /\ StampUpTo(stamps'[x], total)
    BY <1>1 DEF LimiterInv
  <1>3. \A x \in SixDigits : CodeStep(x) \/ ~LiveCode(x)'
    BY <1>1, CodesKept
  <1>4. \A x \in SixDigits : stamps'[x] \in {NoStamp, stamps[x]}
    BY <1>1
  <1> QED  BY <1>1, <1>2, <1>3, <1>4, QuietStep

Longer(r, q, e) == Len(r) = Len(q) + 1 /\ r[Len(r)] = e /\ \A i \in 1..Len(q) : r[i] = q[i]

LEMMA AppendedMarks ==
    ASSUME NEW t, NEW n, t \in Nat, n \in Nat, NEW mark, mark = [at |-> t, base |-> n],
           NEW q, MarksInOrder(q, t, n), NEW r, r = Append(q, mark)
    PROVE  MarksInOrder(r, t, n) /\ Longer(r, q, mark)
  <1>1. mark \in MarkOf /\ mark.at = t /\ mark.base = n
    BY DEF MarkOf
  <1>2. q \in Seq(MarkOf)
    BY DEF MarksInOrder
  <1>3. /\ r \in Seq(MarkOf) /\ Len(q) \in Nat /\ Len(r) = Len(q) + 1 /\ r[Len(r)] = mark
        /\ \A i \in 1..Len(q) : r[i] = q[i]
    BY <1>1, <1>2
  <1>4. ASSUME NEW i \in 1..Len(r) PROVE r[i].at <= t /\ r[i].base <= n
    <2>1. CASE i = Len(r)
      BY <1>1, <1>3, <2>1
    <2>2. CASE i # Len(r)
      <3>1. i \in 1..Len(q) /\ r[i] = q[i]
        BY <1>3, <1>4, <2>2
      <3> QED  BY <3>1 DEF MarksInOrder
    <2> QED  BY <2>1, <2>2
  <1>5. ASSUME NEW i \in 1..Len(r), NEW j \in 1..Len(r), i <= j
        PROVE  r[i].at <= r[j].at /\ r[i].base <= r[j].base
    <2>1. CASE j = Len(r)
      <3>1. r[j].at = t /\ r[j].base = n
        BY <1>1, <1>3, <2>1
      <3> QED  BY <1>4, <3>1
    <2>2. CASE j # Len(r)
      <3>1. i \in 1..Len(q) /\ j \in 1..Len(q) /\ r[i] = q[i] /\ r[j] = q[j]
        BY <1>3, <1>5, <2>2
      <3> QED  BY <1>5, <3>1 DEF MarksInOrder
    <2> QED  BY <2>1, <2>2
  <1>6. MarksInOrder(r, t, n)
    BY <1>3, <1>4, <1>5 DEF MarksInOrder
  <1> QED  BY <1>3, <1>6 DEF Longer

LEMMA StepGuessesWrong ==
    ASSUME LimiterInv, NEW c \in Clients, NEW d \in SixDigits, GuessesWrong(c, d)
    PROVE  LimiterInv'
  <1>1. /\ time' = time /\ live' = live /\ total' = total + 1 /\ worst' = worst
        /\ marks' = Marked /\ stamps' = Stamps
        /\ sat' = [x \in SixDigits |-> IF LiveCode(x) THEN sat[x] + 1 ELSE sat[x]]
    BY DEF GuessesWrong
  <1>2. time \in Nat /\ total \in Nat /\ live \in [SixDigits -> Nat] /\ sat \in [SixDigits -> Nat]
    BY DEF LimiterInv
  <1>3. sat' \in [SixDigits -> Nat]
    BY <1>1, <1>2
  <1>4. PICK q : q = Marks
    OBVIOUS
  <1>5. MarksInOrder(q, time, total)
    BY <1>4, TrimmedMarks
  <1>6. PICK mark : mark = [at |-> time, base |-> total]
    OBVIOUS
  <1>7. PICK r : r = Append(q, mark)
    OBVIOUS
  <1>8. MarksInOrder(r, time, total) /\ Longer(r, q, mark)
    BY <1>2, <1>5, <1>7, <1>6, AppendedMarks, Zenon
  <1>9. /\ MarksInOrder(r, time, total)
        /\ Len(r) = Len(q) + 1 /\ r[Len(r)] = [at |-> time, base |-> total]
        /\ \A i \in 1..Len(q) : r[i] = q[i]
    BY <1>6, <1>8 DEF Longer
  <1>10. \/ marks' = r
         \/ marks' = q /\ q # << >> /\ ~(time - q[Len(q)].at >= MarkEvery)
    <2>1. Marked = IF q = << >> \/ time - q[Len(q)].at >= MarkEvery
                   THEN Append(q, [at |-> time, base |-> total]) ELSE q
      <3>1. Marks = q
        BY <1>4
      <3>2. Last(Marks) = q[Len(q)]
        BY <3>1 DEF Last
      <3> QED  BY <3>1, <3>2 DEF Marked
    <2> QED  BY <1>1, <1>6, <1>7, <2>1, Zenon
  <1>11. MarksInOrder(marks', time, total)
    BY <1>5, <1>9, <1>10, Zenon
  <1>12. MarksInOrder(marks', time, total + 1)
    <2>1. \A i \in 1..Len(marks') : marks'[i] \in MarkOf /\ marks'[i].base <= total
      BY <1>11 DEF MarksInOrder
    <2>2. \A i \in 1..Len(marks') : marks'[i].base <= total + 1
      BY <1>2, <2>1 DEF MarkOf
    <2> QED  BY <1>11, <2>2 DEF MarksInOrder
  <1>13. (MarksInOrder(marks, time, total))'
    BY <1>1, <1>12 DEF MarksInOrder, MarkOf
  \* The newest mark is young enough for every live code.
  <1>14. \E i \in 1..Len(marks') : /\ marks'[i].at \in Nat /\ marks'[i].base \in Nat
                                   /\ marks'[i].at > time - MarkEvery /\ marks'[i].base <= total
    <2>1. CASE marks' = r
      <3>1. Len(q) \in Nat
        BY <1>5 DEF MarksInOrder
      <3>2. Len(r) \in 1..Len(r)
        BY <1>9, <3>1
      <3> QED  BY <1>2, <1>9, <2>1, <3>2, LimiterNumbers
    <2>2. CASE marks' = q /\ q # << >> /\ ~(time - q[Len(q)].at >= MarkEvery)
      <3>1. q \in Seq(MarkOf)
        BY <1>5 DEF MarksInOrder
      <3>2. Len(q) \in Nat \ {0}
        BY <2>2, <3>1, EmptySeq, Zenon
      <3>3. Len(q) \in 1..Len(q)
        BY <3>2
      <3>4. q[Len(q)] \in MarkOf /\ q[Len(q)].base <= total
        BY <1>5, <3>1, <3>3 DEF MarksInOrder
      <3>5. q[Len(q)].at \in Nat /\ q[Len(q)].base \in Nat /\ q[Len(q)].at > time - MarkEvery
        BY <1>2, <2>2, <3>4, LimiterNumbers DEF MarkOf
      <3> QED  BY <2>2, <3>3, <3>4, <3>5
    <2> QED  BY <1>10, <2>1, <2>2
  <1>15. /\ stamps' \in [SixDigits -> StampsOf]
         /\ \A x \in SixDigits : StampUpTo(stamps'[x], total) /\ (stamps'[x] = NoStamp \/ stamps'[x] = stamps[x])
    BY <1>1, TrimmedStamps
  <1>16. \A x \in SixDigits : StampUpTo(stamps'[x], total + 1)
    BY <1>2, <1>15 DEF StampUpTo
  <1>17. ASSUME NEW x \in SixDigits, LiveCode(x)' PROVE Counted(x)'
    <2>1. LiveCode(x) /\ live'[x] = live[x] /\ sat'[x] = sat[x] + 1 /\ sat[x] \in Nat /\ live[x] \in Nat
          /\ live[x] > time /\ live[x] <= time + MaxLife
      BY <1>1, <1>2, <1>17 DEF LiveCode, LimiterInv
    <2>2. Counted(x)
      BY <2>1 DEF LimiterInv
    <2>3. SomeReaches(marks', live[x], sat[x] + 1, total + 1)
      <3>1. CASE sat[x] = 0
        <4>1. PICK i \in 1..Len(marks') : /\ marks'[i].at \in Nat /\ marks'[i].base \in Nat
                                          /\ marks'[i].at > time - MarkEvery /\ marks'[i].base <= total
          BY <1>14
        <4>2. time \in Nat /\ total \in Nat /\ live[x] <= time + MaxLife /\ live[x] \in Nat
          BY <1>2, <2>1
        <4>3. marks'[i].at > live[x] - MaxLife - MarkEvery
          <5> HIDE DEF LimiterInv
          <5> QED  BY <4>1, <4>2, LimiterNumbers
        <4>4. marks'[i].base + (sat[x] + 1) <= total + 1
          <5> HIDE DEF LimiterInv
          <5> QED  BY <3>1, <4>1, <4>2
        <4> QED  BY <4>3, <4>4 DEF SomeReaches, Reaches
      <3>2. CASE sat[x] # 0
        <4>1. SomeReaches(marks, live[x], sat[x], total)
          BY <2>1, <2>2, <3>2 DEF Counted
        <4>2. SomeReaches(q, live[x], sat[x], total)
          BY <1>4, <2>1, <4>1, TrimmedMarks
        <4>3. PICK i \in 1..Len(q) : Reaches(q[i], live[x], sat[x], total)
          BY <4>2 DEF SomeReaches
        <4>4. i \in 1..Len(marks') /\ marks'[i] = q[i]
          <5>1. Len(q) \in Nat
            BY <1>5 DEF MarksInOrder
          <5> QED  BY <1>9, <1>10, <5>1
        <4>5. q[i].base \in Nat
          <5>1. q[i] \in MarkOf
            BY <1>5 DEF MarksInOrder
          <5> QED  BY <5>1 DEF MarkOf
        <4>6. Reaches(q[i], live[x], sat[x] + 1, total + 1)
          BY <1>2, <2>1, <4>3, <4>5 DEF Reaches
        <4> QED  BY <4>4, <4>6 DEF SomeReaches
      <3> QED  BY <3>1, <3>2
    <2>4. stamps'[x] # NoStamp => stamps'[x].base + sat'[x] <= total + 1
      <3> SUFFICES ASSUME stamps'[x] # NoStamp PROVE stamps'[x].base + sat'[x] <= total + 1
        OBVIOUS
      <3>1. stamps'[x].base \in Nat /\ stamps'[x] = stamps[x]
        BY <1>15 DEF StampUpTo
      <3>2. stamps[x].base + sat[x] <= total
        BY <2>2, <3>1 DEF Counted
      <3> QED  BY <1>2, <2>1, <3>1, <3>2
    <2>5. SomeReaches(marks', live'[x], sat'[x], total') /\ (stamps'[x] # NoStamp => stamps'[x].base + sat'[x] <= total')
      BY <1>1, <2>1, <2>3, <2>4
    <2> QED  BY <2>5 DEF Counted, SomeReaches, Reaches
  <1>18. (\A x \in SixDigits : StampUpTo(stamps[x], total) /\ live[x] <= time + MaxLife)'
    BY <1>1, <1>16 DEF LimiterInv, StampUpTo, NoStamp
  <1>19. (\A x \in SixDigits : LiveCode(x) => Counted(x))'
    BY <1>17
  <1>20. time' \in Nat /\ total' \in Nat /\ live' \in [SixDigits -> Nat] /\ worst' \in Nat /\ worst' < Budget
    BY <1>1, <1>2 DEF LimiterInv
  <1> QED  BY <1>3, <1>13, <1>15, <1>18, <1>19, <1>20 DEF LimiterInv

LEMMA StepLimiterTick == ASSUME LimiterInv, LimiterTick PROVE LimiterInv'
  <1>1. /\ time' = time + 1
        /\ UNCHANGED <<live, total, marks, stamps, sat, worst>>
    BY DEF LimiterTick
  <1>2. time \in Nat /\ total \in Nat /\ live \in [SixDigits -> Nat] /\ sat \in [SixDigits -> Nat]
    BY DEF LimiterInv
  <1>3. MarksInOrder(marks, time + 1, total)
    <2>1. MarksInOrder(marks, time, total)
      BY DEF LimiterInv
    <2>2. \A i \in 1..Len(marks) : marks[i] \in MarkOf /\ marks[i].at <= time
      BY <2>1 DEF MarksInOrder
    <2>3. \A i \in 1..Len(marks) : marks[i].at <= time + 1
      BY <1>2, <2>2 DEF MarkOf
    <2> QED  BY <2>1, <2>3 DEF MarksInOrder
  <1>4. MarksInOrder(marks, time, total)'
    BY <1>1, <1>3 DEF MarksInOrder, MarkOf
  <1>5. (\A d \in SixDigits : StampUpTo(stamps[d], total) /\ live[d] <= time + MaxLife)'
    BY <1>1, <1>2, LimiterNumbers DEF LimiterInv, StampUpTo, NoStamp
  <1>6. ASSUME NEW d \in SixDigits, LiveCode(d)' PROVE Counted(d)'
    <2>1. LiveCode(d)
      BY <1>1, <1>2, <1>6 DEF LiveCode
    <2>2. Counted(d)
      BY <2>1 DEF LimiterInv
    <2> QED  BY <1>1, <2>2 DEF Counted, SomeReaches, Reaches, NoStamp
  <1>7. (\A d \in SixDigits : LiveCode(d) => Counted(d))'
    BY <1>6
  <1>8. /\ time' \in Nat /\ total' \in Nat /\ live' \in [SixDigits -> Nat] /\ sat' \in [SixDigits -> Nat]
        /\ stamps' \in [SixDigits -> StampsOf] /\ worst' \in Nat /\ worst' < Budget
    BY <1>1, <1>2 DEF LimiterInv
  <1> QED  BY <1>4, <1>5, <1>7, <1>8 DEF LimiterInv

LEMMA StepLimiterRestarts == ASSUME LimiterInv, LimiterRestarts PROVE LimiterInv'
  <1>1. /\ marks' = << >> /\ total' = 0 /\ time' = time /\ worst' = worst
        /\ stamps' = [d \in SixDigits |-> NoStamp] /\ sat' = [d \in SixDigits |-> 0]
        /\ live' \in {live, [d \in SixDigits |-> 0]}
    BY DEF LimiterRestarts, Started
  <1>2. time \in Nat /\ worst' \in Nat /\ worst' < Budget
    BY <1>1 DEF LimiterInv
  <1>3. live' \in [SixDigits -> Nat] /\ \A d \in SixDigits : live'[d] <= time + MaxLife
    BY <1>1, <1>2, LimiterNumbers DEF LimiterInv
  <1>4. NoStamp \in StampsOf
    BY DEF NoStamp, StampsOf
  <1>5. sat' \in [SixDigits -> Nat] /\ stamps' \in [SixDigits -> StampsOf]
    BY <1>1, <1>4
  <1>6. \A d \in SixDigits : stamps'[d] = NoStamp /\ sat'[d] = 0
    BY <1>1
  <1>7. MarksInOrder(marks, time, total)'
    <2>1. marks' = << >> /\ Len(<< >>) = 0 /\ << >> \in Seq(MarkOf)
      BY <1>1
    <2>2. \A i \in 1..0 : FALSE
      OBVIOUS
    <2> QED  BY <2>1, <2>2 DEF MarksInOrder, MarkOf
  <1>8. (\A d \in SixDigits : StampUpTo(stamps[d], total) /\ live[d] <= time + MaxLife)'
    BY <1>1, <1>3, <1>6 DEF StampUpTo, NoStamp
  <1>9. (\A d \in SixDigits : LiveCode(d) => Counted(d))'
    BY <1>6 DEF Counted, NoStamp
  <1> QED  BY <1>1, <1>2, <1>3, <1>5, <1>7, <1>8, <1>9 DEF LimiterInv

LEMMA LimiterStep == ASSUME LimiterInv, [LimiterNext]_limiterVars PROVE LimiterInv'
  BY StepMints, StepRedeemsPublic, StepGuessesWrong, StepRedeemsPrivate, StepGuessesInVain, StepLimiterTick,
     StepLimiterRestarts, StepStutters DEF LimiterNext

\* The inductive invariant.
THEOREM LimiterInvariant == LimiterSpec => []LimiterInv
  <1>1. LimiterInv /\ [LimiterNext]_limiterVars => LimiterInv'
    BY LimiterStep
  <1> QED  BY <1>1, LimiterInvInit, PTL DEF LimiterSpec

\* A code redeemed over the edge sat through fewer wrong guesses than its budget,
\* for any codes, clients, limits, times and restarts, and wherever it was stamp
\* (owner_slots.py: CodeAttemptLimiter.exposed).
THEOREM ExposureAlwaysWithinBudget == LimiterSpec => []ExposureBudget
  <1>1. LimiterInv => ExposureBudget
    BY DEF LimiterInv, ExposureBudget
  <1> QED  BY <1>1, LimiterInvariant, PTL

(***************************************************************************)
(* The limiter's types: a client's count is the count of its failures in   *)
(* the window.                                                             *)
(***************************************************************************)
Event == [at : 0..EndTime, client : Clients]
Mark == [at : 0..EndTime, base : Nat]

TypedLimiter ==
    /\ time \in 0..EndTime /\ total \in Nat /\ worst \in Nat
    /\ live \in [SixDigits -> Nat] /\ sat \in [SixDigits -> Nat]
    /\ spentAt \in [SixDigits -> -1..EndTime]
    /\ \A d \in SixDigits : stamps[d] = NoStamp \/ stamps[d].base \in 0..total

EventsAndCounts == events \in Seq(Event) /\ counts = [c \in Clients |-> CountOf(events, c)]
TypedMarks == marks \in Seq(Mark)

LEMMA LimiterByPart ==
    /\ LimiterTypeOK <=> TypedLimiter /\ EventsAndCounts /\ TypedMarks
    /\ LimiterTypeOK' <=> TypedLimiter' /\ EventsAndCounts' /\ TypedMarks'
  BY DEF LimiterTypeOK, TypedLimiter, EventsAndCounts, TypedMarks, Event, Mark

\* What CountOf counts is a number, and one more when a client's failure is added.
PlacesOf(s, client) == {i \in DOMAIN s : s[i].client = client}

LEMMA PlacesAreFinite ==
    ASSUME NEW T, NEW s \in Seq(T), NEW c
    PROVE  IsFiniteSet(PlacesOf(s, c)) /\ CountOf(s, c) = Cardinality(PlacesOf(s, c)) /\ CountOf(s, c) \in Nat
  <1>1. DOMAIN s = 1..Len(s) /\ Len(s) \in Nat
    OBVIOUS
  <1>2. IsFiniteSet(1..Len(s))
    BY <1>1, FS_Interval
  <1>3. IsFiniteSet(PlacesOf(s, c))
    BY <1>1, <1>2, FS_Subset DEF PlacesOf
  <1>4. CountOf(s, c) = Cardinality(PlacesOf(s, c))
    BY DEF CountOf, PlacesOf
  <1> QED  BY <1>3, <1>4, FS_CardinalityType

LEMMA CountOfAppended ==
    ASSUME NEW T, NEW s \in Seq(T), NEW e \in T, NEW c
    PROVE  CountOf(Append(s, e), c) = IF e.client = c THEN CountOf(s, c) + 1 ELSE CountOf(s, c)
  <1> DEFINE n == Len(s) + 1
  <1>1. /\ DOMAIN s = 1..Len(s) /\ Len(s) \in Nat /\ n \notin DOMAIN s
        /\ DOMAIN Append(s, e) = DOMAIN s \union {n}
        /\ Append(s, e)[n] = e /\ \A i \in DOMAIN s : Append(s, e)[i] = s[i]
    OBVIOUS
  <1>2. PlacesOf(Append(s, e), c) = IF e.client = c THEN PlacesOf(s, c) \union {n} ELSE PlacesOf(s, c)
    <2> HIDE DEF n
    <2> QED  BY <1>1 DEF PlacesOf
  <1>3. n \notin PlacesOf(s, c)
    <2> HIDE DEF n
    <2> QED  BY <1>1 DEF PlacesOf
  <1>4. IsFiniteSet(PlacesOf(s, c)) /\ CountOf(s, c) = Cardinality(PlacesOf(s, c))
    BY PlacesAreFinite
  <1>5. Cardinality(PlacesOf(s, c) \union {n}) = Cardinality(PlacesOf(s, c)) + 1
    BY <1>3, <1>4, FS_AddElement
  <1>6. CountOf(Append(s, e), c) = Cardinality(PlacesOf(Append(s, e), c))
    BY DEF CountOf, PlacesOf
  <1> HIDE DEF n
  <1> QED  BY <1>2, <1>4, <1>5, <1>6

LEMMA EventsCounted ==
    ASSUME EventsAndCounts
    PROVE  Events \in Seq(Event) /\ Counts = [c \in Clients |-> CountOf(Events, c)]
  <1>1. events \in Seq(Event)
    BY DEF EventsAndCounts
  <1> DEFINE staying == {i \in DOMAIN events : InWindow(events[i])}
  <1>2. staying \in SUBSET (1..Len(events))
    BY <1>1
  <1>3. Events \in Seq(Event)
    BY <1>1, <1>2, FromIsASuffix DEF Events
  <1> HIDE DEF staying
  <1>4. ASSUME NEW c \in Clients PROVE counts[c] - AgedOut(c) = CountOf(Events, c)
    <2>1. CountOf(Events, c) \in Nat /\ CountOf(events, c) \in Nat
      BY <1>1, <1>3, PlacesAreFinite
    <2>2. counts[c] = CountOf(events, c)
      BY DEF EventsAndCounts
    <2> QED  BY <2>1, <2>2 DEF AgedOut
  <1> QED  BY <1>3, <1>4, Zenon DEF Counts

LEMMA MarksTyped == ASSUME TypedMarks PROVE Marks \in Seq(Mark)
  <1>1. {i \in DOMAIN marks : Kept(marks[i])} \in SUBSET (1..Len(marks))
    BY DEF TypedMarks
  <1> QED  BY <1>1, FromIsASuffix DEF TypedMarks, Marks

LEMMA StampsTyped ==
    ASSUME TypedLimiter
    PROVE  /\ \A d \in SixDigits : Stamps[d] = NoStamp \/ Stamps[d].base \in 0..total
           /\ SpentAt \in [SixDigits -> -1..EndTime] /\ time \in -1..EndTime
  <1>1. \A d \in SixDigits : Stamps[d] = NoStamp \/ Stamps[d].base \in 0..total
    BY DEF TypedLimiter, Stamps
  <1>2. EndTime \in Nat /\ time \in -1..EndTime
    BY LimiterAssumption DEF TypedLimiter
  <1>3. SpentAt \in [SixDigits -> -1..EndTime]
    BY <1>2 DEF TypedLimiter, SpentAt
  <1> QED  BY <1>1, <1>2, <1>3

LEMMA LimiterTypesBegin == ASSUME LimiterInit PROVE LimiterTypeOK
  <1>1. TypedLimiter
    BY LimiterAssumption DEF LimiterInit, TypedLimiter
  <1>2. events = <<>> /\ marks = <<>> /\ counts = [c \in Clients |-> 0]
    BY DEF LimiterInit
  <1>3. \A c \in Clients : CountOf(<<>>, c) = 0
    BY FS_EmptySet DEF CountOf
  <1>4. EventsAndCounts /\ TypedMarks
    BY <1>2, <1>3 DEF EventsAndCounts, TypedMarks
  <1> QED  BY <1>1, <1>4, LimiterByPart

\* The failures and the marks are as they were, or without what aged out.
LEMMA QuietTypes ==
    ASSUME LimiterTypeOK, Trims \/ UNCHANGED <<events, counts>>, marks' \in {Marks, marks}, TypedLimiter'
    PROVE  LimiterTypeOK'
  <1>1. EventsAndCounts /\ TypedMarks
    BY LimiterByPart
  <1>2. EventsAndCounts'
    BY <1>1, EventsCounted DEF EventsAndCounts, Trims
  <1>3. TypedMarks'
    BY <1>1, MarksTyped DEF TypedMarks
  <1> QED  BY <1>2, <1>3, LimiterByPart

LEMMA MintTypes ==
    ASSUME LimiterTypeOK, NEW d \in SixDigits, NEW life \in 1..MaxLife, MintsHere(d, life) \/ MintsElsewhere(d, life)
    PROVE  LimiterTypeOK'
  <1>1. TypedLimiter
    BY LimiterByPart
  <1>2. time \in Nat /\ life \in Nat
    BY <1>1, LimiterAssumption DEF TypedLimiter
  <1>3. /\ live' \in [SixDigits -> Nat] /\ sat' \in [SixDigits -> Nat]
        /\ UNCHANGED <<time, total, worst>>
    BY <1>1, <1>2 DEF MintsHere, MintsElsewhere, Mints, TypedLimiter
  <1>4. spentAt' \in [SixDigits -> -1..EndTime]
    BY <1>1, StampsTyped DEF MintsHere, MintsElsewhere, TypedLimiter
  <1>5. \A x \in SixDigits : stamps'[x] = NoStamp \/ stamps'[x].base \in 0..total
    <2>1. CASE MintsHere(d, life)
      <3>1. PICK stamp : stamp = [base |-> total, forget |-> time + life + MarkEvery]
        OBVIOUS
      <3>2. stamps' = [Stamps EXCEPT ![d] = stamp] /\ stamp.base \in 0..total
        BY <1>1, <2>1, <3>1 DEF MintsHere, TypedLimiter
      <3>3. \A x \in SixDigits : stamps'[x] = stamp \/ stamps'[x] = Stamps[x]
        BY <3>2 DEF Stamps
      <3> QED  BY <1>1, <3>2, <3>3, StampsTyped
    <2>2. CASE MintsElsewhere(d, life)
      BY <1>1, <2>2 DEF MintsElsewhere, TypedLimiter
    <2> QED  BY <2>1, <2>2
  <1>6. TypedLimiter'
    BY <1>1, <1>3, <1>4, <1>5 DEF TypedLimiter
  <1> QED  BY <1>6, QuietTypes DEF MintsHere, MintsElsewhere

LEMMA RedeemTypes ==
    ASSUME LimiterTypeOK, NEW d \in SixDigits, RedeemsPrivate(d) \/ \E c \in Clients : RedeemsPublic(c, d)
    PROVE  LimiterTypeOK'
  <1>1. TypedLimiter
    BY LimiterByPart
  <1>2. Spends(d) /\ UNCHANGED <<time, total, sat>> /\ stamps' \in {stamps, Stamps} /\ worst' \in {worst, sat[d]}
    BY DEF RedeemsPrivate, RedeemsPublic
  <1>3. live' \in [SixDigits -> Nat]
    BY <1>1, <1>2 DEF Spends, TypedLimiter
  <1>4. spentAt' \in [SixDigits -> -1..EndTime]
    BY <1>1, <1>2, StampsTyped DEF Spends, TypedLimiter
  <1>5. worst' \in Nat
    BY <1>1, <1>2 DEF TypedLimiter
  <1>6. \A x \in SixDigits : stamps'[x] = NoStamp \/ stamps'[x].base \in 0..total
    BY <1>1, <1>2, StampsTyped DEF TypedLimiter
  <1>7. TypedLimiter'
    BY <1>1, <1>2, <1>3, <1>4, <1>5, <1>6 DEF TypedLimiter
  <1> QED  BY <1>7, QuietTypes DEF RedeemsPrivate, RedeemsPublic

LEMMA VainTypes == ASSUME LimiterTypeOK, NEW d \in SixDigits, GuessesInVain(d) PROVE LimiterTypeOK'
  <1>1. TypedLimiter
    BY LimiterByPart
  <1>2. /\ UNCHANGED <<time, live, total, sat, worst>> /\ spentAt' = SpentAt /\ stamps' = Stamps /\ marks' = Marks
        /\ Trims
    BY DEF GuessesInVain
  <1>3. TypedLimiter'
    BY <1>1, <1>2, StampsTyped DEF TypedLimiter
  <1> QED  BY <1>2, <1>3, QuietTypes

LEMMA WrongTypes ==
    ASSUME LimiterTypeOK, NEW c \in Clients, NEW d \in SixDigits, GuessesWrong(c, d) PROVE LimiterTypeOK'
  <1>1. TypedLimiter /\ EventsAndCounts /\ TypedMarks
    BY LimiterByPart
  <1> DEFINE e == [at |-> time, client |-> c]
  <1>2. /\ events' = Append(Events, e) /\ counts' = [Counts EXCEPT ![c] = @ + 1]
        /\ marks' = Marked /\ total' = total + 1 /\ stamps' = Stamps /\ spentAt' = SpentAt
        /\ sat' = [x \in SixDigits |-> IF LiveCode(x) THEN sat[x] + 1 ELSE sat[x]]
        /\ UNCHANGED <<time, live, worst>>
    BY DEF GuessesWrong
  <1>3. TypedLimiter'
    <2>1. sat' \in [SixDigits -> Nat] /\ total' \in Nat
      BY <1>1, <1>2 DEF TypedLimiter
    <2>2. \A x \in SixDigits : stamps'[x] = NoStamp \/ stamps'[x].base \in 0..total'
      <3>1. \A x \in SixDigits : stamps'[x] = NoStamp \/ stamps'[x].base \in 0..total
        BY <1>1, <1>2, StampsTyped
      <3>2. 0..total \subseteq 0..total'
        BY <1>1, <1>2 DEF TypedLimiter
      <3> QED  BY <3>1, <3>2
    <2> QED  BY <1>1, <1>2, <2>1, <2>2, StampsTyped DEF TypedLimiter
  <1>4. e \in Event /\ e.client = c
    BY <1>1 DEF Event, TypedLimiter
  <1> HIDE DEF e
  <1>5. EventsAndCounts'
    <2>1. Events \in Seq(Event) /\ Counts = [x \in Clients |-> CountOf(Events, x)]
      BY <1>1, EventsCounted
    <2>2. PICK es \in Seq(Event) : es = Events
      BY <2>1
    <2>3. events' = Append(es, e) /\ events' \in Seq(Event)
      BY <1>2, <1>4, <2>2
    <2>4. \A x \in Clients : CountOf(Append(es, e), x) = IF c = x THEN CountOf(es, x) + 1 ELSE CountOf(es, x)
      BY <1>4, CountOfAppended
    <2>5. Counts = [x \in Clients |-> CountOf(es, x)]
      BY <2>1, <2>2
    <2>6. counts' = [x \in Clients |-> IF c = x THEN CountOf(es, x) + 1 ELSE CountOf(es, x)]
      BY <1>2, <2>5
    <2>7. counts' = [x \in Clients |-> CountOf(Append(es, e), x)]
      BY <2>4, <2>6, Zenon
    <2> QED  BY <2>3, <2>7, Zenon DEF EventsAndCounts
  <1>6. TypedMarks'
    <2>1. Marks \in Seq(Mark)
      BY <1>1, MarksTyped
    <2>2. PICK ms \in Seq(Mark) : ms = Marks
      BY <2>1
    <2>3. [at |-> time, base |-> total] \in Mark
      BY <1>1 DEF Mark, TypedLimiter
    <2>4. marks' \in {ms, Append(ms, [at |-> time, base |-> total])}
      BY <1>2, <2>2 DEF Marked
    <2> QED  BY <2>2, <2>3, <2>4 DEF TypedMarks
  <1> QED  BY <1>3, <1>5, <1>6, LimiterByPart

LEMMA LimiterRestartTypes == ASSUME LimiterTypeOK, LimiterRestarts PROVE LimiterTypeOK'
  <1>1. TypedLimiter
    BY LimiterByPart
  <1>2. Started /\ live' \in {live, [d \in SixDigits |-> 0]} /\ UNCHANGED <<time, worst>>
    BY DEF LimiterRestarts
  <1>3. TypedLimiter'
    <2>1. live' \in [SixDigits -> Nat] /\ time' \in 0..EndTime /\ worst' \in Nat
      BY <1>1, <1>2 DEF TypedLimiter
    <2>2. spentAt' \in [SixDigits -> -1..EndTime]
      BY <1>2, LimiterAssumption DEF Started
    <2>3. total' = 0 /\ stamps' = [x \in SixDigits |-> NoStamp] /\ sat' \in [SixDigits -> Nat]
      BY <1>2 DEF Started
    <2> QED  BY <2>1, <2>2, <2>3 DEF TypedLimiter
  <1>4. \A c \in Clients : CountOf(<<>>, c) = 0
    BY FS_EmptySet DEF CountOf
  <1>5. EventsAndCounts' /\ TypedMarks'
    BY <1>2, <1>4 DEF EventsAndCounts, TypedMarks, Started
  <1> QED  BY <1>3, <1>5, LimiterByPart

LEMMA LimiterTypesStep == ASSUME LimiterTypeOK, [LimiterNext]_limiterVars PROVE LimiterTypeOK'
  <1>1. CASE UNCHANGED limiterVars
    BY <1>1 DEF limiterVars, LimiterTypeOK
  <1>2. CASE LimiterTick
    <2>1. TypedLimiter'
      BY <1>2, LimiterByPart, LimiterAssumption DEF LimiterTick, TypedLimiter
    <2> QED  BY <1>2, <2>1, QuietTypes DEF LimiterTick
  <1> QED  BY <1>1, <1>2, MintTypes, RedeemTypes, VainTypes, WrongTypes, LimiterRestartTypes DEF LimiterNext

\* The limiter keeps its types; what it remembers of each client is how many failures
\* of the client are in the window, however failures come and age.
THEOREM LimiterTypes == LimiterSpec => []LimiterTypeOK
  <1>1. LimiterInit => LimiterTypeOK
    BY LimiterTypesBegin
  <1>2. LimiterTypeOK /\ [LimiterNext]_limiterVars => LimiterTypeOK'
    BY LimiterTypesStep
  <1> QED  BY <1>1, <1>2, PTL DEF LimiterSpec

(***************************************************************************)
(* What stands, side by side.                                              *)
(***************************************************************************)
\* Grants, the limiter, members, clusters and capability cards keep their types
\* beside each other, whatever is raced, fails or restarts.
THEOREM StandingTypes == AllStanding => []StandingTypeOK
  BY GrantsTypes, LimiterTypes, MembersTypes, ClustersTypes, CardsTypes, PTL DEF AllStanding, StandingTypeOK
==============================================================================
