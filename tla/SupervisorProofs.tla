--------------------------- MODULE SupervisorProofs ---------------------------
(***************************************************************************)
(* What a supervised run keeps to, for every policy, any thresholds, any   *)
(* number of sources and sinks, and however fast the threads go.           *)
(*                                                                         *)
(* RunIsSound is not inductive.  That every sink is told in the end rests  *)
(* on how many restarts and terminations each was told of so far, at every *)
(* point of the launcher's loop (SinkInv); that a child dies for checks of *)
(* its own, on what its probe thread has counted (ProbeInv).               *)
(***************************************************************************)
EXTENDS Supervisor, WellFoundedInduction, TLAPS

(***************************************************************************)
(* Numbers.  What holds of a number when it holds of every smaller one     *)
(* holds of all: else some number would be the least it fails for.         *)
(***************************************************************************)
LEMMA LeastExists == ASSUME NEW S \in SUBSET Nat, S # {} PROVE \E x \in S : \A y \in S : x <= y
  <1>1. PICK x \in S : \A y \in S : ~ (<<y, x>> \in OpToRel(<, Nat))
    BY WFMin, NatLessThanWellFounded
  <1>2. \A y \in S : ~(y < x)
    BY <1>1, Zenon DEF OpToRel
  <1> QED  BY <1>2

\* f holds the powers of two up to 2^n.
PowersTo(f, n) == f \in [0..n -> Nat] /\ f[0] = 1 /\ \A i \in 1..n : f[i] = 2 * f[i - 1]

LEMMA PowersExist == \A n \in Nat : \E f : PowersTo(f, n)
  <1> SUFFICES ASSUME NEW n \in Nat, \A f : ~PowersTo(f, n) PROVE FALSE
    OBVIOUS
  <1> DEFINE Bad == {k \in Nat : \A f : ~PowersTo(f, k)}
  <1>1. PICK m \in Bad : \A k \in Bad : m <= k
    BY LeastExists
  <1>2. m # 0
    <2>1. PICK f : f = [i \in 0..0 |-> 1]
      OBVIOUS
    <2>2. PowersTo(f, 0)
      BY <2>1 DEF PowersTo
    <2> QED  BY <2>2
  <1>3. m \in Nat /\ m - 1 \in Nat /\ m - 1 \notin Bad
    BY <1>1, <1>2
  <1>4. PICK f : PowersTo(f, m - 1)
    BY <1>3
  <1>5. PICK g : g = [i \in 0..m |-> IF i = m THEN 2 * f[m - 1] ELSE f[i]]
    OBVIOUS
  <1>6. PowersTo(g, m)
    <2>1. f \in [0..(m - 1) -> Nat] /\ f[0] = 1 /\ \A i \in 1..(m - 1) : f[i] = 2 * f[i - 1]
      BY <1>4 DEF PowersTo
    <2>2. \A i \in 0..m : i # m => i \in 0..(m - 1)
      BY <1>3
    <2>3. g \in [0..m -> Nat]
      <3>1. f[m - 1] \in Nat
        BY <1>3, <2>1
      <3>2. \A i \in 0..m : (IF i = m THEN 2 * f[m - 1] ELSE f[i]) \in Nat
        BY <2>1, <2>2, <3>1
      <3> QED  BY <1>5, <3>2
    <2>4. g[0] = 1
      BY <1>2, <1>3, <1>5, <2>1
    <2>5. \A i \in 1..m : g[i] = 2 * g[i - 1]
      <3> SUFFICES ASSUME NEW i \in 1..m PROVE g[i] = 2 * g[i - 1]
        OBVIOUS
      <3>1. i - 1 \in 0..m /\ i - 1 # m /\ i \in 0..m
        BY <1>3
      <3>2. g[i - 1] = f[i - 1]
        BY <1>5, <3>1
      <3>3. CASE i = m
        BY <1>5, <3>1, <3>2, <3>3
      <3>4. CASE i # m
        <4>1. i \in 1..(m - 1)
          BY <1>3, <3>4
        <4> QED  BY <1>5, <2>1, <3>1, <3>2, <3>4, <4>1
      <3> QED  BY <3>3, <3>4
    <2> QED  BY <2>3, <2>4, <2>5 DEF PowersTo
  <1> QED  BY <1>1, <1>6

LEMMA PowersAgree ==
    ASSUME NEW n \in Nat, NEW m \in Nat, NEW f, NEW g, PowersTo(f, n), PowersTo(g, m)
    PROVE  \A k \in Nat : k <= n /\ k <= m => f[k] = g[k]
  <1> SUFFICES ASSUME NEW j \in Nat, j <= n /\ j <= m, f[j] # g[j] PROVE FALSE
    OBVIOUS
  <1> DEFINE Bad == {k \in Nat : k <= n /\ k <= m /\ f[k] # g[k]}
  <1>1. PICK k \in Bad : \A i \in Bad : k <= i
    BY LeastExists
  <1>2. k \in Nat /\ k <= n /\ k <= m /\ f[k] # g[k]
    BY <1>1
  <1>3. k # 0
    BY <1>2 DEF PowersTo
  <1>4. k - 1 \in Nat /\ k - 1 \notin Bad /\ k - 1 <= n /\ k - 1 <= m
    BY <1>1, <1>2, <1>3
  <1>5. f[k - 1] = g[k - 1]
    BY <1>4
  <1>6. k \in 1..n /\ k \in 1..m
    BY <1>2, <1>3
  <1> QED  BY <1>2, <1>5, <1>6 DEF PowersTo

\* Power2 is what its definition says: 2^0 = 1, and every power twice the one before.
LEMMA PowerIsDefined ==
    /\ Power2[0] = 1
    /\ \A n \in Nat : Power2[n] \in Nat
    /\ \A n \in Nat \ {0} : Power2[n] = 2 * Power2[n - 1]
  <1> DEFINE P(n) == CHOOSE f : PowersTo(f, n)
             F == [n \in Nat |-> P(n)[n]]
             G(f) == [n \in Nat |-> IF n = 0 THEN 1 ELSE 2 * f[n - 1]]
  <1>1. \A n \in Nat : PowersTo(P(n), n)
    BY PowersExist, Zenon
  <1>2. \A n \in Nat : F[n] = P(n)[n]
    OBVIOUS
  <1> HIDE DEF P, F
  <1>3. F[0] = 1
    BY <1>1, <1>2 DEF PowersTo
  <1>4. ASSUME NEW n \in Nat \ {0} PROVE F[n] = 2 * F[n - 1]
    <2>1. n - 1 \in Nat /\ n \in 1..n /\ n - 1 <= n /\ n - 1 <= n - 1
      OBVIOUS
    <2>2. P(n)[n] = 2 * P(n)[n - 1]
      BY <1>1, <2>1 DEF PowersTo
    <2>3. P(n)[n - 1] = P(n - 1)[n - 1]
      BY <1>1, <2>1, PowersAgree
    <2> QED  BY <1>2, <2>1, <2>2, <2>3
  <1>6. F = G(F)
    <2>1. \A n \in Nat : F[n] = G(F)[n]
      BY <1>3, <1>4
    <2> QED  BY <2>1 DEF F
  <1>7. Power2 = CHOOSE f : f = G(f)
    BY DEF Power2
  <1>8. Power2 = G(Power2)
    BY <1>6, <1>7, Zenon
  <1>9. Power2[0] = 1 /\ \A n \in Nat \ {0} : Power2[n] = 2 * Power2[n - 1]
    BY <1>8
  <1>10. \A n \in Nat : Power2[n] \in Nat
    <2> SUFFICES ASSUME NEW j \in Nat, Power2[j] \notin Nat PROVE FALSE
      OBVIOUS
    <2> DEFINE Bad == {k \in Nat : Power2[k] \notin Nat}
    <2>1. PICK k \in Bad : \A i \in Bad : k <= i
      BY LeastExists
    <2>2. k # 0 /\ k \in Nat /\ Power2[k] \notin Nat
      BY <1>9, <2>1
    <2>3. k - 1 \in Nat /\ k - 1 \notin Bad
      BY <2>1, <2>2
    <2>4. Power2[k - 1] \in Nat
      BY <2>3
    <2> QED  BY <1>9, <2>2, <2>4
  <1> QED  BY <1>9, <1>10

(***************************************************************************)
(* The backoff.                                                            *)
(***************************************************************************)
Raw(c, n) ==
    CASE c.backoff = "constant" -> InitialDelay
      [] c.backoff = "linear" -> InitialDelay * n
      [] OTHER -> InitialDelay * Power2[n - 1]

LEMMA RawGrows ==
    ASSUME NEW c \in ConfigType, NEW n \in Nat \ {0}
    PROVE  Raw(c, n) \in Nat /\ Raw(c, n + 1) \in Nat /\ Raw(c, n) <= Raw(c, n + 1)
  <1>1. InitialDelay \in Nat /\ n - 1 \in Nat /\ n + 1 \in Nat /\ (n + 1) - 1 = n
    BY SupervisorAssumption
  <1>2. CASE c.backoff = "constant"
    BY <1>1, <1>2 DEF Raw
  <1>3. CASE c.backoff = "linear"
    <2>1. Raw(c, n) = InitialDelay * n /\ Raw(c, n + 1) = InitialDelay * (n + 1)
      BY <1>3 DEF Raw
    <2>2. InitialDelay * n \in Nat /\ InitialDelay * (n + 1) = InitialDelay * n + InitialDelay
      BY <1>1
    <2> QED  BY <1>1, <2>1, <2>2
  <1>4. CASE c.backoff = "exponential"
    <2>1. Raw(c, n) = InitialDelay * Power2[n - 1] /\ Raw(c, n + 1) = InitialDelay * Power2[n]
      BY <1>1, <1>4 DEF Raw
    <2>2. PICK p \in Nat : p = Power2[n - 1] /\ Power2[n] = 2 * p
      BY <1>1, PowerIsDefined
    <2>3. InitialDelay * p \in Nat /\ InitialDelay * (2 * p) = InitialDelay * p + InitialDelay * p
      BY <1>1
    <2> QED  BY <2>1, <2>2, <2>3
  <1> QED  BY <1>2, <1>3, <1>4 DEF ConfigType

LEMMA DelayGrows ==
    ASSUME NEW c \in ConfigType, NEW n \in Nat \ {0}
    PROVE  NextDelay(c, n) \in 0..MaxDelay /\ NextDelay(c, n + 1) \in 0..MaxDelay
           /\ NextDelay(c, n) <= NextDelay(c, n + 1)
  <1>1. /\ NextDelay(c, n) = IF Raw(c, n) < MaxDelay THEN Raw(c, n) ELSE MaxDelay
        /\ NextDelay(c, n + 1) = IF Raw(c, n + 1) < MaxDelay THEN Raw(c, n + 1) ELSE MaxDelay
    BY DEF NextDelay, Raw
  <1>2. PICK a \in Nat, b \in Nat : a = Raw(c, n) /\ b = Raw(c, n + 1) /\ a <= b
    BY RawGrows
  <1>3. MaxDelay \in Nat
    BY SupervisorAssumption
  <1> QED  BY <1>1, <1>2, <1>3

(***************************************************************************)
(* The inductive invariant.                                                *)
(***************************************************************************)
Watched == {"attaching", "arming", "watching", "terminating", "killing", "exited", "joining", "deciding"}
Between == {"opening", "spawning", "sleeping"}

Pcs == Watched \union Between \union {"closing", "ended"}

Types ==
    /\ config \in ConfigType /\ config \in Configs /\ pc \in Pcs
    /\ code \in [Children -> {0, 1, 9}] /\ signaled \in BOOLEAN
    /\ outcome \in {"running", "raised", "final_exit", "max_attempts_reached"}

\* A child of this run lives only between its spawn and its exit being seen, or after a launcher that gave up.
ChildInv ==
    /\ alive \subseteq {spawned} /\ wedged \subseteq alive /\ 0 \notin alive
    /\ pc \in Between \union {"exited", "joining", "deciding"} => alive = {}

\* A probe that runs has counted what failed since a check of this child did not; one that asked for the
\* restart counted to the threshold.
ProbeOK(p, n) ==
    /\ p.pc \in {"waiting", "checking"} => ~p.required /\ p.fails < Threshold /\ p.fails = n
    /\ p.required => n >= Threshold
ProbeInv ==
    /\ probe \in [Children -> Probes] /\ streak \in [Children -> 0..Threshold]
    /\ \A i \in Children : ProbeOK(probe[i], streak[i])
    /\ \A i \in Children :
          i > spawned \/ (i = spawned /\ pc \in {"attaching", "arming"}) => probe[i] = NoProbe /\ streak[i] = 0

\* A restart per child but the one that runs, and within the budget; a termination per child at most.
CountInv ==
    /\ spawned \in 0..MaxSpawns /\ attempt \in Nat /\ attempt <= spawned
    /\ pc \in Between => attempt = spawned
    /\ pc \in Watched => spawned = attempt + 1
    /\ config.budget > 0 =>
          spawned <= config.budget + 1 /\ (pc \in {"spawning", "sleeping"} => attempt <= config.budget)
    /\ terminated \in Nat /\ terminated <= spawned
    /\ pc \in {"attaching", "arming", "watching"} => terminated < spawned
    /\ pc = "opening" => attempt = 0

\* The last backoff is the one of the last restart.
DelayInv ==
    /\ delay \in 0..MaxDelay
    /\ pc \notin {"closing", "ended"} =>
          (attempt = 0 /\ delay = 0) \/ (attempt >= 1 /\ delay = NextDelay(config, attempt))

SourceInv ==
    /\ open \subseteq Sources
    /\ pc \in Watched \union {"spawning", "sleeping"} => open = Sources
    /\ pc = "ended" => open = {}

\* Told of every restart and of every termination but the one whose child is still on its way out.
Told == attempt + terminated
SinkInv ==
    /\ tried \in [Sinks -> Nat]
    /\ \A s \in Sinks :
          /\ tried[s] + 1 >= Told
          /\ pc \notin {"terminating", "killing", "exited", "joining"} => tried[s] >= Told
          /\ pc = "exited" /\ ~probe[spawned].required => tried[s] >= Told
          /\ pc = "joining" /\ ~signaled => tried[s] >= Told
    /\ pc \in {"terminating", "killing"} => probe[spawned].required

RunInv ==
    Types /\ ChildInv /\ ProbeInv /\ CountInv /\ DelayInv /\ SourceInv /\ SinkInv

LEMMA RunInvInit == ASSUME Init PROVE RunInv
  <1>1. Types /\ ChildInv /\ SourceInv
    BY SupervisorAssumption DEF Init, Types, ChildInv, SourceInv, Pcs, Watched, Between, Children
  <1>2. ProbeInv
    <2>1. NoProbe \in Probes /\ 0 \in 0..Threshold /\ ProbeOK(NoProbe, 0)
      BY SupervisorAssumption DEF NoProbe, Probes, ProbeOK
    <2> QED  BY <2>1 DEF Init, ProbeInv
  <1>3. CountInv /\ DelayInv /\ SinkInv
    BY <1>1, SupervisorAssumption
       DEF Init, Types, ConfigType, CountInv, DelayInv, SinkInv, Told, Watched, Between
  <1> QED  BY <1>1, <1>2, <1>3 DEF RunInv

LEMMA ProbeStands ==
    ASSUME ProbeInv, UNCHANGED <<probe, streak, spawned>>,
           pc' \in {"attaching", "arming"} => pc \in {"attaching", "arming"}
    PROVE  ProbeInv'
  BY DEF ProbeInv

(***************************************************************************)
(* The launcher's steps.                                                   *)
(***************************************************************************)
LEMMA StepOpenSource == ASSUME RunInv, NEW s \in Sources, OpenSource(s) PROVE RunInv'
  <1>0. config.budget \in Nat /\ UNCHANGED <<probe, streak, spawned>>
        /\ (pc' \in {"attaching", "arming"} => pc \in {"attaching", "arming"})
    BY DEF OpenSource, procs, loop, RunInv, Types, ConfigType
  <1>1. ProbeInv'
    BY <1>0, ProbeStands DEF RunInv
  <1>2. Types' /\ ChildInv' /\ SourceInv'
    BY <1>0 DEF OpenSource, procs, loop, RunInv, Types, ChildInv, SourceInv, Pcs, Watched, Between
  <1>3. CountInv' /\ DelayInv' /\ SinkInv'
    BY <1>0 DEF OpenSource, procs, loop, RunInv, CountInv, DelayInv, SinkInv, Told, Watched, Between
  <1> QED  BY <1>1, <1>2, <1>3 DEF RunInv

LEMMA StepFetchSecrets == ASSUME RunInv, FetchSecrets PROVE RunInv'
  <1>0. config.budget \in Nat /\ UNCHANGED <<probe, streak, spawned>>
        /\ (pc' \in {"attaching", "arming"} => pc \in {"attaching", "arming"})
    BY DEF FetchSecrets, procs, loop, RunInv, Types, ConfigType
  <1>1. ProbeInv'
    BY <1>0, ProbeStands DEF RunInv
  <1>2. Types' /\ ChildInv' /\ SourceInv'
    BY <1>0 DEF FetchSecrets, procs, loop, RunInv, Types, ChildInv, SourceInv, Pcs, Watched, Between
  <1>3. CountInv' /\ DelayInv' /\ SinkInv'
    BY <1>0 DEF FetchSecrets, procs, loop, RunInv, CountInv, DelayInv, SinkInv, Told, Watched, Between
  <1> QED  BY <1>1, <1>2, <1>3 DEF RunInv

LEMMA StepClose == ASSUME RunInv, Close PROVE RunInv'
  <1>0. config.budget \in Nat /\ UNCHANGED <<probe, streak, spawned>>
        /\ (pc' \in {"attaching", "arming"} => pc \in {"attaching", "arming"})
    BY DEF Close, procs, loop, RunInv, Types, ConfigType, TornDown
  <1>1. ProbeInv'
    BY <1>0, ProbeStands DEF RunInv
  <1>2. Types' /\ ChildInv' /\ SourceInv'
    BY <1>0 DEF Close, procs, loop, RunInv, Types, ChildInv, SourceInv, Pcs, Watched, Between, TornDown
  <1>3. CountInv' /\ DelayInv' /\ SinkInv'
    BY <1>0 DEF Close, procs, loop, RunInv, CountInv, DelayInv, SinkInv, Told, Watched, Between, TornDown
  <1> QED  BY <1>1, <1>2, <1>3 DEF RunInv

LEMMA StepAttach == ASSUME RunInv, Attach PROVE RunInv'
  <1>0. config.budget \in Nat /\ UNCHANGED <<probe, streak, spawned>>
        /\ (pc' \in {"attaching", "arming"} => pc \in {"attaching", "arming"})
    BY DEF Attach, procs, loop, RunInv, Types, ConfigType
  <1>1. ProbeInv'
    BY <1>0, ProbeStands DEF RunInv
  <1>2. Types' /\ ChildInv' /\ SourceInv'
    BY <1>0 DEF Attach, procs, loop, RunInv, Types, ChildInv, SourceInv, Pcs, Watched, Between
  <1>3. CountInv' /\ DelayInv' /\ SinkInv'
    BY <1>0 DEF Attach, procs, loop, RunInv, CountInv, DelayInv, SinkInv, Told, Watched, Between
  <1> QED  BY <1>1, <1>2, <1>3 DEF RunInv

LEMMA StepSeeExit == ASSUME RunInv, SeeExit PROVE RunInv'
  <1>0. config.budget \in Nat /\ UNCHANGED <<probe, streak, spawned>>
        /\ (pc' \in {"attaching", "arming"} => pc \in {"attaching", "arming"})
    BY DEF SeeExit, procs, loop, RunInv, Types, ConfigType
  <1>1. ProbeInv'
    BY <1>0, ProbeStands DEF RunInv
  <1>2. Types' /\ ChildInv' /\ SourceInv'
    BY <1>0 DEF SeeExit, procs, loop, RunInv, Types, ChildInv, SourceInv, Pcs, Watched, Between
  <1>3. CountInv' /\ DelayInv' /\ SinkInv'
    BY <1>0 DEF SeeExit, procs, loop, RunInv, CountInv, DelayInv, SinkInv, Told, Watched, Between
  <1> QED  BY <1>1, <1>2, <1>3 DEF RunInv

LEMMA StepTerminate == ASSUME RunInv, Terminate PROVE RunInv'
  <1>0. config.budget \in Nat /\ UNCHANGED <<probe, streak, spawned>>
        /\ (pc' \in {"attaching", "arming"} => pc \in {"attaching", "arming"})
    BY DEF Terminate, procs, loop, RunInv, Types, ConfigType
  <1>1. ProbeInv'
    BY <1>0, ProbeStands DEF RunInv
  <1>2. Types' /\ ChildInv' /\ SourceInv'
    BY <1>0 DEF Terminate, procs, loop, RunInv, Types, ChildInv, SourceInv, Pcs, Watched, Between
  <1>3. CountInv' /\ DelayInv' /\ SinkInv'
    BY <1>0 DEF Terminate, procs, loop, RunInv, CountInv, DelayInv, SinkInv, Told, Watched, Between
  <1> QED  BY <1>1, <1>2, <1>3 DEF RunInv

LEMMA StepGraceEnds == ASSUME RunInv, GraceEnds PROVE RunInv'
  <1>0. config.budget \in Nat /\ UNCHANGED <<probe, streak, spawned>>
        /\ (pc' \in {"attaching", "arming"} => pc \in {"attaching", "arming"})
    BY DEF GraceEnds, procs, loop, RunInv, Types, ConfigType, AfterGrace
  <1>1. ProbeInv'
    BY <1>0, ProbeStands DEF RunInv
  <1>2. Types' /\ ChildInv' /\ SourceInv'
    BY <1>0 DEF GraceEnds, procs, loop, RunInv, Types, ChildInv, SourceInv, Pcs, Watched, Between, AfterGrace
  <1>3. CountInv' /\ DelayInv' /\ SinkInv'
    BY <1>0 DEF GraceEnds, procs, loop, RunInv, CountInv, DelayInv, SinkInv, Told, Watched, Between, AfterGrace
  <1> QED  BY <1>1, <1>2, <1>3 DEF RunInv

LEMMA StepWake == ASSUME RunInv, Wake PROVE RunInv'
  <1>0. config.budget \in Nat /\ UNCHANGED <<probe, streak, spawned>>
        /\ (pc' \in {"attaching", "arming"} => pc \in {"attaching", "arming"})
    BY DEF Wake, procs, loop, RunInv, Types, ConfigType
  <1>1. ProbeInv'
    BY <1>0, ProbeStands DEF RunInv
  <1>2. Types' /\ ChildInv' /\ SourceInv'
    BY <1>0 DEF Wake, procs, loop, RunInv, Types, ChildInv, SourceInv, Pcs, Watched, Between
  <1>3. CountInv' /\ DelayInv' /\ SinkInv'
    BY <1>0 DEF Wake, procs, loop, RunInv, CountInv, DelayInv, SinkInv, Told, Watched, Between
  <1> QED  BY <1>1, <1>2, <1>3 DEF RunInv

LEMMA StepSpawn == ASSUME RunInv, Spawn PROVE RunInv'
  <1>0. /\ config.budget \in Nat
        /\ UNCHANGED <<config, open, wedged, code, probe, attempt, delay, signaled, tried, terminated, streak>>
        /\ pc = "spawning" /\ spawned \in Nat /\ MaxSpawns \in Nat
    BY SupervisorAssumption DEF Spawn, RunInv, Types, ConfigType, CountInv
  <1>1. CASE /\ spawned < MaxSpawns /\ spawned' = spawned + 1 /\ alive' = alive \union {spawned + 1}
             /\ pc' \in {"attaching", "arming"} /\ outcome' = outcome
    <2>1. ProbeInv'
      <3>1. \A i \in Children : i > spawned + 1 \/ i = spawned + 1 => i > spawned
        BY <1>0 DEF Children
      <3> QED  BY <1>0, <1>1, <3>1 DEF RunInv, ProbeInv
    <2>2. Types' /\ SourceInv'
      BY <1>0, <1>1 DEF RunInv, Types, SourceInv, Pcs, Watched, Between
    <2>3. ChildInv'
      BY <1>0, <1>1 DEF RunInv, ChildInv, Between
    <2>4. CountInv' /\ DelayInv' /\ SinkInv'
      BY <1>0, <1>1 DEF RunInv, CountInv, DelayInv, SinkInv, Told, Watched, Between
    <2> QED  BY <2>1, <2>2, <2>3, <2>4 DEF RunInv
  <1>2. CASE pc' = "closing" /\ outcome' = "raised" /\ UNCHANGED <<spawned, alive>>
    <2>1. ProbeInv'
      BY <1>0, <1>2, ProbeStands DEF RunInv
    <2>2. Types' /\ ChildInv' /\ SourceInv'
      BY <1>0, <1>2 DEF RunInv, Types, ChildInv, SourceInv, Pcs, Watched, Between
    <2>3. CountInv' /\ DelayInv' /\ SinkInv'
      BY <1>0, <1>2 DEF RunInv, CountInv, DelayInv, SinkInv, Told, Watched, Between
    <2> QED  BY <2>1, <2>2, <2>3 DEF RunInv
  <1> QED  BY <1>1, <1>2 DEF Spawn

LEMMA SpawnedIsChild == ASSUME RunInv, pc \in Watched PROVE spawned \in Children
  BY SupervisorAssumption DEF RunInv, CountInv, Watched, Children

LEMMA StepArm == ASSUME RunInv, Arm PROVE RunInv'
  <1>0. spawned \in Children /\ UNCHANGED <<config, open, procs, loop, streak>> /\ pc = "arming" /\ pc' = "watching"
    BY SpawnedIsChild DEF Arm, Watched
  <1>1. PICK p \in {NoProbe, FreshProbe} : probe' = [probe EXCEPT ![spawned] = p]
    BY DEF Arm
  <1>2. p \in Probes /\ ProbeOK(p, 0) /\ ~p.required
    <2>1. NoProbe \in Probes /\ NoProbe.fails = 0 /\ ~NoProbe.required /\ NoProbe.pc = "none"
      BY SupervisorAssumption DEF NoProbe, Probes
    <2>2. FreshProbe = [pc |-> "waiting", fails |-> NoProbe.fails, required |-> NoProbe.required, stop |-> NoProbe.stop]
      BY <2>1 DEF FreshProbe, Probes
    <2>3. FreshProbe \in Probes /\ FreshProbe.fails = 0 /\ ~FreshProbe.required
      BY <2>1, <2>2 DEF Probes
    <2> QED  BY <1>1, <2>1, <2>3, SupervisorAssumption DEF ProbeOK
  <1>3. ProbeInv'
    <2>1. streak[spawned] = 0 /\ probe' \in [Children -> Probes]
      BY <1>0, <1>1, <1>2 DEF RunInv, ProbeInv
    <2>2. \A i \in Children : probe'[i] = IF i = spawned THEN p ELSE probe[i]
      BY <1>0, <1>1 DEF RunInv, ProbeInv
    <2>3. spawned \in Nat /\ spawned' = spawned
      BY <1>0 DEF RunInv, CountInv, procs
    <2> QED  BY <1>0, <1>2, <2>1, <2>2, <2>3 DEF RunInv, ProbeInv, Children
  <1>4. Types' /\ ChildInv' /\ SourceInv' /\ CountInv' /\ DelayInv'
    BY <1>0 DEF procs, loop, RunInv, Types, ChildInv, SourceInv, CountInv, DelayInv, Pcs, Watched, Between
  <1>5. SinkInv'
    BY <1>0 DEF procs, loop, RunInv, SinkInv, Told
  <1> QED  BY <1>3, <1>4, <1>5 DEF RunInv

\* A probe's stop is set: what it counted stands.
LEMMA StopSet ==
    ASSUME NEW p \in Probes, NEW t \in BOOLEAN
    PROVE  [p EXCEPT !.stop = t] = [pc |-> p.pc, fails |-> p.fails, required |-> p.required, stop |-> t]
  BY DEF Probes

LEMMA StepReadSignal == ASSUME RunInv, ReadSignal PROVE RunInv'
  <1>0. /\ spawned \in Children /\ pc = "exited" /\ pc' = "joining" /\ signaled' = probe[spawned].required
        /\ UNCHANGED <<config, open, procs, attempt, delay, outcome, tried, terminated, streak>>
        /\ probe \in [Children -> Probes]
    BY SpawnedIsChild DEF ReadSignal, Watched, RunInv, ProbeInv
  <1>1. PICK p \in Probes : p = probe[spawned]
    BY <1>0
  <1>2. PICK q : q = [pc |-> p.pc, fails |-> p.fails, required |-> p.required, stop |-> TRUE]
    OBVIOUS
  <1>3. probe' = [probe EXCEPT ![spawned] = q] /\ q \in Probes
    <2>1. q = [p EXCEPT !.stop = TRUE]
      BY <1>2, StopSet
    <2>2. probe' = [probe EXCEPT ![spawned] = [probe[spawned] EXCEPT !.stop = TRUE]]
      BY DEF ReadSignal
    <2> QED  BY <1>1, <1>2, <2>1, <2>2 DEF Probes
  <1>4. ProbeInv'
    <2>1. \A i \in Children : probe'[i] = IF i = spawned THEN q ELSE probe[i]
      BY <1>0, <1>3
    <2>2. probe' \in [Children -> Probes]
      BY <1>0, <1>3
    <2>3. ProbeOK(q, streak[spawned])
      BY <1>0, <1>1, <1>2 DEF RunInv, ProbeInv, ProbeOK
    <2>4. spawned \in Nat /\ spawned' = spawned
      BY <1>0 DEF RunInv, CountInv, procs
    <2> QED  BY <1>0, <2>1, <2>2, <2>3, <2>4 DEF RunInv, ProbeInv, Children
  <1>5. Types' /\ ChildInv' /\ SourceInv' /\ CountInv' /\ DelayInv'
    BY <1>0, <1>1 DEF procs, RunInv, Types, ChildInv, SourceInv, CountInv, DelayInv, Pcs, Watched, Between, Probes
  <1>6. SinkInv'
    BY <1>0 DEF procs, RunInv, SinkInv, Told
  <1> QED  BY <1>4, <1>5, <1>6 DEF RunInv

\* Every sink is told, whichever of them fail, or none is.
LEMMA SinksTold ==
    ASSUME tried \in [Sinks -> Nat], NEW w \in BOOLEAN, Dispatch(w)
    PROVE  tried' \in [Sinks -> Nat] /\ \A s \in Sinks : tried'[s] = IF w THEN tried[s] + 1 ELSE tried[s]
  BY DEF Dispatch, Posted

LEMMA StepJoin == ASSUME RunInv, Join PROVE RunInv'
  <1>0. /\ pc = "joining" /\ pc' = "deciding" /\ Dispatch(signaled) /\ signaled \in BOOLEAN
        /\ UNCHANGED <<config, open, procs, probe, attempt, delay, signaled, outcome, terminated, streak>>
    BY DEF Join, RunInv, Types
  <1>1. ProbeInv'
    BY <1>0, ProbeStands DEF RunInv, procs
  <1>2. Types' /\ ChildInv' /\ SourceInv' /\ CountInv' /\ DelayInv'
    BY <1>0 DEF procs, RunInv, Types, ChildInv, SourceInv, CountInv, DelayInv, Pcs, Watched, Between
  <1>3. SinkInv'
    <2>1. /\ tried' \in [Sinks -> Nat]
          /\ \A s \in Sinks : tried'[s] = IF signaled THEN tried[s] + 1 ELSE tried[s]
      BY <1>0, SinksTold DEF RunInv, SinkInv
    <2>2. Told' = Told /\ Told \in Nat
      BY <1>0 DEF Told, RunInv, CountInv
    <2>3. \A s \in Sinks : tried[s] + 1 >= Told /\ (~signaled => tried[s] >= Told) /\ tried[s] \in Nat
      BY <1>0 DEF RunInv, SinkInv
    <2>4. \A s \in Sinks : tried'[s] >= Told /\ tried'[s] + 1 >= Told
      BY <2>1, <2>2, <2>3
    <2> QED  BY <1>0, <2>1, <2>2, <2>4 DEF SinkInv
  <1> QED  BY <1>1, <1>2, <1>3 DEF RunInv

LEMMA StepDecide == ASSUME RunInv, Decide PROVE RunInv'
  <1>0. /\ pc = "deciding" /\ UNCHANGED <<config, open, procs, probe, signaled, terminated, streak>>
        /\ config \in ConfigType /\ config.budget \in Nat /\ attempt \in Nat
    BY DEF Decide, RunInv, Types, CountInv, ConfigType
  <1>1. CASE ~ShouldRestart(config, code[spawned])
    <2>0. pc' = "closing" /\ outcome' = "final_exit" /\ UNCHANGED <<attempt, delay, tried>>
      BY <1>1 DEF Decide
    <2>1. ProbeInv'
      BY <1>0, <2>0, ProbeStands DEF RunInv, procs
    <2>2. Types' /\ ChildInv' /\ SourceInv' /\ CountInv' /\ DelayInv' /\ SinkInv'
      BY <1>0, <2>0 DEF procs, RunInv, Types, ChildInv, SourceInv, CountInv, DelayInv, SinkInv, Told, Pcs, Watched, Between
    <2> QED  BY <2>1, <2>2 DEF RunInv
  <1>2. CASE ShouldRestart(config, code[spawned])
    <2>9. attempt' = attempt + 1 /\ Dispatch(TRUE)
      BY <1>2 DEF Decide
    <2>0. \/ pc' = "closing" /\ outcome' = "max_attempts_reached" /\ UNCHANGED delay
          \/ /\ ~Exhausted(config, attempt + 1) /\ pc' = "sleeping"
             /\ delay' = NextDelay(config, attempt + 1) /\ UNCHANGED outcome
      BY <1>2 DEF Decide
    <2>1. ProbeInv'
      BY <1>0, <2>0, ProbeStands DEF RunInv, procs
    <2>2. Types' /\ ChildInv' /\ SourceInv'
      BY <1>0, <2>0 DEF procs, RunInv, Types, ChildInv, SourceInv, Pcs, Watched, Between
    <2>3. CountInv'
      BY <1>0, <2>9, <2>0 DEF procs, RunInv, CountInv, Pcs, Watched, Between, Exhausted
    <2>4. DelayInv'
      <3>1. NextDelay(config, attempt + 1) \in 0..MaxDelay
        BY <1>0, DelayGrows
      <3> QED  BY <1>0, <2>9, <2>0, <3>1 DEF RunInv, DelayInv
    <2>5. SinkInv'
      <3>1. tried' \in [Sinks -> Nat] /\ \A s \in Sinks : tried'[s] = tried[s] + 1 /\ tried[s] \in Nat
        BY <2>9, SinksTold DEF RunInv, SinkInv
      <3>2. Told' = Told + 1 /\ Told \in Nat
        BY <1>0, <2>9 DEF Told, RunInv, CountInv
      <3>3. \A s \in Sinks : tried[s] >= Told
        BY <1>0 DEF RunInv, SinkInv
      <3>4. \A s \in Sinks : tried'[s] >= Told' /\ tried'[s] + 1 >= Told'
        BY <3>1, <3>2, <3>3
      <3> QED  BY <2>0, <3>1, <3>4 DEF SinkInv
    <2> QED  BY <2>1, <2>2, <2>3, <2>4, <2>5 DEF RunInv
  <1> QED  BY <1>1, <1>2 DEF Decide

(***************************************************************************)
(* The probe's and the child's.                                            *)
(***************************************************************************)
\* The launcher and the child stand, and what a probe asked for it still asks for.
LEMMA RestStands ==
    ASSUME RunInv, ProbeInv', UNCHANGED <<config, pc, open, procs, loop>>,
           \A i \in Children : probe[i].required => probe'[i].required
    PROVE  RunInv'
  <1>1. Types' /\ ChildInv' /\ SourceInv' /\ CountInv' /\ DelayInv'
    BY DEF procs, loop, RunInv, Types, ChildInv, SourceInv, CountInv, DelayInv
  <1>2. SinkInv'
    <2>1. pc \in Watched /\ probe[spawned].required => probe'[spawned].required
      BY SpawnedIsChild
    <2> QED  BY <2>1 DEF procs, loop, RunInv, SinkInv, Told, Watched
  <1> QED  BY <1>1, <1>2 DEF RunInv

\* One probe changes, and one that runs is of a child that was spawned.
LEMMA ProbeChanges ==
    ASSUME RunInv, NEW i \in Children, NEW p \in Probes, NEW n \in 0..Threshold, probe[i].pc \in {"waiting", "checking"},
           probe' = [probe EXCEPT ![i] = p], streak' = [streak EXCEPT ![i] = n], ProbeOK(p, n), UNCHANGED <<spawned, pc>>
    PROVE  ProbeInv'
  <1>1. probe \in [Children -> Probes] /\ streak \in [Children -> 0..Threshold]
    BY DEF RunInv, ProbeInv
  <1>2. probe' \in [Children -> Probes] /\ streak' \in [Children -> 0..Threshold]
    BY <1>1
  <1>3. \A j \in Children : probe'[j] = (IF j = i THEN p ELSE probe[j]) /\ streak'[j] = (IF j = i THEN n ELSE streak[j])
    BY <1>1
  <1>4. probe[i] # NoProbe
    BY DEF NoProbe
  <1> QED  BY <1>2, <1>3, <1>4 DEF RunInv, ProbeInv

LEMMA StepCheckStarts == ASSUME RunInv, NEW i \in Children, CheckStarts(i) PROVE RunInv'
  <1>0. probe \in [Children -> Probes] /\ streak \in [Children -> 0..Threshold] /\ probe[i].pc = "waiting"
        /\ UNCHANGED <<config, pc, open, procs, loop, streak>>
    BY DEF CheckStarts, RunInv, ProbeInv
  <1>1. PICK p \in Probes : p = probe[i]
    BY <1>0
  <1>2. PICK to \in {"ended", "checking"} : probe' = [probe EXCEPT ![i].pc = to]
    BY DEF CheckStarts
  <1>3. PICK q : q = [pc |-> to, fails |-> p.fails, required |-> p.required, stop |-> p.stop]
    OBVIOUS
  <1>4. [p EXCEPT !.pc = to] = q
    BY <1>3 DEF Probes
  <1>5. probe' = [probe EXCEPT ![i] = q]
    BY <1>1, <1>2, <1>4
  <1>6. q \in Probes /\ ProbeOK(q, streak[i])
    BY <1>0, <1>1, <1>3 DEF Probes, ProbeOK, RunInv, ProbeInv
  <1>7. streak' = [streak EXCEPT ![i] = streak[i]] /\ UNCHANGED <<spawned, pc>>
    BY <1>0 DEF procs
  <1>8. ProbeInv'
    BY <1>0, <1>5, <1>6, <1>7, ProbeChanges
  <1>9. \A j \in Children : probe[j].required => probe'[j].required
    BY <1>0, <1>1, <1>3, <1>5
  <1> QED  BY <1>0, <1>8, <1>9, RestStands

LEMMA CountedIs ==
    ASSUME NEW p \in Probes, NEW healthy \in BOOLEAN
    PROVE  /\ healthy => Counted(p, healthy) = [pc |-> p.pc, fails |-> 0, required |-> p.required, stop |-> p.stop]
           /\ ~healthy => Counted(p, healthy) = [pc |-> p.pc, fails |-> p.fails + 1,
                                                 required |-> p.required \/ p.fails + 1 >= Threshold, stop |-> p.stop]
  <1>1. CASE healthy
    BY <1>1 DEF Counted, Probes
  <1>2. CASE ~healthy
    <2>1. PICK f, r : f = p.fails + 1 /\ r = (p.required \/ p.fails + 1 >= Threshold)
      OBVIOUS
    <2>2. PICK c : c = [pc |-> p.pc, fails |-> f, required |-> p.required, stop |-> p.stop]
      OBVIOUS
    <2>3. [p EXCEPT !.fails = f] = c
      BY <2>2 DEF Probes
    <2>4. [c EXCEPT !.required = r] = [pc |-> p.pc, fails |-> f, required |-> r, stop |-> p.stop]
      BY <2>2
    <2>5. Counted(p, healthy) = [[p EXCEPT !.fails = f] EXCEPT !.required = r]
      BY <1>2, <2>1 DEF Counted
    <2> QED  BY <1>2, <2>1, <2>3, <2>4, <2>5
  <1> QED  BY <1>1, <1>2

LEMMA StepCheckEnds == ASSUME RunInv, NEW i \in Children, NEW healthy \in BOOLEAN, CheckEnds(i, healthy) PROVE RunInv'
  <1>0. /\ probe \in [Children -> Probes] /\ streak \in [Children -> 0..Threshold] /\ probe[i].pc = "checking"
        /\ UNCHANGED <<config, pc, open, procs, loop>> /\ Threshold \in Nat /\ ProbeOK(probe[i], streak[i])
    BY SupervisorAssumption DEF CheckEnds, RunInv, ProbeInv
  <1>1. PICK p \in Probes : p = probe[i]
    BY <1>0
  <1>2. PICK f, r : /\ f = (IF healthy THEN 0 ELSE p.fails + 1)
                    /\ r = (IF healthy THEN p.required ELSE p.required \/ p.fails + 1 >= Threshold)
    OBVIOUS
  <1>3. PICK c : c = [pc |-> p.pc, fails |-> f, required |-> r, stop |-> p.stop]
    OBVIOUS
  <1>4. Counted(p, healthy) = c
    BY <1>2, <1>3, CountedIs
  <1>5. PICK q : q = [pc |-> IF r THEN "ended" ELSE "waiting", fails |-> f, required |-> r, stop |-> p.stop]
    OBVIOUS
  <1>6. [c EXCEPT !.pc = IF c.required THEN "ended" ELSE "waiting"] = q
    BY <1>3, <1>5
  <1>7. probe' = [probe EXCEPT ![i] = q]
    <2>1. probe' = [probe EXCEPT ![i] =
                       [Counted(p, healthy) EXCEPT !.pc = IF Counted(p, healthy).required THEN "ended" ELSE "waiting"]]
      BY <1>1 DEF CheckEnds
    <2> QED  BY <1>4, <1>6, <2>1
  <1>8. PICK n : n = IF healthy THEN 0 ELSE IF streak[i] < Threshold THEN streak[i] + 1 ELSE streak[i]
    OBVIOUS
  <1>9. streak' = [streak EXCEPT ![i] = n] /\ UNCHANGED <<spawned, pc>>
    BY <1>0, <1>8 DEF CheckEnds, procs
  <1>10. ~p.required /\ p.fails < Threshold /\ p.fails = streak[i] /\ p.fails \in Nat
    <2>1. ~p.required /\ p.fails < Threshold /\ p.fails = streak[i]
      BY <1>0, <1>1 DEF ProbeOK
    <2> QED  BY <1>0, <2>1
  <1>11. f \in 0..Threshold /\ r \in BOOLEAN /\ n = f /\ (r <=> f >= Threshold)
    <2>1. Threshold \in Nat \ {0} /\ p.required \in BOOLEAN
      BY <1>1, SupervisorAssumption DEF Probes
    <2>2. CASE healthy
      <3>1. f = 0 /\ n = 0
        BY <1>2, <1>8, <2>2
      <3>2. r = p.required
        BY <1>2, <2>2
      <3>3. r = FALSE
        BY <1>10, <2>1, <3>2, Zenon
      <3>4. f \in 0..Threshold /\ n = f /\ ~(f >= Threshold)
        BY <2>1, <3>1
      <3>5. r \in BOOLEAN /\ ~r
        BY <3>3, Zenon
      <3> QED  BY <3>4, <3>5, Zenon
    <2>3. CASE ~healthy
      <3>1. f = p.fails + 1 /\ n = p.fails + 1
        BY <1>2, <1>8, <1>10, <2>3
      <3>2. r = (p.required \/ p.fails + 1 >= Threshold)
        BY <1>2, <2>3
      <3>3. r \in BOOLEAN /\ (r <=> p.fails + 1 >= Threshold)
        BY <1>10, <3>2
      <3> QED  BY <1>10, <2>1, <3>1, <3>3
    <2> QED  BY <2>2, <2>3
  <1>12. q \in Probes
    BY <1>1, <1>5, <1>11 DEF Probes
  <1>13. ProbeOK(q, n)
    BY <1>0, <1>5, <1>11 DEF ProbeOK
  <1>14. ProbeInv'
    BY <1>0, <1>7, <1>9, <1>11, <1>12, <1>13, ProbeChanges
  <1>15. \A j \in Children : probe[j].required => probe'[j].required
    BY <1>0, <1>1, <1>7, <1>10
  <1> QED  BY <1>0, <1>14, <1>15, RestStands

LEMMA StepChild ==
    ASSUME RunInv, NEW i \in Children, NEW c \in {0, 1, 9}, ChildWedges(i) \/ Exits(i, c) PROVE RunInv'
  <1>1. /\ UNCHANGED <<config, pc, open, spawned, probe, loop, streak>>
        /\ alive' \subseteq alive /\ wedged' \subseteq alive'
        /\ code' \in [Children -> {0, 1, 9}]
    BY DEF ChildWedges, Exits, RunInv, ChildInv, Types
  <1>2. ProbeInv'
    BY <1>1, ProbeStands DEF RunInv
  <1>3. Types' /\ ChildInv' /\ SourceInv' /\ CountInv' /\ DelayInv' /\ SinkInv'
    BY <1>1 DEF loop, RunInv, Types, ChildInv, SourceInv, CountInv, DelayInv, SinkInv, Told
  <1> QED  BY <1>2, <1>3 DEF RunInv

LEMMA RunNext == ASSUME RunInv, [Next]_vars PROVE RunInv'
  <1>1. CASE UNCHANGED vars
    <2>1. ProbeInv'
      BY <1>1, ProbeStands DEF RunInv, vars, procs
    <2>2. \A i \in Children : probe[i].required => probe'[i].required
      BY <1>1 DEF vars
    <2> QED  BY <1>1, <2>1, <2>2, RestStands DEF vars
  <1>2. CASE Launcher
    BY <1>2, StepOpenSource, StepFetchSecrets, StepClose, StepSpawn, StepAttach, StepArm, StepSeeExit, StepTerminate,
       StepGraceEnds, StepReadSignal, StepJoin, StepDecide, StepWake DEF Launcher
  <1>3. ASSUME NEW i \in Children, ProbeThread(i) \/ ChildWedges(i) \/ Killed(i) \/ \E c \in 0..1 : ChildExits(i, c)
        PROVE  RunInv'
    BY <1>3, StepCheckStarts, StepCheckEnds, StepChild DEF ProbeThread, Killed, ChildExits
  <1> QED  BY <1>1, <1>2, <1>3 DEF Next

\* Children, probes, counters, backoffs, sources and sinks are in step with the launcher at every point of its loop.
THEOREM RunInvariant == Spec => []RunInv
  <1>1. Init => RunInv
    BY RunInvInit
  <1>2. RunInv /\ [Next]_vars => RunInv'
    BY RunNext
  <1> QED  BY <1>1, <1>2, PTL DEF Spec

\* Whatever fails and however often the service is restarted, the sources stay open while a child is supervised and are
\* closed at the end, and every webhook is tried for every restart and every termination (_launcher_run.py, comms.py).
THEOREM RunIsAlwaysSound == Spec => []RunIsSound
  <1>1. RunInv => TypeOK
    BY SupervisorAssumption
       DEF RunInv, Types, ChildInv, ProbeInv, CountInv, DelayInv, SourceInv, SinkInv, TypeOK, Pcs, Watched, Between
  <1>2. RunInv => SourcesBracketTheRun
    BY DEF RunInv, SourceInv, SourcesBracketTheRun, Watched
  <1>3. RunInv => EverySinkHears
    BY DEF RunInv, SinkInv, Told, EverySinkHears
  <1>4. RunInv => RunIsSound
    BY <1>1, <1>2, <1>3 DEF RunIsSound
  <1> QED  BY <1>4, RunInvariant, PTL

\* A child is spawned.
LEMMA SpawnsAlone == ASSUME RunInv, [Next]_vars PROVE spawned' > spawned => alive = {}
  <1>1. CASE Spawn
    BY <1>1 DEF Spawn, RunInv, ChildInv, Between
  <1>2. CASE ~Spawn
    <2>1. spawned' = spawned
      BY <1>2 DEF Next, vars, procs, Launcher, OpenSource, FetchSecrets, Close, Attach, Arm, SeeExit, Terminate, GraceEnds,
                  ReadSignal, Join, Decide, Wake, ProbeThread, CheckStarts, CheckEnds, ChildWedges, Killed, ChildExits, Exits
    <2> QED  BY <2>1 DEF RunInv, CountInv
  <1> QED  BY <1>1, <1>2

\* A child is terminated.
LEMMA TerminatesForSilence == ASSUME RunInv, [Next]_vars PROVE terminated' > terminated => streak[spawned] >= Threshold
  <1>1. CASE Terminate
    <2>1. spawned \in Children /\ probe[spawned].required
      BY <1>1, SpawnedIsChild DEF Terminate, Watched
    <2> QED  BY <2>1 DEF RunInv, ProbeInv, ProbeOK
  <1>2. CASE ~Terminate
    <2>1. terminated' = terminated
      BY <1>2 DEF Next, vars, loop, Launcher, OpenSource, FetchSecrets, Close, Spawn, Attach, Arm, SeeExit, GraceEnds,
                  ReadSignal, Join, Decide, Wake, ProbeThread, CheckStarts, CheckEnds, ChildWedges, Killed, ChildExits, Exits
    <2> QED  BY <2>1 DEF RunInv, CountInv
  <1> QED  BY <1>1, <1>2

\* A child is spawned only when none of this run is alive, and terminated only for checks of its own that failed in a
\* row, for any threshold and any number of restarts, whichever thread is the faster (launcher.py, healthz.py).
THEOREM EachChildAlwaysInItsTurn == Spec => EachChildInItsTurn
  <1>1. RunInv /\ [Next]_vars => [spawned' > spawned => alive = {}]_vars
    BY SpawnsAlone
  <1>2. RunInv /\ [Next]_vars => [terminated' > terminated => streak[spawned] >= Threshold]_vars
    BY TerminatesForSilence
  <1> QED  BY <1>1, <1>2, RunInvariant, PTL
           DEF Spec, EachChildInItsTurn, OneChildAtATime, TerminatedForItsOwnSilence

\* A step keeps the budget, and a new backoff is longer.
LEMMA DelayOnlyGrows ==
    ASSUME RunInv, [Next]_vars
    PROVE  /\ config.budget > 0 => spawned' <= config.budget + 1
           /\ delay' # delay => delay' > delay /\ delay' <= MaxDelay
  <1>1. RunInv' /\ config' = config
    BY RunNext DEF Next, vars, Launcher, OpenSource, FetchSecrets, Close, Spawn, Attach, Arm,
                   SeeExit, Terminate, GraceEnds,
                   ReadSignal, Join, Decide, Wake, ProbeThread, CheckStarts, CheckEnds, ChildWedges, Killed, ChildExits, Exits
  <1>2. config.budget > 0 => spawned' <= config.budget + 1
    BY <1>1 DEF RunInv, CountInv
  <1>3. CASE Decide
    <2>1. delay' \in {delay, NextDelay(config, attempt + 1)} /\ pc = "deciding"
      BY <1>3 DEF Decide
    <2>2. config \in ConfigType /\ attempt \in Nat /\ delay \in 0..MaxDelay
          /\ ((attempt = 0 /\ delay = 0) \/ (attempt >= 1 /\ delay = NextDelay(config, attempt)))
      BY <2>1 DEF RunInv, Types, CountInv, DelayInv
    <2>3. NextDelay(config, attempt + 1) \in 0..MaxDelay /\ delay <= NextDelay(config, attempt + 1)
      BY <2>2, DelayGrows
    <2> QED  BY <1>2, <2>1, <2>2, <2>3, SupervisorAssumption
  <1>4. CASE ~Decide
    <2>1. delay' = delay
      BY <1>4 DEF Next, vars, loop, Launcher, OpenSource, FetchSecrets, Close, Spawn, Attach, Arm,
                   SeeExit, Terminate, GraceEnds,
                  ReadSignal, Join, Wake, ProbeThread, CheckStarts, CheckEnds, ChildWedges, Killed, ChildExits, Exits
    <2> QED  BY <1>2, <2>1
  <1> QED  BY <1>3, <1>4

\* With a budget of n the service is started n + 1 times at most, and no backoff is shorter than the one before it or
\* longer than the longest, for every budget, delay and policy (restart.py).
THEOREM RestartsAreAlwaysBounded == Spec => RestartsAreBounded
  <1>1. RunInv /\ [Next]_vars => [/\ config.budget > 0 => spawned' <= config.budget + 1
                                  /\ delay' # delay => delay' > delay /\ delay' <= MaxDelay]_vars
    BY DelayOnlyGrows
  <1> QED  BY <1>1, RunInvariant, PTL DEF Spec, RestartsAreBounded
=============================================================================
