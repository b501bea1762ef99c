----------------------------- MODULE Supervisor -----------------------------
(***************************************************************************)
(* One `recto launch` of a service: the launcher's restart loop, the       *)
(* health probe's thread beside it, the child, the secret sources opened   *)
(* around the loop and the webhooks told of what happens                   *)
(* (launcher.py, _launcher_run.py, healthz.py, restart.py, comms.py).      *)
(* A wait (the probe's interval, the poll, a backoff) may end at any time. *)
(***************************************************************************)
EXTENDS Integers, FiniteSets

CONSTANTS
    Configs,        \* the service.yaml files a run may start with
    InitialDelay, MaxDelay,
    Threshold,      \* spec.healthz.failure_threshold
    Sources,        \* secret sources with a lifecycle
    Sinks,          \* webhooks under spec.comms, 1..n, in their order
    MaxSpawns       \* bound: children one run spawns without a budget

\* The restart, healthz and resource_limits sections; budget is max_attempts, 0 for no limit.
ConfigType == [policy : {"always", "never", "on-failure"}, budget : Nat,
               backoff : {"constant", "linear", "exponential"}, limited : BOOLEAN, probed : BOOLEAN]

ASSUME SupervisorAssumption ==
    /\ Configs \subseteq ConfigType
    /\ InitialDelay \in Nat /\ MaxDelay \in Nat /\ InitialDelay <= MaxDelay
    /\ Threshold \in Nat \ {0} /\ MaxSpawns \in Nat \ {0}
    /\ Sinks = 1..Cardinality(Sinks)

VARIABLES
    config,     \* the service.yaml of this run
    pc,         \* where the launcher's thread is
    open,       \* sources initialised and not yet torn down
    spawned,    \* children spawned so far; the last one is the launcher's
    alive,      \* children that run
    wedged,     \* children that run and answer no check any more
    code,       \* exit code of each child
    probe,      \* the probe of each child
    attempt,    \* the restart counter
    delay,      \* the last backoff
    signaled,   \* healthz_signaled of the last exit
    outcome,    \* how the loop ended
    tried,      \* events posted, or tried to be, per webhook
    streak,     \* history: checks of each child that failed since one did not
    terminated  \* history: children the launcher terminated for their probe

procs == <<spawned, alive, wedged, code>>
loop == <<attempt, delay, signaled, outcome, tried, terminated>>
vars == <<config, pc, open, procs, probe, loop, streak>>

Children == 1..MaxSpawns
NoProbe == [pc |-> "none", fails |-> 0, required |-> FALSE, stop |-> FALSE]
Probes == [pc : {"none", "waiting", "checking", "ended"}, fails : 0..Threshold,
           required : BOOLEAN, stop : BOOLEAN]

Init ==
    /\ config \in Configs
    /\ pc = "opening" /\ open = {}
    /\ spawned = 0 /\ alive = {} /\ wedged = {} /\ code = [i \in Children |-> 0]
    /\ probe = [i \in Children |-> NoProbe]
    /\ attempt = 0 /\ delay = 0 /\ signaled = FALSE /\ outcome = "running"
    /\ tried = [s \in Sinks |-> 0]
    /\ streak = [i \in Children |-> 0]
    /\ terminated = 0

----------------------------------------------------------------------------
(* The policy: pure functions over the restart section.                    *)

ShouldRestart(c, rc) ==
    \/ c.policy = "always"
    \/ c.policy = "on-failure" /\ rc # 0

\* Mutated: the budget counts spawns where the code counts restarts, from the wrong side.
ExhaustedLate(c, n) == c.budget > 0 /\ n > c.budget + 1

Exhausted(c, n) == c.budget > 0 /\ n > c.budget

Power2[n \in Nat] == IF n = 0 THEN 1 ELSE 2 * Power2[n - 1]

NextDelay(c, n) ==
    LET raw == CASE c.backoff = "constant" -> InitialDelay
                 [] c.backoff = "linear" -> InitialDelay * n
                 [] OTHER -> InitialDelay * Power2[n - 1]
    IN IF raw < MaxDelay THEN raw ELSE MaxDelay

----------------------------------------------------------------------------
(* Webhooks. An event whose category is asked for goes to every sink; one  *)
(* that fails is noted and the next is tried.                              *)

\* Mutated: the first sink that fails ends the round.
PostedUntilFailure(failing) ==
    [s \in Sinks |-> IF \E t \in failing : t < s THEN tried[s] ELSE tried[s] + 1]

Posted(failing) == [s \in Sinks |-> tried[s] + 1]

Dispatch(wanted) ==
    \E failing \in SUBSET Sinks : tried' = IF wanted THEN Posted(failing) ELSE tried

----------------------------------------------------------------------------
(* Around the loop: sources are opened one by one, secrets fetched, and    *)
(* every opened source is torn down on the way out, whatever happened.     *)

OpenSource(s) ==
    /\ pc = "opening" /\ s \notin open
    /\ \/ open' = open \union {s} /\ UNCHANGED <<pc, outcome>>
       \/ pc' = "closing" /\ outcome' = "raised" /\ UNCHANGED open
    /\ UNCHANGED <<config, procs, probe, attempt, delay, signaled, tried, terminated, streak>>

FetchSecrets ==
    /\ pc = "opening" /\ open = Sources
    /\ \/ pc' = "spawning" /\ UNCHANGED outcome
       \/ pc' = "closing" /\ outcome' = "raised"
    /\ UNCHANGED <<config, open, procs, probe, attempt, delay, signaled, tried, terminated, streak>>

TornDown == {}

Close ==
    /\ pc = "closing"
    /\ open' = TornDown
    /\ pc' = "ended"
    /\ UNCHANGED <<config, procs, probe, loop, streak>>

----------------------------------------------------------------------------
(* _spawn_and_wait.                                                        *)

Spawn ==
    /\ pc = "spawning"
    /\ \/ /\ spawned < MaxSpawns
          /\ spawned' = spawned + 1
          /\ alive' = alive \union {spawned + 1}
          /\ pc' = IF config.limited THEN "attaching" ELSE "arming"
          /\ UNCHANGED outcome
       \/ /\ pc' = "closing" /\ outcome' = "raised"
          /\ UNCHANGED <<spawned, alive>>
    /\ UNCHANGED <<config, open, wedged, code, probe, attempt, delay, signaled, tried, terminated, streak>>

\* The job object is made and the child put into it, or the launcher raises and leaves the child.
Attach ==
    /\ pc = "attaching"
    /\ \/ pc' = "arming" /\ UNCHANGED outcome
       \/ pc' = "closing" /\ outcome' = "raised"
    /\ UNCHANGED <<config, open, procs, probe, attempt, delay, signaled, tried, terminated, streak>>

\* Mutated: one probe object for the whole loop, its count with it.
ProbeKept == [NoProbe EXCEPT !.pc = "waiting", !.fails = IF spawned = 1 THEN 0 ELSE probe[spawned - 1].fails]

\* Mutated: the stop event outlives the probe it stopped.
ProbeStopped == [NoProbe EXCEPT !.pc = "waiting", !.stop = spawned > 1]

FreshProbe == [NoProbe EXCEPT !.pc = "waiting"]

Arm ==
    /\ pc = "arming"
    /\ probe' = [probe EXCEPT ![spawned] = IF config.probed THEN FreshProbe ELSE NoProbe]
    /\ pc' = "watching"
    /\ UNCHANGED <<config, open, procs, loop, streak>>

SeeExit ==
    /\ pc \in {"watching", "terminating", "killing"} /\ spawned \notin alive
    /\ pc' = "exited"
    /\ UNCHANGED <<config, open, procs, probe, loop, streak>>

Terminate ==
    /\ pc = "watching" /\ spawned \in alive /\ probe[spawned].required
    /\ terminated' = terminated + 1
    /\ pc' = "terminating"
    /\ UNCHANGED <<config, open, procs, probe, attempt, delay, signaled, outcome, tried, streak>>

\* Where the launcher goes when the grace of a terminated child is over. Mutated: on, without the kill and the wait.
AfterGraceOn == "exited"

AfterGrace == "killing"

GraceEnds ==
    /\ pc = "terminating" /\ spawned \in alive
    /\ pc' = AfterGrace
    /\ UNCHANGED <<config, open, procs, probe, loop, streak>>

\* The launcher reads the event, then stops the probe and joins its thread; the join gives up after a
\* while on a check that still runs. The exit is told after that.
ReadSignal ==
    /\ pc = "exited"
    /\ signaled' = probe[spawned].required
    /\ probe' = [probe EXCEPT ![spawned].stop = TRUE]
    /\ pc' = "joining"
    /\ UNCHANGED <<config, open, procs, attempt, delay, outcome, tried, terminated, streak>>

Join ==
    /\ pc = "joining"
    /\ probe[spawned].pc \in {"none", "checking", "ended"}
    /\ Dispatch(signaled)
    /\ pc' = "deciding"
    /\ UNCHANGED <<config, open, procs, probe, attempt, delay, signaled, outcome, terminated, streak>>

----------------------------------------------------------------------------
(* run: restart, give up, or leave it.                                     *)

Decide ==
    /\ pc = "deciding"
    /\ IF ~ShouldRestart(config, code[spawned])
       THEN pc' = "closing" /\ outcome' = "final_exit" /\ UNCHANGED <<attempt, delay, tried>>
       ELSE /\ attempt' = attempt + 1
            /\ Dispatch(TRUE)
            /\ IF Exhausted(config, attempt + 1)
               THEN pc' = "closing" /\ outcome' = "max_attempts_reached" /\ UNCHANGED delay
               ELSE pc' = "sleeping" /\ delay' = NextDelay(config, attempt + 1) /\ UNCHANGED outcome
    /\ UNCHANGED <<config, open, procs, probe, signaled, terminated, streak>>

Wake ==
    /\ pc = "sleeping"
    /\ pc' = "spawning"
    /\ UNCHANGED <<config, open, procs, probe, loop, streak>>

Launcher ==
    \/ (\E s \in Sources : OpenSource(s)) \/ FetchSecrets \/ Close
    \/ Spawn \/ Attach \/ Arm \/ SeeExit \/ Terminate \/ GraceEnds \/ ReadSignal \/ Join
    \/ Decide \/ Wake

----------------------------------------------------------------------------
(* The probe's thread, one per child.                                      *)

CheckStarts(i) ==
    /\ probe[i].pc = "waiting"
    /\ probe' = [probe EXCEPT ![i].pc = IF probe[i].stop THEN "ended" ELSE "checking"]
    /\ UNCHANGED <<config, pc, open, procs, loop, streak>>

Counted(p, healthy) ==
    IF healthy THEN [p EXCEPT !.fails = 0]
    ELSE [p EXCEPT !.fails = p.fails + 1, !.required = p.required \/ p.fails + 1 >= Threshold]

\* Some child answers the check's address, or none does; a check may fail all the same.
CheckEnds(i, healthy) ==
    /\ probe[i].pc = "checking"
    /\ healthy => alive \ wedged # {}
    /\ LET p == Counted(probe[i], healthy) IN
       probe' = [probe EXCEPT ![i] = [p EXCEPT !.pc = IF p.required THEN "ended" ELSE "waiting"]]
    /\ streak' = [streak EXCEPT ![i] = IF healthy THEN 0 ELSE IF @ < Threshold THEN @ + 1 ELSE @]
    /\ UNCHANGED <<config, pc, open, procs, loop>>

ProbeThread(i) == CheckStarts(i) \/ \E healthy \in BOOLEAN : CheckEnds(i, healthy)

----------------------------------------------------------------------------
(* The child: it exits, or stops answering; terminated it may go with any  *)
(* code, or stay until it is killed.                                       *)

ChildWedges(i) ==
    /\ i \in alive \ wedged
    /\ wedged' = wedged \union {i}
    /\ UNCHANGED <<config, pc, open, spawned, alive, code, probe, loop, streak>>

Exits(i, c) ==
    /\ i \in alive
    /\ alive' = alive \ {i} /\ wedged' = wedged \ {i}
    /\ code' = [code EXCEPT ![i] = c]
    /\ UNCHANGED <<config, pc, open, spawned, probe, loop, streak>>

\* By itself, at the launcher's SIGTERM or at an operator's hand.
ChildExits(i, c) == c \in {0, 1} /\ Exits(i, c)

Killed(i) == i = spawned /\ pc = "killing" /\ Exits(i, 9)

----------------------------------------------------------------------------
Next ==
    \/ Launcher
    \/ \E i \in Children : ProbeThread(i) \/ ChildWedges(i) \/ Killed(i) \/ \E c \in 0..1 : ChildExits(i, c)
    \/ pc = "ended" /\ UNCHANGED vars

\* The launcher and the probes are threads the operating system runs, and a kill is carried out; nothing
\* is asked of the child.
Fairness ==
    /\ WF_vars(Launcher)
    /\ \A i \in Children : WF_vars(ProbeThread(i)) /\ WF_vars(Killed(i))

Spec == Init /\ [][Next]_vars /\ Fairness

----------------------------------------------------------------------------
TypeOK ==
    /\ config \in Configs
    /\ pc \in {"opening", "spawning", "attaching", "arming", "watching", "terminating", "killing", "exited",
               "joining", "deciding", "sleeping", "closing", "ended"}
    /\ open \subseteq Sources
    /\ spawned \in 0..MaxSpawns /\ alive \subseteq 1..spawned /\ wedged \subseteq alive
    /\ code \in [Children -> {0, 1, 9}]
    /\ probe \in [Children -> Probes]
    /\ attempt \in 0..MaxSpawns /\ delay \in 0..MaxDelay /\ signaled \in BOOLEAN
    /\ outcome \in {"running", "raised", "final_exit", "max_attempts_reached"}
    /\ tried \in [Sinks -> Nat] /\ terminated \in 0..MaxSpawns
    /\ streak \in [Children -> 0..Threshold]

\* A child is spawned only when none of this run is alive: two would hold one port and one data directory
\* (launcher.py waits for the terminated child, and kills it when its grace is over).
OneChildAtATime == [][spawned' > spawned => alive = {}]_vars

\* The launcher terminates a child only after Threshold checks of this very child failed in a row: what its
\* predecessor missed, or it missed before it answered again, does not count (healthz.py).
TerminatedForItsOwnSilence == [][terminated' > terminated => streak[spawned] >= Threshold]_vars

\* Both, of every child in its turn.
EachChildInItsTurn == OneChildAtATime /\ TerminatedForItsOwnSilence

\* The sources a child's secrets came from stay open while the launcher supervises it, over every restart,
\* and none is left open when the run has ended, whichever way it ended (_launcher_run.py).
SourcesBracketTheRun ==
    /\ pc \in {"watching", "terminating", "killing", "sleeping"} => open = Sources
    /\ pc = "ended" => open = {}

\* With a budget of n the service is started n + 1 times at most, and a backoff is never shorter than the
\* one before it (restart.py).
RestartsAreBounded ==
    [][/\ config.budget > 0 => spawned' <= config.budget + 1
       /\ delay' # delay => delay' > delay /\ delay' <= MaxDelay]_vars

\* Every webhook is tried for every restart, for the giving up and for every child terminated for its
\* probe, though others before it in the list fail (comms.py).
EverySinkHears ==
    pc \in {"deciding", "sleeping", "spawning", "watching", "closing", "ended"} =>
        \A s \in Sinks : tried[s] >= attempt + terminated

\* Sources and sinks, whatever fails: the run keeps what it opened and tells what it did.
RunIsSound == TypeOK /\ SourcesBracketTheRun /\ EverySinkHears

\* A supervised child that has stopped answering is not left there: it goes, and then another one runs,
\* or the run is over.
WedgedIsReplaced ==
    \A i \in Children :
        (config.probed /\ i \in wedged /\ spawned = i /\ pc = "watching") ~> (i \notin alive /\ (spawned > i \/ pc = "ended"))
=============================================================================
