------------------------------- MODULE Clusters -------------------------------
\* The cluster registry: leases that heartbeats renew, the file they are kept in,
\* and the projection its readers see.
EXTENDS Integers

CONSTANTS
    ClusterIds,    \* region-ordinal-color
    LeaseTTL,      \* lease_ttl_seconds
    MaxSpawned,    \* bound: registrations, which are tokens too
    ClockEnd       \* bound on the clock

ASSUME ClustersAssumption == LeaseTTL \in Int /\ MaxSpawned \in Nat /\ ClockEnd \in Nat

VARIABLES
    leaseClock,
    records,       \* ClusterRegistry._records
    registry,      \* the registry file
    projection,    \* the projection file
    spawned,       \* tokens minted so far
    leases,          \* history: id -> the last lease a cluster was told it has
    leaving,       \* history: the tokens that asked to retire
    gone           \* history: the tokens that were told they are retired

clusterVars == <<leaseClock, records, registry, projection, spawned, leases, leaving, gone>>

SpawnTokens == 1 .. MaxSpawned

NoCluster == [status |-> "none", token |-> 0, beat |-> 0]
ClusterRecords == [status : {"active", "orphaned", "retired"}, token : SpawnTokens, beat : Nat] \union {NoCluster}

(***************************************************************************)
(* The lease.                                                              *)
(***************************************************************************)

LeaseLapsed(r) == leaseClock - r.beat > LeaseTTL

\* effective_status
Effective(r) == IF r.status = "active" /\ LeaseLapsed(r) THEN "orphaned" ELSE r.status

\* public_view: everything but the token's hash; the token stays here to compare by.
View(recs) == [c \in ClusterIds |-> [status |-> Effective(recs[c]), token |-> recs[c].token]]

(***************************************************************************)
(* _persist writes the registry, then the projection.  Memory is changed   *)
(* before either: a write that fails, or a process that dies, leaves the   *)
(* caller without an answer.                                               *)
(***************************************************************************)
Writes == {"answered", "unanswered", "projection failed", "registry failed"}

Persist(outcome) ==
    /\ registry' = IF outcome = "registry failed" THEN registry ELSE records'
    /\ projection' = IF outcome \in {"answered", "unanswered"} THEN View(records') ELSE projection

Tells(outcome, c, t) ==
    leases' = IF outcome = "answered"
            THEN [leases EXCEPT ![c] = [token |-> t, beat |-> leaseClock]] ELSE leases

(***************************************************************************)
(* The endpoints, one at a time under _clusters_lock.                      *)
(***************************************************************************)

NewCluster(t) == [status |-> "active", token |-> t, beat |-> leaseClock]

RegisterCluster(c, outcome) ==
    /\ records[c].status # "active"
    /\ spawned < MaxSpawned
    /\ spawned' = spawned + 1
    /\ records' = [records EXCEPT ![c] = NewCluster(spawned')]
    /\ Persist(outcome)
    /\ Tells(outcome, c, spawned')
    /\ UNCHANGED <<leaseClock, leaving, gone>>

AcceptsOlder(c, t) == t <= records[c].token /\ records[c].status # "retired"

\* _authenticated, and a retired record stays one.
Accepts(c, t) == records[c].token = t /\ records[c].status # "retired"

\* An orphaned record that heartbeats again is active again.
Heartbeat(c, t, outcome) ==
    /\ Accepts(c, t)
    /\ records' = [records EXCEPT ![c].status = "active", ![c].beat = leaseClock]
    /\ Persist(outcome)
    /\ Tells(outcome, c, t)
    /\ UNCHANGED <<leaseClock, spawned, leaving, gone>>

\* A record that is retired already may be retired again.
Retire(c, t, outcome) ==
    /\ records[c].token = t
    /\ records' = [records EXCEPT ![c].status = "retired"]
    /\ Persist(outcome)
    /\ leaving' = leaving \union {t}
    /\ gone' = IF outcome = "answered" THEN gone \union {t} ELSE gone
    /\ UNCHANGED <<leaseClock, spawned, leases>>

\* The operator's sweep: every lapsed lease is written down as orphaned.
Reap(outcome) ==
    /\ \E c \in ClusterIds : records[c].status = "active" /\ LeaseLapsed(records[c])
    /\ records' = [c \in ClusterIds |-> [records[c] EXCEPT !.status = Effective(records[c])]]
    /\ Persist(outcome)
    /\ UNCHANGED <<leaseClock, spawned, leases, leaving, gone>>

\* The process stops, and the next one reads the registry file.
RegistryRestarts ==
    /\ records' = registry
    /\ UNCHANGED <<leaseClock, registry, projection, spawned, leases, leaving, gone>>

ClockTicks ==
    /\ leaseClock < ClockEnd
    /\ leaseClock' = leaseClock + 1
    /\ UNCHANGED <<records, registry, projection, spawned, leases, leaving, gone>>

ClustersInit ==
    /\ leaseClock = 0 /\ spawned = 0
    /\ records = [c \in ClusterIds |-> NoCluster]
    /\ registry = records
    /\ projection = View(records)
    /\ leases = [c \in ClusterIds |-> [token |-> 0, beat |-> 0]]
    /\ leaving = {} /\ gone = {}

ClustersNext ==
    \/ \E c \in ClusterIds, outcome \in Writes : RegisterCluster(c, outcome)
    \/ \E c \in ClusterIds, t \in 1 .. spawned, outcome \in Writes :
          Heartbeat(c, t, outcome) \/ Retire(c, t, outcome)
    \/ \E outcome \in Writes : Reap(outcome)
    \/ RegistryRestarts
    \/ ClockTicks

ClustersSpec == ClustersInit /\ [][ClustersNext]_clusterVars

(***************************************************************************)
(* Properties.                                                             *)
(***************************************************************************)
\* The records are of their kind in memory, in the registry and in the
\* projection, and no heartbeat lies ahead of the clock.
ClustersTypeOK ==
    /\ leaseClock \in 0 .. ClockEnd /\ spawned \in 0 .. MaxSpawned
    /\ records \in [ClusterIds -> ClusterRecords] /\ registry \in [ClusterIds -> ClusterRecords]
    /\ projection \in [ClusterIds -> [status : {"none", "active", "orphaned", "retired"},
                                      token : 0 .. MaxSpawned]]
    /\ \A c \in ClusterIds : records[c].beat <= leaseClock /\ projection[c].token <= spawned
    /\ leaving \union gone \subseteq 1 .. spawned

\* A cluster that was told it has a lease has it to the end of the lease, unless
\* it asked to retire: neither a sweep, nor another registration, nor a restart,
\* nor a write that failed takes the record from it.
LeaseHolds ==
    \A c \in ClusterIds :
        leases[c].token \notin leaving \union {0} /\ leaseClock - leases[c].beat <= LeaseTTL
            => records[c].token = leases[c].token /\ Effective(records[c]) = "active"

\* What was told to be retired is retired in memory, in the registry and in the
\* projection for as long as they name it ("cluster is retired - spawn a new one").
RetiredIsRetired ==
    \A c \in ClusterIds :
        /\ records[c].token \in gone => records[c].status = "retired"
        /\ registry[c].token \in gone => registry[c].status = "retired"
        /\ projection[c].token \in gone => projection[c].status = "retired"

\* Once a later registration of the same cluster was answered, no earlier one is
\* told it holds the lease, whatever the process forgot.
LeaseMovesForward == [][\A c \in ClusterIds : leases'[c].token >= leases[c].token]_clusterVars

\* What a cluster was told of its lease stays true for as long as it was told.
LeasesAreKept == [](LeaseHolds /\ RetiredIsRetired) /\ LeaseMovesForward
===============================================================================
