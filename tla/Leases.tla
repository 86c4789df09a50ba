------------------------------- MODULE Leases -------------------------------
(***************************************************************************)
(* The lease of the one scheduler among several processes: what the two    *)
(* backends do with a key that has an owner and an end, and how the loop   *)
(* of the scheduler takes, renews, loses and returns it.  Session locks    *)
(* are keys of the same kind.                                              *)
(***************************************************************************)
EXTENDS Naturals

CONSTANTS
    Schedulers,   \* processes that schedule
    LeaseTime,    \* scheduler_leader_ttl_ms
    MaxClock      \* bound on the time

NoOwner == "nobody"

ASSUME LeaseAssumption == LeaseTime \in Nat \ {0} /\ MaxClock \in Nat /\ NoOwner \notin Schedulers

VARIABLES
    leases,    \* the time, the backend, and the key: its owner and its end
    leaders    \* process -> the step of its loop, whether it takes itself for
               \* the leader, and the end of the lease it has renewed

leasevars == <<leases, leaders>>

LeaseInit ==
    /\ leases = [now |-> 0, backend |-> "unset", owner |-> NoOwner, until |-> 0]
    /\ leaders = [p \in Schedulers |-> [at |-> "idle", leads |-> FALSE, until |-> 0]]

\* Without the global leader everyone schedules.  The key in memory is that
\* of one process.
Deploy(backend) == leases.backend = "unset" /\ leases' = [leases EXCEPT !.backend = backend] /\ UNCHANGED leaders

Taking(p) ==
    /\ leases.backend # "unset" /\ leaders[p].at # "stopped"
    /\ leases.backend = "memory" => \A q \in Schedulers \ {p} : leaders[q] = [at |-> "idle", leads |-> FALSE, until |-> 0]

LeaseRuns == leases.until > leases.now

-----------------------------------------------------------------------------
(* The operations on a key, each its condition and the key after it.       *)
\* In memory a key is taken again by its owner; SET NX refuses everybody.
MayAcquire(p) ==
    ~LeaseRuns \/ leases.owner = NoOwner \/ (leases.backend = "memory" /\ leases.owner = p)

\* In memory a lease that has run out is revived as long as nobody took it.
MayExtend(p) == leases.owner = p /\ (leases.backend = "redis" => LeaseRuns)

MayRelease(p) == leases.owner = p /\ (leases.backend = "redis" => LeaseRuns)

Held(p) == [leases EXCEPT !.owner = p, !.until = leases.now + LeaseTime]

\* As if the script extended whatever key is there.
ExtendAnyones(p, answered) ==
    /\ leases' = IF LeaseRuns THEN [leases EXCEPT !.until = leases.now + LeaseTime] ELSE leases
    /\ answered = LeaseRuns

\* A request to Redis may be lost, and so may its answer: both are a refusal.
Acquire(p, answered) ==
    \/ leases' = (IF MayAcquire(p) THEN Held(p) ELSE leases) /\ answered = MayAcquire(p)
    \/ leases.backend = "redis" /\ ~answered /\ leases' \in {leases, IF MayAcquire(p) THEN Held(p) ELSE leases}

Extend(p, answered) ==
    \/ leases' = (IF MayExtend(p) THEN Held(p) ELSE leases) /\ answered = MayExtend(p)
    \/ leases.backend = "redis" /\ ~answered /\ leases' \in {leases, IF MayExtend(p) THEN Held(p) ELSE leases}

Release(p) ==
    \/ leases' = IF MayRelease(p) THEN [leases EXCEPT !.owner = NoOwner, !.until = 0] ELSE leases
    \/ leases.backend = "redis" /\ leases' = leases

-----------------------------------------------------------------------------
(* The loop of the scheduler.                                              *)
\* One that takes itself for the leader does not ask.
EnsureLeader(p) ==
    /\ Taking(p) /\ leaders[p].at = "idle"
    /\ IF leases.backend = "off" \/ leaders[p].leads
       THEN leaders' = [leaders EXCEPT ![p].at = "leading", ![p].leads = TRUE] /\ UNCHANGED leases
       ELSE \E answered \in BOOLEAN :
              /\ Acquire(p, answered)
              /\ leaders' = IF answered THEN [leaders EXCEPT ![p].at = "leading", ![p].leads = TRUE] ELSE leaders

\* Every five seconds the stalled jobs are looked for first; the lease is not
\* asked for again before or meanwhile.
RecoverStalled(p) ==
    /\ Taking(p) /\ leaders[p].at = "leading"
    /\ leaders' = [leaders EXCEPT ![p].at = "recovered"] /\ UNCHANGED leases

RenewLeader(p) ==
    /\ Taking(p) /\ leaders[p].at \in {"leading", "recovered"}
    /\ IF leases.backend = "off"
       THEN leaders' = [leaders EXCEPT ![p].at = "scheduling", ![p].until = leases.now] /\ UNCHANGED leases
       ELSE \E answered \in BOOLEAN :
              /\ Extend(p, answered)
              /\ leaders' = [leaders EXCEPT ![p] =
                    IF answered THEN [at |-> "scheduling", leads |-> TRUE, until |-> leases.now + LeaseTime]
                                ELSE [@ EXCEPT !.at = "idle", !.leads = FALSE]]

\* Jobs are admitted until there is no room or no job; then the loop sleeps.
StopScheduling(p) ==
    /\ Taking(p) /\ leaders[p].at = "scheduling"
    /\ leaders' = [leaders EXCEPT ![p].at = "idle"] /\ UNCHANGED leases

\* An exception in the loop is passed over; the process still leads.
BreakLoop(p) ==
    /\ Taking(p) /\ leaders[p].at \in {"leading", "recovered"}
    /\ leaders' = [leaders EXCEPT ![p].at = "idle"] /\ UNCHANGED leases

\* stop cancels the loop wherever it is and returns the lease.
StopProcess(p) ==
    /\ Taking(p)
    /\ IF leases.backend # "off" /\ leaders[p].leads THEN Release(p) ELSE UNCHANGED leases
    /\ leaders' = [leaders EXCEPT ![p] = [@ EXCEPT !.at = "stopped", !.leads = FALSE]]

\* A crash returns nothing.
CrashProcess(p) ==
    /\ Taking(p) /\ leaders' = [leaders EXCEPT ![p] = [@ EXCEPT !.at = "stopped", !.leads = FALSE]]
    /\ UNCHANGED leases

PassTime ==
    /\ leases.backend # "unset" /\ leases.now < MaxClock
    /\ leases' = [leases EXCEPT !.now = @ + 1] /\ UNCHANGED leaders

-----------------------------------------------------------------------------
LeaseNext ==
    \/ \E backend \in {"off", "memory", "redis"} : Deploy(backend)
    \/ \E p \in Schedulers :
         \/ EnsureLeader(p) \/ RecoverStalled(p) \/ RenewLeader(p) \/ StopScheduling(p)
         \/ BreakLoop(p) \/ StopProcess(p) \/ CrashProcess(p)
    \/ PassTime

LeaseSpec == LeaseInit /\ [][LeaseNext]_leasevars

-----------------------------------------------------------------------------
LeaseTypeOK ==
    /\ leases \in [now : 0..MaxClock, backend : {"unset", "off", "memory", "redis"},
                   owner : Schedulers \cup {NoOwner}, until : 0..(MaxClock + LeaseTime)]
    /\ leaders \in [Schedulers -> [at : {"idle", "leading", "recovered", "scheduling", "stopped"},
                                   leads : BOOLEAN, until : 0..(MaxClock + LeaseTime)]]

\* Of the processes that admit jobs under a lease they renewed and that has not
\* run out, there is one, whatever requests were lost and whoever crashed,
\* stopped or was late.
OneScheduler ==
    leases.backend # "off" =>
        \A p, q \in Schedulers :
            (\A s \in {p, q} : leaders[s].at = "scheduling" /\ leases.now < leaders[s].until) => p = q
=============================================================================
