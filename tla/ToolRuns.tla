------------------------------ MODULE ToolRuns ------------------------------
(***************************************************************************)
(* The tool layer of the agent runtime: ToolCallScheduler (scheduler.py)   *)
(* prepares a batch of calls, removes repeated ones and chooses how to     *)
(* dispatch the rest; ToolRegistry (registry.py) decides whether a call    *)
(* may run; execute_tool_with_policy and ToolExecutionCoordinator          *)
(* (execution.py) run it in a bounded pool with retries and timeouts.      *)
(*                                                                         *)
(* A call is a model value standing for a tool name with an input: two     *)
(* equal calls have the same fingerprint.  An execution is the i-th call   *)
(* of a batch in its n-th attempt; one that nobody waits for any more      *)
(* stays in the pool until its tool returns.                               *)
(***************************************************************************)
EXTENDS Integers, Sequences, FiniteSets

CONSTANTS
    Calls,        \* calls the model may make
    Policy,       \* call -> its tool and the tool's execution policy
    Batches,      \* sequences of calls that arrive together
    Workers,      \* threads of the pool
    Queue,        \* calls the pool accepts beyond its threads
    MaxTasks,     \* bound: prompts of the session
    MaxBatches    \* bound: batches altogether

ASSUME ToolAssumption ==
    /\ \A c \in Calls : Policy[c].attempts \in Nat \ {0}
    /\ Batches \subseteq Seq(Calls)
    /\ Workers \in Nat \ {0} /\ Queue \in Nat

VARIABLES
    task,       \* number of the prompt being served
    batches,    \* batches seen so far
    scope,      \* dedupe_scope: run for a fixed workflow, batch for the loop, none before
    phase,      \* idle, prepare, dispatch
    items,      \* the prepared calls of the batch
    how,        \* how the batch is dispatched: serial, parallel, batch
    seen,       \* call_fingerprints of the ledger
    ledger,     \* its counters
    healthy,    \* the dependencies of the tools answer
    stop,       \* the cancellation event of the context
    work,       \* executions in the pool, by <<batch, item, attempt>>
    places,    \* free places of the pool (_Pool.capacity)
    ran         \* the calls submitted to a tool in the current task

toolvars == <<task, batches, scope, phase, items, how, seen, ledger, healthy, stop, work, places, ran>>

ToolInit ==
    /\ task = 1 /\ batches = 0 /\ scope = "none" /\ phase = "idle" /\ items = <<>> /\ how = "serial"
    /\ seen = {} /\ ledger = [requested |-> 0, dispatched |-> 0, rejected |-> 0]
    /\ healthy = TRUE /\ stop = FALSE
    /\ work = <<>> /\ places = Workers + Queue /\ ran = {}

Index == DOMAIN items
Key(i) == <<batches, i, items[i].attempt>>
InState(st) == {i \in Index : items[i].st = st}
PolicyAt(i) == Policy[items[i].call]
Running == {k \in DOMAIN work : work[k].st = "running"}
Set(i, st) == items' = [items EXCEPT ![i].st = st]
Finish(i, o) == items' = [items EXCEPT ![i] = [@ EXCEPT !.st = "done", !.out = o]]
\* A call that ends before the batch is dispatched.
TurnDown(i, o) == items' = [items EXCEPT ![i] = [@ EXCEPT !.st = "done", !.out = o, !.rejected = TRUE]]

(***************************************************************************)
(* ToolRegistry.preflight.  A call is refused for good (its tool unknown,  *)
(* not in the job's list or blocked, its input wrong, its policy against   *)
(* it), would need an approval, or is refused for the state of a service   *)
(* its tool depends on, which may be another one when the registry is      *)
(* asked again.                                                            *)
(***************************************************************************)
Preflight(c) ==
    IF Policy[c].depends /\ ~ healthy THEN "retry_later" ELSE Policy[c].verdict

(***************************************************************************)
(* The scheduler.                                                          *)
(***************************************************************************)
\* A prompt with a fixed workflow is one batch; another one is served by the
\* loop, batch by batch.
Receive(b, s) ==
    /\ phase = "idle" /\ batches < MaxBatches /\ ~ stop
    /\ scope = "none" \/ (scope = "batch" /\ s = "batch")
    /\ batches' = batches + 1 /\ scope' = s
    /\ items' = [i \in DOMAIN b |-> [call |-> b[i], st |-> "new", out |-> "none", attempt |-> 1,
                                     rejected |-> FALSE]]
    /\ phase' = "prepare"
    /\ UNCHANGED <<task, how, seen, ledger, healthy, stop, work, places, ran>>

\* _prepare takes the calls in order.  The fingerprint is noted before the
\* registry is asked.
Prepare ==
    /\ phase = "prepare"
    /\ \E i \in InState("new") :
         LET c == items[i].call
             twice == \E j \in 1 .. i - 1 : items[j].call = c /\ items[j].out \notin {"dup_batch", "dup_run"}
         IN /\ \A j \in InState("new") : i <= j
            /\ CASE twice -> TurnDown(i, "dup_batch") /\ seen' = seen
                 [] ~ twice /\ scope = "run" /\ c \in seen -> TurnDown(i, "dup_run") /\ seen' = seen
                 [] OTHER ->
                      /\ seen' = IF scope = "run" THEN seen \cup {c} ELSE seen
                      /\ IF Preflight(c) = "eligible" THEN Set(i, "ready") ELSE TurnDown(i, Preflight(c))
    /\ UNCHANGED <<task, batches, scope, phase, how, ledger, healthy, stop, work, places, ran>>

\* Mutant: tools with effects are parallelized as well.
CanParallelizeEffects(R) == Cardinality(R) > 1 /\ \A i \in R : PolicyAt(i).parallel

\* _can_batch and _can_parallelize look at the calls that are left, here at
\* their places; the policy is that of the tool, so one tool has one.
CanBatch(R) ==
    /\ Cardinality(R) > 1
    /\ \A i, j \in R : PolicyAt(i).tool = PolicyAt(j).tool
    /\ \A i \in R : PolicyAt(i).pure /\ PolicyAt(i).idempotent /\ PolicyAt(i).batch
CanParallelize(R) ==
    /\ Cardinality(R) > 1
    /\ \A i \in R : PolicyAt(i).pure /\ PolicyAt(i).idempotent /\ PolicyAt(i).parallel

Decide ==
    /\ phase = "prepare" /\ InState("new") = {}
    /\ LET R == InState("ready")
       IN how' = CASE CanBatch(R) -> "batch" [] ~ CanBatch(R) /\ CanParallelize(R) -> "parallel"
                   [] OTHER -> "serial"
    /\ phase' = "dispatch"
    /\ UNCHANGED <<task, batches, scope, items, seen, ledger, healthy, stop, work, places, ran>>

\* run_batch is called in the scheduler's own thread: no pool, no retry, no
\* look at the cancellation.  If the registry refuses one of the calls now,
\* they are dispatched one by one.
DispatchBatch ==
    /\ phase = "dispatch" /\ how = "batch" /\ InState("ready") # {}
    /\ IF \A i \in InState("ready") : Preflight(items[i].call) = "eligible"
       THEN /\ \E o \in {"ok", "permanent"} :
                 items' = [i \in Index |-> IF items[i].st # "ready" THEN items[i]
                                           ELSE [items[i] EXCEPT !.st = "done", !.out = o]]
            /\ ran' = ran \cup {items[i].call : i \in InState("ready")}
            /\ how' = how
       ELSE how' = "serial" /\ UNCHANGED <<items, ran>>
    /\ UNCHANGED <<task, batches, scope, phase, seen, ledger, healthy, stop, work, places>>

\* ToolRegistry.dispatch asks preflight again before the execution.
Dispatch(i) ==
    /\ phase = "dispatch" /\ how # "batch" /\ items[i].st = "ready"
    /\ how = "serial" => \A j \in 1 .. i - 1 : items[j].st = "done"
    /\ LET d == Preflight(items[i].call)
       IN IF d = "eligible" THEN Set(i, "submit") ELSE Finish(i, d)
    /\ UNCHANGED <<task, batches, scope, phase, how, seen, ledger, healthy, stop, work, places, ran>>

(***************************************************************************)
(* The execution of one call.                                              *)
(***************************************************************************)
\* Only a tool without effects is given up after its time.
TimeLimited(c) == Policy[c].idempotent /\ Policy[c].pure

\* The outcome of an attempt: again, if the tool may be repeated, the outcome
\* is one the policy names and attempts are left.
Attempted(i, o) ==
    LET p == Policy[items[i].call] IN
    IF o \in {"transient", "saturated"} /\ p.retries /\ p.idempotent /\ items[i].attempt < p.attempts
    THEN items' = [items EXCEPT ![i] = [@ EXCEPT !.st = "submit", !.attempt = items[i].attempt + 1]]
    ELSE Finish(i, o)

Submit(i) ==
    /\ phase = "dispatch" /\ items[i].st = "submit"
    /\ CASE stop -> Finish(i, "cancelled") /\ UNCHANGED <<work, places>>
         [] ~ stop /\ places = 0 -> Attempted(i, "saturated") /\ UNCHANGED <<work, places>>
         [] OTHER -> /\ Set(i, "wait")
                     /\ places' = places - 1
                     /\ work' = [k \in DOMAIN work \cup {Key(i)} |->
                                   IF k # Key(i) THEN work[k]
                                   ELSE [st |-> "queued", call |-> items[i].call, task |-> task]]
    /\ UNCHANGED <<task, batches, scope, phase, how, seen, ledger, healthy, stop, ran>>

StartWork(k) ==
    /\ work[k].st = "queued" /\ Cardinality(Running) < Workers
    /\ work' = [work EXCEPT ![k].st = "running"]
    /\ ran' = IF work[k].task = task THEN ran \cup {work[k].call} ELSE ran
    /\ UNCHANGED <<task, batches, scope, phase, items, how, seen, ledger, healthy, stop, places>>

Awaited(k) == k[1] = batches /\ k[2] \in InState("wait") /\ Key(k[2]) = k
Without(k) == [x \in DOMAIN work \ {k} |-> work[x]]

\* The tool returns: the place in the pool is free again, whoever waits.
ReturnWork(k) ==
    /\ work[k].st = "running"
    /\ work' = Without(k)
    /\ places' = places + 1
    /\ IF Awaited(k)
       THEN \E o \in {"ok", "transient", "permanent"} : Attempted(k[2], o)
       ELSE items' = items
    /\ UNCHANGED <<task, batches, scope, phase, how, seen, ledger, healthy, stop, ran>>

\* Mutant: a call that is given up may be repeated.
AbandonRepeating(i, o) ==
    /\ items[i].st = "wait"
    /\ Attempted(i, IF o = "timeout" THEN "transient" ELSE o)
    /\ IF work[Key(i)].st = "queued"
       THEN work' = Without(Key(i)) /\ places' = places + 1
       ELSE UNCHANGED <<work, places>>
    /\ UNCHANGED <<task, batches, scope, phase, how, seen, ledger, healthy, stop, ran>>

\* The waiting thread gives up.  A call still queued is taken out of the pool,
\* one that runs goes on.
Abandon(i, o) ==
    /\ items[i].st = "wait"
    /\ Finish(i, o)
    /\ IF work[Key(i)].st = "queued"
       THEN work' = Without(Key(i)) /\ places' = places + 1
       ELSE UNCHANGED <<work, places>>
    /\ UNCHANGED <<task, batches, scope, phase, how, seen, ledger, healthy, stop, ran>>

Timeout(i) == TimeLimited(items[i].call) /\ Abandon(i, "timeout")
SeeStop(i) == stop /\ Abandon(i, "cancelled")

\* The results go back in the order of the calls; the ledger counts a call
\* as dispatched if nothing was against it in _prepare.
Record ==
    /\ phase = "dispatch" /\ \A i \in Index : items[i].st = "done"
    /\ LET n == Cardinality({i \in Index : items[i].rejected})
       IN ledger' = [requested |-> ledger.requested + Len(items),
                     dispatched |-> ledger.dispatched + Len(items) - n,
                     rejected |-> ledger.rejected + n]
    /\ phase' = "idle" /\ items' = <<>> /\ how' = "serial"
    /\ UNCHANGED <<task, batches, scope, seen, healthy, stop, work, places, ran>>

(***************************************************************************)
(* The surroundings: a service comes and goes, the user cancels, the next  *)
(* prompt arrives in the same session.                                     *)
(***************************************************************************)
\* Only while a call is left that will ask for it.
ServiceFlips ==
    /\ \E i \in InState("new") \cup InState("ready") : Policy[items[i].call].depends
    /\ healthy' = ~ healthy
    /\ UNCHANGED <<task, batches, scope, phase, items, how, seen, ledger, stop, work, places, ran>>

StopTools ==
    /\ ~ stop /\ phase # "idle"
    /\ stop' = TRUE
    /\ UNCHANGED <<task, batches, scope, phase, items, how, seen, ledger, healthy, work, places, ran>>

\* The tool context is the session's: only the event is cleared.
NextTask ==
    /\ phase = "idle" /\ task < MaxTasks
    /\ task' = task + 1 /\ stop' = FALSE /\ ran' = {} /\ scope' = "none"
    /\ UNCHANGED <<batches, phase, items, how, seen, ledger, healthy, work, places>>

ToolStep ==
    \/ Prepare \/ Decide \/ DispatchBatch \/ Record
    \/ \E i \in Index : Dispatch(i) \/ Submit(i) \/ Timeout(i) \/ SeeStop(i)
    \/ \E k \in DOMAIN work : StartWork(k) \/ ReturnWork(k)

ToolNext == ToolStep \/ (\E b \in Batches, s \in {"batch", "run"} : Receive(b, s)) \/ ServiceFlips \/ StopTools \/ NextTask

ToolSpec == ToolInit /\ [][ToolNext]_toolvars

-----------------------------------------------------------------------------
Outcomes == {"none", "dup_batch", "dup_run", "ineligible", "retry_later", "approval",
             "ok", "transient", "permanent", "timeout", "cancelled", "saturated"}

\* Type invariant of the tool layer.
ToolTypeOK ==
    /\ task \in 1 .. MaxTasks /\ batches \in 0 .. MaxBatches
    /\ scope \in {"none", "batch", "run"} /\ phase \in {"idle", "prepare", "dispatch"} /\ how \in {"serial", "parallel", "batch"}
    /\ \A i \in Index : items[i].call \in Calls /\ items[i].out \in Outcomes
                       /\ items[i].st \in {"new", "ready", "submit", "wait", "done"}
    /\ seen \subseteq Calls /\ ran \subseteq Calls
    /\ places \in 0 .. Workers + Queue

\* A call is never tried again while an earlier attempt may still be running.
OneLiveAttempt ==
    \A k, l \in DOMAIN work : k[1] = l[1] /\ k[2] = l[2] => k = l

\* Within a task, of the tools with effects only one runs at a time, whatever
\* was given up before.
EffectsAlone ==
    \A k, l \in Running : /\ work[k].task = work[l].task
                          /\ ~ Policy[work[k].call].pure /\ ~ Policy[work[l].call].pure
                          => k = l

\* "equivalent tool call already ran in this task" (scheduler.py:119): a call
\* refused with these words was submitted to its tool in the current task.
DuplicatesRan ==
    \A i \in Index : items[i].out = "dup_run" => items[i].call \in ran
=============================================================================
