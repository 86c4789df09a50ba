----------------------------- MODULE AgentJobs -----------------------------
(***************************************************************************)
(* AgentJobService (services/backend/app/services/agent_jobs.py) in its    *)
(* default deployment: one process with AGENT_JOB_ROLE=all, MySQL job      *)
(* rows, a Redis dispatch stream and Redis session locks.                  *)
(*                                                                         *)
(* A section under self._lock runs without interruption, so it is one      *)
(* action.  Every await outside such a section (an SQL statement, a Redis  *)
(* command, a result of the runtime) separates two actions, and a task     *)
(* that is between two awaits remembers where it is in its pc.             *)
(***************************************************************************)
EXTENDS JobTypes, Sequences, SequencesExt

CONSTANTS
  NumJobs,        \* jobs are numbered in the order they are created
  Workers,        \* the worker coroutines; worker_concurrency is their number
  Sessions, Keys, \* conversations, and the queue keys (one for each user)
  SessionOf, KeyOf,
  MaxAttempts, MaxPending, MaxPendingPerUser,
  Faults,         \* which calls of the dispatch may raise
  Polling,        \* does anybody read a job (GET, an SSE stream, the cancel route)?
  MaxFaults, MaxExpiries, MaxCrashes, MaxReplays  \* bounds on the environment

Jobs == 1..NumJobs

ASSUME CountsAssumption ==
  /\ NumJobs \in Nat /\ MaxAttempts \in Nat \ {0}
  /\ MaxPending \in Nat /\ MaxPendingPerUser \in Nat
  /\ MaxFaults \in Nat /\ MaxExpiries \in Nat /\ MaxCrashes \in Nat /\ MaxReplays \in Nat
ASSUME ScopeAssumption ==
  /\ SessionOf \in [Jobs -> Sessions] /\ KeyOf \in [Jobs -> Keys]
  \* scope_session_id puts the tenant and the user into the session id
  /\ \A i, j \in Jobs : SessionOf[i] = SessionOf[j] => KeyOf[i] = KeyOf[j]
ASSUME EnvironmentAssumption ==
  Faults \subseteq {"load", "stage", "enqueue", "mark"} /\ Polling \in BOOLEAN

VARIABLES
  jobs,                     \* self._jobs
  queues,                   \* self._queues
  activeKeys, activeKeySet, \* occurrences in self._active_keys, and self._active_key_set
  runningSessions,          \* self._running_sessions
  pendingTotal, pendingByUser,
  dirty, snap,              \* ids waiting in the persistence queue, the row being saved
  rows,                     \* agent_chat_jobs
  stream,                   \* dispatch messages that no worker has taken
  lockOwner,                \* the session locks: the owning job, 0 when free
  sched,                    \* the scheduler task
  worker,                   \* the worker tasks
  poll,                     \* a get_job between its read and its merge
  replay,                   \* a create_job that found its idempotency key, in the lock
  tokens,                   \* execution tokens issued for each job
  finals,                   \* "final" events published for each job
  env                       \* how much of each bound is used

queueVars == <<queues, activeKeys, activeKeySet>>
pendingVars == <<pendingTotal, pendingByUser>>
storeVars == <<dirty, snap, rows>>
brokerVars == <<stream, lockOwner>>
readVars == <<poll, replay>>
countVars == <<tokens, finals, env>>
vars == <<jobs, queueVars, runningSessions, pendingVars, storeVars, brokerVars,
          sched, worker, readVars, countVars>>

----------------------------------------------------------------------------
(* Types and initial state *)

NoCopy == [job |-> 0, rec |-> NoJob]
Copy == [job : 0..NumJobs, rec : JobRecord]
Message == [job : Jobs, token : Nat]

SchedulerPC ==
  {"idle", "load", "merge", "acquire", "reappend", "admit", "stage", "enqueue", "mark",
   "failed", "finish", "unlock", "sweep", "sweepunlock"}
IdleScheduler == [pc |-> "idle", job |-> 0, rec |-> NoJob, stale |-> {}]
Scheduler ==
  {x \in [pc : SchedulerPC, job : 0..NumJobs, rec : JobRecord, stale : SUBSET Jobs] :
     x.pc \notin {"idle", "sweep"} => x.job \in Jobs}

\* "obj" is the job object a worker captured, NoJob while that is the one in jobs.
WorkerPC == {"idle", "begin", "running", "failing", "release", "discard",
             "settle", "retry", "unlock"}
IdleWorker == [pc |-> "idle", job |-> 0, token |-> 0, obj |-> NoJob,
               beat |-> FALSE, raised |-> FALSE]
Worker ==
  {x \in [pc : WorkerPC, job : 0..NumJobs, token : Nat, obj : JobRecord,
           beat : BOOLEAN, raised : BOOLEAN] : x.pc # "idle" \/ x.beat => x.job \in Jobs}

Counters == [faults : Nat, expiries : Nat, crashes : Nat, replays : Nat]

TypeOK ==
  /\ jobs \in [Jobs -> JobRecord] /\ rows \in [Jobs -> JobRecord]
  /\ queues \in [Keys -> Seq(Jobs)]
  /\ activeKeys \in [Keys -> Nat] /\ activeKeySet \in SUBSET Keys
  /\ runningSessions \in SUBSET Sessions
  /\ pendingTotal \in Nat /\ pendingByUser \in [Keys -> Nat]
  /\ dirty \in SUBSET Jobs /\ snap \in Copy
  /\ stream \in Seq(Message) /\ lockOwner \in [Sessions -> 0..NumJobs]
  /\ sched \in Scheduler /\ worker \in [Workers -> Worker]
  /\ poll \in Copy /\ replay \in Copy
  /\ tokens \in [Jobs -> Nat] /\ finals \in [Jobs -> Nat]
  /\ env \in Counters

Init ==
  /\ jobs = [j \in Jobs |-> NoJob] /\ rows = [j \in Jobs |-> NoJob]
  /\ queues = [k \in Keys |-> <<>>]
  /\ activeKeys = [k \in Keys |-> 0] /\ activeKeySet = {}
  /\ runningSessions = {}
  /\ pendingTotal = 0 /\ pendingByUser = [k \in Keys |-> 0]
  /\ dirty = {} /\ snap = NoCopy
  /\ stream = <<>> /\ lockOwner = [s \in Sessions |-> 0]
  /\ sched = IdleScheduler /\ worker = [w \in Workers |-> IdleWorker]
  /\ poll = NoCopy /\ replay = NoCopy
  /\ tokens = [j \in Jobs |-> 0] /\ finals = [j \in Jobs |-> 0]
  /\ env = [faults |-> 0, expiries |-> 0, crashes |-> 0, replays |-> 0]

----------------------------------------------------------------------------
(* Helpers *)

\* A replayed create_job awaits SQL while it holds self._lock.
LockFree == replay.job = 0

InQueue(j) == \E i \in 1..Len(queues[KeyOf[j]]) : queues[KeyOf[j]][i] = j
AtHead(j) == queues[KeyOf[j]] # <<>> /\ Head(queues[KeyOf[j]]) = j

\* A queue key enters the rotation unless the set says it is there already.
Activate(k) ==
  /\ activeKeys' = IF k \in activeKeySet THEN activeKeys ELSE [activeKeys EXCEPT ![k] = @ + 1]
  /\ activeKeySet' = activeKeySet \cup {k}

\* The scheduler puts a key it took back without asking the set.
Reappend(k) ==
  /\ activeKeys' = [activeKeys EXCEPT ![k] = @ + 1]
  /\ activeKeySet' = activeKeySet \cup {k}

\* Back to the front of the queue.
Requeue(j) ==
  /\ queues' = [queues EXCEPT ![KeyOf[j]] = IF InQueue(j) THEN @ ELSE <<j>> \o @]
  /\ Activate(KeyOf[j])

DecrementPending(j) ==
  /\ pendingTotal' = IF pendingTotal > 0 THEN pendingTotal - 1 ELSE 0
  /\ pendingByUser' = [pendingByUser EXCEPT ![KeyOf[j]] = IF @ > 0 THEN @ - 1 ELSE 0]

PersistJob(j) == dirty' = dirty \cup {j} /\ UNCHANGED <<snap, rows>>

LeaveSession(j) == runningSessions' = runningSessions \ {SessionOf[j]}

Finished(j, status) == jobs' = [jobs EXCEPT ![j].status = status]

\* Mutant: a cancellation keeps its place in the pending counters.
MarkCancelledUncounted(j) ==
  /\ Finished(j, "cancelled")
  /\ LeaveSession(j) /\ PersistJob(j) /\ UNCHANGED <<pendingTotal, pendingByUser>>

MarkCancelled(j) ==
  /\ Finished(j, "cancelled")
  /\ LeaveSession(j) /\ DecrementPending(j) /\ PersistJob(j)

\* The attempt is over: its token and its lease are withdrawn.
Withdrawn(job, status) ==
  [job EXCEPT !.status = status, !.token = 0, !.lease = "none"]

\* Mutant: the lock is deleted whoever owns it.
ReleaseSessionUnowned(j) == lockOwner' = [lockOwner EXCEPT ![SessionOf[j]] = 0]

\* Redis deletes the lock only when the caller's job owns it.
ReleaseSession(j) ==
  lockOwner' = [lockOwner EXCEPT ![SessionOf[j]] = IF @ = j THEN 0 ELSE @]

\* Another object becomes self._jobs[j]; who captured the old one keeps it.
Replace(j, job) ==
  /\ jobs' = [jobs EXCEPT ![j] = job]
  /\ worker' = [w \in Workers |->
       IF worker[w].pc = "begin" /\ worker[w].job = j /\ ~Exists(worker[w].obj)
       THEN [worker[w] EXCEPT !.obj = jobs[j]] ELSE worker[w]]

Merge(j, persisted) ==
  IF PersistedWins(jobs[j], persisted) THEN Replace(j, persisted) ELSE UNCHANGED <<jobs, worker>>

Fault(call) ==
  /\ call \in Faults /\ env.faults < MaxFaults
  /\ env' = [env EXCEPT !.faults = @ + 1] /\ UNCHANGED <<tokens, finals>>

SchedulerAt(pc) == sched' = [sched EXCEPT !.pc = pc]
WorkerAt(w, pc) == worker' = [worker EXCEPT ![w].pc = pc]

----------------------------------------------------------------------------
(* Requests *)

\* create_job: the row is inserted inside the lock; over a limit it is refused.
CreateJob(j) ==
  /\ LockFree /\ ~Exists(rows[j]) /\ \A i \in Jobs : i < j => Exists(rows[i])
  /\ pendingTotal < MaxPending /\ pendingByUser[KeyOf[j]] < MaxPendingPerUser
  /\ jobs' = [jobs EXCEPT ![j] = NewJob] /\ rows' = [rows EXCEPT ![j] = NewJob]
  /\ pendingTotal' = pendingTotal + 1
  /\ pendingByUser' = [pendingByUser EXCEPT ![KeyOf[j]] = @ + 1]
  /\ queues' = [queues EXCEPT ![KeyOf[j]] = Append(@, j)]
  /\ Activate(KeyOf[j])
  /\ UNCHANGED <<runningSessions, dirty, snap, brokerVars, sched, worker, readVars, countVars>>

\* create_job with a known idempotency key: the row is read while the lock is held ...
ReplayRead(j) ==
  /\ LockFree /\ Exists(rows[j]) /\ env.replays < MaxReplays
  /\ replay' = [job |-> j, rec |-> rows[j]]
  /\ env' = [env EXCEPT !.replays = @ + 1]
  /\ UNCHANGED <<jobs, queueVars, runningSessions, pendingVars, storeVars, brokerVars,
                 sched, worker, poll, tokens, finals>>

\* ... and takes the place of the local job.
ReplayApply ==
  /\ replay.job # 0
  /\ Replace(replay.job, replay.rec)
  /\ replay' = NoCopy
  /\ UNCHANGED <<queueVars, runningSessions, pendingVars, storeVars, brokerVars,
                 sched, poll, countVars>>

\* get_job reads the row without the lock and merges it under the lock.
PollRead(j) ==
  /\ Polling /\ poll.job = 0 /\ Exists(rows[j])
  /\ poll' = [job |-> j, rec |-> rows[j]]
  /\ UNCHANGED <<jobs, queueVars, runningSessions, pendingVars, storeVars, brokerVars,
                 sched, worker, replay, countVars>>

PollMerge ==
  /\ LockFree /\ poll.job # 0
  /\ Merge(poll.job, poll.rec)
  /\ poll' = NoCopy
  /\ UNCHANGED <<queueVars, runningSessions, pendingVars, storeVars, brokerVars,
                 sched, replay, countVars>>

\* cancel_job of a queued job.  The release of the session lock that follows
\* can only concern a lock of this job, which is over: it is the same step.
CancelQueued(j) ==
  /\ LockFree /\ jobs[j].status = "queued"
  /\ queues' = [queues EXCEPT ![KeyOf[j]] = RemoveFirst(@, j)]
  /\ MarkCancelled(j)
  /\ ReleaseSession(j)
  /\ UNCHANGED <<activeKeys, activeKeySet, stream, sched, worker, readVars, countVars>>

\* cancel_job of a dispatched job: the runtime is signalled, its result decides.
\* Asked for again, it is persisted again.
CancelActive(j) ==
  /\ LockFree /\ jobs[j].status \in Live \ {"queued"}
  /\ jobs' = [jobs EXCEPT ![j].status = "cancel_requested"]
  /\ PersistJob(j)
  /\ UNCHANGED <<queueVars, runningSessions, pendingVars, brokerVars, sched, worker,
                 readVars, countVars>>

----------------------------------------------------------------------------
(* The scheduler task: _schedule_once *)

\* The credits of the round robin decide which of the eligible keys is taken, and
\* how many idle keys are met, and dropped, on the way: any of them may be.
IdleKeys == {k \in Keys : activeKeys[k] > 0 /\ queues[k] = <<>>}
\* Mutant: the queues are scanned, not the rotation.
EligibleUnlisted(k) ==
  /\ queues[k] # <<>>
  /\ SessionOf[Head(queues[k])] \notin runningSessions

Eligible(k) ==
  /\ activeKeys[k] > 0 /\ queues[k] # <<>>
  /\ SessionOf[Head(queues[k])] \notin runningSessions

SelectCandidate(k) ==
  /\ LockFree /\ sched.pc = "idle"
  /\ Cardinality(runningSessions) < Cardinality(Workers)
  /\ Eligible(k)
  /\ \E met \in SUBSET IdleKeys :
       /\ activeKeys' = [x \in Keys |-> IF x \in met \cup {k} THEN activeKeys[x] - 1
                                         ELSE activeKeys[x]]
       /\ activeKeySet' = activeKeySet \ (met \cup {k})
  /\ sched' = [sched EXCEPT !.pc = "load", !.job = Head(queues[k])]
  /\ UNCHANGED <<jobs, queues, runningSessions, pendingVars, storeVars, brokerVars,
                 worker, readVars, countVars>>

\* A round that takes no key still drops the idle ones.
SelectNothing ==
  /\ LockFree /\ sched.pc = "idle" /\ IdleKeys # {}
  /\ Cardinality(runningSessions) < Cardinality(Workers)
  /\ activeKeys' = [k \in Keys |-> IF k \in IdleKeys THEN 0 ELSE activeKeys[k]]
  /\ activeKeySet' = activeKeySet \ IdleKeys
  /\ UNCHANGED <<jobs, queues, runningSessions, pendingVars, storeVars, brokerVars,
                 sched, worker, readVars, countVars>>

LoadLatest ==
  /\ sched.pc = "load"
  /\ sched' = [sched EXCEPT !.pc = "merge", !.rec = rows[sched.job]]
  /\ UNCHANGED <<jobs, queueVars, runningSessions, pendingVars, storeVars, brokerVars,
                 worker, readVars, countVars>>

\* load_job raises: the scheduler loop swallows it, the key is out of the rotation.
LoadFails ==
  /\ sched.pc = "load" /\ Fault("load")
  /\ sched' = IdleScheduler
  /\ UNCHANGED <<jobs, queueVars, runningSessions, pendingVars, storeVars, brokerVars,
                 worker, readVars>>

\* The row read before the lock replaces the local job unless it is behind it.
MergeLatest ==
  LET j == sched.job  k == KeyOf[j] IN
  /\ LockFree /\ sched.pc = "merge"
  /\ Merge(j, sched.rec)
  /\ IF jobs'[j].status = "queued"
     THEN /\ sched' = [sched EXCEPT !.pc = "acquire", !.rec = NoJob]
          /\ UNCHANGED queueVars
     ELSE /\ queues' = [queues EXCEPT ![k] = IF AtHead(j) THEN Tail(@) ELSE @]
          /\ IF queues'[k] # <<>> THEN Reappend(k)
             ELSE activeKeySet' = activeKeySet \ {k} /\ UNCHANGED activeKeys
          /\ sched' = IdleScheduler
  /\ UNCHANGED <<runningSessions, pendingVars, storeVars, brokerVars, readVars, countVars>>

\* SET NX: a lock the same job still holds is refused as well.
AcquireSession ==
  LET s == SessionOf[sched.job] IN
  /\ sched.pc = "acquire"
  /\ IF lockOwner[s] = 0
     THEN lockOwner' = [lockOwner EXCEPT ![s] = sched.job] /\ SchedulerAt("admit")
     ELSE UNCHANGED lockOwner /\ SchedulerAt("reappend")
  /\ UNCHANGED <<jobs, queueVars, runningSessions, pendingVars, storeVars, stream,
                 worker, readVars, countVars>>

SessionBusy ==
  /\ LockFree /\ sched.pc = "reappend"
  /\ Reappend(KeyOf[sched.job])
  /\ sched' = IdleScheduler
  /\ UNCHANGED <<jobs, queues, runningSessions, pendingVars, storeVars, brokerVars,
                 worker, readVars, countVars>>

\* Under the lock again, the head and the status are checked a second time.
Admissible(j) == AtHead(j) /\ jobs[j].status = "queued"

AdmitJob ==
  LET j == sched.job
      admitted == [status |-> "admitted", attempt |-> jobs[j].attempt + 1,
                   fence |-> jobs[j].fence + 1, token |-> tokens[j] + 1, lease |-> "live"] IN
  /\ LockFree /\ sched.pc = "admit" /\ Admissible(j)
  /\ queues' = [queues EXCEPT ![KeyOf[j]] = Tail(@)]
  /\ runningSessions' = runningSessions \cup {SessionOf[j]}
  /\ jobs' = [jobs EXCEPT ![j] = admitted]
  /\ tokens' = [tokens EXCEPT ![j] = @ + 1]
  /\ sched' = [sched EXCEPT !.pc = "stage", !.rec = admitted]
  /\ UNCHANGED <<activeKeys, activeKeySet, pendingVars, storeVars, brokerVars, worker,
                 readVars, finals, env>>

AdmissionLost ==
  /\ LockFree /\ sched.pc = "admit" /\ ~Admissible(sched.job)
  /\ Reappend(KeyOf[sched.job])
  /\ SchedulerAt("unlock")
  /\ UNCHANGED <<jobs, queues, runningSessions, pendingVars, storeVars, brokerVars,
                 worker, readVars, countVars>>

\* UPDATE ... WHERE fencing_token <= the fence of the admission.
StageDispatch ==
  LET j == sched.job IN
  /\ sched.pc = "stage"
  /\ IF rows[j].fence <= sched.rec.fence
     THEN rows' = [rows EXCEPT ![j] = sched.rec] /\ SchedulerAt("enqueue")
     ELSE UNCHANGED rows /\ SchedulerAt("failed")
  /\ UNCHANGED <<jobs, queueVars, runningSessions, pendingVars, dirty, snap, brokerVars,
                 worker, readVars, countVars>>

EnqueueDispatch ==
  /\ sched.pc = "enqueue"
  /\ stream' = Append(stream, [job |-> sched.job, token |-> sched.rec.token])
  /\ SchedulerAt("mark")
  /\ UNCHANGED <<jobs, queueVars, runningSessions, pendingVars, storeVars, lockOwner,
                 worker, readVars, countVars>>

\* The outbox row is marked as sent; nothing reads the outbox.
MarkDispatchSent ==
  /\ sched.pc = "mark" /\ SchedulerAt("finish")
  /\ UNCHANGED <<jobs, queueVars, runningSessions, pendingVars, storeVars, brokerVars,
                 worker, readVars, countVars>>

DispatchFails ==
  /\ sched.pc \in {"stage", "enqueue", "mark"} /\ Fault(sched.pc)
  /\ SchedulerAt("failed")
  /\ UNCHANGED <<jobs, queueVars, runningSessions, pendingVars, storeVars, brokerVars,
                 worker, readVars>>

\* The handler of a failed dispatch gives up, or puts the job at the head again.
\* An illegal transition raises after the queue was changed: the session lock stays.
HandleDispatchFailure ==
  LET j == sched.job
      exhausted == jobs[j].attempt >= MaxAttempts
      target == IF exhausted THEN "failed" ELSE "queued"
      legal == CanMove(jobs[j].status, target) IN
  /\ LockFree /\ sched.pc = "failed"
  /\ LeaveSession(j)
  /\ jobs' = [jobs EXCEPT ![j] = Withdrawn(@, IF legal THEN target ELSE @.status)]
  /\ IF exhausted THEN UNCHANGED queueVars
     ELSE /\ queues' = [queues EXCEPT ![KeyOf[j]] = <<j>> \o @]
          /\ Activate(KeyOf[j])
  /\ IF exhausted /\ legal THEN DecrementPending(j) ELSE UNCHANGED pendingVars
  /\ IF legal THEN PersistJob(j) /\ SchedulerAt("unlock")
     ELSE UNCHANGED storeVars /\ sched' = IdleScheduler
  /\ UNCHANGED <<brokerVars, worker, readVars, countVars>>

\* Mutant: the key leaves the rotation although its queue has another job.
FinishDispatchForgetful ==
  /\ LockFree /\ sched.pc = "finish"
  /\ activeKeySet' = activeKeySet \ {KeyOf[sched.job]}
  /\ sched' = IdleScheduler
  /\ UNCHANGED <<jobs, activeKeys, queues, runningSessions, pendingVars, storeVars,
                 brokerVars, worker, readVars, countVars>>

FinishDispatch ==
  LET k == KeyOf[sched.job] IN
  /\ LockFree /\ sched.pc = "finish"
  /\ IF queues[k] # <<>> THEN Reappend(k)
     ELSE activeKeySet' = activeKeySet \ {k} /\ UNCHANGED activeKeys
  /\ sched' = IdleScheduler
  /\ UNCHANGED <<jobs, queues, runningSessions, pendingVars, storeVars, brokerVars,
                 worker, readVars, countVars>>

SchedulerUnlock ==
  /\ sched.pc = "unlock"
  /\ ReleaseSession(sched.job)
  /\ sched' = IdleScheduler
  /\ UNCHANGED <<jobs, queueVars, runningSessions, pendingVars, storeVars, stream,
                 worker, readVars, countVars>>

----------------------------------------------------------------------------
(* The scheduler task: _recover_stalled_jobs *)

LoadStale ==
  LET stale == {j \in Jobs : Leased(rows[j]) /\ rows[j].lease = "expired"} IN
  /\ sched.pc = "idle" /\ stale # {}
  /\ sched' = [sched EXCEPT !.pc = "sweep", !.stale = stale]
  /\ UNCHANGED <<jobs, queueVars, runningSessions, pendingVars, storeVars, brokerVars,
                 worker, readVars, countVars>>

SweptFrom(j) ==
  LET rest == sched.stale \ {j} IN
  IF rest = {} THEN IdleScheduler ELSE [sched EXCEPT !.stale = rest]

\* The local job decides: it may have moved on, or its lease may have been renewed.
SkipStalled(j) ==
  /\ LockFree /\ sched.pc = "sweep" /\ j \in sched.stale
  /\ ~Leased(jobs[j]) \/ jobs[j].lease = "live"
  /\ sched' = SweptFrom(j)
  /\ UNCHANGED <<jobs, queueVars, runningSessions, pendingVars, storeVars, brokerVars,
                 worker, readVars, countVars>>

\* Mutant: the row alone tells that the job is stalled.
StalledByRow(j) ==
  /\ LockFree /\ sched.pc = "sweep" /\ j \in sched.stale
  /\ jobs[j].lease # "live"

Stalled(j) ==
  /\ LockFree /\ sched.pc = "sweep" /\ j \in sched.stale
  /\ Leased(jobs[j]) /\ jobs[j].lease # "live"

\* Out of attempts: the early return skips the release of the session lock.
FailStalled(j) ==
  /\ Stalled(j) /\ jobs[j].attempt >= MaxAttempts
  /\ jobs' = [jobs EXCEPT ![j] = Withdrawn(@, "failed")]
  /\ LeaveSession(j) /\ DecrementPending(j) /\ PersistJob(j)
  /\ sched' = SweptFrom(j)
  /\ UNCHANGED <<queueVars, brokerVars, worker, readVars, countVars>>

RequeueStalled(j) ==
  /\ Stalled(j) /\ jobs[j].attempt < MaxAttempts
  /\ jobs' = [jobs EXCEPT ![j] = Withdrawn(@, "queued")]
  /\ LeaveSession(j) /\ Requeue(j) /\ PersistJob(j)
  /\ sched' = [sched EXCEPT !.pc = "sweepunlock", !.job = j]
  /\ UNCHANGED <<pendingVars, brokerVars, worker, readVars, countVars>>

SweepUnlock ==
  /\ sched.pc = "sweepunlock"
  /\ ReleaseSession(sched.job)
  /\ sched' = [SweptFrom(sched.job) EXCEPT !.job = 0,
                 !.pc = IF sched.stale = {sched.job} THEN "idle" ELSE "sweep"]
  /\ UNCHANGED <<jobs, queueVars, runningSessions, pendingVars, storeVars, stream,
                 worker, readVars, countVars>>

----------------------------------------------------------------------------
(* A worker task: _worker_loop, _execute_job, _settle_/_retry_dispatch_message *)

\* A message is taken and the job object it names is captured, loaded if missing.
TakeMessage(w) ==
  LET m == Head(stream) IN
  /\ LockFree /\ worker[w].pc = "idle" /\ stream # <<>>
  /\ stream' = Tail(stream)
  /\ jobs' = [jobs EXCEPT ![m.job] = IF Exists(@) THEN @ ELSE rows[m.job]]
  /\ worker' = [worker EXCEPT ![w] = [IdleWorker EXCEPT !.pc = "begin", !.job = m.job,
                                                        !.token = m.token]]
  /\ UNCHANGED <<queueVars, runningSessions, pendingVars, storeVars, lockOwner, sched,
                 readVars, countVars>>

\* In the next section of the lock the captured object may not be self._jobs[j].
Shared(w) == ~Exists(worker[w].obj)
Captured(w) == IF Shared(w) THEN jobs[worker[w].job] ELSE worker[w].obj
CanBegin(w) == LockFree /\ worker[w].pc = "begin"

BeginIgnored(w) ==
  /\ CanBegin(w)
  /\ \/ Superseded(Captured(w), worker[w].token)
     \/ Captured(w).status \in Terminal \cup {"running"}
  /\ worker' = [worker EXCEPT ![w].pc = "settle", ![w].obj = NoJob]
  /\ UNCHANGED <<jobs, queueVars, runningSessions, pendingVars, storeVars, brokerVars,
                 sched, readVars, countVars>>

\* From here on the delivery is the one its job waits for, or the job waits for none.
CanStart(w) == CanBegin(w) /\ ~Superseded(Captured(w), worker[w].token)

BeginCancelled(w) ==
  LET j == worker[w].job IN
  /\ CanStart(w) /\ Captured(w).status = "cancel_requested"
  /\ IF Shared(w) THEN Finished(j, "cancelled") ELSE UNCHANGED jobs
  /\ LeaveSession(j) /\ DecrementPending(j) /\ PersistJob(j)
  /\ worker' = [worker EXCEPT ![w].pc = "release", ![w].obj = NoJob]
  /\ UNCHANGED <<queueVars, brokerVars, sched, readVars, countVars>>

\* queued -> running is refused: the exception reaches the worker loop.
BeginIllegal(w) ==
  /\ CanStart(w) /\ Captured(w).status = "queued"
  /\ worker' = [worker EXCEPT ![w].pc = "retry", ![w].obj = NoJob, ![w].raised = TRUE]
  /\ UNCHANGED <<jobs, queueVars, runningSessions, pendingVars, storeVars, brokerVars,
                 sched, readVars, countVars>>

BeginRunning(w) ==
  LET j == worker[w].job IN
  /\ CanStart(w) /\ Captured(w).status = "admitted"
  /\ IF Shared(w) THEN jobs' = [jobs EXCEPT ![j].status = "running"] ELSE UNCHANGED jobs
  /\ PersistJob(j)
  /\ worker' = [worker EXCEPT ![w].pc = "running", ![w].obj = NoJob, ![w].beat = TRUE]
  /\ UNCHANGED <<queueVars, runningSessions, pendingVars, brokerVars, sched, readVars,
                 countVars>>

\* Mutant: an execution that lost its token is believed.
HoldsUnchecked(w) == Exists(jobs[worker[w].job])

Holds(w) == jobs[worker[w].job].token = worker[w].token

\* The heartbeat ends for good when the token or the session lock is lost.
Heartbeat(w) ==
  LET j == worker[w].job IN
  /\ LockFree /\ worker[w].beat
  /\ IF Holds(w) THEN jobs' = [jobs EXCEPT ![j].lease = "live"] /\ PersistJob(j)
     ELSE UNCHANGED <<jobs, storeVars>>
  /\ worker' = [worker EXCEPT ![w].beat = Holds(w) /\ lockOwner[SessionOf[j]] = j]
  /\ UNCHANGED <<queueVars, runningSessions, pendingVars, brokerVars, sched, readVars,
                 countVars>>

\* The runtime's stream failed, or ended without a final frame.
RuntimeFails(w) ==
  /\ worker[w].pc = "running" /\ WorkerAt(w, "failing")
  /\ UNCHANGED <<jobs, queueVars, runningSessions, pendingVars, storeVars, brokerVars,
                 sched, readVars, countVars>>

\* The runtime answered: with an unmet task contract the outcome is a failure.
Publish(w, outcome) ==
  LET j == worker[w].job IN
  /\ LockFree /\ worker[w].pc = "running" /\ Holds(w)
  /\ jobs[j].status # "cancel_requested" /\ CanMove(jobs[j].status, outcome)
  /\ Finished(j, outcome) /\ DecrementPending(j) /\ PersistJob(j)
  /\ finals' = [finals EXCEPT ![j] = IF outcome = "succeeded" THEN @ + 1 ELSE @]
  /\ WorkerAt(w, "release")
  /\ UNCHANGED <<queueVars, runningSessions, brokerVars, sched, readVars, tokens, env>>

PublishIllegal(w, outcome) ==
  /\ LockFree /\ worker[w].pc = "running" /\ Holds(w)
  /\ jobs[worker[w].job].status # "cancel_requested"
  /\ ~CanMove(jobs[worker[w].job].status, outcome)
  /\ WorkerAt(w, "failing")
  /\ UNCHANGED <<jobs, queueVars, runningSessions, pendingVars, storeVars, brokerVars,
                 sched, readVars, countVars>>

\* Result or exception, a cancellation that was requested comes first.
EndCancelled(w) ==
  LET j == worker[w].job IN
  /\ LockFree /\ worker[w].pc \in {"running", "failing"} /\ Holds(w)
  /\ jobs[j].status = "cancel_requested"
  /\ MarkCancelled(j)
  /\ WorkerAt(w, "release")
  /\ UNCHANGED <<queueVars, brokerVars, sched, readVars, countVars>>

\* ... and without the token neither of them is recorded.
EndIgnored(w) ==
  /\ LockFree /\ worker[w].pc \in {"running", "failing"} /\ ~Holds(w)
  /\ WorkerAt(w, "release")
  /\ UNCHANGED <<jobs, queueVars, runningSessions, pendingVars, storeVars, brokerVars,
                 sched, readVars, countVars>>

FailJob(w) ==
  LET j == worker[w].job  legal == CanMove(jobs[j].status, "failed") IN
  /\ LockFree /\ worker[w].pc = "failing" /\ Holds(w)
  /\ jobs[j].status # "cancel_requested"
  /\ IF legal THEN Finished(j, "failed") /\ DecrementPending(j) /\ PersistJob(j)
     ELSE UNCHANGED <<jobs, pendingVars, storeVars>>
  /\ worker' = [worker EXCEPT ![w].pc = "release", ![w].raised = ~legal]
  /\ UNCHANGED <<queueVars, runningSessions, brokerVars, sched, readVars, countVars>>

\* finally: the lock is released in the name of the job, not of the attempt.
WorkerRelease(w) ==
  /\ worker[w].pc = "release"
  /\ ReleaseSession(worker[w].job)
  /\ worker' = [worker EXCEPT ![w].pc = "discard", ![w].beat = FALSE]
  /\ UNCHANGED <<jobs, queueVars, runningSessions, pendingVars, storeVars, stream, sched,
                 readVars, countVars>>

\* Mutant: the session is left in running_sessions.
WorkerDiscardNothing(w) ==
  /\ LockFree /\ worker[w].pc = "discard"
  /\ WorkerAt(w, IF worker[w].raised THEN "retry" ELSE "settle")
  /\ UNCHANGED <<jobs, queueVars, runningSessions, pendingVars, storeVars, brokerVars,
                 sched, readVars, countVars>>

WorkerDiscard(w) ==
  /\ LockFree /\ worker[w].pc = "discard"
  /\ LeaveSession(worker[w].job)
  /\ WorkerAt(w, IF worker[w].raised THEN "retry" ELSE "settle")
  /\ UNCHANGED <<jobs, queueVars, pendingVars, storeVars, brokerVars, sched, readVars,
                 countVars>>

\* Only a job that is still admitted, or still to be cancelled, is not settled.
Settle(w) ==
  LET job == jobs[worker[w].job] IN
  /\ LockFree /\ worker[w].pc = "settle"
  /\ worker' = [worker EXCEPT ![w] =
       IF job.status \in {"admitted", "cancel_requested"} /\ ~Superseded(job, @.token)
       THEN [@ EXCEPT !.pc = "retry"] ELSE IdleWorker]
  /\ UNCHANGED <<jobs, queueVars, runningSessions, pendingVars, storeVars, brokerVars,
                 sched, readVars, countVars>>

\* What _retry_dispatch_message leaves alone, and what it takes back.
Retryable(w) ==
  LET job == jobs[worker[w].job] IN
  /\ ~Superseded(job, worker[w].token)
  /\ job.status \in {"cancel_requested", "admitted"} \/ (job.status = "running" /\ worker[w].raised)

RetryIgnored(w) ==
  /\ LockFree /\ worker[w].pc = "retry" /\ ~Retryable(w)
  /\ worker' = [worker EXCEPT ![w] = IdleWorker]
  /\ UNCHANGED <<jobs, queueVars, runningSessions, pendingVars, storeVars, brokerVars,
                 sched, readVars, countVars>>

RetryCancelled(w) ==
  LET j == worker[w].job IN
  /\ LockFree /\ worker[w].pc = "retry" /\ Retryable(w)
  /\ jobs[j].status = "cancel_requested"
  /\ MarkCancelled(j)
  /\ WorkerAt(w, "unlock")
  /\ UNCHANGED <<queueVars, brokerVars, sched, readVars, countVars>>

\* Mutant: one attempt too many.
RetryDispatchOnceMore(w) ==
  LET j == worker[w].job  exhausted == jobs[j].attempt > MaxAttempts IN
  /\ LockFree /\ worker[w].pc = "retry" /\ Retryable(w) /\ Leased(jobs[j])
  /\ LeaveSession(j) /\ PersistJob(j)
  /\ jobs' = [jobs EXCEPT ![j] = Withdrawn(@, IF exhausted THEN "failed" ELSE "queued")]
  /\ IF exhausted THEN DecrementPending(j) /\ UNCHANGED queueVars
     ELSE Requeue(j) /\ UNCHANGED pendingVars
  /\ WorkerAt(w, "unlock")
  /\ UNCHANGED <<brokerVars, sched, readVars, countVars>>

RetryDispatch(w) ==
  LET j == worker[w].job  exhausted == jobs[j].attempt >= MaxAttempts IN
  /\ LockFree /\ worker[w].pc = "retry" /\ Retryable(w) /\ Leased(jobs[j])
  /\ LeaveSession(j) /\ PersistJob(j)
  /\ jobs' = [jobs EXCEPT ![j] = Withdrawn(@, IF exhausted THEN "failed" ELSE "queued")]
  /\ IF exhausted THEN DecrementPending(j) /\ UNCHANGED queueVars
     ELSE Requeue(j) /\ UNCHANGED pendingVars
  /\ WorkerAt(w, "unlock")
  /\ UNCHANGED <<brokerVars, sched, readVars, countVars>>

WorkerUnlock(w) ==
  /\ worker[w].pc = "unlock"
  /\ ReleaseSession(worker[w].job)
  /\ worker' = [worker EXCEPT ![w] = IdleWorker]
  /\ UNCHANGED <<jobs, queueVars, runningSessions, pendingVars, storeVars, stream, sched,
                 readVars, countVars>>

----------------------------------------------------------------------------
(* The persistence task *)

\* The snapshot is of the job that is local now, not of the one that asked for it.
TakeSnapshot(j) ==
  /\ LockFree /\ snap.job = 0 /\ j \in dirty
  /\ snap' = [job |-> j, rec |-> jobs[j]]
  /\ dirty' = dirty \ {j}
  /\ UNCHANGED <<jobs, queueVars, runningSessions, pendingVars, rows, brokerVars, sched,
                 worker, readVars, countVars>>

\* Mutant: the upsert does not compare fencing tokens.
SaveSnapshotUnfenced ==
  /\ snap.job # 0
  /\ rows' = [rows EXCEPT ![snap.job] = snap.rec]
  /\ snap' = NoCopy
  /\ UNCHANGED <<jobs, queueVars, runningSessions, pendingVars, dirty, brokerVars, sched,
                 worker, readVars, countVars>>

\* save_job: an upsert that a smaller fencing token does not pass.
SaveSnapshot ==
  /\ snap.job # 0
  /\ rows' = [rows EXCEPT ![snap.job] = IF snap.rec.fence >= @.fence THEN snap.rec ELSE @]
  /\ snap' = NoCopy
  /\ UNCHANGED <<jobs, queueVars, runningSessions, pendingVars, dirty, brokerVars, sched,
                 worker, readVars, countVars>>

----------------------------------------------------------------------------
(* Time, and the death of the process *)

\* Somebody still acts for the job, and will refresh or end what it holds.
Handled(j) ==
  \/ sched.job = j /\ sched.pc \in {"admit", "stage", "enqueue", "mark", "failed", "finish", "unlock"}
  \/ \E i \in 1..Len(stream) : stream[i].job = j
  \/ \E w \in Workers : worker[w].job = j

\* A lease that nobody renews runs out.  One that is in use runs out only when the
\* event loop stalls, a message waits too long or the heartbeat was lost: MaxExpiries.
Overdue(j) ==
  \/ ~Handled(j) /\ UNCHANGED env
  \/ Handled(j) /\ env.expiries < MaxExpiries /\ env' = [env EXCEPT !.expiries = @ + 1]

LeaseTimeout(j) ==
  /\ \E job \in {jobs[j], rows[j]} : job.status \in Live /\ job.lease = "live"
  /\ Overdue(j)
  /\ jobs' = [jobs EXCEPT ![j] = Aged(@)]
  /\ rows' = [rows EXCEPT ![j] = Aged(@)]
  /\ snap' = IF snap.job = j THEN [snap EXCEPT !.rec = Aged(@)] ELSE snap
  /\ poll' = IF poll.job = j THEN [poll EXCEPT !.rec = Aged(@)] ELSE poll
  /\ replay' = IF replay.job = j THEN [replay EXCEPT !.rec = Aged(@)] ELSE replay
  /\ sched' = IF sched.job = j THEN [sched EXCEPT !.rec = Aged(@)] ELSE sched
  /\ UNCHANGED <<queueVars, runningSessions, pendingVars, dirty, brokerVars, worker,
                 tokens, finals>>

LockTimeout(s) ==
  /\ lockOwner[s] # 0 /\ Overdue(lockOwner[s])
  /\ lockOwner' = [lockOwner EXCEPT ![s] = 0]
  /\ UNCHANGED <<jobs, queueVars, runningSessions, pendingVars, storeVars, stream, sched,
                 worker, readVars, tokens, finals>>

\* What _restore_from_store makes of a row of agent_chat_jobs.
Restored(row) ==
  CASE row.status \in {"queued", "admitted", "running"} -> [row EXCEPT !.status = "queued"]
    [] row.status = "cancel_requested" -> Withdrawn(row, "cancelled")
    [] OTHER -> NoJob

\* ORDER BY created_at
Ordered(q, S) ==
  /\ ToSet(q) = S /\ Len(q) = Cardinality(S)
  /\ \A m, n \in 1..Len(q) : m < n => q[m] < q[n]

\* The process dies and starts again.  Rows and locks survive, and so do the
\* messages that its dispatch loop had not read: a read one is not delivered again.
Restart ==
  LET back == [j \in Jobs |-> Restored(rows[j])]
      Pending(k) == {j \in Jobs : KeyOf[j] = k /\ back[j].status = "queued"} IN
  /\ env.crashes < MaxCrashes
  /\ env' = [env EXCEPT !.crashes = @ + 1]
  /\ jobs' = back
  /\ \E q \in [Keys -> SeqOf(Jobs, NumJobs)] :
       (\A k \in Keys : Ordered(q[k], Pending(k))) /\ queues' = q
  /\ activeKeySet' = {k \in Keys : Pending(k) # {}}
  /\ activeKeys' = [k \in Keys |-> IF Pending(k) # {} THEN 1 ELSE 0]
  /\ runningSessions' = {}
  /\ pendingTotal' = Cardinality({j \in Jobs : back[j].status = "queued"})
  /\ pendingByUser' = [k \in Keys |-> Cardinality(Pending(k))]
  /\ dirty' = {j \in Jobs : back[j].status = "cancelled"} /\ snap' = NoCopy
  /\ \E n \in 0..Len(stream) : stream' = SubSeq(stream, n + 1, Len(stream))
  /\ sched' = IdleScheduler /\ worker' = [w \in Workers |-> IdleWorker]
  /\ poll' = NoCopy /\ replay' = NoCopy
  /\ UNCHANGED <<rows, lockOwner, tokens, finals>>

----------------------------------------------------------------------------
(* The service *)

Request(j) ==
  \/ CreateJob(j) \/ ReplayRead(j) \/ PollRead(j) \/ CancelQueued(j) \/ CancelActive(j)

Dispatching ==
  \/ LoadLatest \/ MergeLatest \/ AcquireSession \/ SessionBusy \/ AdmitJob \/ AdmissionLost
  \/ StageDispatch \/ EnqueueDispatch \/ MarkDispatchSent \/ HandleDispatchFailure
  \/ FinishDispatch \/ SchedulerUnlock

Sweeping ==
  \/ LoadStale \/ SweepUnlock
  \/ \E j \in Jobs : SkipStalled(j) \/ FailStalled(j) \/ RequeueStalled(j)

Beginning(w) ==
  \/ TakeMessage(w) \/ BeginIgnored(w) \/ BeginCancelled(w) \/ BeginIllegal(w)
  \/ BeginRunning(w)

Ending(w) ==
  \/ \E outcome \in {"succeeded", "failed"} : Publish(w, outcome) \/ PublishIllegal(w, outcome)
  \/ EndCancelled(w) \/ EndIgnored(w) \/ FailJob(w) \/ WorkerRelease(w) \/ WorkerDiscard(w)
  \/ Settle(w) \/ RetryIgnored(w) \/ RetryCancelled(w) \/ RetryDispatch(w) \/ WorkerUnlock(w)

Persisting == (\E j \in Jobs : TakeSnapshot(j)) \/ SaveSnapshot

Next ==
  \/ \E j \in Jobs : Request(j) \/ LeaseTimeout(j)
  \/ ReplayApply \/ PollMerge
  \/ SelectNothing \/ \E k \in Keys : SelectCandidate(k)
  \/ Dispatching \/ LoadFails \/ DispatchFails \/ Sweeping
  \/ \E w \in Workers : Beginning(w) \/ Heartbeat(w) \/ RuntimeFails(w) \/ Ending(w)
  \/ Persisting
  \/ \E s \in Sessions : LockTimeout(s)
  \/ Restart

Spec == Init /\ [][Next]_vars

(***************************************************************************)
(* Fairness.  The tasks of the event loop are never abandoned: the         *)
(* scheduler's step, the steps of a worker and of the persistence task are *)
(* eventually taken, and a lease or a lock that nobody renews runs out.    *)
(* A key that is eligible again and again is taken: its credit grows in    *)
(* every round.  The runtime's streams end (Ending covers the answer);     *)
(* requests, faults, premature timeouts and restarts are not fair.         *)
(***************************************************************************)
Fairness ==
  /\ \A k \in Keys : SF_vars(SelectCandidate(k))
  /\ WF_vars(Dispatching) /\ SF_vars(Sweeping)
  /\ \A w \in Workers : WF_vars(Beginning(w)) /\ WF_vars(Ending(w))
  /\ WF_vars(Persisting) /\ WF_vars(ReplayApply) /\ WF_vars(PollMerge)
  /\ \A j \in Jobs : WF_vars(~Handled(j) /\ LeaseTimeout(j))
  /\ \A s \in Sessions : WF_vars(LockTimeout(s) /\ UNCHANGED env)

FairSpec == Spec /\ Fairness

----------------------------------------------------------------------------
(* Properties *)

\* A worker is between its start of the runtime and the end of its stream.
Executing(w) == worker[w].pc \in {"running", "failing"}

(***************************************************************************)
(* Conversations.  Of the executions whose token is current, which are the *)
(* ones whose result is published, no two are of one session.              *)
(***************************************************************************)
CurrentRunsSerial ==
  \A v, w \in Workers :
    v # w /\ Executing(v) /\ Executing(w) /\ Holds(v) /\ Holds(w)
    => SessionOf[worker[v].job] # SessionOf[worker[w].job]

(***************************************************************************)
(* A job whose status is "admitted" has not entered the runtime: what      *)
(* get_job merges never hides that a worker has started the execution.     *)
(***************************************************************************)
AdmittedIsNotExecuting ==
  \A w \in Workers : Executing(w) /\ Holds(w) => jobs[worker[w].job].status # "admitted"

(***************************************************************************)
(* The session lock covers an execution from its start to its last step,   *)
(* and the job that executes is known to be running or about to be         *)
(* cancelled: nothing else can take the session or the job meanwhile, even *)
(* if the cancellation of a queued job of the same session has taken the   *)
(* session out of running_sessions.                                        *)
(***************************************************************************)
LockCoversRun ==
  \A w \in Workers : Executing(w) =>
    /\ lockOwner[SessionOf[worker[w].job]] = worker[w].job
    /\ Holds(w) /\ jobs[worker[w].job].status \in {"running", "cancel_requested"}

(***************************************************************************)
(* Admission control.  The two pending counters are exactly the number of  *)
(* jobs without an outcome, whatever mix of results, failed dispatches,    *)
(* cancellations and recoveries ended the others: capacity neither leaks   *)
(* nor is granted twice.                                                   *)
(***************************************************************************)
PendingExact ==
  /\ pendingTotal = Cardinality({j \in Jobs : jobs[j].status \in Live})
  /\ \A k \in Keys :
       pendingByUser[k] = Cardinality({j \in Jobs : KeyOf[j] = k /\ jobs[j].status \in Live})

(***************************************************************************)
(* Queues.  A queued job is in the queue of its user, and a key whose      *)
(* queue is not empty is in the rotation or in the hands of the scheduler, *)
(* which will put it back: no queued job is out of the scheduler's sight.  *)
(***************************************************************************)
QueuedIsReachable ==
  \A j \in Jobs : jobs[j].status = "queued" =>
    /\ InQueue(j)
    /\ activeKeys[KeyOf[j]] > 0 \/ (sched.pc \notin {"idle", "sweep"} /\ KeyOf[sched.job] = KeyOf[j])

(***************************************************************************)
(* Retries.  No job is attempted more than max_attempts times, although    *)
(* admission does not look at the count and a restart queues a job         *)
(* whatever its count is: the stale row takes the job out of the queue.    *)
(***************************************************************************)
AttemptsBounded == \A j \in Jobs : jobs[j].attempt <= MaxAttempts

(***************************************************************************)
(* Why: a job is given back with its token withdrawn and an attempt left,  *)
(* unless a restart queues it.  Until the scheduler has met such a revived *)
(* job nothing writes over the row that tells it was admitted, so the      *)
(* scheduler's merge takes the row and the job is not admitted.  In every  *)
(* other copy of a job, a queued job has an attempt left and no token.     *)
(***************************************************************************)
Returned(rec) == rec.attempt < MaxAttempts /\ rec.token = 0

\* Every admission counts as an attempt and takes a new fencing token.
SoundJob(rec) ==
  rec.attempt <= MaxAttempts /\ rec.fence = rec.attempt /\ (~Exists(rec) => rec.fence = 0)

SoundCopy(rec) == SoundJob(rec) /\ (rec.status = "queued" => Returned(rec))

Revived(j) == jobs[j].status = "queued" /\ ~Returned(jobs[j])

Contradicts(rec, j) == rec.status \notin {"queued", "absent"} /\ rec.fence = jobs[j].fence

RevivedIsContradicted ==
  \A j \in Jobs : Revived(j) =>
    /\ Contradicts(rows[j], j)
    /\ j \notin dirty /\ snap.job # j
    /\ sched.job = j => sched.pc \in {"load", "merge"}
    /\ sched.job = j /\ sched.pc = "merge" => Contradicts(sched.rec, j)
    /\ \A w \in Workers : worker[w].job = j => ~worker[w].beat /\ ~Exists(worker[w].obj)

CopiesSound ==
  /\ \A j \in Jobs : SoundJob(jobs[j]) /\ SoundCopy(rows[j])
  /\ SoundCopy(snap.rec) /\ SoundCopy(sched.rec) /\ SoundCopy(poll.rec) /\ SoundCopy(replay.rec)

AttemptsInv == CopiesSound /\ RevivedIsContradicted

(***************************************************************************)
(* One result.  A job that succeeded is not executed again, unless the     *)
(* process died: its outcome may not have reached the row by then, and the *)
(* restored job runs once more.                                            *)
(***************************************************************************)
SucceedsOnce == \A j \in Jobs : finals[j] <= 1 + env.crashes

(***************************************************************************)
(* Durable outcomes.  A row that holds an outcome keeps it: no delayed     *)
(* snapshot, no dispatch, no recovery and no restart writes over it.       *)
(***************************************************************************)
OutcomeIsDurable ==
  [][\A j \in Jobs : rows[j].status \in Terminal => rows'[j].status = rows[j].status]_vars

(***************************************************************************)
(* Fencing.  The fencing token of a row never decreases, in whatever order *)
(* the snapshots of the persistence task and the updates of the scheduler  *)
(* arrive.                                                                 *)
(***************************************************************************)
FenceGrows == [][\A j \in Jobs : rows[j].fence <= rows'[j].fence]_vars

(***************************************************************************)
(* While leases and the process last, the queues, locks, rows and messages *)
(* implement what JobLifecycle promises: one execution for each session,   *)
(* bounded attempts, and every change of a status a move of its table,     *)
(* those that merge a row into the local job included.                     *)
(***************************************************************************)
Lifecycle == INSTANCE JobLifecycle WITH
  status <- [j \in Jobs |-> jobs[j].status],
  attempt <- [j \in Jobs |-> jobs[j].attempt],
  executing <- {worker[w].job : w \in {v \in Workers : Executing(v)}}
ImplementsLifecycle == Lifecycle!Spec

(***************************************************************************)
(* Nobody is stranded: a job that waits to be executed is queued, or       *)
(* somebody acts for it, or a write of it is on its way, or the sweep for  *)
(* expired leases will find it.                                            *)
(***************************************************************************)
NoJobStranded ==
  \A j \in Jobs : jobs[j].status \in {"queued", "admitted"} =>
    \/ InQueue(j) \/ Handled(j) \/ sched.job = j \/ j \in dirty \/ snap.job = j
    \/ Leased(jobs[j]) /\ Leased(rows[j]) /\ rows[j].lease # "none"

\* Every accepted job gets an outcome.
EveryJobEnds == \A j \in Jobs : jobs[j].status \in Live ~> jobs[j].status \in Terminal

\* A job whose cancellation was accepted ends.
CancelSettles ==
  \A j \in Jobs : jobs[j].status = "cancel_requested" ~> jobs[j].status \in Terminal
=============================================================================
