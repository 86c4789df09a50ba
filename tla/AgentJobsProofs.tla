-------------------------- MODULE AgentJobsProofs --------------------------
(***************************************************************************)
(* Type correctness of AgentJobs, bounded retries, and that no row's       *)
(* fencing token ever decreases, for all values of the constants.  One     *)
(* lemma for each group of actions shows that a step of the group keeps    *)
(* TypeOK; the lemmas before them say what the operators return.           *)
(*                                                                         *)
(* AttemptsBounded is not inductive: AttemptsInv adds why a job that a     *)
(* restart has queued without an attempt left is never admitted.  A step   *)
(* is shown to keep it by naming the job it changes, and that it leaves    *)
(* that job sound.                                                         *)
(***************************************************************************)
EXTENDS AgentJobs, WellFoundedInduction, SequenceTheorems, FiniteSetTheorems, TLAPS

\* Every non-empty set of naturals has a least element: CHOOSE of Min is not empty.
LEMMA MinOfNaturals ==
  ASSUME NEW I, I \subseteq Nat, I # {}
  PROVE  Min(I) \in I
<1>1. PICK x \in I : \A y \in I : <<y, x>> \notin OpToRel(<, Nat)
  BY NatLessThanWellFounded, WFMin
<1>2. \A y \in I : x <= y
  <2> SUFFICES ASSUME NEW y \in I PROVE x <= y  OBVIOUS
  <2>1. <<y, x>> \in Nat \X Nat  OBVIOUS
  <2>2. ~(y < x)  BY <1>1, <2>1 DEF OpToRel
  <2> QED BY <2>2
<1> QED BY <1>2 DEF Min

\* self._queues[key].remove(job_id): removing an element from a sequence over S leaves a
\* sequence over S.
LEMMA RemoveFirstType ==
  ASSUME NEW S, NEW s \in Seq(S), NEW e
  PROVE  RemoveFirst(s, e) \in Seq(S)
<1>1. CASE ~\E i \in 1..Len(s) : s[i] = e
  BY <1>1 DEF RemoveFirst
<1>2. CASE \E i \in 1..Len(s) : s[i] = e
  <2> DEFINE I == {i \in 1..Len(s) : s[i] = e}
  <2>1. Len(s) \in Nat  BY LenProperties
  <2>2. Min(I) \in 1..Len(s)
    <3>1. I \subseteq Nat /\ I # {}  BY <1>2, <2>1
    <3> HIDE DEF I
    <3>2. Min(I) \in I  BY <3>1, MinOfNaturals
    <3> QED BY <3>2 DEF I
  <2>3. RemoveFirst(s, e) = SubSeq(s, 1, Min(I) - 1) \o SubSeq(s, Min(I) + 1, Len(s))
    BY <1>2 DEF RemoveFirst, RemoveAt, SelectInSeq
  <2> DEFINE m == Min(I)
  <2> HIDE DEF I, m
  <2>4. m \in 1..Len(s) /\ RemoveFirst(s, e) = SubSeq(s, 1, m - 1) \o SubSeq(s, m + 1, Len(s))
    BY <2>2, <2>3 DEF m
  <2>5. \A i \in 1..Len(s) : s[i] \in S  BY ElementOfSeq
  <2>6. SubSeq(s, 1, m - 1) \in Seq(S) /\ SubSeq(s, m + 1, Len(s)) \in Seq(S)
    BY <2>1, <2>4, <2>5, SubSeqProperties
  <2> QED BY <2>4, <2>6, ConcatProperties
<1> QED BY <1>1, <1>2

\* The statuses of JobRecord, by a name of their own.
Status == Live \cup Terminal \cup {"absent"}

\* Every rewriting of a job the service does (status, lease, withdrawn attempt, restored
\* row) is again a job.
LEMMA RecordTypes ==
  /\ NoJob \in JobRecord /\ NewJob \in JobRecord
  /\ \A r \in JobRecord :
       /\ Aged(r) \in JobRecord /\ Restored(r) \in JobRecord
       /\ r.attempt \in Nat /\ r.fence \in Nat /\ r.token \in Nat /\ r.status \in Status
       /\ [r EXCEPT !.lease = "live"] \in JobRecord
       /\ \A st \in Status : Withdrawn(r, st) \in JobRecord /\ [r EXCEPT !.status = st] \in JobRecord
  /\ \A a, f, t \in Nat :
       [status |-> "admitted", attempt |-> a, fence |-> f, token |-> t, lease |-> "live"] \in JobRecord
BY DEF JobRecord, NoJob, NewJob, Aged, Restored, Withdrawn, Live, Terminal, Status

\* The counters that a restart computes from the restored jobs are naturals.
LEMMA CountType ==
  ASSUME NEW S, S \subseteq Jobs
  PROVE  Cardinality(S) \in Nat
<1>1. IsFiniteSet(Jobs)  BY CountsAssumption, FS_Interval DEF Jobs
<1>2. IsFiniteSet(S)  BY <1>1, FS_Subset
<1> QED BY <1>2, FS_CardinalityType

\* A job has a queue key and a session.
LEMMA ScopeTypes == \A j \in Jobs : KeyOf[j] \in Keys /\ SessionOf[j] \in Sessions
BY ScopeAssumption

\* 0, which stands for no job, is not the number of one.
LEMMA JobNumbers == Jobs \subseteq 0..NumJobs /\ 0 \in 0..NumJobs /\ 0 \notin Jobs
BY CountsAssumption DEF Jobs

\* A copy of a row on its way (snapshot, poll, replay) stays a copy.
LEMMA CopyTypes ==
  /\ NoCopy \in Copy /\ NoCopy.job = 0
  /\ \A c \in Copy : c.job \in 0..NumJobs /\ c.rec \in JobRecord
  /\ \A c \in Copy, r \in JobRecord : [c EXCEPT !.rec = r] \in Copy
  /\ \A j \in Jobs, r \in JobRecord : [job |-> j, rec |-> r] \in Copy
BY RecordTypes, JobNumbers DEF Copy, NoCopy

\* Counting one more event of the environment keeps the counters naturals.
LEMMA CounterTypes ==
  /\ \A e \in Counters :
     /\ [e EXCEPT !.faults = @ + 1] \in Counters /\ [e EXCEPT !.expiries = @ + 1] \in Counters
     /\ [e EXCEPT !.crashes = @ + 1] \in Counters /\ [e EXCEPT !.replays = @ + 1] \in Counters
  /\ [faults |-> 0, expiries |-> 0, crashes |-> 0, replays |-> 0] \in Counters
BY DEF Counters

\* What a step may do to the place of the scheduler task without leaving its type.
LEMMA SchedulerTypes ==
  /\ IdleScheduler \in Scheduler
  /\ \A x \in Scheduler :
       /\ x.job \in 0..NumJobs /\ x.rec \in JobRecord /\ x.stale \in SUBSET Jobs
       /\ x.pc \notin {"idle", "sweep"} => x.job \in Jobs
  /\ \A x \in Scheduler, r \in JobRecord, S \in SUBSET Jobs :
       /\ [x EXCEPT !.rec = r] \in Scheduler /\ [x EXCEPT !.stale = S] \in Scheduler
       /\ [x EXCEPT !.pc = "sweep", !.stale = S] \in Scheduler
  /\ \A x \in Scheduler, p \in SchedulerPC, j \in Jobs : [x EXCEPT !.pc = p, !.job = j] \in Scheduler
  /\ \A x \in Scheduler, p \in SchedulerPC, r \in JobRecord : x.job \in Jobs =>
       [x EXCEPT !.pc = p] \in Scheduler /\ [x EXCEPT !.pc = p, !.rec = r] \in Scheduler
  /\ \A x \in Scheduler, p \in {"idle", "sweep"} :  [x EXCEPT !.job = 0, !.pc = p] \in Scheduler
<1>1. IdleScheduler \in Scheduler
  BY RecordTypes, JobNumbers DEF Scheduler, SchedulerPC, IdleScheduler
<1>2. ASSUME NEW x \in Scheduler
      PROVE  /\ x.job \in 0..NumJobs /\ x.rec \in JobRecord /\ x.stale \in SUBSET Jobs
             /\ x.pc \notin {"idle", "sweep"} => x.job \in Jobs
  BY DEF Scheduler
<1>3. ASSUME NEW x \in Scheduler, NEW r \in JobRecord, NEW S \in SUBSET Jobs
      PROVE  /\ [x EXCEPT !.rec = r] \in Scheduler /\ [x EXCEPT !.stale = S] \in Scheduler
             /\ [x EXCEPT !.pc = "sweep", !.stale = S] \in Scheduler
  BY DEF Scheduler, SchedulerPC
<1>4. ASSUME NEW x \in Scheduler, NEW p \in SchedulerPC, NEW j \in Jobs
      PROVE  [x EXCEPT !.pc = p, !.job = j] \in Scheduler
  BY JobNumbers DEF Scheduler, SchedulerPC
<1>5. ASSUME NEW x \in Scheduler, NEW p \in SchedulerPC,  NEW r \in JobRecord, x.job \in Jobs
      PROVE  [x EXCEPT !.pc = p] \in Scheduler /\ [x EXCEPT !.pc = p, !.rec = r] \in Scheduler
  BY <1>5 DEF Scheduler
<1>6. ASSUME NEW x \in Scheduler, NEW p \in {"idle", "sweep"}
      PROVE  [x EXCEPT !.job = 0, !.pc = p] \in Scheduler
  BY JobNumbers DEF Scheduler, SchedulerPC
<1> QED BY <1>1, <1>2, <1>3, <1>4, <1>5, <1>6

\* What a step may do to the place of a worker task without leaving its type.
LEMMA WorkerTypes ==
  /\ IdleWorker \in Worker
  /\ \A x \in Worker :
       /\ x.job \in 0..NumJobs /\ x.token \in Nat /\ x.obj \in JobRecord
       /\ x.pc # "idle" \/ x.beat => x.job \in Jobs
       /\ x.beat \in BOOLEAN /\ x.raised \in BOOLEAN
  /\ \A j \in Jobs, t \in Nat :
       [IdleWorker EXCEPT !.pc = "begin", !.job = j, !.token = t] \in Worker
  /\ \A x \in Worker, r \in JobRecord : [x EXCEPT !.obj = r] \in Worker
  /\ \A x \in Worker, b \in BOOLEAN : x.job \in Jobs => [x EXCEPT !.beat = b] \in Worker
  /\ \A x \in Worker, p \in WorkerPC, b \in BOOLEAN : x.job \in Jobs =>
       /\ [x EXCEPT !.pc = p] \in Worker /\ [x EXCEPT !.pc = p, !.obj = NoJob] \in Worker
       /\ [x EXCEPT !.pc = p, !.obj = NoJob, !.raised = b] \in Worker
       /\ [x EXCEPT !.pc = p, !.obj = NoJob, !.beat = b] \in Worker
       /\ [x EXCEPT !.pc = p, !.raised = b] \in Worker /\ [x EXCEPT !.pc = p, !.beat = b] \in Worker
<1>1. IdleWorker \in Worker
  BY RecordTypes, JobNumbers DEF Worker, WorkerPC, IdleWorker
<1>2. ASSUME NEW x \in Worker
      PROVE  /\ x.job \in 0..NumJobs /\ x.token \in Nat /\ x.obj \in JobRecord
             /\ x.pc # "idle" \/ x.beat => x.job \in Jobs
             /\ x.beat \in BOOLEAN /\ x.raised \in BOOLEAN
  BY DEF Worker
<1>3. ASSUME NEW j \in Jobs, NEW t \in Nat
      PROVE  [IdleWorker EXCEPT !.pc = "begin", !.job = j, !.token = t] \in Worker
  BY RecordTypes, JobNumbers DEF Worker, WorkerPC, IdleWorker
<1>4. /\ \A x \in Worker, r \in JobRecord : [x EXCEPT !.obj = r] \in Worker
      /\ \A x \in Worker, b \in BOOLEAN : x.job \in Jobs => [x EXCEPT !.beat = b] \in Worker
  BY DEF Worker
<1>5. ASSUME NEW x \in Worker, NEW p \in WorkerPC, NEW b \in BOOLEAN, x.job \in Jobs
      PROVE  /\ [x EXCEPT !.pc = p] \in Worker /\ [x EXCEPT !.pc = p, !.obj = NoJob] \in Worker
             /\ [x EXCEPT !.pc = p, !.obj = NoJob, !.raised = b] \in Worker
             /\ [x EXCEPT !.pc = p, !.obj = NoJob, !.beat = b] \in Worker
             /\ [x EXCEPT !.pc = p, !.raised = b] \in Worker /\ [x EXCEPT !.pc = p, !.beat = b] \in Worker
  BY <1>5, RecordTypes DEF Worker
<1> QED BY <1>1, <1>2, <1>3, <1>4, <1>5

\* The service starts in a state of the right type.
LEMMA InitType == Init => TypeOK
<1> SUFFICES ASSUME Init PROVE TypeOK  OBVIOUS
<1>1. jobs \in [Jobs -> JobRecord] /\ rows \in [Jobs -> JobRecord]  BY RecordTypes DEF Init
<1>2. queues \in [Keys -> Seq(Jobs)] /\ stream \in Seq(Message)  BY EmptySeq DEF Init
<1>3. lockOwner \in [Sessions -> 0..NumJobs]  BY JobNumbers DEF Init
<1>4. sched \in Scheduler /\ worker \in [Workers -> Worker]  BY SchedulerTypes, WorkerTypes DEF Init
<1>5. snap \in Copy /\ poll \in Copy /\ replay \in Copy /\ env \in Counters
  BY CopyTypes, CounterTypes DEF Init
<1> QED BY <1>1, <1>2, <1>3, <1>4, <1>5 DEF Init, TypeOK

\* The type of self._queues, by a name of its own.
Queues == [Keys -> Seq(Jobs)]

\* The changes of a queue (append, put back at the head, remove, pop) keep it a queue of
\* jobs.
LEMMA QueueTypes ==
  ASSUME NEW q \in Queues, NEW k \in Keys, NEW j \in Jobs
  PROVE  /\ q[k] \in Seq(Jobs)
         /\ [q EXCEPT ![k] = Append(@, j)] \in Queues
         /\ [q EXCEPT ![k] = <<j>> \o @] \in Queues
         /\ [q EXCEPT ![k] = RemoveFirst(@, j)] \in Queues
         /\ q[k] # <<>> => Head(q[k]) \in Jobs /\ [q EXCEPT ![k] = Tail(@)] \in Queues
<1>1. q[k] \in Seq(Jobs)  BY DEF Queues
<1>2. Append(q[k], j) \in Seq(Jobs) /\ <<j>> \o q[k] \in Seq(Jobs)  BY <1>1
<1>3. RemoveFirst(q[k], j) \in Seq(Jobs)  BY <1>1, RemoveFirstType
<1>4. q[k] # <<>> => Head(q[k]) \in Jobs /\ Tail(q[k]) \in Seq(Jobs)  BY <1>1, HeadTailProperties
<1> QED BY <1>1, <1>2, <1>3, <1>4 DEF Queues

\* Putting a key into the rotation keeps the rotation a multiset of keys.
LEMMA RotationType ==
  ASSUME TypeOK, NEW k \in Keys, Activate(k) \/ Reappend(k)
  PROVE  activeKeys' \in [Keys -> Nat] /\ activeKeySet' \in SUBSET Keys
<1>1. activeKeys \in [Keys -> Nat] /\ activeKeySet \in SUBSET Keys  BY DEF TypeOK
<1>2. [activeKeys EXCEPT ![k] = @ + 1] \in [Keys -> Nat]  BY <1>1
<1> QED BY <1>1, <1>2 DEF Activate, Reappend

\* A job that is put back at the head of its queue leaves the queues well formed.
LEMMA RequeueType ==
  ASSUME TypeOK, NEW j \in Jobs, Requeue(j)
  PROVE  queues' \in Queues /\ activeKeys' \in [Keys -> Nat] /\ activeKeySet' \in SUBSET Keys
<1>1. KeyOf[j] \in Keys /\ queues \in Queues  BY ScopeTypes DEF TypeOK, Queues
<1>2. queues' \in Queues
  <2>1. CASE InQueue(j)  BY <1>1, <2>1 DEF Requeue, Queues
  <2>2. CASE ~InQueue(j)  BY <1>1, <2>2, QueueTypes DEF Requeue
  <2> QED BY <2>1, <2>2
<1> QED BY <1>1, <1>2, RotationType DEF Requeue

\* _decrement_pending never makes a counter negative.
LEMMA DecrementType ==
  ASSUME TypeOK, NEW j \in Jobs, DecrementPending(j)
  PROVE  pendingTotal' \in Nat /\ pendingByUser' \in [Keys -> Nat]
<1>1. pendingTotal \in Nat /\ pendingByUser \in [Keys -> Nat] /\ KeyOf[j] \in Keys
  BY ScopeTypes DEF TypeOK
<1> QED BY <1>1 DEF DecrementPending

\* Putting another object in the place of a job keeps jobs and workers well formed.
LEMMA ReplaceType ==
  ASSUME TypeOK, NEW j \in Jobs, NEW rec \in JobRecord, Replace(j, rec) \/ Merge(j, rec)
  PROVE  jobs' \in [Jobs -> JobRecord] /\ worker' \in [Workers -> Worker]
<1>1. CASE UNCHANGED <<jobs, worker>>  BY <1>1 DEF TypeOK
<1>2. CASE Replace(j, rec)
  <2>1. jobs' \in [Jobs -> JobRecord]  BY <1>2 DEF Replace, TypeOK
  <2>2. jobs[j] \in JobRecord /\ worker \in [Workers -> Worker]  BY DEF TypeOK
  <2>3. \A w \in Workers : [worker[w] EXCEPT !.obj = jobs[j]] \in Worker  BY <2>2, WorkerTypes
  <2>4. worker' \in [Workers -> Worker]  BY <1>2, <2>2, <2>3 DEF Replace
  <2> QED BY <2>1, <2>4
<1> QED BY <1>1, <1>2 DEF Merge

\* A transition, or a withdrawn attempt, keeps the job well formed.
LEMMA StatusType ==
  ASSUME TypeOK, NEW j \in Jobs, NEW st \in Status
  PROVE  /\ [jobs EXCEPT ![j].status = st] \in [Jobs -> JobRecord]
         /\ [jobs EXCEPT ![j] = Withdrawn(@, st)] \in [Jobs -> JobRecord]
         /\ jobs[j] \in JobRecord /\ rows[j] \in JobRecord
<1>1. jobs \in [Jobs -> JobRecord] /\ rows \in [Jobs -> JobRecord]  BY DEF TypeOK
<1>2. [jobs[j] EXCEPT !.status = st] \in JobRecord /\ Withdrawn(jobs[j], st) \in JobRecord
  BY <1>1, RecordTypes
<1> QED BY <1>1, <1>2

\* Releasing a session lock leaves it free or owned by a job.
LEMMA ReleaseType ==
  ASSUME TypeOK, NEW j \in Jobs, ReleaseSession(j)
  PROVE  lockOwner' \in [Sessions -> 0..NumJobs]
BY JobNumbers DEF TypeOK, ReleaseSession

\* Asking for a snapshot of a job changes neither the snapshot being saved nor a row.
LEMMA PersistType ==
  ASSUME TypeOK, NEW j \in Jobs, PersistJob(j)
  PROVE  dirty' \in SUBSET Jobs /\ snap' \in Copy /\ rows' \in [Jobs -> JobRecord]
BY DEF TypeOK, PersistJob

\* _mark_cancelled keeps the types of everything it changes.
LEMMA MarkCancelledType ==
  ASSUME TypeOK, NEW j \in Jobs, MarkCancelled(j)
  PROVE  /\ jobs' \in [Jobs -> JobRecord] /\ rows' \in [Jobs -> JobRecord]
         /\ runningSessions' \in SUBSET Sessions
         /\ pendingTotal' \in Nat /\ pendingByUser' \in [Keys -> Nat]
         /\ dirty' \in SUBSET Jobs /\ snap' \in Copy
<1>1. "cancelled" \in Status  BY DEF Status, Terminal
<1>2. jobs' \in [Jobs -> JobRecord]  BY <1>1, StatusType DEF MarkCancelled, Finished
<1>3. runningSessions' \in SUBSET Sessions  BY DEF MarkCancelled, LeaveSession, TypeOK
<1> QED BY <1>2, <1>3, DecrementType, PersistType DEF MarkCancelled

\* create_job, get_job and cancel_job keep the types.
LEMMA RequestTypes ==
  ASSUME TypeOK, NEW j \in Jobs, Request(j)
  PROVE  TypeOK'
<1> USE DEF queueVars, pendingVars, storeVars, brokerVars, readVars, countVars
<1>0. KeyOf[j] \in Keys /\ queues \in Queues /\ rows[j] \in JobRecord
  BY ScopeTypes DEF TypeOK, Queues
<1>1. CASE CreateJob(j)
  <2>1. queues' \in Queues  BY <1>0, <1>1, QueueTypes DEF CreateJob
  <2>2. activeKeys' \in [Keys -> Nat] /\ activeKeySet' \in SUBSET Keys
    BY <1>0, <1>1, RotationType DEF CreateJob
  <2>3. jobs' \in [Jobs -> JobRecord] /\ rows' \in [Jobs -> JobRecord]
    BY <1>1, RecordTypes DEF TypeOK, CreateJob
  <2>4. pendingTotal' \in Nat /\ pendingByUser' \in [Keys -> Nat]
    BY <1>0, <1>1 DEF TypeOK, CreateJob
  <2> QED BY <1>1, <2>1, <2>2, <2>3, <2>4 DEF TypeOK, CreateJob, Queues
<1>2. CASE ReplayRead(j)
  <2>1. replay' \in Copy /\ env' \in Counters
    BY <1>0, <1>2, CopyTypes, CounterTypes DEF TypeOK, ReplayRead
  <2> QED BY <1>2, <2>1 DEF TypeOK, ReplayRead
<1>3. CASE PollRead(j)
  <2>1. poll' \in Copy  BY <1>0, <1>3, CopyTypes DEF PollRead
  <2> QED BY <1>3, <2>1 DEF TypeOK, PollRead
<1>4. CASE CancelQueued(j)
  <2>1. queues' \in Queues  BY <1>0, <1>4, QueueTypes DEF CancelQueued
  <2> QED BY <1>4, <2>1, MarkCancelledType, ReleaseType DEF TypeOK, CancelQueued, Queues
<1>5. CASE CancelActive(j)
  <2>1. "cancel_requested" \in Status  BY DEF Status, Live
  <2>2. jobs' \in [Jobs -> JobRecord]  BY <1>5, <2>1, StatusType DEF CancelActive
  <2> QED BY <1>5, <2>2, PersistType DEF TypeOK, CancelActive
<1> QED BY <1>1, <1>2, <1>3, <1>4, <1>5 DEF Request

\* The statuses a job is moved to are statuses.
LEMMA StatusNames ==
  {"queued", "admitted", "running", "cancel_requested", "succeeded", "failed", "cancelled"}
    \subseteq Status
BY DEF Status, Live, Terminal

\* _select_next_candidate keeps the types.
LEMMA SelectTypes ==
  ASSUME TypeOK, SelectNothing \/ \E k \in Keys : SelectCandidate(k)
  PROVE  TypeOK'
<1> USE DEF queueVars, pendingVars, storeVars, brokerVars, readVars, countVars
<1>0. queues \in Queues /\ activeKeys \in [Keys -> Nat] /\ sched \in Scheduler
  BY DEF TypeOK, Queues
<1>1. CASE SelectNothing
  <2>1. activeKeys' \in [Keys -> Nat]  BY <1>0, <1>1 DEF SelectNothing
  <2> QED BY <1>1, <2>1 DEF TypeOK, SelectNothing
<1>2. ASSUME NEW k \in Keys, SelectCandidate(k) PROVE TypeOK'
  <2>1. Head(queues[k]) \in Jobs
    BY <1>0, <1>2, HeadTailProperties DEF SelectCandidate, Eligible, Queues
  <2>2. sched' \in Scheduler
    BY <1>0, <1>2, <2>1, SchedulerTypes DEF SelectCandidate, SchedulerPC
  <2>3. activeKeys' \in [Keys -> Nat]
    <3>1. PICK met \in SUBSET IdleKeys :
            activeKeys' = [x \in Keys |-> IF x \in met \cup {k} THEN activeKeys[x] - 1 ELSE activeKeys[x]]
      BY <1>2 DEF SelectCandidate
    <3>2. \A x \in met \cup {k} : activeKeys[x] > 0
      BY <1>2 DEF SelectCandidate, Eligible, IdleKeys
    <3> QED BY <1>0, <3>1, <3>2
  <2>4. activeKeySet' \in SUBSET Keys  BY <1>2 DEF SelectCandidate, TypeOK
  <2> QED BY <1>2, <2>2, <2>3, <2>4 DEF TypeOK, SelectCandidate
<1> QED BY <1>1, <1>2

\* Each step of _schedule_once keeps the types, its failure handler included.
LEMMA DispatchingTypes ==
  ASSUME TypeOK, Dispatching \/ LoadFails \/ DispatchFails
  PROVE  TypeOK'
<1> USE DEF queueVars, pendingVars, storeVars, brokerVars, readVars, countVars
<1> DEFINE j == sched.job
<1>0. /\ queues \in Queues /\ sched \in Scheduler /\ env \in Counters
      /\ rows \in [Jobs -> JobRecord] /\ jobs \in [Jobs -> JobRecord]
      /\ sched.pc \notin {"idle", "sweep"} => j \in Jobs /\ KeyOf[j] \in Keys /\ SessionOf[j] \in Sessions
      /\ sched.rec \in JobRecord /\ IdleScheduler \in Scheduler
  BY ScopeTypes, SchedulerTypes DEF TypeOK, Queues
<1>a. ASSUME NEW p \in SchedulerPC, sched.pc \notin {"idle", "sweep"}, SchedulerAt(p)
      PROVE  sched' \in Scheduler
  BY <1>0, <1>a, SchedulerTypes DEF SchedulerAt
<1>b. {"merge", "acquire", "reappend", "admit", "stage", "enqueue", "mark", "failed", "finish",
       "unlock"} \subseteq SchedulerPC
  BY DEF SchedulerPC
<1>1. CASE LoadLatest
  <2>1. sched' \in Scheduler  BY <1>0, <1>1, <1>b, SchedulerTypes DEF LoadLatest
  <2> QED BY <1>1, <2>1 DEF TypeOK, LoadLatest
<1>2. CASE MergeLatest
  <2>0. j \in Jobs /\ KeyOf[j] \in Keys  BY <1>0, <1>2 DEF MergeLatest
  <2>1. jobs' \in [Jobs -> JobRecord] /\ worker' \in [Workers -> Worker]
    BY <1>0, <1>2, <2>0, ReplaceType DEF MergeLatest
  <2>2. CASE jobs'[j].status = "queued"
    <3>1. sched' \in Scheduler
      <4>1. sched' = [sched EXCEPT !.pc = "acquire", !.rec = NoJob]
        BY <1>2, <2>2 DEF MergeLatest
      <4>2. NoJob \in JobRecord  BY RecordTypes
      <4> QED BY <1>0, <1>b, <2>0, <4>1, <4>2, SchedulerTypes
    <3> QED BY <1>2, <2>1, <2>2, <3>1 DEF TypeOK, MergeLatest
  <2>3. CASE jobs'[j].status # "queued"
    <3>1. queues' \in Queues
      <4>1. CASE AtHead(j)
        BY <1>0, <1>2, <2>0, <2>3, <4>1, QueueTypes DEF MergeLatest, AtHead
      <4>2. CASE ~AtHead(j)
        BY <1>0, <1>2, <2>0, <2>3, <4>2 DEF MergeLatest, Queues
      <4> QED BY <4>1, <4>2
    <3>2. activeKeys' \in [Keys -> Nat] /\ activeKeySet' \in SUBSET Keys
      <4>1. CASE queues'[KeyOf[j]] # <<>>
        BY <1>2, <2>0, <2>3, <4>1, RotationType DEF MergeLatest
      <4>2. CASE queues'[KeyOf[j]] = <<>>
        BY <1>2, <2>3, <4>2 DEF MergeLatest, TypeOK
      <4> QED BY <4>1, <4>2
    <3>3. sched' \in Scheduler  BY <1>0, <1>2, <2>3 DEF MergeLatest
    <3> QED BY <1>2, <2>1, <3>1, <3>2, <3>3 DEF TypeOK, MergeLatest, Queues
  <2> QED BY <2>2, <2>3
<1>3. CASE AcquireSession
  <2>1. sched' \in Scheduler  BY <1>0, <1>3, <1>a, <1>b DEF AcquireSession
  <2>2. lockOwner' \in [Sessions -> 0..NumJobs]
    BY <1>0, <1>3, JobNumbers DEF TypeOK, AcquireSession
  <2> QED BY <1>3, <2>1, <2>2 DEF TypeOK, AcquireSession
<1>4. CASE SessionBusy
  <2>1. activeKeys' \in [Keys -> Nat] /\ activeKeySet' \in SUBSET Keys
    BY <1>0, <1>4, RotationType DEF SessionBusy
  <2>2. sched' \in Scheduler  BY <1>0, <1>4 DEF SessionBusy
  <2> QED BY <1>4, <2>1, <2>2 DEF TypeOK, SessionBusy
<1>5. CASE AdmitJob
  <2>0. j \in Jobs /\ KeyOf[j] \in Keys /\ tokens[j] \in Nat /\ jobs[j] \in JobRecord
    BY <1>0, <1>5 DEF AdmitJob, TypeOK
  <2> DEFINE admitted == [status |-> "admitted", attempt |-> jobs[j].attempt + 1,
                          fence |-> jobs[j].fence + 1, token |-> tokens[j] + 1, lease |-> "live"]
  <2>1. admitted \in JobRecord
    <3>1. jobs[j].attempt \in Nat /\ jobs[j].fence \in Nat  BY <2>0, RecordTypes
    <3>2. jobs[j].attempt + 1 \in Nat /\ jobs[j].fence + 1 \in Nat /\ tokens[j] + 1 \in Nat
      BY <2>0, <3>1
    <3> QED BY <3>2, RecordTypes
  <2>2. /\ jobs' = [jobs EXCEPT ![j] = admitted]
        /\ sched' = [sched EXCEPT !.pc = "stage", !.rec = admitted]
    BY <1>5 DEF AdmitJob
  <2> HIDE DEF admitted
  <2>3. jobs' \in [Jobs -> JobRecord]  BY <1>0, <2>1, <2>2
  <2>4. sched' \in Scheduler  BY <1>0, <1>b, <2>0, <2>1, <2>2, SchedulerTypes
  <2>5. queues' \in Queues
    BY <1>0, <1>5, <2>0, QueueTypes DEF AdmitJob, Admissible, AtHead
  <2>6. runningSessions' \in SUBSET Sessions /\ tokens' \in [Jobs -> Nat]
    BY <1>0, <1>5, <2>0 DEF AdmitJob, TypeOK
  <2> QED BY <1>5, <2>3, <2>4, <2>5, <2>6 DEF TypeOK, AdmitJob, Queues
<1>6. CASE AdmissionLost
  <2>1. activeKeys' \in [Keys -> Nat] /\ activeKeySet' \in SUBSET Keys
    BY <1>0, <1>6, RotationType DEF AdmissionLost
  <2>2. sched' \in Scheduler  BY <1>6, <1>a, <1>b DEF AdmissionLost
  <2> QED BY <1>6, <2>1, <2>2 DEF TypeOK, AdmissionLost
<1>7. CASE StageDispatch
  <2>1. sched' \in Scheduler  BY <1>7, <1>a, <1>b DEF StageDispatch
  <2>2. rows' \in [Jobs -> JobRecord]  BY <1>0, <1>7 DEF StageDispatch
  <2> QED BY <1>7, <2>1, <2>2 DEF TypeOK, StageDispatch
<1>8. CASE EnqueueDispatch
  <2>1. sched' \in Scheduler  BY <1>8, <1>a, <1>b DEF EnqueueDispatch
  <2>2. [job |-> sched.job, token |-> sched.rec.token] \in Message
    BY <1>0, <1>8, RecordTypes DEF Message, EnqueueDispatch
  <2>3. stream' \in Seq(Message)  BY <1>8, <2>2 DEF TypeOK, EnqueueDispatch
  <2> QED BY <1>8, <2>1, <2>3 DEF TypeOK, EnqueueDispatch
<1>9. CASE MarkDispatchSent
  <2>1. sched' \in Scheduler  BY <1>9, <1>a, <1>b DEF MarkDispatchSent
  <2> QED BY <1>9, <2>1 DEF TypeOK, MarkDispatchSent
<1>10. CASE HandleDispatchFailure
  <2>0. j \in Jobs /\ KeyOf[j] \in Keys  BY <1>0, <1>10 DEF HandleDispatchFailure
  <2> DEFINE exhausted == jobs[j].attempt >= MaxAttempts
             target == IF exhausted THEN "failed" ELSE "queued"
             legal == CanMove(jobs[j].status, target)
  <2>1. jobs' \in [Jobs -> JobRecord]
    <3>1. (IF legal THEN target ELSE jobs[j].status) \in Status
      BY <1>0, <2>0, StatusNames, RecordTypes
    <3>2. jobs' = [jobs EXCEPT ![j] = Withdrawn(@, IF legal THEN target ELSE @.status)]
      BY <1>10 DEF HandleDispatchFailure
    <3> HIDE DEF legal, target
    <3>3. jobs' = [jobs EXCEPT ![j] = Withdrawn(@, IF legal THEN target ELSE jobs[j].status)]
      BY <3>2
    <3> QED BY <2>0, <3>1, <3>3, StatusType
  <2>2. runningSessions' \in SUBSET Sessions
    BY <1>10 DEF HandleDispatchFailure, LeaveSession, TypeOK
  <2>3. /\ queues' \in Queues
        /\ activeKeys' \in [Keys -> Nat] /\ activeKeySet' \in SUBSET Keys
    <3>1. CASE exhausted  BY <1>10, <3>1 DEF HandleDispatchFailure, TypeOK, Queues
    <3>2. CASE ~exhausted
      <4>1. queues' = [queues EXCEPT ![KeyOf[j]] = <<j>> \o @] /\ Activate(KeyOf[j])
        BY <1>10, <3>2 DEF HandleDispatchFailure
      <4>2. queues' \in Queues  BY <1>0, <2>0, <4>1, QueueTypes
      <4> QED BY <2>0, <4>1, <4>2, RotationType
    <3> QED BY <3>1, <3>2
  <2>4. pendingTotal' \in Nat /\ pendingByUser' \in [Keys -> Nat]
    <3>1. CASE exhausted /\ legal
      BY <1>10, <2>0, <3>1, DecrementType DEF HandleDispatchFailure
    <3>2. CASE ~(exhausted /\ legal)
      BY <1>10, <3>2 DEF HandleDispatchFailure, TypeOK
    <3> QED BY <3>1, <3>2
  <2>5. /\ sched' \in Scheduler
        /\ dirty' \in SUBSET Jobs /\ snap' \in Copy /\ rows' \in [Jobs -> JobRecord]
    <3>1. CASE legal
      <4>1. PersistJob(j) /\ SchedulerAt("unlock")  BY <1>10, <3>1 DEF HandleDispatchFailure
      <4> QED BY <1>10, <1>a, <1>b, <2>0, <4>1, PersistType DEF HandleDispatchFailure
    <3>2. CASE ~legal
      <4>1. UNCHANGED storeVars /\ sched' = IdleScheduler
        BY <1>10, <3>2 DEF HandleDispatchFailure
      <4> QED BY <1>0, <4>1 DEF TypeOK
    <3> QED BY <3>1, <3>2
  <2> HIDE DEF exhausted, target, legal
  <2> QED BY <1>10, <2>1, <2>2, <2>3, <2>4, <2>5 DEF TypeOK, HandleDispatchFailure, Queues
<1>11. CASE FinishDispatch
  <2>1. activeKeys' \in [Keys -> Nat] /\ activeKeySet' \in SUBSET Keys
    <3>1. CASE queues[KeyOf[j]] # <<>>
      BY <1>0, <1>11, <3>1, RotationType DEF FinishDispatch
    <3>2. CASE queues[KeyOf[j]] = <<>>
      BY <1>11, <3>2 DEF FinishDispatch, TypeOK
    <3> QED BY <3>1, <3>2
  <2>2. sched' \in Scheduler  BY <1>0, <1>11 DEF FinishDispatch
  <2> QED BY <1>11, <2>1, <2>2 DEF TypeOK, FinishDispatch
<1>12. CASE SchedulerUnlock
  <2>1. sched' \in Scheduler  BY <1>0, <1>12 DEF SchedulerUnlock
  <2>2. lockOwner' \in [Sessions -> 0..NumJobs]  BY <1>0, <1>12, ReleaseType DEF SchedulerUnlock
  <2> QED BY <1>12, <2>1, <2>2 DEF TypeOK, SchedulerUnlock
<1>13. CASE LoadFails
  <2>1. sched' \in Scheduler /\ env' \in Counters
    BY <1>0, <1>13, CounterTypes DEF LoadFails, Fault
  <2> QED BY <1>13, <2>1 DEF TypeOK, LoadFails, Fault
<1>14. CASE DispatchFails
  <2>1. sched' \in Scheduler /\ env' \in Counters
    BY <1>0, <1>14, <1>a, <1>b, CounterTypes DEF DispatchFails, Fault
  <2> QED BY <1>14, <2>1 DEF TypeOK, DispatchFails, Fault
<1> QED BY <1>1, <1>2, <1>3, <1>4, <1>5, <1>6, <1>7, <1>8, <1>9, <1>10, <1>11, <1>12, <1>13, <1>14
        DEF Dispatching

\* The sweep, one job further, is at a place of the scheduler.
LEMMA SweptType ==
  ASSUME TypeOK, NEW j \in Jobs
  PROVE  SweptFrom(j) \in Scheduler
<1>1. sched \in Scheduler /\ sched.stale \ {j} \in SUBSET Jobs
  BY SchedulerTypes DEF TypeOK
<1>2. IdleScheduler \in Scheduler /\ [sched EXCEPT !.stale = sched.stale \ {j}] \in Scheduler
  BY <1>1, SchedulerTypes
<1> QED BY <1>2 DEF SweptFrom

\* _recover_stalled_jobs keeps the types.
LEMMA SweepingTypes ==
  ASSUME TypeOK, Sweeping
  PROVE  TypeOK'
<1> USE DEF queueVars, pendingVars, storeVars, brokerVars, readVars, countVars
<1>0. /\ sched \in Scheduler /\ rows \in [Jobs -> JobRecord] /\ jobs \in [Jobs -> JobRecord]
      /\ sched.pc \notin {"idle", "sweep"} => sched.job \in Jobs
  BY SchedulerTypes DEF TypeOK
<1>a. ASSUME NEW j \in Jobs, LeaveSession(j) PROVE runningSessions' \in SUBSET Sessions
  BY <1>a DEF LeaveSession, TypeOK
<1>1. CASE LoadStale
  <2>1. sched' \in Scheduler  BY <1>0, <1>1, SchedulerTypes DEF LoadStale
  <2> QED BY <1>1, <2>1 DEF TypeOK, LoadStale
<1>2. ASSUME NEW j \in Jobs, SkipStalled(j) PROVE TypeOK'
  <2>1. sched' \in Scheduler  BY <1>2, SweptType DEF SkipStalled
  <2> QED BY <1>2, <2>1 DEF TypeOK, SkipStalled
<1>3. ASSUME NEW j \in Jobs, FailStalled(j) PROVE TypeOK'
  <2>1. jobs' \in [Jobs -> JobRecord]
    BY <1>3, StatusNames, StatusType DEF FailStalled
  <2>2. runningSessions' \in SUBSET Sessions /\ sched' \in Scheduler
    BY <1>3, <1>a, SweptType DEF FailStalled
  <2>3. pendingTotal' \in Nat /\ pendingByUser' \in [Keys -> Nat]
    BY <1>3, DecrementType DEF FailStalled
  <2>4. dirty' \in SUBSET Jobs /\ snap' \in Copy /\ rows' \in [Jobs -> JobRecord]
    BY <1>3, PersistType DEF FailStalled
  <2> QED BY <1>3, <2>1, <2>2, <2>3, <2>4 DEF TypeOK, FailStalled
<1>4. ASSUME NEW j \in Jobs, RequeueStalled(j) PROVE TypeOK'
  <2>1. jobs' \in [Jobs -> JobRecord]
    BY <1>4, StatusNames, StatusType DEF RequeueStalled
  <2>2. runningSessions' \in SUBSET Sessions  BY <1>4, <1>a DEF RequeueStalled
  <2>3. sched' \in Scheduler
    <3>1. sched' = [sched EXCEPT !.pc = "sweepunlock", !.job = j]  BY <1>4 DEF RequeueStalled
    <3>2. "sweepunlock" \in SchedulerPC  BY DEF SchedulerPC
    <3> QED BY <1>0, <3>1, <3>2, SchedulerTypes
  <2>4. queues' \in Queues /\ activeKeys' \in [Keys -> Nat] /\ activeKeySet' \in SUBSET Keys
    BY <1>4, RequeueType DEF RequeueStalled
  <2>5. dirty' \in SUBSET Jobs /\ snap' \in Copy /\ rows' \in [Jobs -> JobRecord]
    BY <1>4, PersistType DEF RequeueStalled
  <2> QED BY <1>4, <2>1, <2>2, <2>3, <2>4, <2>5 DEF TypeOK, RequeueStalled, Queues
<1>5. CASE SweepUnlock
  <2> DEFINE p == IF sched.stale = {sched.job} THEN "idle" ELSE "sweep"
  <2>1. sched.job \in Jobs  BY <1>0, <1>5 DEF SweepUnlock
  <2>2. sched' = [SweptFrom(sched.job) EXCEPT !.job = 0, !.pc = p]  BY <1>5 DEF SweepUnlock
  <2>3. p \in {"idle", "sweep"}  OBVIOUS
  <2> HIDE DEF p
  <2>4. sched' \in Scheduler  BY <2>1, <2>2, <2>3, SweptType, SchedulerTypes
  <2>5. lockOwner' \in [Sessions -> 0..NumJobs]  BY <1>5, <2>1, ReleaseType DEF SweepUnlock
  <2> QED BY <1>5, <2>4, <2>5 DEF TypeOK, SweepUnlock
<1> QED BY <1>1, <1>2, <1>3, <1>4, <1>5 DEF Sweeping

\* One worker that moves to a place of its type leaves all workers well formed.
LEMMA WorkerType ==
  ASSUME TypeOK, NEW w \in Workers, NEW x \in Worker, worker' = [worker EXCEPT ![w] = x]
  PROVE  worker' \in [Workers -> Worker]
BY DEF TypeOK

\* The places the worker steps name are places.
LEMMA WorkerPCs ==
  {"idle", "begin", "running", "failing", "release", "discard", "settle", "retry", "unlock"}
    \subseteq WorkerPC
BY DEF WorkerPC

\* A worker that is not idle is busy with a job.
LEMMA BusyWorker ==
  ASSUME TypeOK, NEW w \in Workers, worker[w].pc # "idle"
  PROVE  /\ worker[w] \in Worker /\ worker[w].job \in Jobs
         /\ jobs[worker[w].job] \in JobRecord
         /\ \A p \in WorkerPC : WorkerAt(w, p) => worker' \in [Workers -> Worker]
<1>1. worker[w] \in Worker /\ worker[w].job \in Jobs  BY WorkerTypes DEF TypeOK
<1>2. ASSUME NEW p \in WorkerPC, WorkerAt(w, p) PROVE worker' \in [Workers -> Worker]
  <2>1. [worker[w] EXCEPT !.pc = p] \in Worker  BY <1>1, WorkerTypes
  <2>2. worker' = [worker EXCEPT ![w] = [worker[w] EXCEPT !.pc = p]]  BY <1>2 DEF WorkerAt, TypeOK
  <2> QED BY <2>1, <2>2, WorkerType
<1>3. jobs[worker[w].job] \in JobRecord  BY <1>1 DEF TypeOK
<1> QED BY <1>1, <1>2, <1>3

\* Taking a message, beginning its job, the heartbeat and a failing runtime keep the
\* types.
LEMMA BeginningTypes ==
  ASSUME TypeOK, NEW w \in Workers, Beginning(w) \/ Heartbeat(w) \/ RuntimeFails(w)
  PROVE  TypeOK'
<1> USE DEF queueVars, pendingVars, storeVars, brokerVars, readVars, countVars
<1> DEFINE j == worker[w].job
<1>0. /\ worker \in [Workers -> Worker] /\ worker[w] \in Worker
      /\ rows \in [Jobs -> JobRecord] /\ jobs \in [Jobs -> JobRecord]
  BY DEF TypeOK
<1>a. ASSUME worker[w].pc # "idle" PROVE j \in Jobs  BY <1>a, BusyWorker
<1>1. CASE TakeMessage(w)
  <2>1. Head(stream) \in Message /\ stream' \in Seq(Message)
    BY <1>1, HeadTailProperties DEF TakeMessage, TypeOK
  <2>2. Head(stream).job \in Jobs /\ Head(stream).token \in Nat  BY <2>1 DEF Message
  <2> DEFINE m == Head(stream)
  <2>3. jobs' \in [Jobs -> JobRecord]  BY <1>0, <1>1, <2>2 DEF TakeMessage
  <2>4. worker' \in [Workers -> Worker]
    <3>1. [IdleWorker EXCEPT !.pc = "begin", !.job = m.job, !.token = m.token] \in Worker
      BY <2>2, WorkerTypes
    <3> QED BY <1>1, <3>1, WorkerType DEF TakeMessage
  <2> QED BY <1>1, <2>1, <2>3, <2>4 DEF TypeOK, TakeMessage
<1>2. CASE BeginIgnored(w)
  <2>1. [worker[w] EXCEPT !.pc = "settle", !.obj = NoJob] \in Worker
    BY <1>0, <1>2, <1>a, WorkerPCs, WorkerTypes DEF BeginIgnored, CanBegin
  <2>2. worker' \in [Workers -> Worker]  BY <1>0, <1>2, <2>1 DEF BeginIgnored
  <2> QED BY <1>2, <2>2 DEF TypeOK, BeginIgnored
<1>3. CASE BeginCancelled(w)
  <2>0. j \in Jobs  BY <1>3, <1>a DEF BeginCancelled, CanStart, CanBegin
  <2>1. [worker[w] EXCEPT !.pc = "release", !.obj = NoJob] \in Worker
    BY <1>0, <2>0, WorkerPCs, WorkerTypes
  <2>2. worker' \in [Workers -> Worker]  BY <1>0, <1>3, <2>1 DEF BeginCancelled
  <2>3. jobs' \in [Jobs -> JobRecord]
    BY <1>0, <1>3, <2>0, StatusNames, StatusType DEF BeginCancelled, Finished
  <2>4. runningSessions' \in SUBSET Sessions  BY <1>3 DEF BeginCancelled, LeaveSession, TypeOK
  <2>5. pendingTotal' \in Nat /\ pendingByUser' \in [Keys -> Nat]
    BY <1>3, <2>0, DecrementType DEF BeginCancelled
  <2>6. dirty' \in SUBSET Jobs /\ snap' \in Copy /\ rows' \in [Jobs -> JobRecord]
    BY <1>3, <2>0, PersistType DEF BeginCancelled
  <2> QED BY <1>3, <2>2, <2>3, <2>4, <2>5, <2>6 DEF TypeOK, BeginCancelled
<1>4. CASE BeginIllegal(w)
  <2>1. [worker[w] EXCEPT !.pc = "retry", !.obj = NoJob, !.raised = TRUE] \in Worker
    BY <1>0, <1>4, <1>a, WorkerPCs, WorkerTypes DEF BeginIllegal, CanStart, CanBegin
  <2>2. worker' \in [Workers -> Worker]  BY <1>0, <1>4, <2>1 DEF BeginIllegal
  <2> QED BY <1>4, <2>2 DEF TypeOK, BeginIllegal
<1>5. CASE BeginRunning(w)
  <2>0. j \in Jobs  BY <1>5, <1>a DEF BeginRunning, CanStart, CanBegin
  <2>1. [worker[w] EXCEPT !.pc = "running", !.obj = NoJob, !.beat = TRUE] \in Worker
    BY <1>0, <2>0, WorkerPCs, WorkerTypes
  <2>2. worker' \in [Workers -> Worker]  BY <1>0, <1>5, <2>1 DEF BeginRunning
  <2>3. jobs' \in [Jobs -> JobRecord]
    BY <1>0, <1>5, <2>0, StatusNames, StatusType DEF BeginRunning
  <2>4. dirty' \in SUBSET Jobs /\ snap' \in Copy /\ rows' \in [Jobs -> JobRecord]
    BY <1>5, <2>0, PersistType DEF BeginRunning
  <2> QED BY <1>5, <2>2, <2>3, <2>4 DEF TypeOK, BeginRunning
<1>6. CASE Heartbeat(w)
  <2>0. j \in Jobs  BY <1>0, <1>6, WorkerTypes DEF Heartbeat
  <2>1. worker' \in [Workers -> Worker]
    <3>1. (Holds(w) /\ lockOwner[SessionOf[j]] = j) \in BOOLEAN  OBVIOUS
    <3>2. PICK b \in BOOLEAN : worker' = [worker EXCEPT ![w].beat = b]
      BY <1>6, <3>1 DEF Heartbeat
    <3>3. [worker[w] EXCEPT !.beat = b] \in Worker  BY <1>0, <2>0, WorkerTypes
    <3> QED BY <1>0, <3>2, <3>3
  <2>2. /\ jobs' \in [Jobs -> JobRecord]
        /\ dirty' \in SUBSET Jobs /\ snap' \in Copy /\ rows' \in [Jobs -> JobRecord]
    <3>1. CASE ~Holds(w)  BY <1>6, <3>1 DEF Heartbeat, TypeOK
    <3>2. CASE Holds(w)
      <4>1. [jobs[j] EXCEPT !.lease = "live"] \in JobRecord  BY <1>0, <2>0, RecordTypes
      <4>2. jobs' = [jobs EXCEPT ![j].lease = "live"] /\ PersistJob(j)
        BY <1>6, <3>2 DEF Heartbeat
      <4> QED BY <1>0, <2>0, <4>1, <4>2, PersistType
    <3> QED BY <3>1, <3>2
  <2> QED BY <1>6, <2>1, <2>2 DEF TypeOK, Heartbeat
<1>7. CASE RuntimeFails(w)
  <2>1. worker' \in [Workers -> Worker]  BY <1>7, BusyWorker, WorkerPCs DEF RuntimeFails
  <2> QED BY <1>7, <2>1 DEF TypeOK, RuntimeFails
<1> QED BY <1>1, <1>2, <1>3, <1>4, <1>5, <1>6, <1>7 DEF Beginning

\* The steps that end an execution and settle its message keep the types.
LEMMA EndingTypes ==
  ASSUME TypeOK, NEW w \in Workers, Ending(w)
  PROVE  TypeOK'
<1> USE DEF queueVars, pendingVars, storeVars, brokerVars, readVars, countVars
<1> DEFINE j == worker[w].job
<1>0. /\ worker \in [Workers -> Worker] /\ worker[w] \in Worker
      /\ rows \in [Jobs -> JobRecord] /\ jobs \in [Jobs -> JobRecord]
      /\ IdleWorker \in Worker
  BY WorkerTypes DEF TypeOK
<1>a. ASSUME worker[w].pc # "idle" PROVE j \in Jobs  BY <1>a, BusyWorker
<1>b. ASSUME worker[w].pc # "idle", NEW p \in WorkerPC, WorkerAt(w, p)
      PROVE  worker' \in [Workers -> Worker]
  BY <1>b, BusyWorker
<1>c. ASSUME NEW i \in Jobs, LeaveSession(i) PROVE runningSessions' \in SUBSET Sessions
  BY <1>c DEF LeaveSession, TypeOK
<1>1. ASSUME NEW outcome \in {"succeeded", "failed"}, Publish(w, outcome) PROVE TypeOK'
  <2>0. worker[w].pc # "idle" /\ j \in Jobs /\ WorkerAt(w, "release")  BY <1>1, <1>a DEF Publish
  <2>1. worker' \in [Workers -> Worker]  BY <2>0, <1>b, WorkerPCs
  <2>2. jobs' \in [Jobs -> JobRecord]
    BY <1>1, <2>0, StatusNames, StatusType DEF Publish, Finished
  <2>3. finals' \in [Jobs -> Nat]  BY <1>1, <2>0 DEF Publish, TypeOK
  <2>4. pendingTotal' \in Nat /\ pendingByUser' \in [Keys -> Nat]
    BY <1>1, <2>0, DecrementType DEF Publish
  <2>5. dirty' \in SUBSET Jobs /\ snap' \in Copy /\ rows' \in [Jobs -> JobRecord]
    BY <1>1, <2>0, PersistType DEF Publish
  <2> QED BY <1>1, <2>1, <2>2, <2>3, <2>4, <2>5 DEF TypeOK, Publish
<1>2. ASSUME NEW outcome \in {"succeeded", "failed"}, PublishIllegal(w, outcome) PROVE TypeOK'
  <2>1. worker' \in [Workers -> Worker]  BY <1>2, <1>b, WorkerPCs DEF PublishIllegal
  <2> QED BY <1>2, <2>1 DEF TypeOK, PublishIllegal
<1>3. CASE EndCancelled(w)
  <2>0. worker[w].pc # "idle" /\ j \in Jobs /\ WorkerAt(w, "release") /\ MarkCancelled(j)
    BY <1>3, <1>a DEF EndCancelled
  <2>1. worker' \in [Workers -> Worker]  BY <2>0, <1>b, WorkerPCs
  <2> QED BY <1>3, <2>0, <2>1, MarkCancelledType DEF TypeOK, EndCancelled
<1>4. CASE EndIgnored(w)
  <2>1. worker' \in [Workers -> Worker]  BY <1>4, <1>b, WorkerPCs DEF EndIgnored
  <2> QED BY <1>4, <2>1 DEF TypeOK, EndIgnored
<1>5. CASE FailJob(w)
  <2>0. worker[w].pc # "idle" /\ j \in Jobs  BY <1>5, <1>a DEF FailJob
  <2> DEFINE legal == CanMove(jobs[j].status, "failed")
  <2>1. worker' \in [Workers -> Worker]
    <3>1. (~legal) \in BOOLEAN  BY DEF CanMove
    <3>2. PICK b \in BOOLEAN : worker' = [worker EXCEPT ![w].pc = "release", ![w].raised = b]
      BY <1>5, <3>1 DEF FailJob
    <3>3. [worker[w] EXCEPT !.pc = "release", !.raised = b] \in Worker
      BY <1>0, <2>0, WorkerPCs, WorkerTypes
    <3> QED BY <1>0, <3>2, <3>3
  <2>2. /\ jobs' \in [Jobs -> JobRecord]
        /\ pendingTotal' \in Nat /\ pendingByUser' \in [Keys -> Nat]
        /\ dirty' \in SUBSET Jobs /\ snap' \in Copy /\ rows' \in [Jobs -> JobRecord]
    <3>1. CASE legal
      <4>1. Finished(j, "failed") /\ DecrementPending(j) /\ PersistJob(j)
        BY <1>5, <3>1 DEF FailJob
      <4>2. jobs' \in [Jobs -> JobRecord]  BY <2>0, <4>1, StatusNames, StatusType DEF Finished
      <4> QED BY <2>0, <4>1, <4>2, DecrementType, PersistType
    <3>2. CASE ~legal  BY <1>5, <3>2 DEF FailJob, TypeOK
    <3> QED BY <3>1, <3>2
  <2> HIDE DEF legal
  <2> QED BY <1>5, <2>1, <2>2 DEF TypeOK, FailJob
<1>6. CASE WorkerRelease(w)
  <2>0. j \in Jobs  BY <1>6, <1>a DEF WorkerRelease
  <2>1. [worker[w] EXCEPT !.pc = "discard", !.beat = FALSE] \in Worker
    BY <1>0, <2>0, WorkerPCs, WorkerTypes
  <2>2. worker' \in [Workers -> Worker]  BY <1>0, <1>6, <2>1 DEF WorkerRelease
  <2>3. lockOwner' \in [Sessions -> 0..NumJobs]  BY <1>6, <2>0, ReleaseType DEF WorkerRelease
  <2> QED BY <1>6, <2>2, <2>3 DEF TypeOK, WorkerRelease
<1>7. CASE WorkerDiscard(w)
  <2>1. worker' \in [Workers -> Worker]  BY <1>7, <1>b, WorkerPCs DEF WorkerDiscard
  <2>2. runningSessions' \in SUBSET Sessions  BY <1>7 DEF WorkerDiscard, LeaveSession, TypeOK
  <2> QED BY <1>7, <2>1, <2>2 DEF TypeOK, WorkerDiscard
<1>8. CASE Settle(w)
  <2>1. [worker[w] EXCEPT !.pc = "retry"] \in Worker
    BY <1>0, <1>8, <1>a, WorkerPCs, WorkerTypes DEF Settle
  <2>2. worker' \in [Workers -> Worker]  BY <1>0, <1>8, <2>1 DEF Settle
  <2> QED BY <1>8, <2>2 DEF TypeOK, Settle
<1>9. CASE RetryIgnored(w)
  <2>1. worker' \in [Workers -> Worker]  BY <1>0, <1>9 DEF RetryIgnored
  <2> QED BY <1>9, <2>1 DEF TypeOK, RetryIgnored
<1>10. CASE RetryCancelled(w)
  <2>0. worker[w].pc # "idle" /\ j \in Jobs /\ WorkerAt(w, "unlock") /\ MarkCancelled(j)
    BY <1>10, <1>a DEF RetryCancelled
  <2>1. worker' \in [Workers -> Worker]  BY <2>0, <1>b, WorkerPCs
  <2> QED BY <1>10, <2>0, <2>1, MarkCancelledType DEF TypeOK, RetryCancelled
<1>11. CASE RetryDispatch(w)
  <2> DEFINE exhausted == jobs[j].attempt >= MaxAttempts
  <2>0. worker[w].pc # "idle" /\ j \in Jobs /\ WorkerAt(w, "unlock")
    BY <1>11, <1>a DEF RetryDispatch
  <2>1. worker' \in [Workers -> Worker]  BY <2>0, <1>b, WorkerPCs
  <2>2. jobs' \in [Jobs -> JobRecord]
    <3>1. (IF exhausted THEN "failed" ELSE "queued") \in Status  BY StatusNames
    <3>2. jobs' = [jobs EXCEPT ![j] = Withdrawn(@, IF exhausted THEN "failed" ELSE "queued")]
      BY <1>11 DEF RetryDispatch
    <3> HIDE DEF exhausted
    <3> QED BY <2>0, <3>1, <3>2, StatusType
  <2>3. runningSessions' \in SUBSET Sessions  BY <1>11, <2>0, <1>c DEF RetryDispatch
  <2>4. /\ pendingTotal' \in Nat /\ pendingByUser' \in [Keys -> Nat]
        /\ queues' \in Queues /\ activeKeys' \in [Keys -> Nat] /\ activeKeySet' \in SUBSET Keys
    <3>1. CASE exhausted
      <4>1. DecrementPending(j) /\ UNCHANGED queueVars  BY <1>11, <3>1 DEF RetryDispatch
      <4> QED BY <2>0, <4>1, DecrementType DEF TypeOK, Queues
    <3>2. CASE ~exhausted
      <4>1. Requeue(j) /\ UNCHANGED pendingVars  BY <1>11, <3>2 DEF RetryDispatch
      <4> QED BY <2>0, <4>1, RequeueType DEF TypeOK
    <3> QED BY <3>1, <3>2
  <2>5. dirty' \in SUBSET Jobs /\ snap' \in Copy /\ rows' \in [Jobs -> JobRecord]
    BY <1>11, <2>0, PersistType DEF RetryDispatch
  <2> HIDE DEF exhausted
  <2> QED BY <1>11, <2>1, <2>2, <2>3, <2>4, <2>5 DEF TypeOK, RetryDispatch, Queues
<1>12. CASE WorkerUnlock(w)
  <2>1. worker' \in [Workers -> Worker]  BY <1>0, <1>12 DEF WorkerUnlock
  <2>2. lockOwner' \in [Sessions -> 0..NumJobs]  BY <1>12, <1>a, ReleaseType DEF WorkerUnlock
  <2> QED BY <1>12, <2>1, <2>2 DEF TypeOK, WorkerUnlock
<1> QED BY <1>1, <1>2, <1>3, <1>4, <1>5, <1>6, <1>7, <1>8, <1>9, <1>10, <1>11, <1>12 DEF Ending

\* The persistence task keeps the types.
LEMMA PersistingTypes ==
  ASSUME TypeOK, Persisting
  PROVE  TypeOK'
<1> USE DEF queueVars, pendingVars, storeVars, brokerVars, readVars, countVars
<1>1. ASSUME NEW j \in Jobs, TakeSnapshot(j) PROVE TypeOK'
  <2>1. jobs[j] \in JobRecord /\ dirty' \in SUBSET Jobs  BY <1>1 DEF TypeOK, TakeSnapshot
  <2>2. snap' \in Copy  BY <1>1, <2>1, CopyTypes DEF TakeSnapshot
  <2> QED BY <1>1, <2>1, <2>2 DEF TypeOK, TakeSnapshot
<1>2. CASE SaveSnapshot
  <2>1. snap.rec \in JobRecord /\ snap' \in Copy  BY <1>2, CopyTypes DEF TypeOK, SaveSnapshot
  <2>2. rows' \in [Jobs -> JobRecord]  BY <1>2, <2>1 DEF TypeOK, SaveSnapshot
  <2> QED BY <1>2, <2>1, <2>2 DEF TypeOK, SaveSnapshot
<1> QED BY <1>1, <1>2 DEF Persisting

\* The merge of a polled or replayed row keeps the types.
LEMMA MergingTypes ==
  ASSUME TypeOK, ReplayApply \/ PollMerge
  PROVE  TypeOK'
<1> USE DEF queueVars, pendingVars, storeVars, brokerVars, readVars, countVars
<1>0. /\ replay.rec \in JobRecord /\ replay.job \in 0..NumJobs
      /\ poll.rec \in JobRecord /\ poll.job \in 0..NumJobs
      /\ NoCopy \in Copy /\ NoCopy.job = 0
  BY CopyTypes DEF TypeOK
<1>1. CASE ReplayApply
  <2>1. replay.job \in Jobs  BY <1>0, <1>1 DEF ReplayApply, LockFree, Jobs
  <2>2. jobs' \in [Jobs -> JobRecord] /\ worker' \in [Workers -> Worker]
    BY <1>0, <1>1, <2>1, ReplaceType DEF ReplayApply
  <2> QED BY <1>0, <1>1, <2>2 DEF TypeOK, ReplayApply
<1>2. CASE PollMerge
  <2>1. poll.job \in Jobs  BY <1>0, <1>2 DEF PollMerge, Jobs
  <2>2. jobs' \in [Jobs -> JobRecord] /\ worker' \in [Workers -> Worker]
    BY <1>0, <1>2, <2>1, ReplaceType DEF PollMerge
  <2> QED BY <1>0, <1>2, <2>2 DEF TypeOK, PollMerge
<1> QED BY <1>1, <1>2

\* A lease that runs out leaves a job.
LEMMA AgedJobs ==
  ASSUME NEW f \in [Jobs -> JobRecord], NEW j \in Jobs
  PROVE  [f EXCEPT ![j] = Aged(@)] \in [Jobs -> JobRecord]
<1>1. Aged(f[j]) \in JobRecord  BY RecordTypes
<1> QED BY <1>1

\* Expiring leases and locks keep the types.
LEMMA TimeoutTypes ==
  ASSUME TypeOK, (\E j \in Jobs : LeaseTimeout(j)) \/ \E s \in Sessions : LockTimeout(s)
  PROVE  TypeOK'
<1> USE DEF queueVars, pendingVars, storeVars, brokerVars, readVars, countVars
<1>1. ASSUME NEW i \in 0..NumJobs, Overdue(i) PROVE env' \in Counters
  BY <1>1, CounterTypes DEF Overdue, TypeOK
<1>2. ASSUME NEW j \in Jobs, LeaseTimeout(j) PROVE TypeOK'
  <2>1. jobs' \in [Jobs -> JobRecord] /\ rows' \in [Jobs -> JobRecord]
    BY <1>2, AgedJobs DEF LeaseTimeout, TypeOK
  <2>2. ASSUME NEW c \in Copy PROVE [c EXCEPT !.rec = Aged(@)] \in Copy
    BY CopyTypes, RecordTypes
  <2>3. snap' \in Copy /\ poll' \in Copy /\ replay' \in Copy
    BY <1>2, <2>2 DEF LeaseTimeout, TypeOK
  <2>4. sched' \in Scheduler
    <3>1. sched \in Scheduler /\ Aged(sched.rec) \in JobRecord
      BY SchedulerTypes, RecordTypes DEF TypeOK
    <3>2. [sched EXCEPT !.rec = Aged(@)] \in Scheduler  BY <3>1, SchedulerTypes
    <3> QED BY <1>2, <3>1, <3>2 DEF LeaseTimeout
  <2>5. env' \in Counters  BY <1>1, <1>2, JobNumbers DEF LeaseTimeout
  <2> QED BY <1>2, <2>1, <2>3, <2>4, <2>5 DEF TypeOK, LeaseTimeout
<1>3. ASSUME NEW s \in Sessions, LockTimeout(s) PROVE TypeOK'
  <2>1. lockOwner' \in [Sessions -> 0..NumJobs]
    BY <1>3, JobNumbers DEF TypeOK, LockTimeout
  <2>2. lockOwner[s] \in 0..NumJobs  BY DEF TypeOK
  <2>3. env' \in Counters  BY <1>1, <1>3, <2>2 DEF LockTimeout
  <2> QED BY <1>3, <2>1, <2>3 DEF TypeOK, LockTimeout
<1> QED BY <1>2, <1>3

\* _restore_from_store rebuilds queues, counters and jobs of the right types.
LEMMA RestartTypes ==
  ASSUME TypeOK, Restart
  PROVE  TypeOK'
<1> USE DEF queueVars, pendingVars, storeVars, brokerVars, readVars, countVars
<1> DEFINE back == [j \in Jobs |-> Restored(rows[j])]
           Pending(k) == {j \in Jobs : KeyOf[j] = k /\ back[j].status = "queued"}
<1>1. jobs' \in [Jobs -> JobRecord]
  <2>1. \A j \in Jobs : Restored(rows[j]) \in JobRecord  BY RecordTypes DEF TypeOK
  <2> QED BY <2>1 DEF Restart
<1>2. queues' \in Queues
  <2>1. \A q \in SeqOf(Jobs, NumJobs) : q \in Seq(Jobs)
    <3>1. \A n \in 0..NumJobs : n \in Nat  BY CountsAssumption
    <3> QED BY <3>1, SeqDef DEF SeqOf
  <2>2. queues' \in [Keys -> SeqOf(Jobs, NumJobs)]  BY DEF Restart
  <2> QED BY <2>1, <2>2 DEF Queues
<1>3. activeKeySet' \in SUBSET Keys /\ activeKeys' \in [Keys -> Nat]  BY DEF Restart
<1>4. pendingTotal' \in Nat /\ pendingByUser' \in [Keys -> Nat]
  <2>1. Cardinality({j \in Jobs : back[j].status = "queued"}) \in Nat  BY CountType
  <2>2. \A k \in Keys : Cardinality(Pending(k)) \in Nat  BY CountType
  <2>3. /\ pendingTotal' = Cardinality({j \in Jobs : back[j].status = "queued"})
        /\ pendingByUser' = [k \in Keys |-> Cardinality(Pending(k))]
    BY DEF Restart
  <2> HIDE DEF back, Pending
  <2> QED BY <2>1, <2>2, <2>3
<1>5. stream' \in Seq(Message)
  <2>1. PICK n \in 0..Len(stream) : stream' = SubSeq(stream, n + 1, Len(stream))  BY DEF Restart
  <2>2. stream \in Seq(Message) /\ Len(stream) \in Nat  BY LenProperties DEF TypeOK
  <2>3. \A i \in 1..Len(stream) : stream[i] \in Message  BY <2>2, ElementOfSeq
  <2>4. n + 1 \in Nat /\ \A i \in (n + 1)..Len(stream) : stream[i] \in Message
    BY <2>2, <2>3
  <2> QED BY <2>1, <2>2, <2>4, SubSeqProperties
<1>6. sched' \in Scheduler /\ worker' \in [Workers -> Worker]
  BY SchedulerTypes, WorkerTypes DEF Restart
<1>7. dirty' \in SUBSET Jobs /\ snap' \in Copy /\ poll' \in Copy /\ replay' \in Copy
  BY CopyTypes DEF Restart
<1>8. env' \in Counters  BY CounterTypes DEF Restart, TypeOK
<1>9. runningSessions' \in SUBSET Sessions /\ UNCHANGED <<rows, lockOwner, tokens, finals>>
  BY DEF Restart
<1> QED BY <1>1, <1>2, <1>3, <1>4, <1>5, <1>6, <1>7, <1>8, <1>9 DEF TypeOK, Queues

\* Every step of the service keeps the types.
LEMMA StepTypes == TypeOK /\ [Next]_vars => TypeOK'
<1> SUFFICES ASSUME TypeOK, [Next]_vars PROVE TypeOK'  OBVIOUS
<1>1. CASE UNCHANGED vars
  BY <1>1 DEF TypeOK, vars, queueVars, pendingVars, storeVars, brokerVars, readVars, countVars
<1>2. CASE Next
  BY <1>2, RequestTypes, MergingTypes, SelectTypes, DispatchingTypes, SweepingTypes,
     BeginningTypes, EndingTypes, PersistingTypes, TimeoutTypes, RestartTypes DEF Next
<1> QED BY <1>1, <1>2

\* Type correctness: in every state the service reaches, with any number of jobs,
\* workers, sessions, users and faults, the queues hold jobs, the pending counters are
\* naturals, a busy worker and a busy scheduler are busy with a job, and locks are owned
\* by jobs.
THEOREM TypeCorrect == Spec => []TypeOK
BY InitType, StepTypes, PTL DEF Spec

----------------------------------------------------------------------------
(* Retries are bounded *)

\* What the rewritings of a job do to its soundness: only a requeue can leave a queued
\* job without an attempt, and only one that has none left.
LEMMA SoundRecords ==
  /\ SoundCopy(NoJob) /\ SoundCopy(NewJob)
  /\ \A r \in JobRecord : SoundCopy(r) => SoundJob(r) /\ SoundCopy(Aged(r))
  /\ \A r \in JobRecord : SoundJob(r) => SoundJob(Aged(r))
  /\ \A r \in JobRecord : SoundJob(r) /\ (r.status = "queued" => Returned(r)) =>
       SoundCopy(r) /\ SoundCopy([r EXCEPT !.lease = "live"])
  /\ \A r \in JobRecord, st \in Status \ {"queued", "absent"} : SoundJob(r) =>
       SoundCopy([r EXCEPT !.status = st]) /\ SoundCopy(Withdrawn(r, st))
  /\ \A r \in JobRecord : SoundJob(r) /\ r.attempt < MaxAttempts => SoundCopy(Withdrawn(r, "queued"))
<1> USE CountsAssumption DEF SoundCopy, SoundJob, Returned, Exists
<1>1. SoundCopy(NoJob) /\ SoundCopy(NewJob)  BY DEF NoJob, NewJob
<1>2. ASSUME NEW r \in JobRecord
      PROVE  /\ SoundCopy(r) => SoundJob(r) /\ SoundCopy(Aged(r))
             /\ SoundJob(r) => SoundJob(Aged(r))
  BY DEF Aged, JobRecord
<1>3. ASSUME NEW r \in JobRecord, SoundJob(r), r.status = "queued" => Returned(r)
      PROVE  SoundCopy(r) /\ SoundCopy([r EXCEPT !.lease = "live"])
  BY <1>3 DEF JobRecord
<1>4. ASSUME NEW r \in JobRecord, NEW st \in Status \ {"queued", "absent"}, SoundJob(r)
      PROVE  SoundCopy([r EXCEPT !.status = st]) /\ SoundCopy(Withdrawn(r, st))
  BY <1>4 DEF JobRecord, Withdrawn
<1>5. ASSUME NEW r \in JobRecord, SoundJob(r), r.attempt < MaxAttempts
      PROVE  SoundCopy(Withdrawn(r, "queued"))
  BY <1>5 DEF JobRecord, Withdrawn
<1> QED BY <1>1, <1>2, <1>3, <1>4, <1>5

\* The step touches nothing that RevivedIsContradicted says of the job i.
Untouched(i) ==
  /\ rows'[i] = rows[i]
  /\ i \in dirty' => i \in dirty
  /\ snap'.job = i => snap.job = i
  /\ sched'.job = i => sched.job = i /\ sched'.pc = sched.pc /\ sched'.rec = sched.rec
  /\ \A w \in Workers : worker'[w].job = i =>
       /\ worker'[w].beat => worker[w].job = i /\ worker[w].beat
       /\ Exists(worker'[w].obj) => worker[w].job = i /\ Exists(worker[w].obj)

\* The step keeps the job i, and does not touch it if it is revived.
Kept(i) == jobs'[i] = jobs[i] /\ (Revived(i) => Untouched(i))

\* A step after which every job is sound, or is as it was and untouched if it was revived,
\* keeps every revived job contradicted.
LEMMA Frame ==
  ASSUME AttemptsInv, jobs' \in [Jobs -> JobRecord],
         \A i \in Jobs : SoundCopy(jobs'[i]) \/ Kept(i)
  PROVE  /\ RevivedIsContradicted'
         /\ \A i \in Jobs : SoundJob(jobs'[i])
<1>1. ASSUME NEW i \in Jobs PROVE SoundJob(jobs'[i])
  BY SoundRecords DEF AttemptsInv, CopiesSound, Kept, SoundJob
<1>2. ASSUME NEW i \in Jobs, Revived(i)'
      PROVE  Kept(i) /\ Revived(i) /\ Untouched(i)
  <2>1. ~SoundCopy(jobs'[i])  BY <1>2, CountsAssumption DEF Revived, SoundCopy, JobRecord
  <2>2. Kept(i)  BY <2>1
  <2>3. Revived(i)  BY <1>2, <2>2 DEF Revived, Kept
  <2> QED BY <2>2, <2>3 DEF Kept
<1>3. ASSUME NEW i \in Jobs, Revived(i)'
      PROVE  /\ Contradicts(rows[i], i)'
             /\ i \notin dirty' /\ snap'.job # i
             /\ sched'.job = i => sched'.pc \in {"load", "merge"}
             /\ sched'.job = i /\ sched'.pc = "merge" => Contradicts(sched.rec, i)'
             /\ \A w \in Workers : worker'[w].job = i => ~worker'[w].beat /\ ~Exists(worker'[w].obj)
  <2>1. /\ Contradicts(rows[i], i)
        /\ i \notin dirty /\ snap.job # i
        /\ sched.job = i => sched.pc \in {"load", "merge"}
        /\ sched.job = i /\ sched.pc = "merge" => Contradicts(sched.rec, i)
        /\ \A w \in Workers : worker[w].job = i => ~worker[w].beat /\ ~Exists(worker[w].obj)
    BY <1>2, <1>3 DEF AttemptsInv, RevivedIsContradicted
  <2>2. Untouched(i) /\ jobs'[i] = jobs[i]  BY <1>2, <1>3 DEF Kept
  <2>3. Contradicts(rows[i], i)'  BY <2>1, <2>2 DEF Untouched, Contradicts
  <2>4. i \notin dirty' /\ snap'.job # i  BY <2>1, <2>2 DEF Untouched
  <2>5. /\ sched'.job = i => sched'.pc \in {"load", "merge"}
        /\ sched'.job = i /\ sched'.pc = "merge" => Contradicts(sched.rec, i)'
    BY <2>1, <2>2 DEF Untouched, Contradicts
  <2>6. \A w \in Workers : worker'[w].job = i => ~worker'[w].beat /\ ~Exists(worker'[w].obj)
    BY <2>1, <2>2 DEF Untouched
  <2> QED BY <2>3, <2>4, <2>5, <2>6
<1>4. RevivedIsContradicted'
  BY <1>3 DEF RevivedIsContradicted
<1> QED BY <1>1, <1>4

\* All copies of jobs outside self._jobs are sound after the step.
CopiesStaySound ==
  /\ \A i \in Jobs : SoundCopy(rows'[i])
  /\ SoundCopy(snap'.rec) /\ SoundCopy(sched'.rec)
  /\ SoundCopy(poll'.rec) /\ SoundCopy(replay'.rec)

\* The invariant after a step, from its two halves: the copies and the jobs.
LEMMA Conclude ==
  ASSUME TypeOK', AttemptsInv, CopiesStaySound,
         \A i \in Jobs : SoundCopy(jobs'[i]) \/ Kept(i)
  PROVE  AttemptsInv'
<1>1. RevivedIsContradicted' /\ \A i \in Jobs : SoundJob(jobs'[i])
  BY Frame DEF TypeOK
<1>2. CopiesSound'  BY <1>1 DEF CopiesStaySound, CopiesSound, SoundJob
<1> QED BY <1>1, <1>2 DEF AttemptsInv

\* What the invariant says of one state: the copies are sound, and whoever is dispatching
\* a job, writing its row or executing it has a job that is not revived.
LEMMA SoundState ==
  ASSUME TypeOK, AttemptsInv
  PROVE  /\ \A i \in Jobs : jobs[i] \in JobRecord /\ rows[i] \in JobRecord
         /\ \A i \in Jobs : SoundJob(jobs[i]) /\ SoundCopy(rows[i])
         /\ SoundCopy(snap.rec) /\ SoundCopy(sched.rec)
         /\ SoundCopy(poll.rec) /\ SoundCopy(replay.rec)
         /\ \A i \in Jobs : ~Revived(i) => SoundCopy(jobs[i])
         /\ \A i \in Jobs : sched.job = i /\ sched.pc \notin {"load", "merge"} => ~Revived(i)
         /\ \A i \in Jobs : i \in dirty \/ snap.job = i => ~Revived(i)
         /\ \A i \in Jobs, w \in Workers :
              worker[w].job = i /\ (worker[w].beat \/ Exists(worker[w].obj)) => ~Revived(i)
<1>1. \A i \in Jobs : jobs[i] \in JobRecord /\ rows[i] \in JobRecord  BY DEF TypeOK
<1>2. /\ \A i \in Jobs : SoundJob(jobs[i]) /\ SoundCopy(rows[i])
      /\ SoundCopy(snap.rec) /\ SoundCopy(sched.rec)
      /\ SoundCopy(poll.rec) /\ SoundCopy(replay.rec)
  BY DEF AttemptsInv, CopiesSound, SoundJob
<1>3. \A i \in Jobs : ~Revived(i) => SoundCopy(jobs[i])  BY <1>1, <1>2, SoundRecords DEF Revived
<1>4. RevivedIsContradicted  BY DEF AttemptsInv
<1> QED BY <1>1, <1>2, <1>3, <1>4 DEF RevivedIsContradicted

\* A step that changes one job, leaves it sound and does not touch the others keeps the
\* invariant.
LEMMA OneJob ==
  ASSUME TypeOK, TypeOK', AttemptsInv, CopiesStaySound, NEW j \in Jobs, SoundCopy(jobs'[j]),
         \A i \in Jobs \ {j} : jobs'[i] = jobs[i] /\ Untouched(i)
  PROVE  AttemptsInv'
BY Conclude DEF Kept

\* create_job, get_job and cancel_job leave no queued job without an attempt.
LEMMA RequestAttempts ==
  ASSUME TypeOK, TypeOK', AttemptsInv, NEW j \in Jobs, Request(j)
  PROVE  AttemptsInv'
<1> USE DEF queueVars, pendingVars, storeVars, brokerVars, readVars, countVars
<1>0. jobs \in [Jobs -> JobRecord] /\ rows \in [Jobs -> JobRecord]  BY DEF TypeOK
<1>1. CASE CreateJob(j)
  <2>1. CopiesStaySound
    BY <1>0, <1>1, SoundState, SoundRecords DEF CreateJob, CopiesStaySound
  <2>2. SoundCopy(jobs'[j])  BY <1>0, <1>1, SoundRecords DEF CreateJob
  <2>3. \A i \in Jobs \ {j} : jobs'[i] = jobs[i] /\ Untouched(i)
    BY <1>0, <1>1 DEF CreateJob, Untouched
  <2> QED BY <2>1, <2>2, <2>3, OneJob
<1>2. CASE ReplayRead(j)
  <2>1. CopiesStaySound  BY <1>2, SoundState DEF ReplayRead, CopiesStaySound
  <2>2. \A i \in Jobs : Kept(i)  BY <1>2 DEF ReplayRead, Kept, Untouched
  <2> QED BY <2>1, <2>2, Conclude
<1>3. CASE PollRead(j)
  <2>1. CopiesStaySound  BY <1>3, SoundState DEF PollRead, CopiesStaySound
  <2>2. \A i \in Jobs : Kept(i)  BY <1>3 DEF PollRead, Kept, Untouched
  <2> QED BY <2>1, <2>2, Conclude
<1>4. CASE CancelQueued(j)
  <2>1. CopiesStaySound
    BY <1>4, SoundState DEF CancelQueued, MarkCancelled, PersistJob, CopiesStaySound
  <2>2. SoundCopy(jobs'[j])
    <3>1. jobs'[j] = [jobs[j] EXCEPT !.status = "cancelled"]
      BY <1>0, <1>4 DEF CancelQueued, MarkCancelled, Finished
    <3> QED BY <3>1, SoundState, SoundRecords, StatusNames
  <2>3. \A i \in Jobs \ {j} : jobs'[i] = jobs[i] /\ Untouched(i)
    BY <1>0, <1>4 DEF CancelQueued, MarkCancelled, Finished, PersistJob, Untouched
  <2> QED BY <2>1, <2>2, <2>3, OneJob
<1>5. CASE CancelActive(j)
  <2>1. CopiesStaySound  BY <1>5, SoundState DEF CancelActive, PersistJob, CopiesStaySound
  <2>2. SoundCopy(jobs'[j])
    <3>1. jobs'[j] = [jobs[j] EXCEPT !.status = "cancel_requested"]  BY <1>0, <1>5 DEF CancelActive
    <3> QED BY <3>1, SoundState, SoundRecords, StatusNames
  <2>3. \A i \in Jobs \ {j} : jobs'[i] = jobs[i] /\ Untouched(i)
    BY <1>0, <1>5 DEF CancelActive, PersistJob, Untouched
  <2> QED BY <2>1, <2>2, <2>3, OneJob
<1> QED BY <1>1, <1>2, <1>3, <1>4, <1>5 DEF Request

\* Replacing the object of one job is not seen by the workers of the others.
LEMMA ReplaceFrame ==
  ASSUME TypeOK, NEW j \in Jobs, NEW rec, Replace(j, rec)
  PROVE  /\ jobs'[j] = rec
         /\ \A i \in Jobs \ {j} : jobs'[i] = jobs[i]
         /\ \A w \in Workers : worker'[w].job = worker[w].job /\ worker'[w].beat = worker[w].beat
         /\ \A w \in Workers : worker[w].job # j => worker'[w] = worker[w]
<1>1. jobs' = [jobs EXCEPT ![j] = rec] /\ jobs \in [Jobs -> JobRecord]  BY DEF Replace, TypeOK
<1>2. \A w \in Workers : worker[w] \in Worker  BY DEF TypeOK
<1>3. ASSUME NEW w \in Workers
      PROVE  /\ worker'[w].job = worker[w].job /\ worker'[w].beat = worker[w].beat
             /\ worker[w].job # j => worker'[w] = worker[w]
  <2>1. \/ worker'[w] = worker[w]
        \/ worker[w].job = j /\ worker'[w] = [worker[w] EXCEPT !.obj = jobs[j]]
    BY DEF Replace
  <2> QED BY <1>2, <2>1 DEF Worker
<1> QED BY <1>1, <1>3

\* A polled or replayed row that is merged leaves its job sound.
LEMMA MergingAttempts ==
  ASSUME TypeOK, TypeOK', AttemptsInv, ReplayApply \/ PollMerge
  PROVE  AttemptsInv'
<1> USE DEF queueVars, pendingVars, storeVars, brokerVars, readVars, countVars
<1>0. NoCopy.rec = NoJob  BY DEF NoCopy
<1>1. CASE ReplayApply
  <2>0. replay.job \in Jobs
    BY <1>1, CopyTypes DEF ReplayApply, TypeOK, Jobs
  <2>1. CopiesStaySound
    BY <1>0, <1>1, SoundState, SoundRecords DEF ReplayApply, CopiesStaySound
  <2>2. SoundCopy(jobs'[replay.job])  BY <1>1, <2>0, ReplaceFrame, SoundState DEF ReplayApply
  <2>3. \A i \in Jobs \ {replay.job} : jobs'[i] = jobs[i] /\ Untouched(i)
    <3>1. /\ \A i \in Jobs \ {replay.job} : jobs'[i] = jobs[i]
          /\ \A w \in Workers : worker'[w].job = worker[w].job /\ worker'[w].beat = worker[w].beat
          /\ \A w \in Workers : worker[w].job # replay.job => worker'[w] = worker[w]
      BY <1>1, <2>0, ReplaceFrame DEF ReplayApply
    <3> QED BY <1>1, <3>1 DEF ReplayApply, Untouched
  <2> QED BY <2>0, <2>1, <2>2, <2>3, OneJob
<1>2. CASE PollMerge
  <2>0. poll.job \in Jobs
    BY <1>2, CopyTypes DEF PollMerge, TypeOK, Jobs
  <2>1. CopiesStaySound
    BY <1>0, <1>2, SoundState, SoundRecords DEF PollMerge, CopiesStaySound
  <2>2. CASE Replace(poll.job, poll.rec)
    <3>1. SoundCopy(jobs'[poll.job])  BY <2>0, <2>2, ReplaceFrame, SoundState
    <3>2. /\ \A i \in Jobs \ {poll.job} : jobs'[i] = jobs[i]
          /\ \A w \in Workers : worker'[w].job = worker[w].job /\ worker'[w].beat = worker[w].beat
          /\ \A w \in Workers : worker[w].job # poll.job => worker'[w] = worker[w]
      BY <2>0, <2>2, ReplaceFrame
    <3>3. \A i \in Jobs \ {poll.job} : jobs'[i] = jobs[i] /\ Untouched(i)
      BY <1>2, <3>2 DEF PollMerge, Untouched
    <3> QED BY <2>0, <2>1, <3>1, <3>3, OneJob
  <2>3. CASE UNCHANGED <<jobs, worker>>
    <3>1. \A i \in Jobs : Kept(i)  BY <1>2, <2>3 DEF PollMerge, Kept, Untouched
    <3> QED BY <2>1, <3>1, Conclude
  <2> QED BY <1>2, <2>2, <2>3 DEF PollMerge, Merge
<1> QED BY <1>1, <1>2

\* Selecting a candidate changes no job, and the scheduler is about to load its row.
LEMMA SelectAttempts ==
  ASSUME TypeOK, TypeOK', AttemptsInv, SelectNothing \/ \E k \in Keys : SelectCandidate(k)
  PROVE  AttemptsInv'
<1> USE DEF queueVars, pendingVars, storeVars, brokerVars, readVars, countVars
<1>1. CASE SelectNothing
  <2>1. CopiesStaySound  BY <1>1, SoundState DEF SelectNothing, CopiesStaySound
  <2>2. \A i \in Jobs : Kept(i)  BY <1>1 DEF SelectNothing, Kept, Untouched
  <2> QED BY <2>1, <2>2, Conclude
<1>2. ASSUME NEW k \in Keys, SelectCandidate(k) PROVE AttemptsInv'
  <2>1. sched'.pc = "load" /\ sched'.rec = sched.rec
    BY <1>2 DEF SelectCandidate, TypeOK, Scheduler
  <2>2. UNCHANGED <<jobs, storeVars, worker, readVars>>  BY <1>2 DEF SelectCandidate
  <2>3. CopiesSound'  BY <2>1, <2>2 DEF AttemptsInv, CopiesSound
  <2>4. RevivedIsContradicted'
    BY <2>1, <2>2 DEF AttemptsInv, RevivedIsContradicted, Revived, Contradicts
  <2> QED BY <2>3, <2>4 DEF AttemptsInv
<1> QED BY <1>1, <1>2

\* _select_freshest_job believes the row of a revived job: a job that is queued ranks below
\* it.
LEMMA RevivedLoses ==
  ASSUME NEW rec \in JobRecord, NEW j \in Jobs, Revived(j), Contradicts(rec, j)
  PROVE  PersistedWins(jobs[j], rec)
BY DEF Revived, Contradicts, PersistedWins, Exists, JobRecord, Live, Terminal, Rank

\* _schedule_once admits no revived job: the merge has taken its row before.
LEMMA DispatchingAttempts ==
  ASSUME TypeOK, TypeOK', AttemptsInv, Dispatching \/ LoadFails \/ DispatchFails
  PROVE  AttemptsInv'
<1> USE DEF queueVars, pendingVars, storeVars, brokerVars, readVars, countVars
<1> DEFINE j == sched.job
<1>0. /\ jobs \in [Jobs -> JobRecord] /\ rows \in [Jobs -> JobRecord]
      /\ sched \in Scheduler /\ sched.rec \in JobRecord /\ tokens \in [Jobs -> Nat]
      /\ sched.pc \notin {"idle", "sweep"} => j \in Jobs
  BY SchedulerTypes DEF TypeOK
<1>a. IdleScheduler.job = 0 /\ IdleScheduler.rec = NoJob /\ 0 \notin Jobs
  BY JobNumbers DEF IdleScheduler
<1>b. ASSUME NEW p, SchedulerAt(p)
      PROVE  sched'.pc = p /\ sched'.job = sched.job /\ sched'.rec = sched.rec
  BY <1>0, <1>b DEF SchedulerAt, Scheduler
\* A step of the scheduler that leaves the jobs and their copies alone.
<1>c. ASSUME UNCHANGED <<jobs, storeVars, worker, readVars>>,
             sched.pc \notin {"load", "merge"},
             sched' = IdleScheduler \/ \E p \in SchedulerPC : SchedulerAt(p)
      PROVE  AttemptsInv'
  <2>1. (sched'.job = 0 \/ sched'.job = j) /\ (sched'.rec = NoJob \/ sched'.rec = sched.rec)
    BY <1>a, <1>b, <1>c
  <2>2. CopiesStaySound  BY <1>c, <2>1, SoundState, SoundRecords DEF CopiesStaySound
  <2>3. \A i \in Jobs : Kept(i)
    BY <1>a, <1>c, <2>1, SoundState DEF Kept, Untouched
  <2> QED BY <2>2, <2>3, Conclude
<1>1. CASE LoadLatest
  <2>0. j \in Jobs  BY <1>0, <1>1 DEF LoadLatest
  <2>1. sched'.pc = "merge" /\ sched'.rec = rows[j] /\ sched'.job = j
    BY <1>0, <1>1 DEF LoadLatest, Scheduler
  <2>2. UNCHANGED <<jobs, storeVars, worker, readVars>>  BY <1>1 DEF LoadLatest
  <2>3. CopiesSound'  BY <2>0, <2>1, <2>2 DEF AttemptsInv, CopiesSound
  <2>4. RevivedIsContradicted'
    BY <2>1, <2>2 DEF AttemptsInv, RevivedIsContradicted, Revived, Contradicts
  <2> QED BY <2>3, <2>4 DEF AttemptsInv
<1>2. CASE MergeLatest
  <2>0. j \in Jobs /\ (sched'.job = 0 \/ sched'.job = j) /\ sched'.rec = NoJob
    BY <1>0, <1>2, <1>a DEF MergeLatest, Scheduler
  <2>1. CopiesStaySound
    BY <1>2, <2>0, SoundState, SoundRecords DEF MergeLatest, CopiesStaySound
  <2>2. CASE Replace(j, sched.rec)
    <3>1. SoundCopy(jobs'[j])  BY <2>0, <2>2, ReplaceFrame, SoundState
    <3>2. /\ \A i \in Jobs \ {j} : jobs'[i] = jobs[i]
          /\ \A w \in Workers : worker'[w].job = worker[w].job /\ worker'[w].beat = worker[w].beat
          /\ \A w \in Workers : worker[w].job # j => worker'[w] = worker[w]
      BY <2>0, <2>2, ReplaceFrame
    <3>3. \A i \in Jobs \ {j} : jobs'[i] = jobs[i] /\ Untouched(i)
      BY <1>2, <1>a, <2>0, <3>2 DEF MergeLatest, Untouched
    <3> QED BY <2>0, <2>1, <3>1, <3>3, OneJob
  <2>3. CASE ~PersistedWins(jobs[j], sched.rec)
    <3>1. UNCHANGED <<jobs, worker>>  BY <1>2, <2>3 DEF MergeLatest, Merge
    <3>2. ~Revived(j)
      <4>1. Revived(j) => Contradicts(sched.rec, j)
        BY <1>2, <2>0 DEF MergeLatest, AttemptsInv, RevivedIsContradicted
      <4> QED BY <1>0, <2>0, <2>3, <4>1, RevivedLoses
    <3>3. SoundCopy(jobs'[j])  BY <2>0, <3>1, <3>2, SoundState
    <3>4. \A i \in Jobs \ {j} : jobs'[i] = jobs[i] /\ Untouched(i)
      BY <1>2, <1>a, <2>0, <3>1 DEF MergeLatest, Untouched
    <3> QED BY <2>0, <2>1, <3>3, <3>4, OneJob
  <2> QED BY <1>2, <2>2, <2>3 DEF MergeLatest, Merge
<1>3. CASE AcquireSession  BY <1>3, <1>c DEF AcquireSession, SchedulerPC
<1>4. CASE SessionBusy  BY <1>4, <1>c DEF SessionBusy
<1>5. CASE AdmitJob
  <2> DEFINE admitted == [status |-> "admitted", attempt |-> jobs[j].attempt + 1,
                          fence |-> jobs[j].fence + 1, token |-> tokens[j] + 1, lease |-> "live"]
  <2>0. j \in Jobs /\ sched.pc = "admit" /\ jobs[j].status = "queued"
    BY <1>0, <1>5 DEF AdmitJob, Admissible
  <2>1. jobs[j].attempt < MaxAttempts
    <3>1. ~Revived(j)  BY <2>0, SoundState
    <3>2. jobs[j].attempt \in Nat  BY <1>0, <2>0, RecordTypes
    <3> QED BY <2>0, <3>1, <3>2, CountsAssumption DEF Revived, Returned
  <2>2. SoundCopy(admitted)
    <3>1. jobs[j].attempt \in Nat /\ SoundJob(jobs[j])  BY <1>0, <2>0, RecordTypes, SoundState
    <3> QED BY <2>1, <3>1, CountsAssumption DEF SoundCopy, SoundJob, Exists
  <2>3. jobs' = [jobs EXCEPT ![j] = admitted] /\ sched' = [sched EXCEPT !.pc = "stage", !.rec = admitted]
    BY <1>5 DEF AdmitJob
  <2> HIDE DEF admitted
  <2>4. sched'.job = j /\ sched'.rec = admitted  BY <1>0, <2>3 DEF Scheduler
  <2>5. CopiesStaySound  BY <1>5, <2>2, <2>4, SoundState DEF AdmitJob, CopiesStaySound
  <2>6. SoundCopy(jobs'[j])  BY <1>0, <2>0, <2>2, <2>3
  <2>7. \A i \in Jobs \ {j} : jobs'[i] = jobs[i] /\ Untouched(i)
    BY <1>0, <1>5, <2>3, <2>4 DEF AdmitJob, Untouched
  <2> QED BY <2>0, <2>5, <2>6, <2>7, OneJob
<1>6. CASE AdmissionLost  BY <1>6, <1>c DEF AdmissionLost, SchedulerPC
<1>7. CASE StageDispatch
  <2>0. j \in Jobs /\ sched'.job = j /\ sched'.rec = sched.rec  BY <1>0, <1>7, <1>b DEF StageDispatch
  <2>1. ~Revived(j)  BY <1>7, <2>0, SoundState DEF StageDispatch
  <2>2. CopiesStaySound  BY <1>0, <1>7, <2>0, SoundState DEF StageDispatch, CopiesStaySound
  <2>3. SoundCopy(jobs'[j])  BY <1>7, <2>0, <2>1, SoundState DEF StageDispatch
  <2>4. \A i \in Jobs \ {j} : jobs'[i] = jobs[i] /\ Untouched(i)
    BY <1>0, <1>7, <2>0 DEF StageDispatch, Untouched
  <2> QED BY <2>0, <2>2, <2>3, <2>4, OneJob
<1>8. CASE EnqueueDispatch  BY <1>8, <1>c DEF EnqueueDispatch, SchedulerPC
<1>9. CASE MarkDispatchSent  BY <1>9, <1>c DEF MarkDispatchSent, SchedulerPC
<1>10. CASE HandleDispatchFailure
  <2> DEFINE exhausted == jobs[j].attempt >= MaxAttempts
             target == IF exhausted THEN "failed" ELSE "queued"
             legal == CanMove(jobs[j].status, target)
  <2>0. /\ j \in Jobs /\ sched.pc = "failed" /\ ~Revived(j)
        /\ (sched'.job = 0 \/ sched'.job = j) /\ (sched'.rec = NoJob \/ sched'.rec = sched.rec)
    BY <1>0, <1>10, <1>a, <1>b, SoundState DEF HandleDispatchFailure
  <2>1. UNCHANGED <<snap, rows, worker, readVars>> /\ dirty' \subseteq dirty \cup {j}
    BY <1>10 DEF HandleDispatchFailure, PersistJob
  <2>2. CopiesStaySound  BY <2>0, <2>1, SoundState, SoundRecords DEF CopiesStaySound
  <2>3. jobs' = [jobs EXCEPT ![j] = Withdrawn(@, IF legal THEN target ELSE @.status)]
    BY <1>10 DEF HandleDispatchFailure
  <2>4. SoundCopy(jobs'[j])
    <3>1. jobs'[j] = Withdrawn(jobs[j], IF legal THEN target ELSE jobs[j].status)
      BY <1>0, <2>0, <2>3
    <3>2. CASE legal /\ exhausted  BY <2>0, <3>1, <3>2, SoundState, SoundRecords, StatusNames
    <3>3. CASE legal /\ ~exhausted
      <4>1. jobs[j].attempt < MaxAttempts
        <5>1. jobs[j].attempt \in Nat  BY <1>0, <2>0, RecordTypes
        <5> QED BY <3>3, <5>1, CountsAssumption
      <4> QED BY <2>0, <3>1, <3>3, <4>1, SoundState, SoundRecords
    <3>4. CASE ~legal
      <4>1. SoundCopy(jobs[j])  BY <2>0, SoundState
      <4>2. jobs'[j] = [jobs[j] EXCEPT !.token = 0, !.lease = "none"]
        BY <1>0, <2>0, <3>1, <3>4 DEF Withdrawn, JobRecord
      <4> QED BY <1>0, <2>0, <4>1, <4>2 DEF SoundCopy, SoundJob, Returned, JobRecord, Exists
    <3> QED BY <3>2, <3>3, <3>4
  <2> HIDE DEF exhausted, target, legal
  <2>5. \A i \in Jobs \ {j} : jobs'[i] = jobs[i] /\ Untouched(i)
    BY <1>0, <1>a, <2>0, <2>1, <2>3 DEF Untouched
  <2> QED BY <2>0, <2>2, <2>4, <2>5, OneJob
<1>11. CASE FinishDispatch  BY <1>11, <1>c DEF FinishDispatch
<1>12. CASE SchedulerUnlock  BY <1>12, <1>c DEF SchedulerUnlock
<1>13. CASE LoadFails
  <2>1. sched'.job = 0 /\ sched'.rec = NoJob  BY <1>13, <1>a DEF LoadFails
  <2>2. CopiesStaySound
    BY <1>13, <2>1, SoundState, SoundRecords DEF LoadFails, Fault, CopiesStaySound
  <2>3. \A i \in Jobs : Kept(i)  BY <1>13, <1>a, <2>1 DEF LoadFails, Fault, Kept, Untouched
  <2> QED BY <2>2, <2>3, Conclude
<1>14. CASE DispatchFails  BY <1>14, <1>c DEF DispatchFails, SchedulerPC
<1> QED BY <1>1, <1>2, <1>3, <1>4, <1>5, <1>6, <1>7, <1>8, <1>9, <1>10, <1>11, <1>12, <1>13, <1>14
        DEF Dispatching

\* The sweep for expired leases requeues a job only while it has an attempt left.
LEMMA SweepingAttempts ==
  ASSUME TypeOK, TypeOK', AttemptsInv, Sweeping
  PROVE  AttemptsInv'
<1> USE DEF queueVars, pendingVars, storeVars, brokerVars, readVars, countVars
<1>0. /\ jobs \in [Jobs -> JobRecord] /\ sched \in Scheduler
      /\ sched.pc \notin {"idle", "sweep"} => sched.job \in Jobs
  BY SchedulerTypes DEF TypeOK
<1>a. IdleScheduler.job = 0 /\ IdleScheduler.rec = NoJob /\ 0 \notin Jobs
  BY JobNumbers DEF IdleScheduler
<1>b. \A j : \/ SweptFrom(j) = IdleScheduler
             \/ SweptFrom(j).job = sched.job /\ SweptFrom(j).rec = sched.rec
  BY <1>0 DEF SweptFrom, Scheduler
\* A step of the sweep that leaves the jobs and their copies alone.
<1>c. ASSUME UNCHANGED <<jobs, storeVars, worker, readVars>>,
             sched.pc \notin {"load", "merge"},
             sched'.job = 0 \/ sched'.job = sched.job, sched'.rec = NoJob \/ sched'.rec = sched.rec
      PROVE  AttemptsInv'
  <2>1. CopiesStaySound  BY <1>c, SoundState, SoundRecords DEF CopiesStaySound
  <2>2. \A i \in Jobs : Kept(i)  BY <1>a, <1>c, SoundState DEF Kept, Untouched
  <2> QED BY <2>1, <2>2, Conclude
<1>1. CASE LoadStale
  <2>1. sched'.job = sched.job /\ sched'.rec = sched.rec  BY <1>0, <1>1 DEF LoadStale, Scheduler
  <2> QED BY <1>1, <1>c, <2>1 DEF LoadStale
<1>2. ASSUME NEW j \in Jobs, SkipStalled(j) PROVE AttemptsInv'
  <2>1. (sched'.job = 0 \/ sched'.job = sched.job) /\ (sched'.rec = NoJob \/ sched'.rec = sched.rec)
    BY <1>2, <1>a, <1>b DEF SkipStalled
  <2> QED BY <1>2, <1>c, <2>1 DEF SkipStalled
<1>3. ASSUME NEW j \in Jobs, FailStalled(j) PROVE AttemptsInv'
  <2>1. (sched'.job = 0 \/ sched'.job = sched.job) /\ (sched'.rec = NoJob \/ sched'.rec = sched.rec)
    BY <1>3, <1>a, <1>b DEF FailStalled
  <2>2. CopiesStaySound
    BY <1>3, <2>1, SoundState, SoundRecords DEF FailStalled, PersistJob, CopiesStaySound
  <2>3. SoundCopy(jobs'[j])
    <3>1. jobs'[j] = Withdrawn(jobs[j], "failed")  BY <1>0, <1>3 DEF FailStalled
    <3> QED BY <3>1, SoundState, SoundRecords, StatusNames
  <2>4. \A i \in Jobs \ {j} : Kept(i)
    BY <1>0, <1>3, <1>a, <2>1, SoundState DEF FailStalled, Stalled, PersistJob, Kept, Untouched
  <2> QED BY <2>2, <2>3, <2>4, Conclude
<1>4. ASSUME NEW j \in Jobs, RequeueStalled(j) PROVE AttemptsInv'
  <2>1. sched'.job = j /\ sched'.rec = sched.rec  BY <1>0, <1>4 DEF RequeueStalled, Scheduler
  <2>2. CopiesStaySound
    BY <1>4, <2>1, SoundState DEF RequeueStalled, PersistJob, CopiesStaySound
  <2>3. SoundCopy(jobs'[j])
    <3>1. jobs'[j] = Withdrawn(jobs[j], "queued") /\ jobs[j].attempt < MaxAttempts
      BY <1>0, <1>4 DEF RequeueStalled
    <3> QED BY <3>1, SoundState, SoundRecords
  <2>4. \A i \in Jobs \ {j} : jobs'[i] = jobs[i] /\ Untouched(i)
    BY <1>0, <1>4, <2>1 DEF RequeueStalled, PersistJob, Untouched
  <2> QED BY <2>2, <2>3, <2>4, OneJob
<1>5. CASE SweepUnlock
  <2>1. sched'.job = 0 /\ (sched'.rec = NoJob \/ sched'.rec = sched.rec)
    BY <1>0, <1>5, <1>a DEF SweepUnlock, SweptFrom, Scheduler, IdleScheduler
  <2> QED BY <1>5, <1>c, <2>1 DEF SweepUnlock
<1> QED BY <1>1, <1>2, <1>3, <1>4, <1>5 DEF Sweeping

\* A step of a worker that changes no job keeps the invariant.
LEMMA WorkerMoves ==
  ASSUME TypeOK, TypeOK', AttemptsInv, NEW w \in Workers, NEW x,
         UNCHANGED <<jobs, storeVars, sched, readVars>>, worker' = [worker EXCEPT ![w] = x],
         \/ x = IdleWorker
         \/ /\ x.job = worker[w].job /\ (x.beat => worker[w].beat)
            /\ Exists(x.obj) => Exists(worker[w].obj)
  PROVE  AttemptsInv'
<1> USE DEF storeVars, readVars
<1>1. IdleWorker.job \notin Jobs  BY JobNumbers DEF IdleWorker
<1>2. CopiesStaySound  BY SoundState DEF CopiesStaySound
<1>3. worker'[w] = x /\ \A v \in Workers \ {w} : worker'[v] = worker[v]  BY DEF TypeOK
<1>4. \A i \in Jobs : Kept(i)  BY <1>1, <1>3 DEF Kept, Untouched
<1> QED BY <1>2, <1>4, Conclude

\* The fields of a worker that a step leaves alone.
LEMMA WorkerFields ==
  ASSUME NEW x \in Worker, NEW p, NEW b, NEW o
  PROVE  /\ \A y \in {[x EXCEPT !.pc = p], [x EXCEPT !.pc = p, !.raised = b]} :
              y.job = x.job /\ y.beat = x.beat /\ y.obj = x.obj
         /\ \A y \in {[x EXCEPT !.pc = p, !.obj = o], [x EXCEPT !.pc = p, !.obj = o, !.raised = b]} :
              y.job = x.job /\ y.beat = x.beat /\ y.obj = o
         /\ LET y == [x EXCEPT !.pc = p, !.beat = b] IN
            y.job = x.job /\ y.beat = b /\ y.obj = x.obj
         /\ LET y == [x EXCEPT !.beat = b] IN
            y.job = x.job /\ y.beat = b /\ y.obj = x.obj
         /\ LET y == [x EXCEPT !.pc = p, !.obj = o, !.beat = b] IN
            y.job = x.job /\ y.beat = b /\ y.obj = o
BY DEF Worker

\* A step of a worker that leaves its own job sound keeps the invariant.
LEMMA WorkerChanges ==
  ASSUME TypeOK, TypeOK', AttemptsInv, NEW w \in Workers, NEW x, NEW j \in Jobs, j = worker[w].job,
         SoundCopy(jobs'[j]), \A i \in Jobs \ {j} : jobs'[i] = jobs[i],
         dirty' \subseteq dirty \cup {j}, UNCHANGED <<snap, rows, sched, readVars>>,
         worker' = [worker EXCEPT ![w] = x], x.job = j
  PROVE  AttemptsInv'
<1> USE DEF readVars
<1>1. CopiesStaySound  BY SoundState DEF CopiesStaySound
<1>2. worker'[w] = x /\ \A v \in Workers \ {w} : worker'[v] = worker[v]  BY DEF TypeOK
<1>3. \A i \in Jobs \ {j} : jobs'[i] = jobs[i] /\ Untouched(i)  BY <1>2 DEF Untouched
<1> QED BY <1>1, <1>3, OneJob

\* A worker begins no revived job, and no heartbeat renews one.
LEMMA BeginningAttempts ==
  ASSUME TypeOK, TypeOK', AttemptsInv,
         NEW w \in Workers, Beginning(w) \/ Heartbeat(w) \/ RuntimeFails(w)
  PROVE  AttemptsInv'
<1> USE DEF queueVars, pendingVars, storeVars, brokerVars, readVars, countVars
<1> DEFINE j == worker[w].job
<1>0. /\ jobs \in [Jobs -> JobRecord] /\ rows \in [Jobs -> JobRecord]
      /\ worker \in [Workers -> Worker] /\ worker[w] \in Worker
      /\ worker[w].pc # "idle" \/ worker[w].beat => j \in Jobs
      /\ ~Exists(NoJob)
  BY WorkerTypes DEF TypeOK, Exists, NoJob
<1>1. CASE TakeMessage(w)
  <2> DEFINE m == Head(stream)
             x == [IdleWorker EXCEPT !.pc = "begin", !.job = m.job, !.token = m.token]
  <2>1. CopiesStaySound  BY <1>1, SoundState DEF TakeMessage, CopiesStaySound
  <2>2. worker'[w] = x /\ \A v \in Workers \ {w} : worker'[v] = worker[v]
    BY <1>0, <1>1 DEF TakeMessage
  <2>3. ~x.beat /\ x.obj = NoJob  BY DEF IdleWorker
  <2> HIDE DEF x
  <2>4. \A i \in Jobs : Untouched(i)  BY <1>0, <1>1, <2>2, <2>3 DEF TakeMessage, Untouched
  <2>5. \A i \in Jobs : jobs'[i] = jobs[i] \/ jobs'[i] = rows[i]
    BY <1>0, <1>1 DEF TakeMessage
  <2>6. \A i \in Jobs : SoundCopy(jobs'[i]) \/ Kept(i)  BY <2>4, <2>5, SoundState DEF Kept
  <2> QED BY <2>1, <2>6, Conclude
<1>2. CASE BeginIgnored(w)
  <2> DEFINE x == [worker[w] EXCEPT !.pc = "settle", !.obj = NoJob]
  <2>1. worker' = [worker EXCEPT ![w] = x]  BY <1>0, <1>2 DEF BeginIgnored
  <2>2. x.job = worker[w].job /\ x.beat = worker[w].beat /\ ~Exists(x.obj)
    BY <1>0, WorkerFields
  <2> HIDE DEF x
  <2> QED BY <1>2, <2>1, <2>2, WorkerMoves DEF BeginIgnored
<1>3. CASE BeginCancelled(w)
  <2> DEFINE x == [worker[w] EXCEPT !.pc = "release", !.obj = NoJob]
  <2>0. j \in Jobs  BY <1>0, <1>3 DEF BeginCancelled, CanStart, CanBegin
  <2>1. worker' = [worker EXCEPT ![w] = x]  BY <1>0, <1>3 DEF BeginCancelled
  <2>2. x.job = j  BY <1>0, WorkerFields
  <2> HIDE DEF x
  <2>3. SoundCopy(jobs'[j])
    <3>1. CASE Shared(w)
      <4>1. jobs'[j] = [jobs[j] EXCEPT !.status = "cancelled"]
        BY <1>0, <1>3, <2>0, <3>1 DEF BeginCancelled, Finished
      <4> QED BY <2>0, <4>1, SoundState, SoundRecords, StatusNames
    <3>2. CASE ~Shared(w)
      <4>1. jobs'[j] = jobs[j] /\ ~Revived(j)
        BY <1>3, <2>0, <3>2, SoundState DEF BeginCancelled, Shared
      <4> QED BY <2>0, <4>1, SoundState
    <3> QED BY <3>1, <3>2
  <2>4. \A i \in Jobs \ {j} : jobs'[i] = jobs[i]  BY <1>0, <1>3 DEF BeginCancelled, Finished
  <2> QED BY <1>3, <2>0, <2>1, <2>2, <2>3, <2>4, WorkerChanges DEF BeginCancelled, PersistJob
<1>4. CASE BeginIllegal(w)
  <2> DEFINE x == [worker[w] EXCEPT !.pc = "retry", !.obj = NoJob, !.raised = TRUE]
  <2>1. worker' = [worker EXCEPT ![w] = x]  BY <1>0, <1>4 DEF BeginIllegal
  <2>2. x.job = worker[w].job /\ x.beat = worker[w].beat /\ ~Exists(x.obj)
    BY <1>0, WorkerFields
  <2> HIDE DEF x
  <2> QED BY <1>4, <2>1, <2>2, WorkerMoves DEF BeginIllegal
<1>5. CASE BeginRunning(w)
  <2> DEFINE x == [worker[w] EXCEPT !.pc = "running", !.obj = NoJob, !.beat = TRUE]
  <2>0. j \in Jobs  BY <1>0, <1>5 DEF BeginRunning, CanStart, CanBegin
  <2>1. worker' = [worker EXCEPT ![w] = x]  BY <1>0, <1>5 DEF BeginRunning
  <2>2. x.job = j  BY <1>0, WorkerFields
  <2> HIDE DEF x
  <2>3. SoundCopy(jobs'[j])
    <3>1. CASE Shared(w)
      <4>1. jobs'[j] = [jobs[j] EXCEPT !.status = "running"]
        BY <1>0, <1>5, <2>0, <3>1 DEF BeginRunning
      <4> QED BY <2>0, <4>1, SoundState, SoundRecords, StatusNames
    <3>2. CASE ~Shared(w)
      <4>1. jobs'[j] = jobs[j] /\ ~Revived(j)
        BY <1>5, <2>0, <3>2, SoundState DEF BeginRunning, Shared
      <4> QED BY <2>0, <4>1, SoundState
    <3> QED BY <3>1, <3>2
  <2>4. \A i \in Jobs \ {j} : jobs'[i] = jobs[i]  BY <1>0, <1>5 DEF BeginRunning
  <2> QED BY <1>5, <2>0, <2>1, <2>2, <2>3, <2>4, WorkerChanges DEF BeginRunning, PersistJob
<1>6. CASE Heartbeat(w)
  <2>0. j \in Jobs /\ ~Revived(j)  BY <1>0, <1>6, SoundState DEF Heartbeat
  <2>1. PICK b : worker' = [worker EXCEPT ![w].beat = b]  BY <1>6 DEF Heartbeat
  <2> DEFINE x == [worker[w] EXCEPT !.beat = b]
  <2>2. worker' = [worker EXCEPT ![w] = x] /\ x.job = j  BY <1>0, <2>1, WorkerFields
  <2> HIDE DEF x
  <2>3. SoundCopy(jobs'[j]) /\ dirty' \subseteq dirty \cup {j} /\ UNCHANGED <<snap, rows>>
    <3>1. CASE Holds(w)
      <4>1. jobs'[j] = [jobs[j] EXCEPT !.lease = "live"] /\ PersistJob(j)
        BY <1>0, <1>6, <2>0, <3>1 DEF Heartbeat
      <4>2. SoundCopy(jobs'[j])  BY <2>0, <4>1, SoundState, SoundRecords DEF Revived
      <4> QED BY <4>1, <4>2 DEF PersistJob
    <3>2. CASE ~Holds(w)  BY <1>6, <2>0, <3>2, SoundState DEF Heartbeat
    <3> QED BY <3>1, <3>2
  <2>4. \A i \in Jobs \ {j} : jobs'[i] = jobs[i]  BY <1>0, <1>6 DEF Heartbeat
  <2> QED BY <1>6, <2>0, <2>2, <2>3, <2>4, WorkerChanges DEF Heartbeat
<1>7. CASE RuntimeFails(w)
  <2> DEFINE x == [worker[w] EXCEPT !.pc = "failing"]
  <2>1. worker' = [worker EXCEPT ![w] = x]  BY <1>0, <1>7 DEF RuntimeFails, WorkerAt
  <2>2. x.job = worker[w].job /\ x.beat = worker[w].beat /\ x.obj = worker[w].obj
    BY <1>0, WorkerFields
  <2> HIDE DEF x
  <2> QED BY <1>7, <2>1, <2>2, WorkerMoves DEF RuntimeFails
<1> QED BY <1>1, <1>2, <1>3, <1>4, <1>5, <1>6, <1>7 DEF Beginning

\* The end of an execution requeues a job only while it has an attempt left.
LEMMA EndingAttempts ==
  ASSUME TypeOK, TypeOK', AttemptsInv, NEW w \in Workers, Ending(w)
  PROVE  AttemptsInv'
<1> USE DEF queueVars, pendingVars, storeVars, brokerVars, readVars, countVars
<1> DEFINE j == worker[w].job
<1>0. /\ jobs \in [Jobs -> JobRecord] /\ rows \in [Jobs -> JobRecord]
      /\ worker \in [Workers -> Worker] /\ worker[w] \in Worker
      /\ worker[w].pc # "idle" => j \in Jobs
  BY WorkerTypes DEF TypeOK
\* Only the worker moves.
<1>a. ASSUME UNCHANGED <<jobs, storeVars, sched, readVars>>, NEW p, WorkerAt(w, p)
      PROVE  AttemptsInv'
  <2> DEFINE x == [worker[w] EXCEPT !.pc = p]
  <2>1. worker' = [worker EXCEPT ![w] = x]  BY <1>0, <1>a DEF WorkerAt
  <2>2. x.job = worker[w].job /\ x.beat = worker[w].beat /\ x.obj = worker[w].obj
    BY <1>0, WorkerFields
  <2> HIDE DEF x
  <2> QED BY <1>a, <2>1, <2>2, WorkerMoves
\* The worker moves and gives its job an outcome.
<1>b. ASSUME UNCHANGED <<sched, readVars>>, NEW p, WorkerAt(w, p), j \in Jobs,
             NEW st \in {"succeeded", "failed", "cancelled"}, Finished(j, st), PersistJob(j)
      PROVE  AttemptsInv'
  <2> DEFINE x == [worker[w] EXCEPT !.pc = p]
  <2>1. worker' = [worker EXCEPT ![w] = x] /\ x.job = j
    BY <1>0, <1>b, WorkerFields DEF WorkerAt
  <2> HIDE DEF x
  <2>2. jobs'[j] = [jobs[j] EXCEPT !.status = st]  BY <1>0, <1>b DEF Finished
  <2>3. SoundCopy(jobs'[j])  BY <1>b, <2>2, SoundState, SoundRecords, StatusNames
  <2>4. \A i \in Jobs \ {j} : jobs'[i] = jobs[i]  BY <1>0, <1>b DEF Finished
  <2> QED BY <1>b, <2>1, <2>3, <2>4, WorkerChanges DEF PersistJob
<1>1. ASSUME NEW outcome \in {"succeeded", "failed"}, Publish(w, outcome) PROVE AttemptsInv'
  BY <1>0, <1>1, <1>b DEF Publish
<1>2. ASSUME NEW outcome \in {"succeeded", "failed"}, PublishIllegal(w, outcome) PROVE AttemptsInv'
  BY <1>2, <1>a DEF PublishIllegal
<1>3. CASE EndCancelled(w)  BY <1>0, <1>3, <1>b DEF EndCancelled, MarkCancelled
<1>4. CASE EndIgnored(w)  BY <1>4, <1>a DEF EndIgnored
<1>5. CASE FailJob(w)
  <2>0. j \in Jobs  BY <1>0, <1>5 DEF FailJob
  <2> DEFINE legal == CanMove(jobs[j].status, "failed")
             x == [worker[w] EXCEPT !.pc = "release", !.raised = ~legal]
  <2>1. worker' = [worker EXCEPT ![w] = x]  BY <1>0, <1>5 DEF FailJob
  <2>2. x.job = j /\ x.beat = worker[w].beat /\ x.obj = worker[w].obj  BY <1>0, WorkerFields
  <2> HIDE DEF x
  <2>3. CASE legal
    <3>1. Finished(j, "failed") /\ PersistJob(j)  BY <1>5, <2>3 DEF FailJob
    <3>2. jobs'[j] = [jobs[j] EXCEPT !.status = "failed"]  BY <1>0, <2>0, <3>1 DEF Finished
    <3>3. SoundCopy(jobs'[j])  BY <2>0, <3>2, SoundState, SoundRecords, StatusNames
    <3>4. \A i \in Jobs \ {j} : jobs'[i] = jobs[i]  BY <1>0, <3>1 DEF Finished
    <3> QED BY <1>5, <2>0, <2>1, <2>2, <3>1, <3>3, <3>4, WorkerChanges DEF FailJob, PersistJob
  <2>4. CASE ~legal
    <3>1. UNCHANGED <<jobs, storeVars, sched, readVars>>  BY <1>5, <2>4 DEF FailJob
    <3> QED BY <2>1, <2>2, <3>1, WorkerMoves
  <2> QED BY <2>3, <2>4
<1>6. CASE WorkerRelease(w)
  <2> DEFINE x == [worker[w] EXCEPT !.pc = "discard", !.beat = FALSE]
  <2>1. worker' = [worker EXCEPT ![w] = x]  BY <1>0, <1>6 DEF WorkerRelease
  <2>2. x.job = worker[w].job /\ ~x.beat /\ x.obj = worker[w].obj  BY <1>0, WorkerFields
  <2> HIDE DEF x
  <2> QED BY <1>6, <2>1, <2>2, WorkerMoves DEF WorkerRelease
<1>7. CASE WorkerDiscard(w)  BY <1>7, <1>a DEF WorkerDiscard
<1>8. CASE Settle(w)
  <2> DEFINE x == [worker[w] EXCEPT !.pc = "retry"]
  <2>1. worker' = [worker EXCEPT ![w] = x] \/ worker' = [worker EXCEPT ![w] = IdleWorker]
    BY <1>0, <1>8 DEF Settle
  <2>2. x.job = worker[w].job /\ x.beat = worker[w].beat /\ x.obj = worker[w].obj
    BY <1>0, WorkerFields
  <2> HIDE DEF x
  <2> QED BY <1>8, <2>1, <2>2, WorkerMoves DEF Settle
<1>9. CASE RetryIgnored(w)  BY <1>9, WorkerMoves DEF RetryIgnored
<1>10. CASE RetryCancelled(w)  BY <1>0, <1>10, <1>b DEF RetryCancelled, MarkCancelled
<1>11. CASE RetryDispatch(w)
  <2> DEFINE exhausted == jobs[j].attempt >= MaxAttempts
             x == [worker[w] EXCEPT !.pc = "unlock"]
  <2>0. j \in Jobs  BY <1>0, <1>11 DEF RetryDispatch
  <2>1. worker' = [worker EXCEPT ![w] = x] /\ x.job = j
    BY <1>0, <1>11, WorkerFields DEF RetryDispatch, WorkerAt
  <2>2. jobs' = [jobs EXCEPT ![j] = Withdrawn(@, IF exhausted THEN "failed" ELSE "queued")]
    BY <1>11 DEF RetryDispatch
  <2>3. SoundCopy(jobs'[j])
    <3>1. CASE exhausted
      <4>1. jobs'[j] = Withdrawn(jobs[j], "failed")  BY <1>0, <2>0, <2>2, <3>1
      <4> QED BY <2>0, <4>1, SoundState, SoundRecords, StatusNames
    <3>2. CASE ~exhausted
      <4>1. jobs'[j] = Withdrawn(jobs[j], "queued")  BY <1>0, <2>0, <2>2, <3>2
      <4>2. jobs[j].attempt \in Nat  BY <1>0, <2>0, RecordTypes
      <4>3. jobs[j].attempt < MaxAttempts  BY <3>2, <4>2, CountsAssumption
      <4> QED BY <2>0, <4>1, <4>3, SoundState, SoundRecords
    <3> QED BY <3>1, <3>2
  <2>4. \A i \in Jobs \ {j} : jobs'[i] = jobs[i]  BY <1>0, <2>2
  <2> HIDE DEF x, exhausted
  <2> QED BY <1>11, <2>0, <2>1, <2>3, <2>4, WorkerChanges DEF RetryDispatch, PersistJob
<1>12. CASE WorkerUnlock(w)  BY <1>12, WorkerMoves DEF WorkerUnlock
<1> QED BY <1>1, <1>2, <1>3, <1>4, <1>5, <1>6, <1>7, <1>8, <1>9, <1>10, <1>11, <1>12 DEF Ending

\* No snapshot of a revived job is taken, so its row goes on contradicting it.
LEMMA PersistingAttempts ==
  ASSUME TypeOK, TypeOK', AttemptsInv, Persisting
  PROVE  AttemptsInv'
<1> USE DEF queueVars, pendingVars, storeVars, brokerVars, readVars, countVars
<1>1. ASSUME NEW j \in Jobs, TakeSnapshot(j) PROVE AttemptsInv'
  <2>1. ~Revived(j) /\ SoundCopy(jobs[j])  BY <1>1, SoundState DEF TakeSnapshot
  <2>2. CopiesStaySound  BY <1>1, <2>1, SoundState DEF TakeSnapshot, CopiesStaySound
  <2>3. \A i \in Jobs \ {j} : jobs'[i] = jobs[i] /\ Untouched(i)
    BY <1>1 DEF TakeSnapshot, Untouched
  <2> QED BY <1>1, <2>1, <2>2, <2>3, OneJob DEF TakeSnapshot
<1>2. CASE SaveSnapshot
  <2>1. snap.job \in Jobs /\ rows \in [Jobs -> JobRecord]
    BY <1>2, CopyTypes DEF SaveSnapshot, TypeOK, Jobs
  <2>2. ~Revived(snap.job)  BY <2>1, SoundState
  <2>3. CopiesStaySound
    BY <1>2, <2>1, SoundState, SoundRecords DEF SaveSnapshot, CopiesStaySound, NoCopy
  <2>4. SoundCopy(jobs'[snap.job])  BY <1>2, <2>1, <2>2, SoundState DEF SaveSnapshot
  <2>5. \A i \in Jobs \ {snap.job} : jobs'[i] = jobs[i] /\ Untouched(i)
    BY <1>2, <2>1, JobNumbers DEF SaveSnapshot, Untouched, NoCopy
  <2> QED BY <2>1, <2>3, <2>4, <2>5, OneJob
<1> QED BY <1>1, <1>2 DEF Persisting

\* A lease that runs out changes neither the status nor the counts of a job.
LEMMA AgedRecord ==
  ASSUME NEW r \in JobRecord
  PROVE  /\ Aged(r).status = r.status /\ Aged(r).attempt = r.attempt /\ Aged(r).fence = r.fence
         /\ Aged(r).token = r.token
         /\ SoundCopy(r) => SoundCopy(Aged(r))
BY SoundRecords DEF Aged, JobRecord

\* A step that only lets leases run out keeps the invariant.
LEMMA OnlyAges ==
  ASSUME TypeOK, TypeOK', AttemptsInv, UNCHANGED <<dirty, worker>>,
         \A i \in Jobs : jobs'[i] \in {jobs[i], Aged(jobs[i])} /\ rows'[i] \in {rows[i], Aged(rows[i])},
         snap'.job = snap.job, snap'.rec \in {snap.rec, Aged(snap.rec)},
         poll'.rec \in {poll.rec, Aged(poll.rec)}, replay'.rec \in {replay.rec, Aged(replay.rec)},
         sched'.job = sched.job, sched'.pc = sched.pc, sched'.rec \in {sched.rec, Aged(sched.rec)}
  PROVE  AttemptsInv'
<1>1. /\ snap.rec \in JobRecord /\ poll.rec \in JobRecord /\ replay.rec \in JobRecord
      /\ sched.rec \in JobRecord
      /\ \A i \in Jobs : jobs[i] \in JobRecord /\ rows[i] \in JobRecord
  BY CopyTypes, SchedulerTypes DEF TypeOK
<1>2. \A i \in Jobs :
        /\ jobs'[i].status = jobs[i].status /\ jobs'[i].attempt = jobs[i].attempt
        /\ jobs'[i].fence = jobs[i].fence /\ jobs'[i].token = jobs[i].token
        /\ rows'[i].status = rows[i].status /\ rows'[i].fence = rows[i].fence
        /\ SoundCopy(rows'[i])
  BY <1>1, AgedRecord, SoundState
<1>3. sched'.rec.status = sched.rec.status /\ sched'.rec.fence = sched.rec.fence
  BY <1>1, AgedRecord
<1>4. SoundCopy(snap'.rec) /\ SoundCopy(poll'.rec) /\ SoundCopy(replay'.rec) /\ SoundCopy(sched'.rec)
  BY <1>1, AgedRecord, SoundState
<1>5. CopiesSound'
  <2>1. \A i \in Jobs : SoundJob(jobs[i])  BY SoundState
  <2> QED BY <1>2, <1>4, <2>1 DEF CopiesSound, SoundJob, Exists
<1>6. RevivedIsContradicted'
  BY <1>2, <1>3 DEF AttemptsInv, RevivedIsContradicted, Revived, Returned, Contradicts
<1> QED BY <1>5, <1>6 DEF AttemptsInv

\* Expiring leases and locks keep the invariant.
LEMMA TimeoutAttempts ==
  ASSUME TypeOK, TypeOK', AttemptsInv,
         (\E j \in Jobs : LeaseTimeout(j)) \/ \E s \in Sessions : LockTimeout(s)
  PROVE  AttemptsInv'
<1> USE DEF queueVars, pendingVars, storeVars, brokerVars, readVars, countVars
<1>0. /\ jobs \in [Jobs -> JobRecord] /\ rows \in [Jobs -> JobRecord] /\ sched \in Scheduler
      /\ snap \in Copy /\ poll \in Copy /\ replay \in Copy
  BY DEF TypeOK
<1>1. ASSUME NEW j \in Jobs, LeaseTimeout(j) PROVE AttemptsInv'
  <2>1. \A i \in Jobs : jobs'[i] \in {jobs[i], Aged(jobs[i])} /\ rows'[i] \in {rows[i], Aged(rows[i])}
    BY <1>0, <1>1 DEF LeaseTimeout
  <2>2. /\ snap'.job = snap.job /\ snap'.rec \in {snap.rec, Aged(snap.rec)}
        /\ poll'.rec \in {poll.rec, Aged(poll.rec)} /\ replay'.rec \in {replay.rec, Aged(replay.rec)}
    BY <1>0, <1>1 DEF LeaseTimeout, Copy
  <2>3. /\ sched'.job = sched.job /\ sched'.pc = sched.pc
        /\ sched'.rec \in {sched.rec, Aged(sched.rec)}
    BY <1>0, <1>1 DEF LeaseTimeout, Scheduler
  <2> QED BY <1>1, <2>1, <2>2, <2>3, OnlyAges DEF LeaseTimeout
<1>2. ASSUME NEW s \in Sessions, LockTimeout(s) PROVE AttemptsInv'
  BY <1>2, OnlyAges DEF LockTimeout
<1> QED BY <1>1, <1>2

\* A row that is restored as a job without an attempt was not queued, and has its fence.
LEMMA RestoredRecord ==
  ASSUME NEW r \in JobRecord, SoundCopy(r)
  PROVE  /\ SoundJob(Restored(r))
         /\ Restored(r).status = "queued" /\ ~Returned(Restored(r)) =>
              r.status \notin {"queued", "absent"} /\ r.fence = Restored(r).fence
BY CountsAssumption DEF SoundCopy, SoundJob, Returned, Restored, Withdrawn, JobRecord, Exists, NoJob

\* After a restart every revived job is contradicted by the row it was restored from.
LEMMA RestartAttempts ==
  ASSUME TypeOK, TypeOK', AttemptsInv, Restart
  PROVE  AttemptsInv'
<1>1. \A i \in Jobs : jobs'[i] = Restored(rows[i]) /\ rows'[i] = rows[i]  BY DEF Restart
<1>2. /\ snap'.job = 0 /\ snap'.rec = NoJob /\ poll'.rec = NoJob /\ replay'.rec = NoJob
      /\ sched'.job = 0 /\ sched'.rec = NoJob /\ \A w \in Workers : worker'[w].job = 0
      /\ 0 \notin Jobs
  BY JobNumbers DEF Restart, NoCopy, IdleScheduler, IdleWorker
<1>3. dirty' = {i \in Jobs : jobs'[i].status = "cancelled"}  BY DEF Restart
<1>4. CopiesSound'
  <2>1. \A i \in Jobs : SoundJob(jobs'[i]) /\ SoundCopy(rows'[i])
    BY <1>1, RestoredRecord, SoundState
  <2> QED BY <1>2, <2>1, SoundRecords DEF CopiesSound, SoundJob
<1>5. ASSUME NEW i \in Jobs, Revived(i)'
      PROVE  Contradicts(rows[i], i)' /\ i \notin dirty'
  <2>1. jobs'[i].status = "queued" /\ ~Returned(jobs'[i])  BY <1>5 DEF Revived, Returned
  <2> QED BY <1>1, <1>3, <2>1, RestoredRecord, SoundState DEF Contradicts
<1>6. RevivedIsContradicted'  BY <1>2, <1>5 DEF RevivedIsContradicted
<1> QED BY <1>4, <1>6 DEF AttemptsInv

\* The service starts with no job.
LEMMA InitAttempts == Init => AttemptsInv
<1> SUFFICES ASSUME Init PROVE AttemptsInv  OBVIOUS
<1>1. /\ \A i \in Jobs : jobs[i] = NoJob /\ rows[i] = NoJob
      /\ snap.rec = NoJob /\ poll.rec = NoJob /\ replay.rec = NoJob /\ sched.rec = NoJob
  BY DEF Init, NoCopy, IdleScheduler
<1>2. CopiesSound  BY <1>1, SoundRecords DEF CopiesSound, SoundCopy
<1>3. \A i \in Jobs : ~Revived(i)  BY <1>1 DEF Revived, NoJob
<1> QED BY <1>2, <1>3 DEF AttemptsInv, RevivedIsContradicted

\* Every step of the service keeps the invariant.
LEMMA StepAttempts == TypeOK /\ AttemptsInv /\ [Next]_vars => AttemptsInv'
<1> SUFFICES ASSUME TypeOK, AttemptsInv, [Next]_vars PROVE AttemptsInv'  OBVIOUS
<1>0. TypeOK'  BY StepTypes
<1>1. CASE UNCHANGED vars
  BY <1>1 DEF vars, storeVars, readVars, AttemptsInv, CopiesSound, RevivedIsContradicted, Revived, Contradicts
<1>2. CASE Next
  BY <1>0, <1>2, RequestAttempts, MergingAttempts, SelectAttempts, DispatchingAttempts,
     SweepingAttempts, BeginningAttempts, EndingAttempts, PersistingAttempts, TimeoutAttempts,
     RestartAttempts DEF Next
<1> QED BY <1>1, <1>2

\* In every reachable state, a queued job without an attempt left comes from a restart,
\* is not yet dispatched, and is contradicted by its row, which the next merge of
\* _schedule_once believes; every other copy of a queued job has an attempt left.
THEOREM AttemptsInvariant == Spec => []AttemptsInv
BY TypeCorrect, InitAttempts, StepAttempts, PTL DEF Spec

\* Retries are bounded: whatever requests, faults, expired leases, restarts and replays
\* happen, in any order and any number, no job is attempted more than max_attempts times,
\* although the admission of _schedule_once and _restore_from_store do not look at the
\* count.
THEOREM BoundedRetries == Spec => []AttemptsBounded
<1>1. AttemptsInv => AttemptsBounded  BY DEF AttemptsInv, CopiesSound, SoundJob, AttemptsBounded
<1> QED BY <1>1, AttemptsInvariant, PTL
----------------------------------------------------------------------------
(* The fencing tokens: only four actions write a row, and AttemptsInv says that a row that
   does not exist yet has no fence. *)

\* Only create_job, stage_dispatch, save_job and the passing of time change a row.
LEMMA RowWriters ==
  ASSUME Next
  PROVE  \/ UNCHANGED rows
         \/ StageDispatch \/ SaveSnapshot
         \/ \E j \in Jobs : CreateJob(j) \/ LeaseTimeout(j)
<1> USE DEF storeVars
<1>1. ASSUME NEW j \in Jobs, Request(j) PROVE UNCHANGED rows \/ CreateJob(j)
  BY <1>1 DEF Request, ReplayRead, PollRead, CancelQueued, MarkCancelled, CancelActive, PersistJob
<1>2. CASE ReplayApply \/ PollMerge \/ SelectNothing \/ \E k \in Keys : SelectCandidate(k)
  BY <1>2 DEF ReplayApply, PollMerge, SelectNothing, SelectCandidate
<1>3. CASE Dispatching
  BY <1>3 DEF Dispatching, LoadLatest, MergeLatest, AcquireSession, SessionBusy, AdmitJob,
     AdmissionLost, EnqueueDispatch, MarkDispatchSent, HandleDispatchFailure, FinishDispatch,
     SchedulerUnlock, PersistJob
<1>4. CASE LoadFails \/ DispatchFails  BY <1>4 DEF LoadFails, DispatchFails
<1>5. CASE Sweeping
  BY <1>5 DEF Sweeping, LoadStale, SkipStalled, FailStalled, RequeueStalled, SweepUnlock, PersistJob
<1>6. ASSUME NEW w \in Workers, Beginning(w) \/ Heartbeat(w) \/ RuntimeFails(w)
      PROVE  UNCHANGED rows
  BY <1>6 DEF Beginning, TakeMessage, BeginIgnored, BeginCancelled, BeginIllegal, BeginRunning,
     Heartbeat, RuntimeFails, PersistJob
<1>7. ASSUME NEW w \in Workers, Ending(w) PROVE UNCHANGED rows
  BY <1>7 DEF Ending, Publish, PublishIllegal, EndCancelled, MarkCancelled, EndIgnored, FailJob,
     WorkerRelease, WorkerDiscard, Settle, RetryIgnored, RetryCancelled, RetryDispatch,
     WorkerUnlock, PersistJob
<1>8. CASE Persisting  BY <1>8 DEF Persisting, TakeSnapshot
<1>9. CASE (\E s \in Sessions : LockTimeout(s)) \/ Restart  BY <1>9 DEF LockTimeout, Restart
<1> QED BY <1>1, <1>2, <1>3, <1>4, <1>5, <1>6, <1>7, <1>8, <1>9 DEF Next

\* The action of FenceGrows.
FencesGrow == \A j \in Jobs : rows[j].fence <= rows'[j].fence

\* No step lowers the fencing token of a row.
LEMMA StepFences ==
  ASSUME TypeOK, AttemptsInv, [Next]_vars
  PROVE  FencesGrow
<1>0. rows \in [Jobs -> JobRecord] /\ \A j \in Jobs : rows[j].fence \in Nat
  BY RecordTypes DEF TypeOK
<1>1. CASE UNCHANGED rows  BY <1>0, <1>1 DEF FencesGrow
<1>2. ASSUME NEW j \in Jobs, CreateJob(j) PROVE FencesGrow
  <2>1. rows' = [rows EXCEPT ![j] = NewJob] /\ rows[j].fence = 0
    BY <1>2 DEF CreateJob, AttemptsInv, CopiesSound, SoundCopy, SoundJob
  <2>2. NewJob.fence = 0  BY DEF NewJob, NoJob
  <2> QED BY <1>0, <2>1, <2>2 DEF FencesGrow
<1>3. CASE StageDispatch  BY <1>0, <1>3 DEF StageDispatch, FencesGrow
<1>4. CASE SaveSnapshot
  <2>1. snap.rec.fence \in Nat  BY CopyTypes, RecordTypes DEF TypeOK
  <2>2. \A j \in Jobs : rows'[j] = rows[j] \/ (rows'[j] = snap.rec /\ snap.rec.fence >= rows[j].fence)
    BY <1>0, <1>4 DEF SaveSnapshot
  <2> QED BY <1>0, <2>1, <2>2 DEF FencesGrow
<1>5. ASSUME NEW j \in Jobs, LeaseTimeout(j) PROVE FencesGrow
  <2>1. rows' = [rows EXCEPT ![j] = Aged(@)]  BY <1>5 DEF LeaseTimeout
  <2>2. Aged(rows[j]).fence = rows[j].fence  BY <1>0, AgedRecord
  <2> QED BY <1>0, <2>1, <2>2 DEF FencesGrow
<1>6. CASE UNCHANGED vars  BY <1>1, <1>6 DEF vars, storeVars
<1> QED BY <1>1, <1>2, <1>3, <1>4, <1>5, <1>6, RowWriters

\* Fencing: the fencing token of a row of agent_chat_jobs never decreases, in whatever
\* order snapshots and dispatches are written, and whatever is replayed, restored or
\* late.
THEOREM FencingMonotone == Spec => FenceGrows
<1>1. TypeOK /\ AttemptsInv /\ [Next]_vars => [FencesGrow]_vars  BY StepFences
<1>2. Spec => [][FencesGrow]_vars  BY <1>1, TypeCorrect, AttemptsInvariant, PTL DEF Spec
<1> QED BY <1>2 DEF FenceGrows, FencesGrow
=============================================================================
