---------------------------- MODULE LifecycleProofs ----------------------------
(*******************************************************************************)
(* The agent jobs implement the lifecycle of JobLifecycle, and the pending      *)
(* counters are exact, for any number of jobs, users and workers and every      *)
(* max_attempts, as long as Calm and Undisturbed hold (CalmProofs says why they *)
(* are needed).                                                                 *)
(*                                                                              *)
(* A step of the code publishes a record that was read earlier, so that a step  *)
(* is one of the lifecycle is not seen from the step: it follows from what the  *)
(* captured copies of a job can be.  LifeInv adds to the invariants of calm and *)
(* of outcomes what they do not say of the status: a job that was not run since *)
(* its admission has no copy of this admission that was, a job that is running  *)
(* is executed by a worker, and only a waiting job is in a queue.               *)
(*                                                                              *)
(* The counters follow from the same facts: a step either keeps them and who is *)
(* live, or ends one job and gives its place back, or accepts one.              *)
(*                                                                              *)
(* That a queued job can be reached (ReachInv) relates the queues, the rotation *)
(* of the keys and what the scheduler has in its hands.  A key is only left out *)
(* when a dispatch fails for good, which needs as many failed dispatches as a   *)
(* job has attempts: Tried says that nothing else uses an attempt up.           *)
(*******************************************************************************)
EXTENDS OutcomeProofs, FiniteSetTheorems

----------------------------------------------------------------------------
(* The invariant *)

\* A job that has not been run since its admission has no copy of this admission that has.
NotYetRun ==
  \A j \in Jobs : jobs[j].status \in {"queued", "admitted"} =>
    \A rec \in Copies(j) : rec.fence = jobs[j].fence => rec.status \in {"absent", "queued", "admitted"}

\* Who is or was under way was admitted.
Attempted ==
  \A j \in Jobs :
    /\ jobs[j].status \in Active => jobs[j].fence > 0
    /\ \A rec \in Copies(j) : rec.status = "admitted" => rec.fence > 0

\* The jobs that are executed, in the words of the lifecycle.
Executed == {worker[w].job : w \in {v \in Workers : Executing(v)}}

RunningIsRun == \A j \in Jobs : jobs[j].status = "running" => j \in Executed

\* What a job may be while it is in a queue.
Waiting(j) ==
  /\ jobs[j].status \in {"queued", "cancel_requested"}
  /\ jobs[j].status = "cancel_requested" => jobs[j].lease = "none"

QueuesWait == \A j \in Jobs : InQueue(j) => Waiting(j)

\* Until the merge the scheduler's candidate is at the head of its queue, or cancelled.
Candidate ==
  sched.pc \in {"load", "merge"} =>
    jobs[sched.job].status \in Terminal \/ (Waiting(sched.job) /\ AtHead(sched.job))

LifeInv == NotYetRun /\ Attempted /\ RunningIsRun /\ QueuesWait /\ Candidate

----------------------------------------------------------------------------
(* Steps of the lifecycle *)

Same(i) == jobs'[i].status = jobs[i].status /\ jobs'[i].attempt = jobs[i].attempt

\* Only the job j is changed, and its attempt is the same.
Goes(j, from, to) ==
  /\ jobs[j].status \in from /\ jobs'[j].status = to /\ jobs'[j].attempt = jobs[j].attempt
  /\ \A i \in Jobs \ {j} : Same(i)

LifeStep == (\E j \in Jobs : Lifecycle!Step(j)) \/ UNCHANGED Lifecycle!vars

\* What the variables of the lifecycle are.
LEMMA LifeFrame ==
  ASSUME NEW j \in Jobs, NEW from, NEW to, Goes(j, from, to)
  PROVE  /\ Lifecycle!Move(j, from, to)
         /\ UNCHANGED [i \in Jobs |-> jobs[i].attempt]
BY DEF Lifecycle!Move, Goes, Same

\* A step that changes no status, no attempt, no execution and no result.
LEMMA LifeStutters ==
  ASSUME \A i \in Jobs : Same(i), Executed' = Executed, UNCHANGED finals
  PROVE  UNCHANGED Lifecycle!vars
<1>1. UNCHANGED [i \in Jobs |-> jobs[i].status]  BY DEF Same
<1>2. UNCHANGED [i \in Jobs |-> jobs[i].attempt]  BY DEF Same
<1> QED BY <1>1, <1>2 DEF Lifecycle!vars, Executed

\* A step that gives up a job, back to its queue or for good, with nobody executing it.
LEMMA LifeReturns ==
  ASSUME NEW j \in Jobs, j \notin Executed, Executed' = Executed, UNCHANGED finals
  PROVE  /\ Goes(j, {"admitted"}, "queued") /\ jobs[j].attempt < MaxAttempts => Lifecycle!Step(j)
         /\ Goes(j, {"admitted", "cancel_requested"}, "failed") /\ jobs[j].attempt = MaxAttempts
            => Lifecycle!Step(j)
         /\ Goes(j, {"queued", "cancel_requested"}, "cancelled") => Lifecycle!Step(j)
<1>1. ASSUME Goes(j, {"admitted"}, "queued"), jobs[j].attempt < MaxAttempts PROVE Lifecycle!Step(j)
  BY <1>1, LifeFrame DEF Lifecycle!Step, Lifecycle!GiveBack, Executed
<1>2. ASSUME Goes(j, {"admitted", "cancel_requested"}, "failed"), jobs[j].attempt = MaxAttempts
      PROVE  Lifecycle!Step(j)
  BY <1>2, LifeFrame DEF Lifecycle!Step, Lifecycle!GiveUp, Executed
<1>3. ASSUME Goes(j, {"queued", "cancel_requested"}, "cancelled") PROVE Lifecycle!Step(j)
  <2>1. Executed' = Executed \ {j}  OBVIOUS
  <2> QED BY <1>3, <2>1, LifeFrame DEF Lifecycle!Step, Lifecycle!Cancel, Executed
<1> QED BY <1>1, <1>2, <1>3

\* What a step of a worker does to the set of executed jobs.
LEMMA ExecutedChanges ==
  ASSUME TypeOK, NEW w \in Workers, NEW x, worker' = [worker EXCEPT ![w] = x]
  PROVE  /\ ~Executing(w) /\ x.pc \notin {"running", "failing"} => Executed' = Executed
         /\ Executing(w) /\ x.pc \in {"running", "failing"} /\ x.job = worker[w].job
            => Executed' = Executed
         /\ ~Executing(w) /\ x.pc = "running" /\ x.job = worker[w].job
            => Executed' = Executed \cup {worker[w].job}
         /\ (/\ Executing(w) /\ x.pc \notin {"running", "failing"}
             /\ \A v \in Workers : Executing(v) /\ worker[v].job = worker[w].job => v = w)
            => Executed' = Executed \ {worker[w].job}
<1>1. worker'[w] = x /\ \A v \in Workers \ {w} : worker'[v] = worker[v]  BY StateTypes
<1>2. ASSUME ~Executing(w), x.pc \notin {"running", "failing"} PROVE Executed' = Executed
  BY <1>1, <1>2 DEF Executed, Executing
<1>3. ASSUME Executing(w), x.pc \in {"running", "failing"}, x.job = worker[w].job
      PROVE  Executed' = Executed
  BY <1>1, <1>3 DEF Executed, Executing
<1>4. ASSUME ~Executing(w), x.pc = "running", x.job = worker[w].job
      PROVE  Executed' = Executed \cup {worker[w].job}
  BY <1>1, <1>4 DEF Executed, Executing
<1>5. ASSUME Executing(w), x.pc \notin {"running", "failing"},
             \A v \in Workers : Executing(v) /\ worker[v].job = worker[w].job => v = w
      PROVE  Executed' = Executed \ {worker[w].job}
  BY <1>1, <1>5 DEF Executed, Executing
<1> QED BY <1>2, <1>3, <1>4, <1>5

\* A job that is executed is running, or to be cancelled, and served; nobody else serves it.
LEMMA ExecutedJobs ==
  ASSUME TypeOK, CalmInv
  PROVE  /\ \A j \in Jobs : Free(j) => j \notin Executed
         /\ \A w \in Workers : Executing(w) =>
              /\ worker[w].job \in Jobs /\ worker[w].job \in Executed
              /\ Ongoing(worker[w].job, worker[w].token)
              /\ \A v \in Workers : worker[v].job = worker[w].job => v = w
         /\ \A w \in Workers : worker[w].job \in Jobs /\ ~Executing(w) => worker[w].job \notin Executed
         /\ \A j \in Executed : Owns(j)
<1>1. 0 \notin Jobs  BY JobNumbers
<1>2. \A w \in Workers : Executing(w) =>
        /\ worker[w].job \in Jobs /\ Ongoing(worker[w].job, worker[w].token)
  BY StateTypes DEF CalmInv, ServicesSound, ServiceSound, Executing
<1>3. \A v, w \in Workers : worker[w].job \in Jobs /\ worker[v].job = worker[w].job => v = w
  BY <1>1 DEF CalmInv, OneDelivery
<1> QED BY <1>2, <1>3 DEF Executed, Free, Served, Ongoing

\* The attempts of a job.
LEMMA AttemptFacts ==
  ASSUME TypeOK, AttemptsInv
  PROVE  \A j \in Jobs : /\ jobs[j] \in JobRecord /\ jobs[j].attempt \in Nat
                         /\ jobs[j].attempt <= MaxAttempts /\ jobs[j].fence = jobs[j].attempt
                         /\ jobs[j].status = "absent" => jobs[j].attempt = 0
BY SoundState, RecordTypes DEF SoundJob, Exists

\* Requests, writes of rows and the passing of time are steps of the lifecycle.
LEMMA OtherLife ==
  ASSUME TypeOK, AttemptsInv, CalmInv, OutcomeInv, OtherStep
  PROVE  LifeStep
<1> USE DEF queueVars, pendingVars, storeVars, brokerVars, readVars, countVars
<1>0. /\ ~PollMerge /\ UNCHANGED worker /\ UNCHANGED finals /\ Executed' = Executed
      /\ \A j \in Jobs : jobs[j] \in JobRecord
  <2>1. ~PollMerge  BY DEF CalmInv, PollMerge
  <2>2. UNCHANGED worker  BY <2>1, OtherFootprint
  <2> QED BY <2>1, <2>2, OtherFootprint, StateTypes DEF Executed, Executing
<1>1. CASE UNCHANGED jobs  BY <1>0, <1>1, LifeStutters DEF Same, LifeStep
<1>2. ASSUME NEW j \in Jobs, CreateJob(j) PROVE LifeStep
  <2>1. jobs[j].status = "absent" /\ jobs[j].attempt = 0
    BY <1>2, AttemptFacts DEF CreateJob, OutcomeInv, JobsKnown, Exists
  <2>2. jobs'[j] = NewJob /\ \A i \in Jobs \ {j} : jobs'[i] = jobs[i]
    BY <1>2, StateTypes DEF CreateJob
  <2>3. Goes(j, {"absent"}, "queued")  BY <2>1, <2>2 DEF Goes, Same, NewJob, NoJob
  <2> QED BY <1>0, <2>3, LifeFrame DEF LifeStep, Lifecycle!Step, Lifecycle!Accept, Executed
<1>3. ASSUME NEW j \in Jobs, CancelQueued(j) PROVE LifeStep
  <2>1. jobs[j].status = "queued" /\ jobs' = [jobs EXCEPT ![j].status = "cancelled"]
    BY <1>3 DEF CancelQueued, MarkCancelled, Finished
  <2>2. Goes(j, {"queued", "cancel_requested"}, "cancelled")
    BY <1>0, <2>1, StateTypes DEF Goes, Same, JobRecord
  <2>3. j \notin Executed  BY <2>1, ExecutedJobs DEF CalmInv, QueuesSound
  <2> QED BY <1>0, <2>2, <2>3, LifeReturns DEF LifeStep
<1>4. ASSUME NEW j \in Jobs, CancelActive(j) PROVE LifeStep
  <2>1. jobs[j].status \in Live \ {"queued"} /\ jobs' = [jobs EXCEPT ![j].status = "cancel_requested"]
    BY <1>4 DEF CancelActive
  <2>2. jobs[j].status \notin {"admitted", "running"} => Same(j)
    BY <1>0, <2>1, StateTypes DEF Same, JobRecord, Live
  <2>3. CASE jobs[j].status \in {"admitted", "running"}
    <3>1. Goes(j, {"admitted", "running"}, "cancel_requested")
      BY <1>0, <2>1, <2>3, StateTypes DEF Goes, Same, JobRecord
    <3> QED BY <1>0, <3>1, LifeFrame DEF LifeStep, Lifecycle!Step, Lifecycle!RequestCancel, Executed
  <2>4. CASE jobs[j].status \notin {"admitted", "running"}
    <3>1. \A i \in Jobs : Same(i)  BY <2>1, <2>2, <2>4, StateTypes DEF Same
    <3> QED BY <1>0, <3>1, LifeStutters DEF LifeStep
  <2> QED BY <2>3, <2>4
<1>5. ASSUME NEW j \in Jobs, LeaseTimeout(j) PROVE LifeStep
  <2>1. jobs' = [jobs EXCEPT ![j] = Aged(@)]  BY <1>5 DEF LeaseTimeout
  <2>2. Aged(jobs[j]).status = jobs[j].status /\ Aged(jobs[j]).attempt = jobs[j].attempt
    BY <1>0 DEF Aged, JobRecord
  <2>3. \A i \in Jobs : Same(i)  BY <2>1, <2>2, StateTypes DEF Same
  <2> QED BY <1>0, <2>3, LifeStutters DEF LifeStep
<1> QED BY <1>0, <1>1, <1>2, <1>3, <1>4, <1>5, OtherFootprint

\* What the scheduler does to a job is a step of the lifecycle: a merge takes over nothing that
\* has happened since the admission but a dispatch, and nobody executes what is given back.
LEMMA SchedulerLife ==
  ASSUME TypeOK, AttemptsInv, CalmInv, OutcomeInv, LifeInv, SchedulerStep
  PROVE  LifeStep
<1> DEFINE j == sched.job
<1>0. UNCHANGED finals /\ jobs \in [Jobs -> JobRecord] /\ \A i \in Jobs : jobs[i] \in JobRecord
  BY SchedulerFootprint, StateTypes
<1>1. ASSUME UNCHANGED worker PROVE Executed' = Executed  BY <1>1 DEF Executed, Executing
<1>2. ASSUME NEW i \in Jobs, NEW to, jobs' = [jobs EXCEPT ![i] = Withdrawn(@, to)]
      PROVE  /\ jobs'[i].status = to /\ jobs'[i].attempt = jobs[i].attempt
             /\ \A h \in Jobs \ {i} : Same(h)
  BY <1>0, <1>2 DEF Withdrawn, JobRecord, Same
<1>3. CASE UNCHANGED jobs /\ UNCHANGED worker
  BY <1>0, <1>1, <1>3, LifeStutters DEF Same, LifeStep
<1>4. CASE MergeLatest
  <2>1. /\ sched.pc = "merge" /\ j \in Jobs /\ Merge(j, sched.rec) /\ Exists(jobs[j]) /\ Free(j)
        /\ sched.rec \in Copies(j)
    BY <1>4, StateTypes DEF MergeLatest, CalmInv, SchedulerSound, Engaged, Copies
  <2>2. /\ worker' = worker /\ \A i \in Jobs \ {j} : jobs'[i] = jobs[i]
        /\ jobs'[j] = jobs[j] \/ (PersistedWins(jobs[j], sched.rec) /\ jobs'[j] = sched.rec)
    BY <2>1, FreeMerge
  <2>3. CASE jobs'[j] = jobs[j]  BY <1>0, <1>1, <2>2, <2>3, LifeStutters DEF Same, LifeStep
  <2>4. CASE PersistedWins(jobs[j], sched.rec) /\ jobs'[j] = sched.rec
    <3>1. /\ jobs'[j].fence = jobs[j].fence /\ jobs'[j].status \in Live
          /\ jobs[j].status \in Live
      BY <2>1, <2>4, ReplacedIsAlike DEF Replaced
    <3>2. jobs'[j].attempt = jobs[j].attempt
      BY <2>1, <2>4, <3>1, SoundState DEF SoundCopy, SoundJob
    <3>3. Waiting(j)  BY <2>1, <3>1, StatusSets DEF LifeInv, Candidate
    <3>4. CASE jobs[j].status = "queued"
      <4>1. sched.rec.status \in {"queued", "admitted"}
        BY <2>1, <2>4, <3>1, <3>4, StatusSets DEF LifeInv, NotYetRun
      <4>2. CASE sched.rec.status = "queued"
        BY <1>0, <1>1, <2>2, <2>4, <3>2, <3>4, <4>2, LifeStutters DEF Same, LifeStep
      <4>3. CASE sched.rec.status = "admitted"
        <5>1. jobs[j].attempt > 0
          BY <2>1, <2>4, <3>1, <4>3, AttemptFacts DEF LifeInv, Attempted
        <5>2. PICK i \in Jobs : i = sched.job  BY <2>1
        <5>3. Goes(i, {"queued"}, "admitted")
          BY <2>2, <2>4, <3>2, <3>4, <4>3, <5>2 DEF Goes, Same
        <5>4. Lifecycle!Reinstate(i)
          BY <1>0, <1>1, <2>1, <2>2, <5>1, <5>2, <5>3, LifeFrame DEF Lifecycle!Reinstate, Executed
        <5>5. Lifecycle!Step(i)  BY <5>4 DEF Lifecycle!Step
        <5> QED BY <5>5 DEF LifeStep
      <4> QED BY <4>1, <4>2, <4>3
    <3>5. CASE jobs[j].status = "cancel_requested"
      <4>1. sched.rec.status = "cancel_requested"
        <5>1. jobs[j].lease = "none" /\ sched.rec.status \notin Terminal
          BY <2>4, <3>1, <3>3, <3>5, StatusSets DEF Waiting
        <5>2. sched.rec.fence \in Nat /\ sched.rec.fence = jobs[j].fence  BY <1>0, <2>4, <3>1, StateTypes DEF JobRecord
        <5>3. Rank[sched.rec.status] >= Rank["cancel_requested"]
          BY <2>1, <2>4, <3>5, <5>1, <5>2 DEF PersistedWins
        <5> QED BY <2>4, <3>1, <5>3 DEF Rank, Live
      <4> QED BY <1>0, <1>1, <2>2, <2>4, <3>2, <3>5, <4>1, LifeStutters DEF Same, LifeStep
    <3> QED BY <3>3, <3>4, <3>5 DEF Waiting
  <2> QED BY <2>2, <2>3, <2>4
<1>5. CASE AdmitJob
  <2>1. sched.pc = "admit" /\ j \in Jobs /\ jobs[j].status = "queued" /\ UNCHANGED worker
    BY <1>5, StateTypes DEF AdmitJob, Admissible
  <2>2. jobs'[j].status = "admitted" /\ jobs'[j].attempt = jobs[j].attempt + 1
        /\ \A i \in Jobs \ {j} : jobs'[i] = jobs[i]
    BY <1>0, <1>5, <2>1 DEF AdmitJob
  <2>3. ~Revived(j)  BY <2>1, SoundState
  <2>4. jobs[j].attempt < MaxAttempts  BY <2>1, <2>3 DEF Revived, Returned
  <2>5. PICK i \in Jobs : i = sched.job  BY <2>1
  <2>6. Lifecycle!Move(i, {"queued"}, "admitted")  BY <2>1, <2>2, <2>5 DEF Lifecycle!Move
  <2>7. [h \in Jobs |-> jobs'[h].attempt]
        = [[h \in Jobs |-> jobs[h].attempt] EXCEPT ![i] = jobs[i].attempt + 1]
    BY <2>2, <2>5
  <2>8. Lifecycle!Admit(i)
    BY <1>0, <1>1, <2>1, <2>4, <2>5, <2>6, <2>7 DEF Lifecycle!Admit, Executed
  <2>9. Lifecycle!Step(i)  BY <2>8 DEF Lifecycle!Step
  <2> QED BY <2>9 DEF LifeStep
<1>6. CASE HandleDispatchFailure
  <2>1. /\ sched.pc = "failed" /\ j \in Jobs /\ UNCHANGED worker
        /\ jobs[j].status \in {"admitted", "cancel_requested"} /\ j \notin Executed
    BY <1>6, StateTypes, ExecutedJobs DEF HandleDispatchFailure, CalmInv, SchedulerSound, Engaged, Awaited
  <2> DEFINE exhausted == jobs[j].attempt >= MaxAttempts
             target == IF exhausted THEN "failed" ELSE "queued"
             legal == CanMove(jobs[j].status, target)
  <2>2. jobs' = [jobs EXCEPT ![j] = Withdrawn(@, IF legal THEN target ELSE @.status)]
    BY <1>6 DEF HandleDispatchFailure
  <2>3. CASE exhausted
    <3>1. target = "failed" /\ legal  BY <2>1, <2>3 DEF CanMove, Successors
    <3>2. jobs' = [jobs EXCEPT ![j] = Withdrawn(@, "failed")]  BY <2>2, <3>1
    <3>3. jobs[j].attempt = MaxAttempts  BY <2>1, <2>3, AttemptFacts, CountsAssumption
    <3>4. Goes(j, {"admitted", "cancel_requested"}, "failed")  BY <1>2, <2>1, <3>2 DEF Goes
    <3> QED BY <1>0, <1>1, <2>1, <3>3, <3>4, LifeReturns DEF LifeStep
  <2>4. CASE ~exhausted /\ jobs[j].status = "admitted"
    <3>1. target = "queued" /\ legal  BY <2>4 DEF CanMove, Successors
    <3>2. jobs' = [jobs EXCEPT ![j] = Withdrawn(@, "queued")]  BY <2>2, <3>1
    <3>3. jobs[j].attempt < MaxAttempts  BY <2>1, <2>4, AttemptFacts, CountsAssumption
    <3>4. Goes(j, {"admitted"}, "queued")  BY <1>2, <2>1, <2>4, <3>2 DEF Goes
    <3> QED BY <1>0, <1>1, <2>1, <3>3, <3>4, LifeReturns DEF LifeStep
  <2>5. CASE ~exhausted /\ jobs[j].status = "cancel_requested"
    <3>1. target = "queued" /\ ~legal  BY <2>5 DEF CanMove, Successors
    <3>2. jobs' = [jobs EXCEPT ![j] = Withdrawn(@, "cancel_requested")]  BY <2>2, <2>5, <3>1, <1>0, <2>1
    <3>3. \A i \in Jobs : Same(i)  BY <1>2, <2>1, <2>5, <3>2 DEF Same
    <3> QED BY <1>0, <1>1, <2>1, <3>3, LifeStutters DEF LifeStep
  <2> QED BY <2>1, <2>3, <2>4, <2>5
<1>7. ASSUME NEW i \in Jobs, FailStalled(i) \/ RequeueStalled(i) PROVE LifeStep
  <2>1. Leased(jobs[i]) /\ jobs[i].lease # "live" /\ UNCHANGED worker
    BY <1>7 DEF FailStalled, RequeueStalled, Stalled
  <2>2. i \notin Executed  BY <2>1, StalledIsFree, ExecutedJobs
  <2>3. jobs[i].status = "admitted"  BY <2>1, <2>2 DEF Leased, LifeInv, RunningIsRun
  <2>4. CASE FailStalled(i)
    <3>1. jobs[i].attempt = MaxAttempts  BY <2>4, AttemptFacts, CountsAssumption DEF FailStalled
    <3>2. jobs' = [jobs EXCEPT ![i] = Withdrawn(@, "failed")]  BY <2>4 DEF FailStalled
    <3>3. Goes(i, {"admitted", "cancel_requested"}, "failed")  BY <1>2, <2>3, <3>2 DEF Goes
    <3> QED BY <1>0, <1>1, <2>1, <2>2, <3>1, <3>3, LifeReturns DEF LifeStep
  <2>5. CASE RequeueStalled(i)
    <3>1. jobs[i].attempt < MaxAttempts  BY <2>5 DEF RequeueStalled
    <3>2. jobs' = [jobs EXCEPT ![i] = Withdrawn(@, "queued")]  BY <2>5 DEF RequeueStalled
    <3>3. Goes(i, {"admitted"}, "queued")  BY <1>2, <2>3, <3>2 DEF Goes
    <3> QED BY <1>0, <1>1, <2>1, <2>2, <3>1, <3>3, LifeReturns DEF LifeStep
  <2> QED BY <1>7, <2>4, <2>5
<1> QED BY <1>3, <1>4, <1>5, <1>6, <1>7, SchedulerFootprint


\* What a worker does is a step of the lifecycle: it starts a job whose session has no other
\* execution, since the lock has one owner, and ends it once.
LEMMA WorkerLife ==
  ASSUME TypeOK, AttemptsInv, CalmInv, OutcomeInv, LifeInv, env.crashes = 0,
         NEW w \in Workers, WorkerStep(w)
  PROVE  LifeStep
<1>0. /\ jobs \in [Jobs -> JobRecord] /\ \A i \in Jobs : jobs[i] \in JobRecord
      /\ worker[w] \in Worker
  BY StateTypes
<1>1. CASE TakeMessage(w)
  <2>1. /\ worker[w].pc = "idle" /\ worker'[w].pc = "begin"
        /\ 1 \in 1..Len(stream) /\ stream[1].job \in Jobs
        /\ \A v \in Workers \ {w} : worker'[v] = worker[v]
    BY <1>1, HeadTaken
  <2>2. Exists(jobs[stream[1].job])
    BY <2>1 DEF CalmInv, MessagesAwaited, Awaited, Exists
  <2>3. jobs' = jobs /\ finals' = finals
    BY <1>0, <1>1, <2>1, <2>2 DEF TakeMessage, countVars
  <2>4. Executed' = Executed  BY <2>1 DEF Executed, Executing
  <2> QED BY <2>3, <2>4, LifeStutters DEF Same, LifeStep
<1>2. CASE ~TakeMessage(w)
  <2>1. /\ Busy(w) /\ worker[w].job \in Jobs /\ worker[w].job # 0 /\ ServiceSound(w)
        /\ worker[w].pc \in {"begin", "running", "failing", "release", "discard", "settle"}
    <3>1. Busy(w)  BY <1>2, WorkerPlaces
    <3>2. worker[w].job \in Jobs  BY <3>1, StateTypes DEF Busy
    <3>3. worker[w].job # 0  BY <3>2, JobNumbers
    <3> QED BY <3>1, <3>2, <3>3, ServiceKnows
  <2>2. PICK j \in Jobs : j = worker[w].job  BY <2>1
  <2>3. \A v \in Workers : worker[v].job = j => v = w
    BY <2>1, <2>2 DEF CalmInv, OneDelivery
  <2>a. ASSUME NEW x, worker' = [worker EXCEPT ![w] = x], ~Executing(w),
               x.pc \notin {"running", "failing"}
        PROVE  Executed' = Executed
    BY <2>a, ExecutedChanges
  <2>b. ASSUME NEW x, worker' = [worker EXCEPT ![w] = x], Executing(w),
               x.pc \notin {"running", "failing"}
        PROVE  Executed' = Executed \ {j} /\ j \in Executed
    <3>1. j \in Executed  BY <2>2, <2>b DEF Executed
    <3>2. \A v \in Workers : Executing(v) /\ worker[v].job = worker[w].job => v = w
      BY <2>2, <2>3
    <3> QED BY <2>2, <2>b, <3>1, <3>2, ExecutedChanges
  <2>c. ASSUME NEW to, jobs' = [jobs EXCEPT ![j].status = to]
        PROVE  /\ jobs'[j].status = to /\ jobs'[j].attempt = jobs[j].attempt
               /\ \A i \in Jobs \ {j} : Same(i)
    BY <1>0, <2>c DEF JobRecord, Same
  <2>d. \A p : [worker[w] EXCEPT !.pc = p].pc = p  BY <1>0 DEF Worker
  <2>e. Executing(w) => jobs[j].status \in {"running", "cancel_requested"} /\ Holds(w)
    BY <2>1, <2>2 DEF ServiceSound, Ongoing, Holds
  <2>f. worker[w].pc = "begin" =>
          /\ jobs[j].status \in {"admitted", "cancel_requested"} /\ jobs[j].token = worker[w].token
          /\ Shared(w) /\ Captured(w) = jobs[j] /\ Owns(j) /\ ~Executing(w)
    BY <2>1, <2>2 DEF ServiceSound, Awaited, Captured, Executing
  <2>g. ~BeginIgnored(w) /\ ~BeginIllegal(w)
    BY <2>f DEF BeginIgnored, BeginIllegal, CanStart, CanBegin, Superseded, Terminal
  <2>4. CASE BeginCancelled(w)
    <3>1. worker[w].pc = "begin" /\ jobs[j].status = "cancel_requested"
      BY <2>4, <2>f DEF BeginCancelled, CanStart, CanBegin
    <3>2. jobs' = [jobs EXCEPT ![j].status = "cancelled"] /\ finals' = finals
      BY <2>2, <2>4, <2>f, <3>1 DEF BeginCancelled, Finished, countVars
    <3>3. [worker[w] EXCEPT !.pc = "release", !.obj = NoJob].pc = "release"
      BY <1>0 DEF Worker
    <3>4. worker' = [worker EXCEPT ![w] = [worker[w] EXCEPT !.pc = "release", !.obj = NoJob]]
      BY <2>4 DEF BeginCancelled
    <3>5. Executed' = Executed  BY <2>a, <2>f, <3>1, <3>3, <3>4
    <3>6. j \notin Executed  BY <2>2, <2>f, <3>1, ExecutedJobs
    <3>7. Goes(j, {"queued", "cancel_requested"}, "cancelled")  BY <2>c, <3>1, <3>2 DEF Goes
    <3> QED BY <3>2, <3>5, <3>6, <3>7, LifeReturns DEF LifeStep
  <2>5. CASE BeginRunning(w)
    <3>1. worker[w].pc = "begin" /\ jobs[j].status = "admitted"
      BY <2>5, <2>f DEF BeginRunning, CanStart, CanBegin
    <3>2. jobs' = [jobs EXCEPT ![j].status = "running"] /\ finals' = finals
      BY <2>2, <2>5, <2>f, <3>1 DEF BeginRunning, countVars
    <3> DEFINE x == [worker[w] EXCEPT !.pc = "running", !.obj = NoJob, !.beat = TRUE]
    <3>3. x.pc = "running" /\ x.job = worker[w].job  BY <1>0 DEF Worker
    <3>4. worker' = [worker EXCEPT ![w] = x]  BY <2>5 DEF BeginRunning
    <3> HIDE DEF x
    <3>5. Executed' = Executed \cup {j}  BY <2>2, <2>f, <3>1, <3>3, <3>4, ExecutedChanges
    <3>6. j \notin Executed /\ \A i \in Executed : Owns(i)
      BY <2>2, <2>f, <3>1, ExecutedJobs
    <3>7. \A i \in Executed : SessionOf[i] # SessionOf[j]  BY <2>f, <3>1, <3>6 DEF Owns
    <3>8. Goes(j, {"admitted"}, "running")  BY <2>c, <3>1, <3>2 DEF Goes
    <3>9. Lifecycle!Start(j)
      BY <3>2, <3>5, <3>7, <3>8, LifeFrame DEF Lifecycle!Start, Executed
    <3>10. Lifecycle!Step(j)  BY <3>9 DEF Lifecycle!Step
    <3> QED BY <3>10 DEF LifeStep
  <2>6. CASE Heartbeat(w)
    <3>1. \A i \in Jobs : Same(i)
      <4>1. jobs' = jobs \/ jobs' = [jobs EXCEPT ![j].lease = "live"]
        BY <2>2, <2>6 DEF Heartbeat
      <4> QED BY <1>0, <4>1 DEF Same, JobRecord
    <3>2. PICK b : worker' = [worker EXCEPT ![w] = [worker[w] EXCEPT !.beat = b]]
      BY <2>6 DEF Heartbeat
    <3> DEFINE x == [worker[w] EXCEPT !.beat = b]
    <3>3. x.pc = worker[w].pc /\ x.job = worker[w].job  BY <1>0 DEF Worker
    <3>4. worker' = [worker EXCEPT ![w] = x]  BY <3>2
    <3> HIDE DEF x
    <3>5. Executed' = Executed  BY <3>3, <3>4, ExecutedChanges DEF Executing
    <3>6. finals' = finals  BY <2>6 DEF Heartbeat, countVars
    <3> QED BY <3>1, <3>5, <3>6, LifeStutters DEF LifeStep
  <2>7. CASE RuntimeFails(w)
    <3> DEFINE x == [worker[w] EXCEPT !.pc = "failing"]
    <3>1. x.pc = "failing" /\ x.job = worker[w].job  BY <1>0 DEF Worker
    <3>2. worker' = [worker EXCEPT ![w] = x] /\ Executing(w) /\ jobs' = jobs /\ finals' = finals
      BY <2>7 DEF RuntimeFails, WorkerAt, Executing, countVars
    <3> HIDE DEF x
    <3>3. Executed' = Executed  BY <3>1, <3>2, ExecutedChanges
    <3> QED BY <3>2, <3>3, LifeStutters DEF Same, LifeStep
  <2>8. ASSUME NEW outcome \in {"succeeded", "failed"}, Publish(w, outcome) PROVE LifeStep
    <3>1. /\ Executing(w) /\ worker' = [worker EXCEPT ![w] = [worker[w] EXCEPT !.pc = "release"]]
          /\ jobs' = [jobs EXCEPT ![j].status = outcome] /\ jobs[j].status # "cancel_requested"
          /\ finals' = [finals EXCEPT ![j] = IF outcome = "succeeded" THEN @ + 1 ELSE @]
      BY <2>2, <2>8 DEF Publish, WorkerAt, Executing, Finished
    <3>2. jobs[j].status = "running"  BY <2>e, <3>1
    <3>3. Executed' = Executed \ {j} /\ j \in Executed  BY <2>b, <2>d, <3>1
    <3>4. Goes(j, {"running"}, outcome)  BY <2>c, <3>1, <3>2 DEF Goes
    <3>5. finals[j] = 0 /\ finals \in [Jobs -> Nat]
      BY <3>2 DEF OutcomeInv, FinalsCounted, Live, TypeOK
    <3>6. CASE outcome = "succeeded"
      <4>1. finals' = [finals EXCEPT ![j] = 1]  BY <3>1, <3>5, <3>6
      <4>2. Lifecycle!Succeed(j)
        BY <3>3, <3>4, <3>5, <3>6, <4>1, LifeFrame DEF Lifecycle!Succeed, Executed
      <4>3. Lifecycle!Step(j)  BY <4>2 DEF Lifecycle!Step
      <4> QED BY <4>3 DEF LifeStep
    <3>7. CASE outcome = "failed"
      <4>1. finals' = finals  BY <3>1, <3>5, <3>7
      <4>2. Lifecycle!Fail(j)
        BY <3>3, <3>4, <3>7, <4>1, LifeFrame DEF Lifecycle!Fail, Executed
      <4>3. Lifecycle!Step(j)  BY <4>2 DEF Lifecycle!Step
      <4> QED BY <4>3 DEF LifeStep
    <3> QED BY <3>6, <3>7
  <2>9. CASE EndCancelled(w)
    <3>1. /\ Executing(w) /\ worker' = [worker EXCEPT ![w] = [worker[w] EXCEPT !.pc = "release"]]
          /\ jobs' = [jobs EXCEPT ![j].status = "cancelled"] /\ jobs[j].status = "cancel_requested"
          /\ finals' = finals
      BY <2>2, <2>9 DEF EndCancelled, MarkCancelled, WorkerAt, Executing, Finished, countVars
    <3>2. Executed' = Executed \ {j}  BY <2>b, <2>d, <3>1
    <3>3. Goes(j, {"queued", "cancel_requested"}, "cancelled")  BY <2>c, <3>1 DEF Goes
    <3>4. Lifecycle!Cancel(j)
      BY <3>1, <3>2, <3>3, LifeFrame DEF Lifecycle!Cancel, Executed
    <3>5. Lifecycle!Step(j)  BY <3>4 DEF Lifecycle!Step
    <3> QED BY <3>5 DEF LifeStep
  <2>10. CASE FailJob(w)
    <3>1. Executing(w) /\ jobs[j].status = "running"
      BY <2>2, <2>10, <2>e DEF FailJob, Executing
    <3>2. CanMove("running", "failed")  BY DEF CanMove, Successors
    <3>3. /\ jobs' = [jobs EXCEPT ![j].status = "failed"] /\ finals' = finals
          /\ worker' = [worker EXCEPT ![w] = [worker[w] EXCEPT !.pc = "release", !.raised = FALSE]]
      BY <2>2, <2>10, <3>1, <3>2 DEF FailJob, Finished, countVars
    <3>4. [worker[w] EXCEPT !.pc = "release", !.raised = FALSE].pc = "release"  BY <1>0 DEF Worker
    <3>5. Executed' = Executed \ {j} /\ j \in Executed  BY <2>b, <3>1, <3>3, <3>4
    <3>6. Goes(j, {"running"}, "failed")  BY <2>c, <3>1, <3>3 DEF Goes
    <3>7. Lifecycle!Fail(j)
      BY <3>3, <3>5, <3>6, LifeFrame DEF Lifecycle!Fail, Executed
    <3>8. Lifecycle!Step(j)  BY <3>7 DEF Lifecycle!Step
    <3> QED BY <3>8 DEF LifeStep
  <2>11. CASE WorkerRelease(w) \/ WorkerDiscard(w) \/ Settle(w)
    <3>1. jobs' = jobs /\ finals' = finals
      BY <2>11 DEF WorkerRelease, WorkerDiscard, Settle, countVars
    <3>2. ~Executing(w)  BY <2>11 DEF WorkerRelease, WorkerDiscard, Settle, Executing
    <3>3. PICK x : worker' = [worker EXCEPT ![w] = x] /\ x.pc \notin {"running", "failing"}
      <4>1. CASE WorkerRelease(w)
        <5>1. worker' = [worker EXCEPT ![w] = [worker[w] EXCEPT !.pc = "discard", !.beat = FALSE]]
          BY <4>1 DEF WorkerRelease
        <5>2. [worker[w] EXCEPT !.pc = "discard", !.beat = FALSE].pc = "discard"
          BY <1>0 DEF Worker
        <5> QED BY <5>1, <5>2
      <4>2. CASE WorkerDiscard(w)
        <5>1. PICK p \in {"retry", "settle"} : worker' = [worker EXCEPT ![w] = [worker[w] EXCEPT !.pc = p]]
          BY <4>2 DEF WorkerDiscard, WorkerAt
        <5> QED BY <2>d, <5>1
      <4>3. CASE Settle(w)
        <5>1. \/ worker' = [worker EXCEPT ![w] = [worker[w] EXCEPT !.pc = "retry"]]
              \/ worker' = [worker EXCEPT ![w] = IdleWorker]
          BY <4>3 DEF Settle
        <5>2. IdleWorker.pc = "idle"  BY DEF IdleWorker
        <5> QED BY <2>d, <5>1, <5>2
      <4> QED BY <2>11, <4>1, <4>2, <4>3
    <3>4. Executed' = Executed  BY <2>a, <3>2, <3>3
    <3> QED BY <3>1, <3>4, LifeStutters DEF Same, LifeStep
  <2>12. ~EndIgnored(w) /\ \A outcome \in {"succeeded", "failed"} : ~PublishIllegal(w, outcome)
    BY <2>2, <2>e DEF EndIgnored, PublishIllegal, Executing, CanMove, Successors
  <2>13. ~RetryIgnored(w) /\ ~RetryCancelled(w) /\ ~RetryDispatch(w) /\ ~WorkerUnlock(w)
    BY <2>1 DEF RetryIgnored, RetryCancelled, RetryDispatch, WorkerUnlock
  <2> QED BY <1>2, <2>g, <2>4, <2>5, <2>6, <2>7, <2>8, <2>9, <2>10, <2>11, <2>12, <2>13
          DEF WorkerStep, Beginning, Ending
<1> QED BY <1>1, <1>2

----------------------------------------------------------------------------
(* The invariant is kept *)

\* What a move of the lifecycle says of the jobs.
LEMMA MoveMeans ==
  ASSUME NEW j \in Jobs, NEW from, NEW to, Lifecycle!Move(j, from, to)
  PROVE  /\ jobs[j].status \in from /\ jobs'[j].status = to
         /\ \A i \in Jobs \ {j} : jobs'[i].status = jobs[i].status
<1> DEFINE s == [i \in Jobs |-> jobs[i].status]  t == [i \in Jobs |-> jobs'[i].status]
<1>1. s[j] \in from /\ t = [s EXCEPT ![j] = to]  BY DEF Lifecycle!Move
<1>2. \A i \in Jobs : t[i] = IF i = j THEN to ELSE s[i]  BY <1>1
<1> QED BY <1>1, <1>2

\* A job comes to wait, to act or to run only in these ways.
LEMMA LifeStepMeans ==
  ASSUME TypeOK, LifeStep, NEW j \in Jobs
  PROVE  /\ jobs'[j].status \in {"queued", "admitted"} => jobs[j].status \in {"absent", "queued", "admitted"}
         /\ jobs'[j].status \in Active =>
              (jobs[j].status \in Active /\ jobs'[j].attempt = jobs[j].attempt) \/ jobs'[j].attempt > 0
         /\ jobs'[j].status = "running" =>
              j \in Executed' \/ (jobs[j].status = "running" /\ j \notin Executed)
<1> DEFINE a == [i \in Jobs |-> jobs[i].attempt]  b == [i \in Jobs |-> jobs'[i].attempt]
<1>1. CASE UNCHANGED Lifecycle!vars
  <2>1. /\ [i \in Jobs |-> jobs'[i].status] = [i \in Jobs |-> jobs[i].status]
        /\ b = a /\ Executed' = Executed
    BY <1>1 DEF Lifecycle!vars, Executed
  <2>2. [i \in Jobs |-> jobs'[i].status][j] = [i \in Jobs |-> jobs[i].status][j] /\ b[j] = a[j]
    BY <2>1
  <2> QED BY <2>1, <2>2
<1>2. ASSUME NEW i \in Jobs, Lifecycle!Step(i)
      PROVE  /\ jobs'[j].status \in {"queued", "admitted"} => jobs[j].status \in {"absent", "queued", "admitted"}
             /\ jobs'[j].status \in Active =>
                  (jobs[j].status \in Active /\ jobs'[j].attempt = jobs[j].attempt) \/ jobs'[j].attempt > 0
             /\ jobs'[j].status = "running" =>
                  j \in Executed' \/ (jobs[j].status = "running" /\ j \notin Executed)
  <2>0. jobs[i].attempt \in Nat  BY FieldTypes DEF JobRecord
  <2>1. CASE Lifecycle!Accept(i)
    <3>1. b = a /\ Executed' = Executed  BY <2>1 DEF Lifecycle!Accept, Executed
    <3>2. b[j] = a[j]  BY <3>1
    <3> QED BY <2>1, <3>1, <3>2, MoveMeans DEF Lifecycle!Accept, Active
  <2>2. CASE Lifecycle!Admit(i)
    <3>1. b = [a EXCEPT ![i] = @ + 1] /\ Executed' = Executed  BY <2>2 DEF Lifecycle!Admit, Executed
    <3>2. b[j] = IF j = i THEN a[j] + 1 ELSE a[j]  BY <3>1
    <3> QED BY <2>0, <2>2, <3>1, <3>2, MoveMeans DEF Lifecycle!Admit, Active
  <2>3. CASE Lifecycle!Start(i)
    <3>1. b = a /\ Executed' = Executed \cup {i}  BY <2>3 DEF Lifecycle!Start, Executed
    <3>2. b[j] = a[j]  BY <3>1
    <3> QED BY <2>3, <3>1, <3>2, MoveMeans DEF Lifecycle!Start, Active
  <2>4. CASE Lifecycle!GiveBack(i)
    <3>1. b = a /\ Executed' = Executed  BY <2>4 DEF Lifecycle!GiveBack, Executed
    <3>2. b[j] = a[j]  BY <3>1
    <3> QED BY <2>4, <3>1, <3>2, MoveMeans DEF Lifecycle!GiveBack, Active
  <2>5. CASE Lifecycle!Reinstate(i)
    <3>1. b = a /\ Executed' = Executed /\ a[i] > 0  BY <2>5 DEF Lifecycle!Reinstate, Executed
    <3>2. b[j] = a[j] /\ b[i] = a[i]  BY <3>1
    <3> QED BY <2>5, <3>1, <3>2, MoveMeans DEF Lifecycle!Reinstate, Active
  <2>6. CASE Lifecycle!GiveUp(i)
    <3>1. b = a /\ Executed' = Executed  BY <2>6 DEF Lifecycle!GiveUp, Executed
    <3>2. b[j] = a[j]  BY <3>1
    <3> QED BY <2>6, <3>1, <3>2, MoveMeans DEF Lifecycle!GiveUp, Active
  <2>7. CASE Lifecycle!Succeed(i)
    <3>1. b = a /\ Executed' = Executed \ {i}  BY <2>7 DEF Lifecycle!Succeed, Executed
    <3>2. b[j] = a[j]  BY <3>1
    <3> QED BY <2>7, <3>1, <3>2, MoveMeans DEF Lifecycle!Succeed, Active
  <2>8. CASE Lifecycle!Fail(i)
    <3>1. b = a /\ Executed' = Executed \ {i}  BY <2>8 DEF Lifecycle!Fail, Executed
    <3>2. b[j] = a[j]  BY <3>1
    <3> QED BY <2>8, <3>1, <3>2, MoveMeans DEF Lifecycle!Fail, Active
  <2>9. CASE Lifecycle!RequestCancel(i)
    <3>1. b = a /\ Executed' = Executed  BY <2>9 DEF Lifecycle!RequestCancel, Executed
    <3>2. b[j] = a[j]  BY <3>1
    <3> QED BY <2>9, <3>1, <3>2, MoveMeans DEF Lifecycle!RequestCancel, Active
  <2>10. CASE Lifecycle!Cancel(i)
    <3>1. b = a /\ Executed' = Executed \ {i}  BY <2>10 DEF Lifecycle!Cancel, Executed
    <3>2. b[j] = a[j]  BY <3>1
    <3> QED BY <2>10, <3>1, <3>2, MoveMeans DEF Lifecycle!Cancel, Active
  <2> QED BY <1>2, <2>1, <2>2, <2>3, <2>4, <2>5, <2>6, <2>7, <2>8, <2>9, <2>10 DEF Lifecycle!Step
<1> QED BY <1>1, <1>2 DEF LifeStep

\* Where the copies of a job come from, as far as its status and its fence go.
LEMMA CopiesStayYoung ==
  ASSUME TypeOK, TypeOK', AttemptsInv', OutcomeInv, LifeInv, Effects, LifeStep
  PROVE  NotYetRun' /\ Attempted'
<1> USE DEF LifeInv
<1>0. ASSUME NEW j \in Jobs
      PROVE  /\ JobStep(j) /\ CopyStep(j) /\ jobs[j] \in JobRecord /\ jobs'[j] \in JobRecord
             /\ jobs[j].fence \in Nat /\ jobs'[j].fence \in Nat /\ rows[j] \in Copies(j)
             /\ \A rec \in Copies(j) : rec \in JobRecord /\ rec.fence \in Nat /\ Behind(rec, j)
             /\ Exists(jobs[j]) => Exists(rows[j])
             /\ ~Exists(jobs[j]) => rows[j].status \in Terminal \cup {"absent"}
  <2>1. jobs'[j] \in JobRecord  BY DEF TypeOK
  <2>2. jobs'[j].fence \in Nat  BY <2>1 DEF JobRecord
  <2> QED BY <2>1, <2>2, CopyRecords, FieldTypes DEF Effects, OutcomeInv, CopiesBehind, JobsKnown
<1>s. sched.pc = "stage" /\ sched.job \in Jobs =>
        /\ jobs[sched.job].fence = sched.rec.fence /\ sched.rec.status = "admitted"
        /\ jobs[sched.job].status \in Active
  BY StatusSets DEF OutcomeInv, Staged
<1>n. NewJob.status = "queued" /\ NewJob.fence = 0  BY DEF NewJob, NoJob
<1>1. NotYetRun'
  <2> SUFFICES ASSUME NEW j \in Jobs, jobs'[j].status \in {"queued", "admitted"},
                      NEW rec \in Copies(j)', rec.fence = jobs'[j].fence
               PROVE  rec.status \in {"absent", "queued", "admitted"}
    BY DEF NotYetRun
  <2>0. jobs[j].status \in {"absent", "queued", "admitted"}  BY LifeStepMeans
  <2>1. CASE Created(j)
    <3>1. jobs[j].status = "absent" /\ rows[j].status = "absent"  BY <1>0, <2>1 DEF Created, Exists
    <3>2. \A r \in Copies(j) : r.status = "absent"  BY <1>0, <3>1 DEF Behind, Exists
    <3> QED BY <1>0, <1>n, <1>s, <2>0, <2>1, <3>2 DEF CopyStep, Alike
  <2>2. CASE ~Exists(jobs[j]) /\ ~Created(j)
    <3>1. jobs'[j].status \in Terminal \cup {"absent"}
      <4>1. CASE Stays(j)  BY <2>2, <4>1 DEF Stays, Alike, Exists
      <4>2. CASE Replaced(j)  BY <1>0, <2>2, <4>2, ReplacedIsAlike
      <4>3. CASE Admitted(j)  BY <2>2, <4>3 DEF Admitted, Exists
      <4>4. CASE GivenBack(j)  BY <2>2, <4>4 DEF GivenBack
      <4>5. CASE Moved(j)  BY <2>2, <4>5, StatusSets DEF Moved, Exists
      <4> QED BY <1>0, <2>2, <4>1, <4>2, <4>3, <4>4, <4>5 DEF JobStep
    <3> QED BY <3>1, StatusSets DEF Terminal
  <2>3. CASE Exists(jobs[j]) /\ ~Created(j)
    <3>0. \A r \in Copies(j) : r.fence = jobs[j].fence => r.status \in {"absent", "queued", "admitted"}
      BY <2>0, <2>3 DEF NotYetRun, Exists
    <3>1. CASE jobs'[j].fence = jobs[j].fence
      BY <1>0, <1>s, <2>0, <2>3, <3>0, <3>1 DEF CopyStep, Alike, Exists
    <3>2. CASE jobs'[j].fence # jobs[j].fence
      <4>1. Admitted(j) /\ ~Stays(j)
        BY <1>0, <2>3, <3>2, ReplacedIsAlike DEF JobStep, Stays, Alike, GivenBack, Moved
      <4>2. PICK r \in Copies(j) : Alike(rec, r)  BY <1>0, <2>3, <4>1 DEF CopyStep
      <4>3. r.fence <= jobs[j].fence /\ rec.fence = r.fence
        BY <1>0, <2>3, <4>2 DEF Behind, Alike
      <4>4. jobs'[j].fence = jobs[j].fence + 1  BY <4>1 DEF Admitted
      <4>5. r.fence \in Nat /\ jobs[j].fence \in Nat  BY <1>0
      <4>6. rec.fence \in Nat /\ rec.fence = jobs[j].fence + 1  BY <4>3, <4>4, <4>5
      <4> QED BY <4>3, <4>5, <4>6
    <3> QED BY <3>1, <3>2
  <2> QED BY <2>1, <2>2, <2>3
<1>2. ASSUME NEW j \in Jobs, jobs'[j].status \in Active PROVE jobs'[j].fence > 0
  <2>1. jobs'[j].fence = jobs'[j].attempt  BY DEF AttemptsInv, CopiesSound, SoundJob
  <2>2. CASE jobs'[j].attempt > 0  BY <2>1, <2>2
  <2>3. CASE jobs[j].status \in Active /\ ~Admitted(j)
    <3>1. jobs[j].fence > 0 /\ Exists(jobs[j])  BY <2>3, StatusSets DEF Attempted, Exists
    <3>2. jobs'[j].fence = jobs[j].fence
      BY <1>0, <2>3, <3>1, ReplacedIsAlike DEF JobStep, Stays, Alike, Created, GivenBack, Moved
    <3> QED BY <3>1, <3>2
  <2>4. CASE Admitted(j)  BY <1>0, <2>4 DEF Admitted
  <2> QED BY <1>2, <2>2, <2>3, <2>4, LifeStepMeans
<1>3. ASSUME NEW j \in Jobs, NEW rec \in Copies(j)', rec.status = "admitted" PROVE rec.fence > 0
  <2>1. \A r \in Copies(j) : r.status = "admitted" => r.fence > 0  BY DEF Attempted
  <2>2. jobs[j].status \in Active => jobs[j].fence > 0  BY DEF Attempted
  <2> QED BY <1>0, <1>3, <1>n, <1>s, <2>1, <2>2, StatusSets DEF CopyStep, Alike
<1> QED BY <1>1, <1>2, <1>3 DEF Attempted

\* A job that is running is being executed.
LEMMA RunningStaysRun ==
  ASSUME TypeOK, LifeInv, LifeStep
  PROVE  RunningIsRun'
BY LifeStepMeans DEF LifeInv, RunningIsRun

----------------------------------------------------------------------------
(* Queues hold jobs that wait *)

\* The queues are as they were, and no job in one of them, or at the scheduler, stops waiting.
LEMMA WaitingStays ==
  ASSUME LifeInv, UNCHANGED <<queues, sched>>,
         \A j \in Jobs : Waiting(j) => Waiting(j)' \/ ~Free(j),
         \A j \in Jobs : jobs[j].status \in Terminal => jobs'[j].status \in Terminal,
         \A j \in Jobs : InQueue(j) => Free(j),
         Engaged => sched.job \in Jobs,
         sched.pc \in {"load", "merge"} => Free(sched.job)
  PROVE  QueuesWait' /\ Candidate'
<1>1. QueuesWait'
  <2> SUFFICES ASSUME NEW j \in Jobs, InQueue(j)' PROVE Waiting(j)'  BY DEF QueuesWait
  <2>1. InQueue(j)  BY DEF InQueue
  <2> QED BY <2>1 DEF LifeInv, QueuesWait
<1>2. Candidate'
  <2> SUFFICES ASSUME sched.pc \in {"load", "merge"}
               PROVE  jobs'[sched.job].status \in Terminal \/ (Waiting(sched.job)' /\ AtHead(sched.job))
    BY DEF Candidate, AtHead, Waiting
  <2>1. sched.job \in Jobs  BY DEF Engaged
  <2>2. PICK j \in Jobs : j = sched.job  BY <2>1
  <2>3. Waiting(j) => Waiting(j)'  BY <2>2
  <2>4. Waiting(j)' => Waiting(sched.job)'  BY <2>2 DEF Waiting
  <2> QED BY <2>1, <2>2, <2>3, <2>4 DEF LifeInv, Candidate
<1> QED BY <1>1, <1>2

\* A worker moves a job that is in no queue and not at the scheduler.
LEMMA WorkerLeavesWaiting ==
  ASSUME TypeOK, CalmInv, OutcomeInv, LifeInv, Effects, NEW w \in Workers, WorkerStep(w)
  PROVE  QueuesWait' /\ Candidate'
<1>1. UNCHANGED <<queues, sched>>
  <2>1. ~RetryDispatch(w)
    BY DEF CalmInv, ServicesSound, ServiceSound, RetryDispatch
  <2> QED BY <2>1, WorkerFootprint
<1>2. ASSUME NEW j \in Jobs, Free(j) PROVE jobs'[j] = jobs[j]
  <2>1. CASE TakeMessage(w)
    <3>1. 1 \in 1..Len(stream) /\ stream[1].job \in Jobs  BY <2>1, HeadTaken
    <3>2. stream[1].job # j /\ Head(stream) = stream[1]  BY <1>2, <3>1 DEF Free, Carried
    <3> QED BY <2>1, <3>1, <3>2, StateTypes DEF TakeMessage
  <2>2. CASE ~TakeMessage(w)
    <3>1. worker[w].job # j  BY <1>2 DEF Free, Served
    <3> QED BY <2>2, <3>1, StateTypes, WorkerFootprint
            DEF BeginCancelled, BeginRunning, Heartbeat, Publish, EndCancelled, FailJob,
                RetryCancelled, RetryDispatch, MarkCancelled, Finished
  <2> QED BY <2>1, <2>2
<1>3. \A j \in Jobs : jobs[j].status \in Terminal => jobs'[j].status \in Terminal
  BY OutcomesRemain
<1>4. \A j \in Jobs : Waiting(j) => Waiting(j)' \/ ~Free(j)  BY <1>2 DEF Waiting
<1> QED BY <1>1, <1>3, <1>4, WaitingStays, StateTypes
        DEF CalmInv, QueuesSound, SchedulerSound, Engaged

\* A new job waits at the end of its queue; a cancelled one leaves its queue, or goes on
\* waiting there to be met.
LEMMA OtherLeavesWaiting ==
  ASSUME TypeOK, CalmInv, OutcomeInv, LifeInv, Effects, OtherStep
  PROVE  QueuesWait' /\ Candidate'
<1>0. /\ jobs \in [Jobs -> JobRecord] /\ \A j \in Jobs : jobs[j] \in JobRecord
      /\ Engaged => sched.job \in Jobs
      /\ \A j \in Jobs : InQueue(j) => Free(j)
      /\ sched.pc \in {"load", "merge"} => Free(sched.job)
  BY StateTypes DEF CalmInv, QueuesSound, SchedulerSound, Engaged
<1>1. ~PollMerge  BY DEF CalmInv, PollMerge
<1>2. \A j \in Jobs : jobs[j].status \in Terminal => jobs'[j].status \in Terminal
  BY OutcomesRemain
<1>3. CASE UNCHANGED <<jobs, queues, sched>>
  <2>1. \A j \in Jobs : Waiting(j) => Waiting(j)'  BY <1>3 DEF Waiting
  <2> QED BY <1>0, <1>2, <1>3, <2>1, WaitingStays
<1>4. ASSUME NEW j \in Jobs, CreateJob(j) PROVE QueuesWait' /\ Candidate'
  <2> DEFINE q == queues[KeyOf[j]]
  <2>1. /\ ~InQueue(j) /\ (Engaged => sched.job # j) /\ q \in Seq(Jobs) /\ queues \in Queues
        /\ KeyOf[j] \in Keys
    BY <1>4, UnknownJob, StateTypes, ScopeTypes, QueueTypes DEF CreateJob
  <2>2. /\ jobs'[j] = NewJob /\ \A i \in Jobs \ {j} : jobs'[i] = jobs[i]
        /\ queues' = [queues EXCEPT ![KeyOf[j]] = Append(q, j)] /\ sched' = sched
    BY <1>0, <1>4 DEF CreateJob
  <2>3. /\ queues'[KeyOf[j]] = Append(q, j)
        /\ \A k \in Keys \ {KeyOf[j]} : queues'[k] = queues[k]
    BY <2>1, <2>2 DEF Queues
  <2>4. /\ \A n \in 1..Len(Append(q, j)) : Append(q, j)[n] = j \/ \E m \in 1..Len(q) : Append(q, j)[n] = q[m]
        /\ q # <<>> => Append(q, j) # <<>> /\ Head(Append(q, j)) = Head(q)
    BY <2>1, QueueContents
  <2> HIDE DEF q
  <2>5. ASSUME NEW i \in Jobs \ {j}, InQueue(i)' PROVE InQueue(i)
    BY <2>3, <2>4, <2>5, ScopeTypes DEF InQueue, q
  <2>6. ASSUME NEW i \in Jobs, AtHead(i) PROVE queues'[KeyOf[i]] # <<>> /\ Head(queues'[KeyOf[i]]) = i
    <3>1. CASE KeyOf[i] = KeyOf[j]  BY <2>3, <2>4, <2>6, <3>1 DEF AtHead, q
    <3>2. CASE KeyOf[i] # KeyOf[j]  BY <2>3, <2>6, <3>2, ScopeTypes DEF AtHead
    <3> QED BY <3>1, <3>2
  <2>7. QueuesWait'
    <3> SUFFICES ASSUME NEW i \in Jobs, InQueue(i)' PROVE Waiting(i)'  BY DEF QueuesWait
    <3>1. CASE i = j  BY <2>2, <3>1 DEF Waiting, NewJob, NoJob
    <3>2. CASE i # j  BY <2>2, <2>5, <3>2 DEF Waiting, LifeInv, QueuesWait
    <3> QED BY <3>1, <3>2
  <2>8. Candidate'
    <3> SUFFICES ASSUME sched.pc \in {"load", "merge"}
                 PROVE  \/ jobs'[sched.job].status \in Terminal
                        \/ Waiting(sched.job)' /\ queues'[KeyOf[sched.job]] # <<>>
                           /\ Head(queues'[KeyOf[sched.job]]) = sched.job
      BY <2>2 DEF Candidate, AtHead, Waiting
    <3>1. sched.job \in Jobs \ {j}  BY <1>0, <2>1 DEF Engaged
    <3>2. jobs'[sched.job] = jobs[sched.job]  BY <2>2, <3>1
    <3>3. AtHead(sched.job) => queues'[KeyOf[sched.job]] # <<>> /\ Head(queues'[KeyOf[sched.job]]) = sched.job
      BY <2>6, <3>1
    <3> QED BY <2>2, <3>1, <3>2, <3>3 DEF LifeInv, Candidate, Waiting
  <2> QED BY <2>7, <2>8
<1>5. ASSUME NEW j \in Jobs, CancelQueued(j) PROVE QueuesWait' /\ Candidate'
  <2>1. /\ jobs' = [jobs EXCEPT ![j].status = "cancelled"]
        /\ queues' = [queues EXCEPT ![KeyOf[j]] = RemoveFirst(@, j)] /\ sched' = sched
    BY <1>5 DEF CancelQueued, MarkCancelled, Finished
  <2>2. jobs'[j].status \in Terminal /\ \A i \in Jobs \ {j} : jobs'[i] = jobs[i]
    BY <1>0, <2>1 DEF JobRecord, Terminal
  <2>3. /\ ~InQueue(j)' /\ \A i \in Jobs : InQueue(i)' => InQueue(i)
        /\ \A i \in Jobs \ {j} : AtHead(i) => AtHead(i)'
    BY <2>1, Removal DEF CalmInv, QueuesSound
  <2>4. QueuesWait'
    <3> SUFFICES ASSUME NEW i \in Jobs, InQueue(i)' PROVE Waiting(i)'  BY DEF QueuesWait
    <3>1. i # j /\ Waiting(i)  BY <2>3 DEF LifeInv, QueuesWait
    <3> QED BY <2>2, <3>1 DEF Waiting
  <2>5. Candidate'
    <3> SUFFICES ASSUME sched.pc \in {"load", "merge"}
                 PROVE  jobs'[sched.job].status \in Terminal \/ (Waiting(sched.job)' /\ AtHead(sched.job)')
      BY <2>1 DEF Candidate, AtHead, Waiting
    <3>1. PICK i \in Jobs : i = sched.job  BY <1>0 DEF Engaged
    <3>2. CASE i = j  BY <2>2, <3>1, <3>2
    <3>3. CASE i # j
      <4>1. jobs'[i] = jobs[i] /\ (AtHead(i) => AtHead(i)')  BY <2>2, <2>3, <3>3
      <4>2. AtHead(i)' => AtHead(sched.job)'  BY <2>1, <3>1 DEF AtHead
      <4>3. jobs[i].status \in Terminal \/ (Waiting(i) /\ AtHead(i))  BY <3>1 DEF LifeInv, Candidate
      <4> QED BY <2>1, <3>1, <4>1, <4>2, <4>3 DEF Waiting
    <3> QED BY <3>2, <3>3
  <2> QED BY <2>4, <2>5
<1>6. ASSUME NEW j \in Jobs, CancelActive(j) PROVE QueuesWait' /\ Candidate'
  <2>1. /\ jobs' = [jobs EXCEPT ![j].status = "cancel_requested"] /\ UNCHANGED <<queues, sched>>
        /\ jobs[j].status # "queued"
    BY <1>6 DEF CancelActive, queueVars
  <2>2. \A i \in Jobs : Waiting(i) => Waiting(i)'  BY <1>0, <2>1 DEF Waiting, JobRecord
  <2> QED BY <1>0, <1>2, <2>1, <2>2, WaitingStays
<1>7. ASSUME NEW j \in Jobs, LeaseTimeout(j) PROVE QueuesWait' /\ Candidate'
  <2>1. /\ jobs' = [jobs EXCEPT ![j] = Aged(@)] /\ UNCHANGED queues
        /\ sched'.pc = sched.pc /\ sched'.job = sched.job
    BY <1>7, TimeoutEffects DEF LeaseTimeout, queueVars
  <2>2. \A i \in Jobs : Waiting(i) => Waiting(i)'  BY <1>0, <2>1 DEF Waiting, Aged, JobRecord
  <2>3. QueuesWait'
    <3> SUFFICES ASSUME NEW i \in Jobs, InQueue(i)' PROVE Waiting(i)'  BY DEF QueuesWait
    <3>1. InQueue(i)  BY <2>1 DEF InQueue
    <3> QED BY <2>2, <3>1 DEF LifeInv, QueuesWait
  <2>4. Candidate'
    <3> SUFFICES ASSUME sched.pc \in {"load", "merge"}
                 PROVE  jobs'[sched'.job].status \in Terminal \/ (Waiting(sched.job)' /\ AtHead(sched.job)')
      BY <2>1 DEF Candidate, AtHead, Waiting
    <3>1. PICK i \in Jobs : i = sched.job  BY <1>0 DEF Engaged
    <3>2. Waiting(i)' => Waiting(sched.job)'  BY <2>1, <3>1 DEF Waiting
    <3>3. AtHead(i) => AtHead(sched.job)'  BY <2>1, <3>1 DEF AtHead
    <3>4. jobs[i].status \in Terminal \/ (Waiting(i) /\ AtHead(i))  BY <3>1 DEF LifeInv, Candidate
    <3> QED BY <1>2, <2>1, <2>2, <3>1, <3>2, <3>3, <3>4
  <2> QED BY <2>3, <2>4
<1> QED BY <1>1, <1>3, <1>4, <1>5, <1>6, <1>7, OtherFootprint

\* The scheduler takes the head of a queue; a job it gives back waits again.
LEMMA SchedulerLeavesWaiting ==
  ASSUME TypeOK, CalmInv, OutcomeInv, LifeInv, Effects, SchedulerStep
  PROVE  QueuesWait' /\ Candidate'
<1> USE DEF queueVars
<1>0. /\ jobs \in [Jobs -> JobRecord] /\ \A j \in Jobs : jobs[j] \in JobRecord
      /\ Engaged => sched.job \in Jobs
      /\ \A j \in Jobs : InQueue(j) => Waiting(j)
      /\ QueuesApart /\ queues \in Queues /\ sched \in Scheduler
  BY StateTypes, QueueTypes DEF CalmInv, QueuesSound, Engaged, LifeInv, QueuesWait
<1>a. ASSUME UNCHANGED <<jobs, queues>> PROVE QueuesWait'
  <2> SUFFICES ASSUME NEW j \in Jobs, InQueue(j)' PROVE Waiting(j)'  BY DEF QueuesWait
  <2>1. InQueue(j)  BY <1>a DEF InQueue
  <2> QED BY <1>0, <1>a, <2>1 DEF Waiting
<1>b. ASSUME sched'.pc \notin {"load", "merge"} PROVE Candidate'  BY <1>b DEF Candidate
<1>c. ASSUME NEW j \in Jobs, \A i \in Jobs \ {j} : jobs'[i] = jobs[i] /\ (InQueue(i)' => InQueue(i)),
             InQueue(j)' => Waiting(j)'
      PROVE  QueuesWait'
  <2> SUFFICES ASSUME NEW i \in Jobs, InQueue(i)' PROVE Waiting(i)'  BY DEF QueuesWait
  <2>1. CASE i = j  BY <1>c, <2>1
  <2>2. CASE i # j  BY <1>0, <1>c, <2>2 DEF Waiting
  <2> QED BY <2>1, <2>2
<1>d. ASSUME NEW j \in Jobs, NEW to, jobs' = [jobs EXCEPT ![j] = Withdrawn(@, to)]
      PROVE  /\ jobs'[j].status = to /\ jobs'[j].lease = "none"
             /\ \A i \in Jobs \ {j} : jobs'[i] = jobs[i]
  BY <1>0, <1>d DEF Withdrawn, JobRecord
<1>1. ASSUME NEW k \in Keys, SelectCandidate(k) PROVE QueuesWait' /\ Candidate'
  <2>1. UNCHANGED <<jobs, queues>> /\ sched'.job = Head(queues[k]) /\ queues[k] # <<>>
        /\ sched'.pc = "load"
    BY <1>0, <1>1 DEF SelectCandidate, Eligible, Scheduler
  <2>2. queues[k] \in Seq(Jobs)  BY <1>0 DEF Queues
  <2>3. 1 \in 1..Len(queues[k]) /\ Head(queues[k]) = queues[k][1] /\ queues[k][1] \in Jobs
    BY <2>1, <2>2
  <2>4. PICK i \in Jobs : i = Head(queues[k])  BY <2>3
  <2>5. KeyOf[i] = k  BY <1>0, <2>3, <2>4 DEF QueuesApart
  <2>6. AtHead(i) /\ InQueue(i)  BY <2>1, <2>3, <2>4, <2>5 DEF AtHead, InQueue
  <2>7. Waiting(i)  BY <1>0, <2>6
  <2>8. Candidate'  BY <2>1, <2>4, <2>6, <2>7 DEF Candidate, Waiting, AtHead
  <2> QED BY <1>a, <2>1, <2>8
<1>2. CASE LoadLatest
  <2>1. /\ UNCHANGED <<jobs, queues>> /\ sched'.pc = "merge" /\ sched'.job = sched.job
        /\ sched.pc = "load"
    BY <1>0, <1>2 DEF LoadLatest, Scheduler
  <2>2. Candidate'  BY <2>1 DEF LifeInv, Candidate, Waiting, AtHead
  <2> QED BY <1>a, <2>1, <2>2
<1>3. CASE MergeLatest
  <2>1. PICK j \in Jobs : j = sched.job  BY <1>0, <1>3 DEF MergeLatest, Engaged
  <2>2. sched.pc = "merge" /\ Merge(j, sched.rec) /\ Free(j)
    BY <1>3, <2>1 DEF MergeLatest, CalmInv, SchedulerSound, Engaged
  <2>3. \A i \in Jobs \ {j} : jobs'[i] = jobs[i]  BY <2>2, FreeMerge
  <2>4. sched'.pc \in {"acquire", "idle"}
    <3>1. sched' = IdleScheduler \/ sched' = [sched EXCEPT !.pc = "acquire", !.rec = NoJob]
      BY <1>3 DEF MergeLatest
    <3>2. sched \in Scheduler  BY <1>0
    <3>3. CASE sched' = IdleScheduler  BY <3>3 DEF IdleScheduler
    <3>4. CASE sched' = [sched EXCEPT !.pc = "acquire", !.rec = NoJob]
      BY <3>2, <3>4 DEF Scheduler
    <3> QED BY <3>1, <3>3, <3>4
  <2>5. CASE jobs'[j].status = "queued"
    <3>1. queues' = queues  BY <1>3, <2>1, <2>5 DEF MergeLatest
    <3>2. \A i \in Jobs : InQueue(i)' => InQueue(i)  BY <3>1 DEF InQueue
    <3>3. Waiting(j)'  BY <2>5 DEF Waiting
    <3> QED BY <1>b, <1>c, <2>3, <2>4, <3>2, <3>3
  <2>6. CASE jobs'[j].status # "queued"
    <3>1. queues' = [queues EXCEPT ![KeyOf[j]] = IF AtHead(j) THEN Tail(@) ELSE @]
      BY <1>3, <2>1, <2>6 DEF MergeLatest
    <3>2. /\ \A i \in Jobs : InQueue(i)' => InQueue(i)
          /\ AtHead(j) => ~InQueue(j)'
      BY <1>0, <3>1, Taken
    <3>3. AtHead(j) \/ ~InQueue(j)
      <4>1. jobs[j].status \in Terminal => ~Waiting(j)  BY DEF Waiting, Terminal
      <4> QED BY <1>0, <2>1, <2>2, <4>1 DEF LifeInv, Candidate
    <3> QED BY <1>b, <1>c, <2>3, <2>4, <3>2, <3>3
  <2> QED BY <2>5, <2>6
<1>4. CASE AdmitJob
  <2>1. PICK j \in Jobs : j = sched.job  BY <1>0, <1>4 DEF AdmitJob, Engaged
  <2>2. AtHead(j) /\ queues' = [queues EXCEPT ![KeyOf[j]] = IF AtHead(j) THEN Tail(@) ELSE @]
    BY <1>4, <2>1 DEF AdmitJob, Admissible
  <2>3. (\A i \in Jobs : InQueue(i)' => InQueue(i)) /\ ~InQueue(j)'  BY <1>0, <2>2, Taken
  <2>4. \A i \in Jobs \ {j} : jobs'[i] = jobs[i]  BY <1>0, <1>4, <2>1 DEF AdmitJob
  <2>5. sched'.pc = "stage"  BY <1>0, <1>4 DEF AdmitJob, Scheduler
  <2> QED BY <1>b, <1>c, <2>3, <2>4, <2>5
<1>5. CASE HandleDispatchFailure
  <2>1. PICK j \in Jobs : j = sched.job  BY <1>0, <1>5 DEF HandleDispatchFailure, Engaged
  <2>2. /\ sched.pc = "failed" /\ ~InQueue(j)
        /\ jobs[j].status \in {"admitted", "cancel_requested"}
    <3>1. sched.pc = "failed"  BY <1>5 DEF HandleDispatchFailure
    <3>2. ~InQueue(sched.job)  BY <3>1 DEF CalmInv, SchedulerSound
    <3> QED BY <2>1, <3>1, <3>2 DEF CalmInv, SchedulerSound, Awaited, InQueue
  <2>3. sched'.pc \in {"unlock", "idle"}
    BY <1>0, <1>5 DEF HandleDispatchFailure, SchedulerAt, IdleScheduler, Scheduler
  <2>4. CASE jobs[j].attempt >= MaxAttempts
    <3>1. queues' = queues /\ \A i \in Jobs \ {j} : jobs'[i] = jobs[i]
      BY <1>0, <1>5, <2>1, <2>4 DEF HandleDispatchFailure
    <3>2. (\A i \in Jobs : InQueue(i)' => InQueue(i)) /\ ~InQueue(j)'  BY <2>2, <3>1 DEF InQueue
    <3> QED BY <1>b, <1>c, <2>3, <3>1, <3>2
  <2>5. CASE ~(jobs[j].attempt >= MaxAttempts)
    <3>1. queues' = [queues EXCEPT ![KeyOf[j]] = <<j>> \o @]
      BY <1>5, <2>1, <2>5 DEF HandleDispatchFailure
    <3>2. \A i \in Jobs \ {j} : InQueue(i)' => InQueue(i)  BY <1>0, <2>2, <3>1, Prepended
    <3>3. PICK to \in {"queued", jobs[j].status} :
            /\ jobs' = [jobs EXCEPT ![j] = Withdrawn(@, to)]
            /\ to = "queued" <=> CanMove(jobs[j].status, "queued")
      <4>1. jobs' = [jobs EXCEPT ![j] = Withdrawn(@, IF CanMove(jobs[j].status, "queued")
                                                     THEN "queued" ELSE jobs[j].status)]
        BY <1>0, <1>5, <2>1, <2>5 DEF HandleDispatchFailure
      <4>2. jobs[j].status # "queued"  BY <2>2
      <4> QED BY <4>1, <4>2
    <3>4. CanMove("admitted", "queued")  BY DEF CanMove, Successors
    <3>5. Waiting(j)'  BY <1>d, <2>2, <3>3, <3>4 DEF Waiting
    <3> QED BY <1>b, <1>c, <1>d, <2>3, <3>2, <3>3, <3>5
  <2> QED BY <2>4, <2>5
<1>6. ASSUME NEW j \in Jobs, FailStalled(j) PROVE QueuesWait' /\ Candidate'
  <2>1. Leased(jobs[j]) /\ jobs[j].lease # "live" /\ queues' = queues
        /\ jobs' = [jobs EXCEPT ![j] = Withdrawn(@, "failed")]
        /\ sched'.pc \in {"idle", "sweep"}
    BY <1>0, <1>6 DEF FailStalled, Stalled, SweptFrom, IdleScheduler, Scheduler
  <2>2. ~InQueue(j)  BY <1>0, <2>1 DEF Leased, Waiting
  <2>3. (\A i \in Jobs : InQueue(i)' => InQueue(i)) /\ ~InQueue(j)'  BY <2>1, <2>2 DEF InQueue
  <2> QED BY <1>b, <1>c, <1>d, <2>1, <2>3
<1>7. ASSUME NEW j \in Jobs, RequeueStalled(j) PROVE QueuesWait' /\ Candidate'
  <2>1. /\ Requeue(j) /\ jobs' = [jobs EXCEPT ![j] = Withdrawn(@, "queued")]
        /\ sched'.pc = "sweepunlock"
    BY <1>0, <1>7 DEF RequeueStalled, Scheduler
  <2>2. \A i \in Jobs \ {j} : InQueue(i)' => InQueue(i)  BY <1>0, <2>1, Requeued
  <2>3. Waiting(j)'  BY <1>d, <2>1 DEF Waiting
  <2> QED BY <1>b, <1>c, <1>d, <2>1, <2>2, <2>3
<1>8. CASE /\ ~LoadLatest /\ ~MergeLatest /\ ~AdmitJob /\ ~HandleDispatchFailure
           /\ \A k \in Keys : ~SelectCandidate(k)
           /\ \A j \in Jobs : ~FailStalled(j) /\ ~RequeueStalled(j)
  <2>1. UNCHANGED <<jobs, queues>>  BY <1>8, SchedulerFootprint
  <2>0. sched \in Scheduler /\ IdleScheduler.pc = "idle"  BY <1>0 DEF IdleScheduler
  <2>p. ASSUME NEW p, sched' = [sched EXCEPT !.pc = p] PROVE sched'.pc = p
    BY <2>0, <2>p DEF Scheduler
  <2>2. sched'.pc \notin {"load", "merge"} \/ sched' = sched
    <3>1. CASE SelectNothing  BY <3>1 DEF SelectNothing
    <3>2. CASE SessionBusy \/ FinishDispatch \/ SchedulerUnlock \/ LoadFails
      BY <2>0, <3>2 DEF SessionBusy, FinishDispatch, SchedulerUnlock, LoadFails
    <3>3. CASE AcquireSession \/ StageDispatch
      <4>1. PICK p \in {"admit", "reappend", "enqueue", "failed"} : sched' = [sched EXCEPT !.pc = p]
        BY <3>3 DEF AcquireSession, StageDispatch, SchedulerAt
      <4> QED BY <2>p, <4>1
    <3>4. CASE AdmissionLost \/ EnqueueDispatch \/ MarkDispatchSent \/ DispatchFails
      <4>1. PICK p \in {"unlock", "mark", "finish", "failed"} : sched' = [sched EXCEPT !.pc = p]
        BY <3>4 DEF AdmissionLost, EnqueueDispatch, MarkDispatchSent, DispatchFails, SchedulerAt
      <4> QED BY <2>p, <4>1
    <3>5. CASE LoadStale  BY <2>0, <3>5 DEF LoadStale, Scheduler
    <3>6. CASE SweepUnlock
      <4>1. PICK x \in {IdleScheduler, [sched EXCEPT !.stale = sched.stale \ {sched.job}]},
                 p \in {"idle", "sweep"} : sched' = [x EXCEPT !.job = 0, !.pc = p]
        BY <3>6 DEF SweepUnlock, SweptFrom
      <4> QED BY <2>0, <4>1 DEF IdleScheduler, Scheduler
    <3>7. ASSUME NEW j \in Jobs, SkipStalled(j) PROVE sched'.pc \notin {"load", "merge"}
      BY <2>0, <3>7 DEF SkipStalled, SweptFrom, Scheduler
    <3> QED BY <1>8, <3>1, <3>2, <3>3, <3>4, <3>5, <3>6, <3>7 DEF SchedulerStep, Dispatching, Sweeping
  <2>3. CASE sched' = sched
    <3>1. Candidate'  BY <2>1, <2>3 DEF LifeInv, Candidate, Waiting, AtHead
    <3> QED BY <1>a, <2>1, <3>1
  <2> QED BY <1>a, <1>b, <2>1, <2>2, <2>3
<1> QED BY <1>1, <1>2, <1>3, <1>4, <1>5, <1>6, <1>7, <1>8

----------------------------------------------------------------------------
(* The refinement *)

\* No job is known, and none is executed.
LEMMA InitLife == Init => LifeInv /\ Lifecycle!Init
<1> SUFFICES ASSUME Init PROVE LifeInv /\ Lifecycle!Init  OBVIOUS
<1>1. /\ \A j \in Jobs : jobs[j] = NoJob /\ rows[j] = NoJob
      /\ snap.job = 0 /\ poll.job = 0 /\ sched.pc = "idle" /\ 0 \notin Jobs
      /\ \A k \in Keys : Len(queues[k]) = 0
  BY JobNumbers DEF Init, NoCopy, IdleScheduler
<1>2. \A w \in Workers : ~Executing(w)  BY DEF Init, IdleWorker, Executing
<1>3. NoJob.status = "absent" /\ NoJob.attempt = 0  BY DEF NoJob
<1>4. \A j \in Jobs : Copies(j) = {NoJob}  BY <1>1 DEF Copies
<1>5. NotYetRun /\ Attempted  BY <1>1, <1>3, <1>4 DEF NotYetRun, Attempted, Active
<1>6. RunningIsRun /\ Candidate  BY <1>1, <1>3 DEF RunningIsRun, Candidate
<1>7. QueuesWait  BY <1>1, ScopeTypes DEF QueuesWait, InQueue
<1>8. Lifecycle!Init
  <2>1. [j \in Jobs |-> jobs[j].status] = [j \in Jobs |-> "absent"]  BY <1>1, <1>3
  <2>2. [j \in Jobs |-> jobs[j].attempt] = [j \in Jobs |-> 0]  BY <1>1, <1>3
  <2>3. {worker[w].job : w \in {v \in Workers : Executing(v)}} = {}  BY <1>2
  <2> QED BY <2>1, <2>2, <2>3 DEF Lifecycle!Init, Init
<1> QED BY <1>5, <1>6, <1>7, <1>8 DEF LifeInv

\* While nothing is disturbed, every step is one of the lifecycle, and keeps the invariant.
LEMMA LifeSteps ==
  ASSUME TypeOK, TypeOK', AttemptsInv, AttemptsInv', Calm, CalmInv, OutcomeInv, LifeInv,
         [Next]_vars, Undisturbed'
  PROVE  LifeStep /\ LifeInv'
<1>0. Undisturbed /\ Unreplayed' /\ env.crashes = 0
  BY DisturbanceLasts DEF Undisturbed, Unreplayed
<1>1. CASE UNCHANGED vars
  <2> USE DEF vars, queueVars, pendingVars, storeVars, brokerVars, readVars, countVars
  <2>1. Executed' = Executed  BY <1>1 DEF Executed, Executing
  <2>2. LifeStep  BY <1>1, <2>1, LifeStutters DEF Same, LifeStep
  <2>3. NotYetRun' /\ Attempted' /\ RunningIsRun'
    BY <1>1, <2>1 DEF LifeInv, NotYetRun, Attempted, RunningIsRun, Copies
  <2>4. QueuesWait' /\ Candidate'
    BY <1>1 DEF LifeInv, QueuesWait, Candidate, InQueue, AtHead, Waiting
  <2> QED BY <2>2, <2>3, <2>4 DEF LifeInv
<1>2. CASE Next
  <2>1. ~Restart
    <3>1. env' # env \/ env'.crashes = 0  BY <1>0
    <3> QED BY <1>0, <1>2, EnvironmentCounts DEF Restart, Undisturbed, Counters
  <2>2. env'.crashes = env.crashes  BY <1>0, <1>2, <2>1, ReplaysLast
  <2>3. CASE SchedulerStep
    <3>1. Effects  BY <2>2, <2>3, SchedulerEffects
    <3>2. LifeStep  BY <2>3, SchedulerLife
    <3>3. NotYetRun' /\ Attempted' /\ RunningIsRun'  BY <3>1, <3>2, CopiesStayYoung, RunningStaysRun
    <3> QED BY <2>3, <3>1, <3>2, <3>3, SchedulerLeavesWaiting DEF LifeInv
  <2>4. ASSUME NEW w \in Workers, WorkerStep(w) PROVE LifeStep /\ LifeInv'
    <3>1. Effects  BY <2>2, <2>4, WorkerEffects
    <3>2. LifeStep  BY <1>0, <2>4, WorkerLife
    <3>3. NotYetRun' /\ Attempted' /\ RunningIsRun'  BY <3>1, <3>2, CopiesStayYoung, RunningStaysRun
    <3> QED BY <2>4, <3>1, <3>2, <3>3, WorkerLeavesWaiting DEF LifeInv
  <2>5. CASE OtherStep
    <3>1. Effects  BY <2>2, <2>5, OtherEffects
    <3>2. LifeStep  BY <2>5, OtherLife
    <3>3. NotYetRun' /\ Attempted' /\ RunningIsRun'  BY <3>1, <3>2, CopiesStayYoung, RunningStaysRun
    <3> QED BY <2>5, <3>1, <3>2, <3>3, OtherLeavesWaiting DEF LifeInv
  <2> QED BY <1>0, <1>2, <2>1, <2>3, <2>4, <2>5, StepKinds
<1> QED BY <1>1, <1>2

\* The hypotheses of the refinement are those of CalmInvariant.
LEMMA LifeInvariant ==
  ASSUME Calm
  PROVE  Spec => [](Undisturbed => LifeInv)
<1>1. /\ TypeOK /\ TypeOK' /\ AttemptsInv /\ AttemptsInv' /\ (Undisturbed => CalmInv)
      /\ (Unreplayed => OutcomeInv) /\ (Undisturbed => LifeInv) /\ [Next]_vars
      => (Undisturbed => LifeInv)'
  BY LifeSteps, DisturbanceLasts DEF Undisturbed, Unreplayed
<1>2. Init => (Undisturbed => LifeInv)  BY InitLife
<1> QED BY <1>1, <1>2, CalmInvariant, OutcomeInvariant, TypeCorrect, AttemptsInvariant, PTL DEF Spec

\* What JobLifecycle promises is kept by the queues, locks, rows, messages, workers and the
\* persistence task together, for every number of jobs, workers, sessions and attempts: a job
\* changes its status by the moves of the lifecycle only, a session has one execution at a time,
\* and an attempt is counted when it is admitted, never beyond max_attempts.
THEOREM Implements ==
  ASSUME Calm
  PROVE  Spec /\ []Undisturbed => ImplementsLifecycle
<1>1. /\ TypeOK /\ TypeOK' /\ AttemptsInv /\ AttemptsInv' /\ (Undisturbed => CalmInv)
      /\ (Unreplayed => OutcomeInv) /\ (Undisturbed => LifeInv) /\ Undisturbed /\ Undisturbed'
      /\ [Next]_vars
      => [Lifecycle!Next]_Lifecycle!vars
  <2> SUFFICES ASSUME TypeOK, TypeOK', AttemptsInv, AttemptsInv', CalmInv, OutcomeInv, LifeInv,
                      Undisturbed', [Next]_vars
               PROVE  [Lifecycle!Next]_Lifecycle!vars
    BY DEF Undisturbed, Unreplayed
  <2>1. LifeStep  BY LifeSteps
  <2> QED BY <2>1 DEF LifeStep, Lifecycle!Next
<1>2. Init => Lifecycle!Init  BY InitLife
<1> QED BY <1>1, <1>2, LifeInvariant, CalmInvariant, OutcomeInvariant, TypeCorrect, AttemptsInvariant,
           PTL DEF Spec, ImplementsLifecycle, Lifecycle!Spec

----------------------------------------------------------------------------
(* The pending counters *)

IsLive(j) == jobs[j].status \in Live
LiveJobs == {j \in Jobs : IsLive(j)}
LiveJobsOf(k) == {j \in Jobs : KeyOf[j] = k /\ IsLive(j)}

\* Every step keeps who is live and the counters, or ends one job, or accepts one.
SameLife(j) == jobs'[j].status \in Live <=> jobs[j].status \in Live
CountsStay == UNCHANGED pendingVars /\ \A j \in Jobs : SameLife(j)
CountsEnd(j) ==
  /\ jobs[j].status \in Live /\ jobs'[j].status \notin Live /\ \A i \in Jobs \ {j} : SameLife(i)
  /\ DecrementPending(j)
CountsBegin(j) ==
  /\ jobs[j].status \notin Live /\ jobs'[j].status \in Live /\ \A i \in Jobs \ {j} : SameLife(i)
  /\ pendingTotal' = pendingTotal + 1
  /\ pendingByUser' = [pendingByUser EXCEPT ![KeyOf[j]] = @ + 1]
CountStepOfPending == CountsStay \/ \E j \in Jobs : CountsEnd(j) \/ CountsBegin(j)

\* The sets that are counted are finite.
LEMMA LiveJobsFinite ==
  /\ IsFiniteSet(Jobs)
  /\ IsFiniteSet(LiveJobs) /\ Cardinality(LiveJobs) \in Nat
  /\ \A k : IsFiniteSet(LiveJobsOf(k)) /\ Cardinality(LiveJobsOf(k)) \in Nat
<1>1. IsFiniteSet(Jobs)  BY FS_Interval, CountsAssumption DEF Jobs
<1>2. IsFiniteSet(LiveJobs) /\ \A k : IsFiniteSet(LiveJobsOf(k))
  BY <1>1, FS_Subset DEF LiveJobs, LiveJobsOf
<1> QED BY <1>1, <1>2, FS_CardinalityType

\* Steps of this kind keep the counters exact.
LEMMA CountsStayExact ==
  ASSUME TypeOK, PendingExact, CountStepOfPending
  PROVE  PendingExact'
<1> DEFINE All == {j \in Jobs : jobs'[j].status \in Live}
           Of(k) == {j \in Jobs : KeyOf[j] = k /\ jobs'[j].status \in Live}
<1>0. /\ pendingTotal = Cardinality(LiveJobs)
      /\ \A k \in Keys : pendingByUser[k] = Cardinality(LiveJobsOf(k))
      /\ pendingByUser \in [Keys -> Nat] /\ pendingTotal \in Nat
  BY DEF PendingExact, LiveJobs, LiveJobsOf, IsLive, TypeOK
<1> SUFFICES /\ pendingTotal' = Cardinality(All)
             /\ \A k \in Keys : pendingByUser'[k] = Cardinality(Of(k))
  BY DEF PendingExact
<1>1. CASE CountsStay
  <2>1. All = LiveJobs /\ \A k : Of(k) = LiveJobsOf(k)
    BY <1>1 DEF CountsStay, SameLife, LiveJobs, LiveJobsOf, IsLive
  <2> QED BY <1>0, <1>1, <2>1 DEF CountsStay, pendingVars
<1>2. ASSUME NEW j \in Jobs, CountsEnd(j)
      PROVE  /\ pendingTotal' = Cardinality(All)
             /\ \A k \in Keys : pendingByUser'[k] = Cardinality(Of(k))
  <2>1. /\ All = LiveJobs \ {j} /\ j \in LiveJobs
        /\ j \in LiveJobsOf(KeyOf[j]) /\ Of(KeyOf[j]) = LiveJobsOf(KeyOf[j]) \ {j}
        /\ \A k : k # KeyOf[j] => Of(k) = LiveJobsOf(k)
    BY <1>2 DEF CountsEnd, SameLife, LiveJobs, LiveJobsOf, IsLive
  <2> HIDE DEF All, Of
  <2>2. /\ Cardinality(All) = Cardinality(LiveJobs) - 1
        /\ Cardinality(Of(KeyOf[j])) = Cardinality(LiveJobsOf(KeyOf[j])) - 1
    BY <2>1, LiveJobsFinite, FS_RemoveElement
  <2>3. Cardinality(LiveJobs) # 0 /\ Cardinality(LiveJobsOf(KeyOf[j])) # 0
    BY <2>1, LiveJobsFinite, FS_EmptySet
  <2>4. KeyOf[j] \in Keys  BY ScopeTypes
  <2>5. /\ pendingTotal' = IF pendingTotal > 0 THEN pendingTotal - 1 ELSE 0
        /\ pendingByUser' = [pendingByUser EXCEPT ![KeyOf[j]] = IF @ > 0 THEN @ - 1 ELSE 0]
    BY <1>2 DEF CountsEnd, DecrementPending
  <2>6. pendingTotal' = Cardinality(All)  BY <1>0, <2>2, <2>3, <2>5, LiveJobsFinite
  <2>7. ASSUME NEW k \in Keys PROVE pendingByUser'[k] = Cardinality(Of(k))
    <3>1. CASE k = KeyOf[j]  BY <1>0, <2>2, <2>3, <2>4, <2>5, <3>1, LiveJobsFinite
    <3>2. CASE k # KeyOf[j]  BY <1>0, <2>1, <2>5, <3>2
    <3> QED BY <3>1, <3>2
  <2> QED BY <2>6, <2>7
<1>3. ASSUME NEW j \in Jobs, CountsBegin(j)
      PROVE  /\ pendingTotal' = Cardinality(All)
             /\ \A k \in Keys : pendingByUser'[k] = Cardinality(Of(k))
  <2>1. /\ All = LiveJobs \cup {j} /\ j \notin LiveJobs
        /\ j \notin LiveJobsOf(KeyOf[j]) /\ Of(KeyOf[j]) = LiveJobsOf(KeyOf[j]) \cup {j}
        /\ \A k : k # KeyOf[j] => Of(k) = LiveJobsOf(k)
    BY <1>3 DEF CountsBegin, SameLife, LiveJobs, LiveJobsOf, IsLive
  <2> HIDE DEF All, Of
  <2>2. /\ Cardinality(All) = Cardinality(LiveJobs) + 1
        /\ Cardinality(Of(KeyOf[j])) = Cardinality(LiveJobsOf(KeyOf[j])) + 1
    BY <2>1, LiveJobsFinite, FS_AddElement
  <2>3. KeyOf[j] \in Keys  BY ScopeTypes
  <2>4. /\ pendingTotal' = pendingTotal + 1
        /\ pendingByUser' = [pendingByUser EXCEPT ![KeyOf[j]] = @ + 1]
    BY <1>3 DEF CountsBegin
  <2>5. ASSUME NEW k \in Keys PROVE pendingByUser'[k] = Cardinality(Of(k))
    <3>1. CASE k = KeyOf[j]  BY <1>0, <2>2, <2>3, <2>4, <3>1
    <3>2. CASE k # KeyOf[j]  BY <1>0, <2>1, <2>4, <3>2
    <3> QED BY <3>1, <3>2
  <2> QED BY <1>0, <2>2, <2>4, <2>5
<1> QED BY <1>1, <1>2, <1>3 DEF CountStepOfPending

\* One job moves, and the counters with it if it ends.
LEMMA OneMoves ==
  ASSUME NEW j \in Jobs, \A i \in Jobs \ {j} : jobs'[i].status = jobs[i].status,
         jobs[j].status \in Live
  PROVE  /\ jobs'[j].status \in Live /\ UNCHANGED pendingVars => CountStepOfPending
         /\ jobs'[j].status \in Terminal /\ DecrementPending(j) => CountStepOfPending
BY StatusSets DEF CountStepOfPending, CountsStay, CountsEnd, SameLife

\* The scheduler counts a job out when its attempts are used up, and only then.
LEMMA SchedulerCounts ==
  ASSUME TypeOK, CalmInv, OutcomeInv, SchedulerStep
  PROVE  CountStepOfPending
<1> USE DEF pendingVars
<1>0. jobs \in [Jobs -> JobRecord] /\ \A i \in Jobs : jobs[i] \in JobRecord  BY StateTypes
<1>d. ASSUME NEW j \in Jobs, NEW to, jobs' = [jobs EXCEPT ![j] = Withdrawn(@, to)]
      PROVE  jobs'[j].status = to /\ \A i \in Jobs \ {j} : jobs'[i].status = jobs[i].status
  BY <1>0, <1>d DEF Withdrawn, JobRecord
<1>1. CASE MergeLatest
  <2>1. sched.pc = "merge"  BY <1>1 DEF MergeLatest
  <2>2. PICK j \in Jobs : j = sched.job  BY <2>1, StateTypes
  <2>3. Exists(jobs[j]) /\ Free(j) /\ sched.rec \in Copies(j) /\ Merge(j, sched.rec)
    BY <1>1, <2>1, <2>2 DEF MergeLatest, CalmInv, SchedulerSound, Engaged, Copies
  <2>4. /\ \A i \in Jobs \ {j} : jobs'[i] = jobs[i]
        /\ jobs'[j] = jobs[j] \/ Replaced(j)
    BY <2>3, FreeMerge DEF Replaced
  <2>5. SameLife(j)  BY <2>3, <2>4, ReplacedIsAlike DEF SameLife
  <2>6. UNCHANGED pendingVars  BY <1>1 DEF MergeLatest
  <2> QED BY <2>4, <2>5, <2>6 DEF CountStepOfPending, CountsStay, SameLife
<1>2. CASE AdmitJob
  <2>1. PICK j \in Jobs : j = sched.job  BY <1>2, StateTypes DEF AdmitJob
  <2>2. /\ jobs[j].status = "queued" /\ jobs'[j].status = "admitted" /\ UNCHANGED pendingVars
        /\ \A i \in Jobs \ {j} : jobs'[i].status = jobs[i].status
    BY <1>0, <1>2, <2>1 DEF AdmitJob, Admissible
  <2> QED BY <2>2, StatusSets, OneMoves
<1>3. CASE HandleDispatchFailure
  <2>1. PICK j \in Jobs : j = sched.job  BY <1>3, StateTypes DEF HandleDispatchFailure
  <2>2. jobs[j].status \in {"admitted", "cancel_requested"}
    BY <1>3, <2>1 DEF HandleDispatchFailure, CalmInv, SchedulerSound, Awaited
  <2>3. CASE jobs[j].attempt >= MaxAttempts
    <3>1. CanMove(jobs[j].status, "failed")  BY <2>2 DEF CanMove, Successors
    <3>2. jobs' = [jobs EXCEPT ![j] = Withdrawn(@, "failed")] /\ DecrementPending(j)
      BY <1>3, <2>1, <2>3, <3>1 DEF HandleDispatchFailure
    <3> QED BY <1>d, <2>2, <3>2, StatusSets, OneMoves
  <2>4. CASE ~(jobs[j].attempt >= MaxAttempts)
    <3>1. PICK to \in {"queued", jobs[j].status} : jobs' = [jobs EXCEPT ![j] = Withdrawn(@, to)]
      <4>1. jobs' = [jobs EXCEPT ![j] = Withdrawn(@, IF CanMove(jobs[j].status, "queued")
                                                     THEN "queued" ELSE jobs[j].status)]
        BY <1>0, <1>3, <2>1, <2>4 DEF HandleDispatchFailure
      <4> QED BY <4>1
    <3>2. UNCHANGED pendingVars  BY <1>3, <2>1, <2>4 DEF HandleDispatchFailure
    <3>3. jobs'[j].status = to /\ \A i \in Jobs \ {j} : jobs'[i].status = jobs[i].status
      BY <1>d, <3>1
    <3>4. jobs[j].status \in Live /\ jobs'[j].status \in Live  BY <2>2, <3>1, <3>3, StatusSets
    <3> QED BY <3>2, <3>3, <3>4, OneMoves
  <2> QED BY <2>3, <2>4
<1>4. ASSUME NEW j \in Jobs, FailStalled(j) PROVE CountStepOfPending
  <2>1. jobs' = [jobs EXCEPT ![j] = Withdrawn(@, "failed")] /\ DecrementPending(j) /\ Leased(jobs[j])
    BY <1>4 DEF FailStalled, Stalled
  <2> QED BY <1>d, <2>1, StatusSets, OneMoves DEF Leased
<1>5. ASSUME NEW j \in Jobs, RequeueStalled(j) PROVE CountStepOfPending
  <2>1. jobs' = [jobs EXCEPT ![j] = Withdrawn(@, "queued")] /\ UNCHANGED pendingVars /\ Leased(jobs[j])
    BY <1>5 DEF RequeueStalled, Stalled
  <2> QED BY <1>d, <2>1, StatusSets, OneMoves DEF Leased
<1>6. CASE /\ ~MergeLatest /\ ~AdmitJob /\ ~HandleDispatchFailure
           /\ \A j \in Jobs : ~FailStalled(j) /\ ~RequeueStalled(j)
  <2>1. UNCHANGED jobs  BY <1>6, SchedulerFootprint
  <2>2. UNCHANGED pendingVars
    BY <1>6 DEF SchedulerStep, Dispatching, Sweeping, SelectNothing, SelectCandidate, LoadLatest,
       AcquireSession, SessionBusy, AdmissionLost, StageDispatch, EnqueueDispatch, MarkDispatchSent,
       FinishDispatch, SchedulerUnlock, LoadFails, DispatchFails, LoadStale, SweepUnlock, SkipStalled
  <2> QED BY <2>1, <2>2 DEF CountStepOfPending, CountsStay, SameLife
<1> QED BY <1>1, <1>2, <1>3, <1>4, <1>5, <1>6

\* A worker counts its job out when it ends it.
LEMMA WorkerCounts ==
  ASSUME TypeOK, CalmInv, OutcomeInv, NEW w \in Workers, WorkerStep(w)
  PROVE  CountStepOfPending
<1> USE DEF pendingVars
<1>0. jobs \in [Jobs -> JobRecord] /\ \A i \in Jobs : jobs[i] \in JobRecord  BY StateTypes
<1>1. ASSUME UNCHANGED jobs, UNCHANGED pendingVars PROVE CountStepOfPending
  BY <1>1 DEF CountStepOfPending, CountsStay, SameLife
<1>2. CASE TakeMessage(w)
  <2>1. 1 \in 1..Len(stream) /\ stream[1].job \in Jobs /\ stream[1] = Head(stream)
    BY <1>2, HeadTaken, StateTypes
  <2>2. Exists(jobs[stream[1].job])  BY <2>1 DEF CalmInv, MessagesAwaited, Awaited, Exists
  <2>3. UNCHANGED jobs /\ UNCHANGED pendingVars  BY <1>0, <1>2, <2>1, <2>2 DEF TakeMessage
  <2> QED BY <1>1, <2>3
<1>3. CASE ~TakeMessage(w)
  <2>1. /\ Busy(w) /\ worker[w].job \in Jobs /\ worker[w].job # 0 /\ ServiceSound(w)
        /\ worker[w].pc \in {"begin", "running", "failing", "release", "discard", "settle"}
    <3>1. Busy(w)  BY <1>3, WorkerPlaces
    <3>2. worker[w].job \in Jobs  BY <3>1, StateTypes DEF Busy
    <3>3. worker[w].job # 0  BY <3>2, JobNumbers
    <3> QED BY <3>1, <3>2, <3>3, ServiceKnows
  <2>2. PICK j \in Jobs : j = worker[w].job  BY <2>1
  <2>c. ASSUME NEW to, Finished(j, to)
        PROVE  /\ jobs'[j].status = to /\ \A i \in Jobs \ {j} : jobs'[i].status = jobs[i].status
    BY <1>0, <2>c DEF Finished, JobRecord
  <2>e. Executing(w) => jobs[j].status \in {"running", "cancel_requested"} /\ Holds(w)
    BY <2>1, <2>2 DEF ServiceSound, Ongoing, Holds
  <2>f. worker[w].pc = "begin" =>
          jobs[j].status \in {"admitted", "cancel_requested"} /\ Shared(w) /\ Captured(w) = jobs[j]
    BY <2>1, <2>2 DEF ServiceSound, Awaited, Captured
  <2>l. {"running", "cancel_requested", "admitted"} \subseteq Live  BY DEF Live
  <2>4. CASE BeginCancelled(w)
    <3>1. Finished(j, "cancelled") /\ DecrementPending(j) /\ jobs[j].status = "cancel_requested"
      BY <2>2, <2>4, <2>f DEF BeginCancelled, CanStart, CanBegin
    <3> QED BY <2>c, <2>l, <3>1, OneMoves DEF Terminal
  <2>5. CASE BeginRunning(w)
    <3>1. /\ jobs' = [jobs EXCEPT ![j].status = "running"] /\ UNCHANGED pendingVars
          /\ jobs[j].status = "admitted"
      BY <2>2, <2>5, <2>f DEF BeginRunning, CanStart, CanBegin
    <3>2. Finished(j, "running")  BY <3>1 DEF Finished
    <3> QED BY <2>c, <2>l, <3>1, <3>2, OneMoves
  <2>6. CASE Heartbeat(w)
    <3>1. (jobs' = jobs \/ jobs' = [jobs EXCEPT ![j].lease = "live"]) /\ UNCHANGED pendingVars
      BY <2>2, <2>6 DEF Heartbeat
    <3>2. \A i \in Jobs : jobs'[i].status = jobs[i].status  BY <1>0, <3>1 DEF JobRecord
    <3> QED BY <3>1, <3>2 DEF CountStepOfPending, CountsStay, SameLife
  <2>7. ASSUME NEW outcome \in {"succeeded", "failed"}, Publish(w, outcome) PROVE CountStepOfPending
    <3>1. Finished(j, outcome) /\ DecrementPending(j) /\ Executing(w)
      BY <2>2, <2>7 DEF Publish, Executing
    <3> QED BY <2>c, <2>e, <2>l, <3>1, OneMoves DEF Terminal
  <2>8. CASE EndCancelled(w)
    <3>1. Finished(j, "cancelled") /\ DecrementPending(j) /\ Executing(w)
      BY <2>2, <2>8 DEF EndCancelled, MarkCancelled, Executing
    <3> QED BY <2>c, <2>e, <2>l, <3>1, OneMoves DEF Terminal
  <2>9. CASE FailJob(w)
    <3>1. Executing(w) /\ jobs[j].status = "running"
      BY <2>2, <2>9, <2>e DEF FailJob, Executing
    <3>2. CanMove("running", "failed")  BY DEF CanMove, Successors
    <3>3. Finished(j, "failed") /\ DecrementPending(j)  BY <2>2, <2>9, <3>1, <3>2 DEF FailJob
    <3> QED BY <2>c, <2>l, <3>1, <3>3, OneMoves DEF Terminal
  <2>10. CASE \/ BeginIgnored(w) \/ BeginIllegal(w) \/ RuntimeFails(w) \/ EndIgnored(w)
              \/ WorkerRelease(w) \/ WorkerDiscard(w) \/ Settle(w) \/ RetryIgnored(w) \/ WorkerUnlock(w)
              \/ \E outcome \in {"succeeded", "failed"} : PublishIllegal(w, outcome)
    BY <1>1, <2>10 DEF BeginIgnored, BeginIllegal, RuntimeFails, EndIgnored, WorkerRelease,
       WorkerDiscard, Settle, RetryIgnored, WorkerUnlock, PublishIllegal
  <2>11. ~RetryCancelled(w) /\ ~RetryDispatch(w)  BY <2>1 DEF RetryCancelled, RetryDispatch
  <2> QED BY <1>3, <2>4, <2>5, <2>6, <2>7, <2>8, <2>9, <2>10, <2>11 DEF WorkerStep, Beginning, Ending
<1> QED BY <1>2, <1>3

\* create_job counts a job in, the cancellation of a queued job counts it out.
LEMMA OtherCounts ==
  ASSUME TypeOK, CalmInv, OutcomeInv, OtherStep
  PROVE  CountStepOfPending
<1> USE DEF pendingVars
<1>0. jobs \in [Jobs -> JobRecord] /\ \A i \in Jobs : jobs[i] \in JobRecord  BY StateTypes
<1>1. ASSUME NEW j \in Jobs, CreateJob(j) PROVE CountStepOfPending
  <2>1. jobs[j].status = "absent"  BY <1>1, UnknownJob DEF CreateJob
  <2>2. jobs'[j] = NewJob /\ \A i \in Jobs \ {j} : jobs'[i] = jobs[i]  BY <1>0, <1>1 DEF CreateJob
  <2>3. NewJob.status = "queued"  BY DEF NewJob, NoJob
  <2>4. CountsBegin(j)  BY <1>1, <2>1, <2>2, <2>3, StatusSets DEF CountsBegin, SameLife, CreateJob
  <2> QED BY <2>4 DEF CountStepOfPending
<1>2. ASSUME NEW j \in Jobs, CancelQueued(j) PROVE CountStepOfPending
  <2>1. /\ jobs' = [jobs EXCEPT ![j].status = "cancelled"] /\ DecrementPending(j)
        /\ jobs[j].status = "queued"
    BY <1>2 DEF CancelQueued, MarkCancelled, Finished
  <2>2. jobs'[j].status = "cancelled" /\ \A i \in Jobs \ {j} : jobs'[i].status = jobs[i].status
    BY <1>0, <2>1 DEF JobRecord
  <2> QED BY <2>1, <2>2, StatusSets, OneMoves DEF Terminal
<1>3. ASSUME NEW j \in Jobs, CancelActive(j) PROVE CountStepOfPending
  <2>1. /\ jobs' = [jobs EXCEPT ![j].status = "cancel_requested"] /\ UNCHANGED pendingVars
        /\ jobs[j].status \in Live
    BY <1>3 DEF CancelActive
  <2>2. jobs'[j].status = "cancel_requested" /\ \A i \in Jobs \ {j} : jobs'[i].status = jobs[i].status
    BY <1>0, <2>1 DEF JobRecord
  <2> QED BY <2>1, <2>2, StatusSets, OneMoves
<1>4. ASSUME NEW j \in Jobs, LeaseTimeout(j) PROVE CountStepOfPending
  <2>1. jobs' = [jobs EXCEPT ![j] = Aged(@)] /\ UNCHANGED pendingVars  BY <1>4 DEF LeaseTimeout
  <2>2. \A i \in Jobs : jobs'[i].status = jobs[i].status  BY <1>0, <2>1 DEF Aged, JobRecord
  <2> QED BY <2>1, <2>2 DEF CountStepOfPending, CountsStay, SameLife
<1>5. CASE Persisting \/ (\E j \in Jobs : PollRead(j)) \/ (\E s \in Sessions : LockTimeout(s))
  <2>1. UNCHANGED jobs /\ UNCHANGED pendingVars
    BY <1>5 DEF Persisting, TakeSnapshot, SaveSnapshot, PollRead, LockTimeout
  <2> QED BY <2>1 DEF CountStepOfPending, CountsStay, SameLife
<1>6. ~PollMerge  BY DEF CalmInv, PollMerge
<1> QED BY <1>1, <1>2, <1>3, <1>4, <1>5, <1>6 DEF OtherStep

\* Nothing is pending at the start.
LEMMA InitCounts == Init => PendingExact
<1> SUFFICES ASSUME Init PROVE PendingExact  OBVIOUS
<1>1. \A j \in Jobs : jobs[j].status \notin Live  BY StatusSets DEF Init, NoJob
<1>2. /\ {j \in Jobs : jobs[j].status \in Live} = {}
      /\ \A k \in Keys : {j \in Jobs : KeyOf[j] = k /\ jobs[j].status \in Live} = {}
  BY <1>1
<1> QED BY <1>2, FS_EmptySet DEF Init, PendingExact

\* Admission control: while nothing is disturbed, the counters that max_pending and
\* max_pending_per_user limit are exactly the jobs that have no outcome, through every mix of
\* failed dispatches, cancellations, failures and results.
THEOREM PendingCounts ==
  ASSUME Calm
  PROVE  Spec => [](Undisturbed => PendingExact)
<1>1. /\ TypeOK /\ (Undisturbed => CalmInv) /\ (Unreplayed => OutcomeInv)
      /\ (Undisturbed => PendingExact) /\ [Next]_vars
      => (Undisturbed => PendingExact)'
  <2> SUFFICES ASSUME TypeOK, Undisturbed', [Next]_vars, Undisturbed => CalmInv,
                      Unreplayed => OutcomeInv, Undisturbed => PendingExact
               PROVE  PendingExact'
    OBVIOUS
  <2>1. Undisturbed /\ Unreplayed /\ Unreplayed'  BY DisturbanceLasts DEF Undisturbed, Unreplayed
  <2>2. CASE UNCHANGED vars  BY <2>1, <2>2 DEF vars, pendingVars, PendingExact
  <2>3. CASE Next
    <3>1. ~Restart
      BY <2>1, <2>3, EnvironmentCounts DEF Restart, Undisturbed, Counters
    <3>2. CountStepOfPending
      BY <2>1, <2>3, <3>1, StepKinds, SchedulerCounts, WorkerCounts, OtherCounts
    <3> QED BY <2>1, <3>2, CountsStayExact
  <2> QED BY <2>2, <2>3
<1>2. Init => (Undisturbed => PendingExact)  BY InitCounts
<1> QED BY <1>1, <1>2, CalmInvariant, OutcomeInvariant, TypeCorrect, PTL DEF Spec

----------------------------------------------------------------------------
(* The rotation *)

\* Fewer dispatches have failed than a job has attempts: no failed dispatch uses up a job.
Spared == env.faults < MaxAttempts

\* While a job has no outcome, every attempt but the one under way was ended by a fault.
Dispatched(j) == ~Free(j) \/ (sched.job = j /\ sched.pc \in {"stage", "enqueue"})
Tried ==
  \A j \in Jobs : jobs[j].status \notin Terminal =>
    jobs[j].attempt <= env.faults + (IF Dispatched(j) THEN 1 ELSE 0)

\* The set of the keys in the rotation lists no key that is not there.
Listed ==
  /\ \A k \in activeKeySet : activeKeys[k] > 0
  /\ sched.pc \in {"unlock", "sweepunlock"} => activeKeys[KeyOf[sched.job]] > 0

\* A key whose queue is not empty is in the rotation, or the scheduler will put it back.
InSight(k) == activeKeys[k] > 0 \/ (Engaged /\ KeyOf[sched.job] = k)
KeysInSight == \A k \in Keys : queues[k] # <<>> => InSight(k)

QueuedInQueue == \A j \in Jobs : jobs[j].status = "queued" => InQueue(j)

ReachInv == Tried /\ Listed /\ KeysInSight /\ QueuedInQueue

\* A key has come back to the rotation, and the others are where they were.
Rotates(k) ==
  /\ activeKeys'[k] > 0 /\ \A x \in Keys \ {k} : activeKeys'[x] = activeKeys[x]
  /\ \A x \in activeKeySet' : activeKeys'[x] > 0

\* Both ways into the rotation lead there.
LEMMA WaysIntoRotation ==
  ASSUME TypeOK, Listed, NEW k \in Keys
  PROVE  /\ Activate(k) => Rotates(k)
         /\ Reappend(k) => Rotates(k)
<1>0. activeKeys \in [Keys -> Nat] /\ activeKeySet \subseteq Keys
      /\ \A x \in activeKeySet : activeKeys[x] > 0
  BY DEF TypeOK, Listed
<1>1. ASSUME Activate(k) PROVE Rotates(k)
  <2>1. CASE k \in activeKeySet  BY <1>0, <1>1, <2>1 DEF Activate, Rotates
  <2>2. CASE k \notin activeKeySet  BY <1>0, <1>1, <2>2 DEF Activate, Rotates
  <2> QED BY <2>1, <2>2
<1>2. ASSUME Reappend(k) PROVE Rotates(k)  BY <1>0, <1>2 DEF Reappend, Rotates
<1> QED BY <1>1, <1>2

\* What is left in a queue after a job was put at one of its ends or taken out.
LEMMA QueueRemains ==
  ASSUME NEW q \in Seq(Jobs), NEW j \in Jobs
  PROVE  /\ \A m \in 1..Len(q) : \E n \in 1..Len(Append(q, j)) : Append(q, j)[n] = q[m]
         /\ \E n \in 1..Len(Append(q, j)) : Append(q, j)[n] = j
         /\ \A m \in 1..Len(q) : \E n \in 1..Len(<<j>> \o q) : (<<j>> \o q)[n] = q[m]
         /\ \E n \in 1..Len(<<j>> \o q) : (<<j>> \o q)[n] = j
         /\ \A m \in 1..Len(q) : q[m] # j => \E n \in 1..Len(RemoveFirst(q, j)) : RemoveFirst(q, j)[n] = q[m]
         /\ q # <<>> => \A m \in 1..Len(q) : q[m] # Head(q) => \E n \in 1..Len(Tail(q)) : Tail(q)[n] = q[m]
<1> DEFINE a == Append(q, j)  b == <<j>> \o q  r == RemoveFirst(q, j)  t == Tail(q)
<1>0. Len(q) \in Nat  OBVIOUS
<1>1. /\ \A m \in 1..Len(q) : \E n \in 1..Len(a) : a[n] = q[m]
      /\ \E n \in 1..Len(a) : a[n] = j
  <2>1. /\ Len(a) = Len(q) + 1 /\ a[Len(q) + 1] = j /\ \A n \in 1..Len(q) : a[n] = q[n]
    BY AppendProperties
  <2>2. Len(q) + 1 \in 1..Len(a) /\ \A m \in 1..Len(q) : m \in 1..Len(a)  BY <1>0, <2>1
  <2> QED BY <2>1, <2>2
<1>2. /\ \A m \in 1..Len(q) : \E n \in 1..Len(b) : b[n] = q[m]
      /\ \E n \in 1..Len(b) : b[n] = j
  <2> DEFINE o == <<j>>
  <2>1. o \in Seq(Jobs) /\ Len(o) = 1 /\ o[1] = j  OBVIOUS
  <2>2. b = o \o q  OBVIOUS
  <2> HIDE DEF o
  <2>3. /\ Len(b) = 1 + Len(q)
        /\ \A i \in 1..1 + Len(q) : b[i] = IF i <= 1 THEN o[i] ELSE q[i - 1]
    BY <2>1, <2>2, ConcatProperties
  <2>4. 1 \in 1..Len(b) /\ b[1] = j  BY <1>0, <2>1, <2>3
  <2>5. \A m \in 1..Len(q) : m + 1 \in 1..Len(b) /\ b[m + 1] = q[m]  BY <1>0, <2>3
  <2> QED BY <2>4, <2>5
<1>3. ASSUME NEW m \in 1..Len(q), q[m] # j PROVE \E n \in 1..Len(r) : r[n] = q[m]
  <2>1. \/ r = q
        \/ \E p \in 1..Len(q) :
             /\ q[p] = j
             /\ r \in Seq(Jobs) /\ Len(r) = Len(q) - 1
             /\ \A i \in 1..Len(q) - 1 : r[i] = IF i < p THEN q[i] ELSE q[i + 1]
    BY RemoveFirstShape
  <2> HIDE DEF r
  <2>2. CASE r = q  BY <2>2
  <2>3. ASSUME NEW p \in 1..Len(q), q[p] = j, Len(r) = Len(q) - 1,
               \A i \in 1..Len(q) - 1 : r[i] = IF i < p THEN q[i] ELSE q[i + 1]
        PROVE  \E n \in 1..Len(r) : r[n] = q[m]
    <3>1. m # p  BY <1>3, <2>3
    <3>2. CASE m < p
      <4>1. m \in 1..Len(r) /\ m \in 1..Len(q) - 1  BY <1>0, <2>3, <3>2
      <4>2. r[m] = q[m]  BY <2>3, <3>2, <4>1
      <4> QED BY <4>1, <4>2
    <3>3. CASE m > p
      <4>1. m - 1 \in 1..Len(r) /\ m - 1 \in 1..Len(q) - 1 /\ ~(m - 1 < p) /\ (m - 1) + 1 = m
        BY <1>0, <2>3, <3>3
      <4>2. r[m - 1] = q[m]  BY <2>3, <4>1
      <4> QED BY <4>1, <4>2
    <3> QED BY <3>1, <3>2, <3>3
  <2> QED BY <2>1, <2>2, <2>3
<1>4. ASSUME q # <<>>, NEW m \in 1..Len(q), q[m] # Head(q) PROVE \E n \in 1..Len(t) : t[n] = q[m]
  <2>1. Head(q) = q[1] /\ Len(t) = Len(q) - 1 /\ \A n \in 1..Len(q) - 1 : t[n] = q[n + 1]
    BY <1>4
  <2> HIDE DEF t
  <2>2. m # 1  BY <1>4, <2>1
  <2>3. m - 1 \in 1..Len(t) /\ m - 1 \in 1..Len(q) - 1 /\ (m - 1) + 1 = m  BY <1>0, <2>1, <2>2
  <2> QED BY <2>1, <2>3
<1> QED BY <1>1, <1>2, <1>3, <1>4

\* So the other jobs stay in their queues.
LEMMA OthersStayQueued ==
  ASSUME TypeOK, NEW j \in Jobs,
         NEW r, r = queues[KeyOf[j]] \/ r = Append(queues[KeyOf[j]], j) \/ r = <<j>> \o queues[KeyOf[j]]
           \/ r = RemoveFirst(queues[KeyOf[j]], j)
           \/ (AtHead(j) /\ r = Tail(queues[KeyOf[j]])),
         queues' = [queues EXCEPT ![KeyOf[j]] = r]
  PROVE  /\ \A i \in Jobs \ {j} : InQueue(i) => InQueue(i)'
         /\ r = Append(queues[KeyOf[j]], j) \/ r = <<j>> \o queues[KeyOf[j]] => InQueue(j)'
         /\ r = queues[KeyOf[j]] => (InQueue(j) => InQueue(j)')
         /\ \A k \in Keys \ {KeyOf[j]} : queues'[k] = queues[k]
<1> DEFINE q == queues[KeyOf[j]]
<1>0. queues \in Queues /\ KeyOf[j] \in Keys /\ q \in Seq(Jobs)  BY StateTypes, ScopeTypes, QueueTypes
<1>1. queues'[KeyOf[j]] = r /\ \A k \in Keys \ {KeyOf[j]} : queues'[k] = queues[k]
  BY <1>0 DEF Queues
<1>2. /\ \A m \in 1..Len(q) : q[m] # j => \E n \in 1..Len(r) : r[n] = q[m]
      /\ r = Append(q, j) \/ r = <<j>> \o q => \E n \in 1..Len(r) : r[n] = j
  <2> DEFINE Leaves(s) == \A m \in 1..Len(q) : q[m] # j => \E n \in 1..Len(s) : s[n] = q[m]
             Gets(s) == \E n \in 1..Len(s) : s[n] = j
  <2>1. /\ Leaves(Append(q, j)) /\ Gets(Append(q, j)) /\ Leaves(<<j>> \o q) /\ Gets(<<j>> \o q)
        /\ Leaves(RemoveFirst(q, j)) /\ Leaves(q)
    BY <1>0, QueueRemains
  <2>2. AtHead(j) => Leaves(Tail(q))  BY <1>0, QueueRemains DEF AtHead
  <2> HIDE DEF Leaves, Gets
  <2>3. Leaves(r) /\ (r = Append(q, j) \/ r = <<j>> \o q => Gets(r))  BY <2>1, <2>2
  <2> QED BY <2>3 DEF Leaves, Gets
<1>3. ASSUME NEW i \in Jobs \ {j}, InQueue(i) PROVE InQueue(i)'
  <2>1. PICK m \in 1..Len(queues[KeyOf[i]]) : queues[KeyOf[i]][m] = i  BY <1>3 DEF InQueue
  <2>2. CASE KeyOf[i] = KeyOf[j]
    <3>1. q[m] # j /\ m \in 1..Len(q) /\ q[m] = i  BY <2>1, <2>2
    <3>2. PICK n \in 1..Len(r) : r[n] = i  BY <1>2, <3>1
    <3> QED BY <1>1, <2>2, <3>2 DEF InQueue
  <2>3. CASE KeyOf[i] # KeyOf[j]
    <3>1. queues'[KeyOf[i]] = queues[KeyOf[i]]  BY <1>1, <2>3, ScopeTypes
    <3> QED BY <2>1, <3>1 DEF InQueue
  <2> QED BY <2>2, <2>3
<1>4. ASSUME r = Append(q, j) \/ r = <<j>> \o q PROVE InQueue(j)'
  <2>1. PICK n \in 1..Len(r) : r[n] = j  BY <1>2, <1>4
  <2> QED BY <1>1, <2>1 DEF InQueue
<1>5. ASSUME r = q, InQueue(j) PROVE InQueue(j)'  BY <1>1, <1>5 DEF InQueue
<1> QED BY <1>1, <1>3, <1>4, <1>5

----------------------------------------------------------------------------
(* Every attempt but the one under way was ended by a fault *)

\* What a worker's step does with the jobs that are delivered: a job that is let go is over.
LEMMA WorkerDelivers ==
  ASSUME TypeOK, CalmInv, NEW w \in Workers, WorkerStep(w), NEW j \in Jobs, ~Free(j)
  PROVE  ~Free(j)' \/ jobs[j].status \in Terminal
<1>0. worker \in [Workers -> Worker] /\ worker[w] \in Worker /\ ServiceSound(w) /\ j # 0
  BY StateTypes, JobNumbers DEF CalmInv, ServicesSound
<1>1. CASE TakeMessage(w)
  <2>0. /\ 1 \in 1..Len(stream) /\ worker[w].pc = "idle" /\ worker'[w].pc = "begin"
        /\ worker'[w].job = stream[1].job /\ \A v \in Workers \ {w} : worker'[v] = worker[v]
    BY <1>1, HeadTaken
  <2>1. stream \in Seq(Message) /\ stream # <<>> /\ stream' = Tail(stream)
    BY <1>1, StateTypes DEF TakeMessage
  <2>2. CASE stream[1].job = j
    <3>1. worker'[w].job = j  BY <2>0, <2>2
    <3> QED BY <3>1 DEF Free, Served
  <2>3. ASSUME NEW i \in 1..Len(stream), stream[i].job = j, i # 1 PROVE ~Free(j)'
    <3>1. /\ Len(stream) \in Nat /\ Len(Tail(stream)) = Len(stream) - 1
          /\ \A n \in 1..Len(stream) - 1 : Tail(stream)[n] = stream[n + 1]
      BY <2>1, StateTypes
    <3>2. i - 1 \in 1..Len(stream) - 1 /\ (i - 1) + 1 = i  BY <2>3, <3>1
    <3>3. i - 1 \in 1..Len(stream') /\ stream'[i - 1].job = j  BY <2>1, <2>3, <3>1, <3>2
    <3> QED BY <3>3 DEF Free, Carried
  <2>4. ASSUME NEW v \in Workers, worker[v].job = j PROVE ~Free(j)'
    <3>1. v # w  BY <1>0, <2>0, <2>4 DEF ServiceSound
    <3>2. worker'[v].job = j  BY <2>0, <2>4, <3>1
    <3> QED BY <3>2 DEF Free, Served
  <2> QED BY <2>2, <2>3, <2>4 DEF Free, Carried, Served
<1>2. CASE ~TakeMessage(w)
  <2>1. UNCHANGED stream  BY <1>2, WorkerFootprint
  <2>2. Carried(j) => Carried(j)'  BY <2>1 DEF Carried
  <2>3. ASSUME \A v \in Workers : worker'[v].job = worker[v].job PROVE ~Free(j)'
    BY <2>2, <2>3 DEF Free, Served
  <2>4. CASE Settle(w)
    <3>1. jobs[worker[w].job].status \in Terminal  BY <1>0, <2>4 DEF Settle, ServiceSound
    <3>2. \A v \in Workers \ {w} : worker'[v] = worker[v]  BY <1>0, <2>4 DEF Settle
    <3> QED BY <2>2, <3>1, <3>2 DEF Free, Served
  <2>5. ~RetryIgnored(w) /\ ~RetryCancelled(w) /\ ~RetryDispatch(w) /\ ~WorkerUnlock(w)
    BY <1>0 DEF ServiceSound, RetryIgnored, RetryCancelled, RetryDispatch, WorkerUnlock
  <2>6. CASE BeginIgnored(w) \/ BeginCancelled(w) \/ BeginIllegal(w) \/ BeginRunning(w)
    <3>1. \A v \in Workers \ {w} : worker'[v] = worker[v]
      BY <1>0, <2>6 DEF BeginIgnored, BeginCancelled, BeginIllegal, BeginRunning
    <3>3. worker'[w].job = worker[w].job
      BY <1>0, <2>6 DEF BeginIgnored, BeginCancelled, BeginIllegal, BeginRunning, Worker
    <3>2. \A v \in Workers : worker'[v].job = worker[v].job  BY <3>1, <3>3
    <3> QED BY <2>3, <3>2
  <2>7. CASE \/ Heartbeat(w) \/ RuntimeFails(w) \/ EndCancelled(w) \/ EndIgnored(w) \/ FailJob(w)
             \/ WorkerRelease(w) \/ WorkerDiscard(w)
             \/ \E outcome \in {"succeeded", "failed"} : Publish(w, outcome) \/ PublishIllegal(w, outcome)
    <3>1. \A v \in Workers : worker'[v].job = worker[v].job
      BY <1>0, <2>7 DEF Heartbeat, RuntimeFails, EndCancelled, EndIgnored, FailJob, WorkerRelease,
         WorkerDiscard, Publish, PublishIllegal, WorkerAt, Worker
    <3> QED BY <2>3, <3>1
  <2> QED BY <1>2, <2>4, <2>5, <2>6, <2>7 DEF WorkerStep, Beginning, Ending
<1> QED BY <1>1, <1>2

\* ... what the scheduler does: a dispatch goes on until its message is sent, or fails.
LEMMA SchedulerDelivers ==
  ASSUME TypeOK, CalmInv, OutcomeInv, SchedulerStep, NEW j \in Jobs, Dispatched(j)
  PROVE  Dispatched(j)' \/ env'.faults = env.faults + 1
<1>0. /\ sched \in Scheduler /\ stream \in Seq(Message) /\ Len(stream) \in Nat
      /\ env.faults \in Nat /\ env \in Counters
  BY StateTypes DEF TypeOK, Counters
<1>1. ASSUME ~Free(j) PROVE ~Free(j)'
  <2>1. UNCHANGED worker
    <3>1. CASE MergeLatest
      <4>1. PICK i \in Jobs : i = sched.job  BY <3>1, StateTypes DEF MergeLatest
      <4>2. Merge(i, sched.rec) /\ Free(i)
        BY <3>1, <4>1 DEF MergeLatest, CalmInv, SchedulerSound, Engaged
      <4> QED BY <4>2, FreeMerge
    <3> QED BY <3>1, SchedulerFootprint
  <2>2. Carried(j) => Carried(j)'
    <3>1. CASE UNCHANGED stream  BY <3>1 DEF Carried
    <3>2. CASE EnqueueDispatch
      <4>1. PICK m : stream' = Append(stream, m)  BY <3>2 DEF EnqueueDispatch
      <4>2. /\ Len(stream') = Len(stream) + 1
            /\ \A i \in 1..Len(stream) : i \in 1..Len(stream') /\ stream'[i] = stream[i]
        BY <1>0, <4>1
      <4> QED BY <4>2 DEF Carried
    <3> QED BY <3>1, <3>2, SchedulerFootprint
  <2> QED BY <1>1, <2>1, <2>2 DEF Free, Served
<1>2. CASE sched.job = j /\ sched.pc = "stage"
  <2>1. StageDispatch \/ DispatchFails
    BY <1>2 DEF SchedulerStep, SelectNothing, SelectCandidate, Dispatching, LoadLatest, MergeLatest,
       AcquireSession, SessionBusy, AdmitJob, AdmissionLost, EnqueueDispatch, MarkDispatchSent,
       HandleDispatchFailure, FinishDispatch, SchedulerUnlock, LoadFails, Sweeping, LoadStale,
       SkipStalled, FailStalled, RequeueStalled, Stalled, SweepUnlock
  <2>2. CASE StageDispatch
    <3>1. jobs[j].fence = sched.rec.fence /\ Exists(jobs[j])
      BY <1>2 DEF OutcomeInv, Staged, Exists
    <3>2. rows[j].fence <= jobs[j].fence
      BY <3>1, CopyRecords DEF OutcomeInv, CopiesBehind, Behind
    <3>3. SchedulerAt("enqueue")  BY <1>2, <2>2, <3>1, <3>2 DEF StageDispatch
    <3> QED BY <1>0, <1>2, <3>3 DEF SchedulerAt, Scheduler, Dispatched
  <2>3. CASE DispatchFails  BY <1>0, <2>3 DEF DispatchFails, Fault, Counters
  <2> QED BY <2>1, <2>2, <2>3
<1>3. CASE sched.job = j /\ sched.pc = "enqueue"
  <2>1. EnqueueDispatch \/ DispatchFails
    BY <1>3 DEF SchedulerStep, SelectNothing, SelectCandidate, Dispatching, LoadLatest, MergeLatest,
       AcquireSession, SessionBusy, AdmitJob, AdmissionLost, StageDispatch, MarkDispatchSent,
       HandleDispatchFailure, FinishDispatch, SchedulerUnlock, LoadFails, Sweeping, LoadStale,
       SkipStalled, FailStalled, RequeueStalled, Stalled, SweepUnlock
  <2>2. CASE EnqueueDispatch
    <3>1. stream' = Append(stream, [job |-> j, token |-> sched.rec.token])
      BY <1>3, <2>2 DEF EnqueueDispatch
    <3>2. Len(stream) + 1 \in 1..Len(stream') /\ stream'[Len(stream) + 1].job = j  BY <1>0, <3>1
    <3> QED BY <3>2 DEF Dispatched, Free, Carried
  <2>3. CASE DispatchFails  BY <1>0, <2>3 DEF DispatchFails, Fault, Counters
  <2> QED BY <2>1, <2>2, <2>3
<1> QED BY <1>1, <1>2, <1>3 DEF Dispatched

\* ... and nobody else touches a dispatch.
LEMMA OthersLeaveDispatches ==
  ASSUME TypeOK, CalmInv, OutcomeInv, OtherStep, NEW j \in Jobs, Dispatched(j)
  PROVE  Dispatched(j)'
<1>1. UNCHANGED <<stream, worker>>  BY OtherFootprint DEF CalmInv, PollMerge
<1>2. sched'.pc = sched.pc /\ sched'.job = sched.job
  BY OtherFootprint, TimeoutEffects
<1> QED BY <1>1, <1>2 DEF Dispatched, Free, Carried, Served

\* A job that is admitted has used an attempt, and its dispatch is under way; no other step
\* uses one.
LEMMA TriedStays ==
  ASSUME TypeOK, TypeOK', AttemptsInv, AttemptsInv', CalmInv, OutcomeInv, Effects, Tried,
         env'.faults \in {env.faults, env.faults + 1},
         \A j \in Jobs : Dispatched(j) =>
           Dispatched(j)' \/ jobs[j].status \in Terminal \/ env'.faults = env.faults + 1
  PROVE  Tried'
<1> SUFFICES ASSUME NEW j \in Jobs, jobs'[j].status \notin Terminal
             PROVE  jobs'[j].attempt <= env'.faults + (IF Dispatched(j)' THEN 1 ELSE 0)
  BY DEF Tried
<1> DEFINE n == IF Dispatched(j) THEN 1 ELSE 0  m == IF Dispatched(j)' THEN 1 ELSE 0
<1>0. /\ jobs[j].attempt \in Nat /\ jobs'[j].attempt \in Nat /\ env.faults \in Nat
      /\ jobs[j].fence = jobs[j].attempt /\ jobs'[j].fence = jobs'[j].attempt
      /\ jobs[j].status = "absent" => jobs[j].attempt = 0
  <2>1. env.faults \in Nat  BY DEF TypeOK, Counters
  <2>2. jobs[j] \in JobRecord /\ SoundJob(jobs[j])  BY SoundState
  <2>3. jobs'[j] \in JobRecord /\ SoundJob(jobs'[j])
    BY DEF AttemptsInv, CopiesSound, SoundJob, Exists, TypeOK
  <2> QED BY <2>1, <2>2, <2>3 DEF SoundJob, Exists, JobRecord
<1>1. JobStep(j) /\ jobs[j].status \notin Terminal  BY OutcomesRemain DEF Effects
<1>2. jobs[j].attempt <= env.faults + n  BY <1>1 DEF Tried
<1>3. ASSUME jobs'[j].attempt = jobs[j].attempt PROVE jobs'[j].attempt <= env'.faults + m
  <2>1. n = 1 => m = 1 \/ env'.faults = env.faults + 1  BY <1>1
  <2>2. n \in {0, 1} /\ m \in {0, 1}  OBVIOUS
  <2> HIDE DEF n, m
  <2> QED BY <1>0, <1>2, <1>3, <2>1, <2>2
<1>4. CASE Created(j)
  <2>1. jobs'[j].attempt = 0 /\ m \in {0, 1}  BY <1>4 DEF Created, NewJob, NoJob
  <2> HIDE DEF m
  <2> QED BY <1>0, <2>1
<1>5. CASE Replaced(j)
  <2>1. CASE Exists(jobs[j])
    <3>1. jobs'[j].fence = jobs[j].fence  BY <1>5, <2>1, ReplacedIsAlike
    <3> QED BY <1>0, <1>3, <3>1
  <2>2. CASE ~Exists(jobs[j])
    <3>1. Exists(jobs'[j]) /\ jobs'[j].status = rows[j].status  BY <1>5, <2>2, ReplacedIsAlike
    <3>2. rows[j].status \in Terminal \cup {"absent"}  BY <2>2 DEF OutcomeInv, JobsKnown
    <3> QED BY <3>1, <3>2 DEF Exists
  <2> QED BY <2>1, <2>2
<1>6. CASE Admitted(j)
  <2>1. m = 1 /\ jobs'[j].attempt = jobs[j].attempt + 1
    BY <1>0, <1>6 DEF Admitted, Dispatched
  <2>2. n = 0
    <3>1. jobs[j].status = "queued" /\ Free(j)  BY <1>6 DEF Admitted, CalmInv, QueuesSound
    <3>2. sched.job = j => sched.pc \notin {"stage", "enqueue"}
      BY <3>1 DEF CalmInv, SchedulerSound, Awaited
    <3> QED BY <3>1, <3>2 DEF Dispatched
  <2>3. jobs'[j].attempt <= env'.faults + m
    <3> HIDE DEF n, m
    <3> QED BY <1>0, <1>2, <2>1, <2>2
  <2> QED BY <2>3
<1>7. CASE Stays(j) \/ GivenBack(j) \/ Moved(j)
  <2>1. jobs'[j].fence = jobs[j].fence  BY <1>7 DEF Stays, Alike, GivenBack, Moved
  <2> QED BY <1>0, <1>3, <2>1
<1> QED BY <1>1, <1>4, <1>5, <1>6, <1>7 DEF JobStep

----------------------------------------------------------------------------
(* No key gets out of sight *)

\* The rotation and the queues are as they were, and the scheduler goes on with its job, or had
\* none that is in sight for its sake only.
LEMMA SightStays ==
  ASSUME ReachInv, UNCHANGED queueVars,
         \/ Engaged /\ Engaged' /\ sched'.job = sched.job
         \/ Engaged /\ activeKeys[KeyOf[sched.job]] > 0
         \/ ~Engaged,
         sched'.pc \in {"unlock", "sweepunlock"} => sched'.pc = sched.pc /\ sched'.job = sched.job
  PROVE  Listed' /\ KeysInSight'
<1> USE DEF queueVars
<1>1. Listed'  BY DEF ReachInv, Listed
<1>2. KeysInSight'
  <2> SUFFICES ASSUME NEW k \in Keys, queues[k] # <<>> PROVE InSight(k)'  BY DEF KeysInSight
  <2>1. InSight(k)  BY DEF ReachInv, KeysInSight
  <2> QED BY <2>1 DEF InSight
<1> QED BY <1>1, <1>2

\* The key of the scheduler's job comes back to the rotation.
LEMMA SightReturns ==
  ASSUME ReachInv, NEW k \in Keys, Rotates(k), \A x \in Keys \ {k} : queues'[x] = queues[x],
         Engaged => KeyOf[sched.job] = k,
         sched'.pc \in {"unlock", "sweepunlock"} => KeyOf[sched'.job] = k
  PROVE  Listed' /\ KeysInSight'
<1>1. Listed'  BY DEF Rotates, Listed
<1>2. KeysInSight'
  <2> SUFFICES ASSUME NEW x \in Keys, queues'[x] # <<>> PROVE InSight(x)'  BY DEF KeysInSight
  <2>1. CASE x = k  BY <2>1 DEF Rotates, InSight
  <2>2. CASE x # k
    <3>1. queues[x] # <<>> /\ activeKeys'[x] = activeKeys[x]  BY <2>2 DEF Rotates
    <3>2. InSight(x)  BY <3>1 DEF ReachInv, KeysInSight
    <3> QED BY <2>2, <3>1, <3>2 DEF InSight
  <2> QED BY <2>1, <2>2
<1> QED BY <1>1, <1>2

\* The key of the scheduler's job has nothing left to do.
LEMMA SightEnds ==
  ASSUME ReachInv, NEW k \in Keys, UNCHANGED activeKeys, activeKeySet' \subseteq activeKeySet,
         \A x \in Keys \ {k} : queues'[x] = queues[x], queues'[k] = <<>>,
         Engaged => KeyOf[sched.job] = k, sched'.pc = "idle"
  PROVE  Listed' /\ KeysInSight'
<1>1. Listed'  BY DEF ReachInv, Listed
<1>2. KeysInSight'
  <2> SUFFICES ASSUME NEW x \in Keys, queues'[x] # <<>> PROVE InSight(x)'  BY DEF KeysInSight
  <2>1. x # k /\ queues[x] # <<>>  OBVIOUS
  <2>2. InSight(x)  BY <2>1 DEF ReachInv, KeysInSight
  <2> QED BY <2>1, <2>2 DEF InSight
<1> QED BY <1>1, <1>2

\* What the scheduler does with the rotation.  A dispatch that fails for good would take the
\* key away: no job has had as many faults as it has attempts.
LEMMA SchedulerKeepsSight ==
  ASSUME TypeOK, "load" \notin Faults, AttemptsInv, CalmInv, ReachInv, Spared, SchedulerStep
  PROVE  Listed' /\ KeysInSight'
<1> DEFINE j == sched.job
<1>0. /\ sched \in Scheduler /\ queues \in Queues /\ activeKeys \in [Keys -> Nat]
      /\ activeKeySet \subseteq Keys /\ IdleScheduler.pc = "idle"
      /\ Engaged => j \in Jobs /\ KeyOf[j] \in Keys
      /\ Listed
  BY StateTypes, ScopeTypes, Places DEF Engaged, TypeOK, ReachInv
<1>1. CASE SelectNothing
  <2>1. /\ activeKeys' = [k \in Keys |-> IF k \in IdleKeys THEN 0 ELSE activeKeys[k]]
        /\ activeKeySet' = activeKeySet \ IdleKeys /\ UNCHANGED <<queues, sched>>
        /\ sched.pc = "idle"
    BY <1>1 DEF SelectNothing
  <2>2. Listed'  BY <1>0, <2>1 DEF Listed
  <2>3. KeysInSight'
    <3> SUFFICES ASSUME NEW k \in Keys, queues[k] # <<>> PROVE InSight(k)'
      BY <2>1 DEF KeysInSight
    <3>1. k \notin IdleKeys  BY DEF IdleKeys
    <3>2. activeKeys[k] > 0  BY <2>1 DEF ReachInv, KeysInSight, InSight, Engaged
    <3> QED BY <2>1, <3>1, <3>2 DEF InSight
  <2> QED BY <2>2, <2>3
<1>2. ASSUME NEW k \in Keys, SelectCandidate(k) PROVE Listed' /\ KeysInSight'
  <2>1. PICK met \in SUBSET IdleKeys :
          /\ activeKeys' = [x \in Keys |-> IF x \in met \cup {k} THEN activeKeys[x] - 1
                                            ELSE activeKeys[x]]
          /\ activeKeySet' = activeKeySet \ (met \cup {k})
    BY <1>2 DEF SelectCandidate
  <2>2. /\ sched'.pc = "load" /\ sched'.job = Head(queues[k]) /\ queues' = queues
        /\ sched.pc = "idle" /\ queues[k] # <<>>
    BY <1>0, <1>2 DEF SelectCandidate, Eligible, Scheduler
  <2>3. Listed'  BY <1>0, <2>1, <2>2 DEF Listed
  <2>4. KeyOf[sched'.job] = k
    <3>1. queues[k] \in Seq(Jobs)  BY <1>0, QueueTypes DEF Queues
    <3>2. 1 \in 1..Len(queues[k]) /\ Head(queues[k]) = queues[k][1]  BY <2>2, <3>1
    <3> QED BY <2>2, <3>2 DEF CalmInv, QueuesSound, QueuesApart
  <2>5. KeysInSight'
    <3> SUFFICES ASSUME NEW x \in Keys, queues[x] # <<>> PROVE InSight(x)'
      BY <2>2 DEF KeysInSight
    <3>1. CASE x = k  BY <2>2, <2>4, <3>1 DEF InSight, Engaged
    <3>2. CASE x # k
      <4>1. x \notin met  BY DEF IdleKeys
      <4>2. activeKeys[x] > 0  BY <2>2 DEF ReachInv, KeysInSight, InSight, Engaged
      <4> QED BY <2>1, <3>2, <4>1, <4>2 DEF InSight
    <3> QED BY <3>1, <3>2
  <2> QED BY <2>3, <2>5
<1>3. CASE \/ LoadLatest \/ AcquireSession \/ StageDispatch \/ EnqueueDispatch \/ MarkDispatchSent
           \/ DispatchFails
  <2>1. PICK p \in {"merge", "admit", "reappend", "enqueue", "failed", "mark", "finish"},
             r \in JobRecord : sched' = [sched EXCEPT !.pc = p, !.rec = r]
    <3>1. CASE LoadLatest
      <4>1. rows[sched.job] \in JobRecord  BY <3>1, StateTypes DEF LoadLatest
      <4> QED BY <3>1, <4>1 DEF LoadLatest
    <3>2. CASE ~LoadLatest
      <4>1. PICK p \in {"admit", "reappend", "enqueue", "failed", "mark", "finish"} :
              sched' = [sched EXCEPT !.pc = p]
        BY <1>3, <3>2 DEF AcquireSession, StageDispatch, EnqueueDispatch, MarkDispatchSent,
           DispatchFails, SchedulerAt
      <4>2. [sched EXCEPT !.pc = p] = [sched EXCEPT !.pc = p, !.rec = sched.rec]
        BY <1>0 DEF Scheduler
      <4>3. sched.rec \in JobRecord  BY StateTypes
      <4> QED BY <4>1, <4>2, <4>3
    <3> QED BY <3>1, <3>2
  <2>2. sched'.pc = p /\ sched'.job = j  BY <1>0, <2>1 DEF Scheduler
  <2>3. UNCHANGED queueVars /\ Engaged
    BY <1>3 DEF LoadLatest, AcquireSession, StageDispatch, EnqueueDispatch, MarkDispatchSent,
       DispatchFails, Engaged
  <2>4. Engaged' /\ sched'.pc \notin {"unlock", "sweepunlock"}  BY <2>2 DEF Engaged
  <2> QED BY <2>2, <2>3, <2>4, SightStays
<1>4. CASE MergeLatest
  <2>1. PICK i \in Jobs : i = sched.job  BY <1>0, <1>4 DEF MergeLatest, Engaged
  <2>2. Engaged /\ KeyOf[i] \in Keys  BY <1>4, ScopeTypes DEF MergeLatest, Engaged
  <2>3. CASE jobs'[i].status = "queued"
    <3>1. sched' = [sched EXCEPT !.pc = "acquire", !.rec = NoJob] /\ UNCHANGED queueVars
      BY <1>4, <2>1, <2>3 DEF MergeLatest
    <3>2. sched'.pc = "acquire" /\ sched'.job = sched.job  BY <1>0, <3>1 DEF Scheduler
    <3> QED BY <2>2, <3>1, <3>2, SightStays DEF Engaged
  <2>4. CASE jobs'[i].status # "queued"
    <3>1. /\ queues' = [queues EXCEPT ![KeyOf[i]] = IF AtHead(i) THEN Tail(@) ELSE @]
          /\ IF queues'[KeyOf[i]] # <<>> THEN Reappend(KeyOf[i])
             ELSE activeKeySet' = activeKeySet \ {KeyOf[i]} /\ UNCHANGED activeKeys
          /\ sched' = IdleScheduler
      BY <1>4, <2>1, <2>4 DEF MergeLatest
    <3>2. \A x \in Keys \ {KeyOf[i]} : queues'[x] = queues[x]  BY <1>0, <3>1 DEF Queues
    <3>3. CASE queues'[KeyOf[i]] # <<>>
      <4>1. Rotates(KeyOf[i])  BY <1>0, <2>2, <3>1, <3>3, WaysIntoRotation
      <4> QED BY <1>0, <2>1, <2>2, <3>1, <3>2, <4>1, SightReturns
    <3>4. CASE queues'[KeyOf[i]] = <<>>  BY <1>0, <2>1, <2>2, <3>1, <3>2, <3>4, SightEnds
    <3> QED BY <3>3, <3>4
  <2> QED BY <2>3, <2>4
<1>5. CASE SessionBusy \/ AdmissionLost
  <2>1. /\ KeyOf[j] \in Keys /\ Reappend(KeyOf[j]) /\ UNCHANGED queues /\ Engaged
        /\ sched' = IdleScheduler \/ SchedulerAt("unlock")
    BY <1>0, <1>5 DEF SessionBusy, AdmissionLost, Engaged
  <2>2. sched'.pc = "idle" \/ sched'.job = j  BY <1>0, <2>1, Places DEF SchedulerPC
  <2>3. PICK k \in Keys : k = KeyOf[j]  BY <2>1
  <2>4. Rotates(k)
    <3>1. Reappend(k)
      BY <2>1, <2>3 DEF Reappend
    <3> QED BY <1>0, <3>1, WaysIntoRotation
  <2>5. sched'.pc \in {"unlock", "sweepunlock"} => KeyOf[sched'.job] = k  BY <2>2, <2>3
  <2> QED BY <2>1, <2>3, <2>4, <2>5, SightReturns
<1>6. CASE AdmitJob
  <2>1. PICK i \in Jobs : i = sched.job  BY <1>0, <1>6 DEF AdmitJob, Engaged
  <2>2. /\ UNCHANGED <<activeKeys, activeKeySet>> /\ Engaged /\ AtHead(i) /\ KeyOf[i] \in Keys
        /\ queues' = [queues EXCEPT ![KeyOf[i]] = Tail(@)]
    BY <1>6, <2>1, ScopeTypes DEF AdmitJob, Admissible, Engaged
  <2>3. sched'.pc = "stage" /\ sched'.job = i  BY <1>0, <1>6, <2>1 DEF AdmitJob, Scheduler
  <2>4. Listed'  BY <1>0, <2>2, <2>3 DEF Listed
  <2>5. KeysInSight'
    <3> SUFFICES ASSUME NEW x \in Keys, queues'[x] # <<>> PROVE InSight(x)'  BY DEF KeysInSight
    <3>1. CASE x = KeyOf[i]  BY <2>3, <3>1 DEF InSight, Engaged
    <3>2. CASE x # KeyOf[i]
      <4>1. queues[x] # <<>>  BY <1>0, <2>2, <3>2 DEF Queues
      <4>2. InSight(x)  BY <4>1 DEF ReachInv, KeysInSight
      <4> QED BY <2>1, <2>2, <3>2, <4>2 DEF InSight
    <3> QED BY <3>1, <3>2
  <2> QED BY <2>4, <2>5
<1>7. CASE HandleDispatchFailure
  <2>1. PICK i \in Jobs : i = sched.job  BY <1>0, <1>7 DEF HandleDispatchFailure, Engaged
  <2>2. sched.pc = "failed" /\ Engaged /\ KeyOf[i] \in Keys
    BY <1>7, ScopeTypes DEF HandleDispatchFailure, Engaged
  <2>3. /\ Free(i) /\ jobs[i].status \in {"admitted", "cancel_requested"}
    BY <2>1, <2>2 DEF CalmInv, SchedulerSound, Awaited, Engaged
  <2>4. ~(jobs[i].attempt >= MaxAttempts)
    <3>1. ~Dispatched(i) /\ jobs[i].status \notin Terminal
      BY <2>2, <2>3 DEF Dispatched, Terminal
    <3>2. jobs[i].attempt <= env.faults + 0  BY <3>1 DEF ReachInv, Tried
    <3>3. env.faults \in Nat /\ jobs[i].attempt \in Nat
      BY AttemptFacts DEF TypeOK, Counters
    <3> QED BY <3>2, <3>3, CountsAssumption DEF Spared
  <2>5. queues' = [queues EXCEPT ![KeyOf[i]] = <<i>> \o @] /\ Activate(KeyOf[i])
    BY <1>7, <2>1, <2>4 DEF HandleDispatchFailure
  <2>6. sched'.pc = "idle" \/ sched'.job = i
    <3>1. SchedulerAt("unlock") \/ sched' = IdleScheduler  BY <1>7 DEF HandleDispatchFailure
    <3> QED BY <1>0, <2>1, <3>1, Places DEF SchedulerPC
  <2>7. Rotates(KeyOf[i])  BY <1>0, <2>2, <2>5, WaysIntoRotation
  <2>8. \A x \in Keys \ {KeyOf[i]} : queues'[x] = queues[x]  BY <1>0, <2>5 DEF Queues
  <2>9. sched'.pc \in {"unlock", "sweepunlock"} => KeyOf[sched'.job] = KeyOf[i]  BY <2>6
  <2> QED BY <2>1, <2>2, <2>7, <2>8, <2>9, SightReturns
<1>8. CASE FinishDispatch
  <2>1. PICK k \in Keys : k = KeyOf[j]  BY <1>0, <1>8 DEF FinishDispatch, Engaged
  <2>2. /\ IF queues[k] # <<>> THEN Reappend(k)
           ELSE activeKeySet' = activeKeySet \ {k} /\ UNCHANGED activeKeys
        /\ UNCHANGED queues /\ sched' = IdleScheduler
    BY <1>8, <2>1 DEF FinishDispatch
  <2>3. CASE queues[k] # <<>>
    <3>1. Rotates(k)  BY <1>0, <2>2, <2>3, WaysIntoRotation
    <3> QED BY <1>0, <2>1, <2>2, <3>1, SightReturns
  <2>4. CASE queues[k] = <<>>  BY <1>0, <2>1, <2>2, <2>4, SightEnds
  <2> QED BY <2>3, <2>4
<1>9. CASE SchedulerUnlock \/ SweepUnlock
  <2>1. sched.pc \in {"unlock", "sweepunlock"} /\ UNCHANGED queueVars
    BY <1>9 DEF SchedulerUnlock, SweepUnlock
  <2>2. sched'.pc \in {"idle", "sweep"}
    <3>1. CASE SchedulerUnlock  BY <1>0, <3>1 DEF SchedulerUnlock
    <3>2. CASE SweepUnlock
      <4>1. PICK x \in {IdleScheduler, [sched EXCEPT !.stale = sched.stale \ {sched.job}]},
                 p \in {"idle", "sweep"} : sched' = [x EXCEPT !.job = 0, !.pc = p]
        BY <3>2 DEF SweepUnlock, SweptFrom
      <4> QED BY <1>0, <4>1 DEF IdleScheduler, Scheduler
    <3> QED BY <1>9, <3>1, <3>2
  <2>3. Engaged /\ activeKeys[KeyOf[sched.job]] > 0  BY <1>0, <2>1 DEF Listed, Engaged
  <2> QED BY <2>1, <2>2, <2>3, SightStays
<1>10. CASE LoadStale \/ \E i \in Jobs : SkipStalled(i) \/ FailStalled(i)
  <2>1. UNCHANGED queueVars /\ ~Engaged
    BY <1>10 DEF LoadStale, SkipStalled, FailStalled, Stalled, Engaged
  <2>2. sched'.pc \in {"idle", "sweep"}
    BY <1>0, <1>10 DEF LoadStale, SkipStalled, FailStalled, Stalled, SweptFrom, Scheduler
  <2> QED BY <2>1, <2>2, SightStays
<1>11. ASSUME NEW i \in Jobs, RequeueStalled(i) PROVE Listed' /\ KeysInSight'
  <2>1. /\ ~Engaged /\ Requeue(i) /\ sched' = [sched EXCEPT !.pc = "sweepunlock", !.job = i]
        /\ KeyOf[i] \in Keys
    BY <1>11, ScopeTypes DEF RequeueStalled, Stalled, Engaged
  <2>2. sched'.job = i  BY <1>0, <2>1 DEF Scheduler
  <2>3. Rotates(KeyOf[i])  BY <1>0, <2>1, WaysIntoRotation DEF Requeue
  <2>4. \A x \in Keys \ {KeyOf[i]} : queues'[x] = queues[x]  BY <1>0, <2>1 DEF Requeue, Queues
  <2> QED BY <2>1, <2>2, <2>3, <2>4, SightReturns
<1>12. ~LoadFails  BY DEF LoadFails, Fault
<1> QED BY <1>1, <1>2, <1>3, <1>4, <1>5, <1>6, <1>7, <1>8, <1>9, <1>10, <1>11, <1>12
        DEF SchedulerStep, Dispatching, Sweeping

----------------------------------------------------------------------------
(* A queued job is in its queue *)

\* One job is touched, and the others stay queued.
LEMMA QueuedStay ==
  ASSUME ReachInv, NEW j \in Jobs,
         \A i \in Jobs \ {j} : jobs'[i].status = jobs[i].status /\ (InQueue(i) => InQueue(i)'),
         jobs'[j].status = "queued" => InQueue(j)'
  PROVE  QueuedInQueue'
<1> SUFFICES ASSUME NEW i \in Jobs, jobs'[i].status = "queued" PROVE InQueue(i)'
  BY DEF QueuedInQueue
<1>1. CASE i = j  BY <1>1
<1>2. CASE i # j  BY <1>2 DEF ReachInv, QueuedInQueue
<1> QED BY <1>1, <1>2

\* No queue is touched, and no job comes to be queued.
LEMMA NoneQueued ==
  ASSUME ReachInv, UNCHANGED queues,
         \A i \in Jobs : jobs'[i].status = "queued" => jobs[i].status = "queued"
  PROVE  QueuedInQueue'
BY DEF ReachInv, QueuedInQueue, InQueue

\* What the scheduler takes from a queue is not queued any more, or is put back.
LEMMA SchedulerKeepsQueued ==
  ASSUME TypeOK, AttemptsInv, CalmInv, OutcomeInv, LifeInv, ReachInv, Effects, SchedulerStep
  PROVE  QueuedInQueue'
<1> USE DEF queueVars
<1>0. /\ jobs \in [Jobs -> JobRecord] /\ \A i \in Jobs : jobs[i] \in JobRecord
      /\ queues \in Queues
      /\ Engaged => sched.job \in Jobs
  BY StateTypes DEF Engaged
<1>d. ASSUME NEW i \in Jobs, NEW to, jobs' = [jobs EXCEPT ![i] = Withdrawn(@, to)]
      PROVE  jobs'[i].status = to /\ \A n \in Jobs \ {i} : jobs'[n] = jobs[n]
  BY <1>0, <1>d DEF Withdrawn, JobRecord
<1>1. CASE MergeLatest
  <2>0. Engaged  BY <1>1 DEF MergeLatest, Engaged
  <2>1. PICK j \in Jobs : j = sched.job  BY <1>0, <2>0
  <2>2. sched.pc = "merge" /\ Merge(j, sched.rec) /\ Free(j)
    BY <1>1, <2>1 DEF MergeLatest, CalmInv, SchedulerSound, Engaged
  <2>3. \A i \in Jobs \ {j} : jobs'[i] = jobs[i]  BY <2>2, FreeMerge
  <2>4. CASE jobs'[j].status = "queued"
    <3>1. UNCHANGED queues  BY <1>1, <2>1, <2>4 DEF MergeLatest
    <3>2. jobs[j].status \notin Terminal  BY <2>4, OutcomesRemain DEF Terminal
    <3>3. AtHead(j)  BY <2>1, <2>2, <3>2 DEF LifeInv, Candidate
    <3>4. InQueue(j)
      <4>1. queues[KeyOf[j]] \in Seq(Jobs)  BY <1>0, <2>1, ScopeTypes, QueueTypes
      <4>2. 1 \in 1..Len(queues[KeyOf[j]]) /\ queues[KeyOf[j]][1] = j  BY <3>3, <4>1 DEF AtHead
      <4> QED BY <4>2 DEF InQueue
    <3>5. \A i \in Jobs : InQueue(i) => InQueue(i)'  BY <3>1 DEF InQueue
    <3> QED BY <2>3, <3>4, <3>5, QueuedStay
  <2>5. CASE jobs'[j].status # "queued"
    <3>1. queues' = [queues EXCEPT ![KeyOf[j]] = IF AtHead(j) THEN Tail(@) ELSE @]
      BY <1>1, <2>1, <2>5 DEF MergeLatest
    <3>2. PICK r : /\ queues' = [queues EXCEPT ![KeyOf[j]] = r]
                   /\ r = queues[KeyOf[j]] \/ (AtHead(j) /\ r = Tail(queues[KeyOf[j]]))
      BY <3>1
    <3>3. \A i \in Jobs \ {j} : InQueue(i) => InQueue(i)'  BY <3>2, OthersStayQueued
    <3> QED BY <2>3, <2>5, <3>3, QueuedStay
  <2> QED BY <2>4, <2>5
<1>2. CASE AdmitJob
  <2>0. Engaged  BY <1>2 DEF AdmitJob, Engaged
  <2>1. PICK j \in Jobs : j = sched.job  BY <1>0, <2>0
  <2>2. AtHead(j) /\ queues' = [queues EXCEPT ![KeyOf[j]] = Tail(@)]
    BY <1>2, <2>1 DEF AdmitJob, Admissible
  <2>3. PICK r : r = Tail(queues[KeyOf[j]]) /\ queues' = [queues EXCEPT ![KeyOf[j]] = r]  BY <2>2
  <2>4. \A i \in Jobs \ {j} : InQueue(i) => InQueue(i)'  BY <2>2, <2>3, OthersStayQueued
  <2>5. jobs'[j].status = "admitted" /\ \A i \in Jobs \ {j} : jobs'[i] = jobs[i]
    BY <1>0, <1>2, <2>1 DEF AdmitJob
  <2> QED BY <2>4, <2>5, QueuedStay
<1>3. CASE HandleDispatchFailure
  <2>0. Engaged  BY <1>3 DEF HandleDispatchFailure, Engaged
  <2>1. PICK j \in Jobs : j = sched.job  BY <1>0, <2>0
  <2>2. \A i \in Jobs \ {j} : jobs'[i] = jobs[i]  BY <1>0, <1>3, <2>1 DEF HandleDispatchFailure
  <2>3. CASE jobs[j].attempt >= MaxAttempts
    <3>1. UNCHANGED queues  BY <1>3, <2>1, <2>3 DEF HandleDispatchFailure
    <3>2. CanMove(jobs[j].status, "failed")
      <4>1. sched.pc = "failed"  BY <1>3 DEF HandleDispatchFailure
      <4>2. jobs[j].status \in {"admitted", "cancel_requested"}
        BY <2>1, <4>1 DEF CalmInv, SchedulerSound, Awaited
      <4> QED BY <4>2 DEF CanMove, Successors
    <3>3. jobs' = [jobs EXCEPT ![j] = Withdrawn(@, "failed")]
      BY <1>0, <1>3, <2>1, <2>3, <3>2 DEF HandleDispatchFailure
    <3>4. jobs'[j].status = "failed"  BY <1>d, <3>3
    <3> QED BY <2>2, <3>1, <3>4, NoneQueued
  <2>4. CASE ~(jobs[j].attempt >= MaxAttempts)
    <3>1. queues' = [queues EXCEPT ![KeyOf[j]] = <<j>> \o @]
      BY <1>3, <2>1, <2>4 DEF HandleDispatchFailure
    <3>2. PICK r : r = <<j>> \o queues[KeyOf[j]] /\ queues' = [queues EXCEPT ![KeyOf[j]] = r]
      BY <3>1
    <3>3. (\A i \in Jobs \ {j} : InQueue(i) => InQueue(i)') /\ InQueue(j)'
      BY <3>2, OthersStayQueued
    <3> QED BY <2>2, <3>3, QueuedStay
  <2> QED BY <2>3, <2>4
<1>4. ASSUME NEW j \in Jobs, FailStalled(j) PROVE QueuedInQueue'
  <2>1. UNCHANGED queues /\ jobs' = [jobs EXCEPT ![j] = Withdrawn(@, "failed")]
    BY <1>4 DEF FailStalled
  <2>2. jobs'[j].status = "failed" /\ \A n \in Jobs \ {j} : jobs'[n] = jobs[n]  BY <1>d, <2>1
  <2> QED BY <2>1, <2>2, NoneQueued
<1>5. ASSUME NEW j \in Jobs, RequeueStalled(j) PROVE QueuedInQueue'
  <2>1. Requeue(j) /\ jobs' = [jobs EXCEPT ![j] = Withdrawn(@, "queued")]
    BY <1>5 DEF RequeueStalled
  <2>2. \A n \in Jobs \ {j} : jobs'[n] = jobs[n]  BY <1>d, <2>1
  <2>3. PICK r : /\ queues' = [queues EXCEPT ![KeyOf[j]] = r]
                 /\ IF InQueue(j) THEN r = queues[KeyOf[j]] ELSE r = <<j>> \o queues[KeyOf[j]]
    BY <2>1 DEF Requeue
  <2>4. (\A i \in Jobs \ {j} : InQueue(i) => InQueue(i)') /\ InQueue(j)'
    BY <2>3, OthersStayQueued
  <2> QED BY <2>2, <2>4, QueuedStay
<1>6. CASE UNCHANGED <<jobs, queues>>  BY <1>6, NoneQueued
<1>7. CASE UNCHANGED queues /\ ~UNCHANGED jobs
  BY <1>1, <1>2, <1>3, <1>4, <1>5, <1>7, SchedulerFootprint
<1>8. CASE ~UNCHANGED queues
  BY <1>1, <1>2, <1>3, <1>5, <1>8, SchedulerFootprint
<1> QED BY <1>6, <1>7, <1>8

\* A worker queues no job and takes none from a queue: nothing is retried while the process and
\* the leases last.
LEMMA WorkerKeepsReach ==
  ASSUME TypeOK, CalmInv, ReachInv, NEW w \in Workers, WorkerStep(w)
  PROVE  Listed' /\ KeysInSight' /\ QueuedInQueue'
<1> USE DEF queueVars
<1>0. /\ jobs \in [Jobs -> JobRecord] /\ \A i \in Jobs : jobs[i] \in JobRecord
      /\ ServiceSound(w)
      /\ worker[w].pc # "idle" => worker[w].job \in Jobs
  BY StateTypes DEF CalmInv, ServicesSound
<1>1. ~RetryDispatch(w) /\ ~RetryCancelled(w)
  <2>1. worker[w].pc # "retry"  BY <1>0 DEF ServiceSound
  <2> QED BY <2>1 DEF RetryDispatch, RetryCancelled
<1>2. UNCHANGED <<queueVars, sched>>
  <2>1. CASE Beginning(w) \/ Heartbeat(w) \/ RuntimeFails(w)
    BY <2>1 DEF Beginning, TakeMessage, BeginIgnored, BeginCancelled, BeginIllegal, BeginRunning,
       Heartbeat, RuntimeFails
  <2>2. CASE Ending(w)
    BY <1>1, <2>2 DEF Ending, Publish, PublishIllegal, EndCancelled, EndIgnored, FailJob,
       WorkerRelease, WorkerDiscard, Settle, RetryIgnored, WorkerUnlock
  <2> QED BY <2>1, <2>2 DEF WorkerStep
<1>3. \A i \in Jobs : jobs'[i].status = "queued" => jobs[i].status = "queued"
  <2>1. CASE UNCHANGED jobs  BY <2>1
  <2>2. CASE TakeMessage(w)
    <3>0. stream \in Seq(Message) /\ stream # <<>>  BY <2>2, StateTypes DEF TakeMessage
    <3>1. stream[1].job \in Jobs /\ Head(stream) = stream[1] /\ 1 \in 1..Len(stream)
      BY <2>2, <3>0, HeadTaken
    <3>2. Exists(jobs[stream[1].job])
      BY <3>1 DEF CalmInv, MessagesAwaited, Awaited, Exists
    <3> QED BY <1>0, <2>2, <3>1, <3>2 DEF TakeMessage
  <2>3. CASE BeginCancelled(w) \/ EndCancelled(w)
    <3>1. jobs' = [jobs EXCEPT ![worker[w].job].status = "cancelled"] \/ UNCHANGED jobs
      BY <2>3 DEF BeginCancelled, EndCancelled, MarkCancelled, Finished
    <3> QED BY <1>0, <3>1 DEF JobRecord
  <2>4. CASE BeginRunning(w)
    <3>1. jobs' = [jobs EXCEPT ![worker[w].job].status = "running"] \/ UNCHANGED jobs
      BY <2>4 DEF BeginRunning
    <3> QED BY <1>0, <3>1 DEF JobRecord
  <2>5. CASE Heartbeat(w)
    <3>1. jobs' = [jobs EXCEPT ![worker[w].job].lease = "live"] \/ UNCHANGED jobs
      BY <2>5 DEF Heartbeat
    <3> QED BY <1>0, <3>1 DEF JobRecord
  <2>6. CASE FailJob(w) \/ \E outcome \in {"succeeded", "failed"} : Publish(w, outcome)
    <3>1. \/ UNCHANGED jobs
          \/ \E outcome \in {"succeeded", "failed"} :
               jobs' = [jobs EXCEPT ![worker[w].job].status = outcome]
      BY <2>6 DEF FailJob, Publish, Finished
    <3> QED BY <1>0, <3>1 DEF JobRecord
  <2> QED BY <1>1, <2>1, <2>2, <2>3, <2>4, <2>5, <2>6, WorkerFootprint
<1>4. Listed' /\ KeysInSight'  BY <1>2, SightStays DEF Engaged
<1> QED BY <1>2, <1>3, <1>4, NoneQueued

\* A new job goes to the end of its queue and lists its key; a cancelled one leaves its queue.
LEMMA OthersKeepReach ==
  ASSUME TypeOK, CalmInv, OutcomeInv, ReachInv, OtherStep
  PROVE  Listed' /\ KeysInSight' /\ QueuedInQueue'
<1> USE DEF queueVars
<1>0. /\ jobs \in [Jobs -> JobRecord] /\ \A i \in Jobs : jobs[i] \in JobRecord
      /\ queues \in Queues /\ Listed
  BY StateTypes DEF ReachInv
<1>1. ~PollMerge  BY DEF CalmInv, PollMerge
<1>2. ASSUME NEW j \in Jobs, CreateJob(j) PROVE Listed' /\ KeysInSight' /\ QueuedInQueue'
  <2> DEFINE k == KeyOf[j]
  <2>1. /\ k \in Keys /\ Activate(k) /\ queues' = [queues EXCEPT ![k] = Append(@, j)]
        /\ \A i \in Jobs \ {j} : jobs'[i] = jobs[i]
        /\ sched' = sched
    BY <1>0, <1>2, ScopeTypes DEF CreateJob
  <2>2. Rotates(k)  BY <1>0, <2>1, WaysIntoRotation
  <2>3. Listed'
    <3>1. sched.pc \in {"unlock", "sweepunlock"} => activeKeys'[KeyOf[sched.job]] > 0
      <4> SUFFICES ASSUME sched.pc \in {"unlock", "sweepunlock"}
                   PROVE  activeKeys'[KeyOf[sched.job]] > 0
        OBVIOUS
      <4>1. PICK x \in Keys : x = KeyOf[sched.job]  BY StateTypes, ScopeTypes
      <4>2. activeKeys[x] > 0  BY <1>0, <4>1 DEF Listed
      <4> QED BY <2>2, <4>1, <4>2 DEF Rotates
    <3> QED BY <2>1, <2>2, <3>1 DEF Rotates, Listed
  <2>4. KeysInSight'
    <3> SUFFICES ASSUME NEW x \in Keys, queues'[x] # <<>> PROVE InSight(x)'  BY DEF KeysInSight
    <3>1. CASE x = k  BY <2>2, <3>1 DEF Rotates, InSight
    <3>2. CASE x # k
      <4>1. queues[x] # <<>> /\ activeKeys'[x] = activeKeys[x]
        BY <1>0, <2>1, <2>2, <3>2 DEF Rotates, Queues
      <4>2. InSight(x)  BY <4>1 DEF ReachInv, KeysInSight
      <4> QED BY <2>1, <4>1, <4>2 DEF InSight, Engaged
    <3> QED BY <3>1, <3>2
  <2>5. PICK r : r = Append(queues[KeyOf[j]], j) /\ queues' = [queues EXCEPT ![KeyOf[j]] = r]
    BY <2>1
  <2>6. (\A i \in Jobs \ {j} : InQueue(i) => InQueue(i)') /\ InQueue(j)'
    BY <2>5, OthersStayQueued
  <2>7. QueuedInQueue'  BY <2>1, <2>6, QueuedStay
  <2> QED BY <2>3, <2>4, <2>7
<1>3. ASSUME NEW j \in Jobs, CancelQueued(j) PROVE Listed' /\ KeysInSight' /\ QueuedInQueue'
  <2>1. /\ KeyOf[j] \in Keys /\ UNCHANGED <<activeKeys, activeKeySet, sched>>
        /\ queues' = [queues EXCEPT ![KeyOf[j]] = RemoveFirst(@, j)]
        /\ jobs' = [jobs EXCEPT ![j].status = "cancelled"]
    BY <1>3, ScopeTypes DEF CancelQueued, MarkCancelled, Finished
  <2>2. jobs'[j].status = "cancelled" /\ \A i \in Jobs \ {j} : jobs'[i] = jobs[i]
    BY <1>0, <2>1 DEF JobRecord
  <2>3. PICK r : r = RemoveFirst(queues[KeyOf[j]], j) /\ queues' = [queues EXCEPT ![KeyOf[j]] = r]
    BY <2>1
  <2>4. \A i \in Jobs \ {j} : InQueue(i) => InQueue(i)'  BY <2>3, OthersStayQueued
  <2>5. QueuedInQueue'  BY <2>2, <2>4, QueuedStay
  <2>6. Listed'  BY <1>0, <2>1 DEF Listed
  <2>7. queues[KeyOf[j]] = <<>> => r = <<>>
    <3> SUFFICES ASSUME queues[KeyOf[j]] = <<>> PROVE r = <<>>  OBVIOUS
    <3> DEFINE q == queues[KeyOf[j]]
    <3>1. q \in Seq(Jobs) /\ Len(q) = 0  BY <1>0, ScopeTypes, QueueTypes
    <3>2. ~\E p \in 1..Len(q) : q[p] = j  BY <3>1
    <3> QED BY <2>3, <3>2 DEF RemoveFirst
  <2>8. KeysInSight'
    <3> SUFFICES ASSUME NEW x \in Keys, queues'[x] # <<>> PROVE InSight(x)'  BY DEF KeysInSight
    <3>1. queues[x] # <<>>
      <4>1. CASE x = KeyOf[j]  BY <1>0, <2>3, <2>7, <4>1 DEF Queues
      <4>2. CASE x # KeyOf[j]  BY <1>0, <2>3, <4>2 DEF Queues
      <4> QED BY <4>1, <4>2
    <3>2. InSight(x)  BY <3>1 DEF ReachInv, KeysInSight
    <3> QED BY <2>1, <3>2 DEF InSight, Engaged
  <2> QED BY <2>5, <2>6, <2>8
<1>4. CASE \/ Persisting
           \/ \E j \in Jobs : PollRead(j) \/ CancelActive(j) \/ LeaseTimeout(j)
           \/ \E s \in Sessions : LockTimeout(s)
  <2>1. /\ UNCHANGED queueVars /\ sched'.pc = sched.pc /\ sched'.job = sched.job
    <3>1. CASE \E j \in Jobs : LeaseTimeout(j)  BY <3>1, TimeoutEffects DEF LeaseTimeout
    <3>2. CASE \/ Persisting \/ (\E j \in Jobs : PollRead(j) \/ CancelActive(j))
               \/ \E s \in Sessions : LockTimeout(s)
      BY <3>2 DEF Persisting, TakeSnapshot, SaveSnapshot, PollRead, CancelActive, LockTimeout
    <3> QED BY <1>4, <3>1, <3>2
  <2>2. \A i \in Jobs : jobs'[i].status = "queued" => jobs[i].status = "queued"
    <3>1. CASE UNCHANGED jobs  BY <3>1
    <3>2. ASSUME NEW j \in Jobs, CancelActive(j)
          PROVE  \A i \in Jobs : jobs'[i].status = "queued" => jobs[i].status = "queued"
      BY <1>0, <3>2 DEF CancelActive, JobRecord
    <3>3. ASSUME NEW j \in Jobs, LeaseTimeout(j)
          PROVE  \A i \in Jobs : jobs'[i].status = "queued" => jobs[i].status = "queued"
      <4>1. jobs' = [jobs EXCEPT ![j] = Aged(@)]  BY <3>3 DEF LeaseTimeout
      <4> QED BY <1>0, <4>1 DEF Aged, JobRecord
    <3>4. CASE Persisting \/ (\E j \in Jobs : PollRead(j)) \/ \E s \in Sessions : LockTimeout(s)
      BY <3>4 DEF Persisting, TakeSnapshot, SaveSnapshot, PollRead, LockTimeout
    <3> QED BY <1>4, <3>2, <3>3, <3>4
  <2>3. Listed' /\ KeysInSight'  BY <2>1, SightStays DEF Engaged
  <2> QED BY <2>1, <2>2, <2>3, NoneQueued
<1> QED BY <1>1, <1>2, <1>3, <1>4 DEF OtherStep

----------------------------------------------------------------------------
(* The theorem *)

\* No job waits, and no key is listed.
LEMMA InitReach == Init => ReachInv
<1> SUFFICES ASSUME Init PROVE ReachInv  OBVIOUS
<1>1. /\ \A j \in Jobs : jobs[j] = NoJob
      /\ \A k \in Keys : queues[k] = <<>>
      /\ activeKeySet = {} /\ sched.pc = "idle" /\ env.faults = 0
  BY DEF Init, IdleScheduler
<1>2. NoJob.status = "absent" /\ NoJob.attempt = 0  BY DEF NoJob
<1>3. Tried  BY <1>1, <1>2 DEF Tried
<1>4. Listed  BY <1>1 DEF Listed
<1>5. KeysInSight /\ QueuedInQueue  BY <1>1, <1>2 DEF KeysInSight, QueuedInQueue
<1> QED BY <1>3, <1>4, <1>5 DEF ReachInv

\* Faults are counted one by one.
LEMMA FaultsCount ==
  ASSUME TypeOK, [Next]_vars
  PROVE  /\ env.faults \in Nat /\ env'.faults \in {env.faults, env.faults + 1}
         /\ Spared' => Spared
<1>1. env \in Counters /\ env.faults \in Nat  BY DEF TypeOK, Counters
<1>2. env'.faults \in {env.faults, env.faults + 1}
  <2>1. CASE UNCHANGED vars  BY <2>1 DEF vars, countVars
  <2>2. CASE Next  BY <1>1, <2>2, EnvironmentCounts DEF Counters
  <2> QED BY <2>1, <2>2
<1> QED BY <1>1, <1>2, CountsAssumption DEF Spared

\* While nothing is disturbed and the faults spare every job, a step keeps all in sight.
LEMMA ReachSteps ==
  ASSUME TypeOK, TypeOK', AttemptsInv, AttemptsInv', Calm, "load" \notin Faults, CalmInv, OutcomeInv,
         LifeInv, ReachInv, [Next]_vars, Undisturbed', Spared
  PROVE  ReachInv'
<1>0. Undisturbed /\ Unreplayed' /\ env.crashes = 0
  BY DisturbanceLasts DEF Undisturbed, Unreplayed
<1>1. CASE UNCHANGED vars
  BY <1>1 DEF vars, queueVars, brokerVars, countVars, ReachInv, Tried, Dispatched, Free, Carried,
     Served, Listed, KeysInSight, InSight, Engaged, QueuedInQueue, InQueue
<1>2. CASE Next
  <2>1. ~Restart
    BY <1>0, <1>2, EnvironmentCounts DEF Restart, Undisturbed, Counters
  <2>2. env'.crashes = env.crashes  BY <1>0, <1>2, <2>1, ReplaysLast
  <2>3. env'.faults \in {env.faults, env.faults + 1}  BY <1>2, FaultsCount
  <2>4. CASE SchedulerStep
    <3>1. Effects  BY <2>2, <2>4, SchedulerEffects
    <3>2. Tried'  BY <2>3, <2>4, <3>1, SchedulerDelivers, TriedStays DEF ReachInv
    <3> QED BY <2>4, <3>1, <3>2, SchedulerKeepsSight, SchedulerKeepsQueued DEF ReachInv
  <2>5. ASSUME NEW w \in Workers, WorkerStep(w) PROVE ReachInv'
    <3>1. Effects  BY <2>2, <2>5, WorkerEffects
    <3>2. UNCHANGED sched  BY <2>5, WorkerFootprint
    <3>3. \A j \in Jobs : Dispatched(j) => Dispatched(j)' \/ jobs[j].status \in Terminal
      BY <2>5, <3>2, WorkerDelivers DEF Dispatched
    <3>4. Tried'  BY <2>3, <3>1, <3>3, TriedStays DEF ReachInv
    <3> QED BY <2>5, <3>4, WorkerKeepsReach DEF ReachInv
  <2>6. CASE OtherStep
    <3>1. Effects  BY <2>2, <2>6, OtherEffects
    <3>2. Tried'  BY <2>3, <2>6, <3>1, OthersLeaveDispatches, TriedStays DEF ReachInv
    <3> QED BY <2>6, <3>2, OthersKeepReach DEF ReachInv
  <2> QED BY <1>0, <1>2, <2>1, <2>4, <2>5, <2>6, StepKinds
<1> QED BY <1>1, <1>2

\* No queued job gets lost: while nothing is disturbed and fewer dispatches have failed than a
\* job has attempts, a queued job is in the queue of its user, and the user's key is in the
\* rotation or in the hands of the scheduler, which will put it back.  One more failure and a
\* dispatch that fails for good leaves the key out (590-596, run starved).
THEOREM Reachable ==
  ASSUME Calm, "load" \notin Faults
  PROVE  Spec => [](Undisturbed /\ Spared => QueuedIsReachable)
<1>1. /\ TypeOK /\ TypeOK' /\ AttemptsInv /\ AttemptsInv' /\ (Undisturbed => CalmInv)
      /\ (Unreplayed => OutcomeInv) /\ (Undisturbed => LifeInv)
      /\ (Undisturbed /\ Spared => ReachInv) /\ [Next]_vars
      => (Undisturbed /\ Spared => ReachInv)'
  BY ReachSteps, DisturbanceLasts, FaultsCount DEF Undisturbed, Unreplayed
<1>2. Init => (Undisturbed /\ Spared => ReachInv)  BY InitReach
<1>3. ReachInv => QueuedIsReachable
  <2> SUFFICES ASSUME ReachInv, NEW j \in Jobs, jobs[j].status = "queued"
               PROVE  /\ InQueue(j)
                      /\ InSight(KeyOf[j])
    BY DEF QueuedIsReachable, InSight, Engaged
  <2>1. InQueue(j) /\ KeyOf[j] \in Keys  BY ScopeTypes DEF ReachInv, QueuedInQueue
  <2>2. queues[KeyOf[j]] # <<>>  BY <2>1 DEF InQueue
  <2> QED BY <2>1, <2>2 DEF ReachInv, KeysInSight
<1> QED BY <1>1, <1>2, <1>3, CalmInvariant, OutcomeInvariant, LifeInvariant, TypeCorrect,
           AttemptsInvariant, PTL DEF Spec
=============================================================================
