----------------------------- MODULE OutcomeProofs -----------------------------
(***************************************************************************)
(* A job has one result and keeps it, for all values of the constants:     *)
(* whatever faults, expired leases, lost locks, cancellations, delayed     *)
(* snapshots, polled rows and restarts happen, in any order and number, as *)
(* long as no create_job was answered from a row (the run resubmit shows   *)
(* what such a replay does).                                               *)
(*                                                                         *)
(* Neither property is inductive.  OutcomeInv adds why: no copy of a job,  *)
(* in a row, a snapshot or a read under way, is ahead of the job itself,   *)
(* so merging one back never takes an outcome away; no token names two     *)
(* deliveries; and a worker that may still report an outcome, although its *)
(* job was replaced under it, acts for a job that is still active.         *)
(*                                                                         *)
(* A step is first described by its effects (Effects: what it does with a  *)
(* job, its copies, the row, the deliveries and the admission under way),  *)
(* one lemma per actor; the conjuncts of the invariant are then kept by    *)
(* the effects alone.                                                      *)
(***************************************************************************)
EXTENDS CalmProofs

\* No create_job was answered from a row: what replays do to an outcome, a run shows.
Unreplayed == env.replays = 0

----------------------------------------------------------------------------
(* The invariant *)

Active == {"admitted", "running", "cancel_requested"}
Busy(w) == worker[w].pc # "idle"

\* The copies of a job that may still become a row or the local job.
Copies(j) ==
  {rows[j]} \cup (IF snap.job = j THEN {snap.rec} ELSE {})
  \cup (IF poll.job = j THEN {poll.rec} ELSE {})
  \cup (IF sched.pc = "merge" /\ sched.job = j THEN {sched.rec} ELSE {})

\* A copy is not ahead of the local job, and an outcome in it is the job's.
Behind(rec, j) ==
  IF Exists(jobs[j])
  THEN rec.fence <= jobs[j].fence /\ (rec.status \in Terminal => jobs[j].status = rec.status)
  ELSE rec.status = rows[j].status /\ rec.fence = rows[j].fence

CopiesBehind == \A j \in Jobs : \A rec \in Copies(j) : Behind(rec, j)

\* Whoever names a job finds it in self._jobs; only an outcome is forgotten there.
JobsKnown ==
  /\ \A j \in Jobs : Exists(jobs[j]) => Exists(rows[j])
  /\ \A j \in Jobs : ~Exists(jobs[j]) => rows[j].status \in Terminal \cup {"absent"}
  /\ \A j \in dirty : Exists(jobs[j])
  /\ snap.job # 0 => Exists(snap.rec) /\ Exists(jobs[snap.job])
  /\ \A k \in Keys : \A n \in 1..Len(queues[k]) : Exists(jobs[queues[k][n]])
  /\ Engaged => Exists(jobs[sched.job])
  /\ \A m \in 1..Len(stream) : Exists(rows[stream[m].job])
  /\ \A w \in Workers : Busy(w) => Exists(jobs[worker[w].job])
  /\ \A w \in Workers : worker[w].beat => Busy(w)

\* A token names one delivery: a message, or the worker that took it.
Issued(x) == 0 < x.token /\ x.token <= tokens[x.job]
SameDelivery(x, y) == x.job = y.job /\ x.token = y.token

TokensApart ==
  /\ \A m \in 1..Len(stream) : Issued(stream[m])
  /\ \A w \in Workers : Busy(w) => Issued(worker[w])
  /\ \A m, n \in 1..Len(stream) : SameDelivery(stream[m], stream[n]) => m = n
  /\ \A v, w \in Workers : Busy(v) /\ Busy(w) /\ SameDelivery(worker[v], worker[w]) => v = w
  /\ \A m \in 1..Len(stream), w \in Workers : Busy(w) => ~SameDelivery(worker[w], stream[m])

\* Until its message is sent nobody bears the token of an admission.
Unborne(j, t) ==
  /\ \A m \in 1..Len(stream) : stream[m].job = j => stream[m].token # t
  /\ \A w \in Workers : Busy(w) /\ worker[w].job = j => worker[w].token # t

Fresh ==
  sched.pc \in {"stage", "enqueue"} =>
    /\ 0 < sched.rec.token /\ sched.rec.token <= tokens[sched.job]
    /\ Unborne(sched.job, sched.rec.token)

\* A worker that may still report an outcome although self._jobs has another object.
Believes(w) == Executing(w) \/ (worker[w].pc = "begin" /\ ~Shared(w))

Believed == \A w \in Workers : Believes(w) /\ Holds(w) => jobs[worker[w].job].status \in Active

\* Between the admission and the update of the row nobody moves the job but a cancellation.
Staged ==
  sched.pc = "stage" =>
    LET j == sched.job IN
    /\ jobs[j].token = sched.rec.token /\ jobs[j].fence = sched.rec.fence
    /\ jobs[j].status \in {"admitted", "cancel_requested"} /\ sched.rec.status = "admitted"
    /\ \A rec \in Copies(j) : rec.fence = sched.rec.fence =>
         rec.token = sched.rec.token /\ rec.status \in {"admitted", "cancel_requested"}

OutcomesKept == \A j \in Jobs : rows[j].status \in Terminal /\ snap.job = j => snap.rec.status = rows[j].status

\* A "final" event for each life of the process, the present one only when the job is over.
FinalsCounted ==
  \A j \in Jobs :
    /\ finals[j] <= env.crashes + (IF jobs[j].status \in Live THEN 0 ELSE 1)
    /\ ~Exists(rows[j]) => finals[j] = 0

OutcomeInv ==
  /\ replay.job = 0
  /\ CopiesBehind /\ JobsKnown /\ TokensApart /\ Fresh /\ Believed /\ Staged
  /\ OutcomesKept /\ FinalsCounted

----------------------------------------------------------------------------
(* What a step does *)

Alike(a, b) == a.status = b.status /\ a.fence = b.fence /\ a.token = b.token
Acts(w, j) == Busy(w) /\ worker[w].job = j /\ ~Superseded(jobs[j], worker[w].token)

\* ... with a job:
Stays(j) == Alike(jobs'[j], jobs[j])
Created(j) == ~Exists(rows[j]) /\ jobs'[j] = NewJob /\ rows'[j] = NewJob
Replaced(j) == jobs'[j] \in Copies(j) /\ PersistedWins(jobs[j], jobs'[j])
Admitted(j) ==
  /\ jobs[j].status = "queued" /\ jobs'[j].status = "admitted"
  /\ jobs'[j].fence = jobs[j].fence + 1
  /\ jobs'[j].token = tokens[j] + 1 /\ tokens'[j] = tokens[j] + 1
  /\ sched.job = j /\ sched'.pc = "stage" /\ sched'.job = j /\ sched'.rec = jobs'[j]
GivenBack(j) ==
  /\ Exists(jobs[j]) /\ jobs'[j].fence = jobs[j].fence /\ jobs'[j].token = 0
  /\ \/ jobs'[j].status = jobs[j].status
     \/ jobs[j].status \in Live /\ jobs'[j].status \in {"queued", "failed"}
  /\ sched'.pc # "stage" \/ \E w \in Workers : Acts(w, j)
Moved(j) ==
  /\ jobs'[j].fence = jobs[j].fence /\ jobs'[j].token = jobs[j].token
  /\ jobs[j].status \in Live /\ jobs'[j].status \in Active \cup Terminal
  /\ \/ jobs[j].status = "queued"
     \/ jobs'[j].status = "cancel_requested"
     \/ \E w \in Workers : Acts(w, j) /\ (jobs'[j].status \in Terminal => ~Believes(w)')

JobStep(j) ==
  Stays(j) \/ Created(j) \/ Replaced(j) \/ Admitted(j) \/ GivenBack(j) \/ Moved(j)

\* ... with the copies of a job:
CopyStep(j) ==
  \A rec \in Copies(j)' :
    \/ \E r \in Copies(j) : Alike(rec, r)
    \/ Stays(j) /\ Exists(jobs[j]) /\ Alike(rec, jobs[j])
    \/ Stays(j) /\ sched.pc = "stage" /\ sched'.pc # "stage" /\ sched.job = j /\ Alike(rec, sched.rec)
    \/ Created(j) /\ rec = NewJob

\* ... with a row, and with the snapshot that will be written over it:
RowStep(j) ==
  \/ rows'[j].status = rows[j].status
  \/ Created(j)
  \/ snap.job = j /\ rows'[j].status = snap.rec.status /\ snap'.job = 0
  \/ sched.pc = "stage" /\ sched.job = j /\ rows'[j].status = "admitted" /\ snap' = snap
SnapStep(j) ==
  snap'.job = j =>
    \/ snap.job = j /\ snap'.rec.status = snap.rec.status
    \/ Exists(jobs[j]) /\ snap'.rec = jobs[j] /\ rows' = rows

\* ... with the deliveries:
DeliveriesStay ==
  /\ stream' = stream
  /\ \A w \in Workers : Busy(w)' => Busy(w) /\ SameDelivery(worker'[w], worker[w])
DeliveryStep == DeliveriesStay \/ (\E w \in Workers : TakeMessage(w)) \/ EnqueueDispatch

\* ... with the admission that is under way:
StageStep ==
  /\ sched'.pc = "stage" =>
       \/ sched.pc = "stage" /\ sched'.job = sched.job /\ Alike(sched'.rec, sched.rec)
       \/ sched.job \in Jobs /\ sched'.job = sched.job /\ Admitted(sched.job) /\ DeliveriesStay
  /\ sched'.pc = "enqueue" =>
       /\ sched.pc \in {"stage", "enqueue"} /\ sched'.job = sched.job
       /\ Alike(sched'.rec, sched.rec)

\* ... with what the workers will report:
BeliefStep(w) ==
  Believes(w)' =>
    /\ Busy(w) /\ SameDelivery(worker'[w], worker[w])
    /\ \/ Believes(w)
       \/ jobs'[worker[w].job].status \in Active
       \/ Replaced(worker[w].job)

CountStep(j) ==
  /\ tokens[j] <= tokens'[j]
  /\ \/ finals'[j] = finals[j]
     \/ finals'[j] = finals[j] + 1 /\ jobs[j].status \in Live /\ jobs'[j].status \in Terminal

KnownStep ==
  /\ \A j \in Jobs : Exists(rows[j]) => Exists(rows'[j])
  /\ \A j \in dirty' : j \in dirty \/ Exists(jobs[j])
  /\ snap'.job # 0 => Exists(snap'.rec) /\ (snap'.job = snap.job \/ Exists(jobs[snap'.job]))
  /\ \A k \in Keys : \A n \in 1..Len(queues'[k]) :
       Exists(jobs[queues'[k][n]]) \/ Exists(jobs'[queues'[k][n]])
  /\ Engaged' => (Engaged /\ sched'.job = sched.job) \/ Exists(jobs[sched'.job])
  /\ \A w \in Workers : worker'[w].beat => Busy(w)'

Effects ==
  /\ replay'.job = 0 /\ env'.crashes = env.crashes
  /\ \A j \in Jobs : JobStep(j) /\ CopyStep(j) /\ RowStep(j) /\ SnapStep(j) /\ CountStep(j)
  /\ DeliveryStep /\ StageStep /\ KnownStep
  /\ \A w \in Workers : BeliefStep(w)
----------------------------------------------------------------------------
(* Steps of this kind keep the invariant *)

\* Copies are jobs, and the row is one of them.
LEMMA CopyRecords ==
  ASSUME TypeOK, NEW j \in Jobs
  PROVE  /\ rows[j] \in Copies(j) /\ \A rec \in Copies(j) : rec \in JobRecord
         /\ snap.job = j => snap.rec \in Copies(j)
         /\ poll.job = j => poll.rec \in Copies(j)
         /\ sched.pc = "merge" /\ sched.job = j => sched.rec \in Copies(j)
BY CopyTypes, StateTypes DEF Copies, TypeOK

\* The records of a state and their fields.
LEMMA FieldTypes ==
  ASSUME TypeOK
  PROVE  /\ \A j \in Jobs : jobs[j] \in JobRecord /\ rows[j] \in JobRecord
         /\ \A j \in Jobs : jobs[j].fence \in Nat /\ rows[j].fence \in Nat /\ jobs[j].token \in Nat
         /\ \A j \in Jobs : jobs[j].status \in Live \cup Terminal \cup {"absent"}
         /\ \A r \in JobRecord : r.fence \in Nat /\ r.token \in Nat
                                  /\ r.status \in Live \cup Terminal \cup {"absent"}
         /\ \A j \in Jobs : tokens[j] \in Nat /\ finals[j] \in Nat
         /\ env.crashes \in Nat
<1>1. \A r \in JobRecord : r.fence \in Nat /\ r.token \in Nat
                            /\ r.status \in Live \cup Terminal \cup {"absent"}
  BY DEF JobRecord
<1>2. \A j \in Jobs : jobs[j] \in JobRecord /\ rows[j] \in JobRecord  BY DEF TypeOK
<1>3. \A j \in Jobs : tokens[j] \in Nat /\ finals[j] \in Nat  BY DEF TypeOK
<1>4. env.crashes \in Nat  BY DEF TypeOK, Counters
<1> QED BY <1>1, <1>2, <1>3, <1>4

\* The names of the statuses.
LEMMA StatusSets ==
  /\ Active \subseteq Live /\ "queued" \in Live /\ "queued" \notin Active
  /\ "admitted" \in Active /\ "cancel_requested" \in Active /\ "running" \in Active
  /\ "absent" \notin Live /\ "absent" \notin Terminal /\ Live \cap Terminal = {}
  /\ "failed" \in Terminal
BY DEF Active, Live, Terminal

\* A copy that replaces a job is not ahead of it, and the job was not over.
LEMMA ReplacedIsAlike ==
  ASSUME TypeOK, OutcomeInv, NEW j \in Jobs, Replaced(j)
  PROVE  /\ Exists(jobs'[j]) /\ jobs'[j] \in JobRecord
         /\ Exists(jobs[j]) => /\ jobs'[j].fence = jobs[j].fence
                               /\ jobs[j].status \in Live /\ jobs'[j].status \in Live
         /\ ~Exists(jobs[j]) => /\ jobs'[j].status = rows[j].status
                                /\ jobs'[j].fence = rows[j].fence
<1>1. jobs'[j] \in JobRecord  BY CopyRecords DEF Replaced
<1>2. Behind(jobs'[j], j)  BY DEF Replaced, OutcomeInv, CopiesBehind
<1>3. PersistedWins(jobs[j], jobs'[j])  BY DEF Replaced
<1>4. Exists(jobs'[j])  BY <1>3 DEF PersistedWins
<1>5. ASSUME Exists(jobs[j])
      PROVE  jobs'[j].fence = jobs[j].fence /\ jobs[j].status \notin Terminal
             /\ jobs'[j].status \notin Terminal
  BY <1>1, <1>2, <1>3, <1>5, FieldTypes DEF Behind, PersistedWins
<1>6. ~Exists(jobs[j]) => jobs'[j].status = rows[j].status /\ jobs'[j].fence = rows[j].fence
  BY <1>2 DEF Behind
<1> QED BY <1>1, <1>4, <1>5, <1>6, FieldTypes DEF Exists

\* A job is never forgotten by a step.
LEMMA JobsRemain ==
  ASSUME TypeOK, OutcomeInv, Effects, NEW j \in Jobs, Exists(jobs[j])
  PROVE  Exists(jobs'[j]) /\ jobs[j].fence <= jobs'[j].fence /\ ~Created(j)
<1>0. JobStep(j)  BY DEF Effects
<1>1. ~Created(j)  BY DEF Created, OutcomeInv, JobsKnown
<1>2. CASE Stays(j)  BY <1>1, <1>2, FieldTypes DEF Stays, Alike, Exists
<1>3. CASE Replaced(j)  BY <1>1, <1>3, ReplacedIsAlike, FieldTypes
<1>4. CASE Admitted(j)  BY <1>1, <1>4, FieldTypes DEF Admitted, Exists
<1>5. CASE GivenBack(j)  BY <1>1, <1>5, FieldTypes DEF GivenBack, Exists
<1>6. CASE Moved(j)  BY <1>1, <1>6, FieldTypes, StatusSets DEF Moved, Exists
<1> QED BY <1>0, <1>1, <1>2, <1>3, <1>4, <1>5, <1>6 DEF JobStep

\* A job that is over stays over, as it was.
LEMMA OutcomesRemain ==
  ASSUME TypeOK, OutcomeInv, Effects, NEW j \in Jobs, jobs[j].status \in Terminal
  PROVE  jobs'[j].status = jobs[j].status
<1>0. JobStep(j) /\ Exists(jobs[j]) /\ jobs[j].status \notin Live /\ jobs[j].status # "queued"
  BY StatusSets DEF Effects, Exists
<1>1. ~Created(j)  BY <1>0, JobsRemain
<1>2. ~Replaced(j)  BY <1>0, ReplacedIsAlike
<1> QED BY <1>0, <1>1, <1>2 DEF JobStep, Stays, Alike, Admitted, GivenBack, Moved

\* The copies of a job stay behind it.
LEMMA CopiesStayBehind ==
  ASSUME TypeOK, TypeOK', OutcomeInv, AttemptsInv, Effects
  PROVE  CopiesBehind'
<1> SUFFICES ASSUME NEW j \in Jobs, NEW rec \in Copies(j)' PROVE Behind(rec, j)'
  BY DEF CopiesBehind
<1>0. /\ JobStep(j) /\ CopyStep(j) /\ rec \in JobRecord
      /\ rows'[j] \in Copies(j)' /\ rows'[j] \in JobRecord /\ jobs'[j] \in JobRecord
  BY CopyTypes, SchedulerTypes DEF Effects, TypeOK, Copies
<1>1. \A r \in Copies(j) : Behind(r, j) /\ r \in JobRecord
  BY CopyRecords DEF OutcomeInv, CopiesBehind
<1>2. CASE Exists(jobs[j])
  <2>1. Exists(jobs'[j]) /\ jobs[j].fence <= jobs'[j].fence /\ ~Created(j)
    BY <1>2, JobsRemain
  <2>2. jobs[j].fence \in Nat /\ jobs'[j].fence \in Nat /\ rec.fence \in Nat  BY <1>0, FieldTypes
  <2>3. ASSUME NEW r \in Copies(j), Alike(rec, r) PROVE Behind(rec, j)'
    <3>1. r.fence \in Nat /\ rec.fence = r.fence /\ rec.status = r.status /\ Behind(r, j)
      BY <1>1, <2>3, FieldTypes DEF Alike
    <3>2. rec.fence <= jobs'[j].fence  BY <1>2, <2>1, <2>2, <3>1 DEF Behind
    <3>3. rec.status \in Terminal => jobs'[j].status = rec.status
      BY <1>2, <3>1, OutcomesRemain DEF Behind
    <3> QED BY <2>1, <3>2, <3>3 DEF Behind
  <2>4. CASE Stays(j) /\ Alike(rec, jobs[j])
    <3>1. rec.fence = jobs'[j].fence /\ rec.status = jobs'[j].status
      BY <2>4 DEF Stays, Alike
    <3> QED BY <2>1, <2>2, <3>1 DEF Behind
  <2>5. CASE Stays(j) /\ sched.pc = "stage" /\ sched.job = j /\ Alike(rec, sched.rec)
    <3>1. jobs[j].fence = sched.rec.fence /\ sched.rec.status = "admitted"
      BY <2>5 DEF OutcomeInv, Staged
    <3>2. rec.fence = jobs'[j].fence /\ rec.status \notin Terminal
      BY <2>5, <3>1 DEF Stays, Alike, Terminal
    <3> QED BY <2>1, <2>2, <3>2 DEF Behind
  <2> QED BY <1>0, <2>1, <2>3, <2>4, <2>5 DEF CopyStep
<1>3. CASE ~Exists(jobs[j]) /\ Created(j)
  <2>1. /\ Exists(jobs'[j]) /\ jobs'[j].fence = 0 /\ NewJob.fence = 0 /\ NewJob.status \notin Terminal
        /\ NewJob.status = "queued" /\ NewJob \in JobRecord
    BY <1>3, RecordTypes DEF Created, NewJob, NoJob, Exists, Terminal
  <2>2. rows[j].fence = 0 /\ rows[j].status \notin Terminal
    BY <1>3, StatusSets DEF Created, AttemptsInv, CopiesSound, SoundCopy, SoundJob, Exists
  <2>3. \A r \in Copies(j) : r.fence = 0 /\ r.status \notin Terminal
    BY <1>1, <1>3, <2>2 DEF Behind
  <2>4. ~(Stays(j) /\ sched.pc = "stage" /\ sched.job = j)
    BY <1>3, <2>1 DEF Stays, Alike, Exists
  <2>5. rec.fence = 0 /\ rec.status \notin Terminal
    BY <1>0, <1>3, <2>1, <2>3, <2>4 DEF CopyStep, Alike
  <2> QED BY <2>1, <2>5 DEF Behind
<1>4. CASE ~Exists(jobs[j]) /\ ~Created(j)
  <2>1. Stays(j) \/ Replaced(j)
    BY <1>0, <1>4, StatusSets DEF JobStep, Admitted, GivenBack, Moved, Exists
  <2>2. \A r \in Copies(j) : r.fence = rows[j].fence /\ r.status = rows[j].status
    BY <1>1, <1>4 DEF Behind
  <2>3. ~(sched.pc = "stage" /\ sched.job = j)
    BY <1>4 DEF OutcomeInv, JobsKnown, Engaged
  <2>4. \A r \in Copies(j)' : r.fence = rows[j].fence /\ r.status = rows[j].status
    BY <1>0, <1>4, <2>2, <2>3 DEF CopyStep, Alike
  <2>5. CASE Exists(jobs'[j])
    <3>1. jobs'[j].fence = rows[j].fence /\ jobs'[j].status = rows[j].status
      BY <1>4, <2>1, <2>5, ReplacedIsAlike DEF Stays, Alike, Exists
    <3>2. rec.fence <= jobs'[j].fence  BY <1>0, <2>4, <3>1, FieldTypes
    <3> QED BY <2>4, <2>5, <3>1, <3>2 DEF Behind
  <2>6. CASE ~Exists(jobs'[j])
    BY <1>0, <2>4, <2>6 DEF Behind
  <2> QED BY <2>5, <2>6
<1> QED BY <1>2, <1>3, <1>4

\* A row of a job that was never accepted, or that is created.
LEMMA RowsRemain ==
  ASSUME TypeOK, OutcomeInv, Effects, NEW j \in Jobs, ~Exists(jobs'[j])
  PROVE  ~Exists(jobs[j]) /\ rows'[j].status = rows[j].status
<1>0. JobStep(j) /\ RowStep(j)  BY DEF Effects
<1>1. ~Exists(jobs[j])  BY JobsRemain
<1>2. ~Created(j)  BY DEF Created, NewJob, NoJob, Exists
<1>3. ~(snap.job = j)  BY <1>1, JobNumbers DEF OutcomeInv, JobsKnown
<1>4. ~(sched.pc = "stage" /\ sched.job = j)  BY <1>1 DEF OutcomeInv, JobsKnown, Engaged
<1> QED BY <1>0, <1>1, <1>2, <1>3, <1>4 DEF RowStep

\* The messages that are left when the first is taken.
LEMMA HeadTaken ==
  ASSUME TypeOK, NEW w \in Workers, TakeMessage(w)
  PROVE  /\ 1 \in 1..Len(stream) /\ stream[1].job \in Jobs
         /\ \A m \in 1..Len(stream') : stream'[m] = stream[m + 1] /\ m + 1 \in 1..Len(stream)
         /\ worker[w].pc = "idle" /\ worker'[w].pc = "begin"
         /\ worker'[w].job = stream[1].job /\ worker'[w].token = stream[1].token
         /\ worker'[w].obj = NoJob /\ ~worker'[w].beat
         /\ \A v \in Workers \ {w} : worker'[v] = worker[v]
<1>1. /\ stream \in Seq(Message) /\ stream # <<>> /\ Len(stream) \in Nat
      /\ worker \in [Workers -> Worker]
  BY StateTypes DEF TakeMessage
<1>2. /\ Len(stream) > 0 /\ Head(stream) = stream[1] /\ stream' = Tail(stream)
      /\ Len(Tail(stream)) = Len(stream) - 1
      /\ \A m \in 1..Len(stream) - 1 : Tail(stream)[m] = stream[m + 1]
  BY <1>1 DEF TakeMessage
<1>3. \A m \in 1..Len(stream') : stream'[m] = stream[m + 1] /\ m + 1 \in 1..Len(stream)
  BY <1>1, <1>2
<1>4. worker' = [worker EXCEPT ![w] = [IdleWorker EXCEPT !.pc = "begin", !.job = stream[1].job,
                                                         !.token = stream[1].token]]
      /\ worker[w].pc = "idle"
  BY <1>2 DEF TakeMessage
<1>5. /\ worker'[w].pc = "begin"
      /\ worker'[w].job = stream[1].job /\ worker'[w].token = stream[1].token
      /\ worker'[w].obj = NoJob /\ ~worker'[w].beat
      /\ \A v \in Workers \ {w} : worker'[v] = worker[v]
  BY <1>1, <1>4 DEF IdleWorker
<1>6. 1 \in 1..Len(stream) /\ stream[1].job \in Jobs  BY <1>1, <1>2, StateTypes
<1> QED BY <1>3, <1>4, <1>5, <1>6

\* The messages there are when one more is sent.
LEMMA MessageSent ==
  ASSUME TypeOK, EnqueueDispatch
  PROVE  /\ sched.job \in Jobs /\ sched.rec.token \in Nat /\ Len(stream) \in Nat
         /\ Len(stream') = Len(stream) + 1
         /\ stream'[Len(stream) + 1].job = sched.job
         /\ stream'[Len(stream) + 1].token = sched.rec.token
         /\ \A n \in 1..Len(stream) : stream'[n] = stream[n]
         /\ worker' = worker /\ tokens' = tokens
<1>1. /\ stream \in Seq(Message) /\ Len(stream) \in Nat /\ sched.job \in Jobs
      /\ sched.rec.token \in Nat
  BY StateTypes DEF EnqueueDispatch
<1> DEFINE m == [job |-> sched.job, token |-> sched.rec.token]
<1>2. m \in Message /\ m.job = sched.job /\ m.token = sched.rec.token  BY <1>1 DEF Message
<1>3. stream' = Append(stream, m) /\ UNCHANGED <<worker, tokens>>
  BY DEF EnqueueDispatch, countVars
<1> HIDE DEF m
<1>4. /\ Len(stream') = Len(stream) + 1 /\ stream'[Len(stream) + 1] = m
      /\ \A n \in 1..Len(stream) : stream'[n] = stream[n]
  BY <1>1, <1>2, <1>3, AppendProperties
<1> QED BY <1>1, <1>2, <1>3, <1>4

\* Whoever names a job goes on finding it.
LEMMA JobsStayKnown ==
  ASSUME TypeOK, TypeOK', OutcomeInv, Effects
  PROVE  JobsKnown'
<1>0. KnownStep /\ DeliveryStep /\ JobsKnown /\ dirty \subseteq Jobs
      /\ (snap.job # 0 => snap.job \in Jobs) /\ (snap'.job # 0 => snap'.job \in Jobs)
      /\ (sched.pc \notin {"idle", "sweep"} => sched.job \in Jobs)
      /\ (sched'.pc \notin {"idle", "sweep"} => sched'.job \in Jobs)
  <2>1. snap.job \in 0..NumJobs /\ snap'.job \in 0..NumJobs  BY DEF TypeOK, Copy
  <2>2. sched \in Scheduler /\ sched' \in Scheduler  BY DEF TypeOK
  <2>3. dirty \subseteq Jobs  BY DEF TypeOK
  <2> QED BY <2>1, <2>2, <2>3, CountsAssumption DEF Effects, OutcomeInv, Jobs, Scheduler
<1>1. \A j \in Jobs : Exists(jobs[j]) => Exists(jobs'[j])  BY JobsRemain
<1>2. ASSUME NEW j \in Jobs, Exists(jobs'[j]) PROVE Exists(rows'[j])
  <2>1. JobStep(j) /\ (Exists(rows[j]) => Exists(rows'[j])) /\ (Exists(jobs[j]) => Exists(rows[j]))
    BY <1>0 DEF Effects, KnownStep, JobsKnown
  <2>2. CASE Exists(jobs[j])  BY <2>1, <2>2
  <2>3. CASE ~Exists(jobs[j]) /\ Created(j)  BY <2>3, <1>2 DEF Created
  <2>4. CASE ~Exists(jobs[j]) /\ Replaced(j)
    <3>1. jobs'[j].status = rows[j].status  BY <2>4, ReplacedIsAlike
    <3> QED BY <1>2, <2>1, <3>1 DEF Exists
  <2> QED BY <1>2, <2>1, <2>2, <2>3, <2>4, StatusSets
          DEF JobStep, Stays, Alike, Admitted, GivenBack, Moved, Exists
<1>3. \A j \in Jobs : ~Exists(jobs'[j]) => rows'[j].status \in Terminal \cup {"absent"}
  BY <1>0, RowsRemain DEF JobsKnown
<1>4. \A j \in dirty' : Exists(jobs'[j])
  <2>1. \A j \in dirty' : j \in Jobs /\ Exists(jobs[j])  BY <1>0 DEF KnownStep, JobsKnown, TypeOK
  <2> QED BY <1>1, <2>1
<1>5. snap'.job # 0 => Exists(snap'.rec) /\ Exists(jobs'[snap'.job])
  <2>1. ASSUME snap'.job # 0 PROVE Exists(jobs[snap'.job]) /\ Exists(snap'.rec)
    BY <1>0, <2>1 DEF KnownStep, JobsKnown
  <2> QED BY <1>0, <1>1, <2>1
<1>6. \A k \in Keys : \A n \in 1..Len(queues'[k]) : Exists(jobs'[queues'[k][n]])
  <2>1. \A k \in Keys : \A n \in 1..Len(queues'[k]) : queues'[k][n] \in Jobs
    <3>1. \A k \in Keys : queues'[k] \in Seq(Jobs)  BY DEF TypeOK
    <3> QED BY <3>1
  <2> QED BY <1>0, <1>1, <2>1 DEF KnownStep
<1>7. Engaged' => Exists(jobs'[sched'.job])
  <2>1. ASSUME Engaged' PROVE Exists(jobs[sched'.job])  BY <1>0, <2>1 DEF KnownStep, JobsKnown
  <2> QED BY <1>0, <1>1, <2>1 DEF Engaged
<1>8. /\ \A m \in 1..Len(stream') : Exists(rows'[stream'[m].job])
      /\ \A w \in Workers : Busy(w)' => Exists(jobs'[worker'[w].job])
  <2>0. /\ \A m \in 1..Len(stream) : stream[m].job \in Jobs /\ Exists(rows[stream[m].job])
        /\ \A m \in 1..Len(stream) : Exists(rows'[stream[m].job])
        /\ \A w \in Workers : Busy(w) => worker[w].job \in Jobs /\ Exists(jobs'[worker[w].job])
    BY <1>0, <1>1, StateTypes DEF JobsKnown, KnownStep, Busy
  <2>1. CASE DeliveriesStay  BY <2>0, <2>1 DEF DeliveriesStay, SameDelivery
  <2>2. ASSUME NEW w \in Workers, TakeMessage(w)
        PROVE  /\ \A m \in 1..Len(stream') : Exists(rows'[stream'[m].job])
               /\ \A v \in Workers : Busy(v)' => Exists(jobs'[worker'[v].job])
    <3>1. /\ 1 \in 1..Len(stream) /\ worker'[w].job = stream[1].job
          /\ \A m \in 1..Len(stream') : stream'[m] = stream[m + 1] /\ m + 1 \in 1..Len(stream)
          /\ \A v \in Workers \ {w} : worker'[v] = worker[v]
      BY <2>2, HeadTaken
    <3>2. Exists(jobs'[stream[1].job])
      <4>1. PICK j \in Jobs : j = stream[1].job  BY <2>0, <3>1
      <4>2. Exists(rows[j])  BY <2>0, <3>1, <4>1
      <4>3. jobs'[j] = IF Exists(jobs[j]) THEN jobs[j] ELSE rows[j]
        BY <2>2, <4>1, StateTypes DEF TakeMessage
      <4> QED BY <4>1, <4>2, <4>3
    <3> QED BY <2>0, <3>1, <3>2 DEF Busy
  <2>3. CASE EnqueueDispatch
    <3>1. /\ Len(stream) \in Nat /\ Len(stream') = Len(stream) + 1 /\ sched.job \in Jobs
          /\ stream'[Len(stream) + 1].job = sched.job
          /\ \A n \in 1..Len(stream) : stream'[n] = stream[n]
          /\ worker' = worker
      BY <2>3, MessageSent
    <3>2. Exists(rows[sched.job])  BY <1>0, <2>3, <3>1 DEF EnqueueDispatch, JobsKnown, Engaged
    <3>3. Exists(rows'[sched.job])  BY <1>0, <3>1, <3>2 DEF KnownStep
    <3>4. ASSUME NEW n \in 1..Len(stream') PROVE Exists(rows'[stream'[n].job])
      <4>1. n \in 1..Len(stream) \/ n = Len(stream) + 1  BY <3>1
      <4> QED BY <2>0, <3>1, <3>3, <4>1
    <3> QED BY <2>0, <3>1, <3>4 DEF Busy
  <2> QED BY <1>0, <2>1, <2>2, <2>3 DEF DeliveryStep
<1>9. \A w \in Workers : worker'[w].beat => Busy(w)'  BY <1>0 DEF KnownStep
<1> QED BY <1>2, <1>3, <1>4, <1>5, <1>6, <1>7, <1>8, <1>9 DEF JobsKnown

\* A job that is over keeps its row, and what is written over the row says the same.
LEMMA RowsKeepOutcomes ==
  ASSUME TypeOK, OutcomeInv, Effects, NEW j \in Jobs, rows[j].status \in Terminal
  PROVE  rows'[j].status = rows[j].status
<1>0. RowStep(j) /\ Exists(rows[j])  BY StatusSets DEF Effects, Exists
<1>1. snap.job = j => snap.rec.status = rows[j].status  BY DEF OutcomeInv, OutcomesKept
<1>2. ~(sched.pc = "stage" /\ sched.job = j)
  <2> SUFFICES ASSUME sched.pc = "stage", sched.job = j PROVE FALSE  OBVIOUS
  <2>1. Exists(jobs[j]) /\ Behind(rows[j], j) /\ jobs[j].status \in Active
    BY CopyRecords, StatusSets DEF OutcomeInv, CopiesBehind, JobsKnown, Engaged, Staged
  <2> QED BY <2>1, StatusSets DEF Behind
<1> QED BY <1>0, <1>1, <1>2 DEF RowStep, Created

\* ... which is the action of OutcomeIsDurable and keeps OutcomesKept.
LEMMA OutcomesStayKept ==
  ASSUME TypeOK, OutcomeInv, Effects
  PROVE  OutcomesKept'
<1> SUFFICES ASSUME NEW j \in Jobs, rows'[j].status \in Terminal, snap'.job = j
             PROVE  snap'.rec.status = rows'[j].status
  BY DEF OutcomesKept
<1>0. RowStep(j) /\ SnapStep(j) /\ j # 0  BY JobNumbers DEF Effects
<1>1. rows'[j].status = rows[j].status
  <2>1. ~Created(j)  BY StatusSets DEF Created, NewJob, NoJob
  <2> QED BY <1>0, <2>1, StatusSets DEF RowStep
<1>2. CASE snap.job = j /\ snap'.rec.status = snap.rec.status
  BY <1>1, <1>2 DEF OutcomeInv, OutcomesKept
<1>3. CASE Exists(jobs[j]) /\ snap'.rec = jobs[j]
  <2>1. Behind(rows[j], j)  BY CopyRecords DEF OutcomeInv, CopiesBehind
  <2> QED BY <1>1, <1>3, <2>1 DEF Behind
<1> QED BY <1>0, <1>2, <1>3 DEF SnapStep

\* Each "final" event ends a job that was still to be ended.
LEMMA FinalsStayCounted ==
  ASSUME TypeOK, TypeOK', OutcomeInv, Effects
  PROVE  FinalsCounted'
<1> SUFFICES ASSUME NEW j \in Jobs
             PROVE  /\ finals'[j] <= env'.crashes + (IF jobs'[j].status \in Live THEN 0 ELSE 1)
                    /\ ~Exists(rows'[j]) => finals'[j] = 0
  BY DEF FinalsCounted
<1>0. /\ JobStep(j) /\ CountStep(j) /\ env'.crashes = env.crashes
      /\ Exists(rows[j]) => Exists(rows'[j])
      /\ Exists(jobs[j]) => Exists(rows[j])
      /\ finals[j] \in Nat /\ env.crashes \in Nat
      /\ finals[j] <= env.crashes + (IF jobs[j].status \in Live THEN 0 ELSE 1)
      /\ ~Exists(rows[j]) => finals[j] = 0
  BY FieldTypes DEF Effects, KnownStep, OutcomeInv, JobsKnown, FinalsCounted
<1>1. ASSUME ~Exists(rows'[j]) PROVE finals'[j] = 0
  <2>1. ~Exists(rows[j]) /\ ~Exists(jobs[j]) /\ jobs[j].status \notin Live
    BY <1>0, <1>1, StatusSets DEF Exists
  <2> QED BY <1>0, <2>1 DEF CountStep
<1>2. CASE finals'[j] = finals[j] + 1 /\ jobs[j].status \in Live /\ jobs'[j].status \in Terminal
  <2>1. jobs'[j].status \notin Live  BY <1>2, StatusSets
  <2> QED BY <1>0, <1>1, <1>2, <2>1
<1>3. CASE finals'[j] = finals[j] /\ jobs'[j].status \notin Live
  BY <1>0, <1>1, <1>3
<1>4. CASE finals'[j] = finals[j] /\ jobs'[j].status \in Live /\ ~Created(j)
  <2>1. jobs[j].status \in Live
    <3>1. CASE Replaced(j)
      <4>1. Exists(jobs[j])
        <5> SUFFICES ASSUME ~Exists(jobs[j]) PROVE FALSE  OBVIOUS
        <5>1. rows[j].status \in Live  BY <1>4, <3>1, ReplacedIsAlike
        <5> QED BY <5>1, StatusSets DEF OutcomeInv, JobsKnown
      <4> QED BY <3>1, <4>1, ReplacedIsAlike
    <3> QED BY <1>0, <1>4, <3>1, StatusSets DEF JobStep, Stays, Alike, Admitted, GivenBack, Moved
  <2> QED BY <1>0, <1>1, <1>4, <2>1
<1>5. CASE finals'[j] = finals[j] /\ Created(j)
  BY <1>0, <1>1, <1>5 DEF Created
<1> QED BY <1>0, <1>2, <1>3, <1>4, <1>5 DEF CountStep

\* Deliveries keep their tokens, and no two get the same.
LEMMA TokensStayApart ==
  ASSUME TypeOK, TypeOK', OutcomeInv, Effects
  PROVE  TokensApart'
<1>0. /\ DeliveryStep /\ TokensApart /\ Len(stream) \in Nat
      /\ \A m \in 1..Len(stream) : stream[m].job \in Jobs /\ stream[m].token \in Nat
      /\ \A w \in Workers : worker[w].token \in Nat /\ (Busy(w) => worker[w].job \in Jobs)
      /\ \A j \in Jobs : tokens[j] \in Nat /\ tokens'[j] \in Nat /\ tokens[j] <= tokens'[j]
  <2>1. \A j \in Jobs : tokens'[j] \in Nat  BY DEF TypeOK
  <2> QED BY <2>1, StateTypes, FieldTypes DEF Effects, OutcomeInv, CountStep, Busy
<1>1. ASSUME NEW x, Issued(x), x.job \in Jobs, x.token \in Nat
      PROVE  x.token <= tokens'[x.job]
  BY <1>0, <1>1 DEF Issued
<1>2. CASE DeliveriesStay
  <2>1. \A m \in 1..Len(stream) : Issued(stream[m])'
    BY <1>0, <1>1, <1>2 DEF TokensApart, DeliveriesStay, Issued
  <2>2. \A w \in Workers : Busy(w)' => Issued(worker[w])'
    BY <1>0, <1>1, <1>2 DEF TokensApart, DeliveriesStay, Issued, SameDelivery
  <2>3. \A v, w \in Workers : Busy(v)' /\ Busy(w)' /\ SameDelivery(worker'[v], worker'[w]) => v = w
    BY <1>0, <1>2 DEF TokensApart, DeliveriesStay, SameDelivery
  <2>4. \A m \in 1..Len(stream), w \in Workers : Busy(w)' => ~SameDelivery(worker'[w], stream[m])
    BY <1>0, <1>2 DEF TokensApart, DeliveriesStay, SameDelivery
  <2> QED BY <1>0, <1>2, <2>1, <2>2, <2>3, <2>4 DEF TokensApart, DeliveriesStay
<1>3. ASSUME NEW w \in Workers, TakeMessage(w) PROVE TokensApart'
  <2>0. /\ 1 \in 1..Len(stream)
        /\ \A m \in 1..Len(stream') : stream'[m] = stream[m + 1] /\ m + 1 \in 1..Len(stream)
        /\ SameDelivery(worker'[w], stream[1]) /\ Busy(w)'
        /\ \A v \in Workers \ {w} : worker'[v] = worker[v]
        /\ tokens' = tokens
    BY <1>3, HeadTaken DEF TakeMessage, countVars, SameDelivery, Busy
  <2>a. Len(stream') \in Nat  BY DEF TypeOK
  <2>1. \A m \in 1..Len(stream') : Issued(stream[m])'
    BY <1>0, <2>0 DEF TokensApart, Issued
  <2>2. \A v \in Workers : Busy(v)' => Issued(worker[v])'
    BY <1>0, <2>0 DEF TokensApart, Issued, SameDelivery, Busy
  <2>3. \A m, n \in 1..Len(stream') : SameDelivery(stream'[m], stream'[n]) => m = n
    <3> SUFFICES ASSUME NEW m \in 1..Len(stream'), NEW n \in 1..Len(stream'),
                        SameDelivery(stream'[m], stream'[n])
                 PROVE  m = n
      OBVIOUS
    <3>1. m + 1 = n + 1  BY <1>0, <2>0 DEF TokensApart
    <3> QED BY <2>a, <3>1
  <2>4. \A u, v \in Workers : Busy(u)' /\ Busy(v)' /\ SameDelivery(worker'[u], worker'[v]) => u = v
    BY <1>0, <2>0 DEF TokensApart, SameDelivery, Busy
  <2>5. \A m \in 1..Len(stream'), v \in Workers : Busy(v)' => ~SameDelivery(worker'[v], stream'[m])
    <3> SUFFICES ASSUME NEW m \in 1..Len(stream'), NEW v \in Workers, Busy(v)',
                        SameDelivery(worker'[v], stream'[m])
                 PROVE  FALSE
      OBVIOUS
    <3>1. CASE v = w
      <4>1. SameDelivery(stream[1], stream[m + 1])  BY <2>0, <3>1 DEF SameDelivery
      <4>2. m + 1 # 1  BY <2>a
      <4> QED BY <1>0, <2>0, <4>1, <4>2 DEF TokensApart
    <3>2. CASE v # w
      BY <1>0, <2>0, <3>2 DEF TokensApart, Busy
    <3> QED BY <3>1, <3>2
  <2> QED BY <2>1, <2>2, <2>3, <2>4, <2>5 DEF TokensApart
<1>4. CASE EnqueueDispatch
  <2>0. /\ sched.job \in Jobs /\ Len(stream') = Len(stream) + 1
        /\ stream'[Len(stream) + 1].job = sched.job
        /\ stream'[Len(stream) + 1].token = sched.rec.token
        /\ \A n \in 1..Len(stream) : stream'[n] = stream[n]
        /\ worker' = worker /\ tokens' = tokens
    BY <1>4, MessageSent
  <2>1. /\ 0 < sched.rec.token /\ sched.rec.token <= tokens[sched.job]
        /\ Unborne(sched.job, sched.rec.token)
    BY <1>4 DEF EnqueueDispatch, OutcomeInv, Fresh
  <2>2. \A m \in 1..Len(stream') : m \in 1..Len(stream) \/ m = Len(stream) + 1  BY <1>0, <2>0
  <2>3. \A m \in 1..Len(stream') : Issued(stream[m])'
    BY <1>0, <2>0, <2>1, <2>2 DEF TokensApart, Issued
  <2>4. \A w \in Workers : Busy(w)' => Issued(worker[w])'
    BY <1>0, <2>0 DEF TokensApart, Issued, Busy
  <2>5. \A m \in 1..Len(stream) : ~SameDelivery(stream'[m], stream'[Len(stream) + 1])
    BY <2>0, <2>1 DEF Unborne, SameDelivery
  <2>6. \A m, n \in 1..Len(stream') : SameDelivery(stream'[m], stream'[n]) => m = n
    <3> SUFFICES ASSUME NEW m \in 1..Len(stream'), NEW n \in 1..Len(stream'),
                        SameDelivery(stream'[m], stream'[n])
                 PROVE  m = n
      OBVIOUS
    <3>1. CASE m \in 1..Len(stream) /\ n \in 1..Len(stream)
      BY <1>0, <2>0, <3>1 DEF TokensApart
    <3>2. SameDelivery(stream'[n], stream'[m])  BY DEF SameDelivery
    <3> QED BY <2>2, <2>5, <3>1, <3>2
  <2>7. \A v, w \in Workers : Busy(v)' /\ Busy(w)' /\ SameDelivery(worker'[v], worker'[w]) => v = w
    BY <1>0, <2>0 DEF TokensApart, Busy
  <2>8. \A m \in 1..Len(stream'), w \in Workers : Busy(w)' => ~SameDelivery(worker'[w], stream'[m])
    <3> SUFFICES ASSUME NEW m \in 1..Len(stream'), NEW w \in Workers, Busy(w)
                 PROVE  ~SameDelivery(worker[w], stream'[m])
      BY <2>0 DEF Busy
    <3>1. CASE m \in 1..Len(stream)  BY <1>0, <2>0, <3>1 DEF TokensApart
    <3>2. CASE m = Len(stream) + 1  BY <2>0, <2>1, <3>2 DEF Unborne, SameDelivery
    <3> QED BY <2>2, <3>1, <3>2
  <2> QED BY <2>3, <2>4, <2>6, <2>7, <2>8 DEF TokensApart
<1> QED BY <1>0, <1>2, <1>3, <1>4 DEF DeliveryStep

\* A token that was not issued yet is borne by nobody.
LEMMA NextTokenIsUnborne ==
  ASSUME TypeOK, OutcomeInv, NEW j \in Jobs
  PROVE  Unborne(j, tokens[j] + 1)
<1>0. tokens[j] \in Nat /\ TokensApart  BY FieldTypes DEF OutcomeInv
<1>1. \A m \in 1..Len(stream) : stream[m].token \in Nat  BY StateTypes
<1>2. \A w \in Workers : worker[w].token \in Nat  BY StateTypes
<1> QED BY <1>0, <1>1, <1>2 DEF TokensApart, Issued, Unborne

\* The token of the admission that is under way stays unborne until its message is sent.
LEMMA TokenStaysFresh ==
  ASSUME TypeOK, TypeOK', OutcomeInv, Effects
  PROVE  Fresh'
<1> SUFFICES ASSUME sched'.pc \in {"stage", "enqueue"}
             PROVE  /\ 0 < sched'.rec.token /\ sched'.rec.token <= tokens'[sched'.job]
                    /\ Unborne(sched.job, sched.rec.token)'
  BY DEF Fresh
<1>0. StageStep /\ DeliveryStep /\ (\A j \in Jobs : CountStep(j))  BY DEF Effects
<1>1. ASSUME sched.pc \in {"stage", "enqueue"}, sched'.job = sched.job,
             sched'.rec.token = sched.rec.token
      PROVE  /\ 0 < sched'.rec.token /\ sched'.rec.token <= tokens'[sched'.job]
             /\ Unborne(sched.job, sched.rec.token)'
  <2>0. /\ 0 < sched.rec.token /\ sched.rec.token <= tokens[sched.job]
        /\ Unborne(sched.job, sched.rec.token) /\ sched.job \in Jobs /\ sched.rec.token \in Nat
    BY <1>1, StateTypes DEF OutcomeInv, Fresh
  <2>1. tokens[sched.job] \in Nat /\ tokens'[sched.job] \in Nat /\ tokens[sched.job] <= tokens'[sched.job]
    BY <1>0, <2>0 DEF CountStep, TypeOK
  <2>2. CASE DeliveriesStay
    BY <1>1, <2>0, <2>1, <2>2 DEF DeliveriesStay, Unborne, SameDelivery
  <2>3. ASSUME NEW w \in Workers, TakeMessage(w) PROVE Unborne(sched.job, sched.rec.token)'
    <3>1. /\ 1 \in 1..Len(stream)
          /\ \A m \in 1..Len(stream') : stream'[m] = stream[m + 1] /\ m + 1 \in 1..Len(stream)
          /\ worker'[w].job = stream[1].job /\ worker'[w].token = stream[1].token
          /\ \A v \in Workers \ {w} : worker'[v] = worker[v]
      BY <2>3, HeadTaken
    <3> QED BY <1>1, <2>0, <3>1 DEF Unborne, Busy
  <2>4. ~EnqueueDispatch
    <3> SUFFICES ASSUME EnqueueDispatch PROVE FALSE  OBVIOUS
    <3>1. sched'.pc = "mark"  BY Places DEF EnqueueDispatch, SchedulerPC
    <3> QED BY <3>1
  <2> QED BY <1>0, <1>1, <2>0, <2>1, <2>2, <2>3, <2>4 DEF DeliveryStep
<1>2. ASSUME sched.job \in Jobs, sched'.job = sched.job, Admitted(sched.job), DeliveriesStay
      PROVE  /\ 0 < sched'.rec.token /\ sched'.rec.token <= tokens'[sched'.job]
             /\ Unborne(sched.job, sched.rec.token)'
  <2>1. /\ tokens[sched.job] \in Nat /\ sched'.rec.token = tokens[sched.job] + 1
        /\ tokens'[sched.job] = tokens[sched.job] + 1
    BY <1>2, FieldTypes DEF Admitted
  <2>2. Unborne(sched.job, tokens[sched.job] + 1)  BY <1>2, NextTokenIsUnborne
  <2> QED BY <1>2, <2>1, <2>2 DEF DeliveriesStay, Unborne, SameDelivery
<1> QED BY <1>0, <1>1, <1>2 DEF StageStep, Alike

\* What a worker believes of a job whose token it holds stays true.
LEMMA WorkersStayRight ==
  ASSUME TypeOK, TypeOK', OutcomeInv, AttemptsInv, Effects
  PROVE  Believed'
<1> SUFFICES ASSUME NEW w \in Workers, Believes(w)', Holds(w)'
             PROVE  jobs'[worker'[w].job].status \in Active
  BY DEF Believed
<1>0. /\ BeliefStep(w) /\ Busy(w) /\ SameDelivery(worker'[w], worker[w])
      /\ worker[w].job \in Jobs /\ Issued(worker[w]) /\ worker[w].token \in Nat
      /\ Exists(jobs[worker[w].job])
  <2>1. BeliefStep(w) /\ Busy(w) /\ SameDelivery(worker'[w], worker[w])
    BY DEF Effects, BeliefStep
  <2> QED BY <2>1, StateTypes DEF OutcomeInv, TokensApart, Busy, JobsKnown
<1>1. PICK j \in Jobs : j = worker[w].job /\ j = worker'[w].job  BY <1>0 DEF SameDelivery
<1>2. /\ JobStep(j) /\ jobs'[j].token = worker[w].token /\ worker[w].token > 0
      /\ jobs'[j].token > 0 /\ jobs[j].token \in Nat
  BY <1>0, <1>1, FieldTypes DEF Effects, Holds, SameDelivery, Issued
<1>3. ~Created(j) /\ ~GivenBack(j)
  BY <1>0, <1>1, <1>2, JobsRemain DEF GivenBack
<1>4. CASE Replaced(j)
  <2>1. jobs'[j].status \in Live /\ jobs'[j] \in JobRecord  BY <1>0, <1>1, <1>4, ReplacedIsAlike
  <2>2. jobs'[j].status # "queued"
    <3>1. SoundCopy(jobs'[j])
      <4>1. jobs'[j] \in Copies(j)  BY <1>4 DEF Replaced
      <4> QED BY <4>1, SoundState DEF Copies
    <3> QED BY <1>2, <3>1 DEF SoundCopy, Returned
  <2> QED BY <1>1, <2>1, <2>2 DEF Live, Active
<1>5. ASSUME ~Replaced(j), jobs'[j].status \notin Active PROVE FALSE
  <2>1. Believes(w)  BY <1>0, <1>1, <1>5 DEF BeliefStep
  <2>2. ASSUME jobs[j].token = jobs'[j].token PROVE jobs[j].status \in Active
    BY <1>1, <1>2, <2>1, <2>2 DEF OutcomeInv, Believed, Holds
  <2>3. CASE Stays(j)  BY <1>5, <2>2, <2>3 DEF Stays, Alike
  <2>4. CASE Admitted(j)
    BY <1>5, <2>4, StatusSets DEF Admitted
  <2>5. CASE Moved(j)
    <3>1. jobs[j].status \in Active /\ jobs'[j].status \in Terminal /\ jobs[j].token = jobs'[j].token
      BY <1>5, <2>2, <2>5 DEF Moved
    <3>2. PICK v \in Workers : Acts(v, j) /\ ~Believes(v)'
      BY <2>5, <3>1, StatusSets DEF Moved
    <3>3. worker[v].token = worker[w].token /\ worker[v].job = worker[w].job /\ Busy(v)
      BY <1>1, <1>2, <3>1, <3>2 DEF Acts, Superseded
    <3>4. v = w  BY <1>0, <3>3 DEF OutcomeInv, TokensApart, SameDelivery
    <3> QED BY <3>2, <3>4
  <2> QED BY <1>2, <1>3, <1>5, <2>3, <2>4, <2>5 DEF JobStep
<1> QED BY <1>1, <1>4, <1>5

\* Until its row is updated, an admitted job is as it was admitted, or is to be cancelled.
LEMMA AdmissionStaysStaged ==
  ASSUME TypeOK, TypeOK', OutcomeInv, Effects
  PROVE  Staged'
<1>0. sched'.pc = "stage" => sched'.job \in Jobs  BY SchedulerTypes DEF TypeOK
<1> SUFFICES ASSUME sched'.pc = "stage", NEW j \in Jobs, j = sched'.job
             PROVE  /\ jobs'[j].token = sched'.rec.token /\ jobs'[j].fence = sched'.rec.fence
                    /\ jobs'[j].status \in {"admitted", "cancel_requested"}
                    /\ sched'.rec.status = "admitted"
                    /\ \A rec \in Copies(j)' : rec.fence = sched'.rec.fence =>
                         rec.token = sched'.rec.token /\ rec.status \in {"admitted", "cancel_requested"}
  BY <1>0 DEF Staged, Copies
<1>2. JobStep(j) /\ CopyStep(j) /\ StageStep  BY DEF Effects
<1>3. CASE sched.pc = "stage" /\ sched'.job = sched.job /\ Alike(sched'.rec, sched.rec)
  <2>0. /\ jobs[j].token = sched.rec.token /\ jobs[j].fence = sched.rec.fence
        /\ jobs[j].status \in {"admitted", "cancel_requested"}
        /\ sched.rec.status = "admitted"
        /\ \A rec \in Copies(j) : rec.fence = sched.rec.fence =>
             rec.token = sched.rec.token /\ rec.status \in {"admitted", "cancel_requested"}
    BY <1>3 DEF OutcomeInv, Staged
  <2>1. 0 < sched.rec.token /\ Unborne(j, sched.rec.token) /\ Exists(jobs[j])
    BY <1>3 DEF OutcomeInv, Fresh, JobsKnown, Engaged
  <2>2. \A w \in Workers : ~Acts(w, j)
    BY <2>0, <2>1, StateTypes DEF Acts, Superseded, Unborne
  <2>3. ~Created(j) /\ ~Admitted(j) /\ ~GivenBack(j)
    BY <1>3, <2>0, <2>1, <2>2, JobsRemain DEF Admitted, GivenBack
  <2>4. /\ jobs'[j].token = sched.rec.token /\ jobs'[j].fence = sched.rec.fence
        /\ jobs'[j].status \in {"admitted", "cancel_requested"}
    <3>1. CASE Stays(j)  BY <2>0, <3>1 DEF Stays, Alike
    <3>2. CASE Replaced(j)
      <4>1. jobs'[j] \in Copies(j) /\ jobs'[j].fence = jobs[j].fence
        BY <2>1, <3>2, ReplacedIsAlike DEF Replaced
      <4> QED BY <2>0, <4>1
    <3>3. CASE Moved(j)  BY <2>0, <2>2, <3>3 DEF Moved
    <3> QED BY <1>2, <2>3, <3>1, <3>2, <3>3 DEF JobStep
  <2>5. ASSUME NEW rec \in Copies(j)', rec.fence = sched.rec.fence
        PROVE  rec.token = sched.rec.token /\ rec.status \in {"admitted", "cancel_requested"}
    <3>1. CASE \E r \in Copies(j) : Alike(rec, r)  BY <2>0, <2>5, <3>1 DEF Alike
    <3>2. CASE Alike(rec, jobs[j])  BY <2>0, <3>2 DEF Alike
    <3> QED BY <1>2, <1>3, <2>3, <3>1, <3>2 DEF CopyStep
  <2> QED BY <1>3, <2>0, <2>4, <2>5 DEF Alike
<1>4. CASE sched.job \in Jobs /\ sched'.job = sched.job /\ Admitted(sched.job)
  <2>0. Admitted(j)  BY <1>4
  <2>1. /\ jobs[j].fence \in Nat /\ jobs'[j].fence = jobs[j].fence + 1 /\ sched'.rec = jobs'[j]
        /\ jobs'[j].status = "admitted" /\ Exists(jobs[j])
    BY <2>0, FieldTypes DEF Admitted, Exists
  <2>2. ASSUME NEW rec \in Copies(j)' PROVE rec.fence # jobs'[j].fence
    <3>1. ~Stays(j)  BY <2>1 DEF Stays, Alike
    <3>2. PICK r \in Copies(j) : Alike(rec, r)  BY <1>2, <2>1, <3>1, JobsRemain DEF CopyStep
    <3>3. r \in JobRecord /\ Behind(r, j)  BY CopyRecords DEF OutcomeInv, CopiesBehind
    <3>4. r.fence <= jobs[j].fence /\ r.fence \in Nat /\ rec.fence = r.fence
      BY <2>1, <3>2, <3>3, FieldTypes DEF Behind, Alike
    <3> QED BY <2>1, <3>4
  <2> QED BY <2>1, <2>2
<1> QED BY <1>2, <1>3, <1>4 DEF StageStep

\* A step with these effects keeps the invariant.
LEMMA EffectsKeepOutcomes ==
  ASSUME TypeOK, TypeOK', OutcomeInv, AttemptsInv, Effects
  PROVE  OutcomeInv'
BY CopiesStayBehind, JobsStayKnown, OutcomesStayKept, FinalsStayCounted, TokensStayApart,
   TokenStaysFresh, WorkersStayRight, AdmissionStaysStaged DEF OutcomeInv, Effects

----------------------------------------------------------------------------
(* Each step is of this kind: which actions write what *)

\* The environment counts one event at a time, and who counts it is known.
LEMMA EnvironmentCounts ==
  ASSUME TypeOK, Next
  PROVE  /\ env \in Counters
         /\ \/ UNCHANGED env
            \/ env' = [env EXCEPT !.faults = @ + 1] /\ ~Restart
            \/ env' = [env EXCEPT !.expiries = @ + 1] /\ ~Restart
            \/ env' = [env EXCEPT !.crashes = @ + 1] /\ Restart
            \/ env' = [env EXCEPT !.replays = @ + 1] /\ ~Restart
<1> USE DEF queueVars, pendingVars, storeVars, brokerVars, readVars, countVars
<1> DEFINE Counted ==
      \/ UNCHANGED env
      \/ env' = [env EXCEPT !.faults = @ + 1]
      \/ env' = [env EXCEPT !.expiries = @ + 1]
      \/ env' = [env EXCEPT !.replays = @ + 1]
<1>0. env \in Counters /\ env.crashes \in Nat  BY DEF TypeOK, Counters
<1>1. CASE \E j \in Jobs : Request(j) \/ LeaseTimeout(j)
  <2>1. Counted
    BY <1>1 DEF Request, CreateJob, ReplayRead, PollRead, CancelQueued, CancelActive, LeaseTimeout,
       Overdue
  <2> QED BY <1>0, <2>1 DEF Restart, Counters
<1>2. CASE ReplayApply \/ PollMerge \/ SelectNothing \/ \E k \in Keys : SelectCandidate(k)
  <2>1. Counted  BY <1>2 DEF ReplayApply, PollMerge, SelectNothing, SelectCandidate
  <2> QED BY <1>0, <2>1 DEF Restart, Counters
<1>3. CASE Dispatching
  <2>1. Counted
    BY <1>3 DEF Dispatching, LoadLatest, MergeLatest, AcquireSession, SessionBusy, AdmitJob,
       AdmissionLost, StageDispatch, EnqueueDispatch, MarkDispatchSent, HandleDispatchFailure,
       FinishDispatch, SchedulerUnlock
  <2> QED BY <1>0, <2>1 DEF Restart, Counters
<1>4. CASE LoadFails \/ DispatchFails
  <2>1. Counted  BY <1>4 DEF LoadFails, DispatchFails, Fault
  <2> QED BY <1>0, <2>1 DEF Restart, Counters
<1>5. CASE Sweeping
  <2>1. Counted
    BY <1>5 DEF Sweeping, LoadStale, SweepUnlock, SkipStalled, FailStalled, RequeueStalled
  <2> QED BY <1>0, <2>1 DEF Restart, Counters
<1>6. CASE \E w \in Workers : Beginning(w) \/ Heartbeat(w) \/ RuntimeFails(w)
  <2>1. Counted
    BY <1>6 DEF Beginning, TakeMessage, BeginIgnored, BeginCancelled, BeginIllegal, BeginRunning,
       Heartbeat, RuntimeFails
  <2> QED BY <1>0, <2>1 DEF Restart, Counters
<1>7. CASE \E w \in Workers : Ending(w)
  <2>1. Counted
    BY <1>7 DEF Ending, Publish, PublishIllegal, EndCancelled, EndIgnored, FailJob, WorkerRelease,
       WorkerDiscard, Settle, RetryIgnored, RetryCancelled, RetryDispatch, WorkerUnlock
  <2> QED BY <1>0, <2>1 DEF Restart, Counters
<1>8. CASE Persisting \/ \E s \in Sessions : LockTimeout(s)
  <2>1. Counted  BY <1>8 DEF Persisting, TakeSnapshot, SaveSnapshot, LockTimeout, Overdue
  <2> QED BY <1>0, <2>1 DEF Restart, Counters
<1>9. CASE Restart  BY <1>0, <1>9 DEF Restart
<1> QED BY <1>0, <1>1, <1>2, <1>3, <1>4, <1>5, <1>6, <1>7, <1>8, <1>9 DEF Next

\* A service that has replayed nothing had replayed nothing, and only a restart is a crash.
LEMMA ReplaysLast ==
  ASSUME TypeOK, [Next]_vars, Unreplayed'
  PROVE  Unreplayed /\ (~Restart => env'.crashes = env.crashes)
<1>1. CASE UNCHANGED vars  BY <1>1 DEF vars, countVars, Unreplayed
<1>2. CASE Next
  <2>1. env.faults \in Nat /\ env.expiries \in Nat /\ env.crashes \in Nat /\ env.replays \in Nat
    BY DEF TypeOK, Counters
  <2> QED BY <1>2, <2>1, EnvironmentCounts DEF Unreplayed, Counters
<1> QED BY <1>1, <1>2

\* The actions of the tasks, as the lemmas below take them.
SchedulerStep ==
  \/ SelectNothing \/ (\E k \in Keys : SelectCandidate(k))
  \/ Dispatching \/ LoadFails \/ DispatchFails \/ Sweeping
WorkerStep(w) == Beginning(w) \/ Heartbeat(w) \/ RuntimeFails(w) \/ Ending(w)
OtherStep ==
  \/ (\E j \in Jobs : CreateJob(j) \/ PollRead(j) \/ CancelQueued(j) \/ CancelActive(j) \/ LeaseTimeout(j))
  \/ PollMerge \/ Persisting \/ (\E s \in Sessions : LockTimeout(s))

\* Without replays and restarts, these are all the steps.
LEMMA StepKinds ==
  ASSUME TypeOK, OutcomeInv, Next, ~Restart, Unreplayed'
  PROVE  SchedulerStep \/ (\E w \in Workers : WorkerStep(w)) \/ OtherStep
<1>1. ASSUME NEW j \in Jobs, ReplayRead(j) PROVE FALSE
  <2>1. env.replays \in Nat /\ env \in Counters  BY DEF TypeOK, Counters
  <2> QED BY <1>1, <2>1 DEF ReplayRead, Unreplayed, Counters
<1>2. ~ReplayApply  BY DEF OutcomeInv, ReplayApply
<1>3. ASSUME NEW j \in Jobs, Request(j) PROVE OtherStep
  BY <1>1, <1>3 DEF Request, OtherStep
<1> QED BY <1>2, <1>3 DEF Next, SchedulerStep, WorkerStep, OtherStep

\* What the steps of a worker leave alone.
LEMMA WorkerFootprint ==
  ASSUME NEW w \in Workers, WorkerStep(w)
  PROVE  /\ UNCHANGED <<sched, rows, snap, poll, replay, tokens>>
         /\ UNCHANGED stream \/ TakeMessage(w)
         /\ UNCHANGED queues \/ RetryDispatch(w)
         /\ \/ UNCHANGED jobs
            \/ TakeMessage(w) \/ BeginCancelled(w) \/ BeginRunning(w) \/ Heartbeat(w)
            \/ \E outcome \in {"succeeded", "failed"} : Publish(w, outcome)
            \/ EndCancelled(w) \/ FailJob(w) \/ RetryCancelled(w) \/ RetryDispatch(w)
         /\ UNCHANGED finals \/ \E outcome \in {"succeeded", "failed"} : Publish(w, outcome)
<1> USE DEF queueVars, pendingVars, storeVars, brokerVars, readVars, countVars, PersistJob
<1>1. CASE Beginning(w) \/ Heartbeat(w) \/ RuntimeFails(w)
  BY <1>1 DEF Beginning, TakeMessage, BeginIgnored, BeginCancelled, BeginIllegal, BeginRunning,
     Heartbeat, RuntimeFails
<1>2. CASE Ending(w)
  BY <1>2 DEF Ending, Publish, PublishIllegal, EndCancelled, MarkCancelled, EndIgnored, FailJob,
     WorkerRelease, WorkerDiscard, Settle, RetryIgnored, RetryCancelled, RetryDispatch, WorkerUnlock
<1> QED BY <1>1, <1>2 DEF WorkerStep

\* What the steps of the scheduler leave alone.
LEMMA SchedulerFootprint ==
  ASSUME SchedulerStep
  PROVE  /\ UNCHANGED <<snap, poll, replay, finals>>
         /\ UNCHANGED rows \/ StageDispatch
         /\ UNCHANGED tokens \/ AdmitJob
         /\ UNCHANGED stream \/ EnqueueDispatch
         /\ UNCHANGED worker \/ MergeLatest
         /\ UNCHANGED jobs \/ MergeLatest \/ AdmitJob \/ HandleDispatchFailure
            \/ \E j \in Jobs : FailStalled(j) \/ RequeueStalled(j)
         /\ UNCHANGED queues \/ MergeLatest \/ AdmitJob \/ HandleDispatchFailure
            \/ \E j \in Jobs : RequeueStalled(j)
<1> USE DEF queueVars, pendingVars, storeVars, brokerVars, readVars, countVars, PersistJob
<1>1. CASE SelectNothing \/ \E k \in Keys : SelectCandidate(k)
  BY <1>1 DEF SelectNothing, SelectCandidate
<1>2. CASE LoadLatest \/ MergeLatest \/ AcquireSession \/ SessionBusy \/ AdmitJob \/ AdmissionLost
  BY <1>2 DEF LoadLatest, MergeLatest, AcquireSession, SessionBusy, AdmitJob, AdmissionLost
<1>3. CASE StageDispatch \/ EnqueueDispatch \/ MarkDispatchSent \/ HandleDispatchFailure
            \/ FinishDispatch \/ SchedulerUnlock
  BY <1>3 DEF StageDispatch, EnqueueDispatch, MarkDispatchSent, HandleDispatchFailure,
     FinishDispatch, SchedulerUnlock
<1>4. CASE LoadFails \/ DispatchFails  BY <1>4 DEF LoadFails, DispatchFails, Fault
<1>5. CASE Sweeping
  BY <1>5 DEF Sweeping, LoadStale, SkipStalled, FailStalled, RequeueStalled, SweepUnlock
<1> QED BY <1>1, <1>2, <1>3, <1>4, <1>5 DEF SchedulerStep, Dispatching

\* What the steps of requests, of the persistence task and of time leave alone.
LEMMA OtherFootprint ==
  ASSUME OtherStep
  PROVE  /\ UNCHANGED <<stream, tokens, finals>>
         /\ UNCHANGED sched \/ \E j \in Jobs : LeaseTimeout(j)
         /\ UNCHANGED worker \/ PollMerge
         /\ UNCHANGED jobs \/ PollMerge
            \/ \E j \in Jobs : CreateJob(j) \/ CancelQueued(j) \/ CancelActive(j) \/ LeaseTimeout(j)
         /\ UNCHANGED queues \/ \E j \in Jobs : CreateJob(j) \/ CancelQueued(j)
         /\ UNCHANGED poll \/ PollMerge \/ \E j \in Jobs : PollRead(j) \/ LeaseTimeout(j)
         /\ UNCHANGED <<rows, snap>> \/ Persisting \/ \E j \in Jobs : CreateJob(j) \/ LeaseTimeout(j)
<1> USE DEF queueVars, pendingVars, storeVars, brokerVars, readVars, countVars, PersistJob
<1>1. CASE \E j \in Jobs : CreateJob(j) \/ PollRead(j) \/ CancelQueued(j) \/ CancelActive(j) \/ LeaseTimeout(j)
  BY <1>1 DEF CreateJob, PollRead, CancelQueued, MarkCancelled, CancelActive, LeaseTimeout
<1>2. CASE PollMerge \/ Persisting \/ \E s \in Sessions : LockTimeout(s)
  BY <1>2 DEF PollMerge, Persisting, TakeSnapshot, SaveSnapshot, LockTimeout
<1> QED BY <1>1, <1>2 DEF OtherStep

----------------------------------------------------------------------------
(* What the steps do with jobs *)

\* A step that writes one job does nothing with the others.
LEMMA OneJobSteps ==
  ASSUME NEW j \in Jobs, JobStep(j), \A i \in Jobs \ {j} : jobs'[i] = jobs[i]
  PROVE  \A i \in Jobs : JobStep(i)
BY DEF JobStep, Stays, Alike

\* A step that leaves the jobs alone does nothing with any.
LEMMA NoJobSteps ==
  ASSUME UNCHANGED jobs
  PROVE  \A i \in Jobs : JobStep(i) /\ Stays(i)
BY DEF JobStep, Stays, Alike

\* A merge replaces the job by the copy or leaves it, and a worker that had captured the job
\* keeps its object.
LEMMA MergeSteps ==
  ASSUME TypeOK, NEW j \in Jobs, NEW rec \in Copies(j), Merge(j, rec)
  PROVE  /\ \A i \in Jobs : JobStep(i)
         /\ \A w \in Workers : /\ worker'[w].pc = worker[w].pc /\ worker'[w].beat = worker[w].beat
                               /\ SameDelivery(worker'[w], worker[w])
         /\ \A w \in Workers : BeliefStep(w)
<1>0. jobs \in [Jobs -> JobRecord] /\ worker \in [Workers -> Worker]  BY StateTypes
<1>1. CASE UNCHANGED <<jobs, worker>>
  BY <1>1, NoJobSteps DEF SameDelivery, BeliefStep, Believes, Executing, Shared, Busy
<1>2. CASE PersistedWins(jobs[j], rec) /\ Replace(j, rec)
  <2>1. jobs'[j] = rec /\ \A i \in Jobs \ {j} : jobs'[i] = jobs[i]  BY <1>2, ReplaceFrame
  <2>2. Replaced(j)  BY <1>2, <2>1 DEF Replaced
  <2>3. \A i \in Jobs : JobStep(i)  BY <2>1, <2>2, OneJobSteps DEF JobStep
  <2>4. ASSUME NEW w \in Workers
        PROVE  /\ worker'[w].pc = worker[w].pc /\ worker'[w].beat = worker[w].beat
               /\ SameDelivery(worker'[w], worker[w])
               /\ worker'[w] = worker[w] \/ (worker[w].pc = "begin" /\ worker[w].job = j)
    <3>1. \/ worker'[w] = worker[w]
          \/ /\ worker[w].pc = "begin" /\ worker[w].job = j
             /\ worker'[w] = [worker[w] EXCEPT !.obj = jobs[j]]
      BY <1>2 DEF Replace
    <3>2. worker[w] \in Worker  BY <1>0
    <3> QED BY <3>1, <3>2 DEF SameDelivery, Worker
  <2>5. ASSUME NEW w \in Workers PROVE BeliefStep(w)
    BY <2>2, <2>4 DEF BeliefStep, Believes, Executing, Shared, Busy
  <2> QED BY <2>3, <2>4, <2>5
<1> QED BY <1>1, <1>2 DEF Merge

\* An admission is one of the job the scheduler has selected.
LEMMA AdmissionSteps ==
  ASSUME TypeOK, AdmitJob
  PROVE  Admitted(sched.job) /\ \A i \in Jobs \ {sched.job} : jobs'[i] = jobs[i]
<1> DEFINE j == sched.job
<1>0. /\ jobs \in [Jobs -> JobRecord] /\ tokens \in [Jobs -> Nat]
      /\ sched \in Scheduler /\ j \in Jobs
  BY StateTypes DEF AdmitJob, TypeOK
<1>1. /\ jobs'[j] = [status |-> "admitted", attempt |-> jobs[j].attempt + 1,
                     fence |-> jobs[j].fence + 1, token |-> tokens[j] + 1, lease |-> "live"]
      /\ jobs[j].status = "queued" /\ tokens'[j] = tokens[j] + 1
      /\ \A i \in Jobs \ {j} : jobs'[i] = jobs[i]
  BY <1>0 DEF AdmitJob, Admissible
<1>2. sched'.pc = "stage" /\ sched'.job = j /\ sched'.rec = jobs'[j]
  BY <1>0, <1>1 DEF AdmitJob, Scheduler
<1> QED BY <1>1, <1>2 DEF Admitted

\* What the scheduler does with jobs.
LEMMA SchedulerJobSteps ==
  ASSUME TypeOK, OutcomeInv, SchedulerStep
  PROVE  \A i \in Jobs : JobStep(i)
<1> DEFINE j == sched.job
<1>0. /\ jobs \in [Jobs -> JobRecord] /\ sched \in Scheduler
      /\ sched.pc \notin {"idle", "sweep"} => j \in Jobs /\ Exists(jobs[j])
      /\ tokens \in [Jobs -> Nat]
      /\ IdleScheduler.pc = "idle"
      /\ \A p \in SchedulerPC : SchedulerAt(p) => sched'.pc = p
  BY StateTypes, Places DEF OutcomeInv, JobsKnown, Engaged, TypeOK
<1>1. CASE MergeLatest
  <2>1. j \in Jobs /\ Merge(j, sched.rec) /\ sched.pc = "merge"  BY <1>0, <1>1 DEF MergeLatest
  <2>2. sched.rec \in Copies(j)  BY <2>1, CopyRecords
  <2> HIDE DEF j
  <2> QED BY <2>1, <2>2, MergeSteps
<1>2. CASE AdmitJob
  <2>0. j \in Jobs  BY <1>0, <1>2 DEF AdmitJob
  <2>1. Admitted(j) /\ \A i \in Jobs \ {j} : jobs'[i] = jobs[i]  BY <1>2, AdmissionSteps
  <2> HIDE DEF j
  <2> QED BY <2>0, <2>1, OneJobSteps DEF JobStep
<1>3. CASE HandleDispatchFailure
  <2>0. j \in Jobs /\ Exists(jobs[j]) /\ jobs[j] \in JobRecord  BY <1>0, <1>3 DEF HandleDispatchFailure
  <2> DEFINE target == IF jobs[j].attempt >= MaxAttempts THEN "failed" ELSE "queued"
             st == IF CanMove(jobs[j].status, target) THEN target ELSE jobs[j].status
  <2>1. jobs' = [jobs EXCEPT ![j] = Withdrawn(@, st)]  BY <1>3 DEF HandleDispatchFailure
  <2>4. st = jobs[j].status \/ (jobs[j].status \in Live /\ st \in {"queued", "failed"})
    BY <2>0 DEF CanMove, Successors, Exists, JobRecord, Live, Terminal
  <2> HIDE DEF st
  <2>2. jobs'[j] = Withdrawn(jobs[j], st) /\ \A i \in Jobs \ {j} : jobs'[i] = jobs[i]
    BY <1>0, <2>0, <2>1
  <2>3. jobs'[j].status = st /\ jobs'[j].token = 0 /\ jobs'[j].fence = jobs[j].fence
    BY <2>0, <2>2 DEF Withdrawn, JobRecord
  <2>5. sched'.pc # "stage"  BY <1>0, <1>3 DEF HandleDispatchFailure, SchedulerPC
  <2>6. GivenBack(j)  BY <2>0, <2>3, <2>4, <2>5 DEF GivenBack
  <2> HIDE DEF j
  <2> QED BY <2>0, <2>2, <2>6, OneJobSteps DEF JobStep
<1>4. ASSUME NEW i \in Jobs, FailStalled(i) \/ RequeueStalled(i) PROVE \A n \in Jobs : JobStep(n)
  <2>1. PICK st \in {"queued", "failed"} : jobs' = [jobs EXCEPT ![i] = Withdrawn(@, st)]
    BY <1>4 DEF FailStalled, RequeueStalled
  <2>2. jobs'[i] = Withdrawn(jobs[i], st) /\ \A n \in Jobs \ {i} : jobs'[n] = jobs[n]
    BY <1>0, <2>1
  <2>3. jobs'[i].status = st /\ jobs'[i].token = 0 /\ jobs'[i].fence = jobs[i].fence
    BY <1>0, <2>2 DEF Withdrawn, JobRecord
  <2>4. Exists(jobs[i]) /\ jobs[i].status \in Live
    BY <1>4 DEF FailStalled, RequeueStalled, Stalled, Leased, Exists, Live
  <2>5. sched'.pc # "stage"
    <3>1. sched'.pc \in {"idle", "sweep", "sweepunlock"}
      BY <1>0, <1>4 DEF FailStalled, RequeueStalled, Stalled, SweptFrom, Scheduler
    <3> QED BY <3>1
  <2>6. GivenBack(i)  BY <2>3, <2>4, <2>5 DEF GivenBack
  <2> QED BY <2>2, <2>6, OneJobSteps DEF JobStep
<1> QED BY <1>1, <1>2, <1>3, <1>4, SchedulerFootprint, NoJobSteps

\* What requests and expiring leases do with jobs.
LEMMA OtherJobSteps ==
  ASSUME TypeOK, OtherStep
  PROVE  \A i \in Jobs : JobStep(i)
<1>0. jobs \in [Jobs -> JobRecord] /\ rows \in [Jobs -> JobRecord]  BY StateTypes
<1>1. CASE PollMerge
  <2>1. PICK j \in Jobs : j = poll.job  BY <1>1, CopyTypes DEF PollMerge, TypeOK, Jobs
  <2>2. poll.rec \in Copies(j)  BY <2>1, CopyRecords
  <2> QED BY <1>1, <2>1, <2>2, MergeSteps DEF PollMerge
<1>2. ASSUME NEW j \in Jobs, CreateJob(j) PROVE \A i \in Jobs : JobStep(i)
  <2>1. Created(j) /\ \A i \in Jobs \ {j} : jobs'[i] = jobs[i]  BY <1>0, <1>2 DEF CreateJob, Created
  <2> QED BY <2>1, OneJobSteps DEF JobStep
<1>3. ASSUME NEW j \in Jobs, CancelQueued(j) \/ CancelActive(j) PROVE \A i \in Jobs : JobStep(i)
  <2>1. PICK st \in {"cancelled", "cancel_requested"} :
          /\ jobs' = [jobs EXCEPT ![j].status = st] /\ jobs[j].status \in Live
          /\ st = "cancelled" => jobs[j].status = "queued"
    BY <1>3 DEF CancelQueued, MarkCancelled, Finished, CancelActive, Live
  <2>2. /\ jobs'[j].status = st /\ jobs'[j].fence = jobs[j].fence /\ jobs'[j].token = jobs[j].token
        /\ \A i \in Jobs \ {j} : jobs'[i] = jobs[i]
    BY <1>0, <2>1 DEF JobRecord
  <2>3. Moved(j)  BY <2>1, <2>2 DEF Moved, Active, Terminal
  <2> QED BY <2>2, <2>3, OneJobSteps DEF JobStep
<1>4. ASSUME NEW j \in Jobs, LeaseTimeout(j) PROVE \A i \in Jobs : JobStep(i)
  <2>1. jobs'[j] = Aged(jobs[j]) /\ \A i \in Jobs \ {j} : jobs'[i] = jobs[i]
    BY <1>0, <1>4 DEF LeaseTimeout
  <2>2. Stays(j)  BY <1>0, <2>1, AgedRecord DEF Stays, Alike
  <2> QED BY <2>1, <2>2, OneJobSteps DEF JobStep
<1> QED BY <1>1, <1>2, <1>3, <1>4, OtherFootprint, NoJobSteps

\* What a worker does with its job: it starts it, ends it, or gives it back, with the token of
\* the job, or with a job that has none.
LEMMA WorkerJobSteps ==
  ASSUME TypeOK, OutcomeInv, NEW w \in Workers, WorkerStep(w)
  PROVE  \A i \in Jobs : JobStep(i)
<1> DEFINE j == worker[w].job
<1>0. /\ jobs \in [Jobs -> JobRecord] /\ worker \in [Workers -> Worker] /\ worker[w] \in Worker
      /\ worker[w].pc # "idle" => j \in Jobs
  BY StateTypes
\* The worker gives its job another status and goes where it believes nothing.
<1>a. ASSUME j \in Jobs, NEW st \in Active \cup Terminal, Finished(j, st), Acts(w, j),
             jobs[j].status \in Live, st \in Terminal => ~Believes(w)'
      PROVE  \A i \in Jobs : JobStep(i)
  <2>1. /\ jobs'[j].status = st /\ jobs'[j].fence = jobs[j].fence /\ jobs'[j].token = jobs[j].token
        /\ \A i \in Jobs \ {j} : jobs'[i] = jobs[i]
    BY <1>0, <1>a DEF Finished, JobRecord
  <2>2. Moved(j)  BY <1>a, <2>1 DEF Moved
  <2> QED BY <1>a, <2>1, <2>2, OneJobSteps DEF JobStep
<1>b. ASSUME NEW p \in {"release", "unlock"}, worker'[w].pc = p PROVE ~Believes(w)'
  BY <1>b DEF Believes, Executing
<1>c. ASSUME Executing(w), Holds(w), j \in Jobs
      PROVE  Acts(w, j) /\ jobs[j].status \in Active /\ jobs[j].status \in Live
  BY <1>c, StatusSets DEF Executing, Holds, Acts, Busy, Superseded, OutcomeInv, Believed, Believes
<1>d. {"succeeded", "failed", "cancelled"} \subseteq Terminal /\ "cancel_requested" \in Live
      /\ "admitted" \in Live /\ "running" \in Active
  BY DEF Terminal, Live, Active
<1>1. CASE TakeMessage(w)
  <2>1. PICK i \in Jobs : i = stream[1].job  BY <1>1, HeadTaken
  <2>2. Exists(rows[i])  BY <1>1, <2>1, HeadTaken DEF OutcomeInv, JobsKnown
  <2>3. /\ jobs'[i] = IF Exists(jobs[i]) THEN jobs[i] ELSE rows[i]
        /\ \A n \in Jobs \ {i} : jobs'[n] = jobs[n]
    BY <1>0, <1>1, <2>1, StateTypes DEF TakeMessage
  <2>4. CASE Exists(jobs[i])  BY <2>3, <2>4, OneJobSteps DEF JobStep, Stays, Alike
  <2>5. CASE ~Exists(jobs[i])
    <3>1. Replaced(i)  BY <2>2, <2>3, <2>5, CopyRecords DEF Replaced, PersistedWins
    <3> QED BY <2>3, <3>1, OneJobSteps DEF JobStep
  <2> QED BY <2>4, <2>5
<1>2. CASE BeginCancelled(w)
  <2>0. j \in Jobs  BY <1>0, <1>2 DEF BeginCancelled, CanStart, CanBegin
  <2>1. CASE Shared(w)
    <3>1. Finished(j, "cancelled") /\ Acts(w, j) /\ jobs[j].status = "cancel_requested"
      BY <1>2, <2>1 DEF BeginCancelled, CanStart, CanBegin, Captured, Acts, Busy
    <3>2. worker'[w].pc = "release"  BY <1>0, <1>2, WorkerRewrites DEF BeginCancelled
    <3> QED BY <1>a, <1>b, <1>d, <2>0, <3>1, <3>2
  <2>2. CASE ~Shared(w)  BY <1>2, <2>2, NoJobSteps DEF BeginCancelled
  <2> QED BY <2>1, <2>2
<1>3. CASE BeginRunning(w)
  <2>0. j \in Jobs  BY <1>0, <1>3 DEF BeginRunning, CanStart, CanBegin
  <2>1. CASE Shared(w)
    <3>1. Finished(j, "running") /\ Acts(w, j) /\ jobs[j].status = "admitted"
      BY <1>3, <2>1 DEF BeginRunning, CanStart, CanBegin, Captured, Acts, Busy, Finished
    <3> QED BY <1>a, <1>d, <2>0, <3>1, StatusSets
  <2>2. CASE ~Shared(w)  BY <1>3, <2>2, NoJobSteps DEF BeginRunning
  <2> QED BY <2>1, <2>2
<1>4. CASE Heartbeat(w)
  <2>0. j \in Jobs  BY <1>4, WorkerTypes, <1>0 DEF Heartbeat
  <2>1. UNCHANGED jobs \/ jobs' = [jobs EXCEPT ![j].lease = "live"]  BY <1>4 DEF Heartbeat
  <2>2. Stays(j) /\ \A i \in Jobs \ {j} : jobs'[i] = jobs[i]
    BY <1>0, <2>0, <2>1 DEF Stays, Alike, JobRecord
  <2> HIDE DEF j
  <2> QED BY <2>0, <2>2, OneJobSteps DEF JobStep
<1>5. ASSUME NEW outcome \in {"succeeded", "failed"}, Publish(w, outcome)
      PROVE  \A i \in Jobs : JobStep(i)
  <2>0. j \in Jobs  BY <1>0, <1>5 DEF Publish
  <2>1. Finished(j, outcome) /\ Executing(w) /\ Holds(w)  BY <1>5 DEF Publish, Executing
  <2>2. worker'[w].pc = "release"  BY <1>0, <1>5, WorkerRewrites DEF Publish, WorkerAt
  <2> QED BY <1>a, <1>b, <1>c, <1>d, <2>0, <2>1, <2>2
<1>6. CASE EndCancelled(w)
  <2>0. j \in Jobs  BY <1>0, <1>6 DEF EndCancelled
  <2>1. Finished(j, "cancelled") /\ Executing(w) /\ Holds(w)
    BY <1>6 DEF EndCancelled, MarkCancelled, Executing
  <2>2. worker'[w].pc = "release"  BY <1>0, <1>6, WorkerRewrites DEF EndCancelled, WorkerAt
  <2> QED BY <1>a, <1>b, <1>c, <1>d, <2>0, <2>1, <2>2
<1>7. CASE FailJob(w)
  <2>0. j \in Jobs  BY <1>0, <1>7 DEF FailJob
  <2>1. UNCHANGED jobs \/ Finished(j, "failed")  BY <1>7 DEF FailJob
  <2>2. Executing(w) /\ Holds(w)  BY <1>7 DEF FailJob, Executing
  <2>3. worker'[w].pc = "release"  BY <1>0, <1>7, WorkerRewrites DEF FailJob
  <2> QED BY <1>a, <1>b, <1>c, <1>d, <2>0, <2>1, <2>2, <2>3, NoJobSteps
<1>8. CASE RetryCancelled(w)
  <2>0. j \in Jobs  BY <1>0, <1>8 DEF RetryCancelled
  <2>1. Finished(j, "cancelled") /\ Acts(w, j) /\ jobs[j].status = "cancel_requested"
    BY <1>8 DEF RetryCancelled, MarkCancelled, Retryable, Acts, Busy
  <2>2. worker'[w].pc = "unlock"  BY <1>0, <1>8, WorkerRewrites DEF RetryCancelled, WorkerAt
  <2> QED BY <1>a, <1>b, <1>d, <2>0, <2>1, <2>2
<1>9. CASE RetryDispatch(w)
  <2>0. j \in Jobs /\ Acts(w, j) /\ Leased(jobs[j])
    BY <1>0, <1>9 DEF RetryDispatch, Retryable, Acts, Busy
  <2>1. PICK st \in {"queued", "failed"} : jobs' = [jobs EXCEPT ![j] = Withdrawn(@, st)]
    BY <1>9 DEF RetryDispatch
  <2>2. jobs'[j] = Withdrawn(jobs[j], st) /\ \A n \in Jobs \ {j} : jobs'[n] = jobs[n]
    BY <1>0, <2>0, <2>1
  <2>3. jobs'[j].status = st /\ jobs'[j].token = 0 /\ jobs'[j].fence = jobs[j].fence
    BY <1>0, <2>0, <2>2 DEF Withdrawn, JobRecord
  <2>4. GivenBack(j)  BY <2>0, <2>3 DEF GivenBack, Leased, Exists, Live
  <2> HIDE DEF j
  <2> QED BY <2>0, <2>2, <2>4, OneJobSteps DEF JobStep
<1> QED BY <1>1, <1>2, <1>3, <1>4, <1>5, <1>6, <1>7, <1>8, <1>9, WorkerFootprint, NoJobSteps

----------------------------------------------------------------------------
(* Where the tasks go *)

\* Who comes to merge, to stage or to enqueue comes from the step before, and who takes up a
\* job selects it or sweeps it.
LEMMA SchedulerPlaces ==
  ASSUME TypeOK, SchedulerStep
  PROVE  /\ sched'.pc = "merge" => LoadLatest
         /\ sched'.pc = "stage" => AdmitJob
         /\ sched'.pc = "enqueue" => StageDispatch /\ sched'.rec = sched.rec
         /\ Engaged' => \/ Engaged /\ sched'.job = sched.job
                        \/ \E k \in Keys : SelectCandidate(k) /\ sched'.job = Head(queues[k])
                        \/ \E j \in Jobs : RequeueStalled(j) /\ sched'.job = j
<1>0. sched \in Scheduler /\ IdleScheduler.pc = "idle"  BY StateTypes, Places
<1>1. CASE SelectNothing  BY <1>1 DEF SelectNothing, Engaged
<1>2. ASSUME NEW k \in Keys, SelectCandidate(k)
      PROVE  sched'.pc = "load" /\ sched'.job = Head(queues[k])
  BY <1>0, <1>2 DEF SelectCandidate, Scheduler
<1>3. CASE LoadLatest
  <2>1. sched'.pc = "merge" /\ sched'.job = sched.job /\ Engaged
    BY <1>0, <1>3 DEF LoadLatest, Scheduler, Engaged
  <2> QED BY <1>3, <2>1
<1>4. CASE MergeLatest
  <2>1. sched' = IdleScheduler \/ sched' = [sched EXCEPT !.pc = "acquire", !.rec = NoJob]
    BY <1>4 DEF MergeLatest
  <2>2. Engaged  BY <1>4 DEF MergeLatest, Engaged
  <2> QED BY <1>0, <2>1, <2>2 DEF Engaged, Scheduler
<1>5. CASE AdmitJob
  <2>1. sched'.pc = "stage" /\ sched'.job = sched.job /\ Engaged
    BY <1>0, <1>5 DEF AdmitJob, Scheduler, Engaged
  <2> QED BY <1>5, <2>1
<1>6. CASE StageDispatch
  <2>1. SchedulerAt("enqueue") \/ SchedulerAt("failed")  BY <1>6 DEF StageDispatch
  <2>2. Engaged  BY <1>6 DEF StageDispatch, Engaged
  <2> QED BY <1>6, <2>1, <2>2, Places DEF SchedulerPC
<1>7. CASE AcquireSession \/ AdmissionLost \/ EnqueueDispatch \/ MarkDispatchSent \/ DispatchFails
  <2>1. \E p \in {"admit", "reappend", "unlock", "mark", "finish", "failed"} : SchedulerAt(p)
    BY <1>7 DEF AcquireSession, AdmissionLost, EnqueueDispatch, MarkDispatchSent, DispatchFails
  <2>2. Engaged
    BY <1>7 DEF AcquireSession, AdmissionLost, EnqueueDispatch, MarkDispatchSent, DispatchFails, Engaged
  <2> QED BY <2>1, <2>2, Places DEF SchedulerPC
<1>8. CASE SessionBusy \/ FinishDispatch \/ SchedulerUnlock \/ LoadFails
  <2>1. sched' = IdleScheduler
    BY <1>8 DEF SessionBusy, FinishDispatch, SchedulerUnlock, LoadFails
  <2> QED BY <1>0, <2>1 DEF Engaged
<1>9. CASE HandleDispatchFailure
  <2>1. SchedulerAt("unlock") \/ sched' = IdleScheduler  BY <1>9 DEF HandleDispatchFailure
  <2>2. Engaged  BY <1>9 DEF HandleDispatchFailure, Engaged
  <2> QED BY <1>0, <2>1, <2>2, Places DEF SchedulerPC, Engaged
<1>10. CASE LoadStale \/ SweepUnlock \/ \E j \in Jobs : SkipStalled(j) \/ FailStalled(j)
  <2>0. \A j : sched.pc = "sweep" => SweptFrom(j).pc \in {"idle", "sweep"}
    BY <1>0 DEF SweptFrom, Scheduler
  <2>1. sched'.pc \in {"idle", "sweep"}
    <3>1. CASE LoadStale  BY <1>0, <3>1 DEF LoadStale, Scheduler
    <3>2. CASE \E j \in Jobs : SkipStalled(j) \/ FailStalled(j)
      BY <2>0, <3>2 DEF SkipStalled, FailStalled, Stalled
    <3>3. CASE SweepUnlock
      <4>1. sched.job \in Jobs  BY <3>3, StateTypes DEF SweepUnlock
      <4>2. SweptFrom(sched.job) \in Scheduler  BY <4>1, SweptType
      <4>3. PICK p \in {"idle", "sweep"} :
              sched' = [SweptFrom(sched.job) EXCEPT !.job = 0, !.pc = p]
        BY <3>3 DEF SweepUnlock
      <4> QED BY <4>2, <4>3 DEF Scheduler
    <3> QED BY <1>10, <3>1, <3>2, <3>3
  <2> QED BY <2>1 DEF Engaged
<1>11. ASSUME NEW j \in Jobs, RequeueStalled(j) PROVE sched'.pc = "sweepunlock" /\ sched'.job = j
  BY <1>0, <1>11 DEF RequeueStalled, Scheduler
<1> QED BY <1>1, <1>2, <1>3, <1>4, <1>5, <1>6, <1>7, <1>8, <1>9, <1>10, <1>11
        DEF SchedulerStep, Dispatching, Sweeping

\* A worker that does not take a message is busy, keeps its delivery as long as it is, and
\* believes no more than before unless it starts the job.
LEMMA WorkerPlaces ==
  ASSUME TypeOK, OutcomeInv, NEW w \in Workers, WorkerStep(w), ~TakeMessage(w)
  PROVE  /\ Busy(w) /\ \A v \in Workers \ {w} : worker'[v] = worker[v]
         /\ Busy(w)' => SameDelivery(worker'[w], worker[w])
         /\ worker'[w].beat => Busy(w)'
         /\ Believes(w)' => Believes(w) \/ (BeginRunning(w) /\ Shared(w))
<1>0. /\ worker \in [Workers -> Worker] /\ worker[w] \in Worker
      /\ IdleWorker.pc = "idle" /\ ~IdleWorker.beat
      /\ worker[w].beat => Busy(w)
  BY StateTypes DEF IdleWorker, OutcomeInv, JobsKnown
<1> DEFINE Ends == /\ Busy(w) /\ (\A v \in Workers \ {w} : worker'[v] = worker[v])
                   /\ \/ worker'[w] = IdleWorker
                      \/ /\ worker'[w].pc \in {"settle", "release", "retry", "discard", "unlock"}
                         /\ SameDelivery(worker'[w], worker[w])
<1>a. ASSUME Ends PROVE Busy(w)' => SameDelivery(worker'[w], worker[w])
  BY <1>0, <1>a DEF Busy
<1>b. ASSUME Ends PROVE (worker'[w].beat => Busy(w)') /\ ~Believes(w)'
  BY <1>0, <1>b DEF Busy, Believes, Executing
<1>1. CASE BeginIgnored(w) \/ BeginCancelled(w) \/ BeginIllegal(w)
  <2>1. PICK p \in {"settle", "release", "retry"}, b \in BOOLEAN :
           \/ worker' = [worker EXCEPT ![w] = [worker[w] EXCEPT !.pc = p, !.obj = NoJob]]
           \/ worker' = [worker EXCEPT ![w] = [worker[w] EXCEPT !.pc = p, !.obj = NoJob, !.raised = b]]
    BY <1>1 DEF BeginIgnored, BeginCancelled, BeginIllegal
  <2>2. Busy(w)  BY <1>1 DEF BeginIgnored, BeginCancelled, BeginIllegal, CanStart, CanBegin, Busy
  <2>3. /\ worker'[w].pc = p /\ SameDelivery(worker'[w], worker[w])
        /\ \A v \in Workers \ {w} : worker'[v] = worker[v]
    <3>1. CASE worker' = [worker EXCEPT ![w] = [worker[w] EXCEPT !.pc = p, !.obj = NoJob]]
      BY <1>0, <3>1, WorkerRewrites DEF SameDelivery
    <3>2. CASE worker' = [worker EXCEPT ![w] = [worker[w] EXCEPT !.pc = p, !.obj = NoJob, !.raised = b]]
      BY <1>0, <3>2 DEF SameDelivery, Worker
    <3> QED BY <2>1, <3>1, <3>2
  <2>4. Ends  BY <2>2, <2>3
  <2> QED BY <1>a, <1>b, <2>4
<1>2. CASE BeginRunning(w)
  <2>1. worker' = [worker EXCEPT ![w] = [worker[w] EXCEPT !.pc = "running", !.obj = NoJob, !.beat = TRUE]]
    BY <1>2 DEF BeginRunning
  <2>2. worker[w].pc = "begin"  BY <1>2 DEF BeginRunning, CanStart, CanBegin
  <2> QED BY <1>0, <1>2, <2>1, <2>2, WorkerRewrites DEF Busy, SameDelivery, Believes
<1>3. CASE Heartbeat(w)
  <2>1. PICK b : worker' = [worker EXCEPT ![w] = [worker[w] EXCEPT !.beat = b]]
    BY <1>3 DEF Heartbeat
  <2>2. Busy(w)  BY <1>0, <1>3 DEF Heartbeat
  <2> QED BY <1>0, <2>1, <2>2, WorkerRewrites DEF Busy, SameDelivery, Believes, Executing, Shared
<1>4. CASE RuntimeFails(w) \/ \E outcome \in {"succeeded", "failed"} : PublishIllegal(w, outcome)
  <2>1. WorkerAt(w, "failing") /\ worker[w].pc = "running"  BY <1>4 DEF RuntimeFails, PublishIllegal
  <2>2. worker' = [worker EXCEPT ![w] = [worker[w] EXCEPT !.pc = "failing"]]
    BY <2>1 DEF WorkerAt
  <2> QED BY <1>0, <2>1, <2>2, WorkerRewrites DEF Busy, SameDelivery, Believes, Executing
<1>5. CASE Ending(w) /\ ~(\E outcome \in {"succeeded", "failed"} : PublishIllegal(w, outcome))
  <2>1. Busy(w)
    BY <1>5 DEF Ending, Publish, EndCancelled, EndIgnored, FailJob, WorkerRelease, WorkerDiscard,
       Settle, RetryIgnored, RetryCancelled, RetryDispatch, WorkerUnlock, Busy
  <2>2. CASE Settle(w)
    <3>1. \/ worker' = [worker EXCEPT ![w] = IdleWorker]
          \/ worker' = [worker EXCEPT ![w] = [worker[w] EXCEPT !.pc = "retry"]]
      BY <2>2 DEF Settle
    <3>2. Ends  BY <1>0, <2>1, <3>1 DEF SameDelivery, Worker
    <3> QED BY <1>a, <1>b, <3>2
  <2>3. CASE RetryIgnored(w) \/ WorkerUnlock(w)
    <3>1. worker' = [worker EXCEPT ![w] = IdleWorker]  BY <2>3 DEF RetryIgnored, WorkerUnlock
    <3>2. Ends  BY <1>0, <2>1, <3>1
    <3> QED BY <1>a, <1>b, <3>2
  <2>4. CASE ~Settle(w) /\ ~RetryIgnored(w) /\ ~WorkerUnlock(w)
    <3>1. PICK p \in {"settle", "release", "retry", "discard", "unlock"}, b \in BOOLEAN :
            \/ worker' = [worker EXCEPT ![w] = [worker[w] EXCEPT !.pc = p]]
            \/ worker' = [worker EXCEPT ![w] = [worker[w] EXCEPT !.pc = p, !.raised = b]]
            \/ worker' = [worker EXCEPT ![w] = [worker[w] EXCEPT !.pc = p, !.beat = b]]
      <4>1. CASE \E outcome \in {"succeeded", "failed"} : Publish(w, outcome)
        BY <4>1 DEF Publish, WorkerAt
      <4>2. CASE EndCancelled(w) \/ EndIgnored(w) \/ RetryCancelled(w) \/ RetryDispatch(w)
        BY <4>2 DEF EndCancelled, EndIgnored, RetryCancelled, RetryDispatch, WorkerAt
      <4>3. CASE FailJob(w) \/ WorkerRelease(w)  BY <4>3 DEF FailJob, WorkerRelease
      <4>4. CASE WorkerDiscard(w)  BY <4>4 DEF WorkerDiscard, WorkerAt
      <4> QED BY <1>5, <2>4, <4>1, <4>2, <4>3, <4>4 DEF Ending
    <3>2. /\ worker'[w].pc = p /\ SameDelivery(worker'[w], worker[w])
          /\ \A v \in Workers \ {w} : worker'[v] = worker[v]
      <4>1. CASE worker' = [worker EXCEPT ![w] = [worker[w] EXCEPT !.pc = p]]
        BY <1>0, <4>1, WorkerRewrites DEF SameDelivery
      <4>2. CASE worker' = [worker EXCEPT ![w] = [worker[w] EXCEPT !.pc = p, !.raised = b]]
        BY <1>0, <4>2, WorkerRewrites DEF SameDelivery
      <4>3. CASE worker' = [worker EXCEPT ![w] = [worker[w] EXCEPT !.pc = p, !.beat = b]]
        BY <1>0, <4>3, WorkerRewrites DEF SameDelivery
      <4> QED BY <3>1, <4>1, <4>2, <4>3
    <3>3. Ends  BY <2>1, <3>2
    <3> QED BY <1>a, <1>b, <3>3
  <2> QED BY <2>2, <2>3, <2>4
<1>6. \A v \in Workers \ {w} : worker'[v] = worker[v]
  <2>1. \E x : worker' = [worker EXCEPT ![w] = x]
    <3>1. CASE Beginning(w) \/ Heartbeat(w) \/ RuntimeFails(w)
      BY <3>1 DEF Beginning, BeginIgnored, BeginCancelled, BeginIllegal, BeginRunning, Heartbeat,
         RuntimeFails, WorkerAt
    <3>2. CASE Ending(w)
      BY <3>2 DEF Ending, Publish, PublishIllegal, EndCancelled, EndIgnored, FailJob, WorkerRelease,
         WorkerDiscard, Settle, RetryIgnored, RetryCancelled, RetryDispatch, WorkerUnlock, WorkerAt
    <3> QED BY <3>1, <3>2 DEF WorkerStep
  <2> QED BY <1>0, <2>1
<1> QED BY <1>1, <1>2, <1>3, <1>4, <1>5, <1>6 DEF WorkerStep, Beginning
----------------------------------------------------------------------------
(* Queues *)

\* What a queue holds after a job was put at one of its ends or taken out.
LEMMA QueueContents ==
  ASSUME NEW q \in Seq(Jobs), NEW j \in Jobs
  PROVE  /\ \A n \in 1..Len(Append(q, j)) : Append(q, j)[n] = j \/ \E m \in 1..Len(q) : Append(q, j)[n] = q[m]
         /\ \A n \in 1..Len(<<j>> \o q) : (<<j>> \o q)[n] = j \/ \E m \in 1..Len(q) : (<<j>> \o q)[n] = q[m]
         /\ \A n \in 1..Len(RemoveFirst(q, j)) : \E m \in 1..Len(q) : RemoveFirst(q, j)[n] = q[m]
         /\ q # <<>> => \A n \in 1..Len(Tail(q)) : \E m \in 1..Len(q) : Tail(q)[n] = q[m]
<1>0. Len(q) \in Nat  OBVIOUS
<1>1. \A n \in 1..Len(Append(q, j)) : Append(q, j)[n] = j \/ \E m \in 1..Len(q) : Append(q, j)[n] = q[m]
  <2>1. /\ Len(Append(q, j)) = Len(q) + 1 /\ Append(q, j)[Len(q) + 1] = j
        /\ \A n \in 1..Len(q) : Append(q, j)[n] = q[n]
    BY AppendProperties
  <2>2. \A n \in 1..Len(q) + 1 : n \in 1..Len(q) \/ n = Len(q) + 1  BY <1>0
  <2> QED BY <2>1, <2>2
<1>2. \A n \in 1..Len(<<j>> \o q) : (<<j>> \o q)[n] = j \/ \E m \in 1..Len(q) : (<<j>> \o q)[n] = q[m]
  <2> DEFINE a == <<j>>
  <2>1. a \in Seq(Jobs) /\ Len(a) = 1 /\ a[1] = j  OBVIOUS
  <2> HIDE DEF a
  <2> SUFFICES ASSUME NEW n \in 1..Len(a \o q)
               PROVE  (a \o q)[n] = j \/ \E m \in 1..Len(q) : (a \o q)[n] = q[m]
    BY DEF a
  <2>2. /\ Len(a \o q) = 1 + Len(q)
        /\ \A i \in 1..1 + Len(q) : (a \o q)[i] = IF i <= 1 THEN a[i] ELSE q[i - 1]
    BY <2>1, ConcatProperties
  <2>3. n = 1 \/ n - 1 \in 1..Len(q)  BY <1>0, <2>2
  <2>4. n \in 1..1 + Len(q)  BY <2>2
  <2>5. CASE n = 1  BY <2>1, <2>2, <2>4, <2>5
  <2>6. CASE n # 1
    <3>1. ~(n <= 1) /\ n - 1 \in 1..Len(q)  BY <2>3, <2>4, <2>6
    <3> QED BY <2>2, <2>4, <3>1
  <2> QED BY <2>5, <2>6
<1>3. \A n \in 1..Len(RemoveFirst(q, j)) : \E m \in 1..Len(q) : RemoveFirst(q, j)[n] = q[m]
  <2>1. CASE RemoveFirst(q, j) = q  BY <2>1
  <2>2. ASSUME NEW p \in 1..Len(q), Len(RemoveFirst(q, j)) = Len(q) - 1,
               \A i \in 1..Len(q) - 1 : RemoveFirst(q, j)[i] = IF i < p THEN q[i] ELSE q[i + 1]
        PROVE  \A n \in 1..Len(RemoveFirst(q, j)) : \E m \in 1..Len(q) : RemoveFirst(q, j)[n] = q[m]
    <3>1. \A n \in 1..Len(q) - 1 : n \in 1..Len(q) /\ n + 1 \in 1..Len(q)  BY <1>0
    <3> QED BY <2>2, <3>1
  <2> QED BY <2>1, <2>2, RemoveFirstShape
<1>4. ASSUME q # <<>> PROVE \A n \in 1..Len(Tail(q)) : \E m \in 1..Len(q) : Tail(q)[n] = q[m]
  <2>1. Len(q) > 0 /\ Len(Tail(q)) = Len(q) - 1 /\ \A n \in 1..Len(q) - 1 : Tail(q)[n] = q[n + 1]
    BY <1>4
  <2>2. \A n \in 1..Len(q) - 1 : n + 1 \in 1..Len(q)  BY <1>0
  <2> QED BY <2>1, <2>2
<1> QED BY <1>1, <1>2, <1>3, <1>4

\* A step that rewrites one queue in these ways leaves known jobs in all of them.
LEMMA QueuesStayKnown ==
  ASSUME TypeOK, OutcomeInv, NEW j \in Jobs, Exists(jobs[j]) \/ Exists(jobs'[j]),
         NEW r, r = queues[KeyOf[j]] \/ r = Append(queues[KeyOf[j]], j) \/ r = <<j>> \o queues[KeyOf[j]]
           \/ r = RemoveFirst(queues[KeyOf[j]], j)
           \/ (queues[KeyOf[j]] # <<>> /\ r = Tail(queues[KeyOf[j]])),
         queues' = [queues EXCEPT ![KeyOf[j]] = r]
  PROVE  \A k \in Keys : \A n \in 1..Len(queues'[k]) :
           Exists(jobs[queues'[k][n]]) \/ Exists(jobs'[queues'[k][n]])
<1>0. /\ KeyOf[j] \in Keys /\ queues[KeyOf[j]] \in Seq(Jobs) /\ queues \in [Keys -> Seq(Jobs)]
      /\ \A k \in Keys : \A n \in 1..Len(queues[k]) : Exists(jobs[queues[k][n]])
  BY ScopeTypes DEF TypeOK, OutcomeInv, JobsKnown
<1>1. queues'[KeyOf[j]] = r /\ \A k \in Keys \ {KeyOf[j]} : queues'[k] = queues[k]  BY <1>0
<1>2. \A n \in 1..Len(r) : r[n] = j \/ \E m \in 1..Len(queues[KeyOf[j]]) : r[n] = queues[KeyOf[j]][m]
  <2>1. PICK q \in Seq(Jobs) : q = queues[KeyOf[j]]  BY <1>0
  <2>2. CASE r = q  BY <2>1, <2>2
  <2>3. CASE r = Append(q, j)  BY <2>1, <2>3, QueueContents
  <2>4. CASE r = <<j>> \o q  BY <2>1, <2>4, QueueContents
  <2>5. CASE r = RemoveFirst(q, j)  BY <2>1, <2>5, QueueContents
  <2>6. CASE q # <<>> /\ r = Tail(q)  BY <2>1, <2>6, QueueContents
  <2> QED BY <2>1, <2>2, <2>3, <2>4, <2>5, <2>6
<1>3. \A n \in 1..Len(r) : Exists(jobs[r[n]]) \/ Exists(jobs'[r[n]])  BY <1>0, <1>2
<1> QED BY <1>0, <1>1, <1>3

\* So does a job that goes back to the front of its queue.
LEMMA RequeueKnown ==
  ASSUME TypeOK, OutcomeInv, NEW j \in Jobs, Exists(jobs[j]), Requeue(j)
  PROVE  \A k \in Keys : \A n \in 1..Len(queues'[k]) :
           Exists(jobs[queues'[k][n]]) \/ Exists(jobs'[queues'[k][n]])
<1>1. CASE InQueue(j)
  <2>1. queues' = [queues EXCEPT ![KeyOf[j]] = queues[KeyOf[j]]]  BY <1>1 DEF Requeue
  <2> QED BY <2>1, QueuesStayKnown
<1>2. CASE ~InQueue(j)
  <2>1. queues' = [queues EXCEPT ![KeyOf[j]] = <<j>> \o queues[KeyOf[j]]]  BY <1>2 DEF Requeue
  <2> QED BY <2>1, QueuesStayKnown
<1> QED BY <1>1, <1>2
----------------------------------------------------------------------------
(* The effects of the steps *)

\* Nothing happens to what is copied of a job when no copy is made.
LEMMA QuietCopies ==
  ASSUME TypeOK, UNCHANGED <<rows, snap, poll>>, sched'.pc = "merge" => UNCHANGED sched,
         NEW j \in Jobs
  PROVE  CopyStep(j) /\ RowStep(j) /\ SnapStep(j)
<1>1. \A rec \in Copies(j)' : rec \in Copies(j)  BY DEF Copies
<1> QED BY <1>1 DEF CopyStep, RowStep, SnapStep, Alike

\* Who is busy with nothing new believes nothing new.
LEMMA SameBeliefs ==
  ASSUME NEW w \in Workers, worker'[w] = worker[w]
  PROVE  /\ BeliefStep(w)
         /\ Busy(w)' => Busy(w) /\ SameDelivery(worker'[w], worker[w])
         /\ (worker[w].beat => Busy(w)) => (worker'[w].beat => Busy(w)')
BY DEF BeliefStep, Believes, Executing, Shared, Busy, SameDelivery

\* What the scheduler writes over a row, and what it reads of one, are copies as they were.
LEMMA SchedulerCopySteps ==
  ASSUME TypeOK, OutcomeInv, SchedulerStep, NEW j \in Jobs
  PROVE  CopyStep(j) /\ RowStep(j) /\ SnapStep(j)
<1>0. UNCHANGED <<snap, poll>> /\ sched \in Scheduler /\ rows \in [Jobs -> JobRecord]
  BY SchedulerFootprint, StateTypes
<1>1. CASE LoadLatest
  <2>1. /\ UNCHANGED <<rows, snap, poll>> /\ sched'.rec = rows[sched.job] /\ sched'.job = sched.job
        /\ sched'.pc = "merge"
    BY <1>0, <1>1 DEF LoadLatest, storeVars, Scheduler
  <2>2. rows[j] \in Copies(j)  BY CopyRecords
  <2>3. \A rec \in Copies(j)' : rec \in Copies(j)  BY <2>1, <2>2 DEF Copies
  <2> QED BY <2>1, <2>3 DEF CopyStep, RowStep, SnapStep, Alike
<1>2. CASE StageDispatch
  <2>1. /\ sched.pc = "stage" /\ UNCHANGED <<jobs, snap, poll>>
        /\ UNCHANGED rows \/ rows' = [rows EXCEPT ![sched.job] = sched.rec]
        /\ sched'.pc \in {"enqueue", "failed"}
    BY <1>0, <1>2, Places DEF StageDispatch, SchedulerPC
  <2>2. sched.rec.status = "admitted" /\ Stays(j)
    BY <2>1, NoJobSteps DEF OutcomeInv, Staged
  <2>3. rows'[j] = rows[j] \/ (sched.job = j /\ rows'[j] = sched.rec)  BY <1>0, <2>1
  <2>4. \A rec \in Copies(j)' : rec \in Copies(j) \/ (sched.job = j /\ rec = sched.rec)
    BY <2>1, <2>3 DEF Copies
  <2> QED BY <2>1, <2>2, <2>3, <2>4 DEF CopyStep, RowStep, SnapStep, Alike
<1>3. CASE ~LoadLatest /\ ~StageDispatch
  BY <1>3, SchedulerFootprint, SchedulerPlaces, QuietCopies
<1> QED BY <1>1, <1>2, <1>3

\* The scheduler queues, persists and takes up jobs that are known.
LEMMA SchedulerKnows ==
  ASSUME TypeOK, OutcomeInv, SchedulerStep
  PROVE  /\ \A j \in Jobs : Exists(rows[j]) => Exists(rows'[j])
         /\ \A j \in dirty' : j \in dirty \/ Exists(jobs[j])
         /\ \A k \in Keys : \A n \in 1..Len(queues'[k]) :
              Exists(jobs[queues'[k][n]]) \/ Exists(jobs'[queues'[k][n]])
         /\ Engaged' => (Engaged /\ sched'.job = sched.job) \/ Exists(jobs[sched'.job])
<1>0. /\ sched \in Scheduler /\ rows \in [Jobs -> JobRecord]
      /\ Engaged => sched.job \in Jobs /\ Exists(jobs[sched.job])
      /\ \A k \in Keys : \A n \in 1..Len(queues[k]) : Exists(jobs[queues[k][n]])
  BY StateTypes DEF OutcomeInv, JobsKnown, Engaged
<1>a. ASSUME NEW j \in Jobs, Stalled(j) PROVE Exists(jobs[j])
  BY <1>a DEF Stalled, Leased, Exists
<1>1. \A j \in Jobs : Exists(rows[j]) => Exists(rows'[j])
  <2>1. CASE StageDispatch
    <3>1. UNCHANGED rows \/ rows' = [rows EXCEPT ![sched.job] = sched.rec]  BY <2>1 DEF StageDispatch
    <3>2. sched.rec.status = "admitted"  BY <2>1 DEF StageDispatch, OutcomeInv, Staged
    <3> QED BY <1>0, <3>1, <3>2 DEF Exists
  <2> QED BY <2>1, SchedulerFootprint
<1>2. \A j \in dirty' : j \in dirty \/ Exists(jobs[j])
  <2>1. CASE HandleDispatchFailure
    <3>1. dirty' = dirty \/ dirty' = dirty \cup {sched.job}
      BY <2>1 DEF HandleDispatchFailure, PersistJob, storeVars
    <3>2. Exists(jobs[sched.job])  BY <1>0, <2>1 DEF HandleDispatchFailure, Engaged
    <3> QED BY <3>1, <3>2
  <2>2. ASSUME NEW j \in Jobs, FailStalled(j) \/ RequeueStalled(j)
        PROVE  \A i \in dirty' : i \in dirty \/ Exists(jobs[i])
    <3>1. dirty' = dirty \cup {j} /\ Stalled(j)
      BY <2>2 DEF FailStalled, RequeueStalled, PersistJob
    <3> QED BY <1>a, <3>1
  <2>3. CASE ~HandleDispatchFailure /\ ~\E j \in Jobs : FailStalled(j) \/ RequeueStalled(j)
    <3>1. UNCHANGED dirty
      <4> USE DEF storeVars
      <4>1. CASE SelectNothing \/ \E k \in Keys : SelectCandidate(k)
        BY <4>1 DEF SelectNothing, SelectCandidate
      <4>2. CASE Dispatching \/ LoadFails \/ DispatchFails
        BY <2>3, <4>2 DEF Dispatching, LoadLatest, MergeLatest, AcquireSession, SessionBusy, AdmitJob,
           AdmissionLost, StageDispatch, EnqueueDispatch, MarkDispatchSent, FinishDispatch,
           SchedulerUnlock, LoadFails, DispatchFails
      <4>3. CASE Sweeping  BY <2>3, <4>3 DEF Sweeping, LoadStale, SkipStalled, SweepUnlock
      <4> QED BY <4>1, <4>2, <4>3 DEF SchedulerStep
    <3> QED BY <3>1
  <2> QED BY <2>1, <2>2, <2>3
<1>3. \A k \in Keys : \A n \in 1..Len(queues'[k]) :
        Exists(jobs[queues'[k][n]]) \/ Exists(jobs'[queues'[k][n]])
  <2>1. CASE UNCHANGED queues  BY <1>0, <2>1
  <2>2. CASE MergeLatest \/ AdmitJob \/ HandleDispatchFailure
    <3>1. PICK j \in Jobs : j = sched.job /\ Exists(jobs[j])
      BY <1>0, <2>2 DEF MergeLatest, AdmitJob, HandleDispatchFailure, Engaged
    <3>2. CASE MergeLatest
      <4>1. \/ UNCHANGED queues
            \/ queues' = [queues EXCEPT ![KeyOf[j]] = IF AtHead(j) THEN Tail(@) ELSE @]
        BY <3>1, <3>2 DEF MergeLatest, queueVars
      <4>2. CASE AtHead(j) /\ queues' = [queues EXCEPT ![KeyOf[j]] = Tail(queues[KeyOf[j]])]
        BY <3>1, <4>2, QueuesStayKnown DEF AtHead
      <4>3. CASE queues' = [queues EXCEPT ![KeyOf[j]] = queues[KeyOf[j]]]
        BY <3>1, <4>3, QueuesStayKnown
      <4> QED BY <2>1, <4>1, <4>2, <4>3
    <3>3. CASE AdmitJob
      <4>1. /\ queues' = [queues EXCEPT ![KeyOf[j]] = Tail(queues[KeyOf[j]])]
            /\ queues[KeyOf[j]] # <<>>
        BY <3>1, <3>3 DEF AdmitJob, Admissible, AtHead
      <4> QED BY <3>1, <4>1, QueuesStayKnown
    <3>4. CASE HandleDispatchFailure
      <4>1. UNCHANGED queues \/ queues' = [queues EXCEPT ![KeyOf[j]] = <<j>> \o queues[KeyOf[j]]]
        BY <3>1, <3>4 DEF HandleDispatchFailure, queueVars
      <4> QED BY <2>1, <3>1, <4>1, QueuesStayKnown
    <3> QED BY <2>2, <3>2, <3>3, <3>4
  <2>3. ASSUME NEW j \in Jobs, RequeueStalled(j)
        PROVE  \A k \in Keys : \A n \in 1..Len(queues'[k]) :
                 Exists(jobs[queues'[k][n]]) \/ Exists(jobs'[queues'[k][n]])
    <3>1. Exists(jobs[j]) /\ Requeue(j)  BY <1>a, <2>3 DEF RequeueStalled
    <3> QED BY <3>1, RequeueKnown
  <2> QED BY <2>1, <2>2, <2>3, SchedulerFootprint
<1>4. Engaged' => (Engaged /\ sched'.job = sched.job) \/ Exists(jobs[sched'.job])
  <2>1. ASSUME NEW k \in Keys, SelectCandidate(k), sched'.job = Head(queues[k])
        PROVE  Exists(jobs[sched'.job])
    <3>1. queues[k] # <<>> /\ queues[k] \in Seq(Jobs)  BY <2>1 DEF SelectCandidate, Eligible, TypeOK
    <3>2. Head(queues[k]) = queues[k][1] /\ 1 \in 1..Len(queues[k])  BY <3>1
    <3> QED BY <1>0, <2>1, <3>2
  <2>2. ASSUME NEW j \in Jobs, RequeueStalled(j), sched'.job = j PROVE Exists(jobs[sched'.job])
    BY <1>a, <2>2 DEF RequeueStalled
  <2> QED BY <2>1, <2>2, SchedulerPlaces
<1> QED BY <1>1, <1>2, <1>3, <1>4

\* A step of the scheduler has these effects.
LEMMA SchedulerEffects ==
  ASSUME TypeOK, OutcomeInv, SchedulerStep, env'.crashes = env.crashes
  PROVE  Effects
<1>0. /\ UNCHANGED <<snap, poll, replay, finals>>
      /\ UNCHANGED tokens \/ AdmitJob
      /\ UNCHANGED stream \/ EnqueueDispatch
      /\ UNCHANGED worker \/ MergeLatest
      /\ \A i \in Jobs : JobStep(i)
  BY SchedulerFootprint, SchedulerJobSteps
<1>1. replay'.job = 0  BY <1>0 DEF OutcomeInv
<1>2. \A j \in Jobs : CountStep(j)
  <2>1. ASSUME NEW j \in Jobs PROVE tokens[j] <= tokens'[j]
    <3>1. tokens \in [Jobs -> Nat]  BY DEF TypeOK
    <3>2. CASE UNCHANGED tokens  BY <3>1, <3>2
    <3>3. CASE AdmitJob
      <4>1. tokens' = [tokens EXCEPT ![sched.job] = @ + 1]  BY <3>3 DEF AdmitJob
      <4> QED BY <3>1, <4>1
    <3> QED BY <1>0, <3>2, <3>3
  <2> QED BY <1>0, <2>1 DEF CountStep
<1>3. /\ \A w \in Workers : BeliefStep(w)
      /\ \A w \in Workers : Busy(w)' => Busy(w) /\ SameDelivery(worker'[w], worker[w])
      /\ \A w \in Workers : worker'[w].beat => Busy(w)'
  <2>0. \A w \in Workers : worker[w].beat => Busy(w)  BY DEF OutcomeInv, JobsKnown
  <2>1. CASE UNCHANGED worker  BY <2>0, <2>1, SameBeliefs
  <2>2. CASE MergeLatest
    <3>1. PICK j \in Jobs : j = sched.job  BY <2>2, StateTypes DEF MergeLatest
    <3>2. sched.rec \in Copies(j) /\ Merge(j, sched.rec)
      BY <2>2, <3>1, CopyRecords DEF MergeLatest
    <3> QED BY <2>0, <3>2, MergeSteps DEF Busy
  <2> QED BY <1>0, <2>1, <2>2
<1>4. DeliveryStep  BY <1>0, <1>3 DEF DeliveryStep, DeliveriesStay
<1>5. StageStep
  <2>1. ASSUME sched'.pc = "stage"
        PROVE  /\ sched.job \in Jobs /\ sched'.job = sched.job
               /\ Admitted(sched.job) /\ DeliveriesStay
    <3>1. AdmitJob  BY <2>1, SchedulerPlaces
    <3>2. sched.job \in Jobs /\ sched \in Scheduler /\ jobs \in [Jobs -> JobRecord]
          /\ tokens \in [Jobs -> Nat]
      BY <3>1, StateTypes DEF AdmitJob, TypeOK
    <3>3. UNCHANGED <<stream, worker>>  BY <3>1 DEF AdmitJob, brokerVars
    <3>4. sched'.job = sched.job  BY <3>1, <3>2 DEF AdmitJob, Scheduler
    <3>5. Admitted(sched.job)  BY <3>1, <3>2, AdmissionSteps
    <3> QED BY <1>3, <3>2, <3>3, <3>4, <3>5 DEF DeliveriesStay
  <2>2. ASSUME sched'.pc = "enqueue"
        PROVE  sched.pc = "stage" /\ sched'.job = sched.job /\ Alike(sched'.rec, sched.rec)
    <3>1. StageDispatch /\ sched'.rec = sched.rec  BY <2>2, SchedulerPlaces
    <3>2. SchedulerAt("enqueue") \/ SchedulerAt("failed")  BY <3>1 DEF StageDispatch
    <3> QED BY <3>1, <3>2, Places DEF StageDispatch, SchedulerPC, Alike
  <2> QED BY <2>1, <2>2 DEF StageStep
<1>6. KnownStep
  <2>1. snap'.job # 0 => Exists(snap'.rec) /\ snap'.job = snap.job
    BY <1>0 DEF OutcomeInv, JobsKnown
  <2> QED BY <1>3, <2>1, SchedulerKnows DEF KnownStep
<1> QED BY <1>0, <1>1, <1>2, <1>3, <1>4, <1>5, <1>6, SchedulerCopySteps DEF Effects

\* A step of a worker has these effects.
LEMMA WorkerEffects ==
  ASSUME TypeOK, OutcomeInv, NEW w \in Workers, WorkerStep(w), env'.crashes = env.crashes
  PROVE  Effects
<1> DEFINE j == worker[w].job
<1>0. /\ UNCHANGED <<sched, rows, snap, poll, replay, tokens>>
      /\ UNCHANGED stream \/ TakeMessage(w)
      /\ UNCHANGED queues \/ RetryDispatch(w)
      /\ UNCHANGED finals \/ \E outcome \in {"succeeded", "failed"} : Publish(w, outcome)
      /\ \A i \in Jobs : JobStep(i)
      /\ Busy(w) => j \in Jobs /\ Exists(jobs[j])
      /\ worker[w].beat => Busy(w)
  BY WorkerFootprint, WorkerJobSteps, StateTypes DEF OutcomeInv, JobsKnown, Busy
<1>1. replay'.job = 0  BY <1>0 DEF OutcomeInv
<1>2. \A i \in Jobs : CopyStep(i) /\ RowStep(i) /\ SnapStep(i)  BY <1>0, QuietCopies
<1>3. \A i \in Jobs : CountStep(i)
  <2>0. tokens \in [Jobs -> Nat] /\ finals \in [Jobs -> Nat] /\ jobs \in [Jobs -> JobRecord]
    BY DEF TypeOK
  <2>1. ASSUME NEW outcome \in {"succeeded", "failed"}, Publish(w, outcome)
        PROVE  \A i \in Jobs : finals'[i] = finals[i] \/
                 (finals'[i] = finals[i] + 1 /\ jobs[i].status \in Live /\ jobs'[i].status \in Terminal)
    <3>1. Busy(w) /\ Executing(w) /\ Holds(w) /\ Finished(j, outcome)
      BY <2>1 DEF Publish, Busy, Executing
    <3>2. jobs[j].status \in Live
      BY <3>1, StatusSets DEF OutcomeInv, Believed, Believes
    <3>3. jobs'[j].status = outcome  BY <1>0, <2>0, <3>1 DEF Finished, JobRecord
    <3>4. outcome \in Terminal  BY DEF Terminal
    <3>5. finals' = [finals EXCEPT ![j] = IF outcome = "succeeded" THEN @ + 1 ELSE @]
      BY <2>1 DEF Publish
    <3> QED BY <1>0, <2>0, <3>1, <3>2, <3>3, <3>4, <3>5
  <2> QED BY <1>0, <2>0, <2>1 DEF CountStep
<1>4. CASE TakeMessage(w)
  <2>1. /\ worker'[w].pc = "begin" /\ worker'[w].obj = NoJob /\ ~worker'[w].beat
        /\ \A v \in Workers \ {w} : worker'[v] = worker[v]
    BY <1>4, HeadTaken
  <2>2. UNCHANGED <<queues, dirty>>  BY <1>4 DEF TakeMessage, queueVars, storeVars
  <2>3. ~Believes(w)' /\ Busy(w)'  BY <2>1 DEF Believes, Executing, Shared, Exists, NoJob, Busy
  <2>4. \A v \in Workers : BeliefStep(v) /\ (worker'[v].beat => Busy(v)')
    <3>1. BeliefStep(w)  BY <2>3 DEF BeliefStep
    <3>2. \A v \in Workers : worker[v].beat => Busy(v)  BY DEF OutcomeInv, JobsKnown
    <3> QED BY <2>1, <3>1, <3>2, SameBeliefs
  <2>5. KnownStep  BY <1>0, <2>2, <2>4 DEF KnownStep, OutcomeInv, JobsKnown, Engaged
  <2>6. DeliveryStep  BY <1>4 DEF DeliveryStep
  <2>7. StageStep  BY <1>0 DEF StageStep, Alike
  <2> QED BY <1>0, <1>1, <1>2, <1>3, <2>4, <2>5, <2>6, <2>7 DEF Effects
<1>5. CASE ~TakeMessage(w)
  <2>1. /\ Busy(w) /\ \A v \in Workers \ {w} : worker'[v] = worker[v]
        /\ Busy(w)' => SameDelivery(worker'[w], worker[w])
        /\ worker'[w].beat => Busy(w)'
        /\ Believes(w)' => Believes(w) \/ (BeginRunning(w) /\ Shared(w))
    BY <1>5, WorkerPlaces
  <2>2. \A v \in Workers \ {w} : worker[v].beat => Busy(v)  BY DEF OutcomeInv, JobsKnown
  <2>3. DeliveryStep
    <3>1. \A v \in Workers : Busy(v)' => Busy(v) /\ SameDelivery(worker'[v], worker[v])
      BY <2>1, SameBeliefs
    <3> QED BY <1>0, <1>5, <3>1 DEF DeliveryStep, DeliveriesStay
  <2>4. \A v \in Workers : BeliefStep(v)
    <3>1. ASSUME BeginRunning(w), Shared(w) PROVE jobs'[j].status \in Active
      <4>1. jobs' = [jobs EXCEPT ![j].status = "running"]  BY <3>1 DEF BeginRunning
      <4>2. jobs \in [Jobs -> JobRecord]  BY StateTypes
      <4> QED BY <1>0, <2>1, <4>1, <4>2 DEF JobRecord, Active
    <3>2. Believes(w)' => Busy(w)'  BY DEF Believes, Executing, Busy
    <3>3. BeliefStep(w)  BY <2>1, <3>1, <3>2 DEF BeliefStep
    <3> QED BY <2>1, <3>3, SameBeliefs
  <2>5. dirty' \subseteq dirty \cup {j}
    <3> USE DEF storeVars, PersistJob
    <3>1. CASE Beginning(w) \/ Heartbeat(w) \/ RuntimeFails(w)
      BY <1>5, <3>1 DEF Beginning, BeginIgnored, BeginCancelled, BeginIllegal, BeginRunning,
         Heartbeat, RuntimeFails
    <3>2. CASE Ending(w)
      BY <3>2 DEF Ending, Publish, PublishIllegal, EndCancelled, MarkCancelled, EndIgnored, FailJob,
         WorkerRelease, WorkerDiscard, Settle, RetryIgnored, RetryCancelled, RetryDispatch, WorkerUnlock
    <3> QED BY <3>1, <3>2 DEF WorkerStep
  <2>6. \A k \in Keys : \A n \in 1..Len(queues'[k]) :
          Exists(jobs[queues'[k][n]]) \/ Exists(jobs'[queues'[k][n]])
    <3>1. UNCHANGED queues \/ Requeue(j)  BY <1>0 DEF RetryDispatch, queueVars
    <3>2. CASE UNCHANGED queues  BY <3>2 DEF OutcomeInv, JobsKnown
    <3>3. CASE Requeue(j)
      <4> HIDE DEF j
      <4> QED BY <1>0, <2>1, <3>3, RequeueKnown
    <3> QED BY <3>1, <3>2, <3>3
  <2>7. KnownStep
    <3>1. Exists(jobs[j])  BY <1>0, <2>1
    <3>2. \A v \in Workers : worker'[v].beat => Busy(v)'  BY <2>1, <2>2 DEF Busy
    <3> QED BY <1>0, <2>5, <2>6, <3>1, <3>2 DEF KnownStep, OutcomeInv, JobsKnown, Engaged
  <2>8. StageStep  BY <1>0 DEF StageStep, Alike
  <2> QED BY <1>0, <1>1, <1>2, <1>3, <2>3, <2>4, <2>7, <2>8 DEF Effects
<1> QED BY <1>4, <1>5

\* A lease that runs out changes no status, no fence and no token.
LEMMA TimeoutEffects ==
  ASSUME TypeOK, OutcomeInv, NEW j \in Jobs, LeaseTimeout(j)
  PROVE  /\ \A i \in Jobs : Alike(rows'[i], rows[i])
         /\ snap'.job = snap.job /\ Alike(snap'.rec, snap.rec)
         /\ poll'.job = poll.job /\ Alike(poll'.rec, poll.rec)
         /\ sched'.pc = sched.pc /\ sched'.job = sched.job /\ Alike(sched'.rec, sched.rec)
         /\ UNCHANGED <<queues, dirty, stream, worker, replay, tokens, finals>>
<1> USE DEF queueVars, brokerVars
<1>0. /\ rows \in [Jobs -> JobRecord] /\ sched \in Scheduler /\ sched.rec \in JobRecord
      /\ snap \in Copy /\ poll \in Copy /\ snap.rec \in JobRecord /\ poll.rec \in JobRecord
      /\ replay.job # j
  BY StateTypes, CopyTypes, JobNumbers DEF TypeOK, OutcomeInv
<1>1. \A r \in JobRecord : Alike(Aged(r), r)  BY AgedRecord DEF Alike
<1>2. \A r \in JobRecord : Alike(r, r)  BY DEF Alike
<1>3. \A i \in Jobs : Alike(rows'[i], rows[i])
  <2>1. \A i \in Jobs : rows'[i] \in {rows[i], Aged(rows[i])}  BY <1>0 DEF LeaseTimeout
  <2> QED BY <1>0, <1>1, <1>2, <2>1
<1>4. snap'.job = snap.job /\ Alike(snap'.rec, snap.rec)
  <2>1. snap' = snap \/ snap' = [snap EXCEPT !.rec = Aged(snap.rec)]  BY DEF LeaseTimeout
  <2>2. snap'.job = snap.job /\ snap'.rec \in {snap.rec, Aged(snap.rec)}  BY <1>0, <2>1 DEF Copy
  <2> QED BY <1>0, <1>1, <1>2, <2>2
<1>5. poll'.job = poll.job /\ Alike(poll'.rec, poll.rec)
  <2>1. poll' = poll \/ poll' = [poll EXCEPT !.rec = Aged(poll.rec)]  BY DEF LeaseTimeout
  <2>2. poll'.job = poll.job /\ poll'.rec \in {poll.rec, Aged(poll.rec)}  BY <1>0, <2>1 DEF Copy
  <2> QED BY <1>0, <1>1, <1>2, <2>2
<1>6. sched'.pc = sched.pc /\ sched'.job = sched.job /\ Alike(sched'.rec, sched.rec)
  <2>1. sched' = sched \/ sched' = [sched EXCEPT !.rec = Aged(sched.rec)]  BY DEF LeaseTimeout
  <2>2. /\ sched'.pc = sched.pc /\ sched'.job = sched.job
        /\ sched'.rec \in {sched.rec, Aged(sched.rec)}
    BY <1>0, <2>1 DEF Scheduler
  <2> QED BY <1>0, <1>1, <1>2, <2>2
<1> QED BY <1>0, <1>3, <1>4, <1>5, <1>6 DEF LeaseTimeout

\* What the other steps copy of jobs and rows is as it was.
LEMMA OtherCopySteps ==
  ASSUME TypeOK, OutcomeInv, OtherStep, NEW i \in Jobs
  PROVE  CopyStep(i) /\ RowStep(i) /\ SnapStep(i)
<1> USE DEF storeVars, readVars
<1>0. /\ rows \in [Jobs -> JobRecord] /\ jobs \in [Jobs -> JobRecord] /\ i # 0
      /\ snap \in Copy /\ poll \in Copy /\ rows[i] \in Copies(i)
  BY StateTypes, JobNumbers, CopyRecords DEF TypeOK
<1>1. ASSUME NEW j \in Jobs, CreateJob(j) PROVE CopyStep(i) /\ RowStep(i) /\ SnapStep(i)
  <2>1. /\ UNCHANGED <<snap, poll, sched>> /\ rows' = [rows EXCEPT ![j] = NewJob]
        /\ jobs' = [jobs EXCEPT ![j] = NewJob] /\ ~Exists(rows[j])
    BY <1>1 DEF CreateJob
  <2>2. CASE i = j
    <3>1. Created(i) /\ rows'[i] = NewJob  BY <1>0, <2>1, <2>2 DEF Created
    <3>2. \A rec \in Copies(i)' : rec = NewJob \/ rec \in Copies(i)  BY <2>1, <3>1 DEF Copies
    <3> QED BY <2>1, <3>1, <3>2 DEF CopyStep, RowStep, SnapStep, Alike
  <2>3. CASE i # j
    <3>1. rows'[i] = rows[i]  BY <1>0, <2>1, <2>3
    <3>2. \A rec \in Copies(i)' : rec \in Copies(i)  BY <2>1, <3>1 DEF Copies
    <3> QED BY <2>1, <3>1, <3>2 DEF CopyStep, RowStep, SnapStep, Alike
  <2> QED BY <2>2, <2>3
<1>2. ASSUME NEW j \in Jobs, PollRead(j) PROVE CopyStep(i) /\ RowStep(i) /\ SnapStep(i)
  <2>1. UNCHANGED <<snap, sched, rows>> /\ poll' = [job |-> j, rec |-> rows[j]]
    BY <1>2 DEF PollRead
  <2>2. \A rec \in Copies(i)' : rec \in Copies(i)  BY <1>0, <2>1 DEF Copies
  <2> QED BY <2>1, <2>2 DEF CopyStep, RowStep, SnapStep, Alike
<1>3. CASE PollMerge
  <2>1. UNCHANGED <<snap, sched, rows>> /\ poll'.job = 0  BY <1>3 DEF PollMerge, NoCopy
  <2>2. \A rec \in Copies(i)' : rec \in Copies(i)  BY <1>0, <2>1 DEF Copies
  <2> QED BY <2>1, <2>2 DEF CopyStep, RowStep, SnapStep, Alike
<1>4. ASSUME NEW j \in Jobs, LeaseTimeout(j) PROVE CopyStep(i) /\ RowStep(i) /\ SnapStep(i)
  <2>1. /\ Alike(rows'[i], rows[i]) /\ snap'.job = snap.job /\ Alike(snap'.rec, snap.rec)
        /\ poll'.job = poll.job /\ Alike(poll'.rec, poll.rec)
        /\ sched'.pc = sched.pc /\ sched'.job = sched.job /\ Alike(sched'.rec, sched.rec)
    BY <1>4, TimeoutEffects
  <2>2. \A rec \in Copies(i)' : \E r \in Copies(i) : Alike(rec, r)  BY <2>1 DEF Copies
  <2> QED BY <2>1, <2>2 DEF CopyStep, RowStep, SnapStep, Alike
<1>5. ASSUME NEW j \in Jobs, TakeSnapshot(j) PROVE CopyStep(i) /\ RowStep(i) /\ SnapStep(i)
  <2>1. /\ UNCHANGED <<jobs, poll, sched, rows>> /\ snap' = [job |-> j, rec |-> jobs[j]]
        /\ Exists(jobs[j])
    BY <1>5 DEF TakeSnapshot, OutcomeInv, JobsKnown
  <2>2. Stays(i)  BY <2>1, NoJobSteps
  <2>3. \A rec \in Copies(i)' : rec \in Copies(i) \/ (i = j /\ rec = jobs[i])  BY <2>1 DEF Copies
  <2> QED BY <2>1, <2>2, <2>3 DEF CopyStep, RowStep, SnapStep, Alike
<1>6. CASE SaveSnapshot
  <2>1. /\ UNCHANGED <<poll, sched>> /\ snap'.job = 0 /\ snap.job # 0 /\ snap.job \in Jobs
        /\ rows' = rows \/ rows' = [rows EXCEPT ![snap.job] = snap.rec]
    <3>1. snap.job \in Jobs  BY <1>0, <1>6, CountsAssumption DEF SaveSnapshot, Copy, Jobs
    <3>2. rows' = [rows EXCEPT ![snap.job] = rows[snap.job]] \/ rows' = [rows EXCEPT ![snap.job] = snap.rec]
      BY <1>6 DEF SaveSnapshot
    <3> QED BY <1>0, <1>6, <3>1, <3>2 DEF SaveSnapshot, NoCopy
  <2>2. rows'[i] = rows[i] \/ (snap.job = i /\ rows'[i] = snap.rec)  BY <1>0, <2>1
  <2>3. \A rec \in Copies(i)' : rec \in Copies(i)  BY <1>0, <2>1, <2>2 DEF Copies
  <2> QED BY <1>0, <2>1, <2>2, <2>3 DEF CopyStep, RowStep, SnapStep, Alike
<1>7. ASSUME UNCHANGED <<rows, snap, poll, sched>> PROVE CopyStep(i) /\ RowStep(i) /\ SnapStep(i)
  BY <1>7, QuietCopies
<1>8. ASSUME NEW j \in Jobs, CancelQueued(j) \/ CancelActive(j)
      PROVE  UNCHANGED <<rows, snap, poll, sched>>
  BY <1>8 DEF CancelQueued, MarkCancelled, CancelActive, PersistJob
<1>9. ASSUME NEW s \in Sessions, LockTimeout(s) PROVE UNCHANGED <<rows, snap, poll, sched>>
  BY <1>9 DEF LockTimeout
<1> QED BY <1>1, <1>2, <1>3, <1>4, <1>5, <1>6, <1>7, <1>8, <1>9 DEF OtherStep, Persisting

\* The other steps name jobs that are known.
LEMMA OtherKnows ==
  ASSUME TypeOK, OutcomeInv, OtherStep
  PROVE  /\ \A j \in Jobs : Exists(rows[j]) => Exists(rows'[j])
         /\ \A j \in dirty' : j \in dirty \/ Exists(jobs[j])
         /\ snap'.job # 0 => Exists(snap'.rec) /\ (snap'.job = snap.job \/ Exists(jobs[snap'.job]))
         /\ \A k \in Keys : \A n \in 1..Len(queues'[k]) :
              Exists(jobs[queues'[k][n]]) \/ Exists(jobs'[queues'[k][n]])
<1> USE DEF storeVars
<1>0. /\ rows \in [Jobs -> JobRecord] /\ jobs \in [Jobs -> JobRecord] /\ snap \in Copy
      /\ snap.job # 0 => Exists(snap.rec) /\ Exists(jobs[snap.job])
      /\ \A j \in dirty : Exists(jobs[j])
      /\ \A k \in Keys : \A n \in 1..Len(queues[k]) : Exists(jobs[queues[k][n]])
      /\ Exists(NewJob)
  BY StateTypes DEF TypeOK, OutcomeInv, JobsKnown, Exists, NewJob, NoJob
<1>1. ASSUME NEW j \in Jobs, LeaseTimeout(j)
      PROVE  /\ \A i \in Jobs : rows'[i].status = rows[i].status
             /\ snap'.job = snap.job /\ snap'.rec.status = snap.rec.status
             /\ UNCHANGED dirty
  BY <1>1, TimeoutEffects DEF Alike
<1>2. \A j \in Jobs : Exists(rows[j]) => Exists(rows'[j])
  <2>1. ASSUME NEW j \in Jobs, CreateJob(j) PROVE \A i \in Jobs : Exists(rows[i]) => Exists(rows'[i])
    <3>1. rows' = [rows EXCEPT ![j] = NewJob]  BY <2>1 DEF CreateJob
    <3> QED BY <1>0, <3>1
  <2>2. CASE SaveSnapshot
    <3>1. rows' = [rows EXCEPT ![snap.job] = rows[snap.job]] \/ rows' = [rows EXCEPT ![snap.job] = snap.rec]
      BY <2>2 DEF SaveSnapshot
    <3>2. Exists(snap.rec)  BY <1>0, <2>2 DEF SaveSnapshot
    <3> QED BY <1>0, <3>1, <3>2
  <2>3. ASSUME NEW j \in Jobs, TakeSnapshot(j) PROVE UNCHANGED rows  BY <2>3 DEF TakeSnapshot
  <2> QED BY <1>1, <2>1, <2>2, <2>3, OtherFootprint DEF Exists, Persisting
<1>3. \A j \in dirty' : j \in dirty \/ Exists(jobs[j])
  <2>1. ASSUME NEW j \in Jobs, CancelQueued(j) \/ CancelActive(j)
        PROVE  dirty' = dirty \cup {j} /\ Exists(jobs[j])
    BY <2>1, StatusSets DEF CancelQueued, MarkCancelled, CancelActive, PersistJob, Exists
  <2>2. ASSUME NEW j \in Jobs, CreateJob(j) \/ PollRead(j) \/ LeaseTimeout(j) PROVE UNCHANGED dirty
    BY <1>1, <2>2 DEF CreateJob, PollRead
  <2>3. CASE PollMerge \/ Persisting \/ \E s \in Sessions : LockTimeout(s)
    BY <2>3 DEF PollMerge, Persisting, TakeSnapshot, SaveSnapshot, LockTimeout
  <2> QED BY <2>1, <2>2, <2>3 DEF OtherStep
<1>4. snap'.job # 0 => Exists(snap'.rec) /\ (snap'.job = snap.job \/ Exists(jobs[snap'.job]))
  <2>1. ASSUME NEW j \in Jobs, TakeSnapshot(j)
        PROVE  Exists(snap'.rec) /\ Exists(jobs[snap'.job])
    <3>1. snap' = [job |-> j, rec |-> jobs[j]] /\ Exists(jobs[j])  BY <1>0, <2>1 DEF TakeSnapshot
    <3> QED BY <3>1
  <2>2. CASE SaveSnapshot  BY <2>2 DEF SaveSnapshot, NoCopy
  <2>3. ASSUME NEW j \in Jobs, CreateJob(j) PROVE UNCHANGED snap  BY <2>3 DEF CreateJob
  <2> QED BY <1>0, <1>1, <2>1, <2>2, <2>3, OtherFootprint DEF Exists, Persisting
<1>5. \A k \in Keys : \A n \in 1..Len(queues'[k]) :
        Exists(jobs[queues'[k][n]]) \/ Exists(jobs'[queues'[k][n]])
  <2>1. ASSUME NEW j \in Jobs, CreateJob(j)
        PROVE  /\ Exists(jobs'[j])
               /\ queues' = [queues EXCEPT ![KeyOf[j]] = Append(queues[KeyOf[j]], j)]
    BY <1>0, <2>1 DEF CreateJob
  <2>2. ASSUME NEW j \in Jobs, CancelQueued(j)
        PROVE  /\ Exists(jobs[j])
               /\ queues' = [queues EXCEPT ![KeyOf[j]] = RemoveFirst(queues[KeyOf[j]], j)]
    BY <2>2 DEF CancelQueued, Exists
  <2>3. ASSUME NEW j \in Jobs, CreateJob(j) \/ CancelQueued(j)
        PROVE  \A k \in Keys : \A n \in 1..Len(queues'[k]) :
                 Exists(jobs[queues'[k][n]]) \/ Exists(jobs'[queues'[k][n]])
    BY <2>1, <2>2, <2>3, QueuesStayKnown
  <2> QED BY <1>0, <2>3, OtherFootprint
<1> QED BY <1>2, <1>3, <1>4, <1>5

\* A request, a snapshot or an expiry has these effects.
LEMMA OtherEffects ==
  ASSUME TypeOK, OutcomeInv, OtherStep, env'.crashes = env.crashes
  PROVE  Effects
<1>0. /\ UNCHANGED <<stream, tokens, finals>>
      /\ UNCHANGED worker \/ PollMerge
      /\ \A i \in Jobs : JobStep(i) /\ CopyStep(i) /\ RowStep(i) /\ SnapStep(i)
  BY OtherFootprint, OtherJobSteps, OtherCopySteps
<1>1. replay'.job = 0
  <2>1. ASSUME NEW j \in Jobs, LeaseTimeout(j) PROVE UNCHANGED replay  BY <2>1, TimeoutEffects
  <2>2. UNCHANGED replay
    BY <2>1 DEF OtherStep, CreateJob, PollRead, CancelQueued, CancelActive, PollMerge, Persisting,
       TakeSnapshot, SaveSnapshot, LockTimeout, readVars
  <2> QED BY <2>2 DEF OutcomeInv
<1>2. \A j \in Jobs : CountStep(j)
  <2>1. tokens \in [Jobs -> Nat]  BY DEF TypeOK
  <2> QED BY <1>0, <2>1 DEF CountStep
<1>3. sched'.pc = sched.pc /\ sched'.job = sched.job /\ Alike(sched'.rec, sched.rec)
  BY OtherFootprint, TimeoutEffects DEF Alike
<1>4. /\ \A w \in Workers : BeliefStep(w)
      /\ \A w \in Workers : Busy(w)' => Busy(w) /\ SameDelivery(worker'[w], worker[w])
      /\ \A w \in Workers : worker'[w].beat => Busy(w)'
  <2>0. \A w \in Workers : worker[w].beat => Busy(w)  BY DEF OutcomeInv, JobsKnown
  <2>1. CASE UNCHANGED worker  BY <2>0, <2>1, SameBeliefs
  <2>2. CASE PollMerge
    <3>1. PICK j \in Jobs : j = poll.job  BY <2>2, CopyTypes DEF PollMerge, TypeOK, Jobs
    <3>2. poll.rec \in Copies(j) /\ Merge(j, poll.rec)  BY <2>2, <3>1, CopyRecords DEF PollMerge
    <3> QED BY <2>0, <3>2, MergeSteps DEF Busy
  <2> QED BY <1>0, <2>1, <2>2
<1>5. DeliveryStep  BY <1>0, <1>4 DEF DeliveryStep, DeliveriesStay
<1>6. StageStep  BY <1>3 DEF StageStep
<1>7. KnownStep  BY <1>3, <1>4, OtherKnows DEF KnownStep, Engaged
<1> QED BY <1>0, <1>1, <1>2, <1>4, <1>5, <1>6, <1>7 DEF Effects
----------------------------------------------------------------------------
(* Restarts, and the theorems *)

\* What comes back from a row.
LEMMA RestoredJobs ==
  ASSUME NEW r \in JobRecord
  PROVE  /\ Exists(Restored(r)) <=> r.status \in Live
         /\ r.status \in Live => Restored(r).fence = r.fence
         /\ r.status \notin Live => r.status \in Terminal \cup {"absent"}
<1>1. CASE r.status \in {"queued", "admitted", "running"}
  <2>1. Restored(r) = [r EXCEPT !.status = "queued"]  BY <1>1 DEF Restored
  <2> QED BY <1>1, <2>1 DEF JobRecord, Exists, Live
<1>2. CASE r.status = "cancel_requested"
  <2>1. Restored(r) = Withdrawn(r, "cancelled")  BY <1>2 DEF Restored
  <2> QED BY <1>2, <2>1 DEF JobRecord, Exists, Live, Withdrawn
<1>3. CASE r.status \notin {"queued", "admitted", "running", "cancel_requested"}
  <2>1. Restored(r) = NoJob  BY <1>3 DEF Restored
  <2> QED BY <1>3, <2>1 DEF JobRecord, Exists, Live, NoJob
<1> QED BY <1>1, <1>2, <1>3

\* The messages that are left after a restart are some of the last.
LEMMA MessagesLeft ==
  ASSUME TypeOK, Restart
  PROVE  \E n \in Nat : /\ Len(stream') \in Nat
                        /\ \A m \in 1..Len(stream') :
                             stream'[m] = stream[m + n] /\ m + n \in 1..Len(stream)
<1>1. PICK n \in 0..Len(stream) : stream' = SubSeq(stream, n + 1, Len(stream))  BY DEF Restart
<1>2. stream \in Seq(Message) /\ Len(stream) \in Nat  BY StateTypes
<1>3. /\ Len(SubSeq(stream, n + 1, Len(stream))) = Len(stream) - n
      /\ \A m \in 1..Len(stream) - n : SubSeq(stream, n + 1, Len(stream))[m] = stream[m + n]
  BY <1>2
<1>4. n \in Nat /\ Len(stream') = Len(stream) - n /\ Len(stream') \in Nat  BY <1>1, <1>2, <1>3
<1>5. ASSUME NEW m \in 1..Len(stream') PROVE stream'[m] = stream[m + n] /\ m + n \in 1..Len(stream)
  <2>1. m \in 1..Len(stream) - n  BY <1>4, <1>5
  <2>2. SubSeq(stream, n + 1, Len(stream))[m] = stream[m + n]  BY <1>3, <2>1
  <2>3. m + n \in 1..Len(stream)  BY <1>2, <1>4, <2>1
  <2> QED BY <1>1, <2>2, <2>3
<1> QED BY <1>4, <1>5

\* A restart keeps the invariant: it forgets everything but the rows, and it is counted.
LEMMA RestartKeepsOutcomes ==
  ASSUME TypeOK, TypeOK', OutcomeInv, Restart
  PROVE  OutcomeInv'
<1>0. /\ jobs' = [j \in Jobs |-> Restored(rows[j])] /\ rows' = rows /\ tokens' = tokens
      /\ dirty' = {j \in Jobs : jobs'[j].status = "cancelled"} /\ finals' = finals
      /\ snap'.job = 0 /\ poll'.job = 0 /\ replay'.job = 0 /\ 0 \notin Jobs
      /\ sched'.pc = "idle" /\ \A w \in Workers : ~Busy(w)' /\ ~worker'[w].beat
  <2>1. dirty' = {j \in Jobs : [i \in Jobs |-> Restored(rows[i])][j].status = "cancelled"}
    BY DEF Restart
  <2> QED BY <2>1, JobNumbers DEF Restart, NoCopy, IdleScheduler, IdleWorker, Busy
<1>1. \A j \in Jobs : /\ jobs'[j] = Restored(rows[j]) /\ rows[j] \in JobRecord
                      /\ Exists(jobs'[j]) <=> rows[j].status \in Live
                      /\ rows[j].status \in Live => jobs'[j].fence = rows[j].fence
                      /\ rows[j].status \notin Live => rows[j].status \in Terminal \cup {"absent"}
  BY <1>0, StateTypes, RestoredJobs
<1>2. CopiesBehind'
  <2> SUFFICES ASSUME NEW j \in Jobs, NEW rec \in Copies(j)' PROVE Behind(rec, j)'
    BY DEF CopiesBehind
  <2>1. rec = rows[j]  BY <1>0 DEF Copies
  <2>2. rows[j].fence \in Nat  BY FieldTypes
  <2> QED BY <1>0, <1>1, <2>1, <2>2, StatusSets DEF Behind
<1>3. JobsKnown'
  <2>1. ASSUME NEW k \in Keys, NEW n \in 1..Len(queues'[k]) PROVE Exists(jobs'[queues'[k][n]])
    <3>1. PICK q : q = queues'[k]  OBVIOUS
    <3>2. ToSet(q) \subseteq {j \in Jobs : jobs'[j].status = "queued"}
      <4> DEFINE back == [j \in Jobs |-> Restored(rows[j])]
      <4>1. PICK qs : /\ queues' = qs
                      /\ Ordered(qs[k], {j \in Jobs : KeyOf[j] = k /\ back[j].status = "queued"})
        BY DEF Restart
      <4>2. jobs' = back  BY <1>0
      <4> HIDE DEF back
      <4>3. ToSet(qs[k]) = {j \in Jobs : KeyOf[j] = k /\ back[j].status = "queued"}
        BY <4>1 DEF Ordered
      <4> QED BY <3>1, <4>1, <4>2, <4>3
    <3>3. q[n] \in ToSet(q)  BY <2>1, <3>1 DEF ToSet
    <3>4. jobs'[q[n]].status = "queued"  BY <3>2, <3>3
    <3> QED BY <3>1, <3>4 DEF Exists
  <2>2. \A m \in 1..Len(stream') : Exists(rows'[stream'[m].job])
    BY <1>0, MessagesLeft DEF OutcomeInv, JobsKnown
  <2>3. \A j \in Jobs : (Exists(jobs'[j]) => Exists(rows'[j]))
                        /\ (~Exists(jobs'[j]) => rows'[j].status \in Terminal \cup {"absent"})
    BY <1>0, <1>1, StatusSets DEF Exists
  <2>4. \A j \in dirty' : Exists(jobs'[j])  BY <1>0 DEF Exists
  <2> QED BY <1>0, <2>1, <2>2, <2>3, <2>4 DEF JobsKnown, Engaged
<1>4. TokensApart'
  <2>1. PICK n \in Nat : /\ Len(stream') \in Nat
                         /\ \A m \in 1..Len(stream') :
                              stream'[m] = stream[m + n] /\ m + n \in 1..Len(stream)
    BY MessagesLeft
  <2>2. \A m \in 1..Len(stream') : Issued(stream[m])'
    BY <1>0, <2>1 DEF OutcomeInv, TokensApart, Issued
  <2>3. ASSUME NEW m \in 1..Len(stream'), NEW p \in 1..Len(stream'),
               SameDelivery(stream'[m], stream'[p])
        PROVE  m = p
    <3>1. SameDelivery(stream[m + n], stream[p + n])  BY <2>1, <2>3 DEF SameDelivery
    <3>2. \A a, b \in 1..Len(stream) : SameDelivery(stream[a], stream[b]) => a = b
      BY DEF OutcomeInv, TokensApart
    <3>3. m + n = p + n  BY <2>1, <3>1, <3>2
    <3> QED BY <2>1, <3>3
  <2> QED BY <1>0, <2>2, <2>3 DEF TokensApart
<1>5. Fresh' /\ Staged'  BY <1>0 DEF Fresh, Staged
<1>6. Believed'  BY <1>0 DEF Believed, Believes, Executing, Busy
<1>7. OutcomesKept'  BY <1>0 DEF OutcomesKept
<1>8. FinalsCounted'
  <2>1. env'.crashes = env.crashes + 1 /\ env.crashes \in Nat
    BY DEF Restart, TypeOK, Counters
  <2> SUFFICES ASSUME NEW j \in Jobs
               PROVE  /\ finals'[j] <= env'.crashes + (IF jobs'[j].status \in Live THEN 0 ELSE 1)
                      /\ ~Exists(rows'[j]) => finals'[j] = 0
    BY DEF FinalsCounted
  <2>2. /\ finals[j] \in Nat /\ finals[j] <= env.crashes + (IF jobs[j].status \in Live THEN 0 ELSE 1)
        /\ ~Exists(rows[j]) => finals[j] = 0
    BY FieldTypes DEF OutcomeInv, FinalsCounted
  <2> QED BY <1>0, <2>1, <2>2
<1> QED BY <1>0, <1>2, <1>3, <1>4, <1>5, <1>6, <1>7, <1>8 DEF OutcomeInv

\* An idle service knows of nothing.
LEMMA InitOutcomes == Init => OutcomeInv
<1> SUFFICES ASSUME Init PROVE OutcomeInv  OBVIOUS
<1>1. /\ \A j \in Jobs : jobs[j] = NoJob /\ rows[j] = NoJob /\ tokens[j] = 0 /\ finals[j] = 0
      /\ replay.job = 0 /\ poll.job = 0 /\ snap.job = 0 /\ dirty = {} /\ env.crashes = 0
      /\ Len(stream) = 0 /\ sched.pc = "idle" /\ 0 \notin Jobs
      /\ \A k \in Keys : Len(queues[k]) = 0
  BY JobNumbers DEF Init, NoCopy, IdleScheduler
<1>2. \A w \in Workers : ~Busy(w) /\ ~worker[w].beat  BY DEF Init, IdleWorker, Busy
<1>3. NoJob.status = "absent" /\ NoJob.fence = 0 /\ ~Exists(NoJob)  BY DEF NoJob, Exists
<1>4. CopiesBehind  BY <1>1, <1>3 DEF CopiesBehind, Copies, Behind
<1>5. JobsKnown  BY <1>1, <1>2, <1>3 DEF JobsKnown, Engaged
<1>6. TokensApart  BY <1>1, <1>2 DEF TokensApart
<1>7. Fresh /\ Staged  BY <1>1 DEF Fresh, Staged
<1>8. Believed  BY <1>2 DEF Believed, Believes, Executing, Busy
<1>9. OutcomesKept /\ FinalsCounted  BY <1>1, <1>3, StatusSets DEF OutcomesKept, FinalsCounted
<1> QED BY <1>1, <1>4, <1>5, <1>6, <1>7, <1>8, <1>9 DEF OutcomeInv

\* A step that answers nobody from a row keeps the invariant, and every outcome in a row.
LEMMA OutcomeSteps ==
  ASSUME TypeOK, TypeOK', AttemptsInv, OutcomeInv, [Next]_vars, Unreplayed'
  PROVE  /\ OutcomeInv'
         /\ \A j \in Jobs : rows[j].status \in Terminal => rows'[j].status = rows[j].status
<1>1. CASE UNCHANGED vars
  <2> USE DEF vars, queueVars, pendingVars, storeVars, brokerVars, readVars, countVars
  <2>1. CopiesBehind' /\ OutcomesKept' /\ FinalsCounted'
    BY <1>1 DEF OutcomeInv, CopiesBehind, Copies, Behind, OutcomesKept, FinalsCounted
  <2>2. JobsKnown'  BY <1>1 DEF OutcomeInv, JobsKnown, Engaged, Busy
  <2>3. TokensApart' /\ Fresh'
    BY <1>1 DEF OutcomeInv, TokensApart, Issued, Busy, Fresh, Unborne
  <2>4. Believed' /\ Staged'
    BY <1>1 DEF OutcomeInv, Believed, Believes, Executing, Shared, Holds, Staged, Copies
  <2> QED BY <1>1, <2>1, <2>2, <2>3, <2>4 DEF OutcomeInv
<1>2. CASE Restart  BY <1>2, RestartKeepsOutcomes DEF Restart
<1>3. CASE Next /\ ~Restart
  <2>1. env'.crashes = env.crashes  BY <1>3, ReplaysLast
  <2>2. Effects  BY <1>3, <2>1, StepKinds, SchedulerEffects, WorkerEffects, OtherEffects
  <2> QED BY <2>2, EffectsKeepOutcomes, RowsKeepOutcomes
<1> QED BY <1>1, <1>2, <1>3

\* Through results and failures, cancellations, recoveries, delayed snapshots and restarts, no
\* copy of a job is ahead of the job, no token is carried twice, and an outcome is the last
\* thing that happens to a job in the life of a process.
THEOREM OutcomeInvariant == Spec => [](Unreplayed => OutcomeInv)
<1>1. TypeOK /\ TypeOK' /\ AttemptsInv /\ (Unreplayed => OutcomeInv) /\ [Next]_vars
      => (Unreplayed => OutcomeInv)'
  BY OutcomeSteps, ReplaysLast
<1>2. Init => (Unreplayed => OutcomeInv)  BY InitOutcomes
<1> QED BY <1>1, <1>2, TypeCorrect, AttemptsInvariant, PTL DEF Spec

\* One result: unless a request was answered from a row, a job reports success once in the
\* life of a process, however its leases run out, its messages are retried and its row is
\* merged back.
THEOREM OneResult == Spec => [](Unreplayed => SucceedsOnce)
<1>1. TypeOK /\ OutcomeInv => SucceedsOnce
  <2> SUFFICES ASSUME TypeOK, OutcomeInv, NEW j \in Jobs PROVE finals[j] <= 1 + env.crashes
    BY DEF SucceedsOnce
  <2>1. finals[j] \in Nat /\ env.crashes \in Nat
        /\ finals[j] <= env.crashes + (IF jobs[j].status \in Live THEN 0 ELSE 1)
    BY FieldTypes DEF OutcomeInv, FinalsCounted
  <2> QED BY <2>1
<1> QED BY <1>1, OutcomeInvariant, TypeCorrect, PTL

\* Durable outcomes: unless a request was answered from a row, no delayed snapshot, dispatch,
\* recovery or restart takes the outcome out of a row.
THEOREM DurableOutcomes == Spec /\ []Unreplayed => OutcomeIsDurable
<1>1. TypeOK /\ TypeOK' /\ AttemptsInv /\ (Unreplayed => OutcomeInv) /\ Unreplayed /\ Unreplayed'
      /\ [Next]_vars
      => [\A j \in Jobs : rows[j].status \in Terminal => rows'[j].status = rows[j].status]_vars
  BY OutcomeSteps
<1> QED BY <1>1, OutcomeInvariant, TypeCorrect, AttemptsInvariant, PTL DEF Spec, OutcomeIsDurable
=============================================================================
