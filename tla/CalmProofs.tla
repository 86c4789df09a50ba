------------------------------ MODULE CalmProofs ------------------------------
(***************************************************************************)
(* The session lock covers every execution, for all values of the          *)
(* constants, for as long as no lease runs out under somebody who acts for *)
(* its job, the process lives, no request is replayed and nobody polls.    *)
(* With an expiry, a replay, a reader, or a dispatch that fails after its  *)
(* message was sent, TLC finds an execution without its lock on two jobs.  *)
(* After a restart the messages of the former life are still delivered,    *)
(* beside those of the jobs it queued; of that CalmInv says nothing, and   *)
(* RecoveryProofs takes it up.                                             *)
(*                                                                         *)
(* LockCoversRun is not inductive.  CalmInv adds what makes it so: one     *)
(* delivery of a job at a time, and that whoever carries a job's token     *)
(* finds the job, its lease and its session's lock as the admission left   *)
(* them, because everybody else who may change these acts for jobs that no *)
(* message and no worker carries.                                          *)
(***************************************************************************)
EXTENDS AgentJobsProofs

\* The events that take a lock or a job away from whoever acts for it have not happened.
Undisturbed == env.expiries = 0 /\ env.crashes = 0 /\ env.replays = 0

\* What the deployment of the theorems excludes for good: reads of the row by requests, and
\* a dispatch whose message is sent and which fails after that.
Calm == ~Polling /\ "mark" \notin Faults

----------------------------------------------------------------------------
(* The invariant *)

\* The scheduler holds a job it has taken from a queue, or is giving one back.
Engaged == sched.pc \notin {"idle", "sweep"}

\* No message and no worker carries the job.
Carried(j) == \E i \in 1..Len(stream) : stream[i].job = j
Served(j) == \E w \in Workers : worker[w].job = j
Free(j) == ~Carried(j) /\ ~Served(j)

OneDelivery ==
  /\ \A m, n \in 1..Len(stream) : stream[m].job = stream[n].job => m = n
  /\ \A v, w \in Workers : worker[v].job # 0 /\ worker[v].job = worker[w].job => v = w
  /\ \A m \in 1..Len(stream), w \in Workers : stream[m].job # worker[w].job

Owns(j) == lockOwner[SessionOf[j]] = j

\* The job is as its admission left it, except that it may have to be cancelled.
Awaited(j, token) ==
  /\ jobs[j].status \in {"admitted", "cancel_requested"} /\ jobs[j].token = token
  /\ jobs[j].status = "admitted" => jobs[j].lease = "live"
  /\ Owns(j)

\* ... and so it is while it is executed.
Ongoing(j, token) ==
  /\ jobs[j].status \in {"running", "cancel_requested"} /\ jobs[j].token = token
  /\ jobs[j].status = "running" => jobs[j].lease = "live"
  /\ Owns(j)

MessagesAwaited == \A m \in 1..Len(stream) : Awaited(stream[m].job, stream[m].token)

ServiceSound(w) ==
  /\ worker[w].pc \notin {"retry", "unlock"} /\ ~worker[w].raised
  /\ worker[w].pc = "idle" => worker[w].job = 0
  /\ worker[w].pc = "begin" => Shared(w) /\ Awaited(worker[w].job, worker[w].token)
  /\ Executing(w) => Ongoing(worker[w].job, worker[w].token)
  /\ worker[w].pc \in {"release", "discard", "settle"} =>
       jobs[worker[w].job].status \in Terminal

ServicesSound == \A w \in Workers : ServiceSound(w)

SchedulerSound ==
  /\ Engaged => Exists(jobs[sched.job])
  /\ Engaged /\ sched.pc \notin {"mark", "finish"} => Free(sched.job)
  /\ sched.pc \in {"stage", "enqueue", "failed"} =>
       Awaited(sched.job, sched.rec.token) /\ ~InQueue(sched.job)
  /\ sched.pc \in {"stage", "enqueue"} => Exists(sched.rec)
  /\ sched.pc = "admit" /\ jobs[sched.job].status = "queued" => Owns(sched.job)

\* A queue holds jobs of its key, none twice.
QueuesApart ==
  \A k \in Keys : \A m, n \in 1..Len(queues[k]) :
    KeyOf[queues[k][m]] = k /\ (queues[k][m] = queues[k][n] => m = n)

QueuesSound ==
  /\ QueuesApart
  /\ \A j \in Jobs : InQueue(j) => Exists(jobs[j]) /\ Free(j)
  /\ \A j \in Jobs : jobs[j].status \in {"absent", "queued"} => Free(j)

RowsKnown ==
  /\ \A j \in Jobs : Exists(jobs[j]) => Exists(rows[j])
  /\ \A j \in dirty : Exists(jobs[j])
  /\ snap.job # 0 => Exists(snap.rec)

CalmInv ==
  /\ replay.job = 0 /\ poll.job = 0
  /\ OneDelivery /\ MessagesAwaited /\ ServicesSound
  /\ SchedulerSound /\ QueuesSound /\ RowsKnown

----------------------------------------------------------------------------
(* Frames *)

\* Whoever acts for the job finds it as before.
Stands(i) ==
  /\ \A t \in Nat : Awaited(i, t) => Awaited(i, t)'
  /\ \A t \in Nat : Ongoing(i, t) => Ongoing(i, t)'
  /\ jobs[i].status \in Terminal => jobs'[i].status \in Terminal

\* A job that is not touched, and does not lose its lock, stands.
LEMMA UntouchedStands ==
  ASSUME NEW i \in Jobs, jobs'[i] = jobs[i], Owns(i) => Owns(i)'
  PROVE  Stands(i)
BY DEF Stands, Awaited, Ongoing

\* The types of the parts of the state that the invariant reads.
LEMMA StateTypes ==
  ASSUME TypeOK
  PROVE  /\ jobs \in [Jobs -> JobRecord] /\ rows \in [Jobs -> JobRecord]
         /\ \A j \in Jobs : jobs[j] \in JobRecord /\ rows[j] \in JobRecord
         /\ stream \in Seq(Message) /\ Len(stream) \in Nat
         /\ \A m \in 1..Len(stream) : stream[m].job \in Jobs /\ stream[m].token \in Nat
         /\ worker \in [Workers -> Worker]
         /\ \A w \in Workers : worker[w] \in Worker /\ worker[w].token \in Nat
         /\ \A w \in Workers : worker[w].pc # "idle" => worker[w].job \in Jobs
         /\ sched \in Scheduler /\ sched.rec \in JobRecord /\ sched.rec.token \in Nat
         /\ sched.pc \notin {"idle", "sweep"} => sched.job \in Jobs
         /\ queues \in Queues /\ dirty \subseteq Jobs
         /\ lockOwner \in [Sessions -> 0..NumJobs]
         /\ \A s \in Sessions : lockOwner[s] # 0 => lockOwner[s] \in Jobs
<1>1. jobs \in [Jobs -> JobRecord] /\ rows \in [Jobs -> JobRecord]  BY DEF TypeOK
<1>2. stream \in Seq(Message)  BY DEF TypeOK
<1>3. Len(stream) \in Nat /\ \A m \in 1..Len(stream) : stream[m] \in Message  BY <1>2
<1>4. \A m \in 1..Len(stream) : stream[m].job \in Jobs /\ stream[m].token \in Nat
  BY <1>3 DEF Message
<1>5. worker \in [Workers -> Worker]  BY DEF TypeOK
<1>6. sched \in Scheduler /\ sched.rec \in JobRecord /\ sched.rec.token \in Nat
      /\ (sched.pc \notin {"idle", "sweep"} => sched.job \in Jobs)
  BY SchedulerTypes, RecordTypes DEF TypeOK
<1>7. queues \in Queues /\ dirty \subseteq Jobs /\ lockOwner \in [Sessions -> 0..NumJobs]
  BY DEF TypeOK, Queues
<1>8. \A s \in Sessions : lockOwner[s] # 0 => lockOwner[s] \in Jobs  BY <1>7, CountsAssumption DEF Jobs
<1>9. \A w \in Workers : worker[w] \in Worker /\ worker[w].token \in Nat
      /\ (worker[w].pc # "idle" => worker[w].job \in Jobs)
  BY <1>5, WorkerTypes
<1> QED BY <1>1, <1>2, <1>3, <1>4, <1>5, <1>6, <1>7, <1>8, <1>9

\* A step that takes no message and moves no worker keeps what the deliveries rely on, if
\* every job that is carried stands.
LEMMA NoDelivery ==
  ASSUME TypeOK, CalmInv, UNCHANGED <<stream, worker, replay, poll>>,
         \A i \in Jobs : ~Free(i) => Stands(i)
  PROVE  /\ replay'.job = 0 /\ poll'.job = 0
         /\ OneDelivery' /\ MessagesAwaited' /\ ServicesSound'
         /\ \A i : Free(i)' <=> Free(i)
<1>1. \A i : Free(i)' <=> Free(i)  BY DEF Free, Carried, Served
<1>2. OneDelivery'  BY DEF CalmInv, OneDelivery
<1>3. MessagesAwaited'
  <2> SUFFICES ASSUME NEW m \in 1..Len(stream)
               PROVE  Awaited(stream[m].job, stream[m].token)'
    BY DEF MessagesAwaited
  <2>1. stream[m].job \in Jobs /\ stream[m].token \in Nat  BY StateTypes
  <2>2. ~Free(stream[m].job)  BY DEF Free, Carried
  <2>3. Awaited(stream[m].job, stream[m].token)  BY DEF CalmInv, MessagesAwaited
  <2> QED BY <2>1, <2>2, <2>3 DEF Stands, Awaited, Owns
<1>4. ServicesSound'
  <2> SUFFICES ASSUME NEW w \in Workers PROVE ServiceSound(w)'  BY DEF ServicesSound
  <2>1. ServiceSound(w)  BY DEF CalmInv, ServicesSound
  <2>2. worker'[w] = worker[w] /\ worker[w].token \in Nat  BY StateTypes
  <2>3. worker[w].pc # "idle" => worker[w].job \in Jobs /\ ~Free(worker[w].job)
    BY StateTypes DEF Free, Served
  <2>4. worker[w].pc # "idle" => Stands(worker[w].job)  BY <2>3
  <2> QED BY <2>1, <2>2, <2>3, <2>4 DEF ServiceSound, Stands, Shared, Executing, Awaited, Ongoing, Owns
<1> QED BY <1>1, <1>2, <1>3, <1>4 DEF CalmInv

\* Queues are as they were, and no job has vanished, or waits again while it is carried.
LEMMA QueuesStay ==
  ASSUME CalmInv, UNCHANGED queues, \A i : Free(i)' <=> Free(i),
         \A i \in Jobs : Exists(jobs[i]) => Exists(jobs'[i]),
         \A i \in Jobs : jobs'[i].status \in {"absent", "queued"} =>
           jobs[i].status \in {"absent", "queued"} \/ Free(i)
  PROVE  QueuesSound'
<1>1. QueuesSound  BY DEF CalmInv
<1>2. QueuesApart'  BY <1>1 DEF QueuesSound, QueuesApart
<1>3. ASSUME NEW j \in Jobs, InQueue(j)' PROVE Exists(jobs'[j]) /\ Free(j)'
  <2>1. InQueue(j)  BY <1>3 DEF InQueue
  <2> QED BY <1>1, <2>1 DEF QueuesSound
<1>4. ASSUME NEW j \in Jobs, jobs'[j].status \in {"absent", "queued"} PROVE Free(j)'
  BY <1>1, <1>4 DEF QueuesSound
<1> QED BY <1>2, <1>3, <1>4 DEF QueuesSound, Exists

\* Rows stay, and jobs are neither created nor lost.
LEMMA RowsStay ==
  ASSUME CalmInv, UNCHANGED <<rows, snap>>,
         \A i \in Jobs : Exists(jobs'[i]) <=> Exists(jobs[i]),
         \A i \in dirty' : i \in dirty \/ Exists(jobs'[i]), dirty \subseteq Jobs
  PROVE  RowsKnown'
BY DEF CalmInv, RowsKnown

\* The scheduler stays where it is, and finds its job as before.
LEMMA SchedulerStays ==
  ASSUME TypeOK, CalmInv, UNCHANGED sched, \A i : Free(i)' <=> Free(i),
         \A i \in Jobs : Stands(i) /\ (Exists(jobs[i]) => Exists(jobs'[i])),
         Engaged => (InQueue(sched.job)' => InQueue(sched.job)),
         Engaged /\ jobs'[sched.job].status = "queued" => jobs[sched.job].status = "queued",
         Engaged /\ jobs'[sched.job].status = "queued" /\ Owns(sched.job) => Owns(sched.job)'
  PROVE  SchedulerSound'
<1>1. SchedulerSound  BY DEF CalmInv
<1>2. (Engaged => sched.job \in Jobs) /\ sched.rec.token \in Nat  BY StateTypes DEF Engaged
<1>3. Engaged' <=> Engaged  BY DEF Engaged
<1>4. Engaged => Exists(jobs'[sched.job])  BY <1>1, <1>2 DEF SchedulerSound
<1>5. Engaged /\ sched.pc \notin {"mark", "finish"} => Free(sched.job)'
  BY <1>1 DEF SchedulerSound
<1>6. ASSUME sched.pc \in {"stage", "enqueue", "failed"}
      PROVE  Awaited(sched.job, sched.rec.token)' /\ ~InQueue(sched.job)'
  <2>1. Engaged  BY <1>6 DEF Engaged
  <2>2. Awaited(sched.job, sched.rec.token) /\ ~InQueue(sched.job)  BY <1>1, <1>6 DEF SchedulerSound
  <2>3. Awaited(sched.job, sched.rec.token)'
    BY <1>2, <2>1, <2>2 DEF Stands, Awaited, Owns
  <2> QED BY <2>1, <2>2, <2>3
<1>7. sched.pc \in {"stage", "enqueue"} => Exists(sched.rec)  BY <1>1 DEF SchedulerSound
<1>8. sched.pc = "admit" /\ jobs'[sched.job].status = "queued" => Owns(sched.job)'
  BY <1>1 DEF SchedulerSound, Engaged
<1> QED BY <1>3, <1>4, <1>5, <1>6, <1>7, <1>8 DEF SchedulerSound

\* Removing an element of a sequence moves those behind it one place forward.
LEMMA RemoveFirstShape ==
  ASSUME NEW S, NEW s \in Seq(S), NEW e
  PROVE  \/ RemoveFirst(s, e) = s /\ \A i \in 1..Len(s) : s[i] # e
         \/ \E m \in 1..Len(s) :
              /\ s[m] = e
              /\ RemoveFirst(s, e) \in Seq(S) /\ Len(RemoveFirst(s, e)) = Len(s) - 1
              /\ \A i \in 1..Len(s) - 1 : RemoveFirst(s, e)[i] = IF i < m THEN s[i] ELSE s[i + 1]
<1>1. CASE ~\E i \in 1..Len(s) : s[i] = e
  BY <1>1 DEF RemoveFirst
<1>2. CASE \E i \in 1..Len(s) : s[i] = e
  <2> DEFINE I == {i \in 1..Len(s) : s[i] = e}
             m == Min(I)
             r == RemoveFirst(s, e)
  <2>1. Len(s) \in Nat  BY LenProperties
  <2>2. m \in I
    <3>1. I \subseteq Nat /\ I # {}  BY <1>2, <2>1
    <3> HIDE DEF I
    <3> QED BY <3>1, MinOfNaturals
  <2>3. r = SubSeq(s, 1, m - 1) \o SubSeq(s, m + 1, Len(s))
    BY <1>2 DEF RemoveFirst, RemoveAt, SelectInSeq
  <2>4. m \in 1..Len(s) /\ s[m] = e  BY <2>2
  <2> HIDE DEF m, r, I
  <2>5. /\ SubSeq(s, 1, m - 1) \in Seq(S) /\ Len(SubSeq(s, 1, m - 1)) = m - 1
        /\ \A i \in 1..m - 1 : SubSeq(s, 1, m - 1)[i] = s[i]
    BY <2>1, <2>4
  <2>6. /\ SubSeq(s, m + 1, Len(s)) \in Seq(S) /\ Len(SubSeq(s, m + 1, Len(s))) = Len(s) - m
        /\ \A i \in 1..Len(s) - m : SubSeq(s, m + 1, Len(s))[i] = s[m + i]
    BY <2>1, <2>4
  <2> DEFINE a == SubSeq(s, 1, m - 1)  b == SubSeq(s, m + 1, Len(s))
  <2> HIDE DEF a, b
  <2>a. /\ a \in Seq(S) /\ Len(a) = m - 1 /\ b \in Seq(S) /\ Len(b) = Len(s) - m
        /\ \A i \in 1..m - 1 : a[i] = s[i]
        /\ \A i \in 1..Len(s) - m : b[i] = s[m + i]
    BY <2>5, <2>6 DEF a, b
  <2>b. /\ r \in Seq(S) /\ Len(r) = Len(a) + Len(b)
        /\ \A i \in 1..Len(a) + Len(b) : r[i] = IF i <= Len(a) THEN a[i] ELSE b[i - Len(a)]
    BY <2>3, <2>a, ConcatProperties DEF a, b
  <2>7. r \in Seq(S) /\ Len(r) = Len(s) - 1  BY <2>1, <2>4, <2>a, <2>b
  <2>8. ASSUME NEW i \in 1..Len(s) - 1 PROVE r[i] = IF i < m THEN s[i] ELSE s[i + 1]
    <3>1. i \in 1..Len(a) + Len(b) /\ i \in Nat  BY <2>1, <2>4, <2>a
    <3>2. CASE i < m
      <4>1. i <= Len(a) /\ i \in 1..m - 1  BY <2>1, <2>4, <2>a, <3>1, <3>2
      <4> QED BY <2>a, <2>b, <3>1, <3>2, <4>1
    <3>3. CASE ~(i < m)
      <4>1. ~(i <= Len(a)) /\ i - Len(a) \in 1..Len(s) - m /\ m + (i - Len(a)) = i + 1
        BY <2>1, <2>4, <2>a, <3>1, <3>3
      <4> QED BY <2>a, <2>b, <3>1, <3>3, <4>1
    <3> QED BY <3>2, <3>3
  <2> QED BY <2>4, <2>7, <2>8 DEF r
<1> QED BY <1>1, <1>2

----------------------------------------------------------------------------
(* Each step keeps the invariant *)

\* What the invariant says of a job that no row and no worker knows.
LEMMA UnknownJob ==
  ASSUME TypeOK, CalmInv, NEW j \in Jobs, ~Exists(rows[j])
  PROVE  /\ jobs[j].status = "absent" /\ Free(j) /\ ~InQueue(j) /\ Stands(j)
         /\ j \notin dirty /\ (Engaged => sched.job # j)
<1>1. jobs[j].status = "absent"  BY DEF CalmInv, RowsKnown, Exists
<1>2. Stands(j)  BY <1>1 DEF Stands, Awaited, Ongoing, Terminal
<1> QED BY <1>1, <1>2 DEF CalmInv, RowsKnown, QueuesSound, SchedulerSound, Exists

\* create_job keeps the invariant: nobody knows the new job yet.
LEMMA CreateCalm ==
  ASSUME TypeOK, CalmInv, NEW j \in Jobs, CreateJob(j)
  PROVE  CalmInv'
<1> USE DEF queueVars, pendingVars, storeVars, brokerVars, readVars, countVars
<1>0. jobs \in [Jobs -> JobRecord] /\ rows \in [Jobs -> JobRecord] /\ queues \in Queues
      /\ dirty \subseteq Jobs /\ KeyOf[j] \in Keys
  BY StateTypes, ScopeTypes
<1>1. /\ jobs[j].status = "absent" /\ Free(j) /\ ~InQueue(j) /\ Stands(j)
      /\ j \notin dirty /\ (Engaged => sched.job # j)
  BY UnknownJob DEF CreateJob
<1>2. /\ jobs'[j] = NewJob /\ rows'[j] = NewJob
      /\ \A i \in Jobs \ {j} : jobs'[i] = jobs[i] /\ rows'[i] = rows[i]
  BY <1>0 DEF CreateJob
<1>3. NewJob.status = "queued"  BY DEF NewJob, NoJob
<1>4. \A i \in Jobs : Stands(i)
  BY <1>1, <1>2, UntouchedStands DEF CreateJob, Owns
<1>5. /\ replay'.job = 0 /\ poll'.job = 0
      /\ OneDelivery' /\ MessagesAwaited' /\ ServicesSound'
      /\ \A i : Free(i)' <=> Free(i)
  BY <1>4, NoDelivery DEF CreateJob
<1>6. queues' = [queues EXCEPT ![KeyOf[j]] = Append(@, j)]  BY DEF CreateJob
<1> DEFINE q == queues[KeyOf[j]]
<1>7. /\ q \in Seq(Jobs) /\ Len(q) \in Nat
      /\ Len(Append(q, j)) = Len(q) + 1 /\ Append(q, j)[Len(q) + 1] = j
      /\ \A n \in 1..Len(q) : Append(q, j)[n] = q[n]
  <2>1. q \in Seq(Jobs)  BY <1>0, QueueTypes
  <2> HIDE DEF q
  <2>2. Len(q) \in Nat  BY <2>1
  <2> QED BY <2>1, <2>2, AppendProperties
<1> HIDE DEF q
<1>8. /\ queues'[KeyOf[j]] = Append(q, j)
      /\ \A k \in Keys \ {KeyOf[j]} : queues'[k] = queues[k]
  BY <1>0, <1>6 DEF q, Queues
<1>9. \A n \in 1..Len(q) : q[n] # j /\ KeyOf[q[n]] = KeyOf[j]
  BY <1>0, <1>1 DEF InQueue, q, CalmInv, QueuesSound, QueuesApart
<1>10. \A i \in Jobs \ {j} : InQueue(i)' => InQueue(i)
  <2> SUFFICES ASSUME NEW i \in Jobs \ {j}, InQueue(i)' PROVE InQueue(i)  OBVIOUS
  <2>1. CASE KeyOf[i] # KeyOf[j]
    BY <1>8, <2>1, ScopeTypes DEF InQueue
  <2>2. CASE KeyOf[i] = KeyOf[j]
    <3>1. PICK n \in 1..Len(q) + 1 : Append(q, j)[n] = i
      BY <1>7, <1>8, <2>2 DEF InQueue
    <3>2. n # Len(q) + 1  BY <1>7, <3>1
    <3>3. n \in 1..Len(q) /\ q[n] = i  BY <1>7, <3>1, <3>2
    <3> QED BY <2>2, <3>3 DEF InQueue, q
  <2> QED BY <2>1, <2>2
<1>11. SchedulerSound'
  <2>1. Engaged => sched.job \in Jobs \ {j}  BY <1>1, StateTypes DEF Engaged
  <2>2. UNCHANGED <<sched, lockOwner>>  BY DEF CreateJob
  <2>3. \A i \in Jobs : Exists(jobs[i]) => Exists(jobs'[i])  BY <1>2, <1>3 DEF Exists
  <2>4. Engaged => (InQueue(sched.job)' => InQueue(sched.job))
    <3> SUFFICES ASSUME Engaged, NEW i, i = sched.job, InQueue(i)' PROVE InQueue(i)
      BY <2>2 DEF InQueue
    <3> QED BY <1>10, <2>1
  <2> QED BY <1>2, <1>4, <1>5, <2>1, <2>2, <2>3, <2>4, SchedulerStays DEF Owns
<1>12. QueuesSound'
  <2>1. QueuesApart'
    <3> SUFFICES ASSUME NEW k \in Keys, NEW m \in 1..Len(queues'[k]), NEW n \in 1..Len(queues'[k])
                 PROVE  KeyOf[queues'[k][m]] = k /\ (queues'[k][m] = queues'[k][n] => m = n)
      BY DEF QueuesApart
    <3>1. QueuesApart  BY DEF CalmInv, QueuesSound
    <3>2. CASE k # KeyOf[j]  BY <1>8, <3>1, <3>2 DEF QueuesApart
    <3>3. CASE k = KeyOf[j]
      <4>1. m \in 1..Len(q) + 1 /\ n \in 1..Len(q) + 1  BY <1>7, <1>8, <3>3
      <4>2. m \in 1..Len(q) \/ m = Len(q) + 1  BY <1>7, <4>1
      <4>3. n \in 1..Len(q) \/ n = Len(q) + 1  BY <1>7, <4>1
      <4>4. m \in 1..Len(q) /\ n \in 1..Len(q) => (q[m] = q[n] => m = n)
        BY <1>0, <3>1, <3>3 DEF QueuesApart, q
      <4> QED BY <1>7, <1>8, <1>9, <3>3, <4>2, <4>3, <4>4
    <3> QED BY <3>2, <3>3
  <2>2. ASSUME NEW i \in Jobs, InQueue(i)' PROVE Exists(jobs'[i]) /\ Free(i)'
    BY <1>1, <1>2, <1>3, <1>5, <1>10, <2>2 DEF CalmInv, QueuesSound, Exists
  <2>3. ASSUME NEW i \in Jobs, jobs'[i].status \in {"absent", "queued"} PROVE Free(i)'
    BY <1>1, <1>2, <1>5, <2>3 DEF CalmInv, QueuesSound
  <2> QED BY <2>1, <2>2, <2>3 DEF QueuesSound, Exists
<1>13. RowsKnown'
  <2>1. UNCHANGED <<dirty, snap>>  BY DEF CreateJob
  <2> QED BY <1>0, <1>1, <1>2, <1>3, <2>1 DEF CalmInv, RowsKnown, Exists
<1> QED BY <1>5, <1>11, <1>12, <1>13 DEF CalmInv

\* What becomes of a queue from which a job is removed: the job is out of it, and the others
\* are as far apart as they were.
LEMMA Removal ==
  ASSUME TypeOK, QueuesApart, NEW j \in Jobs,
         queues' = [queues EXCEPT ![KeyOf[j]] = RemoveFirst(@, j)]
  PROVE  /\ QueuesApart' /\ ~InQueue(j)'
         /\ \A i \in Jobs : InQueue(i)' => InQueue(i)
         /\ \A i \in Jobs \ {j} : AtHead(i) => AtHead(i)'
<1> DEFINE k == KeyOf[j]  q == queues[k]  r == RemoveFirst(q, j)
<1>0. queues \in Queues /\ k \in Keys /\ q \in Seq(Jobs)  BY StateTypes, ScopeTypes, QueueTypes
<1>1. queues'[k] = r /\ \A x \in Keys \ {k} : queues'[x] = queues[x]  BY <1>0 DEF Queues
<1>2. \A m, n \in 1..Len(q) : KeyOf[q[m]] = k /\ (q[m] = q[n] => m = n)
  BY <1>0 DEF QueuesApart
<1>3. \A i \in Jobs \ {j} : AtHead(i) /\ KeyOf[i] = k => q # <<>> /\ Len(q) > 0 /\ q[1] = i
  BY <1>0 DEF AtHead
<1>4. \/ r = q /\ \A n \in 1..Len(q) : q[n] # j
      \/ \E p \in 1..Len(q) :
           /\ q[p] = j
           /\ r \in Seq(Jobs) /\ Len(r) = Len(q) - 1
           /\ \A n \in 1..Len(q) - 1 : r[n] = IF n < p THEN q[n] ELSE q[n + 1]
  BY <1>0, RemoveFirstShape
<1>5. Len(q) \in Nat  BY <1>0
<1> HIDE DEF q, r
<1> DEFINE Single == \A m, n \in 1..Len(r) : KeyOf[r[m]] = k /\ (r[m] = r[n] => m = n)
           Within == \A n \in 1..Len(r) : r[n] # j /\ \E m \in 1..Len(q) : q[m] = r[n]
           HeadKept == \A i \in Jobs \ {j} : Len(q) > 0 /\ q[1] = i => Len(r) > 0 /\ r[1] = i
<1>6. Single /\ Within /\ HeadKept
  <2>1. CASE r = q /\ \A n \in 1..Len(q) : q[n] # j  BY <1>2, <1>5, <2>1
  <2>2. ASSUME NEW p \in 1..Len(q), q[p] = j, r \in Seq(Jobs), Len(r) = Len(q) - 1,
               \A n \in 1..Len(q) - 1 : r[n] = IF n < p THEN q[n] ELSE q[n + 1]
        PROVE  Single /\ Within /\ HeadKept
    <3> DEFINE at(n) == IF n < p THEN n ELSE n + 1
    <3>1. \A n \in 1..Len(r) : at(n) \in 1..Len(q) /\ at(n) # p /\ r[n] = q[at(n)]
      BY <1>5, <2>2
    <3>2. \A m, n \in 1..Len(r) : at(m) = at(n) => m = n  BY <1>5, <2>2
    <3> HIDE DEF at
    <3>3. Single  BY <1>2, <3>1, <3>2
    <3>4. Within  BY <1>2, <2>2, <3>1
    <3>5. ASSUME NEW i \in Jobs \ {j}, Len(q) > 0, q[1] = i PROVE Len(r) > 0 /\ r[1] = i
      <4>1. p # 1 /\ Len(r) > 0 /\ at(1) = 1  BY <1>5, <2>2, <3>5 DEF at
      <4> QED BY <3>1, <3>5, <4>1, <2>2, <1>5
    <3> QED BY <3>3, <3>4, <3>5
  <2> QED BY <1>4, <2>1, <2>2
<1>7. QueuesApart'
  <2> SUFFICES ASSUME NEW x \in Keys, NEW m \in 1..Len(queues'[x]), NEW n \in 1..Len(queues'[x])
               PROVE  KeyOf[queues'[x][m]] = x /\ (queues'[x][m] = queues'[x][n] => m = n)
    BY DEF QueuesApart
  <2>1. CASE x = k  BY <1>1, <1>6, <2>1
  <2>2. CASE x # k  BY <1>1, <2>2 DEF QueuesApart
  <2> QED BY <2>1, <2>2
<1>8. ~InQueue(j)'  BY <1>1, <1>6 DEF InQueue
<1>9. ASSUME NEW i \in Jobs, InQueue(i)' PROVE InQueue(i)
  <2>1. CASE KeyOf[i] # k  BY <1>1, <1>9, <2>1, ScopeTypes DEF InQueue
  <2>2. CASE KeyOf[i] = k  BY <1>1, <1>6, <1>9, <2>2 DEF InQueue, q
  <2> QED BY <2>1, <2>2
<1>10. ASSUME NEW i \in Jobs \ {j}, AtHead(i) PROVE AtHead(i)'
  <2>1. CASE KeyOf[i] # k  BY <1>1, <1>10, <2>1, ScopeTypes DEF AtHead
  <2>2. CASE KeyOf[i] = k
    <3>1. Len(r) > 0 /\ r[1] = i  BY <1>3, <1>6, <1>10, <2>2 DEF q
    <3>2. r \in Seq(Jobs)  BY <1>0, RemoveFirstType DEF r, q
    <3> QED BY <1>1, <2>2, <3>1, <3>2 DEF AtHead
  <2> QED BY <2>1, <2>2
<1> QED BY <1>7, <1>8, <1>9, <1>10

\* Releasing the lock of a job leaves the locks of all other jobs.
LEMMA ReleaseFrame ==
  ASSUME TypeOK, NEW j \in Jobs, ReleaseSession(j)
  PROVE  /\ \A i \in Jobs \ {j} : Owns(i) => Owns(i)'
         /\ \A s \in Sessions : lockOwner'[s] \in {0, lockOwner[s]}
<1>1. /\ lockOwner \in [Sessions -> 0..NumJobs] /\ SessionOf[j] \in Sessions
      /\ \A i \in Jobs : SessionOf[i] \in Sessions
  BY StateTypes, ScopeTypes
<1>2. lockOwner' = [lockOwner EXCEPT ![SessionOf[j]] = IF @ = j THEN 0 ELSE @]  BY DEF ReleaseSession
<1>3. \A s \in Sessions : lockOwner'[s] = lockOwner[s] \/ (lockOwner[s] = j /\ lockOwner'[s] = 0)
  BY <1>1, <1>2
<1> QED BY <1>1, <1>3 DEF Owns

\* cancel_job of a queued job keeps the invariant: no message and no worker carries it.
LEMMA CancelQueuedCalm ==
  ASSUME TypeOK, CalmInv, NEW j \in Jobs, CancelQueued(j)
  PROVE  CalmInv'
<1> USE DEF queueVars, pendingVars, storeVars, brokerVars, readVars, countVars
<1>0. jobs \in [Jobs -> JobRecord] /\ dirty \subseteq Jobs /\ jobs[j].status = "queued"
  BY StateTypes DEF CancelQueued
<1>1. /\ jobs'[j].status = "cancelled" /\ \A i \in Jobs \ {j} : jobs'[i] = jobs[i]
  BY <1>0 DEF CancelQueued, MarkCancelled, Finished, JobRecord
<1>2. ReleaseSession(j) /\ UNCHANGED <<stream, sched, worker, replay, poll, rows, snap>>
      /\ dirty' = dirty \cup {j} /\ queues' = [queues EXCEPT ![KeyOf[j]] = RemoveFirst(@, j)]
  BY DEF CancelQueued, MarkCancelled, PersistJob
<1>3. \A i \in Jobs \ {j} : Owns(i) => Owns(i)'  BY <1>2, ReleaseFrame
<1>4. Stands(j)  BY <1>0 DEF Stands, Awaited, Ongoing, Terminal
<1>5. \A i \in Jobs : Stands(i)  BY <1>1, <1>3, <1>4, UntouchedStands
<1>6. /\ replay'.job = 0 /\ poll'.job = 0
      /\ OneDelivery' /\ MessagesAwaited' /\ ServicesSound'
      /\ \A i : Free(i)' <=> Free(i)
  BY <1>2, <1>5, NoDelivery
<1>7. QueuesSound /\ QueuesApart  BY DEF CalmInv, QueuesSound
<1>8. QueuesApart' /\ \A i \in Jobs : InQueue(i)' => InQueue(i)
  BY <1>2, <1>7, Removal
<1>9. \A i \in Jobs : Exists(jobs'[i]) <=> Exists(jobs[i])  BY <1>0, <1>1 DEF Exists
<1>10. QueuesSound'
  <2>1. ASSUME NEW i \in Jobs, jobs'[i].status \in {"absent", "queued"} PROVE Free(i)'
    BY <1>1, <1>6, <1>7, <2>1 DEF QueuesSound
  <2> QED BY <1>6, <1>7, <1>8, <1>9, <2>1 DEF QueuesSound, Exists
<1>11. SchedulerSound'
  <2>1. Engaged => sched.job \in Jobs  BY StateTypes DEF Engaged
  <2>2. Engaged => (InQueue(sched.job)' => InQueue(sched.job))
    <3> SUFFICES ASSUME Engaged, NEW i, i = sched.job, InQueue(i)' PROVE InQueue(i)
      BY <1>2 DEF InQueue
    <3> QED BY <1>8, <2>1
  <2>3. Engaged /\ jobs'[sched.job].status = "queued" => sched.job \in Jobs \ {j}
    BY <1>1, <2>1
  <2>4. Engaged /\ jobs'[sched.job].status = "queued" /\ Owns(sched.job) => Owns(sched.job)'
    BY <1>2, <1>3, <2>3 DEF Owns
  <2> QED BY <1>1, <1>2, <1>5, <1>6, <1>9, <2>2, <2>3, <2>4, SchedulerStays
<1>12. RowsKnown'
  <2>1. \A i \in dirty' : i \in dirty \/ Exists(jobs'[i])  BY <1>1, <1>2 DEF Exists
  <2> QED BY <1>0, <1>2, <1>9, <2>1, RowsStay
<1> QED BY <1>6, <1>10, <1>11, <1>12 DEF CalmInv

\* A step that changes one job, and no queue, message, worker or lock, keeps the invariant if
\* the job stands and does not wait again.
LEMMA JobStays ==
  ASSUME TypeOK, CalmInv, NEW j \in Jobs,
         UNCHANGED <<queues, stream, lockOwner, worker, sched, rows, snap, replay, poll>>,
         dirty' \subseteq dirty \cup {j},
         \A i \in Jobs \ {j} : jobs'[i] = jobs[i],
         Stands(j), Exists(jobs[j]), Exists(jobs'[j]),
         jobs'[j].status = "queued" => jobs[j].status = "queued"
  PROVE  CalmInv'
<1>1. \A i \in Jobs : Stands(i)  BY UntouchedStands DEF Owns
<1>2. /\ replay'.job = 0 /\ poll'.job = 0
      /\ OneDelivery' /\ MessagesAwaited' /\ ServicesSound'
      /\ \A i : Free(i)' <=> Free(i)
  BY <1>1, NoDelivery
<1>3. \A i \in Jobs : Exists(jobs'[i]) <=> Exists(jobs[i])  OBVIOUS
<1>4. \A i \in Jobs : jobs'[i].status = "queued" => jobs[i].status = "queued"  OBVIOUS
<1>5. QueuesSound'  BY <1>2, <1>3, <1>4, QueuesStay DEF Exists
<1>6. SchedulerSound'
  <2>1. Engaged => sched.job \in Jobs  BY StateTypes DEF Engaged
  <2>2. Engaged => (InQueue(sched.job)' => InQueue(sched.job))  BY DEF InQueue
  <2>3. Engaged /\ Owns(sched.job) => Owns(sched.job)'  BY DEF Owns
  <2> QED BY <1>1, <1>2, <1>3, <1>4, <2>1, <2>2, <2>3, SchedulerStays
<1>7. RowsKnown'
  <2>1. dirty \subseteq Jobs  BY StateTypes
  <2> QED BY <1>3, <2>1, RowsStay
<1> QED BY <1>2, <1>5, <1>6, <1>7 DEF CalmInv

\* Requests keep the invariant; nobody polls, and no request is replayed.
LEMMA RequestCalm ==
  ASSUME TypeOK, CalmInv, Calm, Undisturbed', NEW j \in Jobs, Request(j)
  PROVE  CalmInv'
<1> USE DEF queueVars, pendingVars, storeVars, brokerVars, readVars, countVars
<1>1. CASE CreateJob(j)  BY <1>1, CreateCalm
<1>2. CASE ReplayRead(j)
  <2>1. env \in Counters /\ env.replays \in Nat  BY DEF TypeOK, Counters
  <2>2. env'.replays = env.replays + 1  BY <1>2, <2>1 DEF ReplayRead, Counters
  <2> QED BY <2>1, <2>2 DEF Undisturbed
<1>3. CASE PollRead(j)  BY <1>3 DEF PollRead, Calm
<1>4. CASE CancelQueued(j)  BY <1>4, CancelQueuedCalm
<1>5. CASE CancelActive(j)
  <2>0. jobs \in [Jobs -> JobRecord] /\ jobs[j] \in JobRecord  BY StateTypes
  <2>1. jobs'[j] = [jobs[j] EXCEPT !.status = "cancel_requested"]
        /\ \A i \in Jobs \ {j} : jobs'[i] = jobs[i]
    BY <1>5, <2>0 DEF CancelActive
  <2>2. jobs'[j].status = "cancel_requested" /\ jobs'[j].token = jobs[j].token
    BY <2>0, <2>1 DEF JobRecord
  <2>3. jobs[j].status \in {"admitted", "running", "cancel_requested"} /\ UNCHANGED lockOwner
    BY <1>5 DEF CancelActive, Live
  <2>4. Stands(j)  BY <2>2, <2>3 DEF Stands, Awaited, Ongoing, Owns, Terminal
  <2>5. Exists(jobs[j]) /\ Exists(jobs'[j]) /\ jobs'[j].status # "queued"  BY <2>2, <2>3 DEF Exists
  <2> QED BY <1>5, <2>1, <2>4, <2>5, JobStays DEF CancelActive, PersistJob
<1> QED BY <1>1, <1>2, <1>3, <1>4, <1>5 DEF Request

\* A step of the scheduler that changes no job, queue, message, worker or row keeps the
\* invariant if no job that is carried loses its lock, and the scheduler's new place is sound.
LEMMA SchedulerMoves ==
  ASSUME TypeOK, CalmInv,
         UNCHANGED <<jobs, queues, stream, worker, rows, dirty, snap, replay, poll>>,
         \A i \in Jobs : ~Free(i) /\ Owns(i) => Owns(i)',
         (\A i : Free(i)' <=> Free(i)) => SchedulerSound'
  PROVE  CalmInv'
<1>1. \A i \in Jobs : ~Free(i) => Stands(i)  BY UntouchedStands
<1>2. /\ replay'.job = 0 /\ poll'.job = 0
      /\ OneDelivery' /\ MessagesAwaited' /\ ServicesSound'
      /\ \A i : Free(i)' <=> Free(i)
  BY <1>1, NoDelivery
<1>3. QueuesSound'  BY <1>2, QueuesStay DEF Exists
<1>4. RowsKnown'  BY DEF CalmInv, RowsKnown
<1> QED BY <1>2, <1>3, <1>4 DEF CalmInv

\* The scheduler's place after the steps that only move it.
LEMMA Places ==
  ASSUME TypeOK
  PROVE  /\ IdleScheduler.pc = "idle"
         /\ \A p \in SchedulerPC : SchedulerAt(p) =>
              sched'.pc = p /\ sched'.job = sched.job /\ sched'.rec = sched.rec
<1>1. sched \in Scheduler  BY StateTypes
<1> QED BY <1>1 DEF Scheduler, SchedulerAt, IdleScheduler

\* Selecting a candidate keeps the invariant: what waits in a queue is carried by nobody.
LEMMA SelectCalm ==
  ASSUME TypeOK, CalmInv, SelectNothing \/ \E k \in Keys : SelectCandidate(k)
  PROVE  CalmInv'
<1> USE DEF queueVars, pendingVars, storeVars, brokerVars, readVars, countVars
<1>1. CASE SelectNothing
  <2>1. SchedulerSound'
    BY <1>1 DEF SelectNothing, CalmInv, SchedulerSound, Engaged, Awaited, Owns, InQueue, Free,
                Carried, Served
  <2>2. \A i \in Jobs : Owns(i) => Owns(i)'  BY <1>1 DEF SelectNothing, Owns
  <2> QED BY <1>1, <2>1, <2>2, SchedulerMoves DEF SelectNothing
<1>2. ASSUME NEW k \in Keys, SelectCandidate(k) PROVE CalmInv'
  <2> DEFINE h == Head(queues[k])
  <2>1. queues[k] # <<>> /\ queues \in Queues  BY <1>2, StateTypes DEF SelectCandidate, Eligible
  <2>2. h \in Jobs /\ Len(queues[k]) \in Nat /\ 1 \in 1..Len(queues[k]) /\ queues[k][1] = h
    BY <2>1 DEF Queues
  <2>3. KeyOf[h] = k /\ InQueue(h)  BY <2>2 DEF CalmInv, QueuesSound, QueuesApart, InQueue
  <2>4. Exists(jobs[h]) /\ Free(h)  BY <2>2, <2>3 DEF CalmInv, QueuesSound
  <2>5. sched'.pc = "load" /\ sched'.job = h
    BY <1>2, StateTypes DEF SelectCandidate, Scheduler
  <2>6. (\A i : Free(i)' <=> Free(i)) => SchedulerSound'
    <3> SUFFICES ASSUME \A i : Free(i)' <=> Free(i) PROVE SchedulerSound'  OBVIOUS
    <3>1. UNCHANGED <<jobs, stream, worker>>  BY <1>2 DEF SelectCandidate
    <3>2. Free(sched.job)'  BY <2>4, <2>5, <3>1 DEF Free, Carried, Served
    <3> QED BY <2>4, <2>5, <3>1, <3>2 DEF SchedulerSound, Engaged
  <2>7. \A i \in Jobs : Owns(i) => Owns(i)'  BY <1>2 DEF SelectCandidate, Owns
  <2> QED BY <1>2, <2>6, <2>7, SchedulerMoves DEF SelectCandidate
<1> QED BY <1>1, <1>2

\* The steps of the dispatch that only move the scheduler keep the invariant.
LEMMA MovesCalm ==
  ASSUME TypeOK, CalmInv, Calm,
         \/ LoadLatest \/ LoadFails \/ SessionBusy \/ AdmissionLost \/ MarkDispatchSent
         \/ DispatchFails \/ FinishDispatch
  PROVE  CalmInv'
<1> USE DEF queueVars, pendingVars, storeVars, brokerVars, readVars, countVars
<1>0. UNCHANGED <<jobs, queues, stream, worker, rows, dirty, snap, replay, poll, lockOwner>>
  BY DEF LoadLatest, LoadFails, SessionBusy, AdmissionLost, MarkDispatchSent, DispatchFails,
         FinishDispatch
<1>1. \A i \in Jobs : Owns(i) => Owns(i)'  BY <1>0 DEF Owns
<1>2. SchedulerSound  BY DEF CalmInv
<1>3. (Free(sched.job) <=> Free(sched.job)') \/ sched'.job # sched.job
  BY <1>0 DEF Free, Carried, Served
<1>4. CASE LoadFails \/ SessionBusy \/ FinishDispatch
  <2>1. sched'.pc = "idle"  BY <1>4, Places DEF LoadFails, SessionBusy, FinishDispatch
  <2>2. SchedulerSound'  BY <2>1 DEF SchedulerSound, Engaged
  <2> QED BY <1>0, <1>1, <2>2, SchedulerMoves
<1>5. CASE LoadLatest
  <2>1. sched'.pc = "merge" /\ sched'.job = sched.job /\ sched.pc = "load"
    BY <1>5, StateTypes DEF LoadLatest, Scheduler
  <2>2. SchedulerSound'  BY <1>0, <1>2, <1>3, <2>1 DEF SchedulerSound, Engaged
  <2> QED BY <1>0, <1>1, <2>2, SchedulerMoves
<1>6. CASE AdmissionLost
  <2>1. sched'.pc = "unlock" /\ sched'.job = sched.job /\ sched.pc = "admit"
    BY <1>6, Places DEF AdmissionLost, SchedulerPC
  <2>2. SchedulerSound'  BY <1>0, <1>2, <1>3, <2>1 DEF SchedulerSound, Engaged
  <2> QED BY <1>0, <1>1, <2>2, SchedulerMoves
<1>7. CASE MarkDispatchSent
  <2>1. sched'.pc = "finish" /\ sched'.job = sched.job /\ sched.pc = "mark"
    BY <1>7, Places DEF MarkDispatchSent, SchedulerPC
  <2>2. SchedulerSound'  BY <1>0, <1>2, <2>1 DEF SchedulerSound, Engaged
  <2> QED BY <1>0, <1>1, <2>2, SchedulerMoves
<1>8. CASE DispatchFails
  <2>1. sched'.pc = "failed" /\ sched'.job = sched.job /\ sched'.rec = sched.rec
        /\ sched.pc \in {"stage", "enqueue"}
    BY <1>8, Places DEF DispatchFails, SchedulerPC, Fault, Calm
  <2>2. Awaited(sched.job, sched.rec.token) /\ ~InQueue(sched.job)  BY <1>2, <2>1 DEF SchedulerSound
  <2>3. Awaited(sched.job, sched.rec.token)' /\ ~InQueue(sched.job)'
    BY <1>0, <2>1, <2>2 DEF Awaited, Owns, InQueue
  <2>4. SchedulerSound'  BY <1>0, <1>2, <1>3, <2>1, <2>3 DEF SchedulerSound, Engaged
  <2> QED BY <1>0, <1>1, <2>4, SchedulerMoves
<1> QED BY <1>4, <1>5, <1>6, <1>7, <1>8

\* Taking the session's lock, or giving it back, keeps the invariant: the lock that is taken
\* was free, and the job whose lock is given back is carried by nobody.
LEMMA LockCalm ==
  ASSUME TypeOK, CalmInv, AcquireSession \/ SchedulerUnlock
  PROVE  CalmInv'
<1> USE DEF queueVars, pendingVars, storeVars, brokerVars, readVars, countVars
<1>0. UNCHANGED <<jobs, queues, stream, worker, rows, dirty, snap, replay, poll>>
  BY DEF AcquireSession, SchedulerUnlock
<1>1. SchedulerSound /\ sched.pc \notin {"idle", "sweep", "mark", "finish"}
  BY DEF CalmInv, AcquireSession, SchedulerUnlock
<1>2. sched.job \in Jobs /\ Free(sched.job) /\ Exists(jobs[sched.job])
  BY <1>1, StateTypes DEF SchedulerSound, Engaged
<1>3. /\ lockOwner \in [Sessions -> 0..NumJobs] /\ 0 \notin Jobs
      /\ \A i \in Jobs : SessionOf[i] \in Sessions
  BY StateTypes, ScopeTypes, JobNumbers
<1>4. CASE SchedulerUnlock
  <2>1. \A i \in Jobs : ~Free(i) /\ Owns(i) => Owns(i)'
    BY <1>2, <1>4, ReleaseFrame DEF SchedulerUnlock
  <2>2. sched'.pc = "idle"  BY <1>4, Places DEF SchedulerUnlock
  <2>3. SchedulerSound'  BY <2>2 DEF SchedulerSound, Engaged
  <2> QED BY <1>0, <2>1, <2>3, SchedulerMoves
<1>5. CASE AcquireSession
  <2> DEFINE s == SessionOf[sched.job]
  <2>1. \A i \in Jobs : Owns(i) => Owns(i)'
    <3>1. \/ UNCHANGED lockOwner
          \/ lockOwner[s] = 0 /\ lockOwner' = [lockOwner EXCEPT ![s] = sched.job]
      BY <1>5 DEF AcquireSession
    <3> QED BY <1>3, <3>1 DEF Owns
  <2>2. \/ sched'.pc = "admit" /\ lockOwner'[s] = sched.job
        \/ sched'.pc = "reappend"
    <3>1. CASE lockOwner[s] = 0
      <4>1. lockOwner' = [lockOwner EXCEPT ![s] = sched.job] /\ SchedulerAt("admit")
        BY <1>5, <3>1 DEF AcquireSession
      <4> QED BY <1>2, <1>3, <4>1, Places DEF SchedulerPC
    <3>2. CASE lockOwner[s] # 0  BY <1>5, <3>2, Places DEF AcquireSession, SchedulerPC
    <3> QED BY <3>1, <3>2
  <2>3. sched'.job = sched.job  BY <1>5, Places DEF AcquireSession, SchedulerPC
  <2>4. Free(sched.job)'  BY <1>0, <1>2, <2>3 DEF Free, Carried, Served
  <2>5. SchedulerSound'  BY <1>0, <1>2, <2>2, <2>3, <2>4 DEF SchedulerSound, Engaged, Owns
  <2> QED BY <1>0, <2>1, <2>5, SchedulerMoves
<1> QED BY <1>4, <1>5

\* A step that changes a job nobody carries keeps the invariant, whatever it makes of the
\* job, if it puts no other job into a queue and the scheduler's new place is sound.
LEMMA FreeJobChanges ==
  ASSUME TypeOK, CalmInv, NEW j \in Jobs, Free(j), UNCHANGED <<stream, worker, replay, poll>>,
         UNCHANGED snap \/ (snap'.job # 0 => Exists(snap'.rec)),
         \A i \in Jobs \ {j} : jobs'[i] = jobs[i] /\ (Owns(i) => Owns(i)') /\ (InQueue(i)' => InQueue(i)),
         Exists(jobs'[j]) <=> Exists(jobs[j]), InQueue(j)' => Exists(jobs'[j]), QueuesApart',
         \A i \in Jobs : Exists(rows[i]) => Exists(rows'[i]), dirty' \subseteq dirty \cup {j},
         Exists(jobs'[j]) \/ dirty' \subseteq dirty,
         (\A i : Free(i)' <=> Free(i)) => SchedulerSound'
  PROVE  CalmInv'
<1>1. \A i \in Jobs : ~Free(i) => Stands(i)  BY UntouchedStands
<1>2. /\ replay'.job = 0 /\ poll'.job = 0
      /\ OneDelivery' /\ MessagesAwaited' /\ ServicesSound'
      /\ \A i : Free(i)' <=> Free(i)
  BY <1>1, NoDelivery
<1>3. QueuesSound /\ RowsKnown  BY DEF CalmInv
<1>4. ASSUME NEW i \in Jobs, InQueue(i)' PROVE Exists(jobs'[i]) /\ Free(i)'
  <2>1. CASE i = j  BY <1>2, <1>4, <2>1 DEF InQueue
  <2>2. CASE i # j  BY <1>2, <1>3, <1>4, <2>2 DEF QueuesSound
  <2> QED BY <2>1, <2>2
<1>5. ASSUME NEW i \in Jobs, jobs'[i].status \in {"absent", "queued"} PROVE Free(i)'
  <2>1. CASE i = j  BY <1>2, <2>1
  <2>2. CASE i # j  BY <1>2, <1>3, <1>5, <2>2 DEF QueuesSound
  <2> QED BY <2>1, <2>2
<1>6. QueuesSound'  BY <1>4, <1>5 DEF QueuesSound, Exists
<1>7. \A i \in Jobs : Exists(jobs'[i]) <=> Exists(jobs[i])  OBVIOUS
<1>8. RowsKnown'
  <2>1. dirty \subseteq Jobs  BY StateTypes
  <2> QED BY <1>3, <1>7, <2>1 DEF RowsKnown, Exists
<1> QED BY <1>2, <1>6, <1>8 DEF CalmInv

\* The job at the head of its queue, once it is taken, is in no queue.
LEMMA Taken ==
  ASSUME TypeOK, QueuesApart, NEW j \in Jobs,
         queues' = [queues EXCEPT ![KeyOf[j]] = IF AtHead(j) THEN Tail(@) ELSE @]
  PROVE  /\ QueuesApart'
         /\ \A i \in Jobs : InQueue(i)' => InQueue(i)
         /\ AtHead(j) => ~InQueue(j)'
<1> DEFINE k == KeyOf[j]  q == queues[k]  r == Tail(q)
<1>0. queues \in Queues /\ k \in Keys /\ q \in Seq(Jobs)  BY StateTypes, ScopeTypes, QueueTypes
<1>1. CASE ~AtHead(j)
  <2>1. \A x \in Keys : queues'[x] = queues[x]  BY <1>0, <1>1 DEF Queues
  <2>2. QueuesApart'  BY <2>1 DEF QueuesApart
  <2>3. \A i \in Jobs : InQueue(i)' => InQueue(i)  BY <2>1, ScopeTypes DEF InQueue
  <2> QED BY <1>1, <2>2, <2>3
<1>2. CASE AtHead(j)
  <2>1. queues'[k] = r /\ \A x \in Keys \ {k} : queues'[x] = queues[x]  BY <1>0, <1>2 DEF Queues
  <2>2. q # <<>> /\ Head(q) = j  BY <1>2 DEF AtHead
  <2>3. \A m, n \in 1..Len(q) : KeyOf[q[m]] = k /\ (q[m] = q[n] => m = n)
    BY <1>0 DEF QueuesApart
  <2> HIDE DEF q
  <2>4. /\ Len(q) \in Nat \ {0} /\ q[1] = j /\ Len(r) = Len(q) - 1
        /\ \A n \in 1..Len(q) - 1 : r[n] = q[n + 1]
    BY <1>0, <2>2
  <2> HIDE DEF r
  <2>5. /\ \A m, n \in 1..Len(r) : KeyOf[r[m]] = k /\ (r[m] = r[n] => m = n)
        /\ \A n \in 1..Len(r) : r[n] # j /\ \E m \in 1..Len(q) : q[m] = r[n]
    <3>1. \A n \in 1..Len(r) : n + 1 \in 1..Len(q) /\ n + 1 # 1 /\ r[n] = q[n + 1]  BY <2>4
    <3>2. \A m, n \in 1..Len(r) : m + 1 = n + 1 => m = n  BY <2>4
    <3>3. 1 \in 1..Len(q)  BY <2>4
    <3> QED BY <2>3, <2>4, <3>1, <3>2, <3>3
  <2>6. QueuesApart'
    <3> SUFFICES ASSUME NEW x \in Keys, NEW m \in 1..Len(queues'[x]), NEW n \in 1..Len(queues'[x])
                 PROVE  KeyOf[queues'[x][m]] = x /\ (queues'[x][m] = queues'[x][n] => m = n)
      BY DEF QueuesApart
    <3>1. CASE x = k
      <4>1. queues'[x] = r /\ m \in 1..Len(r) /\ n \in 1..Len(r)  BY <2>1, <3>1
      <4>2. KeyOf[r[m]] = k /\ (r[m] = r[n] => m = n)  BY <2>5, <4>1
      <4> QED BY <3>1, <4>1, <4>2
    <3>2. CASE x # k  BY <2>1, <3>2 DEF QueuesApart
    <3> QED BY <3>1, <3>2
  <2>7. ASSUME NEW i \in Jobs, InQueue(i)' PROVE InQueue(i)
    <3>1. CASE KeyOf[i] # k  BY <2>1, <2>7, <3>1, ScopeTypes DEF InQueue
    <3>2. CASE KeyOf[i] = k  BY <2>1, <2>5, <2>7, <3>2 DEF InQueue, q
    <3> QED BY <3>1, <3>2
  <2>8. ~InQueue(j)'  BY <2>1, <2>5 DEF InQueue
  <2> QED BY <2>6, <2>7, <2>8
<1> QED BY <1>1, <1>2

\* Admission keeps the invariant: the job leaves its queue with a fresh token and the lock
\* of its session.
LEMMA AdmitCalm ==
  ASSUME TypeOK, CalmInv, AdmitJob
  PROVE  CalmInv'
<1> USE DEF queueVars, pendingVars, storeVars, brokerVars, readVars, countVars
<1> DEFINE j == sched.job
           admitted == [status |-> "admitted", attempt |-> jobs[j].attempt + 1,
                        fence |-> jobs[j].fence + 1, token |-> tokens[j] + 1, lease |-> "live"]
<1>1. sched.pc = "admit" /\ AtHead(j) /\ jobs[j].status = "queued"  BY DEF AdmitJob, Admissible
<1>2. j \in Jobs /\ jobs \in [Jobs -> JobRecord] /\ sched \in Scheduler  BY <1>1, StateTypes
<1>3. Free(j) /\ Owns(j)  BY <1>1 DEF CalmInv, SchedulerSound, Engaged
<1>4. jobs'[j] = admitted /\ \A i \in Jobs \ {j} : jobs'[i] = jobs[i]  BY <1>2 DEF AdmitJob
<1>5. sched'.pc = "stage" /\ sched'.job = j /\ sched'.rec = admitted
  BY <1>2 DEF AdmitJob, Scheduler
<1>6. queues' = [queues EXCEPT ![KeyOf[j]] = IF AtHead(j) THEN Tail(@) ELSE @]
  BY <1>1 DEF AdmitJob
<1>7. QueuesApart' /\ (\A i \in Jobs : InQueue(i)' => InQueue(i)) /\ ~InQueue(j)'
  <2>1. QueuesApart  BY DEF CalmInv, QueuesSound
  <2>2. PICK i \in Jobs : i = j  BY <1>2
  <2>3. AtHead(i) /\ queues' = [queues EXCEPT ![KeyOf[i]] = IF AtHead(i) THEN Tail(@) ELSE @]
    BY <1>1, <1>6, <2>2
  <2>4. QueuesApart' /\ (\A x \in Jobs : InQueue(x)' => InQueue(x)) /\ ~InQueue(i)'
    BY <2>1, <2>3, Taken
  <2> QED BY <1>5, <2>2, <2>4 DEF InQueue
<1>8. UNCHANGED <<stream, worker, dirty, snap, rows, replay, poll, lockOwner>>  BY DEF AdmitJob
<1>9. ASSUME \A i : Free(i)' <=> Free(i) PROVE SchedulerSound'
  <2> DEFINE a == admitted
  <2>0. a.status = "admitted" /\ a.lease = "live"  OBVIOUS
  <2> HIDE DEF a
  <2>1. Awaited(sched.job, sched.rec.token)'
    BY <1>3, <1>4, <1>5, <1>8, <2>0 DEF Awaited, Owns, a
  <2>2. ~InQueue(sched.job)'  BY <1>5, <1>7 DEF InQueue
  <2>3. Exists(sched.rec)' /\ Exists(jobs[sched.job])'  BY <1>4, <1>5, <2>0 DEF Exists, a
  <2>4. Free(sched.job)'  BY <1>3, <1>5, <1>8 DEF Free, Carried, Served
  <2> QED BY <1>5, <2>1, <2>2, <2>3, <2>4 DEF SchedulerSound
<1>10. \A i \in Jobs : Owns(i) => Owns(i)'  BY <1>8 DEF Owns
<1>11. Exists(jobs[j]) /\ Exists(jobs'[j])  BY <1>1, <1>4 DEF Exists
<1> QED BY <1>2, <1>3, <1>4, <1>7, <1>8, <1>9, <1>10, <1>11, FreeJobChanges

\* Writing the admission to the job's row keeps the invariant.
LEMMA StageCalm ==
  ASSUME TypeOK, CalmInv, StageDispatch
  PROVE  CalmInv'
<1> USE DEF queueVars, pendingVars, storeVars, brokerVars, readVars, countVars
<1> DEFINE j == sched.job
<1>1. sched.pc = "stage" /\ SchedulerSound  BY DEF StageDispatch, CalmInv
<1>2. j \in Jobs /\ rows \in [Jobs -> JobRecord] /\ sched \in Scheduler  BY <1>1, StateTypes
<1>3. /\ Free(j) /\ Exists(jobs[j]) /\ Exists(sched.rec)
      /\ Awaited(j, sched.rec.token) /\ ~InQueue(j)
  BY <1>1 DEF SchedulerSound, Engaged
<1>4. UNCHANGED <<jobs, queues, stream, worker, dirty, snap, replay, poll, lockOwner>>
  BY DEF StageDispatch
<1>5. /\ sched'.pc \in {"enqueue", "failed"} /\ sched'.job = j /\ sched'.rec = sched.rec
      /\ rows' = rows \/ rows' = [rows EXCEPT ![j] = sched.rec]
  BY <1>1, Places DEF StageDispatch, SchedulerPC
<1>6. \A i \in Jobs : Exists(rows[i]) => Exists(rows'[i])  BY <1>2, <1>3, <1>5 DEF Exists
<1>7. \A i \in Jobs : (Owns(i) => Owns(i)') /\ (InQueue(i)' => InQueue(i))
  BY <1>4 DEF Owns, InQueue
<1>8. QueuesApart'  BY <1>4 DEF CalmInv, QueuesSound, QueuesApart
<1>9. ASSUME \A i : Free(i)' <=> Free(i) PROVE SchedulerSound'
  <2>1. Awaited(sched.job, sched.rec.token)'  BY <1>3, <1>4, <1>5 DEF Awaited, Owns
  <2>2. ~InQueue(sched.job)'  BY <1>3, <1>4, <1>5 DEF InQueue
  <2>3. Exists(sched.rec)' /\ Exists(jobs[sched.job])'  BY <1>3, <1>4, <1>5
  <2>4. Free(sched.job)'  BY <1>3, <1>4, <1>5 DEF Free, Carried, Served
  <2> QED BY <1>5, <2>1, <2>2, <2>3, <2>4 DEF SchedulerSound
<1> QED BY <1>2, <1>3, <1>4, <1>6, <1>7, <1>8, <1>9, FreeJobChanges

\* The message of an admission is the one delivery of its job.
LEMMA EnqueueCalm ==
  ASSUME TypeOK, CalmInv, EnqueueDispatch
  PROVE  CalmInv'
<1> USE DEF queueVars, pendingVars, storeVars, brokerVars, readVars, countVars
<1> DEFINE j == sched.job  t == sched.rec.token  m == [job |-> j, token |-> t]
<1>1. sched.pc = "enqueue" /\ SchedulerSound  BY DEF EnqueueDispatch, CalmInv
<1>2. j \in Jobs /\ stream \in Seq(Message) /\ Len(stream) \in Nat /\ t \in Nat  BY <1>1, StateTypes
<1>3. /\ Free(j) /\ Exists(jobs[j]) /\ Awaited(j, t) /\ ~InQueue(j)
      /\ jobs[j].status \in {"admitted", "cancel_requested"}
  BY <1>1 DEF SchedulerSound, Engaged, Awaited
<1>4. UNCHANGED <<jobs, queues, worker, rows, dirty, snap, replay, poll, lockOwner>>
  BY DEF EnqueueDispatch
<1>5. sched'.pc = "mark" /\ sched'.job = j  BY <1>1, Places DEF EnqueueDispatch, SchedulerPC
<1>6. /\ Len(stream') = Len(stream) + 1 /\ stream'[Len(stream) + 1] = m
      /\ \A n \in 1..Len(stream) : stream'[n] = stream[n]
  BY <1>2, AppendProperties DEF EnqueueDispatch, Message
<1>7. m.job = j /\ m.token = t  OBVIOUS
<1> HIDE DEF m
<1>8. \A n \in 1..Len(stream') :
        \/ n \in 1..Len(stream) /\ stream'[n] = stream[n]
        \/ n = Len(stream) + 1 /\ stream'[n].job = j /\ stream'[n].token = t
  BY <1>2, <1>6, <1>7
<1>9. (\A n \in 1..Len(stream) : stream[n].job # j) /\ \A w \in Workers : worker[w].job # j
  BY <1>3 DEF Free, Carried, Served
<1>10. OneDelivery'
  <2>1. OneDelivery  BY DEF CalmInv
  <2>2. \A a, b \in 1..Len(stream') : stream'[a].job = stream'[b].job => a = b
    BY <1>8, <1>9, <2>1 DEF OneDelivery
  <2>3. \A a \in 1..Len(stream'), w \in Workers : stream'[a].job # worker'[w].job
    BY <1>4, <1>8, <1>9, <2>1 DEF OneDelivery
  <2> QED BY <1>4, <2>1, <2>2, <2>3 DEF OneDelivery
<1>11. MessagesAwaited'
  <2> SUFFICES ASSUME NEW n \in 1..Len(stream') PROVE Awaited(stream[n].job, stream[n].token)'
    BY DEF MessagesAwaited
  <2>1. CASE n \in 1..Len(stream) /\ stream'[n] = stream[n]
    BY <1>4, <2>1 DEF CalmInv, MessagesAwaited, Awaited, Owns
  <2>2. CASE stream'[n].job = j /\ stream'[n].token = t
    BY <1>3, <1>4, <2>2 DEF Awaited, Owns
  <2> QED BY <1>8, <2>1, <2>2
<1>12. ServicesSound'
  BY <1>4 DEF CalmInv, ServicesSound, ServiceSound, Shared, Executing, Awaited, Ongoing, Owns
<1>13. SchedulerSound'  BY <1>3, <1>4, <1>5 DEF SchedulerSound, Engaged
<1>14. ASSUME NEW i \in Jobs, i # j, Free(i) PROVE Free(i)'
  BY <1>4, <1>8, <1>14 DEF Free, Carried, Served
<1>15. QueuesSound'
  <2>1. QueuesSound  BY DEF CalmInv
  <2>2. QueuesApart'  BY <1>4, <2>1 DEF QueuesSound, QueuesApart
  <2>3. ASSUME NEW i \in Jobs, InQueue(i)' PROVE Exists(jobs'[i]) /\ Free(i)'
    <3>1. InQueue(i)  BY <1>4, <2>3 DEF InQueue
    <3> QED BY <1>3, <1>4, <1>14, <2>1, <3>1 DEF QueuesSound
  <2>4. ASSUME NEW i \in Jobs, jobs'[i].status \in {"absent", "queued"} PROVE Free(i)'
    BY <1>3, <1>4, <1>14, <2>1, <2>4 DEF QueuesSound
  <2> QED BY <2>2, <2>3, <2>4 DEF QueuesSound, Exists
<1> QED BY <1>4, <1>10, <1>11, <1>12, <1>13, <1>15 DEF CalmInv, RowsKnown

\* A job that was in no queue, put at the head of its queue.
LEMMA Prepended ==
  ASSUME TypeOK, QueuesApart, NEW j \in Jobs, ~InQueue(j),
         queues' = [queues EXCEPT ![KeyOf[j]] = <<j>> \o @]
  PROVE  QueuesApart' /\ \A i \in Jobs \ {j} : InQueue(i)' => InQueue(i)
<1> DEFINE k == KeyOf[j]  q == queues[k]  r == <<j>> \o q
<1>0. queues \in Queues /\ k \in Keys /\ q \in Seq(Jobs)  BY StateTypes, ScopeTypes, QueueTypes
<1>1. queues'[k] = r /\ \A x \in Keys \ {k} : queues'[x] = queues[x]  BY <1>0 DEF Queues
<1>2. /\ \A m, n \in 1..Len(q) : KeyOf[q[m]] = k /\ (q[m] = q[n] => m = n)
      /\ \A n \in 1..Len(q) : q[n] # j
  BY <1>0 DEF QueuesApart, InQueue
<1> HIDE DEF q
<1>3. /\ Len(q) \in Nat /\ Len(r) = Len(q) + 1 /\ r[1] = j
      /\ \A n \in 1..Len(q) + 1 : n # 1 => n - 1 \in 1..Len(q) /\ r[n] = q[n - 1]
  <2>1. <<j>> \in Seq(Jobs) /\ Len(<<j>>) = 1 /\ <<j>>[1] = j  OBVIOUS
  <2>2. /\ Len(r) = 1 + Len(q)
        /\ \A n \in 1..1 + Len(q) : r[n] = IF n <= 1 THEN <<j>>[n] ELSE q[n - 1]
    BY <1>0, <2>1, ConcatProperties
  <2>3. Len(q) \in Nat  BY <1>0
  <2> HIDE DEF r
  <2> QED BY <2>1, <2>2, <2>3
<1> HIDE DEF r
<1>4. ASSUME NEW m \in 1..Len(r), NEW n \in 1..Len(r)
      PROVE  KeyOf[r[m]] = k /\ (r[m] = r[n] => m = n)
  <2>1. (m = 1 /\ r[m] = j) \/ (m - 1 \in 1..Len(q) /\ r[m] = q[m - 1])  BY <1>3
  <2>2. (n = 1 /\ r[n] = j) \/ (n - 1 \in 1..Len(q) /\ r[n] = q[n - 1])  BY <1>3
  <2>3. m - 1 = n - 1 => m = n  BY <1>3
  <2> QED BY <1>2, <2>1, <2>2, <2>3
<1>5. QueuesApart'
  <2> SUFFICES ASSUME NEW x \in Keys, NEW m \in 1..Len(queues'[x]), NEW n \in 1..Len(queues'[x])
               PROVE  KeyOf[queues'[x][m]] = x /\ (queues'[x][m] = queues'[x][n] => m = n)
    BY DEF QueuesApart
  <2>1. CASE x = k
    <3>1. queues'[x] = r /\ m \in 1..Len(r) /\ n \in 1..Len(r)  BY <1>1, <2>1
    <3> QED BY <1>4, <2>1, <3>1
  <2>2. CASE x # k  BY <1>1, <2>2 DEF QueuesApart
  <2> QED BY <2>1, <2>2
<1>6. ASSUME NEW i \in Jobs \ {j}, InQueue(i)' PROVE InQueue(i)
  <2>1. CASE KeyOf[i] # k  BY <1>1, <1>6, <2>1, ScopeTypes DEF InQueue
  <2>2. CASE KeyOf[i] = k
    <3>1. PICK n \in 1..Len(r) : r[n] = i  BY <1>1, <1>6, <2>2 DEF InQueue
    <3>2. n # 1 /\ n \in 1..Len(q) + 1  BY <1>3, <3>1
    <3>3. n - 1 \in 1..Len(q) /\ q[n - 1] = i  BY <1>3, <3>1, <3>2
    <3> QED BY <2>2, <3>3 DEF InQueue, q
  <2> QED BY <2>1, <2>2
<1> QED BY <1>5, <1>6

\* ... or left where it is when it is in its queue.
LEMMA Requeued ==
  ASSUME TypeOK, QueuesApart, NEW j \in Jobs, Requeue(j)
  PROVE  QueuesApart' /\ \A i \in Jobs \ {j} : InQueue(i)' => InQueue(i)
<1>0. queues \in Queues /\ KeyOf[j] \in Keys  BY StateTypes, ScopeTypes
<1>1. CASE InQueue(j)
  <2>1. \A k \in Keys : queues'[k] = queues[k]  BY <1>0, <1>1 DEF Requeue, Queues
  <2>2. QueuesApart'  BY <2>1 DEF QueuesApart
  <2>3. \A i \in Jobs : InQueue(i)' => InQueue(i)  BY <2>1, ScopeTypes DEF InQueue
  <2> QED BY <2>2, <2>3
<1>2. CASE ~InQueue(j)
  <2>1. queues' = [queues EXCEPT ![KeyOf[j]] = <<j>> \o @]  BY <1>2 DEF Requeue
  <2> QED BY <1>2, <2>1, Prepended
<1> QED BY <1>1, <1>2

\* Merging the row of a job that no worker carries changes that job only.
LEMMA FreeMerge ==
  ASSUME TypeOK, NEW j \in Jobs, NEW rec, Free(j), Merge(j, rec)
  PROVE  /\ worker' = worker
         /\ \A i \in Jobs \ {j} : jobs'[i] = jobs[i]
         /\ jobs'[j] = jobs[j] \/ (PersistedWins(jobs[j], rec) /\ jobs'[j] = rec)
<1>0. worker \in [Workers -> Worker] /\ \A w \in Workers : worker[w].job # j
  BY StateTypes DEF Free, Served
<1>1. CASE PersistedWins(jobs[j], rec)
  <2>1. Replace(j, rec)  BY <1>1 DEF Merge
  <2>2. worker' = [w \in Workers |-> worker[w]]  BY <1>0, <2>1 DEF Replace
  <2>3. worker' = worker  BY <1>0, <2>2
  <2> QED BY <1>1, <2>1, <2>3, ReplaceFrame
<1>2. CASE ~PersistedWins(jobs[j], rec)  BY <1>2 DEF Merge
<1> QED BY <1>1, <1>2

\* Merging the latest row keeps the invariant: the job the scheduler has taken from its queue
\* is carried by nobody, whatever its row says.
LEMMA MergeCalm ==
  ASSUME TypeOK, CalmInv, MergeLatest
  PROVE  CalmInv'
<1> USE DEF queueVars, pendingVars, storeVars, brokerVars, readVars, countVars
<1>1. sched.pc = "merge" /\ SchedulerSound  BY DEF MergeLatest, CalmInv
<1>2. PICK j \in Jobs : j = sched.job  BY <1>1, StateTypes
<1>3. Free(j) /\ Exists(jobs[j])  BY <1>1, <1>2 DEF SchedulerSound, Engaged
<1>4. /\ worker' = worker
      /\ \A i \in Jobs \ {j} : jobs'[i] = jobs[i]
      /\ jobs'[j] = jobs[j] \/ (PersistedWins(jobs[j], sched.rec) /\ jobs'[j] = sched.rec)
  BY <1>2, <1>3, FreeMerge DEF MergeLatest
<1>5. Exists(jobs'[j])  BY <1>3, <1>4 DEF PersistedWins
<1>6. UNCHANGED <<stream, lockOwner, rows, dirty, snap, replay, poll>>  BY DEF MergeLatest
<1>7. QueuesApart  BY DEF CalmInv, QueuesSound
<1>8. QueuesApart' /\ \A i \in Jobs : InQueue(i)' => InQueue(i)
  <2>1. \/ UNCHANGED queues
        \/ queues' = [queues EXCEPT ![KeyOf[j]] = IF AtHead(j) THEN Tail(@) ELSE @]
    BY <1>2 DEF MergeLatest
  <2>2. CASE UNCHANGED queues  BY <1>7, <2>2 DEF QueuesApart, InQueue
  <2>3. CASE queues' = [queues EXCEPT ![KeyOf[j]] = IF AtHead(j) THEN Tail(@) ELSE @]
    BY <1>7, <2>3, Taken
  <2> QED BY <2>1, <2>2, <2>3
<1>9. sched'.pc = "idle" \/ (sched'.pc = "acquire" /\ sched'.job = j)
  <2>1. \/ sched' = IdleScheduler
        \/ sched' = [sched EXCEPT !.pc = "acquire", !.rec = NoJob]
    BY DEF MergeLatest
  <2>2. sched \in Scheduler  BY StateTypes
  <2>3. CASE sched' = IdleScheduler  BY <2>3, Places
  <2>4. CASE sched' = [sched EXCEPT !.pc = "acquire", !.rec = NoJob]
    BY <1>2, <2>2, <2>4 DEF Scheduler
  <2> QED BY <2>1, <2>3, <2>4
<1>10. SchedulerSound'
  BY <1>3, <1>4, <1>5, <1>6, <1>9 DEF SchedulerSound, Engaged, Free, Carried, Served
<1>11. \A i \in Jobs : Owns(i) => Owns(i)'  BY <1>6 DEF Owns
<1> QED BY <1>3, <1>4, <1>5, <1>6, <1>8, <1>10, <1>11, FreeJobChanges

\* A failed dispatch gives back a job whose message was never sent.
LEMMA HandlingCalm ==
  ASSUME TypeOK, CalmInv, HandleDispatchFailure
  PROVE  CalmInv'
<1> USE DEF queueVars, pendingVars, storeVars, brokerVars, readVars, countVars
<1>1. sched.pc = "failed" /\ SchedulerSound  BY DEF HandleDispatchFailure, CalmInv
<1>2. PICK j \in Jobs : j = sched.job  BY <1>1, StateTypes
<1>3. Free(j) /\ Exists(jobs[j]) /\ ~InQueue(j)
  BY <1>1, <1>2 DEF SchedulerSound, Engaged, InQueue
<1>4. jobs \in [Jobs -> JobRecord] /\ jobs[j] \in JobRecord  BY StateTypes
<1>5. \A i \in Jobs \ {j} : jobs'[i] = jobs[i]  BY <1>2, <1>4 DEF HandleDispatchFailure
<1>6. Exists(jobs'[j])
  <2>1. \E st \in {"failed", "queued", jobs[j].status} : jobs'[j] = Withdrawn(jobs[j], st)
    BY <1>2, <1>4 DEF HandleDispatchFailure
  <2>2. ASSUME NEW st PROVE Withdrawn(jobs[j], st).status = st  BY <1>4 DEF Withdrawn, JobRecord
  <2> QED BY <1>3, <2>1, <2>2 DEF Exists
<1>7. /\ UNCHANGED <<stream, worker, lockOwner, rows, snap, replay, poll>>
      /\ dirty' \subseteq dirty \cup {j}
  BY <1>2 DEF HandleDispatchFailure, PersistJob
<1>8. QueuesApart' /\ \A i \in Jobs \ {j} : InQueue(i)' => InQueue(i)
  <2>1. QueuesApart  BY DEF CalmInv, QueuesSound
  <2>2. \/ UNCHANGED queues
        \/ queues' = [queues EXCEPT ![KeyOf[j]] = <<j>> \o @]
    BY <1>2 DEF HandleDispatchFailure
  <2>3. CASE UNCHANGED queues  BY <2>1, <2>3 DEF QueuesApart, InQueue
  <2> QED BY <1>3, <2>1, <2>2, <2>3, Prepended
<1>9. sched'.pc = "idle" \/ (sched'.pc = "unlock" /\ sched'.job = j)
  BY <1>2, Places DEF HandleDispatchFailure, SchedulerPC
<1>10. SchedulerSound'
  BY <1>3, <1>6, <1>7, <1>9 DEF SchedulerSound, Engaged, Free, Carried, Served
<1>11. \A i \in Jobs : Owns(i) => Owns(i)'  BY <1>7 DEF Owns
<1> QED BY <1>3, <1>5, <1>6, <1>7, <1>8, <1>10, <1>11, FreeJobChanges

\* _schedule_once keeps the invariant.
LEMMA DispatchingCalm ==
  ASSUME TypeOK, CalmInv, Calm, Dispatching \/ LoadFails \/ DispatchFails
  PROVE  CalmInv'
BY MovesCalm, LockCalm, AdmitCalm, StageCalm, EnqueueCalm, MergeCalm, HandlingCalm DEF Dispatching

\* A job whose lease has run out while it waits or runs is carried by nobody.
LEMMA StalledIsFree ==
  ASSUME TypeOK, CalmInv, NEW j \in Jobs, Leased(jobs[j]), jobs[j].lease # "live"
  PROVE  Free(j)
<1>1. jobs[j].status \in {"admitted", "running"}  BY DEF Leased
<1>2. ~Carried(j)  BY <1>1 DEF Carried, CalmInv, MessagesAwaited, Awaited
<1>3. ASSUME NEW w \in Workers, worker[w].job = j PROVE FALSE
  <2>1. ServiceSound(w)  BY DEF CalmInv, ServicesSound
  <2>2. worker[w].pc \in WorkerPC  BY StateTypes DEF Worker
  <2>3. worker[w].pc # "idle"  BY <1>3, <2>1, JobNumbers DEF ServiceSound
  <2> QED BY <1>1, <1>3, <2>1, <2>2, <2>3
      DEF ServiceSound, WorkerPC, Executing, Awaited, Ongoing, Terminal
<1> QED BY <1>2, <1>3 DEF Free, Served

\* _recover_stalled_jobs keeps the invariant: it takes up only jobs that nobody carries.
LEMMA SweepingCalm ==
  ASSUME TypeOK, CalmInv, Sweeping
  PROVE  CalmInv'
<1> USE DEF queueVars, pendingVars, storeVars, brokerVars, readVars, countVars
<1>0. jobs \in [Jobs -> JobRecord] /\ sched \in Scheduler  BY StateTypes
<1>a. ASSUME NEW j, sched.pc = "sweep" PROVE SweptFrom(j).pc \in {"idle", "sweep"}
  BY <1>0, <1>a DEF SweptFrom, IdleScheduler, Scheduler
<1>b. QueuesApart  BY DEF CalmInv, QueuesSound
<1>c. ASSUME NEW j \in Jobs, NEW st, st # "absent", jobs' = [jobs EXCEPT ![j] = Withdrawn(@, st)]
      PROVE  Exists(jobs'[j]) /\ \A i \in Jobs \ {j} : jobs'[i] = jobs[i]
  BY <1>0, <1>c DEF Withdrawn, JobRecord, Exists
<1>1. CASE LoadStale
  <2>1. sched'.pc = "sweep"  BY <1>0, <1>1 DEF LoadStale, Scheduler
  <2>2. SchedulerSound'  BY <2>1 DEF SchedulerSound, Engaged
  <2>3. \A i \in Jobs : Owns(i) => Owns(i)'  BY <1>1 DEF LoadStale, Owns
  <2> QED BY <1>1, <2>2, <2>3, SchedulerMoves DEF LoadStale
<1>2. ASSUME NEW j \in Jobs, SkipStalled(j) PROVE CalmInv'
  <2>1. sched'.pc \in {"idle", "sweep"}  BY <1>2, <1>a DEF SkipStalled
  <2>2. SchedulerSound'  BY <2>1 DEF SchedulerSound, Engaged
  <2>3. \A i \in Jobs : Owns(i) => Owns(i)'  BY <1>2 DEF SkipStalled, Owns
  <2> QED BY <1>2, <2>2, <2>3, SchedulerMoves DEF SkipStalled
<1>3. ASSUME NEW j \in Jobs, FailStalled(j) PROVE CalmInv'
  <2>0. Free(j) /\ Exists(jobs[j]) /\ sched.pc = "sweep"
    BY <1>3, StalledIsFree DEF FailStalled, Stalled, Exists, Leased
  <2>1. sched'.pc \in {"idle", "sweep"}  BY <1>3, <1>a, <2>0 DEF FailStalled
  <2>2. SchedulerSound'  BY <2>1 DEF SchedulerSound, Engaged
  <2>3. UNCHANGED <<queues, stream, worker, lockOwner, rows, snap, replay, poll>>
        /\ dirty' \subseteq dirty \cup {j}
    BY <1>3 DEF FailStalled, PersistJob
  <2>4. Exists(jobs'[j]) /\ \A i \in Jobs \ {j} : jobs'[i] = jobs[i]
    BY <1>3, <1>c DEF FailStalled
  <2>5. QueuesApart' /\ \A i \in Jobs : (Owns(i) => Owns(i)') /\ (InQueue(i)' => InQueue(i))
    BY <1>b, <2>3 DEF Owns, InQueue, QueuesApart
  <2> QED BY <2>0, <2>2, <2>3, <2>4, <2>5, FreeJobChanges
<1>4. ASSUME NEW j \in Jobs, RequeueStalled(j) PROVE CalmInv'
  <2>0. Free(j) /\ Exists(jobs[j])
    BY <1>4, StalledIsFree DEF RequeueStalled, Stalled, Exists, Leased
  <2>1. sched'.pc = "sweepunlock" /\ sched'.job = j
    BY <1>0, <1>4 DEF RequeueStalled, Scheduler
  <2>3. UNCHANGED <<stream, worker, lockOwner, rows, snap, replay, poll>>
        /\ dirty' \subseteq dirty \cup {j}
    BY <1>4 DEF RequeueStalled, PersistJob
  <2>4. Exists(jobs'[j]) /\ \A i \in Jobs \ {j} : jobs'[i] = jobs[i]
    BY <1>4, <1>c DEF RequeueStalled
  <2>5. QueuesApart' /\ \A i \in Jobs \ {j} : InQueue(i)' => InQueue(i)
    BY <1>4, <1>b, Requeued DEF RequeueStalled
  <2>6. \A i \in Jobs : Owns(i) => Owns(i)'  BY <2>3 DEF Owns
  <2>7. SchedulerSound'
    BY <2>0, <2>1, <2>3, <2>4 DEF SchedulerSound, Engaged, Free, Carried, Served
  <2> QED BY <2>0, <2>3, <2>4, <2>5, <2>6, <2>7, FreeJobChanges
<1>5. CASE SweepUnlock
  <2>1. SchedulerSound /\ sched.pc = "sweepunlock"  BY <1>5 DEF CalmInv, SweepUnlock
  <2>2. sched.job \in Jobs /\ Free(sched.job)  BY <2>1, StateTypes DEF SchedulerSound, Engaged
  <2>3. sched'.pc \in {"idle", "sweep"}
    <3>1. \A x \in Scheduler : \A p : [x EXCEPT !.job = 0, !.pc = p].pc = p  BY DEF Scheduler
    <3>2. SweptFrom(sched.job) \in Scheduler  BY <2>2, SweptType
    <3> QED BY <1>5, <3>1, <3>2 DEF SweepUnlock
  <2>4. SchedulerSound'  BY <2>3 DEF SchedulerSound, Engaged
  <2>5. \A i \in Jobs : ~Free(i) /\ Owns(i) => Owns(i)'
    BY <1>5, <2>2, ReleaseFrame DEF SweepUnlock
  <2> QED BY <1>5, <2>4, <2>5, SchedulerMoves DEF SweepUnlock
<1> QED BY <1>1, <1>2, <1>3, <1>4, <1>5 DEF Sweeping

\* A step of a worker concerns the job it carries, which is in no queue, and which the
\* scheduler is done with: the step keeps the invariant if it leaves the worker sound.
LEMMA WorkerSteps ==
  ASSUME TypeOK, CalmInv, NEW w \in Workers, NEW j \in Jobs, worker[w].job = j,
         NEW x, worker' = [worker EXCEPT ![w] = x], x.job \in {0, j},
         UNCHANGED <<stream, queues, sched, rows, snap, replay, poll>>,
         \A i \in Jobs \ {j} : jobs'[i] = jobs[i] /\ (Owns(i) => Owns(i)'),
         Exists(jobs[j]), jobs'[j].status \notin {"absent", "queued"},
         dirty' \subseteq dirty \cup {j}, ServiceSound(w)'
  PROVE  CalmInv'
<1>0. worker \in [Workers -> Worker] /\ 0 \notin Jobs  BY StateTypes, JobNumbers
<1>1. worker'[w] = x /\ \A v \in Workers \ {w} : worker'[v] = worker[v]  BY <1>0
<1>2. ~Free(j)  BY DEF Free, Served
<1>3. /\ \A m \in 1..Len(stream) : stream[m].job # j
      /\ \A v \in Workers \ {w} : worker[v].job # j
  BY <1>0 DEF CalmInv, OneDelivery
<1>4. OneDelivery'
  <2>1. OneDelivery  BY DEF CalmInv
  <2>2. \A u, v \in Workers : worker'[v].job # 0 /\ worker'[v].job = worker'[u].job => u = v
    BY <1>1, <1>3, <2>1 DEF OneDelivery
  <2>3. \A m \in 1..Len(stream), v \in Workers : stream[m].job # worker'[v].job
    <3>1. \A m \in 1..Len(stream) : stream[m].job \notin {0, j}  BY <1>0, <1>3, StateTypes
    <3> QED BY <1>1, <2>1, <3>1 DEF OneDelivery
  <2> QED BY <2>1, <2>2, <2>3 DEF OneDelivery
<1>5. MessagesAwaited'
  <2> SUFFICES ASSUME NEW m \in 1..Len(stream) PROVE Awaited(stream[m].job, stream[m].token)'
    BY DEF MessagesAwaited
  <2>1. stream[m].job \in Jobs \ {j}  BY <1>3, StateTypes
  <2>2. Awaited(stream[m].job, stream[m].token)  BY DEF CalmInv, MessagesAwaited
  <2> QED BY <2>1, <2>2 DEF Awaited, Owns
<1>6. ServicesSound'
  <2> SUFFICES ASSUME NEW v \in Workers, v # w PROVE ServiceSound(v)'  BY DEF ServicesSound
  <2>1. ServiceSound(v) /\ worker'[v] = worker[v]  BY <1>1 DEF CalmInv, ServicesSound
  <2>2. worker[v].pc # "idle" => worker[v].job \in Jobs \ {j}  BY <1>3, StateTypes
  <2> QED BY <2>1, <2>2 DEF ServiceSound, Shared, Executing, Awaited, Ongoing, Owns
<1>7. ASSUME NEW i \in Jobs, Free(i) PROVE Free(i)'
  <2>1. i # j /\ i # 0  BY <1>0, <1>2, <1>7
  <2>2. \A v \in Workers : worker'[v].job # i  BY <1>1, <1>7, <2>1 DEF Free, Served
  <2> QED BY <1>7, <2>2 DEF Free, Carried, Served
<1>8. QueuesSound'
  <2>1. QueuesSound  BY DEF CalmInv
  <2>2. QueuesApart'  BY <2>1 DEF QueuesSound, QueuesApart
  <2>3. ASSUME NEW i \in Jobs, InQueue(i)' PROVE Exists(jobs'[i]) /\ Free(i)'
    <3>1. InQueue(i)  BY <2>3 DEF InQueue
    <3>2. i # j  BY <1>2, <2>1, <3>1 DEF QueuesSound
    <3> QED BY <1>7, <2>1, <3>1, <3>2 DEF QueuesSound
  <2>4. ASSUME NEW i \in Jobs, jobs'[i].status \in {"absent", "queued"} PROVE Free(i)'
    <3>1. i # j /\ jobs[i].status \in {"absent", "queued"}  BY <2>4
    <3> QED BY <1>7, <2>1, <3>1 DEF QueuesSound
  <2> QED BY <2>2, <2>3, <2>4 DEF QueuesSound, Exists
<1>9. SchedulerSound'
  <2>1. SchedulerSound  BY DEF CalmInv
  <2>2. Engaged => sched.job \in Jobs  BY StateTypes DEF Engaged
  <2>3. Engaged /\ sched.pc \notin {"mark", "finish"} => sched.job # j
    BY <1>2, <2>1 DEF SchedulerSound
  <2>4. Engaged => Exists(jobs'[sched.job])  BY <2>1, <2>2 DEF SchedulerSound, Exists
  <2>5. Engaged /\ sched.pc \notin {"mark", "finish"} => Free(sched.job)'
    BY <1>7, <2>1, <2>2 DEF SchedulerSound, Free, Carried, Served
  <2>6. ASSUME sched.pc \in {"stage", "enqueue", "failed", "admit"}
        PROVE  jobs'[sched.job] = jobs[sched.job] /\ (Owns(sched.job) => Owns(sched.job)')
    <3>1. sched.job \in Jobs \ {j}  BY <2>2, <2>3, <2>6 DEF Engaged
    <3> QED BY <3>1 DEF Owns
  <2> QED BY <2>1, <2>4, <2>5, <2>6 DEF SchedulerSound, Engaged, Awaited, InQueue
<1>10. RowsKnown'
  <2>1. \A i \in Jobs : Exists(jobs'[i]) <=> Exists(jobs[i])  BY DEF Exists
  <2> QED BY <2>1, StateTypes, RowsStay DEF Exists
<1> QED BY <1>4, <1>5, <1>6, <1>8, <1>9, <1>10 DEF CalmInv

\* What a worker that is not idle knows of its job.
LEMMA ServiceKnows ==
  ASSUME TypeOK, CalmInv, NEW w \in Workers, worker[w].job # 0
  PROVE  /\ worker[w].job \in Jobs /\ worker[w].pc # "idle" /\ ServiceSound(w)
         /\ Exists(jobs[worker[w].job]) /\ jobs[worker[w].job].status # "queued"
         /\ worker[w].pc \in {"begin", "running", "failing", "release", "discard", "settle"}
<1>1. ServiceSound(w)  BY DEF CalmInv, ServicesSound
<1>2. worker[w].pc # "idle"  BY <1>1 DEF ServiceSound
<1>3. worker[w].job \in Jobs /\ worker[w] \in Worker  BY <1>2, StateTypes
<1>4. worker[w].pc \in {"begin", "running", "failing", "release", "discard", "settle"}
  BY <1>1, <1>2, <1>3 DEF Worker, WorkerPC, ServiceSound
<1> QED BY <1>1, <1>2, <1>3, <1>4
    DEF ServiceSound, Executing, Awaited, Ongoing, Terminal, Exists

\* What the fields of a worker are after the rewritings that the worker's steps do.
LEMMA WorkerRewrites ==
  ASSUME NEW x \in Worker, NEW p, NEW b
  PROVE  /\ LET y == [x EXCEPT !.pc = p] IN
              y.pc = p /\ y.job = x.job /\ y.token = x.token /\ y.obj = x.obj /\ y.raised = x.raised
         /\ LET y == [x EXCEPT !.pc = p, !.beat = b] IN
              y.pc = p /\ y.job = x.job /\ y.token = x.token /\ y.obj = x.obj /\ y.raised = x.raised
         /\ LET y == [x EXCEPT !.pc = p, !.raised = b] IN
              y.pc = p /\ y.job = x.job /\ y.token = x.token /\ y.obj = x.obj /\ y.raised = b
         /\ LET y == [x EXCEPT !.pc = p, !.obj = NoJob] IN
              y.pc = p /\ y.job = x.job /\ y.token = x.token /\ y.obj = NoJob /\ y.raised = x.raised
         /\ LET y == [x EXCEPT !.pc = p, !.obj = NoJob, !.beat = b] IN
              y.pc = p /\ y.job = x.job /\ y.token = x.token /\ y.obj = NoJob /\ y.raised = x.raised
         /\ LET y == [x EXCEPT !.beat = b] IN
              y.pc = x.pc /\ y.job = x.job /\ y.token = x.token /\ y.obj = x.obj /\ y.raised = x.raised
BY DEF Worker

\* Taking a message keeps the invariant: the delivery goes from the stream to the worker.
LEMMA TakeCalm ==
  ASSUME TypeOK, CalmInv, NEW w \in Workers, TakeMessage(w)
  PROVE  CalmInv'
<1> USE DEF queueVars, pendingVars, storeVars, brokerVars, readVars, countVars
<1>1. worker[w].pc = "idle" /\ stream # <<>> /\ stream' = Tail(stream)  BY DEF TakeMessage
<1>2. stream \in Seq(Message) /\ worker \in [Workers -> Worker] /\ jobs \in [Jobs -> JobRecord]
  BY StateTypes
<1> DEFINE m == stream[1]
<1>3. /\ Len(stream) \in Nat \ {0} /\ Head(stream) = m /\ Len(stream') = Len(stream) - 1
      /\ 1 \in 1..Len(stream)
      /\ \A n \in 1..Len(stream') : n + 1 \in 1..Len(stream) /\ n + 1 # 1 /\ stream'[n] = stream[n + 1]
  BY <1>1, <1>2
<1>4. m.job \in Jobs /\ m.token \in Nat /\ m.job # 0 /\ worker[w].job = 0
  BY <1>1, <1>3, StateTypes, JobNumbers DEF CalmInv, ServicesSound, ServiceSound
<1>5. Awaited(m.job, m.token)  BY <1>3 DEF CalmInv, MessagesAwaited
<1>6. jobs[m.job].status \in {"admitted", "cancel_requested"}  BY <1>5 DEF Awaited
<1>7. \A i \in Jobs : jobs'[i] = jobs[i]
  BY <1>2, <1>3, <1>4, <1>6 DEF TakeMessage, Exists
<1>8. UNCHANGED <<queues, dirty, snap, rows, lockOwner, sched, replay, poll>>  BY DEF TakeMessage
<1>9. /\ worker'[w].pc = "begin" /\ worker'[w].job = m.job /\ worker'[w].token = m.token
      /\ worker'[w].obj = NoJob /\ ~worker'[w].raised
      /\ \A v \in Workers \ {w} : worker'[v] = worker[v]
  <2>1. worker' = [worker EXCEPT ![w] = [IdleWorker EXCEPT !.pc = "begin", !.job = m.job,
                                                           !.token = m.token]]
    BY <1>3 DEF TakeMessage
  <2> QED BY <1>2, <2>1 DEF IdleWorker
<1>10. OneDelivery  BY DEF CalmInv
<1>11. /\ \A n \in 1..Len(stream') : stream'[n].job # m.job
       /\ \A v \in Workers : worker[v].job # m.job
  BY <1>3, <1>10 DEF OneDelivery
<1> HIDE DEF m
<1>12. OneDelivery'
  <2>1. \A a, b \in 1..Len(stream') : stream'[a].job = stream'[b].job => a = b
    <3>1. \A a, b \in 1..Len(stream') : a + 1 = b + 1 => a = b  BY <1>3
    <3> QED BY <1>3, <1>10, <3>1 DEF OneDelivery
  <2>2. \A u, v \in Workers : worker'[u].job # 0 /\ worker'[u].job = worker'[v].job => u = v
    BY <1>9, <1>10, <1>11 DEF OneDelivery
  <2>3. \A a \in 1..Len(stream'), v \in Workers : stream'[a].job # worker'[v].job
    BY <1>3, <1>9, <1>10, <1>11 DEF OneDelivery
  <2> QED BY <2>1, <2>2, <2>3 DEF OneDelivery
<1>13. \A i \in Jobs : \A t : Awaited(i, t) => Awaited(i, t)'  BY <1>7, <1>8 DEF Awaited, Owns
<1>14. MessagesAwaited'
  <2> SUFFICES ASSUME NEW n \in 1..Len(stream') PROVE Awaited(stream[n].job, stream[n].token)'
    BY DEF MessagesAwaited
  <2>1. Awaited(stream[n + 1].job, stream[n + 1].token)  BY <1>3 DEF CalmInv, MessagesAwaited
  <2>2. stream[n + 1].job \in Jobs  BY <1>3, StateTypes
  <2> QED BY <1>3, <1>7, <1>8, <2>1, <2>2 DEF Awaited, Owns
<1>15. ServicesSound'
  <2> SUFFICES ASSUME NEW v \in Workers PROVE ServiceSound(v)'  BY DEF ServicesSound
  <2>1. CASE v = w
    BY <1>4, <1>5, <1>7, <1>8, <1>9, <2>1
    DEF ServiceSound, Shared, Executing, Awaited, Owns, Exists, NoJob
  <2>2. CASE v # w
    <3>1. ServiceSound(v) /\ worker'[v] = worker[v]  BY <1>9, <2>2 DEF CalmInv, ServicesSound
    <3>2. worker[v].pc # "idle" => worker[v].job \in Jobs  BY StateTypes
    <3> QED BY <1>7, <1>8, <3>1, <3>2 DEF ServiceSound, Shared, Executing, Awaited, Ongoing, Owns
  <2> QED BY <2>1, <2>2
<1>16. ASSUME NEW i \in Jobs, Free(i) PROVE Free(i)'
  <2>1. i # m.job  BY <1>3, <1>16 DEF Free, Carried, m
  <2>2. ~Carried(i)'  BY <1>3, <1>16 DEF Free, Carried
  <2>3. ~Served(i)'  BY <1>9, <1>16, <2>1 DEF Free, Served
  <2> QED BY <2>2, <2>3 DEF Free
<1>17. SchedulerSound'
  <2>1. SchedulerSound /\ (Engaged => sched.job \in Jobs)  BY StateTypes DEF CalmInv, Engaged
  <2>2. Engaged /\ sched.pc \notin {"mark", "finish"} => Free(sched.job)'
    BY <1>8, <1>16, <2>1 DEF SchedulerSound, Free, Carried, Served
  <2> QED BY <1>7, <1>8, <2>1, <2>2 DEF SchedulerSound, Engaged, Awaited, Owns, InQueue
<1>18. QueuesSound'
  <2>1. QueuesSound  BY DEF CalmInv
  <2>2. QueuesApart'  BY <1>8, <2>1 DEF QueuesSound, QueuesApart
  <2>3. ASSUME NEW i \in Jobs, InQueue(i)' PROVE Exists(jobs'[i]) /\ Free(i)'
    <3>1. InQueue(i)  BY <1>8, <2>3 DEF InQueue
    <3> QED BY <1>7, <1>16, <2>1, <3>1 DEF QueuesSound
  <2>4. ASSUME NEW i \in Jobs, jobs'[i].status \in {"absent", "queued"} PROVE Free(i)'
    BY <1>7, <1>16, <2>1, <2>4 DEF QueuesSound
  <2> QED BY <2>2, <2>3, <2>4 DEF QueuesSound, Exists
<1>19. RowsKnown'
  BY <1>7, <1>8, StateTypes DEF CalmInv, RowsKnown, Exists
<1> QED BY <1>8, <1>12, <1>14, <1>15, <1>17, <1>18, <1>19 DEF CalmInv

\* The start of an execution, its heartbeat and its failure keep the invariant: the worker
\* finds the job with the token of the message, so that nothing is ignored or refused.
LEMMA BeginningCalm ==
  ASSUME TypeOK, CalmInv, NEW w \in Workers, Beginning(w) \/ Heartbeat(w) \/ RuntimeFails(w)
  PROVE  CalmInv'
<1> USE DEF queueVars, pendingVars, storeVars, brokerVars, readVars, countVars
<1>1. CASE TakeMessage(w)  BY <1>1, TakeCalm
<1>2. CASE ~TakeMessage(w)
  <2>1. worker[w].job # 0
    BY <1>2, StateTypes, JobNumbers
    DEF Beginning, BeginIgnored, BeginCancelled, BeginIllegal, BeginRunning, CanStart, CanBegin,
        Heartbeat, RuntimeFails, Worker
  <2>2. PICK j \in Jobs : j = worker[w].job  BY <2>1, ServiceKnows
  <2>3. /\ ServiceSound(w) /\ Exists(jobs[j]) /\ jobs[j].status # "queued"
        /\ jobs[j] \in JobRecord /\ worker[w] \in Worker /\ worker \in [Workers -> Worker]
        /\ jobs \in [Jobs -> JobRecord]
    BY <2>1, <2>2, ServiceKnows, StateTypes
  <2>4. worker[w].pc = "begin" =>
          /\ Captured(w) = jobs[j] /\ Awaited(j, worker[w].token) /\ Shared(w)
          /\ jobs[j].status \in {"admitted", "cancel_requested"} /\ jobs[j].token = worker[w].token
    BY <2>2, <2>3 DEF ServiceSound, Captured, Awaited
  <2>5. CASE BeginIgnored(w) \/ BeginIllegal(w)
    BY <2>4, <2>5 DEF BeginIgnored, BeginIllegal, CanStart, CanBegin, Superseded, Terminal
  <2>6. CASE BeginCancelled(w)
    <3> DEFINE x == [worker[w] EXCEPT !.pc = "release", !.obj = NoJob]
    <3>1. worker[w].pc = "begin" /\ worker' = [worker EXCEPT ![w] = x]
      BY <2>6 DEF BeginCancelled, CanStart, CanBegin
    <3>2. x.pc = "release" /\ x.job = j /\ x.raised = worker[w].raised
      BY <2>2, <2>3, WorkerRewrites
    <3> HIDE DEF x
    <3>3. worker'[w] = x  BY <2>3, <3>1
    <3>4. jobs' = [jobs EXCEPT ![j].status = "cancelled"]
      BY <2>2, <2>4, <2>6, <3>1 DEF BeginCancelled, Finished
    <3>5. jobs'[j].status = "cancelled" /\ \A i \in Jobs \ {j} : jobs'[i] = jobs[i]
      BY <2>3, <3>4 DEF JobRecord
    <3>6. UNCHANGED <<stream, queues, lockOwner, sched, rows, snap, replay, poll>>
          /\ dirty' \subseteq dirty \cup {j}
      BY <2>2, <2>6 DEF BeginCancelled, PersistJob
    <3>7. ServiceSound(w)'
      BY <2>3, <3>2, <3>3, <3>5 DEF ServiceSound, Executing, Terminal
    <3> QED BY <2>2, <2>3, <3>1, <3>2, <3>5, <3>6, <3>7, WorkerSteps DEF Owns
  <2>7. CASE BeginRunning(w)
    <3> DEFINE x == [worker[w] EXCEPT !.pc = "running", !.obj = NoJob, !.beat = TRUE]
    <3>1. worker[w].pc = "begin" /\ worker' = [worker EXCEPT ![w] = x]
          /\ jobs[j].status = "admitted"
      BY <2>4, <2>7 DEF BeginRunning, CanStart, CanBegin
    <3>2. x.pc = "running" /\ x.job = j /\ x.token = worker[w].token /\ x.raised = worker[w].raised
      BY <2>2, <2>3, WorkerRewrites
    <3> HIDE DEF x
    <3>3. worker'[w] = x  BY <2>3, <3>1
    <3>4. jobs' = [jobs EXCEPT ![j].status = "running"]
      BY <2>2, <2>4, <2>7, <3>1 DEF BeginRunning
    <3>5. /\ jobs'[j].status = "running" /\ jobs'[j].token = jobs[j].token
          /\ jobs'[j].lease = jobs[j].lease /\ \A i \in Jobs \ {j} : jobs'[i] = jobs[i]
      BY <2>3, <3>4 DEF JobRecord
    <3>6. UNCHANGED <<stream, queues, lockOwner, sched, rows, snap, replay, poll>>
          /\ dirty' \subseteq dirty \cup {j}
      BY <2>2, <2>7 DEF BeginRunning, PersistJob
    <3>7. jobs'[j].token = x.token /\ jobs'[j].lease = "live" /\ Owns(j)'
      BY <2>4, <3>1, <3>2, <3>5, <3>6 DEF Awaited, Owns
    <3>8. ServiceSound(w)'
      BY <2>3, <3>2, <3>3, <3>5, <3>7 DEF ServiceSound, Executing, Ongoing, Owns
    <3> QED BY <2>2, <2>3, <3>1, <3>2, <3>5, <3>6, <3>8, WorkerSteps DEF Owns
  <2>8. CASE Heartbeat(w)
    <3> DEFINE x == [worker[w] EXCEPT !.beat = Holds(w) /\ lockOwner[SessionOf[j]] = j]
    <3>1. worker' = [worker EXCEPT ![w] = x]  BY <2>2, <2>8 DEF Heartbeat
    <3>2. x.pc = worker[w].pc /\ x.job = j /\ x.token = worker[w].token /\ x.obj = worker[w].obj
          /\ x.raised = worker[w].raised
      BY <2>2, <2>3, WorkerRewrites
    <3> HIDE DEF x
    <3>3. worker'[w] = x  BY <2>3, <3>1
    <3>4. jobs' = jobs \/ jobs' = [jobs EXCEPT ![j].lease = "live"]
      BY <2>2, <2>8 DEF Heartbeat
    <3>5. /\ jobs'[j].status = jobs[j].status /\ jobs'[j].token = jobs[j].token
          /\ jobs[j].lease = "live" => jobs'[j].lease = "live"
          /\ \A i \in Jobs \ {j} : jobs'[i] = jobs[i]
      BY <2>3, <3>4 DEF JobRecord
    <3>6. UNCHANGED <<stream, queues, lockOwner, sched, rows, snap, replay, poll>>
          /\ dirty' \subseteq dirty \cup {j}
      BY <2>2, <2>8 DEF Heartbeat, PersistJob
    <3>7. ServiceSound(w)'
      BY <2>2, <2>3, <3>2, <3>3, <3>5, <3>6
      DEF ServiceSound, Shared, Executing, Awaited, Ongoing, Owns
    <3> QED BY <2>2, <2>3, <3>1, <3>2, <3>5, <3>6, <3>7, WorkerSteps DEF Owns, Exists
  <2>9. CASE RuntimeFails(w)
    <3> DEFINE x == [worker[w] EXCEPT !.pc = "failing"]
    <3>1. worker' = [worker EXCEPT ![w] = x] /\ worker[w].pc = "running"
      BY <2>9 DEF RuntimeFails, WorkerAt
    <3>2. x.pc = "failing" /\ x.job = j /\ x.token = worker[w].token /\ x.raised = worker[w].raised
      BY <2>2, <2>3, WorkerRewrites
    <3> HIDE DEF x
    <3>3. worker'[w] = x  BY <2>3, <3>1
    <3>4. UNCHANGED <<jobs, stream, queues, lockOwner, sched, rows, dirty, snap, replay, poll>>
      BY <2>9 DEF RuntimeFails
    <3>5. ServiceSound(w)'
      BY <2>2, <2>3, <3>1, <3>2, <3>3, <3>4 DEF ServiceSound, Executing, Ongoing, Owns
    <3> QED BY <2>2, <2>3, <3>1, <3>2, <3>4, <3>5, WorkerSteps DEF Owns, Exists
  <2> QED BY <1>1, <1>2, <2>5, <2>6, <2>7, <2>8, <2>9 DEF Beginning
<1> QED BY <1>1, <1>2

\* The end of an execution and its clean-up keep the invariant: the worker finds its job
\* running or to be cancelled, and nothing is left to be retried.
LEMMA EndingCalm ==
  ASSUME TypeOK, CalmInv, NEW w \in Workers, Ending(w)
  PROVE  CalmInv'
<1> USE DEF queueVars, pendingVars, storeVars, brokerVars, readVars, countVars
<1>1. worker[w].pc # "idle"
  BY DEF Ending, Publish, PublishIllegal, EndCancelled, EndIgnored, FailJob, WorkerRelease,
     WorkerDiscard, Settle, RetryIgnored, RetryCancelled, RetryDispatch, WorkerUnlock
<1>2. PICK j \in Jobs : j = worker[w].job  BY <1>1, StateTypes
<1>3. /\ ServiceSound(w) /\ Exists(jobs[j]) /\ jobs[j].status # "queued"
      /\ jobs[j] \in JobRecord /\ worker[w] \in Worker /\ worker \in [Workers -> Worker]
      /\ jobs \in [Jobs -> JobRecord] /\ worker[w].pc \notin {"retry", "unlock"}
  BY <1>2, ServiceKnows, StateTypes, JobNumbers DEF ServiceSound
<1>4. worker[w].pc \in {"running", "failing"} =>
        jobs[j].status \in {"running", "cancel_requested"} /\ Holds(w)
  BY <1>2, <1>3 DEF ServiceSound, Executing, Ongoing, Holds
<1>5. worker[w].pc \in {"release", "discard", "settle"} => jobs[j].status \in Terminal
  BY <1>2, <1>3 DEF ServiceSound
<1>6. \A p \in {"failing", "release", "discard", "settle"} : WorkerAt(w, p) =>
        LET x == [worker[w] EXCEPT !.pc = p] IN
        /\ worker' = [worker EXCEPT ![w] = x] /\ worker'[w] = x
        /\ x.pc = p /\ x.job = j /\ x.raised = worker[w].raised
  BY <1>2, <1>3, WorkerRewrites DEF WorkerAt
\* The outcome is recorded and the worker goes on to release the session.
<1>a. ASSUME NEW st \in Terminal, Finished(j, st), WorkerAt(w, "release"),
             UNCHANGED <<stream, queues, lockOwner, sched, rows, snap, replay, poll>>,
             dirty' \subseteq dirty \cup {j}
      PROVE  CalmInv'
  <2>1. jobs'[j].status = st /\ \A i \in Jobs \ {j} : jobs'[i] = jobs[i]
    BY <1>3, <1>a DEF Finished, JobRecord
  <2>2. PICK x : /\ worker' = [worker EXCEPT ![w] = x] /\ worker'[w] = x
                 /\ x.pc = "release" /\ x.job = j /\ x.raised = worker[w].raised
    BY <1>6, <1>a
  <2>3. ServiceSound(w)'  BY <1>3, <1>a, <2>1, <2>2 DEF ServiceSound, Executing
  <2>4. jobs'[j].status \notin {"absent", "queued"}  BY <1>a, <2>1 DEF Terminal
  <2> QED BY <1>2, <1>3, <1>a, <2>1, <2>2, <2>3, <2>4, WorkerSteps DEF Owns
<1>7. ASSUME NEW outcome \in {"succeeded", "failed"}, Publish(w, outcome) PROVE CalmInv'
  BY <1>2, <1>7, <1>a DEF Publish, PersistJob, Terminal
<1>8. ASSUME NEW outcome \in {"succeeded", "failed"}, PublishIllegal(w, outcome) PROVE FALSE
  BY <1>2, <1>4, <1>8 DEF PublishIllegal, CanMove, Successors
<1>9. CASE EndCancelled(w)
  BY <1>2, <1>9, <1>a DEF EndCancelled, MarkCancelled, PersistJob, Terminal
<1>10. CASE EndIgnored(w)  BY <1>4, <1>10 DEF EndIgnored
<1>11. CASE FailJob(w)
  <2>1. jobs[j].status = "running"  BY <1>2, <1>4, <1>11 DEF FailJob
  <2>2. CanMove(jobs[j].status, "failed")  BY <2>1 DEF CanMove, Successors
  <2>3. Finished(j, "failed") /\ PersistJob(j)
        /\ worker' = [worker EXCEPT ![w].pc = "release", ![w].raised = FALSE]
        /\ UNCHANGED <<stream, queues, lockOwner, sched, replay, poll>>
    BY <1>2, <1>11, <2>2 DEF FailJob
  <2> DEFINE x == [worker[w] EXCEPT !.pc = "release", !.raised = FALSE]
  <2>4. worker' = [worker EXCEPT ![w] = x]  BY <2>3
  <2>5. x.pc = "release" /\ x.job = j /\ ~x.raised  BY <1>2, <1>3, WorkerRewrites
  <2> HIDE DEF x
  <2>6. jobs'[j].status = "failed" /\ \A i \in Jobs \ {j} : jobs'[i] = jobs[i]
    BY <1>3, <2>3 DEF Finished, JobRecord
  <2>7. ServiceSound(w)'
    BY <1>3, <2>4, <2>5, <2>6 DEF ServiceSound, Executing, Terminal
  <2> QED BY <1>2, <1>3, <2>3, <2>4, <2>5, <2>6, <2>7, WorkerSteps DEF Owns, PersistJob
<1>12. CASE WorkerRelease(w)
  <2> DEFINE x == [worker[w] EXCEPT !.pc = "discard", !.beat = FALSE]
  <2>1. worker' = [worker EXCEPT ![w] = x] /\ worker[w].pc = "release" /\ ReleaseSession(j)
    BY <1>2, <1>12 DEF WorkerRelease
  <2>2. x.pc = "discard" /\ x.job = j /\ x.raised = worker[w].raised
    BY <1>2, <1>3, WorkerRewrites
  <2> HIDE DEF x
  <2>3. UNCHANGED <<jobs, stream, queues, sched, rows, dirty, snap, replay, poll>>
    BY <1>12 DEF WorkerRelease
  <2>4. ServiceSound(w)'
    BY <1>3, <1>5, <2>1, <2>2, <2>3 DEF ServiceSound, Executing
  <2>5. \A i \in Jobs \ {j} : Owns(i) => Owns(i)'  BY <2>1, ReleaseFrame
  <2> QED BY <1>2, <1>3, <2>1, <2>2, <2>3, <2>4, <2>5, WorkerSteps DEF Exists
<1>13. CASE WorkerDiscard(w)
  <2>1. UNCHANGED <<jobs, stream, queues, lockOwner, sched, rows, dirty, snap, replay, poll>>
        /\ WorkerAt(w, "settle") /\ worker[w].pc = "discard"
    BY <1>3, <1>13 DEF WorkerDiscard, ServiceSound
  <2>2. PICK x : /\ worker' = [worker EXCEPT ![w] = x] /\ worker'[w] = x
                 /\ x.pc = "settle" /\ x.job = j /\ x.raised = worker[w].raised
    BY <1>6, <2>1
  <2>3. ServiceSound(w)'  BY <1>3, <1>5, <2>1, <2>2 DEF ServiceSound, Executing
  <2> QED BY <1>2, <1>3, <2>1, <2>2, <2>3, WorkerSteps DEF Owns, Exists
<1>14. CASE Settle(w)
  <2>1. UNCHANGED <<jobs, stream, queues, lockOwner, sched, rows, dirty, snap, replay, poll>>
        /\ worker[w].pc = "settle"
    BY <1>14 DEF Settle
  <2>2. worker' = [worker EXCEPT ![w] = IdleWorker]
    BY <1>2, <1>5, <1>14, <2>1 DEF Settle, Terminal
  <2>3. IdleWorker.pc = "idle" /\ IdleWorker.job = 0 /\ ~IdleWorker.raised  BY DEF IdleWorker
  <2>4. ServiceSound(w)'  BY <1>3, <2>2, <2>3 DEF ServiceSound, Executing
  <2> QED BY <1>2, <1>3, <2>1, <2>2, <2>3, <2>4, WorkerSteps DEF Owns, Exists
<1>15. CASE RetryIgnored(w) \/ RetryCancelled(w) \/ RetryDispatch(w) \/ WorkerUnlock(w)
  BY <1>3, <1>15 DEF RetryIgnored, RetryCancelled, RetryDispatch, WorkerUnlock
<1> QED BY <1>7, <1>8, <1>9, <1>10, <1>11, <1>12, <1>13, <1>14, <1>15 DEF Ending

\* The persistence task keeps the invariant: what it saves exists.
LEMMA PersistingCalm ==
  ASSUME TypeOK, CalmInv, Persisting
  PROVE  CalmInv'
<1> USE DEF queueVars, pendingVars, storeVars, brokerVars, readVars, countVars
<1>0. UNCHANGED <<jobs, queues, stream, lockOwner, sched, worker, replay, poll>>
  BY DEF Persisting, TakeSnapshot, SaveSnapshot
<1>1. \A i \in Jobs : Stands(i)  BY <1>0, UntouchedStands DEF Owns
<1>2. /\ replay'.job = 0 /\ poll'.job = 0
      /\ OneDelivery' /\ MessagesAwaited' /\ ServicesSound'
      /\ \A i : Free(i)' <=> Free(i)
  BY <1>0, <1>1, NoDelivery
<1>3. QueuesSound'  BY <1>0, <1>2, QueuesStay DEF Exists
<1>4. SchedulerSound'
  <2>1. Engaged => sched.job \in Jobs  BY StateTypes DEF Engaged
  <2>2. Engaged => (InQueue(sched.job)' => InQueue(sched.job))  BY <1>0 DEF InQueue
  <2>3. Engaged /\ Owns(sched.job) => Owns(sched.job)'  BY <1>0 DEF Owns
  <2> QED BY <1>0, <1>1, <1>2, <2>1, <2>2, <2>3, SchedulerStays
<1>5. RowsKnown'
  <2>1. RowsKnown /\ rows \in [Jobs -> JobRecord]  BY StateTypes DEF CalmInv
  <2>2. ASSUME NEW j \in Jobs, TakeSnapshot(j) PROVE RowsKnown'
    <3>1. snap'.rec = jobs[j] /\ dirty' \subseteq dirty /\ rows' = rows /\ j \in dirty
      BY <2>2 DEF TakeSnapshot
    <3> QED BY <1>0, <2>1, <3>1 DEF RowsKnown
  <2>3. CASE SaveSnapshot
    <3>1. dirty' = dirty /\ snap'.job = 0 /\ Exists(snap.rec)
      BY <2>1, <2>3, CopyTypes DEF SaveSnapshot, RowsKnown
    <3>2. \A i \in Jobs : rows'[i] \in {rows[i], snap.rec}  BY <2>1, <2>3 DEF SaveSnapshot
    <3> QED BY <1>0, <2>1, <3>1, <3>2 DEF RowsKnown
  <2> QED BY <2>2, <2>3 DEF Persisting
<1> QED BY <1>2, <1>3, <1>4, <1>5 DEF CalmInv

\* A job for which somebody acts keeps its lease and its lock, as long as nothing has run out
\* under somebody who acts for its job.
LEMMA OverdueIsUnhandled ==
  ASSUME TypeOK, NEW j, Overdue(j), Undisturbed'
  PROVE  ~Handled(j)
<1>1. env \in Counters /\ env.expiries \in Nat  BY DEF TypeOK, Counters
<1>2. ASSUME env' = [env EXCEPT !.expiries = @ + 1] PROVE FALSE
  <2>1. env'.expiries = env.expiries + 1  BY <1>1, <1>2 DEF Counters
  <2> QED BY <1>1, <2>1 DEF Undisturbed
<1> QED BY <1>2 DEF Overdue

\* Leases and locks that run out keep the invariant: nobody acts for their jobs.
LEMMA TimeoutCalm ==
  ASSUME TypeOK, CalmInv, Undisturbed',
         (\E j \in Jobs : LeaseTimeout(j)) \/ \E s \in Sessions : LockTimeout(s)
  PROVE  CalmInv'
<1> USE DEF queueVars, pendingVars, storeVars, brokerVars, readVars, countVars
<1>1. ASSUME NEW j \in Jobs, LeaseTimeout(j) PROVE CalmInv'
  <2>0. /\ jobs \in [Jobs -> JobRecord] /\ rows \in [Jobs -> JobRecord]
        /\ sched \in Scheduler /\ snap \in Copy /\ replay.job = 0 /\ poll.job = 0
    BY StateTypes DEF TypeOK, CalmInv
  <2>1. ~Handled(j)  BY <1>1, OverdueIsUnhandled DEF LeaseTimeout
  <2>2. /\ Free(j)
        /\ sched.job = j => sched.pc \notin {"admit", "stage", "enqueue", "failed"}
    BY <2>1 DEF Handled, Free, Carried, Served
  <2>3. UNCHANGED <<queues, dirty, stream, lockOwner, worker, poll, replay>>
    BY <1>1, <2>0, JobNumbers DEF LeaseTimeout
  <2>4. \A r \in JobRecord : Aged(r).status = r.status /\ Aged(r).token = r.token
    BY DEF Aged, JobRecord
  <2>5. /\ jobs'[j] = Aged(jobs[j]) /\ \A i \in Jobs \ {j} : jobs'[i] = jobs[i]
        /\ \A i \in Jobs : rows'[i] \in {rows[i], Aged(rows[i])}
    BY <1>1, <2>0 DEF LeaseTimeout
  <2>6. Exists(jobs'[j]) <=> Exists(jobs[j])  BY <2>0, <2>4, <2>5 DEF Exists
  <2>7. \A i \in Jobs : InQueue(i)' <=> InQueue(i)  BY <2>3 DEF InQueue
  <2>8. InQueue(j)' => Exists(jobs'[j])  BY <2>6, <2>7 DEF CalmInv, QueuesSound
  <2>9. QueuesApart'  BY <2>3 DEF CalmInv, QueuesSound, QueuesApart
  <2>10. \A i \in Jobs : Exists(rows[i]) => Exists(rows'[i])
    BY <2>0, <2>4, <2>5 DEF Exists
  <2>11. UNCHANGED snap \/ (snap'.job # 0 => Exists(snap'.rec))
    <3>1. CASE snap.job = j
      <4>1. snap.rec \in JobRecord /\ snap' = [snap EXCEPT !.rec = Aged(@)]
        BY <1>1, <2>0, <3>1, CopyTypes DEF LeaseTimeout
      <4>2. snap'.rec = Aged(snap.rec) /\ Exists(snap.rec)
        BY <2>0, <3>1, <4>1, JobNumbers DEF Copy, CalmInv, RowsKnown
      <4> QED BY <2>4, <4>1, <4>2 DEF Exists
    <3>2. CASE snap.job # j  BY <1>1, <3>2 DEF LeaseTimeout
    <3> QED BY <3>1, <3>2
  <2>12. ASSUME \A i : Free(i)' <=> Free(i) PROVE SchedulerSound'
    <3>1. \/ UNCHANGED sched
          \/ sched.job = j /\ sched'.pc = sched.pc /\ sched'.job = sched.job
      BY <1>1, <2>0 DEF LeaseTimeout, Scheduler
    <3>2. sched'.pc = sched.pc /\ sched'.job = sched.job /\ (sched.job # j => UNCHANGED sched)
      BY <1>1, <3>1 DEF LeaseTimeout
    <3>3. Engaged => sched.job \in Jobs  BY StateTypes DEF Engaged
    <3>4. \A i \in Jobs : Exists(jobs'[i]) <=> Exists(jobs[i])  BY <2>5, <2>6
    <3>5. SchedulerSound  BY DEF CalmInv
    <3>6. CASE sched.job = j
      BY <2>2, <2>12, <3>2, <3>3, <3>4, <3>5, <3>6 DEF SchedulerSound, Engaged
    <3>7. CASE sched.job # j
      <4>1. UNCHANGED sched /\ (Engaged => jobs'[sched.job] = jobs[sched.job])
        BY <2>5, <3>2, <3>3, <3>7
      <4>2. Engaged => (InQueue(sched.job)' <=> InQueue(sched.job))  BY <2>3, <4>1 DEF InQueue
      <4> QED BY <2>3, <2>12, <3>3, <3>4, <3>5, <4>1, <4>2
              DEF SchedulerSound, Engaged, Awaited, Owns
    <3> QED BY <3>6, <3>7
  <2> QED BY <2>2, <2>3, <2>5, <2>6, <2>7, <2>8, <2>9, <2>10, <2>11, <2>12, FreeJobChanges DEF Owns
<1>2. ASSUME NEW s \in Sessions, LockTimeout(s) PROVE CalmInv'
  <2>0. /\ lockOwner \in [Sessions -> 0..NumJobs] /\ lockOwner[s] # 0
        /\ lockOwner' = [lockOwner EXCEPT ![s] = 0]
        /\ UNCHANGED <<jobs, queues, stream, sched, worker, rows, dirty, snap, replay, poll>>
    BY <1>2, StateTypes DEF LockTimeout
  <2>1. PICK j \in Jobs : j = lockOwner[s]  BY <2>0, StateTypes
  <2>2. ~Handled(j)  BY <1>2, <2>1, OverdueIsUnhandled DEF LockTimeout
  <2>3. /\ Free(j)
        /\ sched.job = j => sched.pc \notin {"admit", "stage", "enqueue", "failed"}
    BY <2>2 DEF Handled, Free, Carried, Served
  <2>4. \A i \in Jobs \ {j} : Owns(i) => Owns(i)'  BY <2>0, <2>1, ScopeTypes DEF Owns
  <2>5. \A i \in Jobs : ~Free(i) => (Owns(i) => Owns(i)')  BY <2>3, <2>4
  <2>6. SchedulerSound'
    <3>1. SchedulerSound /\ (Engaged => sched.job \in Jobs)  BY StateTypes DEF CalmInv, Engaged
    <3>2. sched.pc \in {"admit", "stage", "enqueue", "failed"} => (Owns(sched.job) => Owns(sched.job)')
      BY <2>0, <2>3, <2>4, <3>1 DEF Engaged, Owns
    <3>3. Free(sched.job)' <=> Free(sched.job)  BY <2>0 DEF Free, Carried, Served
    <3>4. InQueue(sched.job)' <=> InQueue(sched.job)  BY <2>0 DEF InQueue
    <3>5. Engaged' <=> Engaged  BY <2>0 DEF Engaged
    <3> QED BY <2>0, <3>1, <3>2, <3>3, <3>4, <3>5 DEF SchedulerSound, Awaited
  <2> QED BY <2>0, <2>5, <2>6, SchedulerMoves
<1> QED BY <1>1, <1>2

\* Merging what a request read of a row: nothing was read.
LEMMA MergingCalm ==
  ASSUME TypeOK, CalmInv, ReplayApply \/ PollMerge
  PROVE  CalmInv'
BY DEF CalmInv, ReplayApply, PollMerge

\* What has happened to the service stays happened: no step takes a count of the environment
\* back.
LEMMA DisturbanceLasts ==
  ASSUME TypeOK, [Next]_vars, Undisturbed'
  PROVE  Undisturbed
<1> USE DEF queueVars, pendingVars, storeVars, brokerVars, readVars, countVars
<1>0. env \in Counters /\ env.expiries \in Nat /\ env.crashes \in Nat /\ env.replays \in Nat
  BY DEF TypeOK, Counters
<1>1. ASSUME UNCHANGED env PROVE Undisturbed  BY <1>1 DEF Undisturbed
<1>2. ASSUME NEW c \in {"faults", "expiries", "crashes", "replays"},
             env' = [env EXCEPT ![c] = @ + 1]
      PROVE  Undisturbed
  <2>1. env'.expiries \in {env.expiries, env.expiries + 1}
        /\ env'.crashes \in {env.crashes, env.crashes + 1}
        /\ env'.replays \in {env.replays, env.replays + 1}
    BY <1>0, <1>2 DEF Counters
  <2> QED BY <1>0, <2>1 DEF Undisturbed
<1>3. CASE UNCHANGED vars  BY <1>1, <1>3 DEF vars
<1>4. CASE \E j \in Jobs : Request(j) \/ LeaseTimeout(j)
  <2>1. ASSUME NEW j, Overdue(j) PROVE Undisturbed  BY <1>1, <1>2, <2>1 DEF Overdue
  <2> QED BY <1>1, <1>2, <1>4, <2>1
          DEF Request, CreateJob, ReplayRead, PollRead, CancelQueued, CancelActive, LeaseTimeout
<1>5. CASE ReplayApply \/ PollMerge \/ SelectNothing \/ \E k \in Keys : SelectCandidate(k)
  BY <1>1, <1>5 DEF ReplayApply, PollMerge, SelectNothing, SelectCandidate
<1>6. CASE Dispatching
  BY <1>1, <1>6 DEF Dispatching, LoadLatest, MergeLatest, AcquireSession, SessionBusy, AdmitJob,
     AdmissionLost, StageDispatch, EnqueueDispatch, MarkDispatchSent, HandleDispatchFailure,
     FinishDispatch, SchedulerUnlock
<1>7. CASE LoadFails \/ DispatchFails
  BY <1>2, <1>7 DEF LoadFails, DispatchFails, Fault
<1>8. CASE Sweeping
  BY <1>1, <1>8 DEF Sweeping, LoadStale, SweepUnlock, SkipStalled, FailStalled, RequeueStalled
<1>9. CASE \E w \in Workers : Beginning(w) \/ Heartbeat(w) \/ RuntimeFails(w)
  BY <1>1, <1>9 DEF Beginning, TakeMessage, BeginIgnored, BeginCancelled, BeginIllegal,
     BeginRunning, Heartbeat, RuntimeFails
<1>10. CASE \E w \in Workers : Ending(w)
  BY <1>1, <1>10 DEF Ending, Publish, PublishIllegal, EndCancelled, EndIgnored, FailJob,
     WorkerRelease, WorkerDiscard, Settle, RetryIgnored, RetryCancelled, RetryDispatch, WorkerUnlock
<1>11. CASE Persisting  BY <1>1, <1>11 DEF Persisting, TakeSnapshot, SaveSnapshot
<1>12. CASE \E s \in Sessions : LockTimeout(s)
  BY <1>1, <1>2, <1>12 DEF LockTimeout, Overdue
<1>13. CASE Restart  BY <1>2, <1>13 DEF Restart
<1> QED BY <1>3, <1>4, <1>5, <1>6, <1>7, <1>8, <1>9, <1>10, <1>11, <1>12, <1>13 DEF Next

\* The service starts with no job, no message and idle tasks.
LEMMA InitCalm == Init => CalmInv
<1> SUFFICES ASSUME Init PROVE CalmInv  OBVIOUS
<1>1. /\ \A j \in Jobs : jobs[j].status = "absent" /\ rows[j].status = "absent"
      /\ replay.job = 0 /\ poll.job = 0 /\ snap.job = 0 /\ dirty = {}
      /\ stream = <<>> /\ sched.pc = "idle" /\ 0 \notin Jobs
  BY JobNumbers DEF Init, NoCopy, NoJob, IdleScheduler
<1>2. \A w \in Workers : worker[w].job = 0 /\ worker[w].pc = "idle" /\ ~worker[w].raised
  BY DEF Init, IdleWorker
<1>3. Len(stream) = 0 /\ \A k \in Keys : Len(queues[k]) = 0  BY <1>1 DEF Init
<1>4. \A j \in Jobs : Free(j) /\ ~InQueue(j)
  BY <1>1, <1>2, <1>3, ScopeTypes DEF Free, Carried, Served, InQueue
<1>5. OneDelivery /\ MessagesAwaited  BY <1>2, <1>3 DEF OneDelivery, MessagesAwaited
<1>6. ServicesSound  BY <1>2 DEF ServicesSound, ServiceSound, Executing
<1>7. SchedulerSound  BY <1>1 DEF SchedulerSound, Engaged
<1>8. QueuesSound  BY <1>3, <1>4 DEF QueuesSound, QueuesApart
<1>9. RowsKnown  BY <1>1 DEF RowsKnown, Exists
<1> QED BY <1>1, <1>5, <1>6, <1>7, <1>8, <1>9 DEF CalmInv

\* Every step that disturbs nobody keeps the invariant.
LEMMA StepCalm ==
  ASSUME Calm, TypeOK, CalmInv, [Next]_vars, Undisturbed'
  PROVE  CalmInv'
<1>1. CASE UNCHANGED vars
  <2> USE DEF vars, queueVars, pendingVars, storeVars, brokerVars, readVars, countVars
  <2>1. SchedulerSound'
    BY <1>1 DEF CalmInv, SchedulerSound, Engaged, Awaited, Owns, InQueue, Free, Carried, Served
  <2>2. \A i \in Jobs : Owns(i) => Owns(i)'  BY <1>1 DEF Owns
  <2> QED BY <1>1, <2>1, <2>2, SchedulerMoves
<1>2. CASE Restart
  <2>1. env \in Counters /\ env.crashes \in Nat /\ env' = [env EXCEPT !.crashes = @ + 1]
    BY <1>2 DEF TypeOK, Counters, Restart
  <2>2. env'.crashes = env.crashes + 1  BY <2>1 DEF Counters
  <2> QED BY <2>1, <2>2 DEF Undisturbed
<1>3. CASE Next /\ ~Restart
  BY <1>3, RequestCalm, MergingCalm, SelectCalm, DispatchingCalm, MovesCalm, SweepingCalm,
     BeginningCalm, EndingCalm, PersistingCalm, TimeoutCalm DEF Next
<1> QED BY <1>1, <1>2, <1>3

\* While nothing is disturbed, a job is delivered once at a time, and whoever carries its token
\* finds the job and the lock of its session as the admission left them.
THEOREM CalmInvariant ==
  ASSUME Calm
  PROVE  Spec => [](Undisturbed => CalmInv)
<1>1. TypeOK /\ (Undisturbed => CalmInv) /\ [Next]_vars => (Undisturbed => CalmInv)'
  BY StepCalm, DisturbanceLasts
<1>2. Init => (Undisturbed => CalmInv)  BY InitCalm
<1> QED BY <1>1, <1>2, TypeCorrect, PTL DEF Spec

\* Conversations are exclusive: as long as no lease ran out under its holder, no process died
\* and no request was replayed, a worker between the start and the end of an execution holds
\* the lock of the session and the current token of a job that is running or about to be
\* cancelled, whatever is cancelled, fails to be dispatched or is swept meanwhile.
THEOREM LockCovers ==
  ASSUME Calm
  PROVE  Spec => [](Undisturbed => LockCoversRun)
<1>1. CalmInv => LockCoversRun
  BY DEF CalmInv, ServicesSound, ServiceSound, LockCoversRun, Ongoing, Owns, Holds
<1> QED BY <1>1, CalmInvariant, PTL
=============================================================================
