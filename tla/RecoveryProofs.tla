---------------------------- MODULE RecoveryProofs ----------------------------
(***************************************************************************)
(* The session lock through one restart, for all values of the constants:  *)
(* whoever executes has the current token of its job and the lock of its   *)
(* session, although messages of the former life are delivered beside what *)
(* the restart put back into the queues.  After a second restart this is   *)
(* not so: TLC finds an execution without its lock, in an instance of one  *)
(* job, when a cancellation was not saved before the process died.         *)
(*                                                                         *)
(* RecoveryInv says what a delivery of the former life finds: its job as   *)
(* the admission left it (Held), or queued by the restart and still with   *)
(* the token (Recalled), or over; and every copy of the job that may be    *)
(* merged into it again fits the delivery (Tended).  A recalled job is not *)
(* admitted again, because its row contradicts it (RevivedIsContradicted). *)
(* How a message finds its row (Sent) decides what the restart makes of    *)
(* its job.                                                                *)
(***************************************************************************)
EXTENDS OutcomeProofs

\* One restart at most, and no lease ran out under somebody who acts for its job.
Recovering == env.expiries = 0 /\ env.crashes <= 1 /\ env.replays = 0

----------------------------------------------------------------------------
(* The invariant *)

Over(j) == jobs[j].status \in Terminal
Held(j, t) == jobs[j].status \in Active /\ jobs[j].token = t /\ Owns(j)
Recalled(j, t) == jobs[j].status = "queued" /\ jobs[j].token = t /\ Owns(j)
Waits(j, t) == Held(j, t) \/ Recalled(j, t) \/ Over(j)

\* A record of the present admission of the job is that of the delivery with the token.
Fits(rec, j, t) == (rec.status \in Active /\ rec.fence = jobs[j].fence) => (rec.token = t /\ rec.lease = "live")
Tended(j, t) == Fits(jobs[j], j, t) /\ \A rec \in Copies(j) : Fits(rec, j, t)

\* The row knows of the admission, and nothing will take that back.
Sent(j) ==
  /\ rows[j].fence = jobs[j].fence
  /\ \A rec \in Copies(j) : rec.fence = jobs[j].fence => rec.status # "queued"

\* No step but those of the delivery itself takes a status back.
Ahead(status) ==
  CASE status = "running" -> {"running", "cancel_requested"} \cup Terminal
    [] status = "cancel_requested" -> {"cancel_requested"} \cup Terminal
    [] status \in Terminal -> Terminal
    [] OTHER -> Active \cup Terminal \cup {"queued"}

MessageKept(m) == Waits(m.job, m.token) /\ Tended(m.job, m.token) /\ Sent(m.job)
MessagesKept == \A n \in 1..Len(stream) : MessageKept(stream[n])

\* A delivery whose job was replaced under it has the job as it was before.
ObjectKept(obj, j, t) ==
  /\ obj.status \in Active \cup {"queued"} /\ obj.token = t
  /\ jobs[j].status \in Ahead(obj.status)

ServiceKept(x) ==
  LET j == x.job  t == x.token  status == jobs[x.job].status IN
  /\ x.raised => x.pc \in {"retry", "unlock"}
  /\ x.pc = "idle" => j = 0
  /\ x.pc # "idle" => Tended(j, t)
  /\ x.pc = "begin" => IF Exists(x.obj) THEN Held(j, t) /\ ObjectKept(x.obj, j, t) ELSE Waits(j, t)
  /\ x.pc \in {"running", "failing"} => Held(j, t)
  /\ x.pc \in {"release", "discard"} => status \in Terminal \cup {"cancel_requested"}
  /\ x.pc = "settle" => status \in Terminal \cup {"cancel_requested", "running"}
  /\ x.pc = "retry" => status \in Terminal \cup {"cancel_requested"}
                       \/ (x.raised /\ (Held(j, t) \/ Recalled(j, t)))
  /\ x.pc = "unlock" => Over(j) \/ Owns(j)
ServicesKept == \A w \in Workers : ServiceKept(worker[w])

SchedulerKept ==
  LET j == sched.job  t == sched.rec.token IN
  /\ sched.pc = "acquire" => jobs[j].status \in Terminal \cup {"queued"}
  /\ sched.pc = "admit" => Over(j) \/ (jobs[j].status = "queued" /\ Free(j) /\ Owns(j))
  /\ sched.pc \in {"stage", "enqueue"} => Free(j) /\ Held(j, t) /\ Tended(j, t)
  /\ sched.pc = "stage" => sched.rec.lease = "live"
  /\ sched.pc = "enqueue" => Sent(j)
  /\ sched.pc = "failed" => Free(j)
  /\ sched.pc \in {"unlock", "sweepunlock"} => Over(j) \/ Free(j)

RecoveryInv ==
  /\ poll.job = 0
  /\ OneDelivery /\ MessagesKept /\ ServicesKept /\ SchedulerKept

\* What a delivery relies on, and a step of somebody else leaves to it.
Firm(j) ==
  \A t \in Nat \ {0} : Tended(j, t) =>
    /\ Tended(j, t)'
    /\ jobs'[j].status \in Ahead(jobs[j].status)
    /\ Held(j, t) => Held(j, t)'
    /\ Recalled(j, t) => Waits(j, t)'
    /\ Waits(j, t) /\ Sent(j) => Sent(j)'
    /\ Owns(j) => Owns(j)' \/ Over(j)'

LockKept == \A w \in Workers : Executing(w) => Holds(w) /\ Owns(worker[w].job)

----------------------------------------------------------------------------
(* What somebody else's step leaves to a delivery *)

\* The statuses that are ahead.
LEMMA AheadSteps ==
  /\ Ahead("running") = {"running", "cancel_requested"} \cup Terminal
  /\ Ahead("cancel_requested") = {"cancel_requested"} \cup Terminal
  /\ \A s \in Terminal : Ahead(s) = Terminal
  /\ \A s \in {"queued", "admitted"} : Ahead(s) = Active \cup Terminal \cup {"queued"}
  /\ \A s \in Live \cup Terminal : s \in Ahead(s)
  /\ \A s \in Live \cup Terminal : \A r \in Ahead(s) : Ahead(r) \subseteq Ahead(s)
<1>1. Terminal = {"succeeded", "failed", "cancelled"}  BY DEF Terminal
<1>2. \A s \in Terminal : s # "running" /\ s # "cancel_requested"  BY <1>1
<1>3. /\ Ahead("running") = {"running", "cancel_requested"} \cup Terminal
      /\ Ahead("cancel_requested") = {"cancel_requested"} \cup Terminal
      /\ \A s \in Terminal : Ahead(s) = Terminal
  BY <1>2 DEF Ahead
<1>4. \A s \in {"queued", "admitted"} : Ahead(s) = Active \cup Terminal \cup {"queued"}
  BY <1>1 DEF Ahead
<1>5. \A s \in Live \cup Terminal : s \in {"queued", "admitted", "running", "cancel_requested"} \cup Terminal
  BY DEF Live
<1>6. \A s \in Live \cup Terminal : s \in Ahead(s)  BY <1>3, <1>4, <1>5 DEF Active
<1>7. ASSUME NEW s \in Live \cup Terminal, NEW r \in Ahead(s) PROVE Ahead(r) \subseteq Ahead(s)
  <2>1. CASE s = "running"  BY <1>3, <1>7, <2>1
  <2>2. CASE s = "cancel_requested"  BY <1>3, <1>7, <2>2
  <2>3. CASE s \in Terminal  BY <1>3, <1>7, <2>3
  <2>4. CASE s \in {"queued", "admitted"}
    <3>1. r \in {"admitted", "running", "cancel_requested", "queued"} \cup Terminal
      BY <1>4, <1>7, <2>4 DEF Active
    <3> QED BY <1>3, <1>4, <2>4, <3>1 DEF Active
  <2> QED BY <1>5, <2>1, <2>2, <2>3, <2>4
<1> QED BY <1>3, <1>4, <1>6, <1>7

\* A job that waits, with the token of a delivery, to be admitted was queued by the restart.
LEMMA RecalledIsRevived ==
  ASSUME AttemptsInv, NEW j \in Jobs, NEW t \in Nat \ {0}, Recalled(j, t)
  PROVE  /\ Revived(j) /\ j \notin dirty /\ snap.job # j
         /\ sched.job = j => sched.pc \in {"load", "merge"}
         /\ sched.job = j /\ sched.pc = "merge" => sched.rec.status # "queued"
<1>1. Revived(j)  BY DEF Recalled, Revived, Returned
<1> QED BY <1>1 DEF AttemptsInv, RevivedIsContradicted, Contradicts

\* Nothing is taken from a delivery whose job, row and copies stay, if only what waits to be
\* saved is copied.
LEMMA SameIsFirm ==
  ASSUME TypeOK, AttemptsInv, OutcomeInv, NEW j \in Jobs,
         Exists(jobs[j]), jobs'[j] = jobs[j],
         rows'[j] \in Copies(j), rows[j].fence <= rows'[j].fence,
         \A rec \in Copies(j)' : rec \in Copies(j) \/ (rec = jobs[j] /\ j \in dirty),
         Owns(j) => Owns(j)' \/ Over(j)
  PROVE  Firm(j)
<1>0. jobs[j] \in JobRecord /\ rows[j] \in JobRecord /\ rows'[j] \in JobRecord
  BY StateTypes, CopyRecords
<1>1. jobs[j].status \in Live \cup Terminal  BY <1>0, FieldTypes DEF Exists
<1> SUFFICES ASSUME NEW t \in Nat \ {0}, Tended(j, t)
             PROVE  /\ Tended(j, t)' /\ jobs'[j].status \in Ahead(jobs[j].status)
                    /\ Held(j, t) => Held(j, t)'
                    /\ Recalled(j, t) => Waits(j, t)'
                    /\ Waits(j, t) /\ Sent(j) => Sent(j)'
                    /\ Owns(j) => Owns(j)' \/ Over(j)'
  BY DEF Firm
<1>2. Tended(j, t)'
  <2>1. \A rec \in Copies(j)' : Fits(rec, j, t)  BY DEF Tended
  <2> QED BY <2>1 DEF Tended, Fits
<1>3. jobs'[j].status \in Ahead(jobs[j].status)  BY <1>1, AheadSteps
<1>4. (Held(j, t) => Held(j, t)') /\ (Recalled(j, t) => Recalled(j, t)') /\ (Over(j) => Over(j)')
  BY StatusSets DEF Held, Recalled, Over, Active, Terminal
<1>5. ASSUME Waits(j, t), Sent(j) PROVE Sent(j)'
  <2>1. Behind(rows'[j], j)  BY DEF OutcomeInv, CopiesBehind
  <2>2. rows'[j].fence = jobs[j].fence
    <3>1. rows'[j].fence <= jobs[j].fence /\ rows[j].fence = jobs[j].fence
      BY <1>5, <2>1 DEF Behind, Sent
    <3>2. rows'[j].fence \in Nat /\ rows[j].fence \in Nat  BY <1>0 DEF JobRecord
    <3> QED BY <3>1, <3>2
  <2>3. ASSUME NEW rec \in Copies(j)', rec.fence = jobs[j].fence PROVE rec.status # "queued"
    <3>1. CASE rec \in Copies(j)  BY <1>5, <2>3, <3>1 DEF Sent
    <3>2. CASE rec = jobs[j] /\ j \in dirty
      <4>1. ~Recalled(j, t)  BY <3>2, RecalledIsRevived
      <4>2. jobs[j].status \in Active \cup Terminal  BY <1>5, <4>1 DEF Waits, Held, Over
      <4> QED BY <3>2, <4>2 DEF Active, Terminal
    <3> QED BY <2>3, <3>1, <3>2
  <2> QED BY <2>2, <2>3 DEF Sent
<1> QED BY <1>2, <1>3, <1>4, <1>5 DEF Waits

\* A merge leaves a delivery its job, or ends the job, or brings a recalled job back.
LEMMA ReplacedIsFirm ==
  ASSUME TypeOK, AttemptsInv, OutcomeInv, NEW j \in Jobs, Exists(jobs[j]), Replaced(j),
         rows'[j] = rows[j], \A rec \in Copies(j)' : rec \in Copies(j),
         Revived(j) => jobs'[j].status # "queued", lockOwner' = lockOwner
  PROVE  Firm(j) /\ \A t \in Nat \ {0} : Tended(j, t) /\ Waits(j, t) => Held(j, t)'
<1>0. /\ jobs[j] \in JobRecord /\ jobs'[j] \in JobRecord
      /\ Exists(jobs'[j]) /\ jobs'[j].fence = jobs[j].fence
      /\ jobs[j].status \in Live /\ jobs'[j].status \in Live
  BY StateTypes, ReplacedIsAlike
<1> SUFFICES ASSUME NEW t \in Nat \ {0}, Tended(j, t)
             PROVE  /\ Tended(j, t)' /\ jobs'[j].status \in Ahead(jobs[j].status)
                    /\ Held(j, t) => Held(j, t)'
                    /\ Recalled(j, t) => Waits(j, t)'
                    /\ Waits(j, t) /\ Sent(j) => Sent(j)'
                    /\ Owns(j) => Owns(j)' \/ Over(j)'
                    /\ Waits(j, t) => Held(j, t)'
  BY DEF Firm
<1>1. Tended(j, t)'
  <2>1. \A rec \in Copies(j) : Fits(rec, j, t)  BY DEF Tended
  <2>2. jobs'[j] \in Copies(j)  BY DEF Replaced
  <2>3. \A rec \in Copies(j) : (rec.status \in Active /\ rec.fence = jobs'[j].fence) => (rec.token = t /\ rec.lease = "live")
    BY <1>0, <2>1 DEF Fits
  <2> QED BY <2>2, <2>3 DEF Tended, Fits
<1>2. jobs'[j].status \in Active => jobs'[j].token = t
  BY <1>0 DEF Tended, Fits, Replaced
<1>3. ASSUME jobs[j].status \in Active
      PROVE  jobs'[j].status \in Active /\ jobs'[j].status \in Ahead(jobs[j].status)
  <2>1. jobs[j].lease = "live"  BY <1>3 DEF Tended, Fits
  <2>2. jobs'[j].status \notin Terminal  BY <1>0, StatusSets
  <2>3. Rank[jobs'[j].status] >= Rank[jobs[j].status]
    BY <1>0, <2>1, <2>2 DEF Replaced, PersistedWins, Exists, JobRecord
  <2>4. CASE jobs[j].status = "admitted"
    <3>1. jobs'[j].status # "queued"  BY <2>3, <2>4 DEF Rank
    <3>2. jobs'[j].status \in Active  BY <1>0, <3>1 DEF Live, Active
    <3> QED BY <2>4, <3>2, AheadSteps
  <2>5. CASE jobs[j].status = "running"
    <3>1. jobs'[j].status # "queued" /\ jobs'[j].status # "admitted"  BY <2>3, <2>5 DEF Rank
    <3>2. jobs'[j].status \in {"running", "cancel_requested"}  BY <1>0, <3>1 DEF Live
    <3> QED BY <2>5, <3>2, AheadSteps DEF Active
  <2>6. CASE jobs[j].status = "cancel_requested"
    <3>1. jobs'[j].status \notin {"queued", "admitted", "running"}  BY <2>3, <2>6 DEF Rank
    <3>2. jobs'[j].status = "cancel_requested"  BY <1>0, <3>1 DEF Live
    <3> QED BY <2>6, <3>2, AheadSteps DEF Active
  <2> QED BY <1>3, <2>4, <2>5, <2>6 DEF Active
<1>4. ASSUME jobs[j].status \notin Active PROVE jobs'[j].status \in Ahead(jobs[j].status)
  <2>1. jobs[j].status = "queued"  BY <1>0, <1>4 DEF Live, Active
  <2> QED BY <1>0, <2>1, AheadSteps DEF Live, Active
<1>5. Held(j, t) => Held(j, t)'  BY <1>2, <1>3 DEF Held, Owns
<1>6. ASSUME Recalled(j, t) PROVE Held(j, t)'
  <2>1. jobs'[j].status # "queued"  BY <1>6, RecalledIsRevived
  <2>2. jobs'[j].status \in Active  BY <1>0, <2>1 DEF Live, Active
  <2> QED BY <1>2, <1>6, <2>2 DEF Held, Recalled, Owns
<1>7. Sent(j) => Sent(j)'  BY <1>0 DEF Sent
<1>8. ~Over(j)  BY <1>0, StatusSets DEF Over
<1> QED BY <1>1, <1>3, <1>4, <1>5, <1>6, <1>7, <1>8 DEF Waits, Owns

\* So does a cancellation.
LEMMA CancelIsFirm ==
  ASSUME TypeOK, NEW j \in Jobs, CancelQueued(j) \/ CancelActive(j)
  PROVE  Firm(j)
<1> USE DEF queueVars, pendingVars, storeVars, brokerVars, readVars, countVars
<1>0. jobs \in [Jobs -> JobRecord] /\ jobs[j] \in JobRecord  BY StateTypes
<1>1. UNCHANGED <<rows, snap, sched, poll>>
  BY DEF CancelQueued, CancelActive, MarkCancelled, PersistJob
<1>2. Copies(j)' = Copies(j)  BY <1>1 DEF Copies
<1>3. CASE CancelQueued(j)
  <2>1. jobs[j].status = "queued" /\ jobs' = [jobs EXCEPT ![j].status = "cancelled"]
    BY <1>3 DEF CancelQueued, MarkCancelled, Finished
  <2>2. jobs'[j].status = "cancelled" /\ jobs'[j].fence = jobs[j].fence
    BY <1>0, <2>1 DEF JobRecord
  <2>3. jobs'[j].status \in Terminal /\ jobs'[j].status \notin Active  BY <2>2 DEF Terminal, Active
  <2>4. jobs[j].status \notin Active  BY <2>1 DEF Active
  <2>5. \A t \in Nat \ {0} : Tended(j, t) => Tended(j, t)'
    BY <1>2, <2>2, <2>3 DEF Tended, Fits
  <2>6. jobs'[j].status \in Ahead(jobs[j].status)  BY <2>1, <2>3, AheadSteps
  <2>7. Sent(j) => Sent(j)'  BY <1>1, <1>2, <2>2 DEF Sent
  <2> QED BY <2>3, <2>4, <2>5, <2>6, <2>7 DEF Firm, Held, Waits, Over
<1>4. CASE CancelActive(j)
  <2>1. /\ jobs[j].status \in Live \ {"queued"} /\ lockOwner' = lockOwner
        /\ jobs' = [jobs EXCEPT ![j].status = "cancel_requested"]
    BY <1>4 DEF CancelActive
  <2>2. /\ jobs'[j].status = "cancel_requested" /\ jobs'[j].fence = jobs[j].fence
        /\ jobs'[j].token = jobs[j].token /\ jobs'[j].lease = jobs[j].lease
    BY <1>0, <2>1 DEF JobRecord
  <2>3. jobs[j].status \in Active /\ jobs'[j].status \in Active  BY <2>1, <2>2 DEF Live, Active
  <2>4. \A t \in Nat \ {0} : Tended(j, t) => Tended(j, t)'
    BY <1>2, <2>2, <2>3 DEF Tended, Fits
  <2>5. jobs'[j].status \in Ahead(jobs[j].status)
    BY <2>1, <2>2, AheadSteps DEF Live, Active, Terminal
  <2>6. Sent(j) => Sent(j)'  BY <1>1, <1>2, <2>2 DEF Sent
  <2>7. jobs[j].status # "queued"  BY <2>1
  <2> QED BY <2>1, <2>2, <2>3, <2>4, <2>5, <2>6, <2>7 DEF Firm, Held, Recalled, Owns
<1> QED BY <1>3, <1>4

----------------------------------------------------------------------------
(* What the deliveries keep *)

\* A message whose job stands firm finds it.
LEMMA MessageStands ==
  ASSUME NEW j \in Jobs, NEW t \in Nat \ {0}, Waits(j, t), Tended(j, t), Sent(j), Firm(j)
  PROVE  (Waits(j, t) /\ Tended(j, t) /\ Sent(j))'
<1>1. /\ Tended(j, t)' /\ jobs'[j].status \in Ahead(jobs[j].status)
      /\ Held(j, t) => Held(j, t)'
      /\ Recalled(j, t) => Waits(j, t)'
      /\ Waits(j, t) /\ Sent(j) => Sent(j)'
  BY DEF Firm
<1>2. Over(j) => Over(j)'  BY <1>1, AheadSteps DEF Over
<1> QED BY <1>1, <1>2 DEF Waits

\* A worker that a step leaves alone, and whose job stands firm, finds it.
LEMMA ServiceStands ==
  ASSUME NEW x \in Worker, ServiceKept(x), x.pc # "idle" => x.token # 0 /\ Firm(x.job)
  PROVE  ServiceKept(x)'
<1> DEFINE j == x.job  t == x.token
<1>1. CASE x.pc = "idle"  BY <1>1 DEF ServiceKept
<1>2. CASE x.pc # "idle"
  <2>1. j \in Jobs /\ t \in Nat \ {0} /\ Tended(j, t) /\ Firm(j)
    BY <1>2 DEF ServiceKept, Worker
  <2>2. ServiceKept(x)  OBVIOUS
  <2> HIDE DEF j, t
  <2>3. /\ Tended(j, t)' /\ jobs'[j].status \in Ahead(jobs[j].status)
        /\ Held(j, t) => Held(j, t)'
        /\ Recalled(j, t) => Waits(j, t)'
        /\ Owns(j) => Owns(j)' \/ Over(j)'
    BY <2>1 DEF Firm
  <2>4. Over(j) => Over(j)'  BY <2>3, AheadSteps DEF Over
  <2>5. Waits(j, t) => Waits(j, t)'  BY <2>3, <2>4 DEF Waits
  <2>6. /\ jobs[j].status \in Terminal \cup {"cancel_requested"}
             => jobs'[j].status \in Terminal \cup {"cancel_requested"}
        /\ jobs[j].status \in Terminal \cup {"cancel_requested", "running"}
             => jobs'[j].status \in Terminal \cup {"cancel_requested", "running"}
    BY <2>3, AheadSteps
  <2>7. ASSUME NEW obj \in JobRecord, ObjectKept(obj, j, t) PROVE ObjectKept(obj, j, t)'
    <3>1. obj.status \in Live \cup Terminal /\ jobs[j].status \in Ahead(obj.status)
      BY <2>7 DEF ObjectKept, Active, Live
    <3>2. jobs'[j].status \in Ahead(obj.status)  BY <2>3, <3>1, AheadSteps
    <3> QED BY <2>7, <3>2 DEF ObjectKept
  <2>8. x.obj \in JobRecord  BY DEF Worker
  <2>9. ASSUME x.pc = "retry"
        PROVE  \/ jobs'[j].status \in Terminal \cup {"cancel_requested"}
               \/ (x.raised /\ (Held(j, t)' \/ Recalled(j, t)'))
    <3>1. CASE jobs[j].status \in Terminal \cup {"cancel_requested"}  BY <2>6, <3>1
    <3>2. CASE x.raised /\ (Held(j, t) \/ Recalled(j, t))
      BY <2>3, <3>2 DEF Waits, Over
    <3> QED BY <2>2, <2>9, <3>1, <3>2 DEF ServiceKept, j, t
  <2>10. x.pc = "unlock" => Over(j)' \/ Owns(j)'
    BY <2>2, <2>3, <2>4 DEF ServiceKept, j
  <2>11. x.pc = "begin" =>
           IF Exists(x.obj) THEN Held(j, t)' /\ ObjectKept(x.obj, j, t)' ELSE Waits(j, t)'
    BY <2>2, <2>3, <2>5, <2>7, <2>8 DEF ServiceKept, j, t
  <2>12. x.pc \in {"running", "failing"} => Held(j, t)'  BY <2>2, <2>3 DEF ServiceKept, j, t
  <2>13. /\ x.pc \in {"release", "discard"} => jobs'[j].status \in Terminal \cup {"cancel_requested"}
         /\ x.pc = "settle" => jobs'[j].status \in Terminal \cup {"cancel_requested", "running"}
    BY <2>2, <2>6 DEF ServiceKept, j
  <2>14. (x.raised => x.pc \in {"retry", "unlock"})  BY <2>2 DEF ServiceKept
  <2> QED BY <1>2, <2>3, <2>9, <2>10, <2>11, <2>12, <2>13, <2>14 DEF ServiceKept, j, t
<1> QED BY <1>1, <1>2

\* What a worker that a step has moved to its next place must find there.
LEMMA ServiceFinds ==
  ASSUME NEW y, NEW j, NEW t, y.job = j, y.token = t, y.pc # "idle",
         y.raised => y.pc \in {"retry", "unlock"},
         Tended(j, t)',
         y.pc = "begin" => IF Exists(y.obj) THEN Held(j, t)' /\ ObjectKept(y.obj, j, t)'
                           ELSE Waits(j, t)',
         y.pc \in {"running", "failing"} => Held(j, t)',
         y.pc \in {"release", "discard"} => jobs'[j].status \in Terminal \cup {"cancel_requested"},
         y.pc = "settle" => jobs'[j].status \in Terminal \cup {"cancel_requested", "running"},
         y.pc = "retry" => jobs'[j].status \in Terminal \cup {"cancel_requested"}
                           \/ (y.raised /\ (Held(j, t)' \/ Recalled(j, t)')),
         y.pc = "unlock" => Over(j)' \/ Owns(j)'
  PROVE  ServiceKept(y)'
<1>1. Tended(y.job, y.token)'  BY DEF Tended, Fits, Copies
<1>2. /\ Held(j, t)' => Held(y.job, y.token)'
      /\ Recalled(j, t)' => Recalled(y.job, y.token)'
      /\ Waits(j, t)' => Waits(y.job, y.token)'
      /\ Over(j)' => Over(y.job)'
      /\ Owns(j)' => Owns(y.job)'
  BY DEF Held, Recalled, Waits, Over, Owns
<1>3. ObjectKept(y.obj, j, t)' => ObjectKept(y.obj, y.job, y.token)'  BY DEF ObjectKept
<1> QED BY <1>1, <1>2, <1>3 DEF ServiceKept

\* The parts of a state that has the invariants.
LEMMA RecoveryTypes ==
  ASSUME TypeOK, OutcomeInv, RecoveryInv
  PROVE  /\ \A n \in 1..Len(stream) : /\ stream[n].job \in Jobs /\ stream[n].token \in Nat \ {0}
                                      /\ MessageKept(stream[n]) /\ ~Free(stream[n].job)
         /\ \A w \in Workers : /\ worker[w] \in Worker /\ ServiceKept(worker[w])
                               /\ worker[w].job # 0 <=> Busy(w)
         /\ \A w \in Workers : Busy(w) => /\ worker[w].job \in Jobs /\ worker[w].token \in Nat \ {0}
                                          /\ ~Free(worker[w].job)
         /\ Engaged => sched.job \in Jobs
         /\ 0 \notin Jobs /\ \A j \in Jobs : ~Free(j) => Exists(jobs[j]) /\ Exists(rows[j])
<1>1. \A n \in 1..Len(stream) : /\ stream[n].job \in Jobs /\ stream[n].token \in Nat \ {0}
                                /\ MessageKept(stream[n]) /\ ~Free(stream[n].job)
  BY StateTypes DEF OutcomeInv, TokensApart, Issued, RecoveryInv, MessagesKept, Free, Carried
<1>2. \A w \in Workers : worker[w] \in Worker /\ ServiceKept(worker[w])
  BY StateTypes DEF RecoveryInv, ServicesKept
<1>3. ASSUME NEW w \in Workers, Busy(w)
      PROVE  worker[w].job \in Jobs /\ worker[w].token \in Nat \ {0} /\ ~Free(worker[w].job)
  BY <1>3, StateTypes DEF OutcomeInv, TokensApart, Issued, Busy, Free, Served
<1>4. 0 \notin Jobs  BY JobNumbers
<1>5. \A w \in Workers : worker[w].job # 0 <=> Busy(w)
  BY <1>2, <1>3, <1>4 DEF Busy, ServiceKept
<1>6. Engaged => sched.job \in Jobs  BY StateTypes DEF Engaged
<1>7. ASSUME NEW j \in Jobs, ~Free(j) PROVE Exists(jobs[j]) /\ Exists(rows[j])
  <2>1. CASE Carried(j)
    <3>1. PICK n \in 1..Len(stream) : stream[n].job = j  BY <2>1 DEF Carried
    <3>2. Waits(j, stream[n].token)  BY <1>1, <3>1 DEF MessageKept
    <3>3. Exists(jobs[j])  BY <3>2, StatusSets DEF Waits, Held, Recalled, Over, Exists, Active, Terminal
    <3> QED BY <3>3 DEF OutcomeInv, JobsKnown
  <2>2. CASE Served(j)
    <3>1. PICK w \in Workers : worker[w].job = j  BY <2>2 DEF Served
    <3>2. Busy(w)  BY <1>4, <1>5, <3>1
    <3> QED BY <3>1, <3>2 DEF OutcomeInv, JobsKnown
  <2> QED BY <1>7, <2>1, <2>2 DEF Free
<1> QED BY <1>1, <1>2, <1>3, <1>4, <1>5, <1>6, <1>7

\* No message comes or goes, and each worker that moves answers for itself.
LEMMA DeliveriesStand ==
  ASSUME TypeOK, OutcomeInv, RecoveryInv, stream' = stream, NEW W \in SUBSET Workers,
         \A n \in 1..Len(stream) : Firm(stream[n].job),
         \A w \in Workers \ W : worker'[w] = worker[w] /\ (Busy(w) => Firm(worker[w].job)),
         \A w \in W : Busy(w) /\ worker'[w].job \in {0, worker[w].job} /\ ServiceKept(worker[w])'
  PROVE  OneDelivery' /\ MessagesKept' /\ ServicesKept' /\ \A i \in Jobs : Free(i) => Free(i)'
<1>0. \A w \in Workers : worker'[w].job \in {0, worker[w].job}  OBVIOUS
<1>1. OneDelivery'
  <2>0. OneDelivery  BY DEF RecoveryInv
  <2>1. \A m, n \in 1..Len(stream) : stream[m].job = stream[n].job => m = n
    BY <2>0 DEF OneDelivery
  <2>2. \A v, w \in Workers : worker'[v].job # 0 /\ worker'[v].job = worker'[w].job => v = w
    BY <1>0, <2>0 DEF OneDelivery
  <2>3. \A m \in 1..Len(stream), w \in Workers : stream[m].job # worker'[w].job
    BY <1>0, <2>0, RecoveryTypes DEF OneDelivery
  <2> QED BY <2>1, <2>2, <2>3 DEF OneDelivery
<1>2. MessagesKept'
  <2> SUFFICES ASSUME NEW n \in 1..Len(stream) PROVE MessageKept(stream[n])'
    BY DEF MessagesKept
  <2>1. PICK j \in Jobs, t \in Nat \ {0} : j = stream[n].job /\ t = stream[n].token
    BY RecoveryTypes
  <2>2. Waits(j, t) /\ Tended(j, t) /\ Sent(j)  BY <2>1, RecoveryTypes DEF MessageKept
  <2>3. (Waits(j, t) /\ Tended(j, t) /\ Sent(j))'  BY <2>1, <2>2, MessageStands
  <2> QED BY <2>1, <2>3 DEF MessageKept
<1>3. ServicesKept'
  <2> SUFFICES ASSUME NEW w \in Workers PROVE ServiceKept(worker[w])'
    BY DEF ServicesKept
  <2>1. CASE w \in W  BY <2>1
  <2>2. CASE w \notin W
    <3>1. PICK x \in Worker : x = worker[w]  BY RecoveryTypes
    <3>2. ServiceKept(x) /\ (x.pc # "idle" => x.token # 0 /\ Firm(x.job))
      BY <2>2, <3>1, RecoveryTypes DEF Busy
    <3>3. ServiceKept(x)'  BY <3>2, ServiceStands
    <3>4. x = worker'[w]  BY <2>2, <3>1
    <3> QED BY <3>3, <3>4
  <2> QED BY <2>1, <2>2
<1>4. ASSUME NEW i \in Jobs, Free(i) PROVE Free(i)'
  <2>1. i # 0  BY JobNumbers
  <2> QED BY <1>0, <1>4, <2>1 DEF Free, Carried, Served
<1> QED BY <1>1, <1>2, <1>3, <1>4

\* The scheduler keeps what it has from a step of somebody else.
LEMMA SchedulerStands ==
  ASSUME TypeOK, OutcomeInv, RecoveryInv,
         sched'.pc = sched.pc, sched'.job = sched.job,
         sched.pc \in {"stage", "enqueue"} => sched'.rec = sched.rec,
         \A i \in Jobs : Free(i) => Free(i)',
         Engaged /\ Over(sched.job) => Over(sched.job)',
         Engaged /\ jobs[sched.job].status = "queued"
                      => jobs'[sched.job].status \in Terminal \cup {"queued"},
         sched.pc = "admit" /\ Owns(sched.job) => Owns(sched.job)' \/ Over(sched.job)',
         sched.pc \in {"stage", "enqueue"} => Firm(sched.job)
  PROVE  SchedulerKept'
<1>1. CASE ~Engaged  BY <1>1 DEF Engaged, SchedulerKept
<1>2. CASE Engaged
  <2>1. PICK j \in Jobs : j = sched.job  BY <1>2, RecoveryTypes
  <2>2. SchedulerKept  BY DEF RecoveryInv
  <2>3. j = sched'.job  BY <2>1
  <2>4. Free(j) => Free(j)'  OBVIOUS
  <2>5. Over(j) => Over(j)'  BY <1>2, <2>1, <2>3 DEF Over
  <2>6. jobs[j].status \in Terminal \cup {"queued"} => jobs'[j].status \in Terminal \cup {"queued"}
    BY <1>2, <2>1, <2>5 DEF Over
  <2>7. ASSUME sched.pc = "admit"
        PROVE  Over(j)' \/ (jobs'[j].status = "queued" /\ Free(j)' /\ Owns(j)')
    <3>1. Over(j) \/ (jobs[j].status = "queued" /\ Free(j) /\ Owns(j))
      BY <2>1, <2>2, <2>7 DEF SchedulerKept
    <3>2. Owns(j) => Owns(j)' \/ Over(j)'  BY <2>1, <2>3, <2>7 DEF Owns, Over
    <3> QED BY <2>4, <2>5, <2>6, <3>1, <3>2 DEF Over
  <2>8. ASSUME sched.pc \in {"stage", "enqueue"}
        PROVE  /\ Free(j)' /\ Held(j, sched.rec.token)' /\ Tended(j, sched.rec.token)'
               /\ sched.pc = "enqueue" => Sent(j)'
    <3>1. PICK t \in Nat \ {0} : t = sched.rec.token
      BY <2>8, StateTypes DEF OutcomeInv, Fresh
    <3>2. Free(j) /\ Held(j, t) /\ Tended(j, t) /\ (sched.pc = "enqueue" => Sent(j)) /\ Firm(j)
      BY <2>1, <2>2, <2>8, <3>1 DEF SchedulerKept
    <3>3. Held(j, t)' /\ Tended(j, t)' /\ (Sent(j) => Sent(j)')
      BY <3>2 DEF Firm, Waits
    <3>4. sched'.rec.token = t  BY <2>8, <3>1
    <3> QED BY <2>4, <2>8, <3>1, <3>2, <3>3, <3>4
  <2>9. sched'.pc \in {"unlock", "sweepunlock"} => Over(j)' \/ Free(j)'
    BY <2>1, <2>2, <2>4, <2>5 DEF SchedulerKept
  <2>10. sched'.pc = "acquire" => jobs'[j].status \in Terminal \cup {"queued"}
    BY <2>1, <2>2, <2>6 DEF SchedulerKept
  <2>11. sched'.pc = "stage" => sched'.rec.lease = "live"
    BY <2>2 DEF SchedulerKept
  <2>12. sched'.pc = "failed" => Free(j)'  BY <2>1, <2>2, <2>4 DEF SchedulerKept
  <2> QED BY <2>3, <2>7, <2>8, <2>9, <2>10, <2>11, <2>12 DEF SchedulerKept
<1> QED BY <1>1, <1>2

----------------------------------------------------------------------------
(* The scheduler *)

\* A step of the scheduler that does not write the row of a job copies nothing but that row.
LEMMA SchedulerCopies ==
  ASSUME TypeOK, SchedulerStep, NEW j \in Jobs, rows'[j] = rows[j]
  PROVE  Copies(j)' \subseteq Copies(j)
<1>1. snap' = snap /\ poll' = poll  BY SchedulerFootprint
<1>2. ASSUME sched'.pc = "merge", sched'.job = j PROVE sched'.rec = rows[j]
  <2>1. LoadLatest /\ sched \in Scheduler  BY <1>2, SchedulerPlaces, StateTypes
  <2>2. sched' = [sched EXCEPT !.pc = "merge", !.rec = rows[sched.job]]  BY <2>1 DEF LoadLatest
  <2> QED BY <1>2, <2>1, <2>2 DEF Scheduler
<1> QED BY <1>1, <1>2 DEF Copies

\* A step of the scheduler that leaves messages and workers, and of the jobs that somebody
\* carries the record, the row and the lock, leaves the deliveries what they have.
LEMMA SchedulerQuiet ==
  ASSUME TypeOK, AttemptsInv, OutcomeInv, RecoveryInv, SchedulerStep,
         UNCHANGED <<stream, worker>>,
         \A i \in Jobs : ~Free(i) => jobs'[i] = jobs[i] /\ rows'[i] = rows[i]
                                    /\ (Owns(i) => Owns(i)' \/ Over(i))
  PROVE  /\ poll'.job = 0 /\ OneDelivery' /\ MessagesKept' /\ ServicesKept'
         /\ \A i \in Jobs : Free(i) <=> Free(i)'
<1>1. ASSUME NEW i \in Jobs, ~Free(i) PROVE Firm(i)
  <2>1. Exists(jobs[i])  BY <1>1, RecoveryTypes
  <2>2. \A rec \in Copies(i)' : rec \in Copies(i)  BY <1>1, SchedulerCopies
  <2>3. rows'[i] \in Copies(i) /\ rows[i].fence <= rows'[i].fence  BY <1>1, CopyRecords, FieldTypes
  <2> QED BY <1>1, <2>1, <2>2, <2>3, SameIsFirm
<1>2. \A n \in 1..Len(stream) : Firm(stream[n].job)  BY <1>1, RecoveryTypes
<1>3. \A w \in Workers : Busy(w) => Firm(worker[w].job)  BY <1>1, RecoveryTypes
<1>4. OneDelivery' /\ MessagesKept' /\ ServicesKept'
  <2>1. /\ {} \in SUBSET Workers /\ stream' = stream
        /\ \A w \in Workers \ {} : worker'[w] = worker[w] /\ (Busy(w) => Firm(worker[w].job))
        /\ \A w \in {} : Busy(w) /\ worker'[w].job \in {0, worker[w].job} /\ ServiceKept(worker[w])'
    BY <1>3
  <2> QED BY <1>2, <2>1, DeliveriesStand
<1>5. poll' = poll  BY SchedulerFootprint
<1>6. \A i \in Jobs : Free(i) <=> Free(i)'  BY DEF Free, Carried, Served
<1> QED BY <1>4, <1>5, <1>6 DEF RecoveryInv

\* A job that is queued and whose session has no lock is carried by nobody, unless the
\* scheduler has yet to merge its row.
LEMMA UnlockedIsFree ==
  ASSUME TypeOK, AttemptsInv, OutcomeInv, RecoveryInv, NEW j \in Jobs, sched.job = j,
         sched.pc \notin {"load", "merge"}, jobs[j].status = "queued", ~Owns(j)
  PROVE  Free(j)
<1>1. \A t \in Nat : ~Held(j, t) /\ ~Recalled(j, t) /\ ~Over(j)
  BY StatusSets DEF Held, Recalled, Over
<1>2. ~Carried(j)
  BY <1>1, RecoveryTypes DEF Carried, MessageKept, Waits
<1>3. ASSUME NEW w \in Workers, worker[w].job = j PROVE FALSE
  <2>1. PICK x \in Worker : x = worker[w]  BY RecoveryTypes
  <2>2. ServiceKept(x) /\ x.job = j /\ x.pc # "idle" /\ x.pc \in WorkerPC /\ x.token \in Nat
    BY <1>3, <2>1, RecoveryTypes, JobNumbers DEF Busy, Worker
  <2>3. "queued" \notin Terminal \cup {"cancel_requested", "running"}  BY DEF Terminal
  <2> QED BY <1>1, <2>2, <2>3 DEF ServiceKept, WorkerPC, Waits
<1> QED BY <1>2, <1>3 DEF Free, Served

\* The steps of the scheduler that leave jobs, rows, messages and workers.
MovesOnly ==
  \/ SelectNothing \/ (\E k \in Keys : SelectCandidate(k))
  \/ LoadLatest \/ LoadFails \/ AcquireSession \/ SessionBusy \/ AdmissionLost
  \/ MarkDispatchSent \/ DispatchFails \/ FinishDispatch \/ SchedulerUnlock
  \/ LoadStale \/ (\E j \in Jobs : SkipStalled(j)) \/ SweepUnlock

\* They keep the invariant: the lock the scheduler takes was free, and those it gives back are
\* of jobs that nobody carries, or that are over.
LEMMA MovesKeep ==
  ASSUME TypeOK, AttemptsInv, OutcomeInv, RecoveryInv, Calm, MovesOnly
  PROVE  RecoveryInv'
<1> USE DEF queueVars, pendingVars, storeVars, brokerVars, readVars, countVars
<1>0. SchedulerStep /\ SchedulerKept /\ sched \in Scheduler
  BY StateTypes DEF MovesOnly, SchedulerStep, Dispatching, Sweeping, RecoveryInv
<1>1. UNCHANGED <<jobs, rows, stream, worker>>
  BY DEF MovesOnly, SelectNothing, SelectCandidate, LoadLatest, LoadFails, AcquireSession, SessionBusy,
     AdmissionLost, MarkDispatchSent, DispatchFails, Fault, FinishDispatch, SchedulerUnlock,
     LoadStale, SkipStalled, SweepUnlock
<1>2. CASE AcquireSession
  <2>0. PICK j \in Jobs : j = sched.job  BY <1>2, StateTypes DEF AcquireSession
  <2>1. sched.pc = "acquire" /\ jobs[j].status \in Terminal \cup {"queued"}
    BY <1>0, <1>2, <2>0 DEF AcquireSession, SchedulerKept
  <2>2. /\ lockOwner \in [Sessions -> 0..NumJobs] /\ 0 \notin Jobs
        /\ \A i \in Jobs : SessionOf[i] \in Sessions
    BY StateTypes, ScopeTypes, JobNumbers
  <2>3. CASE lockOwner[SessionOf[j]] = 0
    <3>1. lockOwner' = [lockOwner EXCEPT ![SessionOf[j]] = j] /\ SchedulerAt("admit")
      BY <1>2, <2>0, <2>3 DEF AcquireSession
    <3>2. sched'.pc = "admit" /\ sched'.job = j  BY <2>0, <3>1, Places DEF SchedulerPC
    <3>3. \A i \in Jobs : Owns(i) => Owns(i)'  BY <2>1, <2>2, <2>3, <3>1 DEF Owns
    <3>4. /\ poll'.job = 0 /\ OneDelivery' /\ MessagesKept' /\ ServicesKept'
          /\ \A i \in Jobs : Free(i) <=> Free(i)'
      BY <1>0, <1>1, <3>3, SchedulerQuiet
    <3>5. jobs[j].status = "queued" => Free(j)
      BY <2>0, <2>1, <2>2, <2>3, UnlockedIsFree DEF Owns
    <3>6. Owns(j)'  BY <2>2, <3>1 DEF Owns
    <3>7. SchedulerKept'
      <4>1. Over(j)' \/ (jobs'[j].status = "queued" /\ Free(j)' /\ Owns(j)')
        BY <1>1, <2>1, <3>4, <3>5, <3>6 DEF Over
      <4> QED BY <3>2, <4>1 DEF SchedulerKept
    <3> QED BY <3>4, <3>7 DEF RecoveryInv
  <2>4. CASE lockOwner[SessionOf[j]] # 0
    <3>1. UNCHANGED lockOwner /\ SchedulerAt("reappend")  BY <1>2, <2>0, <2>4 DEF AcquireSession
    <3>2. sched'.pc = "reappend"  BY <3>1, Places DEF SchedulerPC
    <3>3. SchedulerKept'  BY <3>2 DEF SchedulerKept
    <3> QED BY <1>0, <1>1, <3>1, <3>3, SchedulerQuiet DEF RecoveryInv, Owns
  <2> QED BY <2>3, <2>4
<1>3. CASE SchedulerUnlock \/ SweepUnlock
  <2>1. PICK j \in Jobs : j = sched.job /\ sched.pc \in {"unlock", "sweepunlock"}
    BY <1>3, StateTypes DEF SchedulerUnlock, SweepUnlock
  <2>2. ReleaseSession(j)  BY <1>3, <2>1 DEF SchedulerUnlock, SweepUnlock
  <2>3. Over(j) \/ Free(j)  BY <1>0, <2>1 DEF SchedulerKept
  <2>4. \A i \in Jobs : ~Free(i) /\ Owns(i) => Owns(i)' \/ Over(i)
    BY <2>2, <2>3, ReleaseFrame
  <2>5. sched'.pc \in {"idle", "sweep"}
    <3>1. CASE SchedulerUnlock  BY <3>1, Places DEF SchedulerUnlock
    <3>2. CASE SweepUnlock
      <4>1. \A x \in Scheduler : \A p : [x EXCEPT !.job = 0, !.pc = p].pc = p  BY DEF Scheduler
      <4>2. SweptFrom(sched.job) \in Scheduler  BY <2>1, <3>2, SweptType DEF SweepUnlock
      <4> QED BY <3>2, <4>1, <4>2 DEF SweepUnlock
    <3> QED BY <1>3, <3>1, <3>2
  <2>6. SchedulerKept'  BY <2>5 DEF SchedulerKept
  <2> QED BY <1>0, <1>1, <2>4, <2>6, SchedulerQuiet DEF RecoveryInv
<1>4. CASE AdmissionLost \/ DispatchFails
  <2>1. UNCHANGED lockOwner  BY <1>4 DEF AdmissionLost, DispatchFails, Fault
  <2>2. /\ poll'.job = 0 /\ OneDelivery' /\ MessagesKept' /\ ServicesKept'
        /\ \A i \in Jobs : Free(i) <=> Free(i)'
    BY <1>0, <1>1, <2>1, SchedulerQuiet DEF Owns
  <2>3. CASE AdmissionLost
    <3>1. sched'.pc = "unlock" /\ sched'.job = sched.job /\ sched.pc = "admit"
      BY <2>3, Places DEF AdmissionLost, SchedulerPC
    <3>2. PICK j \in Jobs : j = sched.job  BY <3>1, StateTypes
    <3>3. Over(j) \/ Free(j)  BY <1>0, <3>1, <3>2 DEF SchedulerKept
    <3>4. Over(j)' \/ Free(j)'  BY <1>1, <2>2, <3>3 DEF Over
    <3>5. SchedulerKept'  BY <3>1, <3>2, <3>4 DEF SchedulerKept
    <3> QED BY <2>2, <3>5 DEF RecoveryInv
  <2>4. CASE DispatchFails
    <3>1. sched'.pc = "failed" /\ sched'.job = sched.job /\ sched.pc \in {"stage", "enqueue"}
      BY <2>4, Places DEF DispatchFails, SchedulerPC, Fault, Calm
    <3>2. PICK j \in Jobs : j = sched.job  BY <3>1, StateTypes
    <3>3. Free(j)'  BY <1>0, <2>2, <3>1, <3>2 DEF SchedulerKept
    <3>5. SchedulerKept'  BY <3>1, <3>2, <3>3 DEF SchedulerKept
    <3> QED BY <2>2, <3>5 DEF RecoveryInv
  <2> QED BY <1>4, <2>3, <2>4
<1>5. CASE ~AcquireSession /\ ~SchedulerUnlock /\ ~SweepUnlock /\ ~AdmissionLost /\ ~DispatchFails
  <2>1. UNCHANGED lockOwner
    BY <1>5 DEF MovesOnly, SelectNothing, SelectCandidate, LoadLatest, LoadFails, SessionBusy,
       MarkDispatchSent, Fault, FinishDispatch, LoadStale, SkipStalled
  <2>2. sched'.pc \in {"idle", "sweep", "load", "merge", "finish"}
    <3>1. CASE SelectNothing \/ LoadFails \/ SessionBusy \/ FinishDispatch
      BY <3>1, Places DEF SelectNothing, LoadFails, SessionBusy, FinishDispatch
    <3>2. CASE LoadLatest \/ LoadStale \/ \E k \in Keys : SelectCandidate(k)
      BY <1>0, <3>2 DEF LoadLatest, LoadStale, SelectCandidate, Scheduler
    <3>3. CASE MarkDispatchSent  BY <3>3, Places DEF MarkDispatchSent, SchedulerPC
    <3>4. CASE \E j \in Jobs : SkipStalled(j)
      BY <1>0, <3>4 DEF SkipStalled, SweptFrom, IdleScheduler, Scheduler
    <3> QED BY <1>5, <3>1, <3>2, <3>3, <3>4 DEF MovesOnly
  <2>3. SchedulerKept'  BY <2>2 DEF SchedulerKept
  <2> QED BY <1>0, <1>1, <2>1, <2>3, SchedulerQuiet DEF RecoveryInv, Owns
<1> QED BY <1>2, <1>3, <1>4, <1>5

\* Admitting a job, and writing the admission to its row, keeps the invariant: nobody carries
\* the job, and no copy of it is of its new admission, except the one the scheduler writes.
LEMMA AdmissionKeeps ==
  ASSUME TypeOK, AttemptsInv, OutcomeInv, RecoveryInv, AdmitJob \/ StageDispatch
  PROVE  RecoveryInv'
<1> USE DEF queueVars, pendingVars, storeVars, brokerVars, readVars, countVars
<1>0. SchedulerStep /\ SchedulerKept /\ sched \in Scheduler
  BY StateTypes DEF SchedulerStep, Dispatching, RecoveryInv
<1>1. PICK j \in Jobs : j = sched.job  BY StateTypes DEF AdmitJob, StageDispatch
<1>2. UNCHANGED <<stream, worker, lockOwner>>  BY DEF AdmitJob, StageDispatch
<1>3. jobs \in [Jobs -> JobRecord] /\ rows \in [Jobs -> JobRecord] /\ Exists(jobs[j])
  BY <1>1, StateTypes DEF OutcomeInv, JobsKnown, Engaged, AdmitJob, StageDispatch
<1>4. CASE AdmitJob
  <2>1. sched.pc = "admit" /\ jobs[j].status = "queued"  BY <1>1, <1>4 DEF AdmitJob, Admissible
  <2>2. Free(j) /\ Owns(j)  BY <1>0, <1>1, <2>1, StatusSets DEF SchedulerKept, Over
  <2>3. /\ rows' = rows /\ \A i \in Jobs \ {j} : jobs'[i] = jobs[i]
        /\ Admitted(j)
    BY <1>1, <1>4, AdmissionSteps DEF AdmitJob
  <2>4. /\ poll'.job = 0 /\ OneDelivery' /\ MessagesKept' /\ ServicesKept'
        /\ \A i \in Jobs : Free(i) <=> Free(i)'
    BY <1>0, <1>2, <2>2, <2>3, SchedulerQuiet DEF Owns
  <2>5. jobs'[j].lease = "live"
    <3>1. jobs'[j] = [status |-> "admitted", attempt |-> jobs[j].attempt + 1,
                      fence |-> jobs[j].fence + 1, token |-> tokens[j] + 1, lease |-> "live"]
      BY <1>1, <1>3, <1>4 DEF AdmitJob
    <3> QED BY <3>1
  <2>0. PICK t : t = jobs'[j].token  OBVIOUS
  <2>6. ASSUME NEW rec \in Copies(j)' PROVE rec.fence # jobs'[j].fence
    <3>1. rec \in Copies(j)  BY <1>0, <2>3, <2>6, SchedulerCopies
    <3>2. rec.fence <= jobs[j].fence /\ rec \in JobRecord
      BY <1>3, <3>1, CopyRecords DEF OutcomeInv, CopiesBehind, Behind
    <3>3. rec.fence \in Nat /\ jobs[j].fence \in Nat  BY <1>3, <3>2, FieldTypes
    <3> QED BY <2>3, <3>2, <3>3 DEF Admitted
  <2>7. /\ sched'.pc = "stage" /\ sched'.job = j /\ sched'.rec.token = t
        /\ sched'.rec.lease = "live" /\ jobs'[j].status \in Active
    BY <2>0, <2>3, <2>5, StatusSets DEF Admitted
  <2>8. Tended(j, t)'  BY <2>0, <2>5, <2>6 DEF Tended, Fits
  <2>9. Held(j, t)'  BY <1>2, <2>0, <2>2, <2>7 DEF Held, Owns
  <2>10. SchedulerKept'  BY <2>2, <2>4, <2>7, <2>8, <2>9 DEF SchedulerKept
  <2> QED BY <2>4, <2>10 DEF RecoveryInv
<1>5. CASE StageDispatch
  <2>1. sched.pc = "stage" /\ UNCHANGED <<jobs, snap, poll>>  BY <1>5 DEF StageDispatch
  <2>2. /\ Free(j) /\ Held(j, sched.rec.token) /\ Tended(j, sched.rec.token)
        /\ sched.rec.lease = "live"
    BY <1>0, <1>1, <2>1 DEF SchedulerKept
  <2>3. \A i \in Jobs \ {j} : rows'[i] = rows[i]  BY <1>1, <1>3, <1>5 DEF StageDispatch
  <2>4. /\ poll'.job = 0 /\ OneDelivery' /\ MessagesKept' /\ ServicesKept'
        /\ \A i \in Jobs : Free(i) <=> Free(i)'
    BY <1>0, <1>2, <2>1, <2>2, <2>3, SchedulerQuiet DEF Owns
  <2>5. \/ sched'.pc = "failed"
        \/ sched'.pc = "enqueue" /\ rows'[j] = sched.rec
    BY <1>1, <1>3, <1>5, Places DEF StageDispatch, SchedulerPC
  <2>6. sched'.job = j /\ sched'.rec = sched.rec
    BY <1>1, <1>5, Places DEF StageDispatch, SchedulerPC
  <2>7. ASSUME sched'.pc = "enqueue"
        PROVE  Held(j, sched.rec.token)' /\ Tended(j, sched.rec.token)' /\ Sent(j)'
    <3>1. Held(j, sched.rec.token)'  BY <1>2, <2>1, <2>2, <2>6 DEF Held, Owns
    <3>2. rows'[j] = sched.rec  BY <2>5, <2>7
    <3>3. \A rec \in Copies(j)' : rec \in Copies(j) \/ rec = sched.rec
      BY <2>1, <2>7, <3>2 DEF Copies
    <3>4. Tended(j, sched.rec.token)'  BY <2>1, <2>2, <2>6, <3>3 DEF Tended, Fits
    <3>5. /\ jobs[j].fence = sched.rec.fence /\ sched.rec.status = "admitted"
          /\ \A rec \in Copies(j) : rec.fence = sched.rec.fence => rec.status # "queued"
      BY <1>1, <2>1 DEF OutcomeInv, Staged
    <3>6. Sent(j)'  BY <2>1, <3>2, <3>3, <3>5 DEF Sent
    <3> QED BY <3>1, <3>4, <3>6
  <2>8. SchedulerKept'  BY <2>2, <2>4, <2>5, <2>6, <2>7 DEF SchedulerKept
  <2> QED BY <2>4, <2>8 DEF RecoveryInv
<1> QED BY <1>4, <1>5

\* Sending the message keeps the invariant: it is the one delivery of its job, and finds the
\* job as it was admitted and the row as it was staged.
LEMMA EnqueueKeeps ==
  ASSUME TypeOK, AttemptsInv, OutcomeInv, RecoveryInv, EnqueueDispatch
  PROVE  RecoveryInv'
<1> USE DEF queueVars, pendingVars, storeVars, brokerVars, readVars, countVars
<1>0. SchedulerStep /\ SchedulerKept /\ sched.pc = "enqueue"
  BY DEF SchedulerStep, Dispatching, RecoveryInv, EnqueueDispatch
<1>1. PICK j \in Jobs, t \in Nat \ {0} : j = sched.job /\ t = sched.rec.token
  BY <1>0, StateTypes DEF OutcomeInv, Fresh
<1>2. Free(j) /\ Held(j, t) /\ Tended(j, t) /\ Sent(j)  BY <1>0, <1>1 DEF SchedulerKept
<1>3. UNCHANGED <<jobs, rows, lockOwner, worker, poll>>  BY DEF EnqueueDispatch
<1>4. ASSUME NEW i \in Jobs, ~Free(i) \/ i = j PROVE Firm(i)
  <2>1. Exists(jobs[i])
    BY <1>0, <1>1, <1>4, RecoveryTypes DEF OutcomeInv, JobsKnown, Engaged
  <2>2. \A rec \in Copies(i)' : rec \in Copies(i)  BY <1>0, <1>3, SchedulerCopies
  <2>3. rows'[i] \in Copies(i) /\ rows[i].fence <= rows'[i].fence
    BY <1>3, CopyRecords, FieldTypes
  <2> QED BY <1>3, <2>1, <2>2, <2>3, SameIsFirm DEF Owns
<1>5. /\ Len(stream) \in Nat /\ Len(stream') = Len(stream) + 1
      /\ stream'[Len(stream) + 1].job = j /\ stream'[Len(stream) + 1].token = t
      /\ \A n \in 1..Len(stream) : stream'[n] = stream[n]
  BY <1>1, MessageSent
<1>6. OneDelivery'
  <2>1. OneDelivery  BY DEF RecoveryInv
  <2>2. /\ \A n \in 1..Len(stream) : stream[n].job # j
        /\ \A w \in Workers : worker[w].job # j
    BY <1>2 DEF Free, Carried, Served
  <2>3. \A n \in 1..Len(stream') : n \in 1..Len(stream) \/ n = Len(stream) + 1  BY <1>5
  <2> QED BY <1>3, <1>5, <2>1, <2>2, <2>3 DEF OneDelivery
<1>7. MessagesKept'
  <2> SUFFICES ASSUME NEW n \in 1..Len(stream') PROVE MessageKept(stream[n])'
    BY DEF MessagesKept
  <2>1. CASE n = Len(stream) + 1
    <3>1. (Waits(j, t) /\ Tended(j, t) /\ Sent(j))'  BY <1>2, <1>4, MessageStands DEF Waits
    <3> QED BY <1>5, <2>1, <3>1 DEF MessageKept
  <2>2. CASE n \in 1..Len(stream)
    <3>1. PICK i \in Jobs, u \in Nat \ {0} : i = stream[n].job /\ u = stream[n].token
      BY <2>2, RecoveryTypes
    <3>2. Waits(i, u) /\ Tended(i, u) /\ Sent(i) /\ Firm(i)
      BY <1>4, <2>2, <3>1, RecoveryTypes DEF MessageKept
    <3>3. (Waits(i, u) /\ Tended(i, u) /\ Sent(i))'  BY <3>2, MessageStands
    <3> QED BY <1>5, <2>2, <3>1, <3>3 DEF MessageKept
  <2> QED BY <1>5, <2>1, <2>2
<1>8. ServicesKept'
  <2> SUFFICES ASSUME NEW w \in Workers PROVE ServiceKept(worker[w])'
    BY DEF ServicesKept
  <2>1. PICK x \in Worker : x = worker[w]  BY RecoveryTypes
  <2>2. ServiceKept(x) /\ (x.pc # "idle" => x.token # 0 /\ Firm(x.job))
    BY <1>4, <2>1, RecoveryTypes DEF Busy
  <2>3. ServiceKept(x)' /\ x = worker'[w]  BY <1>3, <2>1, <2>2, ServiceStands
  <2> QED BY <2>3
<1>9. sched'.pc = "mark"  BY Places DEF EnqueueDispatch, SchedulerPC
<1>10. SchedulerKept'  BY <1>9 DEF SchedulerKept
<1> QED BY <1>3, <1>6, <1>7, <1>8, <1>10 DEF RecoveryInv

\* A row that replaces a job leaves the deliveries what they have: a worker that has not begun
\* keeps the object it captured, and finds the job it was of still active.
LEMMA ReplacementKeeps ==
  ASSUME TypeOK, AttemptsInv, OutcomeInv, RecoveryInv, NEW j \in Jobs, NEW rec \in Copies(j),
         Exists(jobs[j]), PersistedWins(jobs[j], rec), Replace(j, rec),
         Revived(j) => rec.status # "queued",
         UNCHANGED <<rows, stream, lockOwner>>,
         \A i \in Jobs : Copies(i)' \subseteq Copies(i)
  PROVE  /\ OneDelivery' /\ MessagesKept' /\ ServicesKept'
         /\ \A i \in Jobs : Free(i) => Free(i)'
<1>1. /\ jobs'[j] = rec /\ \A i \in Jobs \ {j} : jobs'[i] = jobs[i]
      /\ \A w \in Workers : worker'[w].job = worker[w].job
  BY ReplaceFrame
<1>2. Replaced(j)  BY <1>1 DEF Replaced
<1>3. Firm(j) /\ \A t \in Nat \ {0} : Tended(j, t) /\ Waits(j, t) => Held(j, t)'
  BY <1>1, <1>2, ReplacedIsFirm
<1>4. ASSUME NEW i \in Jobs, ~Free(i) PROVE Firm(i)
  <2>1. CASE i = j  BY <1>3, <2>1
  <2>2. CASE i # j
    <3>1. Exists(jobs[i]) /\ jobs'[i] = jobs[i]  BY <1>1, <1>4, <2>2, RecoveryTypes
    <3>2. rows'[i] \in Copies(i) /\ rows[i].fence <= rows'[i].fence  BY CopyRecords, FieldTypes
    <3> QED BY <3>1, <3>2, SameIsFirm DEF Owns
  <2> QED BY <2>1, <2>2
<1> DEFINE W == {w \in Workers : worker[w].pc = "begin" /\ worker[w].job = j /\ Shared(w)}
<1>5. ASSUME NEW w \in Workers \ W PROVE worker'[w] = worker[w]
  BY <1>5 DEF Replace, Shared
<1>6. ASSUME NEW w \in W PROVE Busy(w) /\ ServiceKept(worker[w])'
  <2>1. PICK x \in Worker : x = worker[w]  BY RecoveryTypes
  <2>2. PICK t \in Nat \ {0} : t = x.token  BY <1>6, <2>1, RecoveryTypes DEF Busy
  <2>3. /\ x.pc = "begin" /\ x.job = j /\ ~Exists(x.obj) /\ Busy(w)
        /\ worker'[w] = [worker[w] EXCEPT !.obj = jobs[j]]
    BY <1>6, <2>1 DEF Replace, Shared, Busy
  <2>4. ServiceKept(x)  BY <2>1, RecoveryTypes
  <2>5. Tended(j, t) /\ Waits(j, t) /\ ~x.raised  BY <2>2, <2>3, <2>4 DEF ServiceKept
  <2>6. PICK obj \in JobRecord : obj = jobs[j]  BY StateTypes
  <2>7. PICK y : y = worker'[w]  OBVIOUS
  <2>8. /\ y.pc = "begin" /\ y.job = j /\ y.token = t /\ y.obj = obj /\ y.raised = x.raised
    BY <2>1, <2>2, <2>3, <2>6, <2>7 DEF Worker
  <2>9. Held(j, t)' /\ Tended(j, t)' /\ jobs'[j].status \in Ahead(jobs[j].status)
    BY <1>3, <2>5 DEF Firm
  <2>10. jobs[j].status \in Live  BY <1>2, ReplacedIsAlike
  <2>11. ObjectKept(obj, j, t)'
    <3>1. jobs[j].token = t
      BY <2>5, <2>10, StatusSets DEF Waits, Held, Recalled, Over
    <3>2. obj.status \in Active \cup {"queued"}  BY <2>6, <2>10 DEF Live, Active
    <3> QED BY <2>6, <2>9, <3>1, <3>2 DEF ObjectKept
  <2>12. ServiceKept(y)'
    BY <2>5, <2>6, <2>8, <2>9, <2>11, ServiceFinds
  <2> QED BY <2>3, <2>7, <2>12
<1>7. /\ W \in SUBSET Workers /\ stream' = stream
      /\ \A n \in 1..Len(stream) : Firm(stream[n].job)
      /\ \A w \in Workers \ W : worker'[w] = worker[w] /\ (Busy(w) => Firm(worker[w].job))
      /\ \A w \in W : Busy(w) /\ worker'[w].job \in {0, worker[w].job} /\ ServiceKept(worker[w])'
  BY <1>1, <1>4, <1>5, <1>6, RecoveryTypes
<1> HIDE DEF W
<1> QED BY <1>7, DeliveriesStand

\* Merging the latest row keeps the invariant.
LEMMA MergeKeeps ==
  ASSUME TypeOK, AttemptsInv, OutcomeInv, RecoveryInv, MergeLatest
  PROVE  RecoveryInv'
<1> USE DEF queueVars, pendingVars, storeVars, brokerVars, readVars, countVars
<1>0. SchedulerStep /\ sched.pc = "merge"
  BY DEF SchedulerStep, Dispatching, MergeLatest
<1>1. PICK j \in Jobs : j = sched.job  BY <1>0, StateTypes
<1>2. Exists(jobs[j])  BY <1>0, <1>1 DEF OutcomeInv, JobsKnown, Engaged
<1>3. PICK rec \in Copies(j) : rec = sched.rec  BY <1>0, <1>1, CopyRecords
<1>4. UNCHANGED <<rows, stream, lockOwner, poll>> /\ Merge(j, rec)
  BY <1>1, <1>3 DEF MergeLatest
<1>5. \A i \in Jobs : Copies(i)' \subseteq Copies(i)  BY <1>0, <1>4, SchedulerCopies
<1>6. /\ OneDelivery' /\ MessagesKept' /\ ServicesKept'
      /\ \A i \in Jobs : Free(i) => Free(i)'
  <2>1. CASE PersistedWins(jobs[j], rec)
    <3>1. Revived(j) => rec.status # "queued"
      BY <1>0, <1>1, <1>3 DEF AttemptsInv, RevivedIsContradicted, Contradicts
    <3> QED BY <1>2, <1>4, <1>5, <2>1, <3>1, ReplacementKeeps DEF Merge
  <2>2. CASE ~PersistedWins(jobs[j], rec)
    <3>1. UNCHANGED <<jobs, worker>>  BY <1>4, <2>2 DEF Merge
    <3> QED BY <1>0, <1>4, <3>1, SchedulerQuiet DEF Owns
  <2> QED BY <2>1, <2>2
<1>7. \/ sched'.pc = "idle"
      \/ sched'.pc = "acquire" /\ sched'.job = j /\ jobs'[j].status = "queued"
  <2>1. \/ sched' = IdleScheduler
        \/ sched' = [sched EXCEPT !.pc = "acquire", !.rec = NoJob] /\ jobs'[j].status = "queued"
    BY <1>1 DEF MergeLatest
  <2>2. sched \in Scheduler  BY StateTypes
  <2>3. CASE sched' = IdleScheduler  BY <2>3, Places
  <2>4. CASE sched' = [sched EXCEPT !.pc = "acquire", !.rec = NoJob] /\ jobs'[j].status = "queued"
    BY <1>1, <2>2, <2>4 DEF Scheduler
  <2> QED BY <2>1, <2>3, <2>4
<1>8. SchedulerKept'  BY <1>7 DEF SchedulerKept
<1> QED BY <1>4, <1>6, <1>8 DEF RecoveryInv

\* A leased job whose lease has run out is carried by nobody.
LEMMA OverdueIsFree ==
  ASSUME TypeOK, OutcomeInv, RecoveryInv, NEW j \in Jobs, Leased(jobs[j]), jobs[j].lease # "live"
  PROVE  Free(j)
<1>1. \A t \in Nat : ~Tended(j, t)  BY DEF Tended, Fits, Leased, Active
<1>2. ~Carried(j)  BY <1>1, RecoveryTypes DEF Carried, MessageKept
<1>3. ASSUME NEW w \in Workers, worker[w].job = j PROVE FALSE
  <2>1. PICK x \in Worker : x = worker[w]  BY RecoveryTypes
  <2>2. ServiceKept(x) /\ x.job = j /\ x.pc # "idle" /\ x.token \in Nat
    BY <1>3, <2>1, RecoveryTypes, JobNumbers DEF Busy, Worker
  <2> QED BY <1>1, <2>2 DEF ServiceKept
<1> QED BY <1>2, <1>3 DEF Free, Served

\* What the scheduler takes back, after a failed dispatch or in a sweep, is carried by nobody.
LEMMA TakingBackKeeps ==
  ASSUME TypeOK, AttemptsInv, OutcomeInv, RecoveryInv,
         HandleDispatchFailure \/ \E j \in Jobs : FailStalled(j) \/ RequeueStalled(j)
  PROVE  RecoveryInv'
<1> USE DEF queueVars, pendingVars, storeVars, brokerVars, readVars, countVars
<1>0. /\ SchedulerStep /\ SchedulerKept /\ sched \in Scheduler /\ jobs \in [Jobs -> JobRecord]
      /\ UNCHANGED <<rows, stream, worker, lockOwner, poll>>
  BY StateTypes DEF SchedulerStep, Dispatching, Sweeping, RecoveryInv, HandleDispatchFailure,
     FailStalled, RequeueStalled, PersistJob
<1>1. PICK j \in Jobs : /\ Free(j) /\ \A i \in Jobs \ {j} : jobs'[i] = jobs[i]
                        /\ \/ sched'.pc \in {"idle", "sweep"}
                           \/ sched'.pc \in {"unlock", "sweepunlock"} /\ sched'.job = j
  <2>1. CASE HandleDispatchFailure
    <3>1. PICK j \in Jobs : j = sched.job /\ sched.pc = "failed"
      BY <2>1, StateTypes DEF HandleDispatchFailure
    <3>2. Free(j)  BY <1>0, <3>1 DEF SchedulerKept
    <3>3. \A i \in Jobs \ {j} : jobs'[i] = jobs[i]
      BY <1>0, <2>1, <3>1 DEF HandleDispatchFailure
    <3>4. sched'.pc = "idle" \/ (sched'.pc = "unlock" /\ sched'.job = j)
      BY <2>1, <3>1, Places DEF HandleDispatchFailure, SchedulerPC
    <3> QED BY <3>2, <3>3, <3>4
  <2>2. ASSUME NEW j \in Jobs, FailStalled(j) \/ RequeueStalled(j)
        PROVE  /\ Free(j) /\ \A i \in Jobs \ {j} : jobs'[i] = jobs[i]
               /\ \/ sched'.pc \in {"idle", "sweep"}
                  \/ sched'.pc \in {"unlock", "sweepunlock"} /\ sched'.job = j
    <3>1. Free(j) /\ sched.pc = "sweep"
      BY <2>2, OverdueIsFree DEF FailStalled, RequeueStalled, Stalled
    <3>2. \A i \in Jobs \ {j} : jobs'[i] = jobs[i]
      BY <1>0, <2>2 DEF FailStalled, RequeueStalled
    <3>3. CASE FailStalled(j)
      BY <1>0, <3>1, <3>2, <3>3 DEF FailStalled, SweptFrom, IdleScheduler, Scheduler
    <3>4. CASE RequeueStalled(j)
      BY <1>0, <3>1, <3>2, <3>4 DEF RequeueStalled, Scheduler
    <3> QED BY <2>2, <3>3, <3>4
  <2> QED BY <2>1, <2>2
<1>2. /\ poll'.job = 0 /\ OneDelivery' /\ MessagesKept' /\ ServicesKept'
      /\ \A i \in Jobs : Free(i) <=> Free(i)'
  BY <1>0, <1>1, SchedulerQuiet DEF Owns
<1>3. SchedulerKept'  BY <1>1, <1>2 DEF SchedulerKept
<1> QED BY <1>2, <1>3 DEF RecoveryInv

\* The scheduler keeps the invariant.
LEMMA SchedulerKeeps ==
  ASSUME TypeOK, AttemptsInv, OutcomeInv, RecoveryInv, Calm, SchedulerStep
  PROVE  RecoveryInv'
BY MovesKeep, AdmissionKeeps, EnqueueKeeps, MergeKeeps, TakingBackKeeps
   DEF SchedulerStep, Dispatching, Sweeping, MovesOnly

----------------------------------------------------------------------------
(* Requests, the persistence task, and time *)

\* A step outside the scheduler and the workers keeps the invariant if every job that somebody
\* carries, or the scheduler dispatches, stands firm, and the job that the scheduler has taken
\* up stays queued or ends.
LEMMA OutsideKeeps ==
  ASSUME TypeOK, OutcomeInv, RecoveryInv, UNCHANGED <<stream, worker>>, poll'.job = 0,
         sched'.pc = sched.pc, sched'.job = sched.job,
         sched.pc \in {"stage", "enqueue"} => sched'.rec = sched.rec,
         \A i \in Jobs : ~Free(i) \/ (sched.pc \in {"stage", "enqueue"} /\ sched.job = i) => Firm(i),
         Engaged => \/ jobs'[sched.job].status = jobs[sched.job].status
                    \/ jobs'[sched.job].status \in Terminal
                    \/ jobs[sched.job].status \in Active,
         sched.pc = "admit" /\ Owns(sched.job) => Owns(sched.job)' \/ Over(sched.job)'
  PROVE  RecoveryInv'
<1>1. /\ {} \in SUBSET Workers /\ stream' = stream
      /\ \A n \in 1..Len(stream) : Firm(stream[n].job)
      /\ \A w \in Workers \ {} : worker'[w] = worker[w] /\ (Busy(w) => Firm(worker[w].job))
      /\ \A w \in {} : Busy(w) /\ worker'[w].job \in {0, worker[w].job} /\ ServiceKept(worker[w])'
  BY RecoveryTypes
<1>2. OneDelivery' /\ MessagesKept' /\ ServicesKept' /\ \A i \in Jobs : Free(i) => Free(i)'
  BY <1>1, DeliveriesStand
<1>3. sched.pc \in {"stage", "enqueue"} => Firm(sched.job)
  BY RecoveryTypes DEF Engaged
<1>4. Engaged /\ Over(sched.job) => Over(sched.job)'
  <2> SUFFICES ASSUME Engaged, Over(sched.job) PROVE jobs'[sched.job].status \in Terminal
    BY DEF Over, Engaged
  <2> QED BY StatusSets DEF Over
<1>5. Engaged /\ jobs[sched.job].status = "queued"
        => jobs'[sched.job].status \in Terminal \cup {"queued"}
  BY StatusSets
<1>6. SchedulerKept'  BY <1>2, <1>3, <1>4, <1>5, SchedulerStands
<1> QED BY <1>2, <1>6 DEF RecoveryInv

\* A cancellation keeps the invariant.
LEMMA CancelKeeps ==
  ASSUME TypeOK, AttemptsInv, OutcomeInv, RecoveryInv, NEW j \in Jobs,
         CancelQueued(j) \/ CancelActive(j)
  PROVE  RecoveryInv'
<1> USE DEF queueVars, pendingVars, storeVars, brokerVars, readVars, countVars
<1>0. jobs \in [Jobs -> JobRecord]  BY StateTypes
<1>1. UNCHANGED <<stream, worker, poll, sched, rows, snap>>
  BY DEF CancelQueued, CancelActive, MarkCancelled, PersistJob
<1>2. \A i \in Jobs : Copies(i)' = Copies(i)  BY <1>1 DEF Copies
<1>3. \A i \in Jobs \ {j} : jobs'[i] = jobs[i] /\ (Owns(i) => Owns(i)')
  <2>1. CASE CancelQueued(j)
    BY <1>0, <2>1, ReleaseFrame DEF CancelQueued, MarkCancelled, Finished
  <2>2. CASE CancelActive(j)  BY <1>0, <2>2 DEF CancelActive, Owns
  <2> QED BY <2>1, <2>2
<1>4. \/ jobs'[j].status \in Terminal
      \/ jobs[j].status \in Active /\ UNCHANGED lockOwner
  <2>1. CASE CancelQueued(j)
    <3>1. jobs' = [jobs EXCEPT ![j].status = "cancelled"]
      BY <2>1 DEF CancelQueued, MarkCancelled, Finished
    <3>2. jobs'[j].status = "cancelled"  BY <1>0, <3>1 DEF JobRecord
    <3> QED BY <3>2 DEF Terminal
  <2>2. CASE CancelActive(j)  BY <2>2 DEF CancelActive, Live, Active
  <2> QED BY <2>1, <2>2
<1>5. ASSUME NEW i \in Jobs, ~Free(i) \/ (sched.pc \in {"stage", "enqueue"} /\ sched.job = i)
      PROVE  Firm(i)
  <2>1. CASE i = j  BY <2>1, CancelIsFirm
  <2>2. CASE i # j
    <3>1. Exists(jobs[i])  BY <1>5, RecoveryTypes DEF OutcomeInv, JobsKnown, Engaged
    <3>2. rows'[i] \in Copies(i) /\ rows[i].fence <= rows'[i].fence
      BY <1>1, CopyRecords, FieldTypes
    <3> QED BY <1>2, <1>3, <2>2, <3>1, <3>2, SameIsFirm
  <2> QED BY <2>1, <2>2
<1>6. Engaged => \/ jobs'[sched.job].status = jobs[sched.job].status
                 \/ jobs'[sched.job].status \in Terminal
                 \/ jobs[sched.job].status \in Active
  BY <1>3, <1>4, RecoveryTypes
<1>7. ASSUME sched.pc = "admit", Owns(sched.job) PROVE Owns(sched.job)' \/ Over(sched.job)'
  <2>1. PICK i \in Jobs : i = sched.job  BY <1>7, StateTypes
  <2>2. Owns(i)' \/ Over(i)'  BY <1>3, <1>4, <1>7, <2>1 DEF Owns, Over
  <2> QED BY <1>1, <2>1, <2>2 DEF Owns, Over
<1> QED BY <1>1, <1>5, <1>6, <1>7, OutsideKeeps DEF RecoveryInv

\* The creation of a job keeps the invariant: nobody knows the job.
LEMMA CreateKeeps ==
  ASSUME TypeOK, AttemptsInv, OutcomeInv, RecoveryInv, NEW j \in Jobs, CreateJob(j)
  PROVE  RecoveryInv'
<1> USE DEF queueVars, pendingVars, storeVars, brokerVars, readVars, countVars
<1>0. jobs \in [Jobs -> JobRecord] /\ rows \in [Jobs -> JobRecord]  BY StateTypes
<1>1. UNCHANGED <<stream, worker, poll, sched, snap, lockOwner>> /\ ~Exists(rows[j])
  BY DEF CreateJob
<1>2. Free(j) /\ (Engaged => sched.job # j)
  BY <1>1, RecoveryTypes DEF OutcomeInv, JobsKnown
<1>3. \A i \in Jobs \ {j} : jobs'[i] = jobs[i] /\ rows'[i] = rows[i]
  BY <1>0 DEF CreateJob
<1>4. ASSUME NEW i \in Jobs, ~Free(i) \/ (sched.pc \in {"stage", "enqueue"} /\ sched.job = i)
      PROVE  Firm(i)
  <2>1. i # j /\ Exists(jobs[i])
    BY <1>2, <1>4, RecoveryTypes DEF OutcomeInv, JobsKnown, Engaged
  <2>2. Copies(i)' = Copies(i)  BY <1>1, <1>3, <2>1 DEF Copies
  <2>3. rows'[i] \in Copies(i) /\ rows[i].fence <= rows'[i].fence
    BY <1>3, <2>1, CopyRecords, FieldTypes
  <2> QED BY <1>1, <1>3, <2>1, <2>2, <2>3, SameIsFirm DEF Owns
<1>5. Engaged => jobs'[sched.job] = jobs[sched.job]  BY <1>2, <1>3, RecoveryTypes
<1> QED BY <1>1, <1>4, <1>5, OutsideKeeps DEF RecoveryInv, Owns

\* The persistence task keeps the invariant: what it copies is the job as it is now, and the row
\* it writes is not older than the one that was there.
LEMMA PersistingKeeps ==
  ASSUME TypeOK, AttemptsInv, OutcomeInv, RecoveryInv, Persisting
  PROVE  RecoveryInv'
<1> USE DEF queueVars, pendingVars, storeVars, brokerVars, readVars, countVars
<1>1. UNCHANGED <<jobs, stream, worker, poll, sched, lockOwner>>
  BY DEF Persisting, TakeSnapshot, SaveSnapshot
<1>2. ASSUME NEW i \in Jobs
      PROVE  /\ rows'[i] \in Copies(i) /\ rows[i].fence <= rows'[i].fence
             /\ \A rec \in Copies(i)' : rec \in Copies(i) \/ (rec = jobs[i] /\ i \in dirty)
  <2>1. CASE \E j \in Jobs : TakeSnapshot(j)
    <3>1. PICK j \in Jobs : TakeSnapshot(j)  BY <2>1
    <3>2. rows' = rows /\ snap'.job = j /\ snap'.rec = jobs[j] /\ j \in dirty
      BY <3>1 DEF TakeSnapshot
    <3>3. \A rec \in Copies(i)' : rec \in Copies(i) \/ (rec = jobs[i] /\ i \in dirty)
      BY <1>1, <3>2 DEF Copies
    <3> QED BY <3>2, <3>3, CopyRecords, FieldTypes
  <2>2. CASE SaveSnapshot
    <3>1. /\ rows \in [Jobs -> JobRecord] /\ snap'.job = 0
          /\ rows' = [rows EXCEPT ![snap.job] = IF snap.rec.fence >= @.fence THEN snap.rec ELSE @]
      BY <2>2, StateTypes DEF SaveSnapshot, NoCopy
    <3>2. \/ rows'[i] = rows[i]
          \/ snap.job = i /\ rows'[i] = snap.rec /\ snap.rec.fence >= rows[i].fence
      BY <3>1
    <3>3. rows'[i] \in Copies(i) /\ rows'[i].fence \in Nat /\ rows[i].fence \in Nat
      BY <3>2, CopyRecords, FieldTypes
    <3>4. \A rec \in Copies(i)' : rec \in Copies(i)
      BY <1>1, <3>1, <3>3, JobNumbers DEF Copies
    <3> QED BY <3>2, <3>3, <3>4
  <2> QED BY <2>1, <2>2 DEF Persisting
<1>3. ASSUME NEW i \in Jobs, ~Free(i) \/ (sched.pc \in {"stage", "enqueue"} /\ sched.job = i)
      PROVE  Firm(i)
  <2>1. Exists(jobs[i])  BY <1>3, RecoveryTypes DEF OutcomeInv, JobsKnown, Engaged
  <2> QED BY <1>1, <1>2, <2>1, SameIsFirm DEF Owns
<1> QED BY <1>1, <1>3, OutsideKeeps DEF RecoveryInv, Owns

\* What runs out belongs to nobody who still acts, as long as nothing expires early.
LEMMA OverdueIsIdle ==
  ASSUME TypeOK, NEW j \in Jobs, Overdue(j), env'.expiries = 0
  PROVE  /\ Free(j)
         /\ sched.job = j => sched.pc \notin {"admit", "stage", "enqueue"}
<1>1. env \in Counters /\ env.expiries \in Nat  BY DEF TypeOK, Counters
<1>2. ASSUME env' = [env EXCEPT !.expiries = @ + 1] PROVE FALSE
  <2>1. env'.expiries = env.expiries + 1  BY <1>1, <1>2 DEF Counters
  <2> QED BY <1>1, <2>1
<1>3. ~Handled(j)  BY <1>2 DEF Overdue
<1> QED BY <1>3 DEF Handled, Free, Carried, Served

\* Leases and locks that run out keep the invariant.
LEMMA TimeoutKeeps ==
  ASSUME TypeOK, AttemptsInv, OutcomeInv, RecoveryInv, env'.expiries = 0,
         (\E j \in Jobs : LeaseTimeout(j)) \/ \E s \in Sessions : LockTimeout(s)
  PROVE  RecoveryInv'
<1> USE DEF queueVars, pendingVars, storeVars, brokerVars, readVars, countVars
<1>0. /\ jobs \in [Jobs -> JobRecord] /\ rows \in [Jobs -> JobRecord] /\ sched \in Scheduler
      /\ snap \in Copy /\ poll.job = 0 /\ 0 \notin Jobs
  BY StateTypes, JobNumbers DEF TypeOK, RecoveryInv
<1>1. ASSUME NEW j \in Jobs, LeaseTimeout(j) PROVE RecoveryInv'
  <2>1. Free(j) /\ (sched.job = j => sched.pc \notin {"admit", "stage", "enqueue"})
    BY <1>1, OverdueIsIdle DEF LeaseTimeout
  <2>2. UNCHANGED <<stream, worker, lockOwner, poll, dirty>>
    BY <1>0, <1>1 DEF LeaseTimeout
  <2>3. /\ jobs'[j].status = jobs[j].status
        /\ \A i \in Jobs \ {j} : jobs'[i] = jobs[i] /\ rows'[i] = rows[i]
    <3>1. /\ jobs'[j] = Aged(jobs[j])
          /\ \A i \in Jobs \ {j} : jobs'[i] = jobs[i] /\ rows'[i] = rows[i]
      BY <1>0, <1>1 DEF LeaseTimeout
    <3> QED BY <1>0, <3>1, AgedRecord
  <2>4. sched'.pc = sched.pc /\ sched'.job = sched.job /\ (sched.job # j => sched' = sched)
    BY <1>0, <1>1 DEF LeaseTimeout, Scheduler
  <2>5. snap'.job = snap.job /\ (snap.job # j => snap' = snap)
    BY <1>0, <1>1 DEF LeaseTimeout, Copy
  <2>6. \A i \in Jobs \ {j} : Copies(i)' = Copies(i)
    BY <2>2, <2>3, <2>4, <2>5 DEF Copies
  <2>7. ASSUME NEW i \in Jobs, ~Free(i) \/ (sched.pc \in {"stage", "enqueue"} /\ sched.job = i)
        PROVE  Firm(i)
    <3>1. i # j  BY <2>1, <2>7
    <3>2. Exists(jobs[i])  BY <2>7, RecoveryTypes DEF OutcomeInv, JobsKnown, Engaged
    <3>3. rows'[i] \in Copies(i) /\ rows[i].fence <= rows'[i].fence
      BY <2>3, <3>1, CopyRecords, FieldTypes
    <3>4. Owns(i) => Owns(i)'  BY <2>2 DEF Owns
    <3> QED BY <2>3, <2>6, <3>1, <3>2, <3>3, <3>4, SameIsFirm
  <2>8. Engaged => jobs'[sched.job].status = jobs[sched.job].status
    BY <2>3, RecoveryTypes
  <2>9. sched.pc = "admit" /\ Owns(sched.job) => Owns(sched.job)'  BY <2>2, <2>4 DEF Owns
  <2>10. sched.pc \in {"stage", "enqueue"} => sched'.rec = sched.rec  BY <2>1, <2>4
  <2> QED BY <1>0, <2>2, <2>4, <2>7, <2>8, <2>9, <2>10, OutsideKeeps
<1>2. ASSUME NEW s \in Sessions, LockTimeout(s) PROVE RecoveryInv'
  <2>0. /\ lockOwner \in [Sessions -> 0..NumJobs] /\ lockOwner[s] # 0
        /\ lockOwner' = [lockOwner EXCEPT ![s] = 0]
        /\ UNCHANGED <<jobs, stream, sched, worker, rows, snap, poll>>
    BY <1>2, StateTypes DEF LockTimeout
  <2>1. PICK j \in Jobs : j = lockOwner[s]  BY <2>0, StateTypes
  <2>2. Free(j) /\ (sched.job = j => sched.pc \notin {"admit", "stage", "enqueue"})
    BY <1>2, <2>1, OverdueIsIdle DEF LockTimeout
  <2>3. \A i \in Jobs \ {j} : Owns(i) => Owns(i)'  BY <2>0, <2>1, ScopeTypes DEF Owns
  <2>4. \A i \in Jobs : Copies(i)' = Copies(i)  BY <2>0 DEF Copies
  <2>5. ASSUME NEW i \in Jobs, ~Free(i) \/ (sched.pc \in {"stage", "enqueue"} /\ sched.job = i)
        PROVE  Firm(i)
    <3>1. i # j  BY <2>2, <2>5
    <3>2. Exists(jobs[i])  BY <2>5, RecoveryTypes DEF OutcomeInv, JobsKnown, Engaged
    <3>3. rows'[i] \in Copies(i) /\ rows[i].fence <= rows'[i].fence
      BY <2>0, CopyRecords, FieldTypes
    <3> QED BY <2>0, <2>3, <2>4, <3>1, <3>2, <3>3, SameIsFirm
  <2>6. sched.pc = "admit" /\ Owns(sched.job) => Owns(sched.job)'
    <3> SUFFICES ASSUME sched.pc = "admit", Owns(sched.job) PROVE Owns(sched.job)'  OBVIOUS
    <3>1. PICK i \in Jobs : i = sched.job  BY StateTypes
    <3>2. Owns(i)'  BY <2>2, <2>3, <3>1
    <3> QED BY <2>0, <3>1, <3>2 DEF Owns
  <2>7. Engaged => jobs'[sched.job].status = jobs[sched.job].status  BY <2>0
  <2> QED BY <1>0, <2>0, <2>5, <2>6, <2>7, OutsideKeeps
<1> QED BY <1>1, <1>2

\* So do all steps but those of the scheduler and the workers: nothing was read by a request.
LEMMA OtherKeeps ==
  ASSUME TypeOK, AttemptsInv, OutcomeInv, RecoveryInv, Calm, env'.expiries = 0, OtherStep
  PROVE  RecoveryInv'
<1>1. ~PollMerge /\ \A j \in Jobs : ~PollRead(j)
  BY DEF RecoveryInv, PollMerge, Calm, PollRead
<1> QED BY <1>1, CreateKeeps, CancelKeeps, TimeoutKeeps, PersistingKeeps DEF OtherStep

----------------------------------------------------------------------------
(* The workers *)

\* What a delivery relies on in the records is kept by a step that leaves the copies, and
\* makes the job none of a new admission.
LEMMA TendedStays ==
  ASSUME NEW j, NEW t, Tended(j, t), Copies(j)' = Copies(j), jobs'[j].fence = jobs[j].fence,
         jobs'[j].status \in Active => /\ jobs[j].status \in Active
                                       /\ jobs'[j].token = jobs[j].token
                                       /\ jobs'[j].lease \in {jobs[j].lease, "live"}
  PROVE  Tended(j, t)'
<1>1. \A rec \in Copies(j) : rec.status \in Active /\ rec.fence = jobs'[j].fence
                             => rec.token = t /\ rec.lease = "live"
  BY DEF Tended, Fits
<1>2. jobs'[j].status \in Active => jobs'[j].token = t /\ jobs'[j].lease = "live"
  BY DEF Tended, Fits
<1> QED BY <1>1, <1>2 DEF Tended, Fits

\* A step of a worker concerns the job it carries: it keeps the invariant if it leaves the
\* worker with what its next place asks for.
LEMMA ServingKeeps ==
  ASSUME TypeOK, AttemptsInv, OutcomeInv, RecoveryInv, NEW w \in Workers, NEW j \in Jobs,
         worker[w].job = j, WorkerStep(w), ~TakeMessage(w),
         \A i \in Jobs \ {j} : jobs'[i] = jobs[i] /\ (Owns(i) => Owns(i)'),
         \/ jobs'[j].status = jobs[j].status
         \/ jobs'[j].status \in Terminal
         \/ jobs[j].status \in Active,
         jobs[j].status \in Terminal => jobs'[j].status \in Terminal,
         ServiceKept(worker[w])'
  PROVE  RecoveryInv'
<1>1. UNCHANGED <<sched, rows, snap, poll, stream>>  BY WorkerFootprint
<1>2. /\ Busy(w) /\ \A v \in Workers \ {w} : worker'[v] = worker[v]
      /\ Busy(w)' => SameDelivery(worker'[w], worker[w])
  BY WorkerPlaces
<1>3. worker'[w].job \in {0, worker[w].job}
  BY <1>2 DEF ServiceKept, SameDelivery, Busy
<1>4. /\ ~Free(j) /\ 0 \notin Jobs
      /\ \A n \in 1..Len(stream) : stream[n].job # j
      /\ \A v \in Workers \ {w} : worker[v].job # j
  BY JobNumbers DEF Free, Served, RecoveryInv, OneDelivery
<1>5. \A i \in Jobs : Copies(i)' = Copies(i)  BY <1>1 DEF Copies
<1>6. ASSUME NEW i \in Jobs \ {j}, Exists(jobs[i]) PROVE Firm(i)
  <2>1. rows'[i] \in Copies(i) /\ rows[i].fence <= rows'[i].fence
    BY <1>1, CopyRecords, FieldTypes
  <2> QED BY <1>5, <1>6, <2>1, SameIsFirm
<1>7. \A n \in 1..Len(stream) : Firm(stream[n].job)
  BY <1>4, <1>6, RecoveryTypes
<1>8. \A v \in Workers \ {w} : worker'[v] = worker[v] /\ (Busy(v) => Firm(worker[v].job))
  BY <1>2, <1>4, <1>6, RecoveryTypes
<1>9. OneDelivery' /\ MessagesKept' /\ ServicesKept' /\ \A i \in Jobs : Free(i) => Free(i)'
  <2>1. /\ {w} \in SUBSET Workers /\ stream' = stream
        /\ \A v \in Workers \ {w} : worker'[v] = worker[v] /\ (Busy(v) => Firm(worker[v].job))
        /\ \A v \in {w} : Busy(v) /\ worker'[v].job \in {0, worker[v].job} /\ ServiceKept(worker[v])'
    BY <1>1, <1>2, <1>3, <1>8
  <2> QED BY <1>7, <2>1, DeliveriesStand
<1>10. Engaged => \/ jobs'[sched.job].status = jobs[sched.job].status
                  \/ jobs'[sched.job].status \in Terminal
                  \/ jobs[sched.job].status \in Active
  BY RecoveryTypes
<1>11. Engaged /\ Over(sched.job) => Over(sched.job)'
  <2> SUFFICES ASSUME Engaged, Over(sched.job) PROVE jobs'[sched.job].status \in Terminal
    BY <1>1 DEF Over, Engaged
  <2> QED BY RecoveryTypes DEF Over
<1>12. Engaged /\ jobs[sched.job].status = "queued"
         => jobs'[sched.job].status \in Terminal \cup {"queued"}
  BY <1>10, StatusSets
<1>13. sched.pc = "admit" /\ Owns(sched.job) => Owns(sched.job)' \/ Over(sched.job)'
  <2> SUFFICES ASSUME sched.pc = "admit", Owns(sched.job)
               PROVE  Owns(sched.job)' \/ Over(sched.job)'
    OBVIOUS
  <2>1. PICK i \in Jobs : i = sched.job  BY StateTypes
  <2>2. CASE i = j
    <3>1. Over(i)  BY <1>4, <2>1, <2>2 DEF RecoveryInv, SchedulerKept
    <3> QED BY <1>11, <2>1, <3>1 DEF Engaged
  <2>3. CASE i # j
    <3>1. Owns(i)'  BY <2>1, <2>3
    <3> QED BY <1>1, <2>1, <3>1 DEF Owns
  <2> QED BY <2>2, <2>3
<1>14. sched.pc \in {"stage", "enqueue"} => Firm(sched.job)
  <2> SUFFICES ASSUME sched.pc \in {"stage", "enqueue"} PROVE Firm(sched.job)  OBVIOUS
  <2>1. Free(sched.job) /\ sched.job \in Jobs /\ Exists(jobs[sched.job])
    BY RecoveryTypes DEF RecoveryInv, SchedulerKept, OutcomeInv, JobsKnown, Engaged
  <2> QED BY <1>4, <1>6, <2>1
<1>15. SchedulerKept'
  BY <1>1, <1>9, <1>11, <1>12, <1>13, <1>14, SchedulerStands
<1> QED BY <1>1, <1>9, <1>15 DEF RecoveryInv

\* What a worker that is not idle has: its job, its token, and what its place asks for.
LEMMA ServiceHas ==
  ASSUME TypeOK, OutcomeInv, RecoveryInv, NEW w \in Workers, Busy(w)
  PROVE  \E x \in Worker, j \in Jobs, t \in Nat \ {0} :
           /\ x = worker[w] /\ x.job = j /\ x.token = t /\ x.pc # "idle"
           /\ ServiceKept(x) /\ Tended(j, t) /\ jobs[j] \in JobRecord
           /\ x.pc \notin {"retry", "unlock"} => ~x.raised
<1>1. PICK x \in Worker : x = worker[w]  BY RecoveryTypes
<1>2. PICK j \in Jobs, t \in Nat \ {0} : x.job = j /\ x.token = t  BY <1>1, RecoveryTypes
<1>3. ServiceKept(x) /\ x.pc # "idle"  BY <1>1, RecoveryTypes DEF Busy
<1>4. Tended(j, t) /\ (x.pc \notin {"retry", "unlock"} => ~x.raised)
  BY <1>2, <1>3 DEF ServiceKept
<1> QED BY <1>1, <1>2, <1>3, <1>4, StateTypes

\* The start of an execution keeps the invariant.
LEMMA BeginningKeeps ==
  ASSUME TypeOK, AttemptsInv, OutcomeInv, RecoveryInv, NEW w \in Workers,
         Beginning(w), ~TakeMessage(w)
  PROVE  RecoveryInv'
<1> USE DEF queueVars, pendingVars, storeVars, brokerVars, readVars, countVars
<1>0. CanBegin(w) /\ WorkerStep(w) /\ Busy(w)
  BY DEF Beginning, BeginIgnored, BeginCancelled, BeginIllegal, BeginRunning, CanStart, CanBegin,
     WorkerStep, Busy
<1>1. PICK x \in Worker, j \in Jobs, t \in Nat \ {0} :
        /\ x = worker[w] /\ x.job = j /\ x.token = t /\ x.pc # "idle"
        /\ ServiceKept(x) /\ Tended(j, t) /\ jobs[j] \in JobRecord
        /\ x.pc \notin {"retry", "unlock"} => ~x.raised
  BY <1>0, ServiceHas
<1>2. /\ x.pc = "begin" /\ ~x.raised
      /\ jobs \in [Jobs -> JobRecord] /\ worker \in [Workers -> Worker]
      /\ UNCHANGED <<rows, snap, poll, sched, lockOwner>>
  BY <1>0, <1>1, StateTypes, WorkerFootprint
     DEF CanBegin, Beginning, BeginIgnored, BeginCancelled, BeginIllegal, BeginRunning
<1>3. Copies(j)' = Copies(j)  BY <1>2 DEF Copies
\* What the worker has captured is the job, or has the token and is not ahead of it.
<1>4. PICK c \in JobRecord : c = Captured(w)
  BY <1>1 DEF Captured, Worker
<1>5. CASE Shared(w)
  <2>1. ~Exists(x.obj) /\ c = jobs[j] /\ Waits(j, t)
    BY <1>1, <1>2, <1>4, <1>5 DEF Shared, Captured, ServiceKept
  <2>2. c.status \in Active => Held(j, t) /\ c.token = t
    BY <2>1, StatusSets DEF Waits, Held, Recalled, Over, Active, Terminal
  <2>3. c.status = "queued" => Recalled(j, t) /\ c.token = t
    BY <2>1, StatusSets DEF Waits, Held, Recalled, Over, Active, Terminal
  <2>4. c.status \in Active \cup Terminal \cup {"queued"}
    BY <2>1 DEF Waits, Held, Recalled, Over
  <2>5. CASE BeginIgnored(w)
    <3>1. jobs' = jobs /\ worker'[w] = [x EXCEPT !.pc = "settle", !.obj = NoJob]
      BY <1>1, <1>2, <2>5 DEF BeginIgnored
    <3>2. PICK y : y = worker'[w] /\ y.pc = "settle" /\ y.job = j /\ y.token = t /\ ~y.raised
      BY <1>1, <1>2, <3>1 DEF Worker
    <3>3. Superseded(c, t) \/ c.status \in Terminal \cup {"running"}
      BY <1>1, <1>4, <2>5 DEF BeginIgnored
    <3>4. jobs[j].status \in Terminal \cup {"cancel_requested", "running"}
      BY <2>1, <2>2, <2>3, <2>4, <3>3 DEF Superseded
    <3>5. Tended(j, t)'  BY <1>1, <1>3, <3>1, TendedStays
    <3>6. ServiceKept(y)'  BY <3>1, <3>2, <3>4, <3>5, ServiceFinds
    <3>7. ServiceKept(worker[w])'  BY <3>2, <3>6
    <3> QED BY <1>0, <1>1, <1>2, <2>5, <3>1, <3>7, ServingKeeps DEF Beginning, Owns
  <2>6. CASE BeginCancelled(w)
    <3>1. /\ jobs' = [jobs EXCEPT ![j].status = "cancelled"]
          /\ worker'[w] = [x EXCEPT !.pc = "release", !.obj = NoJob]
          /\ c.status = "cancel_requested"
      BY <1>1, <1>2, <1>4, <1>5, <2>6 DEF BeginCancelled, Finished
    <3>2. PICK y : y = worker'[w] /\ y.pc = "release" /\ y.job = j /\ y.token = t /\ ~y.raised
      BY <1>1, <1>2, <3>1 DEF Worker
    <3>3. /\ jobs'[j].status = "cancelled" /\ jobs'[j].fence = jobs[j].fence
          /\ \A i \in Jobs \ {j} : jobs'[i] = jobs[i]
      BY <1>1, <1>2, <3>1 DEF JobRecord
    <3>4. jobs'[j].status \in Terminal /\ jobs'[j].status \notin Active
      BY <3>3 DEF Terminal, Active
    <3>5. Tended(j, t)'  BY <1>1, <1>3, <3>3, <3>4, TendedStays
    <3>6. ServiceKept(y)'  BY <3>2, <3>4, <3>5, ServiceFinds
    <3>7. ServiceKept(worker[w])'  BY <3>2, <3>6
    <3> QED BY <1>0, <1>1, <1>2, <2>6, <3>3, <3>4, <3>7, ServingKeeps DEF Beginning, Owns
  <2>7. CASE BeginIllegal(w)
    <3>1. /\ jobs' = jobs /\ c.status = "queued"
          /\ worker'[w] = [x EXCEPT !.pc = "retry", !.obj = NoJob, !.raised = TRUE]
      BY <1>1, <1>2, <1>4, <2>7 DEF BeginIllegal
    <3>2. PICK y : y = worker'[w] /\ y.pc = "retry" /\ y.job = j /\ y.token = t /\ y.raised
      BY <1>1, <1>2, <3>1 DEF Worker
    <3>3. Recalled(j, t)'  BY <1>2, <2>3, <3>1 DEF Recalled, Owns
    <3>4. Tended(j, t)'  BY <1>1, <1>3, <3>1, TendedStays
    <3>5. ServiceKept(y)'  BY <3>2, <3>3, <3>4, ServiceFinds
    <3>6. ServiceKept(worker[w])'  BY <3>2, <3>5
    <3> QED BY <1>0, <1>1, <1>2, <2>7, <3>1, <3>6, ServingKeeps DEF Beginning, Owns
  <2>8. CASE BeginRunning(w)
    <3>1. /\ jobs' = [jobs EXCEPT ![j].status = "running"] /\ c.status = "admitted"
          /\ worker'[w] = [x EXCEPT !.pc = "running", !.obj = NoJob, !.beat = TRUE]
      BY <1>1, <1>2, <1>4, <1>5, <2>8 DEF BeginRunning
    <3>2. PICK y : y = worker'[w] /\ y.pc = "running" /\ y.job = j /\ y.token = t /\ ~y.raised
      BY <1>1, <1>2, <3>1 DEF Worker
    <3>3. /\ jobs'[j].status = "running" /\ jobs'[j].fence = jobs[j].fence
          /\ jobs'[j].token = jobs[j].token /\ jobs'[j].lease = jobs[j].lease
          /\ \A i \in Jobs \ {j} : jobs'[i] = jobs[i]
      BY <1>1, <1>2, <3>1 DEF JobRecord
    <3>4. Held(j, t) /\ jobs[j].status \in Active  BY <2>1, <2>2, <3>1, StatusSets
    <3>5. Held(j, t)'  BY <1>2, <3>3, <3>4, StatusSets DEF Held, Owns
    <3>6. Tended(j, t)'  BY <1>1, <1>3, <3>3, <3>4, TendedStays
    <3>7. ServiceKept(y)'  BY <3>2, <3>5, <3>6, ServiceFinds
    <3>8. ServiceKept(worker[w])'  BY <3>2, <3>7
    <3>9. jobs[j].status \notin Terminal  BY <3>4, StatusSets
    <3> QED BY <1>0, <1>1, <1>2, <2>8, <3>3, <3>4, <3>8, <3>9, ServingKeeps DEF Beginning, Owns
  <2> QED BY <2>5, <2>6, <2>7, <2>8 DEF Beginning
<1>6. CASE ~Shared(w)
  <2>1. /\ Exists(x.obj) /\ c = x.obj /\ Held(j, t) /\ ObjectKept(c, j, t)
    BY <1>1, <1>2, <1>4, <1>6 DEF Shared, Captured, ServiceKept
  <2>2. /\ c.status \in Active \cup {"queued"} /\ c.token = t
        /\ jobs[j].status \in Ahead(c.status) /\ jobs[j].status \in Active
    BY <2>1 DEF ObjectKept, Held
  <2>3. jobs' = jobs
    BY <1>6 DEF Beginning, BeginIgnored, BeginCancelled, BeginIllegal, BeginRunning
  <2>4. Held(j, t)'  BY <1>2, <2>1, <2>3 DEF Held, Owns
  <2>5. Tended(j, t)'  BY <1>1, <1>3, <2>3, TendedStays
  <2>6. PICK p \in {"settle", "release", "retry", "running"}, r \in BOOLEAN :
           /\ worker'[w].pc = p /\ worker'[w].job = j /\ worker'[w].token = t
           /\ worker'[w].raised = r /\ (p # "retry" => ~r) /\ (p = "retry" => r)
           /\ p = "settle" => jobs[j].status \in Terminal \cup {"cancel_requested", "running"}
           /\ p = "release" => jobs[j].status \in Terminal \cup {"cancel_requested"}
    <3>1. CASE BeginIgnored(w)
      <4>1. Superseded(c, t) \/ c.status \in Terminal \cup {"running"}
        BY <1>1, <1>4, <3>1 DEF BeginIgnored
      <4>2. c.status = "running"
        BY <2>2, <4>1 DEF Superseded, Active, Terminal
      <4>3. worker'[w] = [x EXCEPT !.pc = "settle", !.obj = NoJob]
        BY <1>1, <1>2, <3>1 DEF BeginIgnored
      <4>a. jobs[j].status \in Terminal \cup {"cancel_requested", "running"}
        BY <2>2, <4>2, AheadSteps
      <4> QED BY <1>1, <1>2, <4>3, <4>a DEF Worker
    <3>2. CASE BeginCancelled(w)
      <4>1. worker'[w] = [x EXCEPT !.pc = "release", !.obj = NoJob] /\ c.status = "cancel_requested"
        BY <1>1, <1>2, <1>4, <3>2 DEF BeginCancelled
      <4>a. jobs[j].status \in Terminal \cup {"cancel_requested"}
        BY <2>2, <4>1, AheadSteps
      <4> QED BY <1>1, <1>2, <4>1, <4>a DEF Worker
    <3>3. CASE BeginIllegal(w)
      <4>1. worker'[w] = [x EXCEPT !.pc = "retry", !.obj = NoJob, !.raised = TRUE]
        BY <1>1, <1>2, <3>3 DEF BeginIllegal
      <4> QED BY <1>1, <1>2, <4>1 DEF Worker
    <3>4. CASE BeginRunning(w)
      <4>1. worker'[w] = [x EXCEPT !.pc = "running", !.obj = NoJob, !.beat = TRUE]
        BY <1>1, <1>2, <3>4 DEF BeginRunning
      <4> QED BY <1>1, <1>2, <4>1 DEF Worker
    <3> QED BY <3>1, <3>2, <3>3, <3>4 DEF Beginning
  <2>7. PICK y : y = worker'[w]  OBVIOUS
  <2>8. ServiceKept(y)'  BY <2>3, <2>4, <2>5, <2>6, <2>7, ServiceFinds
  <2>9. ServiceKept(worker[w])'  BY <2>7, <2>8
  <2> QED BY <1>0, <1>1, <1>2, <2>3, <2>9, ServingKeeps DEF Owns
<1> QED BY <1>5, <1>6

\* A heartbeat keeps the invariant: it renews the lease that is there.
LEMMA HeartbeatKeeps ==
  ASSUME TypeOK, AttemptsInv, OutcomeInv, RecoveryInv, NEW w \in Workers, Heartbeat(w)
  PROVE  RecoveryInv'
<1> USE DEF queueVars, pendingVars, storeVars, brokerVars, readVars, countVars
<1>0. Busy(w) /\ WorkerStep(w)
  BY DEF Heartbeat, OutcomeInv, JobsKnown, WorkerStep
<1>1. PICK x \in Worker, j \in Jobs, t \in Nat \ {0} :
        /\ x = worker[w] /\ x.job = j /\ x.token = t /\ x.pc # "idle"
        /\ ServiceKept(x) /\ Tended(j, t) /\ jobs[j] \in JobRecord
        /\ x.pc \notin {"retry", "unlock"} => ~x.raised
  BY <1>0, ServiceHas
<1>2. /\ jobs \in [Jobs -> JobRecord] /\ worker \in [Workers -> Worker]
      /\ UNCHANGED <<rows, snap, poll, sched, lockOwner>>
  BY <1>0, StateTypes, WorkerFootprint DEF Heartbeat
<1>3. Copies(j)' = Copies(j)  BY <1>2 DEF Copies
<1>4. UNCHANGED jobs \/ jobs' = [jobs EXCEPT ![j].lease = "live"]  BY <1>1 DEF Heartbeat
<1>5. /\ jobs'[j].status = jobs[j].status /\ jobs'[j].fence = jobs[j].fence
      /\ jobs'[j].token = jobs[j].token /\ jobs'[j].lease \in {jobs[j].lease, "live"}
      /\ \A i \in Jobs \ {j} : jobs'[i] = jobs[i]
  BY <1>1, <1>2, <1>4 DEF JobRecord
<1>6. PICK y : /\ y = worker'[w] /\ y.pc = x.pc /\ y.job = j /\ y.token = t
               /\ y.obj = x.obj /\ y.raised = x.raised
  <2>1. PICK b : worker' = [worker EXCEPT ![w] = [worker[w] EXCEPT !.beat = b]]
    BY DEF Heartbeat
  <2>2. worker'[w] = [x EXCEPT !.beat = b]  BY <1>1, <1>2, <2>1
  <2> QED BY <1>1, <2>2 DEF Worker
<1>7. Tended(j, t)'  BY <1>1, <1>3, <1>5, TendedStays
<1>8. /\ Held(j, t) => Held(j, t)'
      /\ Recalled(j, t) => Recalled(j, t)'
      /\ Over(j) => Over(j)'
      /\ Owns(j) => Owns(j)'
  BY <1>2, <1>5 DEF Held, Recalled, Over, Owns
<1>9. ObjectKept(x.obj, j, t) => ObjectKept(y.obj, j, t)'  BY <1>5, <1>6 DEF ObjectKept
<1>10. ServiceKept(y)'
  <2>1. y.pc = "begin" => IF Exists(y.obj) THEN Held(j, t)' /\ ObjectKept(y.obj, j, t)'
                          ELSE Waits(j, t)'
    BY <1>1, <1>6, <1>8, <1>9 DEF ServiceKept, Waits
  <2>2. /\ y.pc \in {"running", "failing"} => Held(j, t)'
        /\ y.pc \in {"release", "discard"} => jobs'[j].status \in Terminal \cup {"cancel_requested"}
        /\ y.pc = "settle" => jobs'[j].status \in Terminal \cup {"cancel_requested", "running"}
        /\ y.pc = "retry" => jobs'[j].status \in Terminal \cup {"cancel_requested"}
                             \/ (y.raised /\ (Held(j, t)' \/ Recalled(j, t)'))
        /\ y.pc = "unlock" => Over(j)' \/ Owns(j)'
        /\ y.raised => y.pc \in {"retry", "unlock"}
    BY <1>1, <1>5, <1>6, <1>8 DEF ServiceKept
  <2> QED BY <1>1, <1>6, <1>7, <2>1, <2>2, ServiceFinds
<1>11. ServiceKept(worker[w])'  BY <1>6, <1>10
<1>12. ~TakeMessage(w)  BY <1>0 DEF TakeMessage, Busy
<1> QED BY <1>0, <1>1, <1>2, <1>5, <1>11, <1>12, ServingKeeps DEF Owns

\* A worker that is done has no job.
LEMMA IdleIsKept == ServiceKept(IdleWorker)'
BY DEF ServiceKept, IdleWorker, Held, Recalled, Waits, Over, Owns

\* The end of an execution, and what comes after, keeps the invariant.
LEMMA EndingKeeps ==
  ASSUME TypeOK, AttemptsInv, OutcomeInv, RecoveryInv, NEW w \in Workers,
         Ending(w) \/ RuntimeFails(w)
  PROVE  RecoveryInv'
<1> USE DEF queueVars, pendingVars, storeVars, brokerVars, readVars, countVars
<1>0. Busy(w) /\ WorkerStep(w) /\ ~TakeMessage(w)
  <2>1. Busy(w)
    BY DEF Ending, RuntimeFails, Publish, PublishIllegal, EndCancelled, EndIgnored, FailJob,
       WorkerRelease, WorkerDiscard, Settle, RetryIgnored, RetryCancelled, RetryDispatch,
       WorkerUnlock, Busy
  <2> QED BY <2>1 DEF WorkerStep, TakeMessage, Busy
<1>1. PICK x \in Worker, j \in Jobs, t \in Nat \ {0} :
        /\ x = worker[w] /\ x.job = j /\ x.token = t /\ x.pc # "idle"
        /\ ServiceKept(x) /\ Tended(j, t) /\ jobs[j] \in JobRecord
        /\ x.pc \notin {"retry", "unlock"} => ~x.raised
  BY <1>0, ServiceHas
<1>2. /\ jobs \in [Jobs -> JobRecord] /\ worker \in [Workers -> Worker]
      /\ UNCHANGED <<rows, snap, poll, sched>>
  BY <1>0, StateTypes, WorkerFootprint
<1>3. Copies(j)' = Copies(j)  BY <1>2 DEF Copies
<1>4. Executing(w) => Held(j, t) /\ Holds(w) /\ jobs[j].status \in Active \ Terminal
  BY <1>1, StatusSets DEF Executing, ServiceKept, Held, Holds
\* The record of the job stays, or it ends, or it is queued again.
<1>a. ASSUME UNCHANGED jobs PROVE Tended(j, t)'  BY <1>1, <1>3, <1>a, TendedStays
<1>b. ASSUME NEW s \in Terminal \cup {"queued"},
             jobs' = [jobs EXCEPT ![j].status = s] \/ jobs' = [jobs EXCEPT ![j] = Withdrawn(@, s)]
      PROVE  /\ jobs'[j].status = s /\ Tended(j, t)'
             /\ \A i \in Jobs \ {j} : jobs'[i] = jobs[i]
  <2>1. /\ jobs'[j].status = s /\ jobs'[j].fence = jobs[j].fence
        /\ \A i \in Jobs \ {j} : jobs'[i] = jobs[i]
    <3>1. CASE jobs' = [jobs EXCEPT ![j].status = s]  BY <1>1, <1>2, <3>1 DEF JobRecord
    <3>2. CASE jobs' = [jobs EXCEPT ![j] = Withdrawn(@, s)]
      BY <1>1, <1>2, <3>2 DEF JobRecord, Withdrawn
    <3> QED BY <1>b, <3>1, <3>2
  <2>2. s \notin Active  BY DEF Terminal, Active
  <2> QED BY <1>1, <1>3, <2>1, <2>2, TendedStays
<1>c. ASSUME NEW p, worker' = [worker EXCEPT ![w].pc = p]
      PROVE  \E y : /\ y = worker'[w] /\ y.pc = p /\ y.job = j /\ y.token = t
                    /\ y.raised = x.raised
  <2>1. worker'[w] = [x EXCEPT !.pc = p]  BY <1>1, <1>2, <1>c
  <2> QED BY <1>1, <2>1 DEF Worker
\* An execution that ends its job, or finds it ended.
<1>d. ASSUME NEW s \in Terminal, jobs' = [jobs EXCEPT ![j].status = s], UNCHANGED lockOwner,
             ~x.raised \/ x.pc = "retry",
             \/ worker' = [worker EXCEPT ![w].pc = "release"] /\ x.pc # "retry"
             \/ worker' = [worker EXCEPT ![w].pc = "unlock"]
      PROVE  RecoveryInv'
  <2>1. PICK y : /\ y = worker'[w] /\ y.pc \in {"release", "unlock"} /\ y.job = j /\ y.token = t
                 /\ y.raised => y.pc = "unlock"
    BY <1>c, <1>d
  <2>2. /\ jobs'[j].status = s /\ Tended(j, t)'
        /\ \A i \in Jobs \ {j} : jobs'[i] = jobs[i]
    BY <1>b, <1>d
  <2>3. Over(j)'  BY <2>2 DEF Over
  <2>4. ServiceKept(y)'  BY <2>1, <2>2, <2>3, ServiceFinds
  <2>5. ServiceKept(worker[w])'  BY <2>1, <2>4
  <2> QED BY <1>0, <1>1, <1>d, <2>2, <2>5, ServingKeeps DEF Owns
\* A worker that moves on without a word on the job.
<1>e. ASSUME UNCHANGED jobs, UNCHANGED lockOwner \/ ReleaseSession(j), ServiceKept(worker[w])'
      PROVE  RecoveryInv'
  <2>1. \A i \in Jobs \ {j} : Owns(i) => Owns(i)'
    BY <1>e, ReleaseFrame DEF Owns
  <2> QED BY <1>0, <1>1, <1>e, <2>1, ServingKeeps
<1>1a. CASE RuntimeFails(w) \/ \E outcome \in {"succeeded", "failed"} : PublishIllegal(w, outcome)
  <2>1. UNCHANGED <<jobs, lockOwner>> /\ worker' = [worker EXCEPT ![w].pc = "failing"] /\ Executing(w)
    BY <1>1a DEF RuntimeFails, PublishIllegal, WorkerAt, Executing
  <2>2. PICK y : y = worker'[w] /\ y.pc = "failing" /\ y.job = j /\ y.token = t /\ y.raised = x.raised
    BY <1>c, <2>1
  <2>3. ~y.raised  BY <1>1, <2>1, <2>2 DEF Executing
  <2>4. Held(j, t)'  BY <1>4, <2>1 DEF Held, Owns
  <2>5. Tended(j, t)'  BY <1>a, <2>1
  <2>6. ServiceKept(y)'  BY <2>2, <2>3, <2>4, <2>5, ServiceFinds
  <2> QED BY <1>e, <2>1, <2>2, <2>6
<1>1b. CASE \E outcome \in {"succeeded", "failed"} : Publish(w, outcome)
  <2>1. PICK outcome \in {"succeeded", "failed"} : Publish(w, outcome)  BY <1>1b
  <2>2. outcome \in Terminal  BY DEF Terminal
  <2>3. /\ jobs' = [jobs EXCEPT ![j].status = outcome] /\ UNCHANGED lockOwner
        /\ worker' = [worker EXCEPT ![w].pc = "release"] /\ x.pc = "running"
    BY <1>1, <2>1 DEF Publish, Finished, WorkerAt
  <2> QED BY <1>1, <1>d, <2>2, <2>3
<1>1c. CASE EndCancelled(w) \/ RetryCancelled(w)
  <2>1. "cancelled" \in Terminal  BY DEF Terminal
  <2>2. /\ jobs' = [jobs EXCEPT ![j].status = "cancelled"] /\ UNCHANGED lockOwner
        /\ \/ worker' = [worker EXCEPT ![w].pc = "release"] /\ x.pc \in {"running", "failing"}
           \/ worker' = [worker EXCEPT ![w].pc = "unlock"] /\ x.pc = "retry"
    BY <1>1, <1>1c DEF EndCancelled, RetryCancelled, MarkCancelled, Finished, WorkerAt
  <2>3. ~x.raised \/ x.pc = "retry"  BY <1>1, <2>2
  <2> QED BY <1>d, <2>1, <2>2, <2>3
<1>1d. CASE EndIgnored(w)
  BY <1>4, <1>1d DEF EndIgnored, Executing
<1>1e. CASE FailJob(w)
  <2>1. Executing(w) /\ jobs[j].status # "cancel_requested" /\ x.pc = "failing"
    BY <1>1, <1>1e DEF FailJob, Executing
  <2>2. jobs[j].status \in {"admitted", "running"}  BY <1>4, <2>1 DEF Active
  <2>3. CanMove(jobs[j].status, "failed")  BY <2>2 DEF CanMove, Successors
  <2>4. /\ jobs' = [jobs EXCEPT ![j].status = "failed"] /\ UNCHANGED lockOwner
        /\ worker'[w] = [x EXCEPT !.pc = "release", !.raised = FALSE]
    BY <1>1, <1>2, <1>1e, <2>3 DEF FailJob, Finished
  <2>5. PICK y : y = worker'[w] /\ y.pc = "release" /\ y.job = j /\ y.token = t /\ ~y.raised
    BY <1>1, <2>4 DEF Worker
  <2>6. "failed" \in Terminal  BY StatusSets
  <2>7. /\ jobs'[j].status = "failed" /\ Tended(j, t)'
        /\ \A i \in Jobs \ {j} : jobs'[i] = jobs[i]
    BY <1>b, <2>4, <2>6
  <2>8. ServiceKept(y)'  BY <2>5, <2>6, <2>7, ServiceFinds
  <2>9. ServiceKept(worker[w])'  BY <2>5, <2>8
  <2> QED BY <1>0, <1>1, <2>4, <2>6, <2>7, <2>9, ServingKeeps DEF Owns
<1>1f. CASE WorkerRelease(w)
  <2>1. /\ UNCHANGED jobs /\ ReleaseSession(j) /\ x.pc = "release"
        /\ worker'[w] = [x EXCEPT !.pc = "discard", !.beat = FALSE]
    BY <1>1, <1>2, <1>1f DEF WorkerRelease
  <2>2. PICK y : y = worker'[w] /\ y.pc = "discard" /\ y.job = j /\ y.token = t /\ ~y.raised
    BY <1>1, <2>1 DEF Worker
  <2>3. jobs'[j].status \in Terminal \cup {"cancel_requested"}
    BY <1>1, <2>1 DEF ServiceKept
  <2>4. Tended(j, t)'  BY <1>a, <2>1
  <2>5. ServiceKept(y)'  BY <2>2, <2>3, <2>4, ServiceFinds
  <2> QED BY <1>e, <2>1, <2>2, <2>5
<1>1g. CASE WorkerDiscard(w)
  <2>1. /\ UNCHANGED <<jobs, lockOwner>> /\ x.pc = "discard"
        /\ worker' = [worker EXCEPT ![w].pc = "settle"]
    BY <1>1, <1>1g DEF WorkerDiscard, WorkerAt
  <2>2. PICK y : y = worker'[w] /\ y.pc = "settle" /\ y.job = j /\ y.token = t /\ y.raised = x.raised
    BY <1>c, <2>1
  <2>3. jobs'[j].status \in Terminal \cup {"cancel_requested"} /\ ~y.raised
    BY <1>1, <2>1, <2>2 DEF ServiceKept
  <2>4. Tended(j, t)'  BY <1>a, <2>1
  <2>5. ServiceKept(y)'  BY <2>2, <2>3, <2>4, ServiceFinds
  <2> QED BY <1>e, <2>1, <2>2, <2>5
<1>1h. CASE Settle(w)
  <2>1. UNCHANGED <<jobs, lockOwner>> /\ x.pc = "settle"  BY <1>1, <1>1h DEF Settle
  <2>2. CASE worker'[w] = IdleWorker
    <3>1. ServiceKept(worker[w])'  BY <2>2, IdleIsKept
    <3> QED BY <1>e, <2>1, <3>1
  <2>3. CASE worker'[w] # IdleWorker
    <3>1. /\ worker' = [worker EXCEPT ![w].pc = "retry"]
          /\ jobs[j].status \in {"admitted", "cancel_requested"}
      BY <1>1, <1>2, <1>1h, <2>3 DEF Settle
    <3>2. PICK y : y = worker'[w] /\ y.pc = "retry" /\ y.job = j /\ y.token = t /\ y.raised = x.raised
      BY <1>c, <3>1
    <3>3. jobs[j].status \in Terminal \cup {"cancel_requested", "running"}
      BY <1>1, <2>1 DEF ServiceKept
    <3>4. jobs'[j].status = "cancel_requested"  BY <2>1, <3>1, <3>3 DEF Terminal
    <3>5. Tended(j, t)'  BY <1>a, <2>1
    <3>6. ServiceKept(y)'  BY <3>2, <3>4, <3>5, ServiceFinds
    <3> QED BY <1>e, <2>1, <3>2, <3>6
  <2> QED BY <2>2, <2>3
<1>1i. CASE RetryIgnored(w) \/ WorkerUnlock(w)
  <2>1. /\ UNCHANGED jobs /\ worker'[w] = IdleWorker
        /\ UNCHANGED lockOwner \/ ReleaseSession(j)
    BY <1>1, <1>2, <1>1i DEF RetryIgnored, WorkerUnlock
  <2>2. ServiceKept(worker[w])'  BY <2>1, IdleIsKept
  <2> QED BY <1>e, <2>1, <2>2
<1>1j. CASE RetryDispatch(w)
  <2>1. PICK s \in {"queued", "failed"} : jobs' = [jobs EXCEPT ![j] = Withdrawn(@, s)]
    BY <1>1, <1>1j DEF RetryDispatch
  <2>2. /\ UNCHANGED lockOwner /\ worker' = [worker EXCEPT ![w].pc = "unlock"]
        /\ x.pc = "retry" /\ jobs[j].status \in {"admitted", "running"}
    BY <1>1, <1>1j DEF RetryDispatch, WorkerAt, Leased
  <2>3. Held(j, t)
    BY <1>1, <2>2 DEF ServiceKept, Terminal, Recalled
  <2>4. s \in Terminal \cup {"queued"}  BY StatusSets
  <2>5. /\ jobs'[j].status = s /\ Tended(j, t)'
        /\ \A i \in Jobs \ {j} : jobs'[i] = jobs[i]
    BY <1>b, <2>1, <2>4
  <2>6. PICK y : y = worker'[w] /\ y.pc = "unlock" /\ y.job = j /\ y.token = t
                 /\ y.raised = x.raised
    BY <1>c, <2>2
  <2>7. Owns(j)'  BY <2>2, <2>3 DEF Held, Owns
  <2>8. ServiceKept(y)'  BY <2>5, <2>6, <2>7, ServiceFinds
  <2>9. ServiceKept(worker[w])'  BY <2>6, <2>8
  <2>10. jobs[j].status \in Active /\ jobs[j].status \notin Terminal
    BY <2>2 DEF Active, Terminal
  <2> QED BY <1>0, <1>1, <2>2, <2>5, <2>9, <2>10, ServingKeeps DEF Owns
<1> QED BY <1>1a, <1>1b, <1>1c, <1>1d, <1>1e, <1>1f, <1>1g, <1>1h, <1>1i, <1>1j DEF Ending

\* Taking a message keeps the invariant: the delivery goes from the stream to the worker, and
\* finds there what the message found.
LEMMA TakeKeeps ==
  ASSUME TypeOK, AttemptsInv, OutcomeInv, RecoveryInv, NEW w \in Workers, TakeMessage(w)
  PROVE  RecoveryInv'
<1> USE DEF queueVars, pendingVars, storeVars, brokerVars, readVars, countVars
<1>1. PICK j \in Jobs, t \in Nat \ {0} :
        /\ j = stream[1].job /\ t = stream[1].token
        /\ Waits(j, t) /\ Tended(j, t) /\ Sent(j) /\ ~Free(j)
  BY HeadTaken, RecoveryTypes DEF MessageKept
<1>2. /\ 1 \in 1..Len(stream) /\ Len(stream) \in Nat
      /\ \A m \in 1..Len(stream') : stream'[m] = stream[m + 1] /\ m + 1 \in 1..Len(stream) /\ m + 1 # 1
      /\ worker[w].pc = "idle" /\ \A v \in Workers \ {w} : worker'[v] = worker[v]
  <2>1. stream \in Seq(Message)  BY StateTypes
  <2>2. Len(stream') \in Nat  BY <2>1 DEF TakeMessage
  <2>3. \A m \in 1..Len(stream') : m + 1 # 1  BY <2>2
  <2> QED BY <2>1, <2>3, HeadTaken
<1>3. PICK y : /\ y = worker'[w] /\ y.pc = "begin" /\ y.job = j /\ y.token = t
               /\ y.obj = NoJob /\ ~y.raised
  <2>1. /\ worker \in [Workers -> Worker]
        /\ worker' = [worker EXCEPT ![w] = [IdleWorker EXCEPT !.pc = "begin", !.job = Head(stream).job,
                                                              !.token = Head(stream).token]]
    BY StateTypes DEF TakeMessage
  <2>2. ~worker'[w].raised  BY <2>1 DEF IdleWorker
  <2> QED BY <1>1, <2>2, HeadTaken
<1>4. Exists(jobs[j]) /\ jobs \in [Jobs -> JobRecord] /\ 0 \notin Jobs
  BY <1>1, RecoveryTypes, StateTypes
<1>5. UNCHANGED <<jobs, rows, snap, poll, sched, lockOwner, dirty>>
  <2>1. UNCHANGED <<rows, snap, poll, sched, lockOwner, dirty>>  BY DEF TakeMessage
  <2>2. Head(stream).job = j
    <3>1. stream \in Seq(Message)  BY StateTypes
    <3> QED BY <1>1, <1>2, <3>1
  <2>3. jobs' = jobs  BY <1>4, <2>2 DEF TakeMessage
  <2> QED BY <2>1, <2>3
<1>6. OneDelivery  BY DEF RecoveryInv
<1>7. /\ \A n \in 1..Len(stream') : stream'[n].job # j
      /\ \A v \in Workers : worker[v].job # j
  BY <1>1, <1>2, <1>6 DEF OneDelivery
<1>8. OneDelivery'
  <2>1. \A a, b \in 1..Len(stream') : stream'[a].job = stream'[b].job => a = b
    <3>1. \A a, b \in 1..Len(stream') : a + 1 = b + 1 => a = b  OBVIOUS
    <3> QED BY <1>2, <1>6, <3>1 DEF OneDelivery
  <2>2. \A u, v \in Workers : worker'[u].job # 0 /\ worker'[u].job = worker'[v].job => u = v
    BY <1>2, <1>3, <1>6, <1>7 DEF OneDelivery
  <2>3. \A a \in 1..Len(stream'), v \in Workers : stream'[a].job # worker'[v].job
    <3> SUFFICES ASSUME NEW a \in 1..Len(stream'), NEW v \in Workers
                 PROVE  stream'[a].job # worker'[v].job
      OBVIOUS
    <3>1. CASE v = w  BY <1>3, <1>7, <3>1
    <3>2. CASE v # w
      <4>1. stream'[a] = stream[a + 1] /\ a + 1 \in 1..Len(stream) /\ worker'[v] = worker[v]
        BY <1>2, <3>2
      <4> QED BY <1>6, <4>1 DEF OneDelivery
    <3> QED BY <3>1, <3>2
  <2> QED BY <2>1, <2>2, <2>3 DEF OneDelivery
<1>9. ASSUME NEW i \in Jobs, NEW s
      PROVE  /\ Waits(i, s) <=> Waits(i, s)'
             /\ Tended(i, s) <=> Tended(i, s)'
             /\ Sent(i) <=> Sent(i)'
             /\ Held(i, s) <=> Held(i, s)'
             /\ Recalled(i, s) <=> Recalled(i, s)'
             /\ Over(i) <=> Over(i)' /\ (Owns(i) <=> Owns(i)')
  BY <1>5 DEF Waits, Tended, Fits, Sent, Held, Recalled, Over, Owns, Copies
<1>10. MessagesKept'
  <2> SUFFICES ASSUME NEW n \in 1..Len(stream') PROVE MessageKept(stream[n])'
    BY DEF MessagesKept
  <2>1. PICK i \in Jobs, s \in Nat \ {0} :
          /\ i = stream[n + 1].job /\ s = stream[n + 1].token
          /\ Waits(i, s) /\ Tended(i, s) /\ Sent(i)
    BY <1>2, RecoveryTypes DEF MessageKept
  <2>2. i = stream'[n].job /\ s = stream'[n].token  BY <1>2, <2>1
  <2>3. Waits(i, s)' /\ Tended(i, s)' /\ Sent(i)'  BY <1>9, <2>1
  <2> QED BY <2>2, <2>3 DEF MessageKept
<1>11. ServicesKept'
  <2> SUFFICES ASSUME NEW v \in Workers PROVE ServiceKept(worker[v])'
    BY DEF ServicesKept
  <2>1. CASE v = w
    <3>1. ~Exists(y.obj)  BY <1>3 DEF Exists, NoJob
    <3>2. Waits(j, t)' /\ Tended(j, t)'  BY <1>1, <1>9
    <3>3. ServiceKept(y)'  BY <1>3, <3>1, <3>2, ServiceFinds
    <3> QED BY <1>3, <2>1, <3>3
  <2>2. CASE v # w
    <3>1. PICK x \in Worker : x = worker[v] /\ ServiceKept(x)  BY RecoveryTypes
    <3>2. x = worker'[v]  BY <1>2, <2>2, <3>1
    <3>3. ServiceKept(x)'
      BY <1>5, <3>1 DEF ServiceKept, ObjectKept, Waits, Tended, Fits, Held, Recalled, Over, Owns, Copies
    <3> QED BY <3>2, <3>3
  <2> QED BY <2>1, <2>2
<1>12. ASSUME NEW i \in Jobs, Free(i) PROVE Free(i)'
  <2>1. i # j  BY <1>1, <1>12
  <2>2. ~Carried(i)'  BY <1>2, <1>12 DEF Free, Carried
  <2>3. ~Served(i)'  BY <1>2, <1>3, <1>12, <2>1 DEF Free, Served
  <2> QED BY <2>2, <2>3 DEF Free
<1>13. SchedulerKept'
  <2>1. SchedulerKept /\ (Engaged => sched.job \in Jobs)  BY RecoveryTypes DEF RecoveryInv
  <2>2. Engaged /\ Free(sched.job) => Free(sched.job)'
    <3> SUFFICES ASSUME Engaged, Free(sched.job) PROVE Free(sched.job)'  OBVIOUS
    <3>1. PICK i \in Jobs : i = sched.job  BY <2>1
    <3>2. Free(i)'  BY <1>12, <3>1
    <3>3. i = sched'.job  BY <1>5, <3>1
    <3> QED BY <3>2, <3>3 DEF Free, Carried, Served
  <2> QED
    BY <1>5, <2>1, <2>2
    DEF SchedulerKept, Engaged, Waits, Tended, Fits, Sent, Held, Recalled, Over, Owns, Copies
<1> QED BY <1>5, <1>8, <1>10, <1>11, <1>13 DEF RecoveryInv

\* A step of a worker keeps the invariant.
LEMMA WorkerKeeps ==
  ASSUME TypeOK, AttemptsInv, OutcomeInv, RecoveryInv, NEW w \in Workers, WorkerStep(w)
  PROVE  RecoveryInv'
BY TakeKeeps, BeginningKeeps, HeartbeatKeeps, EndingKeeps DEF WorkerStep

----------------------------------------------------------------------------
(* The restart *)

\* What the restart makes of the job of a message, of which the row knows: it is queued with
\* the token it had, or cancelled.
LEMMA RecalledOrOver ==
  ASSUME TypeOK, OutcomeInv, Restart, NEW j \in Jobs, NEW t \in Nat \ {0},
         Awaited(j, t), Tended(j, t), Sent(j)
  PROVE  (Waits(j, t) /\ Tended(j, t) /\ Sent(j))'
<1>1. PICK r \in JobRecord : r = rows[j]  BY StateTypes
<1>2. r \in Copies(j) /\ r.fence = jobs[j].fence  BY <1>1, CopyRecords DEF Sent
<1>3. jobs[j].status \in {"admitted", "cancel_requested"} /\ Owns(j)  BY DEF Awaited
<1>4. r.status \in Active
  <2>1. Exists(jobs[j]) /\ jobs[j].status \notin Terminal  BY <1>3 DEF Exists, Terminal
  <2>2. r.status \notin Terminal  BY <1>2, <2>1 DEF OutcomeInv, CopiesBehind, Behind
  <2>3. r.status # "queued"  BY <1>2 DEF Sent
  <2>4. Exists(rows[j])  BY <2>1 DEF OutcomeInv, JobsKnown
  <2>5. r.status \in Live \cup Terminal \cup {"absent"}  BY <1>1 DEF JobRecord
  <2> QED BY <1>1, <2>2, <2>3, <2>4, <2>5 DEF Exists, Live, Active
<1>5. r.token = t /\ r.lease = "live"  BY <1>2, <1>4 DEF Tended, Fits
<1>6. /\ jobs'[j] = Restored(r) /\ rows' = rows /\ lockOwner' = lockOwner
      /\ snap'.job = 0 /\ poll'.job = 0 /\ sched'.pc = "idle" /\ j # 0
  BY <1>1, JobNumbers DEF Restart, NoCopy, IdleScheduler
<1>7. Copies(j)' = {r}  BY <1>1, <1>6 DEF Copies
<1>8. /\ jobs'[j].fence = r.fence
      /\ (jobs'[j].status = "queued" /\ jobs'[j].token = t) \/ jobs'[j].status = "cancelled"
  <2>1. CASE r.status \in {"admitted", "running"}
    <3>1. Restored(r) = [r EXCEPT !.status = "queued"]  BY <2>1 DEF Restored
    <3> QED BY <1>5, <1>6, <3>1 DEF JobRecord
  <2>2. CASE r.status = "cancel_requested"
    <3>1. Restored(r) = Withdrawn(r, "cancelled")  BY <2>2 DEF Restored
    <3> QED BY <1>6, <3>1 DEF JobRecord, Withdrawn
  <2> QED BY <1>4, <2>1, <2>2 DEF Active
<1>9. Owns(j)'  BY <1>3, <1>6 DEF Owns
<1>10. Waits(j, t)'  BY <1>8, <1>9 DEF Waits, Recalled, Over, Terminal
<1>11. Tended(j, t)'
  <2>1. jobs'[j].status \notin Active  BY <1>8 DEF Active
  <2> QED BY <1>5, <1>7, <2>1 DEF Tended, Fits
<1>12. Sent(j)'  BY <1>1, <1>4, <1>6, <1>7, <1>8 DEF Sent, Active
<1> QED BY <1>10, <1>11, <1>12

\* The first restart keeps the invariant: until then every message was awaited.
LEMMA RestartKeeps ==
  ASSUME TypeOK, OutcomeInv, CalmInv, RecoveryInv, Restart
  PROVE  RecoveryInv'
<1>1. /\ poll'.job = 0 /\ sched'.pc = "idle"
      /\ \A w \in Workers : worker'[w] = IdleWorker
      /\ IdleWorker.pc = "idle" /\ IdleWorker.job = 0 /\ 0 \notin Jobs
  BY JobNumbers DEF Restart, NoCopy, IdleScheduler, IdleWorker
<1>2. PICK n \in Nat : /\ Len(stream') \in Nat
                       /\ \A m \in 1..Len(stream') :
                            stream'[m] = stream[m + n] /\ m + n \in 1..Len(stream)
  BY MessagesLeft
<1>3. OneDelivery'
  <2>1. ASSUME NEW a \in 1..Len(stream'), NEW b \in 1..Len(stream'),
               stream'[a].job = stream'[b].job
        PROVE  a = b
    <3>1. stream[a + n].job = stream[b + n].job  BY <1>2, <2>1
    <3>2. a + n = b + n  BY <1>2, <3>1 DEF RecoveryInv, OneDelivery
    <3> QED BY <1>2, <3>2
  <2>2. \A a \in 1..Len(stream') : stream'[a].job # 0  BY <1>1, <1>2, RecoveryTypes
  <2> QED BY <1>1, <2>1, <2>2 DEF OneDelivery
<1>4. MessagesKept'
  <2> SUFFICES ASSUME NEW m \in 1..Len(stream') PROVE MessageKept(stream[m])'
    BY DEF MessagesKept
  <2>1. PICK j \in Jobs, t \in Nat \ {0} :
          /\ j = stream[m + n].job /\ t = stream[m + n].token
          /\ Waits(j, t) /\ Tended(j, t) /\ Sent(j)
    BY <1>2, RecoveryTypes DEF MessageKept
  <2>2. Awaited(j, t)  BY <1>2, <2>1 DEF CalmInv, MessagesAwaited
  <2>3. (Waits(j, t) /\ Tended(j, t) /\ Sent(j))'  BY <2>1, <2>2, RecalledOrOver
  <2>4. j = stream'[m].job /\ t = stream'[m].token  BY <1>2, <2>1
  <2> QED BY <2>3, <2>4 DEF MessageKept
<1>5. ServicesKept'
  <2> SUFFICES ASSUME NEW w \in Workers PROVE ServiceKept(worker[w])'
    BY DEF ServicesKept
  <2> QED BY <1>1, IdleIsKept
<1>6. SchedulerKept'  BY <1>1 DEF SchedulerKept
<1> QED BY <1>1, <1>3, <1>4, <1>5, <1>6 DEF RecoveryInv

----------------------------------------------------------------------------
(* The theorems *)

\* An idle service keeps to the invariant.
LEMMA InitRecovery == Init => RecoveryInv
<1> SUFFICES ASSUME Init PROVE RecoveryInv  OBVIOUS
<1>1. /\ Len(stream) = 0 /\ poll.job = 0 /\ sched.pc = "idle"
      /\ \A w \in Workers : /\ worker[w].pc = "idle" /\ worker[w].job = 0 /\ ~worker[w].raised
  BY DEF Init, NoCopy, IdleScheduler, IdleWorker
<1>2. OneDelivery /\ MessagesKept  BY <1>1 DEF OneDelivery, MessagesKept
<1>3. ServicesKept  BY <1>1 DEF ServicesKept, ServiceKept
<1>4. SchedulerKept  BY <1>1 DEF SchedulerKept
<1> QED BY <1>1, <1>2, <1>3, <1>4 DEF RecoveryInv

\* A service that has had one restart at most had one at most, and its restart is its first.
LEMMA RecoveringLasts ==
  ASSUME TypeOK, [Next]_vars, Recovering'
  PROVE  Recovering /\ Unreplayed /\ Unreplayed' /\ (Restart => Undisturbed)
<1>0. /\ env \in Counters
      /\ env.faults \in Nat /\ env.expiries \in Nat /\ env.crashes \in Nat /\ env.replays \in Nat
  BY DEF TypeOK, Counters
<1>1. CASE UNCHANGED vars
  <2>1. UNCHANGED env  BY <1>1 DEF vars, countVars
  <2>2. ~Restart  BY <1>0, <2>1 DEF Restart, Counters
  <2> QED BY <2>1, <2>2 DEF Recovering, Unreplayed
<1>2. CASE Next
  <2> USE <1>0 DEF Recovering, Unreplayed, Undisturbed, Counters
  <2>1. CASE UNCHANGED env
    <3>1. ~Restart  BY <2>1 DEF Restart
    <3> QED BY <2>1, <3>1
  <2>2. CASE env' = [env EXCEPT !.faults = @ + 1] /\ ~Restart  BY <2>2
  <2>3. CASE env' = [env EXCEPT !.expiries = @ + 1] /\ ~Restart  BY <2>3
  <2>4. CASE env' = [env EXCEPT !.crashes = @ + 1] /\ Restart  BY <2>4
  <2>5. CASE env' = [env EXCEPT !.replays = @ + 1] /\ ~Restart  BY <2>5
  <2> QED BY <1>2, <2>1, <2>2, <2>3, <2>4, <2>5, EnvironmentCounts
<1> QED BY <1>1, <1>2

\* Each step of such a service keeps the invariant.
LEMMA RecoverySteps ==
  ASSUME TypeOK, AttemptsInv, Calm, Unreplayed => OutcomeInv, Undisturbed => CalmInv,
         Recovering => RecoveryInv, [Next]_vars, Recovering'
  PROVE  RecoveryInv'
<1>1. Recovering /\ OutcomeInv /\ RecoveryInv /\ Unreplayed' /\ env'.expiries = 0
      /\ (Restart => CalmInv)
  <2>1. Recovering /\ Unreplayed /\ Unreplayed' /\ (Restart => Undisturbed)  BY RecoveringLasts
  <2>2. env'.expiries = 0  BY DEF Recovering
  <2> QED BY <2>1, <2>2
<1>2. CASE UNCHANGED vars
  <2> USE DEF vars, queueVars, pendingVars, storeVars, brokerVars, readVars, countVars
  <2>1. poll'.job = 0 /\ OneDelivery'  BY <1>1, <1>2 DEF RecoveryInv, OneDelivery
  <2>2. MessagesKept'
    BY <1>1, <1>2 DEF RecoveryInv, MessagesKept, MessageKept, Waits, Tended, Fits, Sent, Held,
       Recalled, Over, Owns, Copies
  <2>3. ServicesKept'
    BY <1>1, <1>2 DEF RecoveryInv, ServicesKept, ServiceKept, ObjectKept, Waits, Tended, Fits, Held,
       Recalled, Over, Owns, Copies
  <2>4. SchedulerKept'
    BY <1>1, <1>2 DEF RecoveryInv, SchedulerKept, Tended, Fits, Sent, Held, Over, Owns, Copies,
       Free, Carried, Served
  <2> QED BY <2>1, <2>2, <2>3, <2>4 DEF RecoveryInv
<1>3. CASE Restart  BY <1>1, <1>3, RestartKeeps
<1>4. CASE Next /\ ~Restart
  BY <1>1, <1>4, StepKinds, SchedulerKeeps, WorkerKeeps, OtherKeeps
<1> QED BY <1>2, <1>3, <1>4

\* What the deliveries of two lives of the process, the rows and the recalled jobs have in
\* common holds until a second restart.
THEOREM RecoveryInvariant ==
  ASSUME Calm
  PROVE  Spec => [](Recovering => RecoveryInv)
<1>1. TypeOK /\ AttemptsInv /\ (Unreplayed => OutcomeInv) /\ (Undisturbed => CalmInv)
      /\ (Recovering => RecoveryInv) /\ [Next]_vars
      => (Recovering => RecoveryInv)'
  BY RecoverySteps
<1>2. Init => (Recovering => RecoveryInv)  BY InitRecovery
<1> QED BY <1>1, <1>2, TypeCorrect, AttemptsInvariant, OutcomeInvariant, CalmInvariant, PTL DEF Spec

\* Through one restart: as long as no lease ran out under its holder and no request was
\* replayed, a worker that executes has the current token of its job and the lock of its
\* session, be its message of this life of the process or of the former one.
THEOREM RecoveredLock ==
  ASSUME Calm
  PROVE  Spec => [](Recovering => LockKept)
<1>1. RecoveryInv => LockKept
  BY DEF RecoveryInv, ServicesKept, ServiceKept, LockKept, Executing, Holds, Held
<1> QED BY <1>1, RecoveryInvariant, PTL

\* Conversations through one restart: of the executions whose token is current, the recovered
\* ones included, no two are of one session.
THEOREM RecoveredRuns ==
  ASSUME Calm
  PROVE  Spec => [](Recovering => CurrentRunsSerial)
<1>1. TypeOK /\ RecoveryInv => CurrentRunsSerial
  <2> SUFFICES ASSUME TypeOK, RecoveryInv, NEW v \in Workers, NEW w \in Workers,
                      Executing(v), Executing(w),
                      SessionOf[worker[v].job] = SessionOf[worker[w].job]
               PROVE  v = w
    BY DEF CurrentRunsSerial
  <2>1. Owns(worker[v].job) /\ Owns(worker[w].job)
    BY DEF RecoveryInv, ServicesKept, ServiceKept, Executing, Held
  <2>2. worker[v].job = worker[w].job  BY <2>1 DEF Owns
  <2>3. worker[v].job # 0
    <3>1. worker[v].job \in Jobs  BY StateTypes DEF Executing
    <3> QED BY <3>1, JobNumbers
  <2> QED BY <2>2, <2>3 DEF RecoveryInv, OneDelivery
<1> QED BY <1>1, RecoveryInvariant, TypeCorrect, PTL
=============================================================================
