------------------------------ MODULE JobTypes ------------------------------
(***************************************************************************)
(* The vocabulary of the agent job service (agent_jobs_types.py): the      *)
(* statuses of a job, the transition table, the fields of a job that its   *)
(* control flow reads, and the rule that merges a local job with a row     *)
(* read from the job table.                                                *)
(***************************************************************************)
EXTENDS Naturals

Live == {"queued", "admitted", "running", "cancel_requested"}
Terminal == {"succeeded", "failed", "cancelled"}

\* ALLOWED_JOB_TRANSITIONS. "rejected" is in the table but nothing assigns it.
Successors ==
  [queued           |-> {"admitted", "cancelled"},
   admitted         |-> {"running", "queued", "cancel_requested", "cancelled", "failed"},
   running          |-> {"succeeded", "failed", "cancel_requested", "cancelled", "queued"},
   cancel_requested |-> {"cancelled", "failed"},
   succeeded        |-> {},
   failed           |-> {},
   cancelled        |-> {}]

\* ensure_job_transition: staying put is always accepted.
CanMove(from, to) == from = to \/ to \in Successors[from]

(***************************************************************************)
(* A job as the service keeps it.  A token is a natural that is fresh at   *)
(* every admission of the job, and 0 stands for None; a lease is unset,    *)
(* still running, or past its deadline.  NoJob is the absence of a job.    *)
(***************************************************************************)
JobRecord ==
  [status : Live \cup Terminal \cup {"absent"}, attempt : Nat, fence : Nat,
   token : Nat, lease : {"none", "live", "expired"}]

NoJob == [status |-> "absent", attempt |-> 0, fence |-> 0, token |-> 0, lease |-> "none"]
NewJob == [NoJob EXCEPT !.status = "queued"]

Exists(job) == job.status # "absent"
Leased(job) == job.status \in {"admitted", "running"}

\* A lease is a deadline: the passage of time can only end it.
Aged(job) == IF job.lease = "live" THEN [job EXCEPT !.lease = "expired"] ELSE job

Rank == [queued |-> 0, admitted |-> 1, running |-> 2, cancel_requested |-> 3]

\* Mutant: within one fence, a local outcome is not looked at.
PersistedWinsOverOutcome(current, persisted) ==
  /\ Exists(persisted)
  /\ \/ ~Exists(current)
     \/ persisted.fence > current.fence
     \/ /\ persisted.fence = current.fence
        /\ \/ persisted.status \in Terminal
           \/ current.status \in Terminal
           \/ Rank[persisted.status] >= Rank[current.status]

\* Mutant: within one fence, a row that is ahead of the local job is not believed.
PersistedWinsLate(current, persisted) ==
  /\ Exists(persisted)
  /\ ~Exists(current) \/ persisted.fence > current.fence

(***************************************************************************)
(* _select_freshest_job: does the persisted row replace the local job?     *)
(***************************************************************************)
PersistedWins(current, persisted) ==
  /\ Exists(persisted)
  /\ \/ ~Exists(current)
     \/ persisted.fence > current.fence
     \/ /\ persisted.fence = current.fence
        /\ current.status \notin Terminal
        /\ \/ persisted.status \in Terminal
           \/ Rank[persisted.status] >= Rank[current.status]
           \/ current.lease = "expired"

\* A message or an execution carries the token a job has outlived.
Superseded(job, token) == job.token # 0 /\ job.token # token
=============================================================================
