--------------------------- MODULE JobLifecycle ---------------------------
(***************************************************************************)
(* What the agent job service promises of its jobs, with no queue, lock,   *)
(* message or row in sight: each job follows the transition table, is      *)
(* attempted a bounded number of times, leaves its outcome alone, and the  *)
(* jobs of one session are executed one at a time.                         *)
(***************************************************************************)
EXTENDS Naturals

CONSTANTS Jobs, Sessions, SessionOf, MaxAttempts

VARIABLES status, attempt, executing, finals

vars == <<status, attempt, executing, finals>>

Init ==
  /\ status = [j \in Jobs |-> "absent"] /\ attempt = [j \in Jobs |-> 0]
  /\ executing = {} /\ finals = [j \in Jobs |-> 0]

Move(j, from, to) == status[j] \in from /\ status' = [status EXCEPT ![j] = to]

Accept(j) == Move(j, {"absent"}, "queued") /\ UNCHANGED <<attempt, executing, finals>>

Admit(j) ==
  /\ Move(j, {"queued"}, "admitted")
  /\ attempt[j] < MaxAttempts /\ attempt' = [attempt EXCEPT ![j] = @ + 1]
  /\ UNCHANGED <<executing, finals>>

\* The session has no other execution.
Start(j) ==
  /\ Move(j, {"admitted"}, "running")
  /\ \A i \in executing : SessionOf[i] # SessionOf[j]
  /\ executing' = executing \cup {j}
  /\ UNCHANGED <<attempt, finals>>

\* The attempt did not get to a start, and there may be another one.
GiveBack(j) ==
  /\ Move(j, {"admitted"}, "queued") /\ j \notin executing /\ attempt[j] < MaxAttempts
  /\ UNCHANGED <<attempt, executing, finals>>

\* The row of the attempt that was given back is believed again.
Reinstate(j) ==
  /\ Move(j, {"queued"}, "admitted") /\ attempt[j] > 0
  /\ UNCHANGED <<attempt, executing, finals>>

GiveUp(j) ==
  /\ Move(j, {"admitted", "cancel_requested"}, "failed")
  /\ j \notin executing /\ attempt[j] = MaxAttempts
  /\ UNCHANGED <<attempt, executing, finals>>

Succeed(j) ==
  /\ Move(j, {"running"}, "succeeded") /\ j \in executing /\ executing' = executing \ {j}
  /\ finals[j] = 0 /\ finals' = [finals EXCEPT ![j] = 1]
  /\ UNCHANGED attempt

Fail(j) ==
  /\ Move(j, {"running"}, "failed") /\ j \in executing /\ executing' = executing \ {j}
  /\ UNCHANGED <<attempt, finals>>

RequestCancel(j) ==
  /\ Move(j, {"admitted", "running"}, "cancel_requested")
  /\ UNCHANGED <<attempt, executing, finals>>

Cancel(j) ==
  /\ Move(j, {"queued", "cancel_requested"}, "cancelled") /\ executing' = executing \ {j}
  /\ UNCHANGED <<attempt, finals>>

Step(j) ==
  \/ Accept(j) \/ Admit(j) \/ Start(j) \/ GiveBack(j) \/ Reinstate(j) \/ GiveUp(j)
  \/ Succeed(j) \/ Fail(j) \/ RequestCancel(j) \/ Cancel(j)

Next == \E j \in Jobs : Step(j)

Spec == Init /\ [][Next]_vars
=============================================================================
