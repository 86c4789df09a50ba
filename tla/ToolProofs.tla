----------------------------- MODULE ToolProofs -----------------------------
(***************************************************************************)
(* The scheduler: a call is never tried again while an earlier attempt may *)
(* be running, and within a task the tools with effects run one at a time, *)
(* for any batches, policies, pools and retries.                           *)
(*                                                                         *)
(* An attempt that nobody waits for stays in the pool.  What keeps the     *)
(* next one out is where a call stands: only a call that is waited for or  *)
(* done has an execution in the pool, and neither is submitted again       *)
(* before that execution has returned.                                     *)
(*                                                                         *)
(* Then the loop that makes the calls: each tool use has one result, no    *)
(* call is executed twice, and an open output is not passed over, for any  *)
(* tools, replies, results, limits and requests.                           *)
(*                                                                         *)
(* Last the tools that write files: a version they destroy that was never  *)
(* read from was written within their own window, or within the grain of a *)
(* fingerprint.                                                            *)
(***************************************************************************)
EXTENDS ToolRuns, AgentLoop, FileTools, TLAPS, FiniteSetTheorems

ItemFields == {"call", "st", "out", "attempt", "rejected"}

ItemShapes ==
    /\ items = [i \in Index |-> items[i]]
    /\ \A i \in Index : DOMAIN items[i] = ItemFields

\* Executions are of batches that have been received.
KnownKeys ==
    /\ batches \in Nat
    /\ \A k \in DOMAIN work : k = <<k[1], k[2], k[3]>> /\ k[1] \in Nat /\ k[1] <= batches

\* Of the batch under way, only calls that are waited for or done have one.
OfItem(k, i) == k[1] = batches /\ k[2] = i
WaitedOrDone == \A k \in DOMAIN work, i \in Index : OfItem(k, i) => items[i].st \in {"wait", "done"}

ToolInv == ItemShapes /\ KnownKeys /\ WaitedOrDone /\ OneLiveAttempt

-----------------------------------------------------------------------------
\* Nothing runs at first.
LEMMA ToolInvInit == ToolInit => ToolInv
BY DEF ToolInit, ToolInv, ItemShapes, KnownKeys, WaitedOrDone, OneLiveAttempt, Index

\* Items and batches stay, and no execution is added.
LEMMA NoSubmission ==
  ASSUME ToolInv, UNCHANGED <<items, batches>>, DOMAIN work' \subseteq DOMAIN work
  PROVE  ToolInv'
BY DEF ToolInv, ItemShapes, KnownKeys, WaitedOrDone, OneLiveAttempt, Index, OfItem

\* One call moves, and none is executed: it may be submitted again only if the
\* pool has nothing of it.
LEMMA ItemMoves ==
  ASSUME ToolInv, NEW i \in Index, NEW t, items' = [items EXCEPT ![i] = t], DOMAIN t = ItemFields,
         UNCHANGED batches, DOMAIN work' \subseteq DOMAIN work,
         t.st \in {"wait", "done"} \/ \A k \in DOMAIN work' : ~ OfItem(k, i)
  PROVE  ToolInv'
<1>1. Index' = Index /\ \A j \in Index : items'[j] = IF j = i THEN t ELSE items[j]
  BY DEF ToolInv, ItemShapes, Index
<1>2. ItemShapes'  BY <1>1 DEF ToolInv, ItemShapes, Index
<1>3. KnownKeys' /\ OneLiveAttempt'  BY DEF ToolInv, KnownKeys, OneLiveAttempt
<1>4. WaitedOrDone'  BY <1>1 DEF ToolInv, WaitedOrDone, OfItem
<1> QED BY <1>2, <1>3, <1>4 DEF ToolInv

\* A call that is still to be looked at, dispatched or submitted has nothing in
\* the pool.
LEMMA NothingOf ==
  ASSUME ToolInv, NEW i \in Index, items[i].st \notin {"wait", "done"}
  PROVE  \A k \in DOMAIN work : ~ OfItem(k, i)
BY DEF ToolInv, WaitedOrDone

\* The items a step may give a call.
LEMMA Moves ==
  ASSUME ToolInv, NEW i \in Index, NEW o, NEW st
  PROVE  /\ DOMAIN [items[i] EXCEPT !.st = "done", !.out = o] = ItemFields
         /\ [items[i] EXCEPT !.st = "done", !.out = o].st = "done"
         /\ DOMAIN [items[i] EXCEPT !.st = "done", !.out = o, !.rejected = TRUE] = ItemFields
         /\ [items[i] EXCEPT !.st = "done", !.out = o, !.rejected = TRUE].st = "done"
         /\ DOMAIN [items[i] EXCEPT !.st = "submit", !.attempt = items[i].attempt + 1] = ItemFields
         /\ DOMAIN [items[i] EXCEPT !.st = st] = ItemFields
         /\ [items[i] EXCEPT !.st = st].st = st
BY DEF ToolInv, ItemShapes, ItemFields

\* A call is ended.
LEMMA FinishStep ==
  ASSUME ToolInv, NEW i \in Index, NEW o, Finish(i, o) \/ TurnDown(i, o),
         UNCHANGED batches, DOMAIN work' \subseteq DOMAIN work
  PROVE  ToolInv'
<1>1. CASE Finish(i, o)
  <2> DEFINE t == [items[i] EXCEPT !.st = "done", !.out = o]
  <2>1. items' = [items EXCEPT ![i] = t]  BY <1>1 DEF Finish
  <2>2. DOMAIN t = ItemFields /\ t.st = "done"  BY Moves
  <2> HIDE DEF t
  <2> QED BY <2>1, <2>2, ItemMoves
<1>2. CASE TurnDown(i, o)
  <2> DEFINE t == [items[i] EXCEPT !.st = "done", !.out = o, !.rejected = TRUE]
  <2>1. items' = [items EXCEPT ![i] = t]  BY <1>2 DEF TurnDown
  <2>2. DOMAIN t = ItemFields /\ t.st = "done"  BY Moves
  <2> HIDE DEF t
  <2> QED BY <2>1, <2>2, ItemMoves
<1> QED BY <1>1, <1>2

\* A call that has nothing in the pool goes on.
LEMMA SetStep ==
  ASSUME ToolInv, NEW i \in Index, NEW st, Set(i, st), UNCHANGED batches, DOMAIN work' \subseteq DOMAIN work,
         \A k \in DOMAIN work' : ~ OfItem(k, i)
  PROVE  ToolInv'
<1>1. items' = [items EXCEPT ![i] = [items[i] EXCEPT !.st = st]]  BY DEF Set, ToolInv, ItemShapes
<1> QED BY <1>1, Moves, ItemMoves

\* An attempt that failed is the last, or the next is submitted: the pool has
\* nothing of the call.
LEMMA AttemptedStep ==
  ASSUME ToolInv, NEW i \in Index, NEW o, Attempted(i, o), UNCHANGED batches, DOMAIN work' \subseteq DOMAIN work,
         \A k \in DOMAIN work' : ~ OfItem(k, i)
  PROVE  ToolInv'
<1> DEFINE t == [items[i] EXCEPT !.st = "submit", !.attempt = items[i].attempt + 1]
<1>1. Finish(i, o) \/ items' = [items EXCEPT ![i] = t]  BY DEF Attempted
<1>2. DOMAIN t = ItemFields  BY Moves
<1> HIDE DEF t
<1> QED BY <1>1, <1>2, FinishStep, ItemMoves

-----------------------------------------------------------------------------
(* The steps.                                                              *)
\* A batch that arrives has nothing in the pool: it is numbered after all others.
LEMMA ReceiveStep == ASSUME ToolInv, NEW b, NEW s, Receive(b, s) PROVE ToolInv'
<1>1. /\ batches' = batches + 1 /\ UNCHANGED work
      /\ items' = [i \in DOMAIN b |-> [call |-> b[i], st |-> "new", out |-> "none", attempt |-> 1,
                                       rejected |-> FALSE]]
  BY DEF Receive
<1>2. ItemShapes'  BY <1>1 DEF ItemShapes, Index, ItemFields
<1>3. KnownKeys'  BY <1>1 DEF ToolInv, KnownKeys
<1>4. \A k \in DOMAIN work' : k[1] # batches'  BY <1>1 DEF ToolInv, KnownKeys
<1>5. WaitedOrDone'  BY <1>4 DEF WaitedOrDone, OfItem
<1>6. OneLiveAttempt'  BY <1>1 DEF ToolInv, OneLiveAttempt
<1> QED BY <1>2, <1>3, <1>5, <1>6 DEF ToolInv

\* A call that is prepared is new.
LEMMA PrepareStep == ASSUME ToolInv, Prepare PROVE ToolInv'
<1>1. PICK i \in InState("new") : (\E o : TurnDown(i, o)) \/ Set(i, "ready")  BY DEF Prepare
<1>2. i \in Index /\ items[i].st = "new"  BY DEF InState
<1>3. UNCHANGED <<batches, work>>  BY DEF Prepare
<1> QED BY <1>1, <1>2, <1>3, NothingOf, FinishStep, SetStep DEF OfItem

\* run_batch makes calls done; what is dispatched is looked at once more.
LEMMA DispatchSteps ==
  ASSUME ToolInv, DispatchBatch \/ \E i \in Index : Dispatch(i)
  PROVE  ToolInv'
<1>1. UNCHANGED <<batches, work>>  BY DEF DispatchBatch, Dispatch
<1>2. ASSUME NEW i \in Index, Dispatch(i) PROVE ToolInv'
  <2>1. items[i].st = "ready" /\ (Set(i, "submit") \/ \E o : Finish(i, o))  BY <1>2 DEF Dispatch
  <2> QED BY <1>1, <2>1, NothingOf, FinishStep, SetStep DEF OfItem
<1>3. CASE DispatchBatch
  <2>1. CASE UNCHANGED items  BY <1>1, <2>1, NoSubmission
  <2>2. CASE ~ UNCHANGED items
    <3>1. PICK o : items' = [i \in Index |-> IF items[i].st # "ready" THEN items[i]
                                             ELSE [items[i] EXCEPT !.st = "done", !.out = o]]
      BY <1>3, <2>2 DEF DispatchBatch
    <3>2. Index' = Index  BY <3>1 DEF Index
    <3>3. ASSUME NEW i \in Index
          PROVE  DOMAIN items'[i] = ItemFields /\ (items'[i] = items[i] \/ items'[i].st = "done")
      <4>1. CASE items[i].st # "ready"  BY <3>1, <4>1 DEF ToolInv, ItemShapes
      <4>2. CASE items[i].st = "ready"
        <5>1. items'[i] = [items[i] EXCEPT !.st = "done", !.out = o]  BY <3>1, <4>2
        <5> QED BY <5>1, Moves
      <4> QED BY <4>1, <4>2
    <3>4. ItemShapes'  BY <3>1, <3>2, <3>3 DEF ItemShapes, Index
    <3>5. KnownKeys' /\ OneLiveAttempt'  BY <1>1 DEF ToolInv, KnownKeys, OneLiveAttempt
    <3>6. WaitedOrDone'  BY <1>1, <3>2, <3>3 DEF ToolInv, WaitedOrDone, OfItem
    <3> QED BY <3>4, <3>5, <3>6 DEF ToolInv
  <2> QED BY <2>1, <2>2
<1> QED BY <1>2, <1>3

\* The only step that adds an execution: the call had none, and is waited for.
LEMMA SubmitStep == ASSUME ToolInv, NEW i \in Index, Submit(i) PROVE ToolInv'
<1>1. items[i].st = "submit" /\ UNCHANGED batches  BY DEF Submit
<1>2. \A k \in DOMAIN work : ~ OfItem(k, i)  BY <1>1, NothingOf
<1>3. CASE UNCHANGED work /\ ((\E o : Finish(i, o)) \/ \E o : Attempted(i, o))
  BY <1>1, <1>2, <1>3, FinishStep, AttemptedStep DEF OfItem
<1>4. CASE Set(i, "wait") /\ \E w : work' = [k \in DOMAIN work \cup {Key(i)} |-> IF k # Key(i) THEN work[k] ELSE w]
  <2> DEFINE t == [items[i] EXCEPT !.st = "wait"]
  <2>1. items' = [items EXCEPT ![i] = t]  BY <1>4 DEF Set
  <2>2. DOMAIN t = ItemFields /\ t.st = "wait"  BY Moves
  <2> HIDE DEF t
  <2>3. Index' = Index /\ \A j \in Index : items'[j] = IF j = i THEN t ELSE items[j]
    BY <2>1 DEF ToolInv, ItemShapes, Index
  <2>4. ItemShapes'  BY <2>1, <2>2, <2>3 DEF ToolInv, ItemShapes, Index
  <2>5. DOMAIN work' = DOMAIN work \cup {Key(i)}  BY <1>4
  <2>6. Key(i) = <<batches, i, items[i].attempt>> /\ OfItem(Key(i), i)  BY DEF Key, OfItem
  <2>7. KnownKeys'  BY <1>1, <2>5, <2>6 DEF ToolInv, KnownKeys
  <2>8. OneLiveAttempt'
    <3> SUFFICES ASSUME NEW k \in DOMAIN work', NEW l \in DOMAIN work', k[1] = l[1], k[2] = l[2]
                 PROVE  k = l
      BY DEF OneLiveAttempt
    <3>1. CASE k \in DOMAIN work /\ l \in DOMAIN work  BY <3>1 DEF ToolInv, OneLiveAttempt
    <3>2. CASE k \notin DOMAIN work  BY <1>2, <2>5, <2>6, <3>2 DEF OfItem
    <3>3. CASE l \notin DOMAIN work  BY <1>2, <2>5, <2>6, <3>3 DEF OfItem
    <3> QED BY <3>1, <3>2, <3>3
  <2>9. WaitedOrDone'
    <3> SUFFICES ASSUME NEW k \in DOMAIN work', NEW j \in Index, k[1] = batches, k[2] = j
                 PROVE  items'[j].st \in {"wait", "done"}
      BY <1>1, <2>3 DEF WaitedOrDone, OfItem
    <3>1. CASE j = i  BY <2>2, <2>3, <3>1
    <3>2. CASE j # i  BY <2>3, <2>5, <2>6, <3>2 DEF ToolInv, WaitedOrDone, OfItem
    <3> QED BY <3>1, <3>2
  <2> QED BY <2>4, <2>7, <2>8, <2>9 DEF ToolInv
<1> QED BY <1>3, <1>4 DEF Submit

\* What returns was the only execution of its call.
LEMMA ReturnStep == ASSUME ToolInv, NEW k \in DOMAIN work, ReturnWork(k) PROVE ToolInv'
<1>1. DOMAIN work' = DOMAIN work \ {k} /\ UNCHANGED batches  BY DEF ReturnWork, Without
<1>2. CASE ~ Awaited(k)
  <2>1. UNCHANGED items  BY <1>2 DEF ReturnWork
  <2> QED BY <1>1, <2>1, NoSubmission
<1>3. CASE Awaited(k)
  <2>1. PICK o : Attempted(k[2], o)  BY <1>3 DEF ReturnWork
  <2>2. k[2] \in Index /\ k[1] = batches  BY <1>3 DEF Awaited, InState
  <2>3. \A l \in DOMAIN work' : ~ OfItem(l, k[2])
    BY <1>1, <2>2 DEF ToolInv, OneLiveAttempt, OfItem
  <2> QED BY <1>1, <2>1, <2>2, <2>3, AttemptedStep
<1> QED BY <1>2, <1>3

\* A call that is given up is done, though its execution may go on.
LEMMA AbandonStep == ASSUME ToolInv, NEW i \in Index, NEW o, Abandon(i, o) PROVE ToolInv'
<1>1. Finish(i, o) /\ UNCHANGED batches  BY DEF Abandon
<1>2. DOMAIN work' \subseteq DOMAIN work  BY DEF Abandon, Without
<1> QED BY <1>1, <1>2, FinishStep

\* No step breaks the invariant.
LEMMA ToolInvStep == ASSUME ToolInv, [ToolNext]_toolvars PROVE ToolInv'
<1>1. CASE UNCHANGED toolvars \/ Decide \/ ServiceFlips \/ StopTools \/ NextTask
  <2>1. UNCHANGED <<items, batches, work>>
    BY <1>1 DEF toolvars, Decide, ServiceFlips, StopTools, NextTask
  <2> QED BY <2>1, NoSubmission
<1>2. CASE Record
  <2>1. items' = <<>> /\ UNCHANGED <<batches, work>>  BY <1>2 DEF Record
  <2>2. Index' = {}  BY <2>1 DEF Index
  <2>3. ItemShapes' /\ WaitedOrDone'  BY <2>1, <2>2 DEF ItemShapes, WaitedOrDone
  <2> QED BY <2>1, <2>3 DEF ToolInv, KnownKeys, OneLiveAttempt
<1>3. ASSUME NEW k \in DOMAIN work, StartWork(k) PROVE ToolInv'
  <2>1. DOMAIN work' = DOMAIN work /\ UNCHANGED <<items, batches>>  BY <1>3 DEF StartWork
  <2> QED BY <2>1, NoSubmission
<1>4. ASSUME NEW i \in Index, Timeout(i) \/ SeeStop(i) PROVE ToolInv'
  BY <1>4, AbandonStep DEF Timeout, SeeStop
<1> QED BY <1>1, <1>2, <1>3, <1>4, ReceiveStep, PrepareStep, DispatchSteps, SubmitStep, ReturnStep
    DEF ToolNext, ToolStep

\* No call has two executions in the pool, whatever was given up, retried,
\* refused or cancelled.
THEOREM LiveAttempts == ToolSpec => []OneLiveAttempt
<1>1. ToolInv /\ [ToolNext]_toolvars => ToolInv'  BY ToolInvStep
<1>2. ToolInv => OneLiveAttempt  BY DEF ToolInv
<1> QED BY ToolInvInit, <1>1, <1>2, PTL DEF ToolSpec
-----------------------------------------------------------------------------
(***************************************************************************)
(* Tools with effects run alone, whatever was given up.                    *)
(*                                                                         *)
(* Only a cancellation makes the scheduler give up a tool with effects,    *)
(* and after it nothing of the task is submitted.  Before it, each of them *)
(* in the pool is waited for (Attended), and of the calls of a batch that  *)
(* has one, one at a time is submitted or waited for (InTurn).             *)
(***************************************************************************)
Stages ==
    /\ phase \in {"idle", "prepare", "dispatch"} /\ how \in {"serial", "parallel", "batch"}
    /\ Index \subseteq Nat \ {0}
    /\ phase = "idle" => Index = {}
    /\ phase = "prepare" => \A i \in Index : items[i].st \in {"new", "ready", "done"}
    /\ phase = "dispatch" => \A i \in Index : items[i].st \in {"ready", "submit", "wait", "done"}

UnderWay(i) == items[i].st \in {"submit", "wait"}
InTurn ==
    phase = "dispatch" =>
        /\ how = "serial" => \A i, j \in Index : UnderWay(i) /\ j < i => items[j].st = "done"
        /\ how # "serial" => \A i \in Index : items[i].st = "done" \/ PolicyAt(i).pure
        /\ how = "batch" => \A i \in Index : ~ UnderWay(i)

WorkFields == {"st", "call", "task"}
WorkShapes ==
    /\ task \in Nat
    /\ work = [k \in DOMAIN work |-> work[k]]
    /\ \A k \in DOMAIN work : DOMAIN work[k] = WorkFields /\ work[k].task \in Nat /\ work[k].task <= task

HasEffects(k) == ~ Policy[work[k].call].pure
\* A tool with effects that is in the pool for the task is waited for, until
\* the task is cancelled.
WaitedFor(k) == k[1] = batches /\ k[2] \in Index /\ items[k[2]].st = "wait" /\ items[k[2]].call = work[k].call
Attended == ~ stop => \A k \in DOMAIN work : work[k].task = task /\ HasEffects(k) => WaitedFor(k)

OneWithEffects ==
    \A k, l \in DOMAIN work : work[k].task = work[l].task /\ HasEffects(k) /\ HasEffects(l) => k = l

TurnInv == ToolInv /\ Stages /\ InTurn /\ WorkShapes /\ Attended /\ OneWithEffects

\* Nothing is in the pool at first.
LEMMA TurnInvInit == ToolInit => TurnInv
<1> SUFFICES ASSUME ToolInit PROVE TurnInv
  OBVIOUS
<1>1. Index = {} /\ DOMAIN work = {}  BY DEF ToolInit, Index
<1>2. Stages /\ InTurn  BY <1>1 DEF ToolInit, Stages, InTurn
<1>3. WorkShapes  BY <1>1 DEF ToolInit, WorkShapes
<1>4. Attended /\ OneWithEffects  BY <1>1 DEF Attended, OneWithEffects
<1> QED BY <1>2, <1>3, <1>4, ToolInvInit DEF TurnInv

\* What is in the pool stays there as it is, or leaves.
Leaves ==
    /\ DOMAIN work' \subseteq DOMAIN work
    /\ work' = [k \in DOMAIN work' |-> work'[k]]
    /\ \A k \in DOMAIN work' : DOMAIN work'[k] = WorkFields /\ work'[k].task = work[k].task
                               /\ work'[k].call = work[k].call

\* The ways of leaving and staying.
LEMMA LeavesWays ==
  ASSUME TurnInv, UNCHANGED work \/ \E k \in DOMAIN work : work' = Without(k)
  PROVE  Leaves
<1>1. CASE UNCHANGED work  BY <1>1 DEF TurnInv, WorkShapes, Leaves
<1>2. ASSUME NEW k \in DOMAIN work, work' = Without(k) PROVE Leaves
  BY <1>2 DEF TurnInv, WorkShapes, Leaves, Without
<1> QED BY <1>1, <1>2

\* Where nothing is added, what the pool keeps of a task goes on as before.
LEMMA PoolKeeps ==
  ASSUME TurnInv, Leaves, UNCHANGED task
  PROVE  WorkShapes' /\ OneWithEffects'
<1>1. WorkShapes'  BY DEF TurnInv, WorkShapes, Leaves
<1>2. \A k \in DOMAIN work' : HasEffects(k)' <=> HasEffects(k)  BY DEF Leaves, HasEffects
<1>3. OneWithEffects'
  <2> SUFFICES ASSUME NEW k \in DOMAIN work', NEW l \in DOMAIN work', work'[k].task = work'[l].task,
                      HasEffects(k)', HasEffects(l)'
               PROVE  k = l
    BY DEF OneWithEffects
  <2> QED BY <1>2 DEF TurnInv, OneWithEffects, Leaves
<1> QED BY <1>1, <1>3

\* A call moves.  If it comes under way its turn has come, and if it leaves
\* the calls that are waited for, it is cancelled or nothing with effects.
LEMMA CallMoves ==
  ASSUME TurnInv, ToolInv', NEW i \in Index, NEW t, items' = [items EXCEPT ![i] = t],
         t.call = items[i].call, UNCHANGED <<phase, how>>,
         phase = "prepare" => t.st \in {"ready", "done"},
         phase = "dispatch" => t.st \in {"submit", "wait", "done"},
         t.st \in {"submit", "wait"} =>
             /\ how # "batch" /\ items[i].st # "done"
             /\ how = "serial" => UnderWay(i) \/ \A j \in Index : j < i => items[j].st = "done"
  PROVE  /\ Stages' /\ InTurn'
         /\ Index' = Index /\ \A j \in Index : items'[j] = IF j = i THEN t ELSE items[j]
<1>1. Index' = Index /\ \A j \in Index : items'[j] = IF j = i THEN t ELSE items[j]
  BY DEF TurnInv, ToolInv, ItemShapes, Index
<1>2. Stages'
  BY <1>1 DEF TurnInv, Stages
<1>3. ASSUME phase = "dispatch" PROVE InTurn'
  <2>1. \A j \in Index : UnderWay(j)' => IF j = i THEN t.st \in {"submit", "wait"} ELSE UnderWay(j)
    BY <1>1 DEF UnderWay
  <2>2. ASSUME how = "serial", NEW l \in Index, NEW j \in Index, UnderWay(l)', j < l
        PROVE  items'[j].st = "done"
    <3>1. i \in Nat /\ j \in Nat /\ l \in Nat  BY DEF TurnInv, Stages
    <3>2. CASE l = i
      <4>1. j # i  BY <2>2, <3>1, <3>2
      <4>2. UnderWay(i) \/ \A m \in Index : m < i => items[m].st = "done"  BY <2>1, <2>2, <3>2
      <4>3. items[j].st = "done"  BY <1>3, <2>2, <3>2, <4>2 DEF TurnInv, InTurn
      <4> QED BY <1>1, <4>1, <4>3
    <3>3. CASE l # i
      <4>1. items[j].st = "done"  BY <1>3, <2>1, <2>2, <3>3 DEF TurnInv, InTurn
      <4>2. CASE j # i  BY <1>1, <4>1, <4>2
      <4>3. CASE j = i
        <5>1. t.st \notin {"submit", "wait"}  BY <4>1, <4>3
        <5> QED BY <1>1, <1>3, <4>3, <5>1
      <4> QED BY <4>2, <4>3
    <3> QED BY <3>2, <3>3
  <2>3. ASSUME how # "serial", NEW j \in Index PROVE items'[j].st = "done" \/ PolicyAt(j)'.pure
    <3>1. items[j].st = "done" \/ PolicyAt(j).pure  BY <1>3, <2>3 DEF TurnInv, InTurn
    <3>2. items'[j].call = items[j].call  BY <1>1
    <3>3. items[j].st = "done" => items'[j].st = "done"  BY <1>1, <1>3
    <3> QED BY <3>1, <3>2, <3>3 DEF PolicyAt
  <2>4. ASSUME how = "batch", NEW j \in Index PROVE ~ UnderWay(j)'
    BY <1>3, <2>1, <2>4 DEF TurnInv, InTurn
  <2> QED BY <1>1, <2>2, <2>3, <2>4 DEF InTurn
<1>4. ASSUME phase # "dispatch" PROVE InTurn'
  BY <1>4 DEF InTurn
<1> QED BY <1>1, <1>2, <1>3, <1>4

\* If no execution that the task waits for belongs to the call that moves, or
\* the task is cancelled, each of the others is waited for as before.
LEMMA StaysAttended ==
  ASSUME TurnInv, Leaves, NEW i \in Index, NEW t, Index' = Index,
         \A j \in Index : items'[j] = IF j = i THEN t ELSE items[j],
         UNCHANGED <<task, batches, stop>>,
         stop \/ (\A k \in DOMAIN work' : OfItem(k, i) => ~ (work[k].task = task /\ HasEffects(k)))
  PROVE  Attended'
<1> SUFFICES ASSUME ~ stop, NEW k \in DOMAIN work', work'[k].task = task, HasEffects(k)'
             PROVE  WaitedFor(k)'
  BY DEF Attended
<1>1. k \in DOMAIN work /\ work[k].task = task /\ HasEffects(k) /\ work'[k].call = work[k].call
  BY DEF Leaves, HasEffects
<1>2. WaitedFor(k)  BY <1>1 DEF TurnInv, Attended
<1>3. k[2] # i  BY <1>1, <1>2 DEF WaitedFor, OfItem
<1> QED BY <1>1, <1>2, <1>3 DEF WaitedFor

\* Nothing is added to the pool and no call moves.
LEMMA NoMove ==
  ASSUME TurnInv, ToolInv', Leaves, UNCHANGED <<task, batches, items, phase, how>>, stop => stop'
  PROVE  TurnInv'
<1>1. Index' = Index  BY DEF Index
<1>2. Stages'  BY <1>1 DEF TurnInv, Stages
<1>3. InTurn'  BY <1>1 DEF TurnInv, InTurn, UnderWay, PolicyAt
<1>4. Attended'
  <2> SUFFICES ASSUME ~ stop', NEW k \in DOMAIN work', work'[k].task = task, HasEffects(k)'
               PROVE  WaitedFor(k)'
    BY DEF Attended
  <2>1. k \in DOMAIN work /\ work[k].task = task /\ HasEffects(k) /\ work'[k].call = work[k].call
    BY DEF Leaves, HasEffects
  <2>2. WaitedFor(k)  BY <2>1 DEF TurnInv, Attended
  <2> QED BY <1>1, <2>1, <2>2 DEF WaitedFor
<1> QED BY <1>2, <1>3, <1>4, PoolKeeps DEF TurnInv

\* The fields of an item after each move.
LEMMA MoveFields ==
  ASSUME ToolInv, NEW i \in Index, NEW o, NEW st
  PROVE  /\ [items[i] EXCEPT !.st = "done", !.out = o].call = items[i].call
         /\ [items[i] EXCEPT !.st = "done", !.out = o, !.rejected = TRUE].call = items[i].call
         /\ [items[i] EXCEPT !.st = "submit", !.attempt = items[i].attempt + 1].call = items[i].call
         /\ [items[i] EXCEPT !.st = "submit", !.attempt = items[i].attempt + 1].st = "submit"
         /\ [items[i] EXCEPT !.st = st].call = items[i].call
BY DEF ToolInv, ItemShapes, ItemFields

\* A call takes another place in the course of things.
Becomes(i, t) == items' = [items EXCEPT ![i] = t] /\ t.call = items[i].call
LEMMA MoveKinds ==
  ASSUME ToolInv, NEW i \in Index, NEW o, NEW st
  PROVE  /\ Finish(i, o) \/ TurnDown(i, o) => \E t : Becomes(i, t) /\ t.st = "done"
         /\ Set(i, st) => \E t : Becomes(i, t) /\ t.st = st
         /\ Attempted(i, o) => \E t : Becomes(i, t) /\ t.st \in {"done", "submit"}
<1>1. ASSUME Finish(i, o) PROVE \E t : Becomes(i, t) /\ t.st = "done"
  <2> DEFINE t == [items[i] EXCEPT !.st = "done", !.out = o]
  <2>1. items' = [items EXCEPT ![i] = t]  BY <1>1 DEF Finish
  <2>2. t.call = items[i].call /\ t.st = "done"  BY MoveFields, Moves
  <2> HIDE DEF t
  <2> QED BY <2>1, <2>2 DEF Becomes
<1>2. ASSUME TurnDown(i, o) PROVE \E t : Becomes(i, t) /\ t.st = "done"
  <2> DEFINE t == [items[i] EXCEPT !.st = "done", !.out = o, !.rejected = TRUE]
  <2>1. items' = [items EXCEPT ![i] = t]  BY <1>2 DEF TurnDown
  <2>2. t.call = items[i].call /\ t.st = "done"  BY MoveFields, Moves
  <2> HIDE DEF t
  <2> QED BY <2>1, <2>2 DEF Becomes
<1>3. ASSUME Set(i, st) PROVE \E t : Becomes(i, t) /\ t.st = st
  <2> DEFINE t == [items[i] EXCEPT !.st = st]
  <2>1. items' = [items EXCEPT ![i] = t]  BY <1>3 DEF Set, ToolInv, ItemShapes
  <2>2. t.call = items[i].call /\ t.st = st  BY MoveFields, Moves
  <2> HIDE DEF t
  <2> QED BY <2>1, <2>2 DEF Becomes
<1>4. Attempted(i, o) => \E t : Becomes(i, t) /\ t.st \in {"done", "submit"}
  <2>1. Attempted(i, o) => Finish(i, o) \/ Becomes(i, [items[i] EXCEPT !.st = "submit", !.attempt = items[i].attempt + 1])
    BY MoveFields DEF Attempted, Becomes
  <2>2. [items[i] EXCEPT !.st = "submit", !.attempt = items[i].attempt + 1].st = "submit"  BY MoveFields
  <2> QED BY <1>1, <2>1, <2>2
<1> QED BY <1>1, <1>2, <1>3, <1>4

\* A call moves that the pool has nothing with effects of, or the task is
\* cancelled.
LEMMA MoveAlone ==
  ASSUME TurnInv, ToolInv', Leaves, NEW i \in Index, NEW t, Becomes(i, t),
         UNCHANGED <<task, batches, stop, phase, how>>,
         stop \/ (\A k \in DOMAIN work' : OfItem(k, i) => ~ (work[k].task = task /\ HasEffects(k))),
         phase = "prepare" => t.st \in {"ready", "done"},
         phase = "dispatch" => t.st \in {"submit", "wait", "done"},
         t.st \in {"submit", "wait"} =>
             /\ how # "batch" /\ items[i].st # "done"
             /\ how = "serial" => UnderWay(i) \/ \A j \in Index : j < i => items[j].st = "done"
  PROVE  TurnInv'
<1>1. items' = [items EXCEPT ![i] = t] /\ t.call = items[i].call  BY DEF Becomes
<1>2. /\ Stages' /\ InTurn'
      /\ Index' = Index /\ \A j \in Index : items'[j] = IF j = i THEN t ELSE items[j]
  BY <1>1, CallMoves
<1>3. Attended'  BY <1>2, StaysAttended
<1> QED BY <1>2, <1>3, PoolKeeps DEF TurnInv

-----------------------------------------------------------------------------
(* The steps.                                                              *)
\* A batch arrives: nothing with effects of the task is in the pool.
LEMMA ReceiveTurn == ASSUME TurnInv, ToolInv', NEW b \in Batches, NEW s, Receive(b, s) PROVE TurnInv'
<1>1. /\ phase = "idle" /\ phase' = "prepare" /\ ~ stop /\ UNCHANGED <<task, stop, how, work>>
      /\ items' = [i \in DOMAIN b |-> [call |-> b[i], st |-> "new", out |-> "none", attempt |-> 1,
                                       rejected |-> FALSE]]
  BY DEF Receive
<1>2. Index' = DOMAIN b /\ \A i \in Index' : items'[i].st = "new"  BY <1>1 DEF Index
<1>3. DOMAIN b \subseteq Nat \ {0}
  <2>1. b \in Seq(Calls)  BY ToolAssumption
  <2>2. DOMAIN b = 1 .. Len(b) /\ Len(b) \in Nat  BY <2>1
  <2> QED BY <2>2
<1>4. Stages'  BY <1>1, <1>2, <1>3 DEF TurnInv, Stages
<1>5. InTurn'  BY <1>1 DEF InTurn
<1>6. Leaves  BY <1>1, LeavesWays
<1>7. Attended'
  <2>1. \A k \in DOMAIN work : ~ (work[k].task = task /\ HasEffects(k))
    BY <1>1 DEF TurnInv, Attended, WaitedFor, Stages
  <2> QED BY <1>1, <2>1 DEF Attended, HasEffects
<1> QED BY <1>1, <1>4, <1>5, <1>6, <1>7, PoolKeeps DEF TurnInv

\* While a batch is prepared none of its calls is in the pool.
LEMMA PrepareTurn == ASSUME TurnInv, ToolInv', Prepare PROVE TurnInv'
<1>1. PICK i \in InState("new") : (\E o : TurnDown(i, o)) \/ Set(i, "ready")  BY DEF Prepare
<1>2. i \in Index /\ items[i].st = "new"  BY DEF InState
<1>3. phase = "prepare" /\ UNCHANGED <<task, batches, stop, phase, how, work>>  BY DEF Prepare
<1>4. \A k \in DOMAIN work : ~ OfItem(k, i)  BY <1>2, NothingOf DEF TurnInv
<1>5. PICK t : Becomes(i, t) /\ t.st \in {"ready", "done"}  BY <1>1, <1>2, MoveKinds DEF TurnInv
<1>6. Leaves  BY <1>3, LeavesWays
<1> QED BY <1>2, <1>3, <1>4, <1>5, <1>6, MoveAlone

\* Only calls without effects are dispatched together.
LEMMA DecideTurn == ASSUME TurnInv, ToolInv', Decide PROVE TurnInv'
<1>1. phase = "prepare" /\ phase' = "dispatch" /\ UNCHANGED <<task, batches, stop, items, work>> /\ InState("new") = {}
  BY DEF Decide
<1>2. Index' = Index /\ \A i \in Index : items[i].st \in {"ready", "done"}
  BY <1>1 DEF TurnInv, Stages, InState, Index
<1>3. how' \in {"serial", "parallel", "batch"}  BY DEF Decide
<1>4. how' # "serial" => CanBatch(InState("ready")) \/ CanParallelize(InState("ready"))  BY DEF Decide
<1>5. ASSUME how' # "serial", NEW i \in Index PROVE items[i].st = "done" \/ PolicyAt(i).pure
  <2>1. CASE items[i].st = "done"  BY <2>1
  <2>2. CASE items[i].st = "ready"
    <3>1. i \in InState("ready")  BY <2>2 DEF InState
    <3> QED BY <1>4, <1>5, <3>1 DEF CanBatch, CanParallelize
  <2> QED BY <1>2, <2>1, <2>2
<1>6. Stages'  BY <1>1, <1>2, <1>3 DEF TurnInv, Stages
<1>7. InTurn'
  <2>1. \A i \in Index : PolicyAt(i)' = PolicyAt(i)  BY <1>1 DEF PolicyAt
  <2> QED BY <1>1, <1>2, <1>5, <2>1 DEF InTurn, UnderWay
<1>8. Leaves  BY <1>1, LeavesWays
<1>9. Attended'
  <2>1. Attended  BY DEF TurnInv
  <2> QED BY <1>1, <1>2, <2>1 DEF Attended, HasEffects, WaitedFor
<1> QED BY <1>1, <1>6, <1>7, <1>8, <1>9, PoolKeeps DEF TurnInv

\* run_batch takes no place in the pool; when it is refused, no call of the
\* batch is under way.
LEMMA DispatchBatchTurn == ASSUME TurnInv, ToolInv', DispatchBatch PROVE TurnInv'
<1>1. phase = "dispatch" /\ how = "batch" /\ UNCHANGED <<task, batches, stop, phase, work>>  BY DEF DispatchBatch
<1>2. \A i \in Index : items[i].st \in {"ready", "done"} /\ (items[i].st = "done" \/ PolicyAt(i).pure)
  BY <1>1 DEF TurnInv, Stages, InTurn, UnderWay
<1>3. /\ Index' = Index /\ how' \in {"batch", "serial"}
      /\ \A i \in Index : items'[i].st \in {"ready", "done"}
                          /\ (items'[i].st = "done" \/ (PolicyAt(i)').pure)
  <2>1. CASE UNCHANGED items /\ how' \in {"batch", "serial"}
    BY <1>2, <2>1 DEF Index, PolicyAt
  <2>2. ASSUME NEW o, items' = [i \in Index |-> IF items[i].st # "ready" THEN items[i]
                                                ELSE [items[i] EXCEPT !.st = "done", !.out = o]], how' = how
        PROVE  /\ Index' = Index /\ how' \in {"batch", "serial"}
               /\ \A i \in Index : items'[i].st = "done"
    <3>1. Index' = Index  BY <2>2 DEF Index
    <3>2. ASSUME NEW i \in Index PROVE items'[i].st = "done"
      <4>1. CASE items[i].st # "ready"  BY <1>2, <2>2, <4>1
      <4>2. CASE items[i].st = "ready"
        <5>1. items'[i] = [items[i] EXCEPT !.st = "done", !.out = o]  BY <2>2, <4>2
        <5> QED BY <5>1, Moves DEF TurnInv
      <4> QED BY <4>1, <4>2
    <3> QED BY <1>1, <2>2, <3>1, <3>2
  <2>3. (UNCHANGED items /\ how' \in {"batch", "serial"})
        \/ \E o : /\ items' = [i \in Index |-> IF items[i].st # "ready" THEN items[i]
                                                ELSE [items[i] EXCEPT !.st = "done", !.out = o]]
                  /\ how' = how
    BY DEF DispatchBatch
  <2> QED BY <2>1, <2>2, <2>3
<1>4. Stages'  BY <1>1, <1>3 DEF TurnInv, Stages
<1>5. InTurn'  BY <1>1, <1>3 DEF InTurn, UnderWay
<1>6. Leaves  BY <1>1, LeavesWays
<1>7. Attended'
  <2>1. ~ stop => \A k \in DOMAIN work : ~ (work[k].task = task /\ HasEffects(k))
    BY <1>2 DEF TurnInv, Attended, WaitedFor
  <2> QED BY <1>1, <2>1 DEF Attended, HasEffects
<1> QED BY <1>1, <1>4, <1>5, <1>6, <1>7, PoolKeeps DEF TurnInv

\* A call is dispatched when those before it are done, if it is one by one.
LEMMA DispatchTurn == ASSUME TurnInv, ToolInv', NEW i \in Index, Dispatch(i) PROVE TurnInv'
<1>1. /\ phase = "dispatch" /\ how # "batch" /\ items[i].st = "ready"
      /\ UNCHANGED <<task, batches, stop, phase, how, work>>
      /\ Set(i, "submit") \/ \E o : Finish(i, o)
  BY DEF Dispatch
<1>2. \A k \in DOMAIN work : ~ OfItem(k, i)  BY <1>1, NothingOf DEF TurnInv
<1>3. PICK t : Becomes(i, t) /\ t.st \in {"submit", "done"}  BY <1>1, MoveKinds DEF TurnInv
<1>4. Leaves  BY <1>1, LeavesWays
<1>5. how = "serial" => \A j \in Index : j < i => items[j].st = "done"
  <2>1. Index \subseteq Nat \ {0}  BY DEF TurnInv, Stages
  <2>2. ASSUME NEW j \in Index, j < i PROVE j \in 1 .. i - 1
    <3>1. i \in Nat /\ j \in Nat \ {0}  BY <2>1
    <3> QED BY <2>2, <3>1
  <2> QED BY <2>2 DEF Dispatch
<1> QED BY <1>1, <1>2, <1>3, <1>4, <1>5, MoveAlone

\* A call that is retried or ends: of what is left in the pool nothing is its.
LEMMA AttemptedTurn ==
  ASSUME TurnInv, ToolInv', Leaves, NEW i \in Index, NEW o, Attempted(i, o), phase = "dispatch", UnderWay(i),
         UNCHANGED <<task, batches, stop, phase, how>>, \A k \in DOMAIN work' : ~ OfItem(k, i)
  PROVE  TurnInv'
<1>1. PICK t : Becomes(i, t) /\ t.st \in {"submit", "done"}  BY MoveKinds DEF TurnInv
<1>2. items[i].st # "done" /\ how # "batch"  BY DEF TurnInv, InTurn, UnderWay
<1> QED BY <1>1, <1>2, MoveAlone

\* The only step that adds to the pool.  A call with effects is submitted when
\* its turn has come, and then the task has nothing with effects in the pool:
\* it would be waited for.
LEMMA SubmitTurn == ASSUME TurnInv, ToolInv', NEW i \in Index, Submit(i) PROVE TurnInv'
<1>1. phase = "dispatch" /\ items[i].st = "submit" /\ UnderWay(i) /\ UNCHANGED <<task, batches, stop, phase, how>>
  BY DEF Submit, UnderWay
<1>2. \A k \in DOMAIN work : ~ OfItem(k, i)  BY <1>1, NothingOf DEF TurnInv
<1>3. ASSUME UNCHANGED work, (\E o : Finish(i, o)) \/ \E o : Attempted(i, o) PROVE TurnInv'
  <2>1. Leaves  BY <1>3, LeavesWays
  <2>2. PICK t : Becomes(i, t) /\ t.st \in {"submit", "done"}  BY <1>3, MoveKinds DEF TurnInv
  <2>3. how # "batch"  BY <1>1 DEF TurnInv, InTurn
  <2> QED BY <1>1, <1>2, <1>3, <2>1, <2>2, <2>3, MoveAlone
<1>4. ASSUME ~ stop, Set(i, "wait"),
             work' = [k \in DOMAIN work \cup {Key(i)} |->
                        IF k # Key(i) THEN work[k] ELSE [st |-> "queued", call |-> items[i].call, task |-> task]]
      PROVE  TurnInv'
  <2>1. PICK t : Becomes(i, t) /\ t.st = "wait"  BY <1>4, MoveKinds DEF TurnInv
  <2>2. items' = [items EXCEPT ![i] = t] /\ t.call = items[i].call  BY <2>1 DEF Becomes
  <2>3. how # "batch"  BY <1>1 DEF TurnInv, InTurn
  <2>4. /\ Stages' /\ InTurn'
        /\ Index' = Index /\ \A j \in Index : items'[j] = IF j = i THEN t ELSE items[j]
    BY <1>1, <2>1, <2>2, <2>3, CallMoves
  <2>0. PICK n : n = Key(i)  OBVIOUS
  <2>5. n \notin DOMAIN work /\ n[1] = batches /\ n[2] = i  BY <1>2, <2>0 DEF Key, OfItem
  <2>6. DOMAIN work' = DOMAIN work \cup {n} /\ \A k \in DOMAIN work : work'[k] = work[k]
    BY <1>4, <2>0, <2>5
  <2>7. work'[n] = [st |-> "queued", call |-> items[i].call, task |-> task]  BY <1>4, <2>0
  <2>8. WorkShapes'
    <3>1. DOMAIN work'[n] = WorkFields /\ work'[n].task = task  BY <2>7 DEF WorkFields
    <3>2. work' = [k \in DOMAIN work' |-> work'[k]]  BY <1>4
    <3> QED BY <1>1, <2>6, <3>1, <3>2 DEF TurnInv, WorkShapes
  <2>9. \A k \in DOMAIN work : HasEffects(k)' <=> HasEffects(k)  BY <2>6 DEF HasEffects
  <2>10. HasEffects(n)' => ~ PolicyAt(i).pure  BY <2>7 DEF HasEffects, PolicyAt
  <2>11. \A k \in DOMAIN work : work[k].task = task /\ HasEffects(k) => WaitedFor(k)
    BY <1>4 DEF TurnInv, Attended
  <2>12. Attended'
    <3> SUFFICES ASSUME NEW k \in DOMAIN work', work'[k].task = task, HasEffects(k)'
                 PROVE  WaitedFor(k)'
      BY <1>1 DEF Attended
    <3>1. CASE k = n  BY <1>1, <2>1, <2>2, <2>4, <2>5, <2>7, <3>1 DEF WaitedFor
    <3>2. CASE k # n
      <4>1. k \in DOMAIN work /\ WaitedFor(k) /\ work'[k] = work[k]  BY <2>6, <2>9, <2>11, <3>2
      <4>2. k[2] # i  BY <1>2, <4>1 DEF WaitedFor, OfItem
      <4> QED BY <1>1, <2>4, <4>1, <4>2 DEF WaitedFor
    <3> QED BY <3>1, <3>2
  <2>13. ASSUME ~ PolicyAt(i).pure, NEW k \in DOMAIN work, work[k].task = task, HasEffects(k) PROVE FALSE
    <3>1. WaitedFor(k)  BY <2>11, <2>13
    <3> DEFINE j == k[2]
    <3>2. j \in Index /\ items[j].st = "wait" /\ ~ PolicyAt(j).pure
      BY <2>13, <3>1 DEF WaitedFor, HasEffects, PolicyAt
    <3>3. j # i  BY <1>1, <3>2
    <3>4. how = "serial"
      <4>1. how # "serial" => items[i].st = "done" \/ PolicyAt(i).pure  BY <1>1 DEF TurnInv, InTurn
      <4> QED BY <1>1, <2>13, <4>1
    <3>5. i \in Nat /\ j \in Nat  BY <3>2 DEF TurnInv, Stages
    <3>6. UnderWay(j)  BY <3>2 DEF UnderWay
    <3> HIDE DEF j
    <3>7. \A a, b \in Index : UnderWay(a) /\ b < a => items[b].st = "done"
      BY <1>1, <3>4 DEF TurnInv, InTurn
    <3>8. CASE j < i  BY <1>1, <3>2, <3>7, <3>8
    <3>9. CASE i < j  BY <1>1, <3>2, <3>6, <3>7, <3>9
    <3> QED BY <3>3, <3>5, <3>8, <3>9
  <2>14. OneWithEffects'
    <3> SUFFICES ASSUME NEW k \in DOMAIN work', NEW l \in DOMAIN work', work'[k].task = work'[l].task,
                        HasEffects(k)', HasEffects(l)'
                 PROVE  k = l
      BY DEF OneWithEffects
    <3>1. CASE k \in DOMAIN work /\ l \in DOMAIN work
      <4>1. work[k].task = work[l].task /\ HasEffects(k) /\ HasEffects(l)  BY <2>6, <2>9, <3>1
      <4> QED BY <3>1, <4>1 DEF TurnInv, OneWithEffects
    <3>2. CASE k = n /\ l \in DOMAIN work
      <4>1. work[l].task = task /\ HasEffects(l) /\ ~ PolicyAt(i).pure  BY <2>6, <2>7, <2>9, <2>10, <3>2
      <4> QED BY <2>13, <3>2, <4>1
    <3>3. CASE l = n /\ k \in DOMAIN work
      <4>1. work[k].task = task /\ HasEffects(k) /\ ~ PolicyAt(i).pure  BY <2>6, <2>7, <2>9, <2>10, <3>3
      <4> QED BY <2>13, <3>3, <4>1
    <3> QED BY <2>6, <3>1, <3>2, <3>3
  <2> QED BY <2>4, <2>8, <2>12, <2>14 DEF TurnInv
<1> QED BY <1>3, <1>4 DEF Submit

\* An execution begins: it keeps its task and its call.
LEMMA StartTurn == ASSUME TurnInv, ToolInv', NEW k \in DOMAIN work, StartWork(k) PROVE TurnInv'
<1>1. work' = [work EXCEPT ![k].st = "running"]  BY DEF StartWork
<1>2. Leaves
  <2>1. DOMAIN work' = DOMAIN work /\ work' = [x \in DOMAIN work' |-> work'[x]]  BY <1>1
  <2>2. ASSUME NEW x \in DOMAIN work
        PROVE  DOMAIN work'[x] = WorkFields /\ work'[x].task = work[x].task /\ work'[x].call = work[x].call
    <3>1. CASE x # k  BY <1>1, <3>1 DEF TurnInv, WorkShapes
    <3>2. CASE x = k
      <4>1. work'[k] = [work[k] EXCEPT !.st = "running"]  BY <1>1
      <4> QED BY <3>2, <4>1 DEF TurnInv, WorkShapes, WorkFields
    <3> QED BY <3>1, <3>2
  <2> QED BY <2>1, <2>2 DEF Leaves
<1>3. UNCHANGED <<task, batches, items, phase, how, stop>>  BY DEF StartWork
<1> QED BY <1>2, <1>3, NoMove

\* What returns had a call to itself, which may be submitted again.
LEMMA ReturnTurn == ASSUME TurnInv, ToolInv', NEW k \in DOMAIN work, ReturnWork(k) PROVE TurnInv'
<1>1. work' = Without(k) /\ DOMAIN work' = DOMAIN work \ {k} /\ UNCHANGED <<task, batches, stop, phase, how>>
  BY DEF ReturnWork, Without
<1>2. Leaves  BY <1>1, LeavesWays
<1>3. CASE ~ Awaited(k)
  <2>1. UNCHANGED items  BY <1>3 DEF ReturnWork
  <2> QED BY <1>1, <1>2, <2>1, NoMove
<1>4. CASE Awaited(k)
  <2>1. PICK o : Attempted(k[2], o)  BY <1>4 DEF ReturnWork
  <2>2. k[2] \in Index /\ k[1] = batches /\ items[k[2]].st = "wait"  BY <1>4 DEF Awaited, InState
  <2>3. \A l \in DOMAIN work' : ~ OfItem(l, k[2])
    BY <1>1, <2>2 DEF TurnInv, ToolInv, OneLiveAttempt, OfItem
  <2>4. phase = "dispatch"  BY <2>2 DEF TurnInv, Stages
  <2> QED BY <1>1, <1>2, <2>1, <2>2, <2>3, <2>4, AttemptedTurn DEF UnderWay
<1> QED BY <1>3, <1>4

\* A call is given up because the task is cancelled, or because it took too
\* long, and then it has no effects.
LEMMA AbandonTurn ==
  ASSUME TurnInv, ToolInv', NEW i \in Index, Timeout(i) \/ SeeStop(i)
  PROVE  TurnInv'
<1>1. PICK o : Abandon(i, o)  BY DEF Timeout, SeeStop
<1>2. items[i].st = "wait" /\ Finish(i, o) /\ UNCHANGED <<task, batches, stop, phase, how>>  BY <1>1 DEF Abandon
<1>3. Leaves
  <2>1. CASE UNCHANGED work  BY <2>1, LeavesWays
  <2>2. CASE work' = Without(Key(i)) /\ Key(i) \in DOMAIN work  BY <2>2, LeavesWays
  <2>3. CASE work' = Without(Key(i)) /\ Key(i) \notin DOMAIN work
    <3>1. UNCHANGED work  BY <2>3 DEF TurnInv, WorkShapes, Without
    <3> QED BY <3>1, LeavesWays
  <2> QED BY <1>1, <2>1, <2>2, <2>3 DEF Abandon
<1>4. PICK t : Becomes(i, t) /\ t.st = "done"  BY <1>2, MoveKinds DEF TurnInv
<1>5. stop \/ \A k \in DOMAIN work' : OfItem(k, i) => ~ (work[k].task = task /\ HasEffects(k))
  <2>1. CASE Timeout(i)
    <3>1. Policy[items[i].call].pure  BY <2>1 DEF Timeout, TimeLimited
    <3> SUFFICES ASSUME ~ stop, NEW k \in DOMAIN work', OfItem(k, i), work[k].task = task, HasEffects(k)
                 PROVE  FALSE
      OBVIOUS
    <3>2. k \in DOMAIN work  BY <1>3 DEF Leaves
    <3>3. WaitedFor(k)  BY <3>2 DEF TurnInv, Attended
    <3> QED BY <3>1, <3>3 DEF WaitedFor, HasEffects, OfItem
  <2>2. CASE SeeStop(i)  BY <2>2 DEF SeeStop
  <2> QED BY <2>1, <2>2
<1>6. phase = "dispatch"  BY <1>2 DEF TurnInv, Stages
<1> QED BY <1>2, <1>3, <1>4, <1>5, <1>6, MoveAlone

\* A batch ends when all its calls are done: none is waited for.
LEMMA TurnIsRecorded == ASSUME TurnInv, ToolInv', Record PROVE TurnInv'
<1>1. /\ phase' = "idle" /\ how' = "serial" /\ items' = <<>> /\ UNCHANGED <<task, batches, stop, work>>
      /\ \A i \in Index : items[i].st = "done"
  BY DEF Record
<1>2. Index' = {}  BY <1>1 DEF Index
<1>3. Stages' /\ InTurn'  BY <1>1, <1>2 DEF Stages, InTurn
<1>4. Leaves  BY <1>1, LeavesWays
<1>5. Attended'
  <2>1. ~ stop => \A k \in DOMAIN work : ~ (work[k].task = task /\ HasEffects(k))
    BY <1>1 DEF TurnInv, Attended, WaitedFor
  <2> QED BY <1>1, <2>1 DEF Attended, HasEffects
<1> QED BY <1>1, <1>3, <1>4, <1>5, PoolKeeps DEF TurnInv

\* The next prompt has nothing in the pool yet.
LEMMA NextTaskTurn == ASSUME TurnInv, ToolInv', NextTask PROVE TurnInv'
<1>1. phase = "idle" /\ task' = task + 1 /\ UNCHANGED <<batches, phase, items, how, work>>  BY DEF NextTask
<1>2. Index' = Index  BY <1>1 DEF Index
<1>3. Stages' /\ InTurn'  BY <1>1, <1>2 DEF TurnInv, Stages, InTurn
<1>4. WorkShapes'  BY <1>1 DEF TurnInv, WorkShapes
<1>5. \A k \in DOMAIN work : work[k].task # task'  BY <1>1 DEF TurnInv, WorkShapes
<1>6. Attended'  BY <1>1, <1>5 DEF Attended
<1>7. OneWithEffects'  BY <1>1 DEF TurnInv, OneWithEffects, HasEffects
<1> QED BY <1>3, <1>4, <1>6, <1>7 DEF TurnInv

\* No step breaks the invariant.
LEMMA TurnInvStep == ASSUME TurnInv, [ToolNext]_toolvars PROVE TurnInv'
<1>0. ToolInv'  BY ToolInvStep DEF TurnInv
<1>1. CASE UNCHANGED toolvars \/ ServiceFlips \/ StopTools
  <2>1. UNCHANGED <<task, batches, items, phase, how, work>> /\ (stop => stop')
    BY <1>1 DEF toolvars, ServiceFlips, StopTools
  <2> QED BY <1>0, <2>1, LeavesWays, NoMove
<1>2. CASE \E b \in Batches, s \in {"batch", "run"} : Receive(b, s)  BY <1>0, <1>2, ReceiveTurn
<1>3. CASE Prepare \/ Decide \/ DispatchBatch \/ Record \/ NextTask
  BY <1>0, <1>3, PrepareTurn, DecideTurn, DispatchBatchTurn, TurnIsRecorded, NextTaskTurn
<1>4. CASE \E i \in Index : Dispatch(i) \/ Submit(i) \/ Timeout(i) \/ SeeStop(i)
  BY <1>0, <1>4, DispatchTurn, SubmitTurn, AbandonTurn
<1>5. CASE \E k \in DOMAIN work : StartWork(k) \/ ReturnWork(k)
  BY <1>0, <1>5, StartTurn, ReturnTurn
<1> QED BY <1>1, <1>2, <1>3, <1>4, <1>5 DEF ToolNext, ToolStep

\* Within a task one tool with effects runs at a time, for any batches,
\* policies, pools, retries, timeouts and cancellations.
THEOREM EffectsRunAlone == ToolSpec => []EffectsAlone
<1>1. TurnInv /\ [ToolNext]_toolvars => TurnInv'  BY TurnInvStep
<1>2. TurnInv => EffectsAlone  BY DEF TurnInv, OneWithEffects, HasEffects, EffectsAlone, Running
<1> QED BY TurnInvInit, <1>1, <1>2, PTL DEF ToolSpec

(***************************************************************************)
(* The loop of the agent.                                                  *)
(*                                                                         *)
(* A run is between two replies or handling the calls of one, and its      *)
(* steps are of three forms: a call gets its result (Handled), the run     *)
(* goes on between two replies (Moved), or it ends (Quit).  The calls      *)
(* executed in advance differ from those before them, are not noted yet    *)
(* and fit within the fuse, so that no later check turns one of them down  *)
(* while its result is there; only the registry's refusal does, and then   *)
(* the result is counted as dropped.                                       *)
(***************************************************************************)
\* Where the loop is.
Handling == {"batch", "check", "work"}
Between == {"turn", "ask", "review", "fallback", "replan"}

CountsCalls(k) == {"calls", "prints"} \subseteq DOMAIN k /\ k.calls \in Nat
IsTalk(m) == {"pending", "paired", "broken", "last", "own"} \subseteq DOMAIN m /\ m.pending \in Int

LoopPlaced ==
    /\ at \in {"idle"} \cup Between \cup Handling
    /\ uses \in Seq(LoopCalls) /\ pos \in Nat /\ DOMAIN early \subseteq 1 .. Len(uses)
    /\ at = "batch" => pos = 1 /\ uses # <<>> /\ early = <<>>
    /\ at \in {"check", "work"} => pos \in 1 .. Len(uses)
    /\ at \notin Handling => \A i \in DOMAIN early : i < pos
    /\ CountsCalls(ctr) /\ IsTalk(msgs)
    /\ at = "idle" => log.ran = <<>>
    /\ {"ran", "dropped"} \subseteq DOMAIN log /\ log.ran \in Seq(LoopCalls) /\ log.dropped \in Nat

\* The uses of the reply that have no result yet.
Unanswered ==
    IF at = "batch" THEN Len(uses) ELSE IF at \in {"check", "work"} THEN Len(uses) - pos + 1 ELSE 0
Answered == q.blocks \/ at = "idle" => msgs.pending = Unanswered /\ ~ msgs.broken

\* A call that must not be executed twice.
Once(c) == ~ IsPlan(c) /\ Tools[Name(c)].makes # "pptx"

\* What was executed in advance and has not been looked at: these calls are all different from
\* those before them, have not been noted, and are within the limit of calls.
Ahead == {i \in DOMAIN early : i >= pos /\ (at = "work" => i # pos)}
EarlyApart == \A i \in DOMAIN early : ~ IsPlan(uses[i]) /\ \A j \in 1 .. i - 1 : uses[j] # uses[i]
EarlyUnseen ==
    /\ \A i \in Ahead : uses[i] \notin ctr.prints
    /\ Ahead # {} => ctr.calls + Len(uses) - pos + (IF at = "work" THEN 0 ELSE 1) <= Limits.fuse

\* What was executed is noted, or still ahead.
RanNoted ==
    log.dropped = 0 => \A n \in DOMAIN log.ran : Once(log.ran[n]) =>
        log.ran[n] \in ctr.prints \/ \E i \in Ahead : uses[i] = log.ran[n]

\* The requirements are those of the request, and the plan.
Owed == at # "idle" => DOMAIN con \subseteq RequiredOutputs(q) \cup {"evidence", "plan"}

LoopInv ==
    /\ NoRepeat /\ ContractGate
    /\ at # "over" =>
         LoopPlaced /\ Answered /\ EarlyApart /\ EarlyUnseen /\ RanNoted /\ Owed /\ end.how = "none"

-----------------------------------------------------------------------------
\* The forms of the steps.
SameCounts(k, n) == {"calls", "prints"} \subseteq DOMAIN n /\ n.calls = k.calls /\ n.prints = k.prints

\* The call has its result, or is turned down, and the next one comes.
Handled ==
    /\ at \in {"check", "work"} /\ NextUse /\ msgs' = Noted /\ SameCounts(ctr, ctr')
    /\ UNCHANGED <<q, uses, early, end>>
    /\ \/ log' = log /\ (at = "work" \/ pos \notin DOMAIN early)
       \/ pos \in DOMAIN early /\ log' = [log EXCEPT !.dropped = @ + 1]

\* The run goes on between two replies.
Moved ==
    /\ at \in Between /\ at' \in Between /\ UNCHANGED <<q, uses, pos, early, end>>
    /\ CountsCalls(ctr') /\ ctr'.prints = ctr.prints
    /\ IsTalk(msgs') /\ msgs'.pending \in {msgs.pending, 0} /\ msgs'.broken = msgs.broken
    /\ log' = log \/ (\E list \in {log.ran, Append(log.ran, Maker)} : log' = [log EXCEPT !.ran = list])

\* The run is over; an answer that leaves outputs open says so, or comes in the middle of a reply.
Quit ==
    /\ at' = "over"
    /\ log' = log \/ (\E list \in {log.ran, Append(log.ran, Maker)} : log' = [log EXCEPT !.ran = list])
    /\ ContractGate'

\* The counters of calls and fingerprints are not changed by the tallies of a result.
LEMMA CountsStay ==
  ASSUME NEW k, {"calls", "prints"} \subseteq DOMAIN k, NEW c, NEW r
  PROVE  /\ SameCounts(k, Failed(k, c)) /\ SameCounts(k, Tallied(k, r)) /\ SameCounts(k, WebTally(k, r))
<1>1. ASSUME NEW n, {"calls", "prints"} \subseteq DOMAIN n, NEW d PROVE SameCounts(n, Failed(n, d))
  BY <1>1 DEF SameCounts, Failed
<1>2. SameCounts(k, Tallied(k, r))  BY DEF SameCounts, Tallied
<1>3. SameCounts(k, WebTally(k, r))
  <2> DEFINE f == Family(Current)
             bad == r.error \/ (f = "websearch" /\ r.rows = <<>>)
             n == IF bad /\ (f \in {"websearch", "webfetch"} \/ Unwell(r)) THEN Failed(k, Current) ELSE k
  <2>1. SameCounts(k, n)  BY <1>1 DEF SameCounts
  <2>2. WebTally(k, r) = [n EXCEPT !.searchFails = IF f # "websearch" THEN @ ELSE IF bad THEN @ + 1 ELSE 0,
                                   !.searchBlocked = IF bad THEN @ ELSE 0,
                                   !.urls = IF f = "webfetch" THEN @ \cup {Url[Current]} ELSE @]
    BY DEF WebTally
  <2> HIDE DEF n, bad, f
  <2> QED BY <2>1, <2>2 DEF SameCounts
<1> QED BY <1>1, <1>2, <1>3

\* What the checks say of a call.
LEMMA Verdicts ==
  ASSUME NEW c
  PROVE  /\ Verdict(c) = "go" => IsPlan(c) \/ c \notin ctr.prints
         /\ Verdict(c) = "repeated" => ~ IsPlan(c) /\ c \in ctr.prints
         /\ Verdict(c) = "fuse" => ~ IsPlan(c) /\ ctr.calls >= Limits.fuse
         /\ Verdict(c) \in {"disabled", "failing", "fetched", "offline"} => pos \notin DOMAIN early
BY DEF Verdict

\* The shapes of the conversation.
LEMMA TalkShapes ==
  ASSUME IsTalk(msgs)
  PROVE  /\ IsTalk(AnswerUse(msgs)) /\ AnswerUse(msgs).pending = msgs.pending - 1
         /\ AnswerUse(msgs).broken = msgs.broken
         /\ \A n \in Nat : IsTalk(Say(msgs, n)) /\ Say(msgs, n).pending = n /\ Say(msgs, n).broken = msgs.broken
<1>1. ASSUME NEW n \in Nat PROVE IsTalk(Say(msgs, n)) /\ Say(msgs, n).pending = n /\ Say(msgs, n).broken = msgs.broken
  BY <1>1 DEF IsTalk, Say
<1> QED BY <1>1 DEF IsTalk, AnswerUse

\* The ways to end a run.
LEMMA Finalizes ==
  ASSUME NEW a, NEW why, NEW m, NEW c, NEW cs, Finalize(a, why, m, c, cs)
  PROVE  at' = "over" /\ (why # "none" => end'.why = why)
BY DEF Finalize

\* What is left of the outputs when nothing is required, or all is satisfied.
LEMMA NothingOwed ==
  ASSUME NEW c, DOMAIN c \subseteq RequiredOutputs(q) \cup {"evidence", "plan"}, ~ Required \/ Satisfied(c)
  PROVE  OpenOutputs(c) = {}
BY DEF Required, Satisfied, OpenOutputs, Open

\* Requirements are added by a plan only.
LEMMA OwedStays ==
  ASSUME NEW c, NEW r, NEW x, NEW y
  PROVE  /\ DOMAIN FromToolResult(c, r, q) = DOMAIN c /\ DOMAIN FromEvidence(c, x) = DOMAIN c
         /\ DOMAIN PlanCompletion(c, y) \subseteq DOMAIN c \cup {"plan"}
         /\ DOMAIN FromRequest(x) \subseteq RequiredOutputs(x) \cup {"evidence"}
BY DEF FromToolResult, FromEvidence, PlanCompletion, FromRequest

\* An action that takes the next use.
LEMMA HandlesUse ==
  ASSUME LoopPlaced, EarlyUnseen
  PROVE  /\ RefuseUse => Handled
         /\ RejectUse => Handled \/ Quit
         /\ \A r : TakeException(r) => Handled
         /\ \A r : TakeResult(r) => Handled
<1>0. CountsCalls(ctr) /\ {"calls", "prints"} \subseteq DOMAIN ctr  BY DEF LoopPlaced, CountsCalls
<1>1. ASSUME RefuseUse PROVE Handled
  <2>1. SameCounts(ctr, ctr')  BY <1>0, <1>1 DEF RefuseUse, Reject, SameCounts
  <2>2. at = "check" /\ NextUse /\ msgs' = Noted /\ UNCHANGED <<q, uses, early, end>>
        /\ log' = (IF pos \in DOMAIN early THEN [log EXCEPT !.dropped = @ + 1] ELSE log)
    BY <1>1 DEF RefuseUse, Checking, Reject, stable, gains
  <2> QED BY <2>1, <2>2 DEF Handled
<1>2. ASSUME RejectUse PROVE Handled \/ Quit
  <2>0. at = "check" /\ UNCHANGED <<q, uses, early, con, log>>
    BY <1>2 DEF RejectUse, RejectDisabled, RejectRepeated, RejectFailing, RejectPage, RejectSearch,
       Checking, stable, gains
  <2>1. CASE RejectDisabled
    BY <1>0, <2>0, <2>1, Verdicts DEF RejectDisabled, Checking, Reject, Handled, SameCounts
  <2>2. CASE RejectFailing
    <3>1. SameCounts(ctr, ctr')  BY <1>0, <2>2, CountsStay DEF RejectFailing, Reject
    <3> QED BY <2>0, <2>2, <3>1, Verdicts DEF RejectFailing, Checking, Reject, Handled
  <2>3. CASE RejectRepeated
    <3>1. SameCounts(ctr, ctr')
      BY <1>0, <2>3 DEF RejectRepeated, Reject, SameCounts
    <3>2. NextUse /\ msgs' = Noted /\ UNCHANGED end /\ Verdict(Current) \in {"repeated", "fuse"}
      BY <2>3 DEF RejectRepeated, Checking, Reject
    <3>3. pos \notin DOMAIN early
      <4> SUFFICES ASSUME pos \in DOMAIN early PROVE FALSE  OBVIOUS
      <4>1. pos \in Ahead  BY <2>0 DEF Ahead, LoopPlaced
      <4>2. Current \notin ctr.prints /\ ctr.calls + Len(uses) - pos + 1 <= Limits.fuse
        BY <2>0, <4>1 DEF EarlyUnseen, Current
      <4>3. ctr.calls < Limits.fuse  BY <1>0, <2>0, <4>2, LoopAssumption DEF LoopPlaced, CountsCalls
      <4> QED BY <1>0, <3>2, <4>2, <4>3, Verdicts, LoopAssumption DEF CountsCalls
    <3> QED BY <2>0, <3>1, <3>2, <3>3 DEF Handled
  <2>4. ASSUME NEW k, NEW stops, SameCounts(ctr, k), RejectOrSynthesize(k, stops), pos \notin DOMAIN early
        PROVE  Handled \/ Quit
    <3>1. CASE msgs' = Noted /\ NextUse /\ UNCHANGED end
      BY <2>0, <2>4, <3>1 DEF RejectOrSynthesize, Handled
    <3>2. CASE ~ (msgs' = Noted /\ NextUse /\ UNCHANGED end)
      <4>1. at' = "over" /\ pos' = pos  BY <2>4, <3>2, Finalizes DEF RejectOrSynthesize, Synthesize
      <4> QED BY <2>0, <4>1 DEF Quit, ContractGate, LoopPlaced
    <3> QED BY <3>1, <3>2
  <2>5. CASE RejectPage
    <3>1. SameCounts(ctr, Failed(ctr, Current)) /\ pos \notin DOMAIN early
      BY <1>0, <2>5, CountsStay, Verdicts DEF RejectPage, Checking
    <3> QED BY <2>4, <2>5, <3>1 DEF RejectPage
  <2>6. CASE RejectSearch
    <3> DEFINE f == Failed(ctr, Current)
               k == [f EXCEPT !.searchBlocked = @ + 1]
    <3>1. SameCounts(ctr, f) /\ pos \notin DOMAIN early
      BY <1>0, <2>6, CountsStay, Verdicts DEF RejectSearch, Checking
    <3>2. SameCounts(ctr, k)
      <4> HIDE DEF f
      <4> QED BY <3>1 DEF SameCounts
    <3>3. RejectOrSynthesize(k, k.searchBlocked >= 2)  BY <2>6 DEF RejectSearch
    <3> QED BY <2>4, <3>1, <3>2, <3>3
  <2> QED BY <1>2, <2>1, <2>2, <2>3, <2>5, <2>6 DEF RejectUse
<1>3. ASSUME NEW r, TakeException(r) PROVE Handled
  <2> DEFINE k == IF r.out = "raised" THEN ctr ELSE Tallied(ctr, r)
  <2>1. SameCounts(ctr, k)  BY <1>0, CountsStay DEF SameCounts
  <2>2. SameCounts(ctr, Failed(k, Current))
    <3> HIDE DEF k
    <3> QED BY <2>1, CountsStay DEF SameCounts
  <2>3. SameCounts(ctr, ctr')
    <3> DEFINE f == Failed(k, Current)
    <3>1. ctr' = [f EXCEPT !.searchFails = IF Family(Current) = "websearch" THEN @ + 1 ELSE @,
                           !.urls = IF Family(Current) = "webfetch" THEN @ \cup {Url[Current]} ELSE @]
      BY <1>3 DEF TakeException
    <3> HIDE DEF f
    <3> QED BY <2>2, <3>1 DEF f, SameCounts
  <2>4. at = "work" /\ NextUse /\ msgs' = Noted /\ UNCHANGED <<q, uses, early, end, log>>
    BY <1>3 DEF TakeException, stable
  <2> QED BY <2>3, <2>4 DEF Handled
<1>4. ASSUME NEW r, TakeResult(r) PROVE Handled
  <2> DEFINE novel == r.print \notin ctr.seen
             k == [Tallied(ctr, r) EXCEPT !.seen = @ \cup {r.print},
                                          !.dupResults = IF novel THEN @ ELSE @ + 1]
  <2>1. SameCounts(ctr, k)
    <3>1. SameCounts(ctr, Tallied(ctr, r))  BY <1>0, CountsStay
    <3> QED BY <3>1 DEF SameCounts
  <2>2. PICK n, lookedUp, checkpoint, x :
             /\ n = [k EXCEPT !.noProgress = x]
             /\ ctr' = [WebTally(n, r) EXCEPT !.lookedUp = lookedUp, !.checkpoint = checkpoint]
    BY <1>4 DEF TakeResult
  <2>3. SameCounts(ctr, n)
    <3> HIDE DEF k
    <3> QED BY <2>1, <2>2 DEF SameCounts
  <2>4. SameCounts(ctr, WebTally(n, r))  BY <2>3, CountsStay DEF SameCounts
  <2>5. SameCounts(ctr, ctr')  BY <2>2, <2>4 DEF SameCounts
  <2>6. at = "work" /\ NextUse /\ msgs' = Noted /\ UNCHANGED <<q, uses, early, end, log>>
    BY <1>4 DEF TakeResult, stable
  <2> QED BY <2>5, <2>6 DEF Handled
<1> QED BY <1>1, <1>2, <1>3, <1>4

\* A run that goes over without having anything open.
LEMMA QuitsSatisfied ==
  ASSUME at' = "over", con' = con, Owed, at # "idle", log' = log, ~ Required \/ Satisfied(con)
  PROVE  Quit
<1>1. OpenOutputs(con') = {}  BY NothingOwed DEF Owed
<1> QED BY <1>1 DEF Quit, ContractGate

\* Between two replies.
LEMMA MovesOn ==
  ASSUME LoopPlaced, Owed, Answered, end.how = "none"
  PROVE  /\ BeginTurn => Moved \/ Quit
         /\ FailTurn => Quit
         /\ ReplyText => Moved \/ Quit
         /\ ReviewYield => Moved \/ Quit
         /\ ReviewCoverage => Moved \/ Quit
         /\ ReviewPlan => Moved \/ Quit
         /\ Boundary => Quit
         /\ StopAtUse => Quit
<1>0. CountsCalls(ctr) /\ IsTalk(msgs)  BY DEF LoopPlaced
<1>s. ASSUME NEW kind \in {"cancelled", "failed", "exhausted"}, Stop(kind), log' = log PROVE Quit
  BY <1>s DEF Stop, NoEnd, Quit, ContractGate
<1>1. ASSUME BeginTurn PROVE Moved \/ Quit
  <2>1. CASE stopped  BY <1>1, <1>s, <2>1 DEF BeginTurn
  <2>2. CASE ~ stopped  BY <1>0, <1>1, <2>2 DEF BeginTurn, Moved, Between
  <2> QED BY <2>1, <2>2
<1>2. ASSUME FailTurn PROVE Quit
  BY <1>2, <1>s DEF FailTurn
<1>3. ASSUME ReplyText PROVE Moved \/ Quit
  <2>0. /\ at = "ask" /\ UNCHANGED <<q, uses, pos, early, con, log>>
        /\ IsTalk(Say(msgs, 0)) /\ Say(msgs, 0).pending = 0 /\ Say(msgs, 0).broken = msgs.broken
    BY <1>0, <1>3, TalkShapes DEF ReplyText, stable
  <2>1. CASE Satisfied(con)
    <3>1. at' = "over"  BY <1>3, <2>1, Finalizes DEF ReplyText
    <3> QED BY <2>0, <2>1, <3>1, QuitsSatisfied
  <2>2. CASE ~ Satisfied(con)
    <3>1. CountsCalls(ctr') /\ ctr'.prints = ctr.prints
      BY <1>0, <1>3, <2>2 DEF ReplyText, CountsCalls
    <3>2. ASSUME at' = "turn", msgs' = Say(msgs, 0), UNCHANGED end PROVE Moved
      BY <2>0, <3>1, <3>2 DEF Moved, Between
    <3>3. CASE offered # {}  BY <1>3, <2>2, <3>2, <3>3 DEF ReplyText
    <3>4. CASE offered = {} /\ Required
      <4>1. Finalize({}, "blocked", Say(msgs, 0), con, cites)  BY <1>3, <2>2, <3>4 DEF ReplyText
      <4>2. at' = "over" /\ end'.why = "blocked"  BY <4>1, Finalizes
      <4> QED BY <2>0, <4>2 DEF Quit, ContractGate
    <3>5. CASE offered = {} /\ ~ Required
      <4>1. Synthesize(Say(msgs, 0), con, cites, models + 1,
                       at' = "turn" /\ msgs' = Say(msgs, 0) /\ UNCHANGED end)
        BY <1>3, <2>2, <3>5 DEF ReplyText
      <4>2. CASE at' = "over"  BY <2>0, <3>5, <4>2, QuitsSatisfied
      <4>3. CASE at' # "over"  BY <3>2, <4>1, <4>3, Finalizes DEF Synthesize
      <4> QED BY <4>2, <4>3
    <3> QED BY <3>3, <3>4, <3>5
  <2> QED BY <2>1, <2>2
<1>4. ASSUME ReviewYield PROVE Moved \/ Quit
  <2>0. at = "review" /\ UNCHANGED <<q, uses, pos, early, con, log, ctr>>
    BY <1>4 DEF ReviewYield, stable, gains
  <2>1. ASSUME at' = "fallback", UNCHANGED <<msgs, end>> PROVE Moved
    BY <1>0, <2>0, <2>1 DEF Moved, Between
  <2>2. CASE at' = "over" /\ ~ Required  BY <2>0, <2>2, QuitsSatisfied
  <2> QED BY <1>4, <2>1, <2>2, Finalizes DEF ReviewYield, Synthesize
<1>5. ASSUME ReviewCoverage PROVE Moved \/ Quit
  <2>0. at = "fallback" /\ UNCHANGED <<q, uses, pos, early>>
    BY <1>5 DEF ReviewCoverage, stable
  <2>1. CountsCalls(ctr') /\ ctr'.prints = ctr.prints
    BY <1>0, <1>5 DEF ReviewCoverage, CountsCalls
  <2>2. log' = log \/ (\E list \in {log.ran, Append(log.ran, Maker)} : log' = [log EXCEPT !.ran = list])
    BY <1>5 DEF ReviewCoverage, Ran, LoopPlaced
  <2>3. ASSUME at' = "replan", UNCHANGED <<msgs, end>> PROVE Moved
    BY <1>0, <2>0, <2>1, <2>2, <2>3 DEF Moved, Between
  <2>4. CASE at' = "over" /\ end'.why = "coverage_limited"
    BY <2>2, <2>4 DEF Quit, ContractGate
  <2> QED BY <1>5, <2>3, <2>4, Finalizes DEF ReviewCoverage
<1>6. ASSUME ReviewPlan PROVE Moved \/ Quit
  <2>0. at = "replan" /\ UNCHANGED <<q, uses, pos, early, con, log>>
    BY <1>6 DEF ReviewPlan, stable
  <2>1. CountsCalls(ctr') /\ ctr'.prints = ctr.prints
    BY <1>0, <1>6 DEF ReviewPlan, CountsCalls
  <2>2. ASSUME at' = "turn", UNCHANGED <<msgs, end>> PROVE Moved
    BY <1>0, <2>0, <2>1, <2>2 DEF Moved, Between
  <2>3. CASE at' = "over" /\ ~ Required  BY <2>0, <2>3, QuitsSatisfied
  <2> QED BY <1>6, <2>2, <2>3, Finalizes DEF ReviewPlan, Synthesize
<1>7. ASSUME Boundary PROVE Quit
  <2>0. at = "turn" /\ UNCHANGED <<q, con, log>>  BY <1>7 DEF Boundary, stable, gains
  <2>1. CASE Required /\ ~ Satisfied(con)
    <3>1. at' = "over" /\ end'.why = "blocked"  BY <1>7, <2>1, Finalizes DEF Boundary, Blocked
    <3> QED BY <2>0, <3>1 DEF Quit, ContractGate
  <2>2. CASE ~ (Required /\ ~ Satisfied(con))
    <3>1. at' = "over"  BY <1>7, <2>2, Finalizes DEF Boundary, Synthesize, Stop
    <3> QED BY <2>0, <2>2, <3>1, QuitsSatisfied
  <2> QED BY <2>1, <2>2
<1>8. ASSUME StopAtUse PROVE Quit
  BY <1>8, <1>s DEF StopAtUse
<1> QED BY <1>1, <1>2, <1>3, <1>4, <1>5, <1>6, <1>7, <1>8

-----------------------------------------------------------------------------

\* A list of the elements of a finite set has each of them once.
LEMMA ListOfSet ==
  ASSUME NEW S, IsFiniteSet(S)
  PROVE  /\ SetToSeq(S) \in Seq(S)
         /\ \A i, j \in DOMAIN SetToSeq(S) : SetToSeq(S)[i] = SetToSeq(S)[j] => i = j
<1>1. Cardinality(S) \in Nat /\ ExistsBijection(1 .. Cardinality(S), S)  BY FS_CardinalityType
<1>2. PICK f \in [1 .. Cardinality(S) -> S] : IsInjective(f)
  <2>1. PICK f \in Bijection(1 .. Cardinality(S), S) : TRUE  BY <1>1 DEF ExistsBijection
  <2> QED BY <2>1 DEF Bijection, Injection
<1>3. SetToSeq(S) \in [1 .. Cardinality(S) -> S] /\ IsInjective(SetToSeq(S))
  BY <1>2 DEF SetToSeq
<1> QED BY <1>1, <1>3 DEF IsInjective

\* A call has its result.
LEMMA HandledKeeps ==
  ASSUME LoopInv, at # "over", Handled, DOMAIN con' \subseteq DOMAIN con \cup {"plan"}
  PROVE  LoopInv'
<1>0. LoopPlaced /\ Answered /\ EarlyApart /\ EarlyUnseen /\ RanNoted /\ Owed /\ end.how = "none"
      /\ NoRepeat
  BY DEF LoopInv
<1>1. /\ pos \in 1 .. Len(uses) /\ Len(uses) \in Nat /\ pos' = pos + 1
      /\ at' = IF pos < Len(uses) THEN "check" ELSE "review"
  BY <1>0 DEF LoopPlaced, Handled, NextUse
<1>2. IsTalk(msgs') /\ msgs'.broken = msgs.broken /\ (q.blocks => msgs'.pending = msgs.pending - 1)
  BY <1>0, TalkShapes DEF Handled, Noted, LoopPlaced
<1>3. /\ {"ran", "dropped"} \subseteq DOMAIN log' /\ log'.ran = log.ran
      /\ log'.dropped \in Nat /\ (log'.dropped = log.dropped \/ log'.dropped > 0)
  BY <1>0 DEF Handled, LoopPlaced
<1>4. LoopPlaced'
  BY <1>0, <1>1, <1>2, <1>3 DEF LoopPlaced, Handled, Handling, Between, CountsCalls, SameCounts
<1>5. Answered'
  <2>1. q' = q /\ uses' = uses /\ at \in {"check", "work"}  BY DEF Handled
  <2>2. q.blocks => msgs.pending = Len(uses) - pos + 1 /\ ~ msgs.broken
    BY <1>0, <2>1 DEF Answered, Unanswered
  <2>3. Unanswered' = Len(uses) - pos  BY <1>1, <2>1 DEF Unanswered
  <2> QED BY <1>1, <1>2, <2>1, <2>2, <2>3 DEF Answered
<1>6. EarlyApart'  BY <1>0 DEF EarlyApart, Handled
<1>7. \A i \in Ahead' : i \in Ahead /\ i # pos  BY <1>0, <1>1 DEF Ahead, Handled, LoopPlaced
<1>8. EarlyUnseen'
  <2>1. UNCHANGED <<uses, early>> /\ ctr'.prints = ctr.prints /\ ctr'.calls = ctr.calls
        /\ ctr.calls \in Nat /\ at' # "work"
    BY <1>0, <1>1 DEF Handled, SameCounts, LoopPlaced, CountsCalls
  <2>2. \A i \in Ahead' : uses'[i] \notin ctr'.prints  BY <1>0, <1>7, <2>1 DEF EarlyUnseen
  <2>3. ASSUME Ahead' # {} PROVE ctr'.calls + Len(uses') - pos' + 1 <= Limits.fuse
    <3>1. Ahead # {}  BY <1>7, <2>3
    <3>2. ctr.calls + Len(uses) - pos + (IF at = "work" THEN 0 ELSE 1) <= Limits.fuse
      BY <1>0, <3>1 DEF EarlyUnseen
    <3> QED BY <1>1, <2>1, <3>2, LoopAssumption
  <2> QED BY <2>1, <2>2, <2>3 DEF EarlyUnseen
<1>9. RanNoted'
  <2> SUFFICES ASSUME log'.dropped = 0, NEW n \in DOMAIN log.ran, Once(log.ran[n])
               PROVE  log.ran[n] \in ctr'.prints \/ \E i \in Ahead' : uses'[i] = log.ran[n]
    BY <1>3 DEF RanNoted, Once
  <2>1. log' = log /\ (at = "work" \/ pos \notin DOMAIN early)
    BY <1>0, <1>3 DEF Handled, LoopPlaced
  <2>2. log.ran[n] \in ctr.prints \/ \E i \in Ahead : uses[i] = log.ran[n]
    BY <1>0, <2>1 DEF RanNoted
  <2>3. \A i \in Ahead : i \in Ahead'  BY <1>0, <1>1, <2>1 DEF Ahead, Handled, LoopPlaced
  <2> QED BY <2>2, <2>3 DEF Handled, SameCounts
<1>10. Owed'  BY <1>0, <1>1 DEF Owed, Handled, RequiredOutputs
<1>11. end'.how = "none" /\ ContractGate'  BY <1>0 DEF Handled, ContractGate
<1>12. NoRepeat'  BY <1>0, <1>3 DEF NoRepeat, LoopPlaced
<1> QED BY <1>4, <1>5, <1>6, <1>8, <1>9, <1>10, <1>11, <1>12 DEF LoopInv

\* The call that the run makes itself may be repeated.
LEMMA RanAgain ==
  ASSUME NoRepeat, LoopPlaced,
         log' = log \/ (\E list \in {log.ran, Append(log.ran, Maker)} : log' = [log EXCEPT !.ran = list])
  PROVE  /\ NoRepeat' /\ {"ran", "dropped"} \subseteq DOMAIN log' /\ log'.ran \in Seq(LoopCalls)
         /\ log'.dropped = log.dropped
         /\ \A n \in DOMAIN log'.ran : Once(log'.ran[n]) => n \in DOMAIN log.ran /\ log'.ran[n] = log.ran[n]
<1>1. Maker \in LoopCalls /\ ~ Once(Maker)
  <2>1. Maker \in LoopCalls /\ Tools[Name(Maker)].makes = "pptx"  BY LoopAssumption DEF Maker, Name
  <2> QED BY <2>1 DEF Once
<1>2. {"ran", "dropped"} \subseteq DOMAIN log /\ log.ran \in Seq(LoopCalls)  BY DEF LoopPlaced
<1>3. log'.ran \in {log.ran, Append(log.ran, Maker)} /\ log'.dropped = log.dropped
      /\ {"ran", "dropped"} \subseteq DOMAIN log'
  BY <1>2
<1>4. log'.ran \in Seq(LoopCalls)  BY <1>1, <1>2, <1>3
<1>5. \A n \in DOMAIN log'.ran : Once(log'.ran[n]) => n \in DOMAIN log.ran /\ log'.ran[n] = log.ran[n]
  BY <1>1, <1>2, <1>3
<1>6. NoRepeat'
  <2> SUFFICES ASSUME NEW i \in DOMAIN log'.ran, NEW j \in DOMAIN log'.ran, i # j,
                      log'.ran[i] = log'.ran[j], Once(log'.ran[i]), ~ (log'.dropped > 0)
               PROVE  FALSE
    BY DEF NoRepeat, Once, Name, IsPlan, Family
  <2>1. i \in DOMAIN log.ran /\ j \in DOMAIN log.ran /\ log.ran[i] = log.ran[j] /\ Once(log.ran[i])
    BY <1>5
  <2> QED BY <1>3, <2>1 DEF NoRepeat, Once
<1> QED BY <1>3, <1>4, <1>5, <1>6

\* Between two replies nothing is lost.
LEMMA MovedKeeps ==
  ASSUME LoopInv, at # "over", Moved, DOMAIN con' = DOMAIN con
  PROVE  LoopInv'
<1>0. LoopPlaced /\ Answered /\ EarlyApart /\ RanNoted /\ Owed /\ end.how = "none" /\ NoRepeat
  BY DEF LoopInv
<1>1. /\ at \in Between /\ at' \in Between /\ UNCHANGED <<q, uses, pos, early, end>>
      /\ at' \notin {"idle", "over", "batch", "check", "work"}
      /\ at \notin {"idle", "over", "batch", "check", "work"}
  BY DEF Moved, Between
<1>2. /\ NoRepeat' /\ {"ran", "dropped"} \subseteq DOMAIN log' /\ log'.ran \in Seq(LoopCalls)
      /\ log'.dropped = log.dropped
      /\ \A n \in DOMAIN log'.ran : Once(log'.ran[n]) => n \in DOMAIN log.ran /\ log'.ran[n] = log.ran[n]
  BY <1>0, RanAgain DEF Moved
<1>3. \A i \in DOMAIN early : i < pos  BY <1>0, <1>1 DEF LoopPlaced, Handling
<1>4. LoopPlaced'  BY <1>0, <1>1, <1>2, <1>3 DEF LoopPlaced, Moved, Handling
<1>5. Answered'  BY <1>0, <1>1 DEF Answered, Unanswered, Moved
<1>6. EarlyApart'  BY <1>0, <1>1 DEF EarlyApart
<1>7. Ahead = {} /\ Ahead' = {}  BY <1>0, <1>1, <1>3 DEF Ahead, LoopPlaced
<1>8. EarlyUnseen'  BY <1>7 DEF EarlyUnseen
<1>9. RanNoted'
  <2>1. ctr'.prints = ctr.prints  BY DEF Moved
  <2> QED BY <1>0, <1>2, <1>7, <2>1 DEF RanNoted
<1>10. Owed'  BY <1>0, <1>1 DEF Owed, RequiredOutputs
<1>11. end'.how = "none" /\ ContractGate'  BY <1>0, <1>1 DEF ContractGate
<1> QED BY <1>2, <1>4, <1>5, <1>6, <1>8, <1>9, <1>10, <1>11 DEF LoopInv

\* A run that ends.
LEMMA QuitKeeps ==
  ASSUME LoopInv, at # "over", Quit
  PROVE  LoopInv'
<1>1. LoopPlaced /\ NoRepeat  BY DEF LoopInv
<1>2. NoRepeat'  BY <1>1, RanAgain DEF Quit
<1> QED BY <1>2 DEF LoopInv, Quit

\* A run begins with what its request asks for.
LEMMA StartKeeps ==
  ASSUME LoopInv, NEW p \in Prompts, StartRun(p)
  PROVE  LoopInv'
<1>0. at = "idle" /\ at' = "turn" /\ UNCHANGED <<uses, pos, early, msgs, end, log>> /\ q' = p
      /\ con' = FromRequest(p)
  BY DEF StartRun
<1>1. LoopPlaced /\ Answered /\ EarlyApart /\ NoRepeat /\ end.how = "none"  BY <1>0 DEF LoopInv
<1>2. CountsCalls(ctr')  BY DEF StartRun, CountsCalls, Fresh
<1>3. LoopPlaced'  BY <1>0, <1>1, <1>2 DEF LoopPlaced, Between, Handling, IsTalk
<1>4. Answered'  BY <1>0, <1>1 DEF Answered, Unanswered
<1>5. EarlyApart' /\ NoRepeat'  BY <1>0, <1>1 DEF EarlyApart, NoRepeat
<1>6. Ahead' = {}  BY <1>0, <1>1 DEF Ahead, LoopPlaced, Handling
<1>7. EarlyUnseen'  BY <1>6 DEF EarlyUnseen
<1>8. RanNoted'  BY <1>0, <1>1 DEF RanNoted, LoopPlaced
<1>9. Owed'
  <2>1. DOMAIN con' \subseteq RequiredOutputs(q') \cup {"evidence"}  BY <1>0, OwedStays
  <2> QED BY <2>1 DEF Owed, RequiredOutputs
<1>10. ContractGate'  BY <1>0, <1>1 DEF ContractGate
<1> QED BY <1>1, <1>0, <1>3, <1>4, <1>5, <1>7, <1>8, <1>9, <1>10 DEF LoopInv

\* A reply puts its calls before the loop.
LEMMA ReplyKeeps ==
  ASSUME LoopInv, NEW r \in Replies, ReplyTools(r)
  PROVE  LoopInv'
<1>0. /\ at = "ask" /\ r # <<>> /\ at' = "batch" /\ uses' = r /\ pos' = 1 /\ early' = <<>>
      /\ msgs' = (IF q.blocks THEN Say(msgs, Len(r)) ELSE msgs)
      /\ UNCHANGED <<q, ctr, con, log, end>> /\ r \in Seq(LoopCalls) /\ Len(r) \in Nat
  BY LoopAssumption DEF ReplyTools
<1>1. LoopPlaced /\ Answered /\ RanNoted /\ Owed /\ NoRepeat /\ end.how = "none"  BY <1>0 DEF LoopInv
<1>2. IsTalk(msgs') /\ msgs'.broken = msgs.broken /\ (q.blocks => msgs'.pending = Len(r))
  BY <1>0, <1>1, TalkShapes DEF LoopPlaced
<1>3. LoopPlaced'  BY <1>0, <1>1, <1>2 DEF LoopPlaced, Between, Handling, CountsCalls
<1>4. Answered'  BY <1>0, <1>1, <1>2 DEF Answered, Unanswered
<1>5. DOMAIN early' = {} /\ Ahead' = {}  BY <1>0 DEF Ahead
<1>6. EarlyApart' /\ EarlyUnseen'  BY <1>5 DEF EarlyApart, EarlyUnseen
<1>7. RanNoted'
  <2>1. Ahead = {}  BY <1>0, <1>1 DEF Ahead, LoopPlaced, Handling
  <2> QED BY <1>0, <1>1, <2>1 DEF RanNoted
<1>8. Owed' /\ NoRepeat' /\ ContractGate'
  BY <1>0, <1>1 DEF Owed, NoRepeat, ContractGate, RequiredOutputs
<1> QED BY <1>0, <1>1, <1>3, <1>4, <1>6, <1>7, <1>8 DEF LoopInv

\* What is executed in advance is new, and each call of it different.
LEMMA TogetherKeeps ==
  ASSUME LoopInv, ExecuteTogether
  PROVE  LoopInv'
<1> DEFINE own == {i \in DOMAIN uses : ~ IsPlan(uses[i])}
           set == {uses[i] : i \in own}
<1>0. at = "batch" /\ at' = "check" /\ UNCHANGED <<q, uses, pos, ctr, con, msgs, end>>
  BY DEF ExecuteTogether, stable
<1>1. /\ LoopPlaced /\ Answered /\ EarlyApart /\ EarlyUnseen /\ RanNoted /\ Owed /\ NoRepeat
      /\ end.how = "none" /\ pos = 1 /\ early = <<>> /\ DOMAIN early = {} /\ uses # <<>>
      /\ uses \in Seq(LoopCalls) /\ Len(uses) \in Nat /\ 1 \in 1 .. Len(uses)
      /\ {"ran", "dropped"} \subseteq DOMAIN log /\ log.ran \in Seq(LoopCalls) /\ log.dropped \in Nat
      /\ ctr.calls \in Nat
  BY <1>0 DEF LoopInv, LoopPlaced, CountsCalls
<1>2. own \subseteq 1 .. Len(uses)  BY <1>1
<1>3. Answered'  BY <1>0, <1>1 DEF Answered, Unanswered
<1>4. Owed' /\ ContractGate' /\ end'.how = "none"
  BY <1>0, <1>1 DEF Owed, ContractGate, RequiredOutputs
<1>5. Ahead = {}  BY <1>1 DEF Ahead
<1>6. CASE UNCHANGED <<early, log>>
  <2>1. Ahead' = {}  BY <1>1, <1>6 DEF Ahead
  <2>2. LoopPlaced'  BY <1>0, <1>1, <1>6 DEF LoopPlaced, Handling, CountsCalls, IsTalk
  <2>3. EarlyApart' /\ EarlyUnseen'  BY <1>1, <1>6, <2>1 DEF EarlyApart, EarlyUnseen
  <2>4. RanNoted' /\ NoRepeat'  BY <1>0, <1>1, <1>5, <1>6, <2>1 DEF RanNoted, NoRepeat
  <2> QED BY <1>3, <1>4, <2>2, <2>3, <2>4 DEF LoopInv
<1>7. CASE ~ UNCHANGED <<early, log>>
  <2>0. /\ ctr.calls + Len(uses) <= Limits.fuse /\ \A i \in own : SafeCall(i)
        /\ \E f \in [own -> UNION {Dispatched(uses[i]) : i \in own}] : early' = f
        /\ log' = [log EXCEPT !.ran = Ran(SetToSeq(set))]
    <3> DEFINE go == /\ Cardinality(own) > 1
                     /\ ctr.calls + Len(uses) <= Limits.fuse
                     /\ \A i \in own : SafeCall(i)
    <3>1. go  BY <1>7 DEF ExecuteTogether
    <3>2. ctr.calls + Len(uses) <= Limits.fuse /\ \A i \in own : SafeCall(i)  BY <3>1
    <3>3. \E f \in [own -> UNION {Dispatched(uses[i]) : i \in own}] :
            (\A i \in own : f[i] \in Dispatched(uses[i])) /\ early' = f
      BY <3>1, Zenon DEF ExecuteTogether
    <3>4. log' = [log EXCEPT !.ran = Ran(SetToSeq(set))]
      BY <3>1, Zenon DEF ExecuteTogether
    <3> HIDE DEF go, own, set
    <3> QED BY <3>2, <3>3, <3>4
  <2>1. /\ ctr.calls + Len(uses) <= Limits.fuse /\ \A i \in own : SafeCall(i)
        /\ DOMAIN early' = own
        /\ log' = [log EXCEPT !.ran = Ran(SetToSeq(set))]
    <3> HIDE DEF own, set
    <3> QED BY <2>0
  <2>2. \A i \in own : /\ uses[i] \notin ctr.prints /\ ~ IsPlan(uses[i])
                       /\ \A j \in 1 .. i - 1 : uses[j] # uses[i]
    BY <2>1 DEF SafeCall
  <2>3. /\ SetToSeq(set) \in Seq(set) /\ set \subseteq LoopCalls
        /\ \A i, j \in DOMAIN SetToSeq(set) : SetToSeq(set)[i] = SetToSeq(set)[j] => i = j
    <3>1. IsFiniteSet(1 .. Len(uses))  BY <1>1, FS_Interval
    <3>2. IsFiniteSet(own)  BY <1>2, <3>1, FS_Subset
    <3>3. IsFiniteSet(set)
      <4> DEFINE f == [i \in own |-> uses[i]]
      <4>1. f \in Surjection(own, set)  BY DEF Surjection
      <4> QED BY <3>2, <4>1, FS_Surjection
    <3>4. set \subseteq LoopCalls  BY <1>1, <1>2
    <3> QED BY <3>3, <3>4, ListOfSet
  <2> DEFINE new == SetToSeq(set)
  <2>4. /\ {"ran", "dropped"} \subseteq DOMAIN log' /\ log'.dropped = log.dropped
        /\ log'.ran \in {log.ran, log.ran \o new}
    BY <1>1, <2>1 DEF Ran
  <2>5. new \in Seq(LoopCalls) /\ Len(new) \in Nat /\ \A n \in 1 .. Len(new) : new[n] \in set
    <3> HIDE DEF set
    <3> QED BY <2>3
  <2>5a. \A i, j \in 1 .. Len(new) : new[i] = new[j] => i = j
    <3> HIDE DEF set
    <3> QED BY <2>3
  <2> HIDE DEF new
  <2>6a. PICK old, list : old = log.ran /\ list = log'.ran  OBVIOUS
  <2>6. log'.ran \in Seq(LoopCalls)
    <3> HIDE DEF set
    <3>1. old \in Seq(LoopCalls) /\ new \in Seq(LoopCalls) /\ list \in {old, old \o new}  BY <1>1, <2>4, <2>5, <2>6a
    <3>2. old \o new \in Seq(LoopCalls)
      <4>1. Len(old) \in Nat /\ Len(new) \in Nat /\ DOMAIN old = 1 .. Len(old) /\ DOMAIN new = 1 .. Len(new)  BY <3>1
      <4> QED BY <3>1, <4>1
    <3>3. list \in Seq(LoopCalls)  BY <3>1, <3>2
    <3> QED BY <2>6a, <3>3
  <2>7. \A n \in DOMAIN log'.ran :
          \/ n \in DOMAIN log.ran /\ log'.ran[n] = log.ran[n]
          \/ n - Len(log.ran) \in 1 .. Len(new) /\ log'.ran[n] = new[n - Len(log.ran)]
    <3> HIDE DEF set
    <3>1. old \in Seq(LoopCalls) /\ new \in Seq(LoopCalls) /\ list \in {old, old \o new}  BY <1>1, <2>4, <2>5, <2>6a
    <3>2. \A n \in DOMAIN list : \/ n \in DOMAIN old /\ list[n] = old[n]
                                 \/ n - Len(old) \in 1 .. Len(new) /\ list[n] = new[n - Len(old)]
      BY <3>1
    <3> QED BY <2>6a, <3>2
  <2>8. \A i \in own : i \in Ahead'
    BY <1>0, <1>1, <1>2, <2>1 DEF Ahead
  <2>9. LoopPlaced'
    BY <1>0, <1>1, <1>2, <2>1, <2>4, <2>6 DEF LoopPlaced, Handling, CountsCalls, IsTalk
  <2>10. EarlyApart'  BY <1>0, <2>1, <2>2 DEF EarlyApart, IsPlan, Family
  <2>11. EarlyUnseen'
    <3>1. \A i \in Ahead' : uses'[i] \notin ctr'.prints  BY <1>0, <2>1, <2>2 DEF Ahead
    <3>2. ctr'.calls + Len(uses') - pos' + 1 <= Limits.fuse  BY <1>0, <1>1, <2>1, LoopAssumption
    <3> QED BY <1>0, <3>1, <3>2 DEF EarlyUnseen
  <2>12. RanNoted'
    <3> SUFFICES ASSUME log'.dropped = 0, NEW n \in DOMAIN log'.ran, Once(log'.ran[n])
                 PROVE  log'.ran[n] \in ctr'.prints \/ \E i \in Ahead' : uses'[i] = log'.ran[n]
      BY DEF RanNoted, Once, IsPlan, Family, Name
    <3>1. CASE n \in DOMAIN log.ran /\ log'.ran[n] = log.ran[n]
      BY <1>0, <1>1, <1>5, <2>4, <3>1 DEF RanNoted
    <3>2. CASE n - Len(log.ran) \in 1 .. Len(new) /\ log'.ran[n] = new[n - Len(log.ran)]
      <4>1. PICK i \in own : log'.ran[n] = uses[i]  BY <2>5, <3>2
      <4> QED BY <1>0, <2>8, <4>1
    <3> QED BY <2>7, <3>1, <3>2
  <2>13. NoRepeat'
    <3> SUFFICES ASSUME NEW i \in DOMAIN log'.ran, NEW j \in DOMAIN log'.ran, i # j,
                        log'.ran[i] = log'.ran[j], Once(log'.ran[i]), ~ (log'.dropped > 0)
                 PROVE  FALSE
      BY DEF NoRepeat, Once, Name, IsPlan, Family
    <3>1. ASSUME NEW m \in DOMAIN log.ran, Once(log.ran[m]), NEW n \in 1 .. Len(new),
                 log.ran[m] = new[n]
          PROVE  FALSE
      <4>1. log.ran[m] \in ctr.prints  BY <1>1, <1>5, <2>4, <3>1 DEF RanNoted
      <4>2. PICK o \in own : new[n] = uses[o]  BY <2>5
      <4> QED BY <2>2, <3>1, <4>1, <4>2
    <3>2. CASE i \in DOMAIN log.ran /\ log'.ran[i] = log.ran[i] /\ j \in DOMAIN log.ran
               /\ log'.ran[j] = log.ran[j]
      BY <1>1, <2>4, <3>2 DEF NoRepeat, Once
    <3>3. CASE i - Len(log.ran) \in 1 .. Len(new) /\ log'.ran[i] = new[i - Len(log.ran)]
               /\ j - Len(log.ran) \in 1 .. Len(new) /\ log'.ran[j] = new[j - Len(log.ran)]
      <4>1. i - Len(log.ran) = j - Len(log.ran)  BY <2>5a, <3>3
      <4> QED BY <1>1, <2>6, <4>1
    <3> QED BY <2>7, <3>1, <3>2, <3>3
  <2> QED BY <1>0, <1>3, <1>4, <2>9, <2>10, <2>11, <2>12, <2>13 DEF LoopInv
<1> QED BY <1>6, <1>7

\* A call that is executed is noted before it is.
LEMMA UseKeeps ==
  ASSUME LoopInv, ExecuteUse
  PROVE  LoopInv'
<1>0. /\ at = "check" /\ at' = "work" /\ UNCHANGED <<q, uses, pos, early, con, msgs, end>>
      /\ Verdict(Current) = "go"
      /\ ctr' = IF IsPlan(Current) THEN ctr
                ELSE [ctr EXCEPT !.prints = @ \cup {Current}, !.calls = @ + 1]
      /\ log' = IF pos \in DOMAIN early THEN log ELSE [log EXCEPT !.ran = Append(@, Current)]
  BY DEF ExecuteUse, Checking, stable, gains
<1>1. /\ LoopPlaced /\ Answered /\ EarlyApart /\ EarlyUnseen /\ RanNoted /\ Owed /\ NoRepeat
      /\ end.how = "none" /\ pos \in 1 .. Len(uses) /\ Len(uses) \in Nat
      /\ uses \in Seq(LoopCalls) /\ Current \in LoopCalls
      /\ {"ran", "dropped"} \subseteq DOMAIN log /\ log.ran \in Seq(LoopCalls) /\ log.dropped \in Nat
      /\ {"calls", "prints"} \subseteq DOMAIN ctr /\ ctr.calls \in Nat
  BY <1>0 DEF LoopInv, LoopPlaced, CountsCalls, Current
<1>2. Answered'  BY <1>0, <1>1 DEF Answered, Unanswered
<1>3. Owed' /\ ContractGate' /\ end'.how = "none" /\ EarlyApart'
  BY <1>0, <1>1 DEF Owed, ContractGate, RequiredOutputs, EarlyApart
<1>4. /\ {"calls", "prints"} \subseteq DOMAIN ctr' /\ ctr'.calls \in Nat
      /\ IsPlan(Current) => ctr'.prints = ctr.prints /\ ctr'.calls = ctr.calls
      /\ ~ IsPlan(Current) => ctr'.prints = ctr.prints \cup {Current} /\ ctr'.calls = ctr.calls + 1
  BY <1>0, <1>1
<1>5. /\ {"ran", "dropped"} \subseteq DOMAIN log' /\ log'.dropped = log.dropped
      /\ pos \in DOMAIN early => log'.ran = log.ran
      /\ pos \notin DOMAIN early => log'.ran = Append(log.ran, Current)
      /\ log'.ran \in Seq(LoopCalls)
  BY <1>0, <1>1
<1>6. LoopPlaced'  BY <1>0, <1>1, <1>4, <1>5 DEF LoopPlaced, Handling, CountsCalls, IsTalk
<1>7. \A i \in Ahead' : i \in Ahead /\ i > pos /\ i \in DOMAIN early
  BY <1>0, <1>1 DEF Ahead, LoopPlaced
<1>8. \A i \in DOMAIN early : i > pos => uses[i] # Current
  BY <1>1 DEF EarlyApart, Current, LoopPlaced
<1>9. EarlyUnseen'
  <2>1. \A i \in Ahead' : uses[i] \notin ctr'.prints
    BY <1>1, <1>4, <1>7, <1>8 DEF EarlyUnseen
  <2>2. ASSUME Ahead' # {} PROVE ctr'.calls + Len(uses) - pos <= Limits.fuse
    <3>1. ctr.calls + Len(uses) - pos + 1 <= Limits.fuse  BY <1>0, <1>1, <1>7, <2>2 DEF EarlyUnseen
    <3> QED BY <1>1, <1>4, <3>1, LoopAssumption
  <2> QED BY <1>0, <1>1, <1>4, <2>1, <2>2, LoopAssumption DEF EarlyUnseen
<1>10. RanNoted'
  <2> SUFFICES ASSUME log'.dropped = 0, NEW n \in DOMAIN log'.ran, Once(log'.ran[n])
               PROVE  log'.ran[n] \in ctr'.prints \/ \E i \in Ahead' : uses'[i] = log'.ran[n]
    BY DEF RanNoted, Once, IsPlan, Family, Name
  <2>1. CASE log'.ran[n] = Current  BY <1>4, <2>1 DEF Once
  <2>2. CASE log'.ran[n] # Current
    <3>1. n \in DOMAIN log.ran /\ log'.ran[n] = log.ran[n]  BY <1>1, <1>5, <2>2
    <3>2. log.ran[n] \in ctr.prints \/ \E i \in Ahead : uses[i] = log.ran[n]
      BY <1>1, <1>5, <3>1 DEF RanNoted
    <3>3. \A i \in Ahead : uses[i] # Current => i \in Ahead'
      BY <1>0, <1>1 DEF Ahead, Current
    <3> QED BY <1>0, <1>4, <2>2, <3>1, <3>2, <3>3
  <2> QED BY <2>1, <2>2
<1>11. NoRepeat'
  <2>1. CASE pos \in DOMAIN early  BY <1>1, <1>5, <2>1 DEF NoRepeat
  <2>2. CASE pos \notin DOMAIN early
    <3> SUFFICES ASSUME NEW i \in DOMAIN log'.ran, NEW j \in DOMAIN log'.ran, i # j,
                        log'.ran[i] = log'.ran[j], Once(log'.ran[i]), ~ (log'.dropped > 0)
                 PROVE  FALSE
      BY DEF NoRepeat, Once, Name, IsPlan, Family
    <3>1. ASSUME NEW n \in DOMAIN log.ran, log.ran[n] = Current, Once(Current) PROVE FALSE
      <4>1. Current \notin ctr.prints  BY <1>0, <3>1, Verdicts DEF Once
      <4>2. PICK m \in Ahead : uses[m] = Current  BY <1>1, <1>5, <3>1, <4>1 DEF RanNoted
      <4>3. m \in DOMAIN early /\ m >= pos /\ m # pos  BY <2>2, <4>2 DEF Ahead
      <4> QED BY <1>1, <1>8, <4>2, <4>3 DEF LoopPlaced
    <3>2. \A n \in DOMAIN log'.ran :
            \/ n \in DOMAIN log.ran /\ log'.ran[n] = log.ran[n]
            \/ n = Len(log.ran) + 1 /\ log'.ran[n] = Current
      <4>1. PICK old, new, c : old = log.ran /\ new = log'.ran /\ c = Current  OBVIOUS
      <4>2. old \in Seq(LoopCalls) /\ new = Append(old, c) /\ c \in LoopCalls  BY <1>1, <1>5, <2>2, <4>1
      <4>3. \A n \in DOMAIN new :
              \/ n \in DOMAIN old /\ new[n] = old[n]
              \/ n = Len(old) + 1 /\ new[n] = c
        BY <4>2
      <4> QED BY <4>1, <4>3
    <3>3. CASE i \in DOMAIN log.ran /\ log'.ran[i] = log.ran[i] /\ j \in DOMAIN log.ran
               /\ log'.ran[j] = log.ran[j]
      BY <1>1, <1>5, <3>3 DEF NoRepeat, Once
    <3> QED BY <3>1, <3>2, <3>3
  <2> QED BY <2>1, <2>2
<1> QED BY <1>0, <1>1, <1>2, <1>3, <1>6, <1>9, <1>10, <1>11 DEF LoopInv

\* What another thread does does not touch the run.
LEMMA OthersKeep ==
  ASSUME LoopInv,
         UNCHANGED <<at, q, uses, pos, early, ctr, con, msgs, log, end>>
  PROVE  LoopInv'
<1>1. LoopPlaced' = LoopPlaced /\ Answered' = Answered
  BY DEF LoopPlaced, Handling, Between, CountsCalls, IsTalk, Answered, Unanswered
<1>2. Ahead' = Ahead  BY DEF Ahead
<1>3. EarlyApart' = EarlyApart /\ EarlyUnseen' = EarlyUnseen /\ RanNoted' = RanNoted
  BY <1>2 DEF EarlyApart, EarlyUnseen, RanNoted
<1>4. Owed' = Owed /\ NoRepeat' = NoRepeat /\ ContractGate' = ContractGate
  BY DEF Owed, RequiredOutputs, NoRepeat, ContractGate
<1> QED BY <1>1, <1>3, <1>4 DEF LoopInv

\* No step makes outputs owed that the request did not ask for, but the plan.
LEMMA OwedBySteps ==
  ASSUME LoopPlaced
  PROVE  /\ RefuseUse \/ RejectUse => con' = con
         /\ \A r : TakeException(r) => con' = con
         /\ \A r : TakeResult(r) => DOMAIN con' \subseteq DOMAIN con \cup {"plan"}
         /\ BeginTurn \/ ReplyText \/ ReviewYield \/ ReviewPlan => con' = con
         /\ ReviewCoverage => DOMAIN con' = DOMAIN con
<1>1. RefuseUse => con' = con  BY DEF RefuseUse, gains
<1>2. RejectUse => con' = con  BY DEF RejectUse, gains
<1>3. ASSUME NEW r, TakeException(r) PROVE con' = con  BY <1>3 DEF TakeException, gains
<1>4. ASSUME NEW r, TakeResult(r) PROVE DOMAIN con' \subseteq DOMAIN con \cup {"plan"}
  <2>1. PICK x, y : LET one == FromEvidence(FromToolResult(con, r, q), x)
                    IN con' = IF IsPlan(Current) THEN PlanCompletion(one, y) ELSE one
    BY <1>4 DEF TakeResult
  <2> DEFINE one == FromEvidence(FromToolResult(con, r, q), x)
  <2>2. DOMAIN one = DOMAIN con
    <3>1. DOMAIN FromToolResult(con, r, q) = DOMAIN con  BY OwedStays
    <3> QED BY <3>1, OwedStays
  <2>3. con' = IF IsPlan(Current) THEN PlanCompletion(one, y) ELSE one  BY <2>1
  <2> HIDE DEF one
  <2>4. DOMAIN PlanCompletion(one, y) \subseteq DOMAIN one \cup {"plan"}  BY OwedStays
  <2> QED BY <2>2, <2>3, <2>4
<1>5. ReviewCoverage => DOMAIN con' = DOMAIN con  BY OwedStays DEF ReviewCoverage
<1>6. BeginTurn => con' = con  BY DEF BeginTurn
<1>7. ReplyText => con' = con  BY DEF ReplyText
<1>8. ReviewYield => con' = con  BY DEF ReviewYield, gains
<1>9. ReviewPlan => con' = con  BY DEF ReviewPlan
<1> QED BY <1>1, <1>2, <1>3, <1>4, <1>5, <1>6, <1>7, <1>8, <1>9

\* A run that is over stays so.
LEMMA OverIsLast ==
  ASSUME at = "over", LoopNext
  PROVE  FALSE
BY DEF LoopNext, StartRun, BeginTurn, FailTurn, ReplyText, ExecuteTogether, ReplyTools, StopAtUse,
   RefuseUse, RejectUse, RejectDisabled, RejectRepeated, RejectFailing, RejectPage, RejectSearch,
   ExecuteUse, Checking, Coming, ReviewYield, ReviewCoverage, ReviewPlan, Boundary, RequestStop, ToolFlips

\* No run, no call: nothing is owed or executed.
LEMMA LoopInvInit ==
  ASSUME LoopInit
  PROVE  LoopInv
<1>1. /\ at = "idle" /\ uses = <<>> /\ pos = 0 /\ early = <<>> /\ DOMAIN early = {}
      /\ log = [ran |-> <<>>, dropped |-> 0] /\ end.how = "none" /\ con = <<>>
      /\ ctr = Fresh /\ msgs = [last |-> "text", own |-> FALSE, pending |-> 0, paired |-> 0, broken |-> FALSE]
  BY DEF LoopInit, NoEnd
<1>2. CountsCalls(ctr) /\ IsTalk(msgs)  BY <1>1 DEF Fresh, CountsCalls, IsTalk
<1>3. LoopPlaced  BY <1>1, <1>2 DEF LoopPlaced, Between, Handling
<1>4. Answered  BY <1>1 DEF Answered, Unanswered
<1>5. Ahead = {}  BY <1>1 DEF Ahead
<1> QED BY <1>1, <1>3, <1>4, <1>5
        DEF LoopInv, EarlyApart, EarlyUnseen, RanNoted, Owed, NoRepeat, ContractGate

\* Each step is of one of the three forms, starts a run, takes a reply or executes calls.
LEMMA LoopInvStep ==
  ASSUME LoopInv, [LoopNext]_loopvars
  PROVE  LoopInv'
<1>1. CASE UNCHANGED loopvars  BY <1>1, OthersKeep DEF loopvars
<1>2. CASE LoopNext
  <2>0. /\ at # "over" /\ LoopPlaced /\ EarlyUnseen /\ Owed /\ Answered /\ end.how = "none"
    BY <1>2, OverIsLast DEF LoopInv
  <2>1. ASSUME NEW p \in Prompts, StartRun(p) PROVE LoopInv'  BY <2>1, StartKeeps
  <2>2. ASSUME NEW r \in Replies, ReplyTools(r) PROVE LoopInv'  BY <2>2, ReplyKeeps
  <2>3. ASSUME ExecuteTogether PROVE LoopInv'  BY <2>3, TogetherKeeps
  <2>4. ASSUME ExecuteUse PROVE LoopInv'  BY <2>4, UseKeeps
  <2>5. ASSUME BeginTurn \/ ReplyText \/ ReviewYield \/ ReviewCoverage \/ ReviewPlan PROVE LoopInv'
    <3>1. Moved \/ Quit  BY <2>0, <2>5, MovesOn
    <3>2. DOMAIN con' = DOMAIN con  BY <2>0, <2>5, OwedBySteps
    <3> QED BY <2>0, <3>1, <3>2, MovedKeeps, QuitKeeps
  <2>6. ASSUME FailTurn \/ Boundary \/ StopAtUse PROVE LoopInv'
    <3>1. Quit  BY <2>0, <2>6, MovesOn
    <3> QED BY <2>0, <3>1, QuitKeeps
  <2>7. ASSUME RefuseUse \/ RejectUse PROVE LoopInv'
    <3>1. Handled \/ Quit  BY <2>0, <2>7, HandlesUse
    <3>2. con' = con  BY <2>0, <2>7, OwedBySteps
    <3> QED BY <2>0, <3>1, <3>2, HandledKeeps, QuitKeeps
  <2>8. ASSUME NEW r \in Coming, TakeException(r) \/ TakeResult(r) PROVE LoopInv'
    <3>1. Handled  BY <2>0, <2>8, HandlesUse
    <3>2. DOMAIN con' \subseteq DOMAIN con \cup {"plan"}  BY <2>0, <2>8, OwedBySteps
    <3> QED BY <2>0, <3>1, <3>2, HandledKeeps
  <2>9. ASSUME RequestStop \/ ToolFlips PROVE LoopInv'
    <3>1. UNCHANGED <<at, q, uses, pos, early, ctr, con, msgs, log, end>>
      BY <2>9 DEF RequestStop, ToolFlips, Others, gains
    <3> QED BY <3>1, OthersKeep
  <2> QED BY <1>2, <2>1, <2>2, <2>3, <2>4, <2>5, <2>6, <2>7, <2>8, <2>9 DEF LoopNext
<1> QED BY <1>1, <1>2

\* The invariant of a run of the agent.
LEMMA LoopInvariant == LoopSpec => []LoopInv
<1> QED BY LoopInvInit, LoopInvStep, PTL DEF LoopSpec

\* An Anthropic provider's conversation has one result for each tool use before the model is asked
\* again, whichever way a call takes: refused, turned down, failed, executed ahead or in its turn.
THEOREM ResultsArePaired == LoopSpec => []ResultsPaired
<1>1. LoopInv => ResultsPaired
  BY DEF LoopInv, ResultsPaired, Answered, Unanswered
<1> QED BY <1>1, LoopInvariant, PTL

\* A run executes no call twice, unless a result was dropped by a refusal: what is executed is noted
\* first, and what is executed ahead is not turned down by the checks that follow.
THEOREM CallsRunOnce == LoopSpec => []NoRepeat
<1>1. LoopInv => NoRepeat  BY DEF LoopInv
<1> QED BY <1>1, LoopInvariant, PTL

\* A run with an open output ends as blocked, with what was written under limited coverage, or in
\* the middle of a turn, never with an ordinary answer.
THEOREM OpenOutputsShow == LoopSpec => []ContractGate
<1>1. LoopInv => ContractGate  BY DEF LoopInv
<1> QED BY <1>1, LoopInvariant, PTL

-----------------------------------------------------------------------------
\* A tool that runs has a path; a file is a record with the four fields.
IsFile(f) == f = [there |-> f.there, ver |-> f.ver, size |-> f.size, sec |-> f.sec]
FileShapes ==
    /\ disk = [p \in Paths |-> disk[p]] /\ \A p \in Paths : IsFile(disk[p])
    /\ known = [p \in Paths |-> known[p]] /\ marks = [p \in Paths |-> marks[p]]
    /\ handling = [tool |-> handling.tool, path |-> handling.path, at |-> handling.at, base |-> handling.base]
    /\ handling.at \in {"idle", "mark", "load", "write"}
    /\ handling.at = "load" => handling.tool = "Edit"
    /\ handling.at = "write" => handling.tool \in {"Edit", "Write"}
    /\ handling # NoTool => handling.path \in Paths /\ handling.at # "idle"
    /\ handling.at = "mark" => known[handling.path].there

\* A fingerprint is that of the file as it was last read from or written, unless that is under way.
MarksKnown ==
    \A p \in Paths \ meddled :
        marks[p] # NoMark /\ ~ (handling.at = "mark" /\ handling.path = p) => marks[p] = Fingerprint(known[p])

\* What a tool that nobody meddled with finds on the disk.
Found(p) ==
    /\ handling.at = "mark" => disk[p] = known[p] /\ disk[p].there
    /\ handling.at = "write" /\ handling.tool = "Edit" => disk[p].ver = handling.base
    /\ handling.at = "write" /\ handling.tool = "Write" /\ disk[p].there => WasReadAndUnchanged(p)
FileInv == FileShapes /\ MarksKnown /\ (handling # NoTool /\ handling.path \notin meddled => Found(handling.path))

\* Nothing has been read, and no tool runs, at first.
LEMMA FileStart == FileInit => FileInv
<1> SUFFICES ASSUME FileInit PROVE FileInv  OBVIOUS
<1>1. handling = NoTool /\ handling.at = "idle"  BY DEF FileInit, NoTool
<1>2. FileShapes
  <2>1. \A p \in Paths : disk[p] = [there |-> TRUE, ver |-> 1, size |-> 1, sec |-> 0]  BY DEF FileInit
  <2>2. \A p \in Paths : IsFile(disk[p])  BY <2>1 DEF IsFile
  <2>3. handling = [tool |-> handling.tool, path |-> handling.path, at |-> handling.at, base |-> handling.base]
    BY <1>1 DEF NoTool
  <2> QED BY <1>1, <2>2, <2>3 DEF FileInit, FileShapes
<1>3. MarksKnown  BY DEF FileInit, MarksKnown
<1> QED BY <1>1, <1>2, <1>3 DEF FileInv

\* A new text is a file.
LEMMA WrittenIs == ASSUME NEW size PROVE IsFile(Written(size)) /\ Written(size).there
BY DEF IsFile, Written

\* What is removed is still a record of the same fields.
LEMMA RemovedIs == ASSUME NEW g, IsFile(g) PROVE IsFile([g EXCEPT !.there = FALSE])
<1>1. g = [there |-> g.there, ver |-> g.ver, size |-> g.size, sec |-> g.sec]  BY DEF IsFile
<1>2. DOMAIN g = {"there", "ver", "size", "sec"}  BY <1>1
<1> DEFINE r == [g EXCEPT !.there = FALSE]
<1>3. r = [k \in DOMAIN g |-> IF k = "there" THEN FALSE ELSE g[k]]  BY <1>1
<1>4. r = [k \in {"there", "ver", "size", "sec"} |-> r[k]]  BY <1>2, <1>3
<1> HIDE DEF r
<1>5. IsFile(r)  BY <1>4 DEF IsFile
<1> QED BY <1>5 DEF r

\* Each step of the tools, and of anybody else, keeps the two.
LEMMA FileStep == FileInv /\ [FileNext]_filevars => FileInv'
<1> SUFFICES ASSUME FileInv, [FileNext]_filevars PROVE FileInv'  OBVIOUS
<1> USE DEF FileInv
<1>1. CASE UNCHANGED <<disk, marks, known, meddled, handling>>
  BY <1>1 DEF FileShapes, MarksKnown, Found, WasReadAndUnchanged
<1>2. ASSUME NEW p \in Paths, Foreign(p) PROVE FileInv'
  <2>1. /\ \E f : IsFile(f) /\ disk' = [disk EXCEPT ![p] = f]
        /\ meddled' = (IF handling.path = p THEN meddled \cup {p} ELSE meddled)
        /\ UNCHANGED <<marks, known, handling>>
    <3>1. CASE \E size \in FileSizes : disk' = [disk EXCEPT ![p] = Written(size)]
      BY <1>2, <3>1, WrittenIs DEF Foreign
    <3>2. CASE disk' = [disk EXCEPT ![p].there = FALSE]
      <4> DEFINE f == [disk[p] EXCEPT !.there = FALSE]
      <4>1. disk' = [disk EXCEPT ![p] = f]  BY <3>2
      <4>2. IsFile(f)  BY RemovedIs DEF FileShapes
      <4> HIDE DEF f
      <4> QED BY <1>2, <4>1, <4>2 DEF Foreign
    <3> QED BY <1>2, <3>1, <3>2 DEF Foreign
  <2>2. FileShapes'  BY <2>1 DEF FileShapes
  <2>3. MarksKnown'  BY <2>1 DEF MarksKnown
  <2>4. ASSUME handling' # NoTool, handling'.path \notin meddled' PROVE Found(handling.path)'
    <3>1. handling.path # p /\ handling.path \in Paths /\ disk'[handling.path] = disk[handling.path]
      BY <2>1, <2>4 DEF FileShapes
    <3> QED BY <2>1, <2>4, <3>1 DEF Found, WasReadAndUnchanged
  <2> QED BY <2>1, <2>2, <2>3, <2>4
<1>3. ASSUME NEW p \in Paths, NEW plain, ReadText(p, plain) PROVE FileInv'
  <2>1. handling' = [tool |-> "Read", path |-> p, at |-> "mark", base |-> disk[p].ver] /\ handling = NoTool
        /\ known' = [known EXCEPT ![p] = disk[p]] /\ UNCHANGED <<disk, marks, meddled>> /\ disk[p].there
    BY <1>3 DEF ReadText
  <2>2. FileShapes'  BY <2>1 DEF FileShapes
  <2>3. MarksKnown'  BY <2>1 DEF MarksKnown, FileShapes, NoTool
  <2>4. Found(p)'  BY <2>1 DEF Found, FileShapes
  <2> QED BY <2>1, <2>2, <2>3, <2>4
<1>4. CASE MarkRead
  <2>1. handling.at = "mark" /\ handling # NoTool /\ handling.path \in Paths  BY <1>4 DEF MarkRead, NoTool, FileShapes
  <2> DEFINE p == handling.path
  <2>2. /\ handling' = NoTool /\ UNCHANGED <<disk, known>>
        /\ marks' = (IF disk[p].there THEN [marks EXCEPT ![p] = Fingerprint(disk[p])] ELSE marks)
        /\ meddled' = (IF disk[p] = known[p] THEN meddled \ {p} ELSE meddled)
    BY <1>4 DEF MarkRead, MarkFileRead
  <2>3. FileShapes'  BY <2>2 DEF FileShapes, NoTool
  <2>4. ASSUME NEW x \in Paths \ meddled', marks'[x] # NoMark PROVE marks'[x] = Fingerprint(known[x])
    <3>1. CASE x = p
      <4>1. disk[p] = known[p]  BY <2>1, <2>2, <2>4, <3>1 DEF Found
      <4>2. disk[p].there  BY <2>1, <4>1 DEF FileShapes
      <4> QED BY <2>1, <2>2, <3>1, <4>1, <4>2 DEF FileShapes
    <3>2. CASE x # p  BY <2>1, <2>2, <2>4, <3>2 DEF FileShapes, MarksKnown
    <3> QED BY <3>1, <3>2
  <2>5. MarksKnown'  BY <2>2, <2>4 DEF MarksKnown, NoTool
  <2> QED BY <2>2, <2>3, <2>5
<1>5. ASSUME NEW p \in Paths, NEW tool \in {"Edit", "Write"}, NEW point \in {"load", "write"}, NEW base,
             handling' = [tool |-> tool, path |-> p, at |-> point, base |-> base],
             UNCHANGED <<disk, marks, known, meddled>>, point = "load" => tool = "Edit",
             handling.at # "mark", p \notin meddled => Found(p)'
      PROVE  FileInv'
  <2>1. FileShapes'  BY <1>5 DEF FileShapes
  <2>2. MarksKnown'  BY <1>5 DEF MarksKnown
  <2> QED BY <1>5, <2>1, <2>2
<1>6. ASSUME NEW p \in Paths, StartEdit(p) PROVE FileInv'
  <2>1. handling' = [tool |-> "Edit", path |-> p, at |-> "load", base |-> 0] /\ handling = NoTool
        /\ UNCHANGED <<disk, marks, known, meddled>>
    BY <1>6 DEF StartEdit
  <2>2. Found(p)'  BY <2>1 DEF Found
  <2> QED BY <1>5, <2>1, <2>2 DEF NoTool
<1>7. ASSUME NEW p \in Paths, StartWrite(p) PROVE FileInv'
  <2>1. handling' = [tool |-> "Write", path |-> p, at |-> "write", base |-> disk[p].ver] /\ handling = NoTool
        /\ UNCHANGED <<disk, marks, known, meddled>> /\ (disk[p].there => WasReadAndUnchanged(p))
    BY <1>7 DEF StartWrite
  <2>2. Found(p)'  BY <2>1 DEF Found, WasReadAndUnchanged
  <2> QED BY <1>5, <2>1, <2>2 DEF NoTool
<1>8. CASE LoadEdit
  <2>1. handling.tool = "Edit" /\ handling.at = "load" /\ UNCHANGED <<disk, marks, known, meddled>>
        /\ handling # NoTool /\ handling.path \in Paths
    BY <1>8 DEF LoadEdit, ToolAt, NoTool, FileShapes
  <2>2. CASE handling' = NoTool
    <3>1. FileShapes'  BY <2>1, <2>2 DEF FileShapes, NoTool
    <3>2. MarksKnown'  BY <2>1, <2>2 DEF MarksKnown, NoTool
    <3> QED BY <2>2, <3>1, <3>2
  <2>3. CASE Step("write", disk[handling.path].ver)
    <3>1. handling' = [tool |-> "Edit", path |-> handling.path, at |-> "write", base |-> disk[handling.path].ver]
      BY <2>1, <2>3 DEF Step, FileShapes
    <3>2. Found(handling.path)'  BY <2>1, <3>1 DEF Found
    <3> QED BY <1>5, <2>1, <3>1, <3>2
  <2> QED BY <1>8, <2>2, <2>3 DEF LoadEdit
<1>9. ASSUME NEW size \in FileSizes, WriteText(size) PROVE FileInv'
  <2>1. PICK p, f : p = handling.path /\ f = Written(size)  OBVIOUS
  <2>8. handling.at = "write" /\ handling # NoTool  BY <1>9 DEF WriteText, NoTool
  <2>9. p \in Paths /\ handling.tool \in {"Edit", "Write"}  BY <2>1, <2>8 DEF FileShapes
  <2>2. /\ disk' = [disk EXCEPT ![p] = f] /\ known' = [known EXCEPT ![p] = f]
        /\ UNCHANGED <<marks, meddled>> /\ IsFile(f) /\ f.there
    BY <1>9, <2>1, WrittenIs DEF WriteText
  <2>10. PICK base : base = disk'[handling.path].ver  OBVIOUS
  <2>3. handling' = [tool |-> handling.tool, path |-> p, at |-> "mark", base |-> base]
    BY <1>9, <2>1, <2>10 DEF WriteText, Step, FileShapes
  <2>4. disk'[p] = f /\ known'[p] = f  BY <2>2, <2>9 DEF FileShapes
  <2>5. FileShapes'  BY <2>8, <2>9, <2>2, <2>3, <2>4 DEF FileShapes
  <2>6. MarksKnown'  BY <2>1, <2>2, <2>3, <2>8, <2>9 DEF MarksKnown, FileShapes
  <2>7. Found(p)'  BY <2>2, <2>3, <2>4, <2>9 DEF Found
  <2> QED BY <2>1, <2>3, <2>5, <2>6, <2>7
<1>10. CASE ExitPlanMode
  <2>1. handling = NoTool /\ UNCHANGED <<marks, known, meddled, handling>>  BY <1>10 DEF ExitPlanMode
  <2>2. disk' = disk \/ \E p \in Paths : \E f : IsFile(f) /\ disk' = [disk EXCEPT ![p] = f]
    BY <1>10, WrittenIs DEF ExitPlanMode
  <2>3. FileShapes'  BY <2>1, <2>2 DEF FileShapes, NoTool
  <2>4. MarksKnown'  BY <2>1 DEF MarksKnown
  <2> QED BY <2>1, <2>3, <2>4
<1>11. ASSUME Tick \/ ExitWorktree \/ EnterPlanMode \/ \E d \in Dirs : ChangeDirectory(d) \/ EnterWorktree(d)
       PROVE  FileInv'
  BY <1>1, <1>11 DEF Tick, ExitWorktree, EnterPlanMode, ChangeDirectory, EnterWorktree
<1>12. CASE UNCHANGED filevars  BY <1>1, <1>12 DEF filevars
<1> QED BY <1>2, <1>3, <1>4, <1>6, <1>7, <1>8, <1>9, <1>10, <1>11, <1>12 DEF FileNext

\* A version that Edit and Write destroy and the session never read from was
\* written while the tool had the file, or within the grain of the fingerprint:
\* the write of a tool is reached only from its look at the file, and the
\* fingerprint is that of the file as it was last read from or written.  How
\* much of that file was shown is not asked: read.py marks all of it.
THEOREM UnopenedTextsStay == FileSpec => UnopenedIsKept
<1> DEFINE Kept == \A p \in Paths :
           (/\ handling.at = "write" /\ handling.path = p /\ disk'[p] # disk[p]
            /\ handling'.at = "mark" /\ disk[p].there)
           => \/ disk[p].ver = known[p].ver
              \/ disk[p].ver = handling.base /\ handling.tool = "Edit"
              \/ p \in meddled
              \/ Fingerprint(disk[p]) = Fingerprint(known[p])
<1>1. FileInv /\ [FileNext]_filevars => [Kept]_filevars
  <2> SUFFICES ASSUME FileInv, NEW p \in Paths, handling.at = "write", handling.path = p, disk[p].there, p \notin meddled
               PROVE  \/ disk[p].ver = handling.base /\ handling.tool = "Edit"
                      \/ Fingerprint(disk[p]) = Fingerprint(known[p])
    OBVIOUS
  <2>1. Found(p) /\ handling.tool \in {"Edit", "Write"}  BY DEF FileInv, FileShapes, NoTool
  <2>2. CASE handling.tool = "Edit"  BY <2>1, <2>2 DEF Found
  <2>3. CASE handling.tool = "Write"
    <3>1. marks[p] # NoMark /\ marks[p] = Fingerprint(disk[p])  BY <2>1, <2>3 DEF Found, WasReadAndUnchanged
    <3> QED BY <3>1 DEF FileInv, MarksKnown
  <2> QED BY <2>1, <2>2, <2>3
<1>2. FileSpec => []FileInv  BY FileStart, FileStep, PTL DEF FileSpec
<1> QED BY <1>1, <1>2, PTL DEF FileSpec, UnopenedIsKept
=============================================================================
