----------------------------- MODULE WorkLists -----------------------------
(***************************************************************************)
(* The lists a ToolContext keeps for its model: tasks, todos, crons, the   *)
(* team and the outbox, changed by the tools of the same names, and the    *)
(* background threads of TaskManager, which end on their own.              *)
(***************************************************************************)
EXTENDS Integers, FiniteSets, Sequences, TLC

CONSTANTS
    TaskIds,    \* identifiers uuid4 can return
    Threads,    \* background tasks that may be started
    CronIds,
    MaxOutbox   \* bound of the messages in the outbox

VARIABLES
    tasks,      \* task id -> task
    todos,      \* context.todos: the statuses
    crons,      \* ids of context.crons
    team,       \* context.team, and .clawd/team.json
    outbox,     \* context.outbox
    threads,    \* background task -> where its starting and running is
    managed,    \* TaskManager._tasks
    stopEvents    \* tasks whose stop_event is set

listvars == <<tasks, todos, crons, team, outbox, threads, managed, stopEvents>>

WorkStatuses == {"pending", "in_progress", "completed"}
TaskFields == [subject : {"given", "changed"}, status : WorkStatuses, blocks : SUBSET TaskIds, blockedBy : SUBSET TaskIds]

ListInit ==
    /\ tasks = <<>> /\ todos = <<>> /\ crons = {}
    /\ team = [active |-> FALSE, file |-> FALSE] /\ outbox = <<>>
    /\ threads = [t \in Threads |-> "new"] /\ managed = {} /\ stopEvents = {}

-----------------------------------------------------------------------------
(* Tasks.  A dependency is any identifier, on one side only.               *)
TaskCreate(id) ==
    /\ id \notin DOMAIN tasks
    /\ tasks' = id :> [subject |-> "given", status |-> "pending", blocks |-> {}, blockedBy |-> {}] @@ tasks
    /\ UNCHANGED <<todos, crons, team, outbox, threads, managed, stopEvents>>

\* The fields are taken one after the other: a status or a list that is
\* refused leaves the fields before it changed.
TaskUpdate(id, asked) ==
    LET titled == [tasks[id] EXCEPT !.subject = asked.subject]
        moved == [titled EXCEPT !.status = asked.status]
        linked == [moved EXCEPT !.blocks = @ \cup asked.blocks, !.blockedBy = @ \cup asked.blockedBy]
    IN
    /\ id \in DOMAIN tasks
    /\ \/ asked.status = "deleted" /\ tasks' = [t \in DOMAIN tasks \ {id} |-> tasks[t]]
       \/ asked.status = "unknown" /\ tasks' = [tasks EXCEPT ![id] = titled]
       \/ asked.status \in WorkStatuses /\ ~asked.listed /\ tasks' = [tasks EXCEPT ![id] = moved]
       \/ asked.status \in WorkStatuses /\ asked.listed /\ tasks' = [tasks EXCEPT ![id] = linked]
    /\ UNCHANGED <<todos, crons, team, outbox, threads, managed, stopEvents>>

TaskInputs ==
    [subject : {"changed"}, status : {"pending", "completed", "deleted", "unknown"}, listed : BOOLEAN,
     blocks : {{}} \cup {{t} : t \in TaskIds}, blockedBy : {{}} \cup {{t} : t \in TaskIds}]

-----------------------------------------------------------------------------
\* A list that is all done is kept empty; the result still has it.
TodoWrite(list) ==
    /\ todos' = IF \A i \in DOMAIN list : list[i] = "completed" THEN <<>> ELSE list
    /\ UNCHANGED <<tasks, crons, team, outbox, threads, managed, stopEvents>>

CronCreate(id) == id \notin crons /\ crons' = crons \cup {id} /\ UNCHANGED <<tasks, todos, team, outbox, threads, managed, stopEvents>>
CronDelete(id) == crons' = crons \ {id} /\ UNCHANGED <<tasks, todos, team, outbox, threads, managed, stopEvents>>

\* The file outlives a context that ends without TeamDelete, and a failed unlink.
TeamCreate == team' = [active |-> TRUE, file |-> TRUE] /\ UNCHANGED <<tasks, todos, crons, outbox, threads, managed, stopEvents>>
TeamDelete ==
    /\ team.active
    /\ \E left \in BOOLEAN : team' = [active |-> FALSE, file |-> left]
    /\ UNCHANGED <<tasks, todos, crons, outbox, threads, managed, stopEvents>>

\* SendUserMessage, SendMessage and StructuredOutput.
Deliver(kind) ==
    /\ Len(outbox) < MaxOutbox /\ outbox' = Append(outbox, kind)
    /\ UNCHANGED <<tasks, todos, crons, team, threads, managed, stopEvents>>

-----------------------------------------------------------------------------
(* TaskManager: start lists the task and then starts its thread; the thread *)
(* takes it off the list when its target is done.                          *)
Lists == <<tasks, todos, crons, team, outbox>>

ListTask(t) ==
    /\ threads[t] = "new" /\ threads' = [threads EXCEPT ![t] = "listed"]
    /\ managed' = managed \cup {t} /\ UNCHANGED <<stopEvents, Lists>>

StartThread(t) == threads[t] = "listed" /\ threads' = [threads EXCEPT ![t] = "running"] /\ UNCHANGED <<managed, stopEvents, Lists>>

EndThread(t) ==
    /\ threads[t] = "running" /\ threads' = [threads EXCEPT ![t] = "ended"]
    /\ managed' = managed \ {t} /\ UNCHANGED <<stopEvents, Lists>>

\* TaskStop sets the event of a task that is still listed.
TaskStop(t) == t \in managed /\ stopEvents' = stopEvents \cup {t} /\ UNCHANGED <<threads, managed, Lists>>

-----------------------------------------------------------------------------
ListNext ==
    \/ \E id \in TaskIds : TaskCreate(id) \/ \E asked \in TaskInputs : TaskUpdate(id, asked)
    \/ \E list \in {<<"pending">>, <<"completed">>} : TodoWrite(list)
    \/ \E id \in CronIds : CronCreate(id) \/ CronDelete(id)
    \/ TeamCreate \/ TeamDelete
    \/ \E kind \in {"user"} : Deliver(kind)
    \/ \E t \in Threads : ListTask(t) \/ StartThread(t) \/ EndThread(t) \/ TaskStop(t)

ListSpec == ListInit /\ [][ListNext]_listvars

-----------------------------------------------------------------------------
ListTypeOK ==
    /\ DOMAIN tasks \subseteq TaskIds /\ \A id \in DOMAIN tasks : tasks[id] \in TaskFields
    /\ \A i \in DOMAIN todos : todos[i] \in WorkStatuses
    /\ crons \subseteq CronIds /\ team \in [active : BOOLEAN, file : BOOLEAN] /\ Len(outbox) <= MaxOutbox
    /\ threads \in [Threads -> {"new", "listed", "running", "ended"}]
    /\ managed \subseteq Threads /\ stopEvents \subseteq Threads
=============================================================================
