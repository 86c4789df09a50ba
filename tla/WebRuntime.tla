----------------------------- MODULE WebRuntime -----------------------------
(***************************************************************************)
(* The agent runtime's web process (src/agent/runtime/web_app.py): one     *)
(* thread per HTTP request, a semaphore of run slots, a lock per session,  *)
(* a table of REPL objects and one of running jobs, and a file per session.*)
(*                                                                         *)
(* A REPL object (with its conversation and its tool context) is named by  *)
(* the request that built it, and by whether that was only to show it: the *)
(* request for a new session may build one and then another.  A            *)
(* conversation is the set of requests whose prompt and answer it holds.   *)
(***************************************************************************)
EXTENDS Integers, FiniteSets

CONSTANTS
    Requests,     \* requests, one handler thread each
    WebSessions,  \* conversations
    WebJobs,      \* job ids in the signed claims
    Offers,       \* what each request may ask: request -> set of [kind, sess, job]
    MaxRuns,      \* MAX_CONCURRENT_AGENT_RUNS
    WebFaults,    \* may the process stop (once)
    NoReq         \* no request, no object

ASSUME WebAssumption ==
    /\ MaxRuns \in Nat \ {0}
    /\ NoReq \notin Requests \cup (Requests \X BOOLEAN)
    /\ Offers \in [Requests -> SUBSET [kind : {"stream", "chat", "cancel", "new", "get"},
                                       sess : WebSessions, job : WebJobs]]

VARIABLES
    th,        \* the handler threads
    permits,   \* AGENT_RUN_SEMAPHORE
    active,    \* ACTIVE_AGENT_RUNS
    held,      \* SESSION_LOCKS: the request holding each session's lock
    repls,     \* WEB_REPLS: the REPL object of each session
    obj,       \* the REPL objects: job served, cancellation event, conversation
    contexts,  \* ACTIVE_RUN_CONTEXTS: the REPL object a running job uses
    file,      \* the session files
    crashed    \* the process stopped once

webvars == <<th, permits, active, held, repls, obj, contexts, file, crashed>>
tables == <<permits, active, held, contexts>>
objects == <<repls, obj, file>>

Idle == [pc |-> "new", kind |-> "get", sess |-> CHOOSE s \in WebSessions : TRUE,
         job |-> CHOOSE j \in WebJobs : TRUE, uses |-> NoReq, snap |-> {}, end |-> "none"]

ReplObjects == Requests \X BOOLEAN
Builder(o) == o[1]
Blank == [job |-> CHOOSE j \in WebJobs : TRUE, cancelled |-> FALSE, conv |-> {}]

WebInit ==
    /\ th = [r \in Requests |-> Idle]
    /\ permits = MaxRuns /\ active = 0
    /\ held = [s \in WebSessions |-> NoReq]
    /\ repls = [s \in WebSessions |-> NoReq]
    /\ obj = [o \in ReplObjects |-> Blank]
    /\ contexts = [j \in WebJobs |-> NoReq]
    /\ file = [s \in WebSessions |-> [torn |-> FALSE, conv |-> {}, open |-> {}, clash |-> FALSE]]
    /\ crashed = FALSE

At(r, pc) == th[r].pc = pc
Goto(r, pc) == th' = [th EXCEPT ![r].pc = pc]
\* The handler answers and its thread ends; what it held is forgotten.
Gone(t, end) == [t EXCEPT !.pc = "done", !.uses = NoReq, !.snap = {}, !.end = end]
Done(r, end) == th' = [th EXCEPT ![r] = Gone(@, end)]

(***************************************************************************)
(* Admission.  A stream takes a run slot and then its session's lock,      *)
(* both without waiting; the other requests take neither.                  *)
(***************************************************************************)
Arrive(r) ==
    /\ At(r, "new")
    /\ \E q \in Offers[r] :
         th' = [th EXCEPT ![r] = [@ EXCEPT
                    !.kind = q.kind, !.sess = q.sess, !.job = q.job,
                    !.pc = CASE q.kind = "stream" -> "slot"
                             [] q.kind = "cancel" -> "find"
                             [] q.kind = "new"    -> "evict"
                             [] OTHER             -> "lookup"]]
    /\ UNCHANGED <<tables, objects, crashed>>

\* _acquire_agent_run_slot: without a free slot the request is refused.
AcquireSlot(r) ==
    /\ At(r, "slot")
    /\ IF permits > 0
       THEN permits' = permits - 1 /\ active' = active + 1 /\ Goto(r, "lock")
       ELSE UNCHANGED <<permits, active>> /\ Done(r, "too_many")
    /\ UNCHANGED <<held, contexts, objects, crashed>>

\* Mutant: a conflict is answered and the slot kept.
LockSessionKeepsSlot(r) ==
    /\ At(r, "lock")
    /\ IF held[th[r].sess] = NoReq
       THEN held' = [held EXCEPT ![th[r].sess] = r] /\ Goto(r, "lookup")
       ELSE held' = held /\ Done(r, "conflict")
    /\ UNCHANGED <<permits, active, contexts, objects, crashed>>

\* Mutant: nobody asks for the lock.
LockSessionNot(r) ==
    /\ At(r, "lock")
    /\ held' = [held EXCEPT ![th[r].sess] = r]
    /\ Goto(r, "lookup")
    /\ UNCHANGED <<permits, active, contexts, objects, crashed>>

LockSession(r) ==
    /\ At(r, "lock")
    /\ IF held[th[r].sess] = NoReq
       THEN /\ held' = [held EXCEPT ![th[r].sess] = r]
            /\ Goto(r, "lookup")
       ELSE /\ held' = held
            /\ th' = [th EXCEPT ![r] = [@ EXCEPT !.pc = "free", !.end = "conflict"]]
    /\ UNCHANGED <<permits, active, contexts, objects, crashed>>

ReleaseSlot(r) ==
    /\ At(r, "free")
    /\ active' = IF active > 0 THEN active - 1 ELSE 0
    /\ permits' = permits + 1
    /\ Done(r, th[r].end)
    /\ UNCHANGED <<held, contexts, objects, crashed>>

\* Mutant: only an answer takes the job out of the table.
LeaveAnswered(r) ==
    /\ At(r, "leave")
    /\ contexts' = IF th[r].end = "final" THEN [contexts EXCEPT ![th[r].job] = NoReq] ELSE contexts
    /\ held' = [held EXCEPT ![th[r].sess] = NoReq]
    /\ Goto(r, "free")
    /\ UNCHANGED <<permits, active, objects, crashed>>

\* The finally block of _chat_stream: the job leaves the table of running
\* jobs, whatever context is there, and the lock is given back.
Leave(r) ==
    /\ At(r, "leave")
    /\ contexts' = [contexts EXCEPT ![th[r].job] = NoReq]
    /\ held' = [held EXCEPT ![th[r].sess] = NoReq]
    /\ Goto(r, "free")
    /\ UNCHANGED <<permits, active, objects, crashed>>

\* A request that ends, by an answer or an exception: only streams have
\* anything to give back.
End(r, end) ==
    IF th[r].kind = "stream" THEN th' = [th EXCEPT ![r] = [@ EXCEPT !.pc = "leave", !.end = end]]
    ELSE Done(r, end)

(***************************************************************************)
(* _get_web_repl: look the object up, or build one from the session file   *)
(* and enter it in the table.  No lock covers the two steps.               *)
(***************************************************************************)
Built(r) == <<r, th[r].kind = "get">>

WithRepl(r, o) ==
    IF th[r].kind = "get" THEN Done(r, "shown")
    ELSE th' = [th EXCEPT ![r] = [@ EXCEPT
                    !.uses = o, !.pc = IF th[r].kind = "new" THEN "save" ELSE "apply"]]

\* A half-written file is no JSON: the request fails.
LookupRepl(r) ==
    /\ At(r, "lookup")
    /\ LET o == repls[th[r].sess]
           f == file[th[r].sess]
       IN IF o # NoReq THEN WithRepl(r, o) /\ obj' = obj
          ELSE IF f.torn THEN End(r, "failed") /\ obj' = obj
          ELSE /\ obj' = [obj EXCEPT ![Built(r)] = [Blank EXCEPT !.conv = f.conv]]
               /\ Goto(r, "register")
    /\ UNCHANGED <<tables, repls, file, crashed>>

RegisterRepl(r) ==
    /\ At(r, "register")
    /\ repls' = [repls EXCEPT ![th[r].sess] = Built(r)]
    /\ WithRepl(r, Built(r))
    /\ UNCHANGED <<tables, obj, file, crashed>>

\* /api/session/new forgets the session's object first.
EvictRepl(r) ==
    /\ At(r, "evict")
    /\ repls' = [repls EXCEPT ![th[r].sess] = NoReq]
    /\ Goto(r, "lookup")
    /\ UNCHANGED <<tables, obj, file, crashed>>

(***************************************************************************)
(* A run: the request's claims are written into the tool context of the    *)
(* object, whose cancellation event is cleared; then the job is entered in *)
(* the table where a cancel request finds it.                              *)
(***************************************************************************)
ApplyRuntimeContext(r) ==
    /\ At(r, "apply")
    /\ obj' = [obj EXCEPT ![th[r].uses].job = th[r].job,
                          ![th[r].uses].cancelled = FALSE]
    /\ Goto(r, IF th[r].kind = "stream" THEN "enter" ELSE "run")
    /\ UNCHANGED <<tables, repls, file, crashed>>

\* Mutant: the event is cleared once more.
EnterContextCleared(r) ==
    /\ At(r, "enter")
    /\ contexts' = [contexts EXCEPT ![obj[th[r].uses].job] = th[r].uses]
    /\ obj' = [obj EXCEPT ![th[r].uses].cancelled = FALSE]
    /\ Goto(r, "run")
    /\ UNCHANGED <<permits, active, held, repls, file, crashed>>

\* The key is the job id the context holds now, not the request's own.
EnterContext(r) ==
    /\ At(r, "enter")
    /\ contexts' = [contexts EXCEPT ![obj[th[r].uses].job] = th[r].uses]
    /\ Goto(r, "run")
    /\ UNCHANGED <<permits, active, held, objects, crashed>>

Answered(r) ==
    /\ At(r, "run")
    /\ obj' = [obj EXCEPT ![th[r].uses].conv = @ \cup {r}]
    /\ Goto(r, "save")
    /\ UNCHANGED <<tables, repls, file, crashed>>

\* A prompt with a fixed workflow is answered without the loop: its tools are
\* refused after a cancellation, and it answers with what they returned.
AnswerWorkflow(r) == Answered(r)

\* The agent loop returns, in a stream or in /api/chat.
AnswerStream(r) == th[r].kind = "stream" /\ Answered(r)
AnswerChat(r) == th[r].kind = "chat" /\ Answered(r)

\* The loop sees the event of its context: the stream says so and ends,
\* /api/chat fails.  Nothing is saved.
CancelRun(r) ==
    /\ At(r, "run")
    /\ obj[th[r].uses].cancelled
    /\ End(r, IF th[r].kind = "stream" THEN "cancelled" ELSE "failed")
    /\ UNCHANGED <<tables, objects, crashed>>

\* The model or the loop fails, or a write finds the client gone.
FailRun(r) ==
    /\ At(r, "run")
    /\ End(r, "failed")
    /\ UNCHANGED <<tables, objects, crashed>>

\* Session.save takes the conversation, truncates the file and writes what it
\* took.  Two writers at once can leave the end of the longer text behind.
TruncateFile(r) ==
    /\ At(r, "save")
    /\ file' = [file EXCEPT ![th[r].sess] =
                  [torn |-> TRUE, conv |-> {}, open |-> @.open \cup {r},
                   clash |-> @.clash \/ @.open # {}]]
    /\ th' = [th EXCEPT ![r] = [@ EXCEPT !.pc = "write", !.snap = obj[th[r].uses].conv]]
    /\ UNCHANGED <<tables, repls, obj, crashed>>

\* /api/session/new answers like GET /api/session once it has saved.
WriteFile(r) ==
    /\ At(r, "write")
    /\ LET f == file[th[r].sess]
           rest == f.open \ {r}
       IN \E torn \in IF f.clash THEN BOOLEAN ELSE {FALSE} :
            file' = [file EXCEPT ![th[r].sess] =
                       [torn |-> torn, conv |-> IF torn THEN {} ELSE th[r].snap,
                        open |-> rest, clash |-> f.clash /\ rest # {}]]
    /\ th' = IF th[r].kind = "new"
             THEN [th EXCEPT ![r] = [@ EXCEPT !.pc = "lookup", !.kind = "get", !.snap = {}]]
             ELSE [th EXCEPT ![r] = [@ EXCEPT !.pc = "final", !.snap = {}]]
    /\ UNCHANGED <<tables, repls, obj, crashed>>

\* The answer is kept even if the client has gone when it is sent.
SendFinal(r) ==
    /\ At(r, "final")
    /\ \E end \in {"final", "failed"} : End(r, end)
    /\ UNCHANGED <<tables, objects, crashed>>

(***************************************************************************)
(* /api/cancel: find the context of the job, then set its event.           *)
(***************************************************************************)
FindContext(r) ==
    /\ At(r, "find")
    /\ LET o == contexts[th[r].job] IN
         IF o = NoReq THEN Done(r, "unknown")
         ELSE th' = [th EXCEPT ![r] = [@ EXCEPT !.uses = o, !.pc = "signal"]]
    /\ UNCHANGED <<tables, objects, crashed>>

SignalCancel(r) ==
    /\ At(r, "signal")
    /\ obj' = [obj EXCEPT ![th[r].uses].cancelled = TRUE]
    /\ Done(r, "signalled")
    /\ UNCHANGED <<tables, repls, file, crashed>>

(***************************************************************************)
(* Faults.                                                                 *)
(***************************************************************************)
\* The process stops and starts again: files stay as they are.
Restart ==
    /\ WebFaults /\ ~crashed
    /\ crashed' = TRUE
    /\ th' = [r \in Requests |-> IF At(r, "new") THEN th[r]
                                 ELSE Gone(th[r], IF At(r, "done") THEN th[r].end ELSE "failed")]
    /\ permits' = MaxRuns /\ active' = 0
    /\ held' = [s \in WebSessions |-> NoReq]
    /\ repls' = [s \in WebSessions |-> NoReq]
    /\ contexts' = [j \in WebJobs |-> NoReq]
    /\ file' = [s \in WebSessions |-> [file[s] EXCEPT !.open = {}, !.clash = FALSE]]
    /\ UNCHANGED obj

Handle(r) ==
    \/ Arrive(r) \/ AcquireSlot(r) \/ LockSession(r)
    \/ LookupRepl(r) \/ RegisterRepl(r) \/ EvictRepl(r)
    \/ ApplyRuntimeContext(r) \/ EnterContext(r)
    \/ AnswerWorkflow(r) \/ AnswerStream(r) \/ AnswerChat(r) \/ CancelRun(r) \/ FailRun(r)
    \/ TruncateFile(r) \/ WriteFile(r) \/ SendFinal(r)
    \/ FindContext(r) \/ SignalCancel(r)
    \/ Leave(r) \/ ReleaseSlot(r)

WebNext == Restart \/ \E r \in Requests : Handle(r)

WebSpec == WebInit /\ [][WebNext]_webvars

-----------------------------------------------------------------------------
PCs == {"new", "slot", "lock", "lookup", "register", "evict",
        "apply", "enter", "run", "save", "write", "final", "find", "signal",
        "leave", "free", "done"}
Ends == {"none", "too_many", "conflict", "failed", "cancelled", "final", "shown",
         "unknown", "signalled"}

\* Type invariant of the web process.
WebTypeOK ==
    /\ th \in [Requests -> [pc : PCs, kind : {"stream", "chat", "cancel", "new", "get"},
                            sess : WebSessions, job : WebJobs, uses : ReplObjects \cup {NoReq},
                            snap : SUBSET Requests, end : Ends]]
    /\ permits \in 0 .. MaxRuns /\ active \in 0 .. MaxRuns
    /\ held \in [WebSessions -> Requests \cup {NoReq}]
    /\ repls \in [WebSessions -> ReplObjects \cup {NoReq}]
    /\ obj \in [ReplObjects -> [job : WebJobs, cancelled : BOOLEAN, conv : SUBSET Requests]]
    /\ contexts \in [WebJobs -> ReplObjects \cup {NoReq}]
    /\ file \in [WebSessions -> [torn : BOOLEAN, conv : SUBSET Requests,
                                 open : SUBSET Requests, clash : BOOLEAN]]
    /\ crashed \in BOOLEAN

Streams == {r \in Requests : th[r].kind = "stream"}
OnObject(r) == th[r].pc \in {"apply", "enter", "run", "save", "write", "final", "leave"}
\* Only streams and cancellations have used the session.
StreamsOnly(s) == \A r \in Requests : th[r].sess = s /\ th[r].pc # "new" => th[r].kind \in {"stream", "cancel"}

\* Every run slot is either free or with exactly one stream that will give it
\* back, on each way out of _chat_stream; the counter shown by /api/status
\* counts them and never passes the limit.
SlotsAccounted ==
    LET running == {r \in Streams : th[r].pc \notin {"new", "slot", "done"}}
    IN permits = MaxRuns - Cardinality(running) /\ active = Cardinality(running)

\* Two streams never work on one REPL object, so never on one conversation or
\* one tool context.
OneRunPerObject ==
    \A r, q \in Streams :
        OnObject(r) /\ OnObject(q) /\ th[r].uses = th[q].uses /\ th[r].uses # NoReq => r = q

\* A job in the table of running jobs is being run, on that object, by a
\* stream that has not ended: a cancellation finds no finished run.
RunningJobsExact ==
    \A j \in WebJobs : contexts[j] # NoReq =>
        \/ ~ StreamsOnly(th[Builder(contexts[j])].sess)
        \/ \E r \in Streams : /\ th[r].job = j /\ th[r].uses = contexts[j]
                             /\ th[r].pc \in {"run", "save", "write", "final", "leave"}

\* Once a run's context has been cleared of earlier cancellations, nothing
\* clears a cancellation that reaches it, but a direct chat in its session.
CancelSticks ==
    [][\A r \in Streams : /\ th[r].pc \in {"enter", "run"} /\ obj[th[r].uses].cancelled
                         /\ th'[r].pc \in {"enter", "run"}
         => \/ obj'[th[r].uses].cancelled
            \/ \E c \in Requests : th[c].kind = "chat" /\ At(c, "apply") /\ th'[c].pc = "run"]_webvars

\* In a session that only streams have used, an answer given to the client
\* stays in the session file, whole, whatever the other requests do.
AnswersKept ==
    \A s \in WebSessions : StreamsOnly(s) /\ ~ crashed /\ file[s].open = {}
        => /\ ~ file[s].torn
           /\ \A r \in Requests : th[r].sess = s /\ th[r].end = "final" => r \in file[s].conv
=============================================================================
