---------------------------- MODULE EventStream ----------------------------
(***************************************************************************)
(* The events of a job on their way to the page that asked for it: the     *)
(* list of the process, the queue of the subscriber, the rows, the stream  *)
(* that replays, follows and looks again, and what AgentPage shows.        *)
(***************************************************************************)
EXTENDS Integers, FiniteSets, Sequences, SequencesExt, Ordering

CONSTANTS
    SubscriberRoom, \* maxsize of a subscriber's queue, 200 in the code
    MaxProgress,    \* bound of the text deltas, the tool events and the telemetry of a job
    MaxBreaks       \* bound of the restarts of the process, the connections lost and the
                    \* conversations opened meanwhile

ASSUME StreamAssumption ==
    SubscriberRoom \in Nat \ {0} /\ MaxProgress \in Nat /\ MaxBreaks \in Nat

VARIABLES
    reads,      \* "local" or, with Redis streams, "merged" reads; "none" before the job
    course,     \* the job: queued, running, cancelling or ended
    events,     \* AgentJobService._events of the job
    saved,      \* the rows of the processes before: number -> event
    mailbox,    \* queue of the subscriber
    stream,     \* the iterator of the response
    page,       \* AgentPage; and whether the event it took last told it of an end
    breaks      \* restarts, lost connections and opened conversations so far

streamvars == <<reads, course, events, saved, mailbox, stream, page, breaks>>

NoRows == [i \in {} |-> 0]
NoStream == [at |-> "none", last |-> 0, backlog |-> <<>>]
\* A text is what was put together: deltas, or one of the fixed texts.
Says(words) == <<[says |-> words, n |-> 0]>>
Delta(n) == <<[says |-> "delta", n |-> n]>>
IdlePage == [at |-> "idle", status |-> "idle", text |-> <<>>, shown |-> <<>>, answers |-> 0, opened |-> FALSE, took |-> "none"]

StreamInit ==
    /\ reads = "none" /\ course = "queued" /\ events = <<>> /\ saved = NoRows /\ mailbox = <<>>
    /\ stream = NoStream /\ page = IdlePage /\ breaks = <<>>

-----------------------------------------------------------------------------
(* Events.                                                                 *)
\* What ends a stream, and what ends the reading of a page.
EndsStream(kind) == kind \in {"final", "error", "cancelled"}
EndsPage(kind) == EndsStream(kind) \/ kind = "failed"

\* A bug: deltas, which have no rows, are not counted.
NumberSaved(kind) == Len(SelectSeq(events, LAMBDA e : e.kind # "text_delta")) + 1

NumberOf(kind) == Len(events) + 1

EventsOfKind(kind) == {i \in DOMAIN events : events[i].kind = kind}

\* A full queue of the subscriber loses the event.
Emit(kind) ==
    LET event == [seq |-> NumberOf(kind), kind |-> kind, n |-> Cardinality(EventsOfKind(kind)) + 1] IN
    /\ events' = Append(events, event)
    /\ mailbox' = IF stream.at \in {"none", "closed"} \/ Len(mailbox) >= SubscriberRoom THEN mailbox ELSE Append(mailbox, event)

\* The events of these kinds, in the list or in the rows.
NumbersOf(kinds) ==
    {i \in DOMAIN events : events[i].kind \in kinds} \cup {i \in DOMAIN saved : saved[i].kind \in kinds}

\* What the runtime says is passed on as it says it, but for its final frame,
\* until it says that it has finished or failed.
Progress == {"text_delta", "tool_use", "telemetry"}
Talking == course = "running" /\ EventsOfKind("error") \cup EventsOfKind("telemetry_final") = {}

EmitProgress(kind) ==
    /\ Talking /\ Cardinality(NumbersOf(Progress)) < MaxProgress
    /\ Emit(kind) /\ UNCHANGED <<reads, course, saved, stream, page, breaks>>

\* The telemetry of the phase "final" comes before the frame that is withheld:
\* whether the job has succeeded is decided after it.  Not every run has one; a
\* job that is run again, only if that of the run before has no row (a bound).
EmitFinalTelemetry ==
    /\ Talking /\ NumbersOf({"telemetry_final"}) = {} /\ Emit("telemetry_final")
    /\ UNCHANGED <<reads, course, saved, stream, page, breaks>>

EmitRunning ==
    /\ reads # "none" /\ course = "queued" /\ course' = "running"
    /\ Emit("running") /\ UNCHANGED <<reads, saved, stream, page, breaks>>

\* An error (a cancellation likewise) that the runtime reports is passed on and ends the reading of its
\* answer; the job ends after it.
EmitUpstreamError ==
    /\ course = "running" /\ EventsOfKind("error") = {}
    /\ Emit("error") /\ UNCHANGED <<reads, course, saved, stream, page, breaks>>

EmitEnd(kind) ==
    /\ \/ course = "running" /\ kind \in {"final", "failed", "error"}
       \/ course = "cancelling" /\ kind = "cancelled"
    /\ course' = "ended" /\ Emit(kind) /\ UNCHANGED <<reads, saved, stream, page, breaks>>

\* The rows of this process show in what is read only when it has ended, for
\* until then the list has the same events: they are left until then.  Deltas
\* have none, and of the others the last may not be written yet.
RowsWritten == {{events[i] : i \in {k \in 1 .. n : events[k].kind # "text_delta"}} : n \in 0 .. Len(events)}

\* What the rows are when these events are written over them.
Overwritten(rows) ==
    LET numbers == {e.seq : e \in rows}
    IN [i \in DOMAIN saved \cup numbers |-> IF i \in numbers THEN CHOOSE e \in rows : e.seq = i ELSE saved[i]]

\* The list, the queues and the streams end with the process; a job that had
\* not ended is run again, by a process that counts from one.  Without rows to
\* read, a stream that is opened again begins with nothing.
RestartProcess ==
    /\ Len(breaks) < MaxBreaks /\ reads = "merged" /\ breaks' = Append(breaks, "restart")
    /\ \E rows \in RowsWritten : saved' = Overwritten(rows)
    /\ events' = <<>> /\ mailbox' = <<>>
    /\ course' = IF course = "running" THEN "queued" ELSE course
    /\ stream' = [stream EXCEPT !.at = IF @ = "none" THEN "none" ELSE "closed", !.backlog = <<>>]
    /\ page' = [page EXCEPT !.at = IF @ \in {"reading", "stopping"} THEN "broken" ELSE @]
    /\ UNCHANGED reads

\* Rows of the process before are overwritten by the events of their numbers,
\* some time after these are in the list.
OverwriteRows ==
    LET written == {e \in ToSet(events) : e.kind # "text_delta" /\ e.seq \in DOMAIN saved} IN
    /\ \E e \in written : saved[e.seq] # e
    /\ saved' = Overwritten(written)
    /\ UNCHANGED <<reads, course, events, mailbox, stream, page, breaks>>

-----------------------------------------------------------------------------
(* The page asks, and opens the stream of the job it was given.            *)
CreateChatJob(mode) ==
    /\ reads = "none" /\ reads' = mode /\ page.at = "idle"
    /\ page' = [page EXCEPT !.at = "created", !.status = "queued", !.shown = Says("streaming"), !.answers = 1]
    /\ Emit("queued") /\ UNCHANGED <<course, saved, stream, breaks>>

\* Without a stream: a request that fails.
CreateFails ==
    /\ page.at = "idle" /\ reads = "none"
    /\ page' = [page EXCEPT !.at = "ended", !.status = "error", !.shown = Says("request failed"), !.answers = 1]
    /\ UNCHANGED <<reads, course, events, saved, mailbox, stream, breaks>>

Rows(last) == {i \in DOMAIN saved : i > last}

\* With Redis streams the rows are merged with the list by their numbers.
EventsAfter(last) ==
    LET own == {i \in DOMAIN events : events[i].seq > last}
        numbers == InOrder(Rows(last) \cup {events[i].seq : i \in own})
        with(n) == IF n \in Rows(last) THEN saved[n] ELSE events[CHOOSE i \in own : events[i].seq = n]
    IN IF reads = "local" THEN Selected(events, own) ELSE [k \in DOMAIN numbers |-> with(numbers[k])]

\* The subscription comes first, the reading of the list after it.
Subscribe ==
    /\ page.at \in {"created", "broken"} /\ stream.at \in {"none", "closed"}
    /\ stream' = [at |-> "subscribed", last |-> IF page.at = "broken" THEN stream.last ELSE 0, backlog |-> <<>>]
    /\ page' = [page EXCEPT !.at = "reading"] /\ mailbox' = <<>>
    /\ UNCHANGED <<reads, course, events, saved, breaks>>

ReadBacklog ==
    /\ stream.at = "subscribed"
    /\ stream' = [stream EXCEPT !.at = "replaying", !.backlog = EventsAfter(stream.last)]
    /\ UNCHANGED <<reads, course, events, saved, mailbox, page, breaks>>

-----------------------------------------------------------------------------
(* What the page does with an event.                                       *)
\* A bug: the final event only fills in a text that was not streamed.
FinalTextStreamed(text) == IF text = <<>> THEN Says("final") ELSE text

FinalText(text) == Says("final")

\* The text takes the place of the placeholder; when a text is there already
\* it is added below it, for the closure that shows an event is the one of the
\* time before the message was sent, when nothing was sending.  Which
\* conversation the page has by now is not asked.
Patch(p, text) ==
    [p EXCEPT !.shown = text, !.answers = IF p.shown = Says("streaming") THEN @ ELSE @ + 1]

\* "completed" stands for "incomplete" too, which the page says instead when the
\* end it is told of is one of an answer cut short; "running" for "streaming"
\* too, when a telemetry says so.
Show(p, event) ==
    CASE event.kind = "queued" -> [p EXCEPT !.status = "queued"]
      [] event.kind \in {"running", "telemetry"} -> [p EXCEPT !.status = "running"]
      [] event.kind = "telemetry_final" -> [p EXCEPT !.status = "completed"]
      [] event.kind = "cancel_requested" -> [p EXCEPT !.status = "stopped"]
      [] event.kind = "text_delta" ->
            LET text == p.text \o Delta(event.n) IN [Patch(p, text) EXCEPT !.status = "streaming", !.text = text]
      [] event.kind = "tool_use" ->
            [Patch(p, IF p.text = <<>> THEN Says("streaming") ELSE p.text) EXCEPT !.status = "running"]
      [] event.kind = "final" ->
            [Patch(p, FinalText(p.text)) EXCEPT !.status = "completed", !.text = FinalText(p.text), !.at = "ended"]
      [] event.kind = "cancelled" -> [Patch(p, Says("cancelled")) EXCEPT !.status = "stopped", !.at = "ended"]
      [] event.kind = "failed" -> [Patch(p, Says("not done")) EXCEPT !.status = "error", !.at = "ended"]
      [] event.kind = "error" -> [Patch(p, Says("request failed")) EXCEPT !.status = "error", !.at = "ended"]

ToldOf(kind) == IF kind \in {"final", "telemetry_final"} THEN kind ELSE "none"

Yield(event, rest) ==
    /\ page' = [Show(page, event) EXCEPT !.took = ToldOf(event.kind)]
    /\ stream' = [stream EXCEPT !.last = IF event.seq > @ THEN event.seq ELSE @, !.backlog = rest,
                                !.at = IF EndsPage(event.kind) THEN "closed" ELSE @]

YieldBacklog ==
    /\ stream.at \in {"replaying", "catching"} /\ stream.backlog # <<>> /\ page.at \in {"reading", "stopping"}
    /\ Yield(Head(stream.backlog), IF EndsPage(Head(stream.backlog).kind) THEN <<>> ELSE Tail(stream.backlog))
    /\ UNCHANGED <<reads, course, events, saved, mailbox, breaks>>

\* After the replay a job that has ended ends the stream, whatever was
\* emitted meanwhile.
EndReplay ==
    /\ stream.at = "replaying" /\ stream.backlog = <<>>
    /\ stream' = [stream EXCEPT !.at = IF course = "ended" THEN "closed" ELSE "live"]
    /\ page' = IF course = "ended" THEN [page EXCEPT !.at = "ended"] ELSE page
    /\ UNCHANGED <<reads, course, events, saved, mailbox, breaks>>

\* The queue still holds what the replay and the looking again have yielded.
YieldLive ==
    /\ stream.at = "live" /\ mailbox # <<>> /\ page.at \in {"reading", "stopping"} /\ mailbox' = Tail(mailbox)
    /\ Yield(Head(mailbox), <<>>)
    /\ UNCHANGED <<reads, course, events, saved, breaks>>

\* Fifteen seconds without an event: what is there now, or a keepalive.
LookAgain ==
    /\ stream.at = "live" /\ mailbox = <<>> /\ EventsAfter(stream.last) # <<>>
    /\ stream' = [stream EXCEPT !.at = "catching", !.backlog = EventsAfter(stream.last)]
    /\ UNCHANGED <<reads, course, events, saved, mailbox, page, breaks>>

CaughtUp ==
    /\ stream.at = "catching" /\ stream.backlog = <<>> /\ stream' = [stream EXCEPT !.at = "live"]
    /\ UNCHANGED <<reads, course, events, saved, mailbox, page, breaks>>

Disconnect ==
    /\ page.at = "reading" /\ stream.at # "closed" /\ Len(breaks) < MaxBreaks /\ breaks' = Append(breaks, "connection")
    /\ stream' = [stream EXCEPT !.at = "closed", !.backlog = <<>>] /\ page' = [page EXCEPT !.at = "broken"]
    /\ UNCHANGED <<reads, course, events, saved, mailbox>>

\* AgentPage does not come back with Last-Event-ID; other clients may.
ReportFailure ==
    /\ page.at = "broken" /\ page' = [Patch(page, Says("request failed")) EXCEPT !.at = "ended", !.status = "error"]
    /\ UNCHANGED <<reads, course, events, saved, mailbox, stream, breaks>>

-----------------------------------------------------------------------------
(* The stop button asks for the cancellation and then leaves the stream;   *)
(* opening another conversation does not.  What the stop button writes does *)
(* take the place of the text above: it is called when something is sending.*)
PressStop ==
    /\ page.at = "reading" /\ page' = [page EXCEPT !.at = "stopping", !.status = "stopped", !.shown = Says("cancelling")]
    /\ IF course = "running" THEN course' = "cancelling" /\ Emit("cancel_requested")
       ELSE IF course = "queued" THEN course' = "ended" /\ Emit("cancelled")
       ELSE UNCHANGED <<course, events, mailbox>>
    /\ UNCHANGED <<reads, saved, stream, breaks>>

Abort ==
    /\ page.at = "stopping" /\ page' = [page EXCEPT !.at = "ended"]
    /\ stream' = [stream EXCEPT !.at = "closed", !.backlog = <<>>]
    /\ UNCHANGED <<reads, course, events, saved, mailbox, breaks>>

OpenConversation ==
    /\ page.at = "reading" /\ Len(breaks) < MaxBreaks /\ breaks' = Append(breaks, "opened")
    /\ page' = [page EXCEPT !.opened = TRUE, !.status = "idle", !.shown = Says("another"), !.answers = 0]
    /\ UNCHANGED <<reads, course, events, saved, mailbox, stream>>

-----------------------------------------------------------------------------
StreamNext ==
    \/ \E mode \in {"local", "merged"} : CreateChatJob(mode)
    \/ CreateFails \/ Subscribe \/ ReadBacklog \/ YieldBacklog \/ EndReplay \/ YieldLive \/ LookAgain \/ CaughtUp
    \/ EmitRunning \/ EmitUpstreamError \/ EmitFinalTelemetry \/ \E kind \in Progress : EmitProgress(kind)
    \/ \E kind \in {"final", "failed", "error", "cancelled"} : EmitEnd(kind)
    \/ RestartProcess \/ OverwriteRows \/ Disconnect \/ ReportFailure \/ PressStop \/ Abort
    \/ OpenConversation

StreamSpec == StreamInit /\ [][StreamNext]_streamvars

-----------------------------------------------------------------------------
EventKinds ==
    {"queued", "running", "telemetry_final", "cancel_requested", "final", "failed", "error", "cancelled"} \cup Progress
IsEvent(e) == e.seq \in Nat \ {0} /\ e.kind \in EventKinds /\ e.n \in Nat \ {0}

StreamTypeOK ==
    /\ reads \in {"none", "local", "merged"} /\ course \in {"queued", "running", "cancelling", "ended"}
    /\ \A s \in {events, mailbox, stream.backlog} : \A i \in DOMAIN s : IsEvent(s[i])
    /\ \A i \in DOMAIN saved : IsEvent(saved[i]) /\ saved[i].seq = i
    /\ Len(mailbox) <= SubscriberRoom
    /\ stream.at \in {"none", "subscribed", "replaying", "live", "catching", "closed"} /\ stream.last \in Nat
    /\ page.at \in {"idle", "created", "reading", "stopping", "broken", "ended"} /\ page.opened \in BOOLEAN /\ page.answers \in Nat
    /\ page.took \in {"none", "final", "telemetry_final"}

\* In a process that was not restarted, a stream that still follows a job that
\* has ended can still deliver its end: the number of the last event is above
\* what the stream has passed, so that looking again finds it even if the
\* queue was full when it was emitted.
EndIsAhead ==
    "restart" \notin ToSet(breaks) /\ stream.at = "live" /\ course = "ended" => Last(events).seq > stream.last

\* A page that took the final event says complete and shows the final text, of
\* a job whose outcome is decided, although deltas were replayed and delivered
\* twice, or lost.  The page says complete earlier only if what it took last is
\* the final telemetry of the runtime: the job may still fail then, which is not
\* what the comment beside the withheld frame promises (agent_jobs.py:1091).
CompleteIsFinal ==
    ~page.opened =>
        /\ page.took = "final" => page.status = "completed" /\ page.shown = Says("final") /\ course = "ended"
        /\ page.status = "completed" => page.took \in {"final", "telemetry_final"}
=============================================================================
