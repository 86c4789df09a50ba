----------------------------- MODULE RunReport -----------------------------
(***************************************************************************)
(* What the runs of one session of the web runtime say: to the page, one   *)
(* line after another, to the conversation in memory, and to the file of   *)
(* the session.  The session's lock lets one run through at a time.        *)
(***************************************************************************)
EXTENDS Integers, Sequences, SequencesExt, FiniteSetsExt

CONSTANTS
    ReportRuns,  \* bound of the runs of the session
    ReportCalls, \* bound of the calls of tools in a run
    FlowCap      \* the last so many steps of a run are shown

ASSUME ReportAssumption == ReportRuns \in Nat \ {0} /\ ReportCalls \in Nat /\ FlowCap \in Nat \ {0}

VARIABLES
    answering, \* the run: what it does, its tools, whether the page listens
    memory,    \* the session's REPL object: its provider and conversation
    stored     \* the session's file

reportvars == <<answering, memory, stored>>

-----------------------------------------------------------------------------
(* Conversations.  A message knows the run that wrote it; of an answer also *)
(* the run whose text it has, and the run whose trace (0: none).            *)
Message(who, n) == [who |-> who, run |-> n, text |-> n, trace |-> 0]
BlankAnswer(n) == [Message("answer", n) EXCEPT !.text = 0]

WireOf(provider) == IF provider = 1 THEN "messages" ELSE "completions"

NoSession == [provider |-> 0, talk |-> <<>>, phase |-> "none", uses |-> 0, results |-> 0]

\* The object in memory, if it has the default provider, else a new one with
\* the conversation of the file, if that has it; else the session is empty.
OpenedSession ==
    IF memory.provider = answering.provider THEN memory
    ELSE IF stored.provider = answering.provider THEN stored
    ELSE [NoSession EXCEPT !.provider = answering.provider]

ReportInit ==
    /\ answering = [at |-> "idle", run |-> 0, provider |-> 1, listens |-> FALSE, open |-> 0, uses |-> 0,
                    results |-> 0, errors |-> 0, flow |-> 0, speaks |-> FALSE, silent |-> FALSE]
    /\ memory = NoSession /\ stored = NoSession

Idle0 == answering.at = "idle"
Flow(steps) == Min({FlowCap, answering.flow + steps})
Ended == [answering EXCEPT !.at = "idle", !.listens = FALSE, !.open = 0, !.uses = 0, !.results = 0, !.errors = 0,
                           !.flow = 0, !.speaks = FALSE]

\* Telemetry counts the events of the run; the session keeps the last.
Telemetry(session, phase) ==
    [session EXCEPT !.phase = phase, !.uses = answering.uses, !.results = answering.results]

\* The default provider is another one from the next request on.
SwitchProvider == Idle0 /\ answering' = [answering EXCEPT !.provider = 3 - @] /\ UNCHANGED <<memory, stored>>

\* Whoever looks at a session has its object made; starting it anew forgets
\* the object and writes the session back to its file.
ShowSession == Idle0 /\ memory' = OpenedSession /\ UNCHANGED <<answering, stored>>

NewSession ==
    /\ Idle0 /\ UNCHANGED answering
    /\ memory' = IF stored.provider = answering.provider THEN stored ELSE [NoSession EXCEPT !.provider = answering.provider]
    /\ stored' = memory'

\* Without a key the words of the request are looked up in a table, over the
\* conversation of the file, whatever is in memory.
AnswerByTable ==
    /\ Idle0 /\ answering.run < ReportRuns /\ UNCHANGED memory
    /\ answering' = [answering EXCEPT !.run = @ + 1]
    /\ LET n == answering.run + 1
           session == IF stored.provider = 0 THEN [NoSession EXCEPT !.provider = answering.provider] ELSE stored
       IN stored' = [session EXCEPT !.talk = @ \o <<Message("user", n), Message("answer", n)>>, !.phase = "final",
                                    !.uses = 0, !.results = 0]

AskRun ==
    /\ Idle0 /\ answering.run < ReportRuns /\ UNCHANGED stored
    /\ answering' = [answering EXCEPT !.at = "ingest", !.run = @ + 1, !.listens = TRUE, !.flow = Flow(2)]
    /\ memory' = Telemetry([OpenedSession EXCEPT !.talk = Append(@, Message("user", answering.run + 1))], "ingest")

-----------------------------------------------------------------------------
(* The run.                                                                *)
\* A line for a page that is gone is an exception.  Nothing catches that of
\* the first and of the last telemetry; the message stays in memory.
SendIngest ==
    /\ answering.at = "ingest" /\ UNCHANGED <<memory, stored>>
    /\ answering' = IF answering.listens THEN [answering EXCEPT !.at = "running"] ELSE Ended

LineBreaks ==
    /\ answering.listens /\ answering' = [answering EXCEPT !.listens = FALSE] /\ UNCHANGED <<memory, stored>>

\* The exceptions of events and texts are dropped: the run goes on for nobody.
\* Telemetry comes after the line of the event, and so not at all.
NotedEvent(session, phase) == IF answering.listens THEN Telemetry(session, phase) ELSE session

\* Messages keep the calls in the conversation, completions beside it.
WithCalls(talk) == IF WireOf(memory.provider) = "messages" THEN Append(talk, Message("calls", answering.run)) ELSE talk

CallTool ==
    /\ answering.at = "running" /\ answering.open = 0 /\ answering.uses < ReportCalls /\ UNCHANGED stored
    /\ answering' = [answering EXCEPT !.uses = @ + 1, !.open = 1, !.flow = Flow(1)]
    /\ memory' = NotedEvent([memory EXCEPT !.talk = WithCalls(@)], "tool_use")

\* A result that says it failed is a result; a call that is refused has no
\* line of its own but the error.
ReportResult ==
    /\ answering.at = "running" /\ answering.open = 1 /\ UNCHANGED stored
    /\ answering' = [answering EXCEPT !.open = 0, !.results = @ + 1, !.flow = Flow(1)]
    /\ memory' = NotedEvent(memory, "tool_result")

RefuseCall ==
    /\ answering.at = "running" /\ answering.open = 0 /\ answering.errors < ReportCalls /\ UNCHANGED stored
    /\ answering' = [answering EXCEPT !.errors = @ + 1, !.flow = Flow(1)]
    /\ memory' = NotedEvent([memory EXCEPT !.talk = WithCalls(@)], "error")

FirstText ==
    /\ answering.at = "running" /\ ~answering.speaks /\ answering.open = 0 /\ UNCHANGED stored
    /\ answering' = [answering EXCEPT !.speaks = TRUE, !.flow = Flow(1)]
    /\ memory' = Telemetry(memory, "stream")

Spoken(talk) == {i \in DOMAIN talk : talk[i].who = "answer" /\ talk[i].text # 0}

\* A bug: the first message of the assistant is replaced.
ReplaceFirstAnswer(talk, n) ==
    LET said == {i \in DOMAIN talk : talk[i].who # "user"} IN
    IF said = {} THEN Append(talk, Message("answer", n))
    ELSE [talk EXCEPT ![Min(said)].who = "answer", ![Min(said)].text = n]

\* The last message of the assistant gets the text, whose ever it was.
ReplaceLastAnswer(talk, n) ==
    LET said == {i \in DOMAIN talk : talk[i].who # "user"} IN
    IF said = {} THEN Append(talk, Message("answer", n))
    ELSE [talk EXCEPT ![Max(said)].who = "answer", ![Max(said)].text = n]

\* The text of an answer that was checked and mended replaces the one in the
\* conversation; a run without an answer that is blocked, or that has nothing
\* but what it said on the way, replaces the last message there is; at the
\* end of its turns nothing is said in the conversation.
Concluded(talk, n, how) ==
    CASE how = "answer" -> ReplaceLastAnswer(Append(talk, Message("answer", n)), n)
      [] how = "blank" -> Append(talk, BlankAnswer(n))
      [] how = "blocked" -> ReplaceLastAnswer(talk, n)
      [] how = "turns" -> talk

Conclude(how) ==
    /\ answering.at = "running" /\ answering.open = 0 /\ UNCHANGED stored
    /\ answering' = [answering EXCEPT !.at = "final", !.silent = @ \/ how # "answer", !.flow = Flow(1)]
    /\ memory' = [memory EXCEPT !.talk = Concluded(@, answering.run, how)]

\* A cancelled run and a failing one say so, and nothing is saved.
AbortRun == answering.at = "running" /\ answering' = [Ended EXCEPT !.silent = TRUE] /\ UNCHANGED <<memory, stored>>

\* A fixed workflow: its calls at once, and an answer by the model or, when
\* that fails, put together from the results.
AnswerWorkflowRun ==
    /\ answering.at = "running" /\ answering.uses + answering.errors = 0 /\ ~answering.speaks /\ answering.listens
    /\ answering' = [answering EXCEPT !.at = "final", !.uses = ReportCalls, !.results = ReportCalls,
                                      !.flow = Flow(2 * ReportCalls + 2)]
    /\ UNCHANGED stored
    /\ memory' = [memory EXCEPT !.talk = Append(@, Message("answer", answering.run))]

\* Kept with the session first, and only then sent.
SendFinalTelemetry ==
    /\ answering.at = "final" /\ memory' = Telemetry(memory, "final") /\ UNCHANGED stored
    /\ answering' = IF answering.listens THEN [answering EXCEPT !.at = "save"] ELSE Ended

\* The trace of the run goes to the last answer with a text.  Without calls
\* there is no trace.
Traced(talk) ==
    IF answering.uses + answering.errors = 0 \/ Spoken(talk) = {} THEN talk ELSE [talk EXCEPT ![Max(Spoken(talk))].trace = answering.run]

SaveSession ==
    /\ answering.at = "save" /\ memory' = [memory EXCEPT !.talk = Traced(@)] /\ stored' = memory'
    /\ answering' = [answering EXCEPT !.at = "told"]

TellFinal == answering.at = "told" /\ answering' = Ended /\ UNCHANGED <<memory, stored>>

\* The process starts again, and reads the file when it is asked.
RestartRuntime == memory' = NoSession /\ answering' = [Ended EXCEPT !.silent = TRUE] /\ UNCHANGED stored

-----------------------------------------------------------------------------
(* What the page is shown: the texts of the file or of memory.             *)
ShownTalk == {i \in DOMAIN OpenedSession.talk : OpenedSession.talk[i].who # "calls" /\ OpenedSession.talk[i].text # 0}

ReportNext ==
    \/ SwitchProvider \/ ShowSession \/ NewSession \/ AnswerByTable \/ AskRun \/ SendIngest \/ LineBreaks \/ CallTool
    \/ ReportResult \/ RefuseCall \/ FirstText \/ AbortRun \/ RestartRuntime
    \/ \E how \in {"answer", "blank", "blocked", "turns"} : Conclude(how)
    \/ AnswerWorkflowRun \/ SendFinalTelemetry \/ SaveSession \/ TellFinal

ReportSpec == ReportInit /\ [][ReportNext]_reportvars

-----------------------------------------------------------------------------
ReportTypeOK ==
    /\ answering.at \in {"idle", "ingest", "running", "final", "save", "told"} /\ answering.run \in 0 .. ReportRuns
    /\ answering.provider \in 1 .. 2 /\ answering.flow \in 0 .. FlowCap
    /\ answering.results + answering.open = answering.uses
    /\ \A session \in {memory, stored} :
         session.provider \in 0 .. 2 /\ session.phase \in {"none", "ingest", "tool_use", "tool_result", "error", "stream", "final"}

\* As long as each run ended with an answer of its own, each answer the page
\* is shown has the text of the run that gave it, and the trace of no other,
\* through failing lines, looks at the session and changes of the provider.
AnswersAreOwn ==
    ~answering.silent =>
        \A i \in ShownTalk : LET m == OpenedSession.talk[i] IN m.text = m.run /\ m.trace \in {0, m.run}
=============================================================================
