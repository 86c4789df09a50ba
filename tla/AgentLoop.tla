------------------------------ MODULE AgentLoop ------------------------------
(***************************************************************************)
(* run_agent_loop (tool_system/agent_loop.py): one run of the agent, from  *)
(* the user's prompt to the answer.  A turn offers tools to the model,     *)
(* takes its reply, executes the tool calls in it one by one (those that   *)
(* are safe together in advance, in parallel), and looks at what has been  *)
(* gained; a run ends with an answer, as blocked, cancelled or failed.     *)
(*                                                                         *)
(* A call is a model value for a tool name with its input; the fingerprint *)
(* of a call is the call.  Two calls of WebFetch may share their address.  *)
(* In the conversation of an Anthropic provider a message with tool uses   *)
(* is followed by their results; it is abstracted to the last message of   *)
(* the assistant and the results it still lacks.                           *)
(***************************************************************************)
EXTENDS RunControl, Evidence, Functions

CONSTANTS
    LoopCalls,   \* calls the model may make
    ToolOf,      \* call -> name of its tool
    Tools,       \* name -> [family, effects, makes]
    Url,         \* call -> address
    Results,     \* call -> results its tool may give
    Replies,     \* what the model may answer: sequences of calls
    Prompts,     \* requests a run may serve
    Answers,     \* answers the model may write, as sets of claims
    MaxTurns,    \* max_turns
    Limits       \* fuse, duplicates, noProgress, lateTurns, lateFailures, coverage; the budget's limits

ASSUME LoopAssumption ==
    /\ MaxTurns \in Nat \ {0} /\ Limits.fuse \in Nat \ {0}
    /\ \A c \in LoopCalls : ToolOf[c] \in DOMAIN Tools
    /\ \E c \in LoopCalls : Tools[ToolOf[c]].makes = "pptx"
    /\ Replies \subseteq Seq(LoopCalls)

VARIABLES
    at,          \* idle, turn, ask, batch, check, work, review, over
    q,           \* the request, with the route and the kind of provider
    turn,        \* turns begun
    models,      \* turn_count: answers of the model
    offered,     \* tools offered in this turn
    uses,        \* the tool calls of the reply
    pos,         \* the one being handled
    early,       \* results of the calls executed in parallel
    ctr,         \* the counters of the run
    stage,       \* discovery_stage
    found,       \* discovered_tool_names
    rs,          \* AgentRunState
    bud,         \* RunBudget
    con,         \* TaskRequirementState
    cites,       \* citations
    stopping,    \* force_synthesis_reason is set
    msgs,        \* the conversation
    sick,        \* tools whose dependency is down
    stopped,     \* the cancellation event of the context
    log,         \* history: calls executed, and those whose result was dropped
    end          \* how the run ended

loopvars == <<at, q, turn, models, offered, uses, pos, early, ctr, stage, found, rs, bud, con,
              cites, stopping, msgs, sick, stopped, log, end>>
\* What one tool result may change.
gains == <<found, rs, bud, con, cites>>
stable == <<q, turn, offered, uses, sick, stopped>>   \* set at other times

NoEnd == [how |-> "none", why |-> "none", evidence |-> "none"]
Fresh == [calls |-> 0, prints |-> {}, dupCalls |-> 0, seen |-> {}, dupResults |-> 0, noProgress |-> 0,
          failures |-> [t \in DOMAIN Tools |-> 0], coverage |-> 0, reminders |-> 0, disabled |-> {},
          refused |-> <<>>, searchFails |-> 0, searchBlocked |-> 0, urls |-> {}, lookedUp |-> FALSE,
          checkpoint |-> FALSE]
NoRequest == [artifacts |-> {}, json |-> FALSE, kinds |-> {}, slides |-> 0, perSlide |-> FALSE,
          blocks |-> TRUE, general |-> TRUE, preferred |-> {}, fallback |-> {}, planned |-> FALSE,
          staged |-> FALSE]

LoopInit ==
    /\ at = "idle" /\ q = NoRequest /\ turn = 0 /\ models = 0 /\ offered = {} /\ uses = <<>> /\ pos = 0
    /\ early = <<>> /\ ctr = Fresh /\ stage = "primary" /\ found = {}
    /\ rs = NewRunState /\ bud = NewBudget /\ con = <<>> /\ cites = <<>> /\ stopping = FALSE
    /\ msgs = [last |-> "text", own |-> FALSE, pending |-> 0, paired |-> 0, broken |-> FALSE]
    /\ sick = {} /\ stopped = FALSE /\ log = [ran |-> <<>>, dropped |-> 0] /\ end = NoEnd

Required == RequiredOutputs(q) # {}
Current == uses[pos]
Name(c) == ToolOf[c]
Family(c) == Tools[ToolOf[c]].family
IsPlan(c) == Family(c) = "plan"
Eligible == {t \in DOMAIN Tools : t \notin sick}

(***************************************************************************)
(* The conversation.                                                       *)
(***************************************************************************)
Say(m, n) == [m EXCEPT !.last = IF n = 0 THEN "text" ELSE "uses", !.own = TRUE, !.pending = n, !.paired = 0]
AnswerUse(m) == [m EXCEPT !.pending = @ - 1, !.paired = @ + 1]
\* _replace_last_assistant_text: the text takes the place of the last
\* message of the assistant, whatever that was.
PutText(m) == [m EXCEPT !.last = "text", !.own = TRUE, !.pending = 0, !.paired = 0,
                        !.broken = @ \/ (m.last = "uses" /\ m.paired + m.pending > 0)]
\* A run that ends leaves the uses without a result behind.
LeaveOpen(m) == [m EXCEPT !.broken = @ \/ m.pending > 0]
\* Tool uses are part of the conversation only with an Anthropic provider.
Noted == IF q.blocks THEN AnswerUse(msgs) ELSE msgs

(***************************************************************************)
(* Ends.  c and cs are the requirements and the citations at that moment,  *)
(* m the conversation.                                                     *)
(***************************************************************************)
Stop(how) ==
    /\ at' = "over" /\ end' = [NoEnd EXCEPT !.how = how]
    /\ msgs' = LeaveOpen(msgs)

\* finalize_text: the answer is repaired if it must be (one more call of the
\* model, which may fail), its claims are checked, and it is put into m.
Finalize(answer, why, m, c, cs) ==
    \E rewritten \in IF NeedsRepair(answer, cs, ~ q.general) THEN Answers ELSE {answer} :
       LET text == Repaired(answer, rewritten, cs, ~ q.general) IN
       /\ at' = "over"
       /\ end' = [how |-> "answer", evidence |-> EvidenceStatus(text, cs),
                  why |-> IF why # "none" THEN why
                          ELSE IF Satisfied(c) THEN "completed" ELSE "incomplete_contract"]
       /\ msgs' = PutText(m)

\* finalize_blocked names what is missing.
Blocked == Finalize({}, "blocked", msgs, con, cites)

\* synthesize_from_evidence asks for an answer from the evidence alone, and
\* gives none if the model fails or says nothing.
Synthesize(m, c, cs, n, otherwise) ==
    /\ models' = n + 1
    /\ \/ \E a \in Answers \ {{}} : Finalize(a, "none", Say(LeaveOpen(m), 0), c, cs)
       \/ otherwise

(***************************************************************************)
(* A turn: the tools to offer, the reply of the model.                     *)
(***************************************************************************)
\* plan_required: an output, several obligations or a request for several steps.
PlanRequired == Required \/ Cardinality(DOMAIN con \ {"plan"}) > 1 \/ q.planned

StartRun(p) ==
    /\ at = "idle"
    /\ q' = p /\ con' = FromRequest(p)
    /\ stage' = IF p.general THEN "fallback" ELSE "primary"
    /\ ctr' = [Fresh EXCEPT !.checkpoint = PlanRequired']
    /\ at' = "turn"
    /\ UNCHANGED <<turn, models, offered, uses, pos, early, found, rs, bud, cites, stopping, msgs,
                   sick, stopped, log, end>>

OfFamily(f) == {t \in DOMAIN Tools : Tools[t].family = f}

\* _build_routed_tool_schemas, with the routed tools or, if there are none of
\* them, all.
Routed(names) ==
    LET first == {t \in Eligible : t \in q.preferred \cup OfFamily("plan") \cup names}
        wide  == {t \in Eligible : t \in q.preferred \cup q.fallback \cup OfFamily("plan")
                                        \cup OfFamily("find") \cup names}
        tried == IF stage = "fallback" THEN wide
                 ELSE IF first # {} THEN first ELSE Eligible \cap q.fallback
    IN IF q.general \/ tried = {} THEN Eligible ELSE tried

\* _completion_tool_names: the tools that can produce an output still open.
Completing == {t \in Eligible : Tools[t].makes \in OpenOutputs(con)}

\* Each rule narrows the offer only if something is left of it.
Offer(names) ==
    LET narrow(set, to) == IF set \cap to # {} THEN to \cap set ELSE set
        all      == Routed(names)
        enabled  == CASE ctr.lookedUp -> {}
                      [] ~ ctr.lookedUp /\ q.staged /\ turn = 0 /\ all \cap OfFamily("lookup") # {} ->
                            all \cap OfFamily("lookup")
                      [] OTHER -> all \ ctr.disabled
        planning == IF PlanRequired /\ ~ HasPlan(rs) /\ ~ Satisfied(con) /\ ~ ctr.lookedUp
                    THEN narrow(enabled, OfFamily("plan")) ELSE enabled
        control  == OfFamily("plan") \cup OfFamily("find")
        hinted   == planning \cap (rs.hints \cup control \cup (IF q.general THEN {} ELSE q.preferred))
        guided   == IF rs.hints # {} /\ ~ ctr.lookedUp /\ ~ ctr.checkpoint /\ hinted \ control # {}
                    THEN hinted ELSE planning
    IN IF ctr.reminders > 0 \/ turn = MaxTurns - 1
       THEN IF enabled \cap Completing # {} THEN enabled \cap Completing ELSE guided
       ELSE guided

BeginTurn ==
    /\ at = "turn" /\ turn < MaxTurns
    /\ IF stopped
       THEN Stop("cancelled") /\ UNCHANGED <<found, offered, turn>>
       ELSE /\ found' = found \cup rs.hints
            /\ offered' = Offer(found')
            /\ turn' = turn + 1 /\ at' = "ask"
            /\ UNCHANGED <<msgs, end>>
    /\ UNCHANGED <<q, models, uses, pos, early, ctr, stage, rs, bud, con, cites, stopping,
                   sick, stopped, log>>

\* The model fails, or a cancellation is seen before the reply is recorded.
FailTurn ==
    /\ at = "ask"
    /\ Stop("failed") \/ (stopped /\ Stop("cancelled"))
    /\ UNCHANGED <<stable, models, pos, early, ctr, stage, gains, stopping, log>>


\* A reply with tool calls; the text beside them is not kept.
ReplyTools(r) ==
    /\ at = "ask" /\ ~ stopped /\ r # <<>>
    /\ models' = models + 1 /\ bud' = RecordTurn(bud, 1, 1)
    /\ msgs' = IF q.blocks THEN Say(msgs, Len(r)) ELSE msgs
    /\ uses' = r /\ pos' = 1 /\ early' = <<>> /\ stopping' = FALSE
    /\ at' = "batch"
    /\ UNCHANGED <<q, turn, offered, ctr, stage, found, rs, con, cites, sick, stopped, log, end>>

\* A reply without one is the answer if nothing is open; else the model is
\* told what is missing, or, with nothing left to offer, the run ends.
ReplyText ==
    LET m == Say(msgs, 0) IN
    /\ at = "ask" /\ ~ stopped
    /\ bud' = RecordTurn(bud, 1, 1)
    /\ IF Satisfied(con)
       THEN /\ models' = models + 1
            /\ \E a \in Answers : Finalize(a, "none", m, con, cites)
            /\ UNCHANGED <<ctr, stage>>
       ELSE /\ stage' = IF q.fallback # {} THEN "fallback" ELSE stage
            /\ ctr' = [ctr EXCEPT !.reminders = @ + 1]
            /\ LET goOn == at' = "turn" /\ msgs' = m /\ UNCHANGED end IN
               CASE offered # {} -> goOn /\ models' = models + 1
                 [] offered = {} /\ Required -> /\ models' = models + 1
                                                /\ Finalize({}, "blocked", m, con, cites)
                 [] OTHER -> Synthesize(m, con, cites, models + 1, goOn)
    /\ UNCHANGED <<stable, pos, early, found, rs, con, cites, stopping, log>>

(***************************************************************************)
(* The tool calls of a reply.                                              *)
(***************************************************************************)
Refusal(c) == CASE Tools[Name(c)].denied -> "denied" [] Name(c) \in sick -> "unhealthy" [] OTHER -> "none"

SafeCall(i) ==
    LET c == uses[i] IN
    /\ ~ Tools[Name(c)].effects /\ Refusal(c) = "none" /\ Name(c) \notin ctr.disabled
    /\ ctr.failures[Name(c)] < 2
    /\ c \notin ctr.prints /\ \A j \in 1 .. i - 1 : uses[j] # c
    /\ Family(c) = "webfetch" => Url[c] \notin ctr.urls
    /\ Family(c) = "websearch" => ctr.searchFails < 2

\* A call that is dispatched after a cancellation does not reach its tool.
CancelledResult(c) == [CHOOSE r \in Results[c] : TRUE EXCEPT !.out = "cancelled", !.error = TRUE]
Dispatched(c) == IF stopped THEN {CancelledResult(c)} ELSE Results[c]
Ran(cs) == IF stopped THEN log.ran ELSE log.ran \o cs

\* Calls without effects are executed together, before any of the results is
\* looked at; the plan's own tool may stand among them.
ExecuteTogether ==
    LET own == {i \in DOMAIN uses : ~ IsPlan(uses[i])} IN
    /\ at = "batch"
    /\ IF /\ Cardinality(own) > 1
          /\ ctr.calls + Len(uses) <= Limits.fuse
          /\ \A i \in own : SafeCall(i)
       THEN /\ \E f \in [own -> UNION {Dispatched(uses[i]) : i \in own}] :
                 /\ \A i \in own : f[i] \in Dispatched(uses[i])
                 /\ early' = f
            /\ log' = [log EXCEPT !.ran = Ran(SetToSeq({uses[i] : i \in own}))]
            /\ bud' = RecordLedger(bud, [requested |-> bud.requested + Cardinality(own), rejected |-> 0,
                                         dispatched |-> bud.dispatched + Cardinality(own)])
       ELSE UNCHANGED <<early, log, bud>>
    /\ at' = "check"
    /\ UNCHANGED <<stable, models, pos, ctr, stage, found, rs, con, cites, stopping, msgs, end>>

\* should_stop_low_yield_tools.
LowYieldTools(k) ==
    \/ k.calls >= Limits.fuse
    \/ k.dupCalls >= Limits.duplicates
    \/ k.dupResults >= Limits.duplicates
    \/ k.noProgress >= Limits.noProgress
    \/ models >= Limits.lateTurns /\ FoldFunction(+, 0, k.failures) >= Limits.lateFailures

\* Mutant: the last call is followed by one more check.
NextUseMore == pos' = pos + 1 /\ at' = IF pos <= Len(uses) THEN "check" ELSE "review"

NextUse == pos' = pos + 1 /\ at' = IF pos < Len(uses) THEN "check" ELSE "review"
\* The call ends with an error for the model.
Reject(k, stops) ==
    /\ ctr' = k /\ stopping' = (stopping \/ stops)
    /\ msgs' = Noted /\ NextUse
    /\ UNCHANGED end
Failed(k, c) == [k EXCEPT !.failures[Name(c)] = @ + 1]

\* The checks, in their order.
Verdict(c) ==
    LET now == pos \notin DOMAIN early IN
    CASE Refusal(c) # "none"                                -> "refused"
      [] now /\ Name(c) \in ctr.disabled                    -> "disabled"
      [] ~ IsPlan(c) /\ c \in ctr.prints                    -> "repeated"
      [] ~ IsPlan(c) /\ ctr.calls >= Limits.fuse            -> "fuse"
      [] now /\ ctr.failures[Name(c)] >= 2 /\ Family(c) \notin {"webfetch", "websearch"} -> "failing"
      [] now /\ Family(c) = "webfetch" /\ Url[c] \in ctr.urls    -> "fetched"
      [] now /\ Family(c) = "websearch" /\ ctr.searchFails >= 2  -> "offline"
      [] OTHER                                              -> "go"

Checking(verdict) == at = "check" /\ ~ stopped /\ Verdict(Current) = verdict

\* A cancellation is seen before the next call.
StopAtUse ==
    /\ at = "check" /\ stopped
    /\ Stop("cancelled")
    /\ UNCHANGED <<stable, models, pos, early, ctr, stage, gains, stopping, log>>

\* The registry refuses the call.  A result that is already there is dropped.
RefuseUse ==
    /\ Checking("refused")
    /\ LET key == <<Name(Current), Refusal(Current)>>
           n == IF key \in DOMAIN ctr.refused THEN ctr.refused[key] + 1 ELSE 1
       IN Reject([ctr EXCEPT !.refused = (key :> n) @@ @,
                             !.disabled = IF n >= 2 \/ Refusal(Current) = "denied"
                                          THEN @ \cup {Name(Current)} ELSE @], FALSE)
    /\ stage' = "fallback"
    /\ log' = IF pos \in DOMAIN early THEN [log EXCEPT !.dropped = @ + 1] ELSE log
    /\ UNCHANGED <<stable, models, early, gains>>

\* Mutant: a call of a disabled tool gets no result.
RejectDisabledSilently ==
    Checking("disabled") /\ UNCHANGED <<ctr, stopping, msgs, end>> /\ NextUse

RejectDisabled == Checking("disabled") /\ Reject(ctr, FALSE)
RejectRepeated ==
    \/ Checking("fuse") /\ Reject(ctr, TRUE)
    \/ /\ Checking("repeated")
       /\ LET k == [ctr EXCEPT !.dupCalls = @ + 1] IN Reject(k, LowYieldTools(k))
RejectFailing == Checking("failing") /\ Reject(Failed(ctr, Current), FALSE)

\* Two of the checks may end the run at once.
RejectOrSynthesize(k, stops) ==
    /\ ctr' = k
    /\ LET goOn == msgs' = Noted /\ NextUse /\ UNCHANGED end
           ended == at' = "over" /\ UNCHANGED pos
       IN IF stops THEN Synthesize(Noted, con, cites, models, goOn) /\ (goOn \/ ended)
          ELSE goOn /\ UNCHANGED models
    /\ UNCHANGED stopping
RejectPage ==
    /\ Checking("fetched")
    /\ LET k == Failed(ctr, Current) IN RejectOrSynthesize(k, LowYieldTools(k))
RejectSearch ==
    /\ Checking("offline")
    /\ LET k == [Failed(ctr, Current) EXCEPT !.searchBlocked = @ + 1]
       IN RejectOrSynthesize(k, k.searchBlocked >= 2)

RejectUse ==
    /\ \/ (RejectDisabled \/ RejectRepeated \/ RejectFailing) /\ UNCHANGED models
       \/ RejectPage \/ RejectSearch
    /\ UNCHANGED <<stable, early, stage, gains, log>>

\* Mutant: the fingerprint of an executed call is not noted.
ExecuteUseUnnoted ==
    /\ Checking("go")
    /\ ctr' = IF IsPlan(Current) THEN ctr ELSE [ctr EXCEPT !.calls = @ + 1]
    /\ log' = IF pos \in DOMAIN early THEN log ELSE [log EXCEPT !.ran = Append(@, Current)]
    /\ at' = "work"
    /\ UNCHANGED <<stable, models, pos, early, stage, gains, stopping, msgs, end>>

ExecuteUse ==
    /\ Checking("go")
    /\ ctr' = IF IsPlan(Current) THEN ctr
              ELSE [ctr EXCEPT !.prints = @ \cup {Current}, !.calls = @ + 1]
    /\ log' = IF pos \in DOMAIN early THEN log ELSE [log EXCEPT !.ran = Append(@, Current)]
    /\ at' = "work"
    /\ UNCHANGED <<stable, models, pos, early, stage, gains, stopping, msgs, end>>

(***************************************************************************)
(* The result of a call.                                                   *)
(***************************************************************************)
\* A call that is cancelled while its tool works may give either.
Coming ==
    IF at # "work" THEN {} ELSE IF pos \in DOMAIN early THEN {early[pos]}
    ELSE Results[Current] \cup (IF stopped THEN {CancelledResult(Current)} ELSE {})
Fruitless == (LowYield \ {"invalid_input"}) \cup {"cancelled"}
Disables(r) ==
    r.out \in {"dependency_unhealthy", "capability_mismatch", "permission_denied"} /\ ~ r.retryable
Unwell(r) == r.out \in {"dependency_unhealthy", "transient_failure", "permanent_failure", "timeout"}
Expands(r) == r.out \in {"no_data", "capability_mismatch", "data_coverage_insufficient",
                         "dependency_unhealthy", "permission_denied"}

\* Before a cancellation is looked at.
Tallied(k, r) == [k EXCEPT !.coverage = IF r.out = "data_coverage_insufficient" THEN @ + 1 ELSE @,
                           !.disabled = IF Disables(r) THEN @ \cup {Name(Current)} ELSE @]

\* The counters of the web tools and of failing tools.
WebTally(k, r) ==
    LET f == Family(Current)
        bad == r.error \/ (f = "websearch" /\ r.rows = <<>>)
        k1 == IF bad /\ (f \in {"websearch", "webfetch"} \/ Unwell(r)) THEN Failed(k, Current) ELSE k
    IN [k1 EXCEPT !.searchFails = IF f # "websearch" THEN @ ELSE IF bad THEN @ + 1 ELSE 0,
                  !.searchBlocked = IF bad THEN @ ELSE 0,
                  !.urls = IF f = "webfetch" THEN @ \cup {Url[Current]} ELSE @]

\* An exception of the tool or of what follows, that of a cancellation too,
\* is an error for the model.
TakeException(r) ==
    /\ at = "work"
    /\ r.out \in {"raised", "cancelled"} \/ stopped
    /\ LET k == IF r.out = "raised" THEN ctr ELSE Tallied(ctr, r)
       IN ctr' = [Failed(k, Current) EXCEPT
                    !.searchFails = IF Family(Current) = "websearch" THEN @ + 1 ELSE @,
                    !.urls = IF Family(Current) = "webfetch" THEN @ \cup {Url[Current]} ELSE @]
    /\ msgs' = Noted /\ NextUse
    /\ UNCHANGED <<stable, models, early, stage, gains, stopping, log, end>>

TakeResult(r) ==
    LET novel == r.print \notin ctr.seen
        k1 == [Tallied(ctr, r) EXCEPT !.seen = @ \cup {r.print},
                                      !.dupResults = IF novel THEN @ ELSE @ + 1]
        new == IF r.error THEN cites
               ELSE Register(cites, Candidates(Family(Current), Name(Current), r.explicit, r.rows))
        fresh == NewCitations(cites, new)
        con1 == FromEvidence(FromToolResult(con, r, q), fresh)
        changed == {x \in DOMAIN con : con1[x].status # con[x].status}
        planned == IsPlan(Current) /\ NewlyCompleted(rs, r.todos) # {}
        rs1 == IF IsPlan(Current) THEN UpdatePlan(rs, r.todos, r.names) ELSE rs
        progress == \/ changed # {}
                    \/ ~ r.error /\ r.out \notin Fruitless /\ (novel \/ fresh # {})
        k2 == [k1 EXCEPT !.noProgress = IF progress THEN 0 ELSE @ + 1]
    IN
    /\ at = "work" /\ ~ stopped /\ r.out \notin {"raised", "cancelled"}
    /\ cites' = new
    /\ con' = IF IsPlan(Current) THEN PlanCompletion(con1, rs1) ELSE con1
    /\ rs' = RecordAction(rs1, Current, r.out, changed # {} \/ planned, Cardinality(fresh))
    /\ bud' = RecordResult(bud, r.out, r.error, progress)
    /\ found' = IF Family(Current) = "find" /\ ~ r.error THEN found \cup r.names ELSE found
    /\ stage' = IF Expands(r) THEN "fallback" ELSE stage
    /\ ctr' = [WebTally(k2, r) EXCEPT
                 !.lookedUp = @ \/ (Family(Current) = "lookup" /\ ~ r.error /\ r.rows # <<>>),
                 !.checkpoint = IF IsPlan(Current) THEN @ /\ ~ HasPlan(rs1)
                                ELSE @ \/ (PlanRequired /\ ~ r.error /\ (novel \/ fresh # {} \/ changed # {}))]
    /\ stopping' = \/ stopping
                   \/ ~ novel /\ LowYieldTools(k1)
                   \/ ~ Required /\ (LowYieldTools(k2) \/ ShouldDegrade(bud', Limits.budget))
    /\ msgs' = Noted /\ NextUse
    /\ UNCHANGED <<stable, models, early, log, end>>

(***************************************************************************)
(* The end of a turn, and of the turns.                                    *)
(***************************************************************************)
\* Mutant: a run is closed for its low yield whatever it owes.
ReviewYieldAnyRun ==
    /\ at = "review"
    /\ LET goOn == at' = "fallback" /\ UNCHANGED <<msgs, end>>
       IN IF stopping THEN Synthesize(msgs, con, cites, models, goOn)
          ELSE goOn /\ UNCHANGED models
    /\ UNCHANGED <<stable, pos, early, ctr, stage, gains, stopping, log>>

ReviewYield ==
    /\ at = "review"
    /\ LET goOn == at' = "fallback" /\ UNCHANGED <<msgs, end>>
       IN IF stopping /\ ~ Required THEN Synthesize(msgs, con, cites, models, goOn)
          ELSE goOn /\ UNCHANGED models
    /\ UNCHANGED <<stable, pos, early, ctr, stage, gains, stopping, log>>

\* try_generate_coverage_limited_pptx: the run writes the presentation itself.
Limited == Required /\ ctr.coverage >= Limits.coverage /\ "pptx" \in OpenOutputs(con) /\ ~ q.general
Maker == CHOOSE c \in LoopCalls : Tools[Name(c)].makes = "pptx"

ReviewCoverage ==
    /\ at = "fallback"
    /\ IF Limited /\ Refusal(Maker) = "none"
       THEN \E r \in Dispatched(Maker) :
              /\ r.out # "raised"
              /\ con' = FromToolResult(con, r, q)
              /\ ctr' = [ctr EXCEPT !.calls = @ + 1]
              /\ rs' = RecordAction(rs, Maker, r.out, con'["pptx"].status = "satisfied", 0)
              /\ log' = [log EXCEPT !.ran = Ran(<<Maker>>)]
              /\ IF r.error THEN at' = "replan" /\ UNCHANGED <<msgs, end>>
                 ELSE Finalize({}, "coverage_limited", msgs, con', cites)
       ELSE at' = "replan" /\ UNCHANGED <<con, ctr, rs, log, msgs, end>>
    /\ UNCHANGED <<stable, models, pos, early, stage, found, bud, cites, stopping>>

ReviewPlan ==
    /\ at = "replan"
    /\ LET again == ShouldReplan(rs)
           goOn == at' = "turn" /\ UNCHANGED <<msgs, end>>
       IN /\ rs' = IF again THEN MarkReplan(rs) ELSE rs
          /\ ctr' = IF again /\ ShouldStop(rs') /\ Required THEN [ctr EXCEPT !.reminders = @ + 1] ELSE ctr
          /\ IF again /\ ShouldStop(rs') /\ ~ Required
             THEN Synthesize(msgs, con, cites, models, goOn)
             ELSE goOn /\ UNCHANGED models
    /\ UNCHANGED <<stable, pos, early, stage, found, bud, con, cites, stopping, log>>

\* An open output cannot be made good by an answer in words.
Boundary ==
    /\ at = "turn" /\ turn = MaxTurns
    /\ IF Required /\ ~ Satisfied(con) THEN Blocked /\ UNCHANGED models
       ELSE Synthesize(msgs, con, cites, models, Stop("exhausted"))
    /\ UNCHANGED <<stable, pos, early, ctr, stage, gains, stopping, log>>

(***************************************************************************)
(* Other threads: /api/cancel, and the health of a tool's service; only at *)
(* the moments before which they can make a difference.                    *)
(***************************************************************************)
Others == <<at, q, turn, models, offered, uses, pos, early, ctr, stage, gains, stopping, msgs, log, end>>
RequestStop ==
    /\ at \in {"turn", "ask", "batch", "check", "work"} /\ ~ stopped
    /\ stopped' = TRUE /\ UNCHANGED <<Others, sick>>
ToolFlips ==
    /\ at \in {"turn", "batch", "check", "fallback"}
    /\ \E t \in DOMAIN Tools : /\ Tools[t].fragile
                              /\ sick' = IF t \in sick THEN sick \ {t} ELSE sick \cup {t}
    /\ UNCHANGED <<Others, stopped>>

LoopNext ==
    \/ \E p \in Prompts : StartRun(p)
    \/ BeginTurn \/ FailTurn \/ ReplyText \/ ExecuteTogether
    \/ \E r \in Replies : ReplyTools(r)
    \/ StopAtUse \/ RefuseUse \/ RejectUse \/ ExecuteUse
    \/ \E r \in Coming : TakeException(r) \/ TakeResult(r)
    \/ ReviewYield \/ ReviewCoverage \/ ReviewPlan \/ Boundary
    \/ RequestStop \/ ToolFlips

LoopSpec == LoopInit /\ [][LoopNext]_loopvars

-----------------------------------------------------------------------------
\* Type invariant of the loop.
LoopTypeOK ==
    /\ at \in {"idle", "turn", "ask", "batch", "check", "work", "review", "fallback", "replan", "over"}
    /\ turn \in 0 .. MaxTurns /\ models \in Nat /\ offered \subseteq DOMAIN Tools
    /\ at \in {"check", "work"} => pos \in DOMAIN uses
    /\ DOMAIN early \subseteq DOMAIN uses /\ ctr.disabled \subseteq DOMAIN Tools
    /\ ctr.prints \subseteq LoopCalls /\ stage \in {"primary", "fallback"}
    /\ end.how \in {"none", "answer", "cancelled", "failed", "exhausted"}

\* The API of an Anthropic provider wants each tool use answered exactly once,
\* in order, before it is asked again: whichever of the nine paths a call
\* takes through the loop leaves one result.
ResultsPaired ==
    q.blocks => CASE at \in {"turn", "ask"} -> msgs.pending = 0 /\ ~ msgs.broken
                  [] at \in {"check", "work"} -> msgs.pending = Len(uses) - pos + 1
                  [] OTHER -> TRUE

\* A call is executed once in a run: together with others, one by one, or by
\* the run itself; it may be again only if a result was dropped unseen.
NoRepeat ==
    \A i, j \in DOMAIN log.ran :
        i # j /\ log.ran[i] = log.ran[j] =>
            \/ IsPlan(log.ran[i]) \/ Tools[Name(log.ran[i])].makes = "pptx"
            \/ log.dropped > 0

\* A run whose outputs are open does not end with prose, but in the middle of
\* a turn, where a page is fetched again or the search is down.
ContractGate ==
    end.how = "answer" /\ OpenOutputs(con) # {} =>
        end.why \in {"blocked", "coverage_limited"} \/ pos \in DOMAIN uses

=============================================================================
