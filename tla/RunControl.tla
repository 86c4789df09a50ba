----------------------------- MODULE RunControl -----------------------------
(***************************************************************************)
(* What the agent runtime keeps about one run of its loop, as operators on *)
(* records: the model's plan and the progress made (run_state.py), the     *)
(* cost (run_budget.py) and the obligations of the task                    *)
(* (task_contract.py).                                                     *)
(*                                                                         *)
(* A plan is a function from its steps to their status.  A requirement is  *)
(* named by what it asks for; prompts, descriptions and paths are left     *)
(* out.                                                                    *)
(***************************************************************************)
EXTENDS Integers, FiniteSets, FiniteSetsExt, TLC

(***************************************************************************)
(* AgentRunState.                                                          *)
(***************************************************************************)
NewRunState == [plan |-> <<>>, hints |-> {}, revision |-> 0, actions |-> 0, evidence |-> 0,
                goalless |-> 0, fails |-> 0, replans |-> 0, lastReplan |-> -100, dead |-> <<>>]

HasPlan(rs) == DOMAIN rs.plan # {}
PlanComplete(rs) == HasPlan(rs) /\ \A s \in DOMAIN rs.plan : rs.plan[s] = "completed"

\* The steps a new plan completes that the old one had, and had open.
NewlyCompleted(rs, todos) ==
    {s \in DOMAIN todos \cap DOMAIN rs.plan : todos[s] = "completed" /\ rs.plan[s] # "completed"}

\* A plan without a usable step changes nothing.
UpdatePlan(rs, todos, hints) ==
    IF DOMAIN todos = {} THEN rs
    ELSE [rs EXCEPT !.plan = todos, !.hints = hints,
                    !.revision = IF todos = rs.plan THEN @ ELSE @ + 1,
                    !.goalless = IF NewlyCompleted(rs, todos) = {} THEN @ ELSE 0]

\* path is the call: a tool with its input.
RecordAction(rs, path, outcome, goal, cites) ==
    LET failed == outcome \notin {"success", "partial_success"} IN
    [rs EXCEPT !.actions = @ + 1,
               !.evidence = @ + cites,
               !.fails = IF failed THEN @ + 1 ELSE 0,
               !.goalless = IF goal THEN 0 ELSE @ + 1,
               !.dead = IF ~ failed THEN @
                        ELSE (path :> (IF path \in DOMAIN @ THEN @[path] + 1 ELSE 1)) @@ @]

ShouldReplan(rs) ==
    /\ rs.actions - rs.lastReplan >= 2
    /\ \/ rs.goalless >= 4
       \/ rs.fails >= 2
       \/ \E p \in DOMAIN rs.dead : rs.dead[p] >= 2

MarkReplan(rs) == [rs EXCEPT !.replans = @ + 1, !.lastReplan = rs.actions]

ShouldStop(rs) == (rs.replans >= 2 /\ rs.goalless >= 6) \/ rs.fails >= 4

(***************************************************************************)
(* RunBudget.  Its limits are in lim.                                      *)
(***************************************************************************)
NewBudget == [input |-> 0, output |-> 0, low |-> 0, mark |-> 0,
              requested |-> 0, dispatched |-> 0, rejected |-> 0]

RecordTurn(b, in, out) == [b EXCEPT !.input = @ + in, !.output = @ + out]

RecordLedger(b, l) ==
    [b EXCEPT !.requested = Max({@, l.requested}), !.dispatched = Max({@, l.dispatched}),
              !.rejected = Max({@, l.rejected})]

LowYield == {"no_data", "invalid_input", "capability_mismatch", "data_coverage_insufficient",
             "permission_denied", "approval_required", "dependency_unhealthy",
             "transient_failure", "permanent_failure", "timeout"}

RecordResult(b, outcome, isError, progress) ==
    IF progress THEN [b EXCEPT !.low = 0, !.mark = b.input + b.output]
    ELSE IF outcome \in LowYield \/ isError THEN [b EXCEPT !.low = @ + 1] ELSE b

ShouldDegrade(b, lim) ==
    \/ b.input >= lim.input
    \/ b.output >= lim.output
    \/ Max({0, b.input + b.output - b.mark}) >= lim.afterProgress
    \/ b.low >= lim.low

(***************************************************************************)
(* TaskRequirementState.  A request asks for artifacts, for JSON, and its  *)
(* route for evidence of some kinds.                                       *)
(***************************************************************************)
Requirement == [status |-> "open", ids |-> {}, min |-> 0, kinds |-> {}]

\* A chart is a requirement of its own only without a presentation.
RequiredOutputs(q) ==
    (IF "pptx" \in q.artifacts THEN {"pptx"} ELSE q.artifacts)
        \cup (IF q.json THEN {"json"} ELSE {})

FromRequest(q) ==
    [r \in RequiredOutputs(q) \cup (IF q.kinds = {} THEN {} ELSE {"evidence"}) |->
        IF r = "evidence" THEN [Requirement EXCEPT !.min = 1, !.kinds = q.kinds] ELSE Requirement]

Open(con) == {r \in DOMAIN con : con[r].status = "open"}
Satisfied(con) == Open(con) = {}
OpenOutputs(con) == Open(con) \ {"evidence", "plan"}

\* A plan that the model has written is an obligation, which a later revision
\* can open again.
PlanCompletion(con, rs) ==
    IF ~ HasPlan(rs) THEN con
    ELSE [r \in DOMAIN con \cup {"plan"} |->
            IF r # "plan" THEN con[r]
            ELSE [Requirement EXCEPT !.status = IF PlanComplete(rs) THEN "satisfied" ELSE "open"]]

\* cites is the set of new citations, [id, kind].
FromEvidence(con, cites) ==
    [r \in DOMAIN con |->
        IF con[r].kinds = {} THEN con[r]
        ELSE LET ids == con[r].ids \cup {c.id : c \in {x \in cites : x.kind \in con[r].kinds}}
             IN [con[r] EXCEPT !.ids = ids,
                               !.status = IF Cardinality(ids) >= con[r].min THEN "satisfied" ELSE @]]

\* A presentation counts if its file opens and holds the slides that were
\* asked for, each with what was asked of it.
ValidPptx(file, q) ==
    /\ file.exists
    /\ file.slides >= 1
    /\ q.slides # 0 => file.slides = q.slides
    /\ q.perSlide => file.complete

\* res.makes names the output the tool produces; a requirement that was met
\* stays met when a later file is no good.
FromToolResult(con, res, q) ==
    LET good == CASE res.makes = "pptx"  -> ValidPptx(res.file, q)
                  [] res.makes = "chart" -> res.file.exists
                  [] OTHER               -> res.makes = "json"
    IN IF ~ res.error /\ good /\ res.makes \in DOMAIN con
       THEN [con EXCEPT ![res.makes].status = "satisfied"]
       ELSE con
=============================================================================
