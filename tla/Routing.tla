------------------------------ MODULE Routing ------------------------------
(***************************************************************************)
(* How a question is priced and routed.  The backend estimates the cost of *)
(* a job from its prompt (agent_routing.py), the runtime tries a fixed     *)
(* workflow (task_router.py, web_app.py) and otherwise runs the loop on    *)
(* the route of routing_decision.py with the obligations of                *)
(* task_contract.py.                                                       *)
(*                                                                         *)
(* A prompt is a set of words and a flag, named: the name of its first     *)
(* attribute follows a short name.  What the tables say of a word is given *)
(* by Word; scores are doubled.                                            *)
(***************************************************************************)
EXTENDS Integers, Sequences, FiniteSets, FiniteSetsExt, TLC

CONSTANTS
    Words,         \* words that some table knows
    Word,          \* word -> [attr, l0, score, owes, plain]
    AttrOrder,     \* the attributes in the order of ATTRIBUTE_ALIASES
    Asked          \* prompts: sets of words

ASSUME RoutingAssumption ==
    /\ \A w \in Words : Word[w].attr \in Range(AttrOrder) \cup {"none"}
    /\ Asked \subseteq SUBSET Words /\ IsFiniteSet(Words)

\* Signals have positive weights, and each word by which a file is owed is an
\* artifact signal that counts enough for itself (task_contract.py:43, 62).
ASSUME TablesAssumption ==
    /\ \A w \in Words : \A card \in DOMAIN Word[w].score : Word[w].score[card] \in Nat
    /\ \A w \in Words : Word[w].owes \in {"pptx", "chart"} =>
           "artifact_generation" \in DOMAIN Word[w].score /\ Word[w].score["artifact_generation"] >= 4

VARIABLE job   \* the question: its prompt, charge, path and answer

Cards == <<"artifact_generation", "vehicle_spec", "manual_qa", "trend_analysis">>
BudgetClass == [artifact_generation |-> "artifact", vehicle_spec |-> "lookup", manual_qa |-> "normal",
                trend_analysis |-> "analysis"]
CardCost == [artifact_generation |-> 8, vehicle_spec |-> 1, manual_qa |-> 2, trend_analysis |-> 4]

Has(p, class) == \E w \in p.words : class \in Word[w].l0
AttributesOf(p) == SelectSeq(AttrOrder, LAMBDA a : \E w \in p.words : Word[w].attr = a)
Owes(p) == {Word[w].owes : w \in p.words} \ {"none"}

(***************************************************************************)
(* classify_l0.                                                            *)
(***************************************************************************)
LoopTask(reason) == [task |-> "unknown", attrs |-> <<>>, fixed |-> FALSE, reason |-> reason]
FixedTask(task, attrs) == [task |-> task, attrs |-> attrs, fixed |-> TRUE, reason |-> task]

\* _extract_entity looks for the attribute's own name: an alias is not found.
Entity(p) ==
    /\ p.named
    /\ \E w \in p.words : Word[w].attr = AttributesOf(p)[1] /\ "canonical" \in Word[w].l0

Classify(p) ==
    LET attrs == AttributesOf(p) IN
    CASE p.words = {} -> LoopTask("empty_prompt")
      [] attrs # <<>> /\ Has(p, "stats") /\ Has(p, "scope") -> FixedTask("vehicle_attribute_stats", attrs)
      [] Has(p, "complex") -> LoopTask("complex_task_signal")
      [] attrs = <<>> /\ ~ Has(p, "cohort") ->
            IF Has(p, "explain") /\ ~ Has(p, "data")
            THEN [LoopTask("explanation") EXCEPT !.task = "no_tool_explanation"]
            ELSE LoopTask("no_known_attribute")
      [] Has(p, "field") -> FixedTask("field_catalog_query", attrs)
      [] attrs # <<>> /\ Entity(p) -> FixedTask("single_vehicle_attribute_query", <<attrs[1]>>)
      [] Has(p, "cohort") /\ Has(p, "shape") ->
            \* without an attribute the rest of the text is the attribute
            FixedTask("cohort_attribute_query", IF attrs = <<>> THEN <<"derived">> ELSE <<attrs[1]>>)
      [] OTHER -> LoopTask("entity_not_extracted")

(***************************************************************************)
(* decide_route.                                                           *)
(***************************************************************************)
Score(p, card) == MapThenSumSet(LAMBDA w : IF card \in DOMAIN Word[w].score THEN Word[w].score[card] ELSE 0, p.words)
\* The earlier card wins a tie.
BestCard(p) ==
    LET i == CHOOSE x \in DOMAIN Cards :
                \A y \in DOMAIN Cards : \/ Score(p, Cards[x]) > Score(p, Cards[y])
                                        \/ Score(p, Cards[x]) = Score(p, Cards[y]) /\ x <= y
    IN Cards[i]

\* Limits: model turns, tool calls, thousands of input tokens.
LimitsFor(budget) ==
    CASE budget = "lookup"   -> <<4, 6, 32>>
      [] budget = "analysis" -> <<10, 18, 96>>
      [] budget = "artifact" -> <<16, 32, 160>>
      [] OTHER               -> <<6, 10, 48>>

RouteOf(route, path, budget, cost, limits) ==
    [route |-> route, path |-> path, budget |-> budget, cost |-> cost, limits |-> limits]
GeneralDecision == RouteOf("general", "agent_loop", "normal", 2, <<6, 8, 32>>)

\* Mutant: an artifact card has to be the best one.
DecideByScore(p, deterministic) ==
    LET best == BestCard(p) IN
    CASE deterministic /\ Classify(p).fixed ->
            RouteOf("vehicle_spec", "deterministic_workflow", "lookup", 1,
                    <<1, Max({1, Len(Classify(p).attrs)}), 0>>)
      [] p.words = {} \/ Score(p, best) < 4 -> GeneralDecision
      [] OTHER -> RouteOf(best, "agent_loop", BudgetClass[best], CardCost[best], LimitsFor(BudgetClass[best]))

DecideRoute(p, deterministic) ==
    LET l0   == Classify(p)
        best == IF Score(p, "artifact_generation") >= 4 THEN "artifact_generation" ELSE BestCard(p)
    IN CASE deterministic /\ l0.fixed ->
              RouteOf("vehicle_spec", "deterministic_workflow", "lookup", 1, <<1, Max({1, Len(l0.attrs)}), 0>>)
         [] p.words = {} -> GeneralDecision
         [] Score(p, best) < 4 ->
              IF l0.task = "no_tool_explanation" THEN RouteOf("general", "agent_loop", "lookup", 1, <<2, 0, 16>>)
              ELSE GeneralDecision
         [] OTHER ->
              RouteOf(best, "agent_loop", BudgetClass[best], CardCost[best], LimitsFor(BudgetClass[best]))

\* estimate_agent_job_route, where the runtime's package cannot be imported.
EstimateByWords(p) ==
    LET plain(group) == \E w \in p.words : Word[w].plain = group IN
    CASE plain("artifact") -> 8
      [] plain("analysis") -> 4
      [] plain("manual")   -> 2
      [] plain("spec")     -> 1
      [] Has(p, "explain") -> 1
      [] OTHER             -> 2
Estimate(p, packaged) == IF packaged THEN DecideRoute(p, TRUE).cost ELSE EstimateByWords(p)

(***************************************************************************)
(* A question from its acceptance to its answer.                           *)
(***************************************************************************)
NoJobYet == [st |-> "none", prompt |-> [words |-> {}, named |-> FALSE], charge |-> 0,
             route |-> GeneralDecision, status |-> "none", rows |-> <<>>]
RouteInit == job = NoJobYet

Price ==
    /\ job.st = "none"
    /\ \E ws \in Asked, named, packaged \in BOOLEAN :
          LET p == [words |-> ws, named |-> named]
          IN job' = [job EXCEPT !.st = "priced", !.prompt = p, !.charge = Estimate(p, packaged)]

\* build_subjects_lookup_answer: unmet if one of the lookups has no rows.
LookupStatus(rows) == IF \E i \in DOMAIN rows : rows[i] = 0 THEN "unmet" ELSE "satisfied"
\* build_subjects_stats_answer: satisfied if some group has numeric samples.
StatsStatus(rows) == IF \E i \in DOMAIN rows : rows[i] > 0 THEN "satisfied" ELSE "unmet"

\* _try_deterministic_workflow: one call for statistics, else one for each
\* attribute; rows is what each attribute got.
RunWorkflow ==
    LET l0 == Classify(job.prompt) IN
    /\ job.st = "priced" /\ l0.fixed
    /\ \E rows \in [DOMAIN l0.attrs -> {0, 1}] :
          job' = [job EXCEPT !.st = "answered", !.route = DecideRoute(job.prompt, TRUE), !.rows = rows,
                             !.status = IF l0.task = "vehicle_attribute_stats" THEN StatsStatus(rows)
                                        ELSE LookupStatus(rows)]

RunInLoop ==
    /\ job.st = "priced" /\ ~ Classify(job.prompt).fixed
    /\ job' = [job EXCEPT !.st = "loop", !.route = DecideRoute(job.prompt, FALSE)]

RouteNext == Price \/ RunWorkflow \/ RunInLoop
RouteSpec == RouteInit /\ [][RouteNext]_job

-----------------------------------------------------------------------------
RouteTypeOK ==
    /\ job.st \in {"none", "priced", "answered", "loop"} /\ job.charge \in {0, 1, 2, 4, 8}
    /\ job.status \in {"none", "satisfied", "unmet"} /\ job.prompt.words \subseteq Words

\* Two tables in two files agree: a question that owes a file and reaches the
\* loop is served by the route whose tools can make it, whatever else it says.
OwedFilesAreRouted ==
    job.st = "loop" /\ Owes(job.prompt) \cap {"pptx", "chart"} # {} =>
        job.route.route = "artifact_generation"

=============================================================================
