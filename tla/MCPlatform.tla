----------------------------- MODULE MCPlatform -----------------------------
(***************************************************************************)
(* One instance for the components that share no state in the model.  The  *)
(* initial state chooses a part, and only the variables of that part move, *)
(* so the state space is the union of those of the parts.                  *)
(***************************************************************************)
EXTENDS WebRuntime, ToolRuns, AgentLoop, Routing, FileTools, ContextWindow, WorkLists, Datasets, Retrieval, Chunking, EventStream, Providers, Repl, RunReport, SubjectsSql, Leases, JobRecords, Imports, RoundRobin

CONSTANT Parts      \* the parts to be explored
VARIABLE part

-----------------------------------------------------------------------------
(* The web process: two jobs of one conversation, a cancellation of the    *)
(* first, and a direct request.                                            *)
CONSTANTS r1, r2, r3, ws, wj1, wj2

WebAsks(kinds, jobs) ==
    {[kind |-> k, sess |-> ws, job |-> j] : k \in kinds, j \in jobs}
MCOffers ==
    r1 :> WebAsks({"stream"}, {wj1}) @@ r2 :> WebAsks({"stream", "chat", "new"}, {wj2})
        @@ r3 :> WebAsks({"cancel"}, {wj1}) \cup WebAsks({"stream"}, {wj2})

-----------------------------------------------------------------------------
(* The tools: a lookup that can be batched, a fetch, and a chart, which has *)
(* effects although it may run in parallel.                                 *)
CONSTANTS lookup, lookup2, fetch, chart, chart2

ToolPolicy(tool, pure, batch, depends) ==
    [tool |-> tool, pure |-> pure, idempotent |-> pure, parallel |-> TRUE, batch |-> batch,
     attempts |-> IF pure THEN 2 ELSE 1, retries |-> pure, depends |-> depends, verdict |-> "eligible"]
MCPolicy ==
    [c \in {lookup, lookup2} |-> ToolPolicy("lookup", TRUE, TRUE, TRUE)] @@ fetch :> ToolPolicy("fetch", TRUE, FALSE, FALSE)
        @@ [c \in {chart, chart2} |-> ToolPolicy("chart", FALSE, FALSE, FALSE)]
MCBatches ==
    {<<lookup, lookup2>>, <<lookup, fetch>>, <<fetch, fetch>>, <<chart, chart2>>, <<fetch, chart>>}

-----------------------------------------------------------------------------
(* The loop: a question, a presentation of two slides, and a question that  *)
(* is answered from tables, of an OpenAI provider.                          *)
CONSTANTS sql1, sql2, page1, page2, web1, web2, web3, web4, todo, deck, look

LoopTool(family, effects, makes, fragile) ==
    [family |-> family, effects |-> effects, makes |-> makes, denied |-> FALSE, fragile |-> fragile]
MCTools ==
    "TodoWrite" :> LoopTool("plan", FALSE, "none", FALSE) @@ "Sql" :> LoopTool("sql", FALSE, "none", TRUE)
        @@ "WebFetch" :> LoopTool("webfetch", FALSE, "none", FALSE)
        @@ "WebSearch" :> LoopTool("websearch", FALSE, "none", FALSE)
        @@ "Pptx" :> LoopTool("make", TRUE, "pptx", FALSE) @@ "Lookup" :> LoopTool("lookup", FALSE, "none", FALSE)
MCToolOf ==
    [c \in {sql1, sql2} |-> "Sql"] @@ [c \in {page1, page2} |-> "WebFetch"]
        @@ [c \in {web1, web2, web3, web4} |-> "WebSearch"]
        @@ todo :> "TodoWrite" @@ deck :> "Pptx" @@ look :> "Lookup"
MCUrl == [c \in {page1, page2} |-> "page"]

LoopResult(out, error, print, rows) ==
    [out |-> out, error |-> error, print |-> print, explicit |-> <<>>, rows |-> rows, makes |-> "none",
     file |-> [exists |-> FALSE, slides |-> 0, complete |-> FALSE], todos |-> <<>>, names |-> {},
     retryable |-> FALSE]
Good(print, number) == LoopResult("success", FALSE, <<print>>, <<[id |-> print, numbers |-> {number}]>>)
Wrong(out) == LoopResult(out, TRUE, <<out>>, <<>>)
PlanOf(status) ==
    [LoopResult("success", FALSE, <<"plan", status>>, <<>>) EXCEPT !.todos = "step" :> status, !.names = {"Sql"}]
DeckOf(n) ==
    [LoopResult("success", FALSE, <<"deck">>, <<>>) EXCEPT
        !.makes = "pptx", !.file = [exists |-> TRUE, slides |-> n, complete |-> TRUE]]
SqlResults(print) ==
    {Good(print, 1), LoopResult("data_coverage_insufficient", FALSE, <<"coverage">>, <<>>),
     Wrong("dependency_unhealthy")}
WebResults(print) == {Good(print, 2), Wrong("transient_failure")}
MCResults ==
    sql1 :> SqlResults("a") @@ sql2 :> SqlResults("b") @@ [c \in {page1, page2} |-> WebResults("page")]
        @@ web1 :> WebResults("w1") @@ web2 :> WebResults("w2") @@ web3 :> WebResults("w3")
        @@ web4 :> WebResults("w4") @@ todo :> {PlanOf("pending"), PlanOf("completed")}
        @@ deck :> {DeckOf(1), DeckOf(2)} @@ look :> {Good("l", 3), Wrong("raised")}
MCReplies ==
    {<<sql1, sql2>>, <<page1, page2>>, <<web1, web2>>, <<web3, web4>>, <<todo, deck>>, <<look>>, <<deck>>}
MCPrompts ==
    {NoRequest,
     [NoRequest EXCEPT !.artifacts = {"pptx"}, !.slides = 2, !.general = FALSE,
                       !.preferred = {"Pptx", "Sql"}, !.fallback = {"WebFetch"}],
     [NoRequest EXCEPT !.kinds = {"sql", "structured_data"}, !.general = FALSE, !.preferred = {"Lookup"},
                       !.fallback = {"Sql"}, !.staged = TRUE, !.blocks = FALSE, !.planned = TRUE]}
MCAnswers == {{}, {[ids |-> {1}, numbers |-> {1}, near |-> TRUE, hedged |-> FALSE]}}
MCLimits ==
    [fuse |-> 3, duplicates |-> 2, noProgress |-> 3, lateTurns |-> 2, lateFailures |-> 2, coverage |-> 2,
     budget |-> [input |-> 5, output |-> 5, afterProgress |-> 5, low |-> 3]]

-----------------------------------------------------------------------------
(* Routing: words of the tables, translated.                               *)
RouteWord(attr, l0, card, weight, owes, plain) ==
    [attr |-> attr, l0 |-> l0, score |-> IF card = "none" THEN <<>> ELSE card :> weight,
     owes |-> owes, plain |-> plain]
MCWord ==
    "wheelbase" :> RouteWord("wheelbase", {"canonical"}, "vehicle_spec", 10, "none", "spec")
        @@ "price" :> RouteWord("guide price", {}, "vehicle_spec", 6, "none", "none")
        @@ "statistics" :> RouteWord("none", {"stats", "shape"}, "none", 0, "none", "none")
        @@ "all" :> RouteWord("none", {"scope", "shape"}, "none", 0, "none", "none")
        @@ "field" :> RouteWord("none", {"field"}, "none", 0, "none", "none")
        @@ "SUV" :> RouteWord("none", {"cohort"}, "none", 0, "none", "none")
        @@ "explain" :> RouteWord("none", {"explain"}, "none", 0, "none", "none")
        @@ "query" :> RouteWord("none", {"data"}, "none", 0, "none", "none")
        @@ "report" :> RouteWord("none", {"complex"}, "artifact_generation", 4, "none", "artifact")
        @@ "slides" :> RouteWord("none", {}, "artifact_generation", 8, "pptx", "artifact")
        @@ "draw" :> RouteWord("none", {}, "artifact_generation", 6, "chart", "none")
        @@ "visual" :> RouteWord("none", {}, "artifact_generation", 4, "chart", "none")
        @@ "analysis" :> RouteWord("none", {"complex"}, "trend_analysis", 6, "none", "analysis")
        @@ "market" :> RouteWord("none", {}, "trend_analysis", 6, "none", "analysis")
        @@ "manual" :> RouteWord("none", {}, "manual_qa", 10, "none", "manual")
MCAttrOrder == <<"wheelbase", "guide price">>
MCAsked == UNION {kSubset(n, Words) : n \in 0 .. 3}

-----------------------------------------------------------------------------
(* The database of vehicles: two fields that differ in the direction, and   *)
(* two of the same letters; the code of the first is the name of the next.  *)
CONSTANTS mv1, mv2
MCField(name, code) == [name |-> name, code |-> code]
MCFieldTable ==
    <<MCField(<<"b", "a">>, <<"a", "b">>), MCField(<<"a", "b">>, <<"b">>), MCField(<<"front", "a">>, <<"front">>),
      MCField(<<"rear", "a", "unit">>, <<"b", "b">>)>>
ASSUME CodesDiffer
MCFilterWords == {<<>>, <<"front">>}
MCRow(s, t, f, v) == [spec |-> s, title |-> t, field |-> f, value |-> v]
MCFiles == {
    <<MCRow("s1", "t1", "f1", "number"), MCRow("s1", "t2", "f2", "text"), MCRow("s2", "t1", "f1", "number")>>,
    <<MCRow("s2", "t1", "f1", "number"), MCRow("s1", "t1", "f1", "text"), MCRow("s1", "t1", "f2", "number")>>,
    <<MCRow("s1", "t1", "f1", "number"), MCRow("s1", "t2", "f1", "blank"), MCRow("s1", "t3", "f2", "number")>>}
MCCitation(id, contents) == [id |-> id, contents |-> contents]
MCClaim(id, cited, status) == [id |-> id, cites |-> cited, status |-> status]
MCMetadata == {
    [citations |-> {MCCitation(1, "first")}, claims |-> {MCClaim(1, {1}, "supported")}, audit |-> {"call"}],
    [citations |-> {MCCitation(1, "other"), MCCitation(2, "first")},
     claims |-> {MCClaim(1, {1, 3}, "invalid_citation"), MCClaim(2, {1, 2}, "supported")},
     audit |-> {"context_compacted", "nameless"}]}
MCLookupWords == {<<"a", "b">>, <<"c">>}

-----------------------------------------------------------------------------
\* Two users of the job service, one with light jobs, one with heavy ones.
MCAsks == {[user |-> r1, chat |-> "c", cost |-> 4], [user |-> r2, chat |-> "c", cost |-> 8]}

CONSTANTS mf1, mt1, mx1, mc1, ma1, ma2   \* a file, a task, a background task, a cron, annotators

\* Several requests on types overlap in the part "classes" alone; in the part
\* "catalog" there are attributes as long as there is no third type.
FewTypes(new) ==
    /\ \A i \in 3 .. Len(types') : types'[i].code \in new /\ Len(types') = 3 /\ attributes' = <<>>
    /\ \A i \in Updatable : updating'[i] <= (IF types'[Len(types')].status = "pending" THEN 0 ELSE 1)

\* With a break, the runtime says nothing before the end of the job but a delta
\* and the final telemetry.
FewEvents ==
    breaks' # <<>> =>
        NumbersOf({"telemetry", "tool_use"})' = {} /\ (course' # "ended" => NumbersOf({"error"})' = {})

\* Attempts are saved as long as the second job is not there.
FewSaves == (\E p \in Stores : stores'[p].snapshot # NoSnapshot) => DOMAIN records' = Staged

\* A process that stops has no direct chat.
StopWithoutChat == crashed' => \A r \in Requests : th'[r].kind # "chat"

\* Services fail, and prompts are stopped, while the first batch of calls is
\* under way; a run of the loop is stopped in its first turn.
EarlyTrouble == ~healthy' \/ stop' => batches' <= 1
EarlyStop == stopped' => turn' <= 1

\* A job that is queued again meets one other; a restart meets three.
FewRequeues == tally'.requeues > 0 => Len(chatjobs') <= 2

\* Searches are made of the first versions of the documents.
FewSearches == inquiry'.at # "idle" => \A d \in RagDocs : corpus'[d] <= 1

Init ==
    /\ part \in Parts
    /\ WebInit /\ ToolInit /\ LoopInit /\ RouteInit /\ FileInit /\ WindowInit
    /\ ListInit /\ CatalogInit /\ DatasetInit /\ RetrievalInit /\ ChunkingInit /\ StreamInit
    /\ ProviderInit /\ ReplInit /\ ReportInit /\ SubjectsInit /\ LeaseInit /\ RecordsInit
    /\ ImportsInit /\ RobinInit

Next ==
    \/ part = "web" /\ WebNext /\ StopWithoutChat
         /\ UNCHANGED <<part, toolvars, loopvars, job, filevars, windowvars, listvars, catalogvars, datasetvars,
                        retrievalvars, chunkingvars, streamvars, providervars, replvars, reportvars, subjects,
                        findings, leases, leaders, recordvars, importvars, robinvars>>
    \/ part = "tools" /\ ToolNext /\ EarlyTrouble
         /\ UNCHANGED <<part, webvars, loopvars, job, filevars, windowvars, listvars, catalogvars, datasetvars,
                        retrievalvars, chunkingvars, streamvars, providervars, replvars, reportvars, subjects,
                        findings, leases, leaders, recordvars, importvars, robinvars>>
    \/ part = "loop" /\ LoopNext /\ EarlyStop
         /\ UNCHANGED <<part, webvars, toolvars, job, filevars, windowvars, listvars, catalogvars, datasetvars,
                        retrievalvars, chunkingvars, streamvars, providervars, replvars, reportvars, subjects,
                        findings, leases, leaders, recordvars, importvars, robinvars>>
    \/ part = "route" /\ RouteNext
         /\ UNCHANGED <<part, webvars, toolvars, loopvars, filevars, windowvars, listvars, catalogvars, datasetvars,
                        retrievalvars, chunkingvars, streamvars, providervars, replvars, reportvars, subjects,
                        findings, leases, leaders, recordvars, importvars, robinvars>>
    \/ part = "files" /\ FileNext
         /\ UNCHANGED <<part, webvars, toolvars, loopvars, job, windowvars, listvars, catalogvars, datasetvars,
                        retrievalvars, chunkingvars, streamvars, providervars, replvars, reportvars, subjects,
                        findings, leases, leaders, recordvars, importvars, robinvars>>
    \/ part = "window" /\ WindowNext
         /\ UNCHANGED <<part, webvars, toolvars, loopvars, job, filevars, listvars, catalogvars, datasetvars,
                        retrievalvars, chunkingvars, streamvars, providervars, replvars, reportvars, subjects,
                        findings, leases, leaders, recordvars, importvars, robinvars>>
    \/ part = "lists" /\ ListNext
         /\ UNCHANGED <<part, webvars, toolvars, loopvars, job, filevars, windowvars, catalogvars, datasetvars,
                        retrievalvars, chunkingvars, streamvars, providervars, replvars, reportvars, subjects,
                        findings, leases, leaders, recordvars, importvars, robinvars>>
    \/ part = "catalog" /\ CatalogNext /\ FewTypes({"disc"})
         /\ UNCHANGED <<part, webvars, toolvars, loopvars, job, filevars, windowvars, listvars, datasetvars,
                        retrievalvars, chunkingvars, streamvars, providervars, replvars, reportvars, subjects,
                        findings, leases, leaders, recordvars, importvars, robinvars>>
    \/ /\ \/ part = "dataset" /\ DatasetNext /\ FewTypes({})
          \/ part = "classes" /\ DatasetNext /\ UNCHANGED <<images, annotations, labelling>>
         /\ UNCHANGED <<part, webvars, toolvars, loopvars, job, filevars, windowvars, listvars, retrievalvars,
                        chunkingvars, streamvars, providervars, replvars, reportvars, subjects, findings, leases,
                        leaders, recordvars, importvars, robinvars>>
    \/ part = "retrieval" /\ RetrievalNext /\ FewSearches
         /\ UNCHANGED <<part, webvars, toolvars, loopvars, job, filevars, windowvars, listvars, catalogvars,
                        datasetvars, chunkingvars, streamvars, providervars, replvars, reportvars, subjects, findings,
                        leases, leaders, recordvars, importvars, robinvars>>
    \/ part = "chunking" /\ ChunkingNext
         /\ UNCHANGED <<part, webvars, toolvars, loopvars, job, filevars, windowvars, listvars, catalogvars,
                        datasetvars, retrievalvars, streamvars, providervars, replvars, reportvars, subjects,
                        findings, leases, leaders, recordvars, importvars, robinvars>>
    \/ part = "stream" /\ StreamNext /\ FewEvents
         /\ UNCHANGED <<part, webvars, toolvars, loopvars, job, filevars, windowvars, listvars, catalogvars,
                        datasetvars, retrievalvars, chunkingvars, providervars, replvars, reportvars, subjects,
                        findings, leases, leaders, recordvars, importvars, robinvars>>
    \/ part = "providers" /\ ProviderNext
         /\ UNCHANGED <<part, webvars, toolvars, loopvars, job, filevars, windowvars, listvars, catalogvars,
                        datasetvars, retrievalvars, chunkingvars, streamvars, replvars, reportvars, subjects,
                        findings, leases, leaders, recordvars, importvars, robinvars>>
    \/ part = "terminal" /\ ReplNext
         /\ UNCHANGED <<part, webvars, toolvars, loopvars, job, filevars, windowvars, listvars, catalogvars,
                        datasetvars, retrievalvars, chunkingvars, streamvars, providervars, reportvars, subjects,
                        findings, leases, leaders, recordvars, importvars, robinvars>>
    \/ part = "report" /\ ReportNext
         /\ UNCHANGED <<part, webvars, toolvars, loopvars, job, filevars, windowvars, listvars, catalogvars,
                        datasetvars, retrievalvars, chunkingvars, streamvars, providervars, replvars, subjects,
                        findings, leases, leaders, recordvars, importvars, robinvars>>
    \/ part = "subjects" /\ SubjectsNext
         /\ UNCHANGED <<part, webvars, toolvars, loopvars, job, filevars, windowvars, listvars, catalogvars,
                        datasetvars, retrievalvars, chunkingvars, streamvars, providervars, replvars, reportvars,
                        leases, leaders, recordvars, importvars, robinvars>>
    \/ part = "lease" /\ LeaseNext
         /\ UNCHANGED <<part, webvars, toolvars, loopvars, job, filevars, windowvars, listvars, catalogvars,
                        datasetvars, retrievalvars, chunkingvars, streamvars, providervars, replvars, reportvars,
                        subjects, findings, recordvars, importvars, robinvars>>
    \/ part = "records" /\ RecordsNext /\ FewSaves
         /\ UNCHANGED <<part, webvars, toolvars, loopvars, job, filevars, windowvars, listvars, catalogvars,
                        datasetvars, retrievalvars, chunkingvars, streamvars, providervars, replvars, reportvars,
                        subjects, findings, leases, leaders, importvars, robinvars>>
    \/ part = "imports" /\ ImportsNext
         /\ UNCHANGED <<part, webvars, toolvars, loopvars, job, filevars, windowvars, listvars, catalogvars,
                        datasetvars, retrievalvars, chunkingvars, streamvars, providervars, replvars, reportvars,
                        subjects, findings, leases, leaders, recordvars, robinvars>>
    \/ part = "rounds" /\ RobinNext /\ FewRequeues
         /\ UNCHANGED <<part, webvars, toolvars, loopvars, job, filevars, windowvars, listvars, catalogvars,
                        datasetvars, retrievalvars, chunkingvars, streamvars, providervars, replvars, reportvars,
                        subjects, findings, leases, leaders, recordvars, importvars>>

Spec == Init /\ [][Next]_<<part, webvars, toolvars, loopvars, job, filevars, windowvars, listvars, catalogvars,
                            datasetvars, retrievalvars, chunkingvars, streamvars, providervars, replvars, reportvars,
                            subjects, findings, leases, leaders, recordvars, importvars, robinvars>>

\* Each variable of the part that runs has its type; the others keep their
\* initial values.
PlatformTypeOK ==
    CASE part = "web" -> WebTypeOK
      [] part = "tools" -> ToolTypeOK
      [] part = "loop" -> LoopTypeOK
      [] part = "route" -> RouteTypeOK
      [] part = "files" -> FileTypeOK
      [] part = "window" -> WindowTypeOK
      [] part = "lists" -> ListTypeOK
      [] part = "catalog" -> CatalogTypeOK
      [] part \in {"dataset", "classes"} -> CatalogTypeOK /\ DatasetTypeOK
      [] part = "retrieval" -> RetrievalTypeOK
      [] part = "chunking" -> ChunkingTypeOK
      [] part = "stream" -> StreamTypeOK
      [] part = "providers" -> ProviderTypeOK
      [] part = "terminal" -> ReplTypeOK
      [] part = "report" -> ReportTypeOK
      [] part = "subjects" -> SubjectsTypeOK
      [] part = "lease" -> LeaseTypeOK
      [] part = "records" -> RecordsTypeOK
      [] part = "imports" -> ImportsTypeOK
      [] part = "rounds" -> RobinTypeOK
=============================================================================
