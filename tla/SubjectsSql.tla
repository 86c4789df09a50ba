----------------------------- MODULE SubjectsSql -----------------------------
(***************************************************************************)
(* The tools that read the database of vehicles: how the words of a        *)
(* question are matched with the names of fields, what a scope lets a      *)
(* caller see, the governed path of a generated statement, and what each   *)
(* tool answers when there is nothing, no field, or no database.           *)
(***************************************************************************)
EXTENDS Integers, FiniteSets, SequencesExt, Ordering

CONSTANTS
    FieldTable,      \* the fields, [name, code], words over FieldLetters
    FieldLetters,    \* letters; "front" and "rear" are directions, "unit" a unit or a separator
    MaxWord,         \* bound: the longest word of a catalogue search
    LookupWords,     \* the words lookups and statistics are asked for
    FilterWords,     \* and those a filter is named by, <<>> for none
    MaxValues,       \* bound on the values recorded
    Vehicles,
    FilledFields,    \* the fields that may get values
    ScopedVehicles,  \* the vehicles of a scope that lists some
    OwnedVehicles,   \* the vehicles of an owner
    RetiredVehicles, \* those that may be taken out of use
    CoverageCap,     \* so many values and more are one case (5000)
    MostRelevant,    \* at most so many fields are looked up (10)
    SqlLimit         \* at most so many rows (500)

Directions == {"front", "rear"}
Letters == FieldLetters \cup Directions \cup {"unit"}

ASSUME SubjectsAssumption ==
    /\ FieldTable \in Seq([name : Seq(Letters), code : Seq(Letters)]) /\ MaxWord \in Nat /\ IsFiniteSet(Vehicles)
    /\ CoverageCap \in Nat \ {0} /\ MostRelevant \in Nat \ {0} /\ SqlLimit \in Nat \ {0}
    /\ FilledFields \subseteq DOMAIN FieldTable
    /\ ScopedVehicles \cup OwnedVehicles \cup RetiredVehicles \subseteq Vehicles

VARIABLES
    subjects,    \* active: the vehicles in use; holds[f, v]: a value, a "text" or a "number"
    findings     \* what the last call answered

subjectvars == <<subjects, findings>>

-----------------------------------------------------------------------------
(* Words and scores.  A score is kept in twelfths: shares of sets of at     *)
(* most four elements are exact.                                            *)
Twelfths == 12

Normalized(word) == Selected(word, {i \in DOMAIN word : word[i] # "unit"})

Ngrams(word) ==
    LET text == Normalized(word) IN
    IF Len(text) \in {1, 2} THEN {text} ELSE {SubSeq(text, i, i + 1) : i \in 1..(Len(text) - 1)}

PartOf(text, longer) ==
    \E i \in 0..(Len(longer) - Len(text)) : SubSeq(longer, i + 1, i + Len(text)) = text

Share(weight, left, right) ==
    IF left = {} \/ right = {} THEN 0
    ELSE (weight * Twelfths * Cardinality(left \cap right)) \div Cardinality(left \cup right)

Facing(word) == ToSet(Normalized(word)) \cap Directions

\* The name or the code is what was asked for, has it, or is in it.
Named(query, field) ==
    LET asked == Normalized(query)
        known == {Normalized(field.name), Normalized(field.code)}
    IN IF asked \in known THEN 120
       ELSE IF \E text \in known : PartOf(asked, text) THEN 90
       ELSE IF \E text \in known \ {<<>>} : PartOf(text, asked) THEN 65 ELSE 0

Towards(query, field) ==
    IF Facing(query) = {} THEN 0
    ELSE IF Facing(field.name) = {} THEN -8
    ELSE IF Facing(query) \cap Facing(field.name) # {} THEN 25 ELSE -80

\* The letters and the pairs of letters that both have.
Likeness(query, field) ==
    Share(45, ToSet(Normalized(query)), ToSet(Normalized(field.name))) + Share(55, Ngrams(query), Ngrams(field.name))

FieldSimilarity(query, field) ==
    LET score == (Named(query, field) + Towards(query, field)) * Twelfths + Likeness(query, field)
    IN IF Normalized(query) = <<>> \/ score < 0 THEN 0 ELSE score

SearchWords == UNION {[1..n -> Letters] : n \in 1..MaxWord}

AskedWords == SearchWords \cup LookupWords \cup FilterWords

Similarity == [query \in AskedWords |-> [f \in DOMAIN FieldTable |-> FieldSimilarity(query, FieldTable[f])]]

\* Every field that shares a letter with the words.
MatchingFields ==
    [query \in AskedWords |->
        {f \in DOMAIN FieldTable :
            /\ ToSet(Normalized(query)) \cap (ToSet(FieldTable[f].name) \cup ToSet(FieldTable[f].code)) # {}
            /\ Similarity[query][f] > 0}]

Populated(f) == Cardinality({v \in Vehicles : <<f, v>> \in DOMAIN subjects.holds /\ subjects.holds[<<f, v>>] # "none"})

\* As if being filled counted for more than a hint.
MatchScoreByCoverage(query, f) ==
    Similarity[query][f] + (80 * Twelfths * Populated(f)) \div CoverageCap

MatchScore(query, f) ==
    Similarity[query][f]
      + (8 * Twelfths * (IF Populated(f) < CoverageCap THEN Populated(f) ELSE CoverageCap)) \div CoverageCap

\* A row of a field: its score and its number of values.
Scored(f, score, filled) == [field |-> f, score |-> score, filled |-> filled]

\* The higher score first, then more values, then the lower number: the k-th
\* row is the one with k - 1 before it.
SortedFields(rows) ==
    LET before(r) == {o \in rows :
            \/ o.score > r.score
            \/ o.score = r.score /\ (o.filled > r.filled \/ (o.filled = r.filled /\ o.field < r.field))}
    IN [k \in 1..Cardinality(rows) |-> (CHOOSE r \in rows : Cardinality(before(r)) = k - 1).field]

CandidateFields(query) == {Scored(f, MatchScore(query, f), Populated(f)) : f \in MatchingFields[query]}

FirstFields(fields, limit) == SubSeq(fields, 1, IF Len(fields) < limit THEN Len(fields) ELSE limit)

\* Those of three quarters of the best score, and of 45 at least.
RelevantFields(query, limit) ==
    LET rows == CandidateFields(query)
        relevant == {r \in rows : r.score >= 45 * Twelfths /\ \A o \in rows : 4 * r.score >= 3 * o.score}
    IN FirstFields(SortedFields(relevant), limit)

\* Without a field to filter by, the fields in which the text occurs; it is
\* not looked for among numbers.
FieldsByValue(value) ==
    LET Matched(f) == Cardinality({v \in Vehicles : <<f, v>> \in DOMAIN subjects.holds /\ subjects.holds[<<f, v>>] = value})
    IN FirstFields(SortedFields({Scored(f, Matched(f), 0) : f \in {g \in FilledFields : value = "text" /\ Matched(g) > 0}}),
                   MostRelevant)

-----------------------------------------------------------------------------
(* Scopes, the database and its failures.                                  *)
Scopes == {"none", "all", "vehicles", "owner", "systems"}

\* Only an administrator's scope "all" shows vehicles out of use.
InScope(scope, v) ==
    \/ scope = "all"
    \/ /\ v \in subjects.active
       /\ scope = "vehicles" => v \in ScopedVehicles
       /\ scope = "owner" => v \in OwnedVehicles

Setups == {"ready", "DEPENDENCY_NOT_CONFIGURED", "DEPENDENCY_CONFIGURATION_INVALID", "DEPENDENCY_CLIENT_MISSING"}

DatabaseTools == {"schema", "glob", "catalog", "lookup", "stats", "query"}

Faults == {"SQL_DEPENDENCY_TRANSIENT_FAILURE", "SQL_EXECUTION_REJECTED"}

NothingFound == [tool |-> "none", status |-> "none", reason |-> "none", fields |-> <<>>, rows |-> {},
                 cohort |-> 0, truncated |-> FALSE, query |-> <<>>]

Tells(tool, status, reason) == [NothingFound EXCEPT !.tool = tool, !.status = status, !.reason = reason]

AfterFault(fault) == IF fault = "SQL_EXECUTION_REJECTED" THEN "invalid_input" ELSE "transient_failure"

SubjectsInit ==
    /\ subjects = [active |-> Vehicles, holds |-> [fv \in FilledFields \X Vehicles |-> "none"]]
    /\ findings = NothingFound

Answer(finding) == findings = NothingFound /\ findings' = finding /\ UNCHANGED subjects

\* The agent reads the result.
ReadFindings == findings # NothingFound /\ findings' = NothingFound /\ UNCHANGED subjects

\* The services that import and retire vehicles.
RecordValue(f, v, value) ==
    /\ findings = NothingFound /\ subjects.holds[<<f, v>>] = "none"
    /\ Cardinality({fv \in DOMAIN subjects.holds : subjects.holds[fv] # "none"}) < MaxValues
    /\ subjects' = [subjects EXCEPT !.holds[<<f, v>>] = value] /\ UNCHANGED findings

Retire(v) ==
    /\ findings = NothingFound /\ v \in subjects.active
    /\ subjects' = [subjects EXCEPT !.active = @ \ {v}] /\ UNCHANGED findings

-----------------------------------------------------------------------------
(* The tools on fields and values.                                         *)
\* What is checked before each of the three.
PreflightFields(tool, setup, words, scope) ==
    IF setup # "ready" THEN Tells(tool, "rejected", setup)
    ELSE IF words = "empty" THEN Tells(tool, "rejected", "KEYWORD_MISSING")
    ELSE IF words = "component" THEN Tells(tool, "rejected", "CAPABILITY_ENTITY_UNSUPPORTED")
    ELSE IF scope = "systems" THEN Tells(tool, "rejected", "DATA_SCOPE_REJECTED")
    ELSE NothingFound

RefuseFields(tool, setup, words, scope) ==
    /\ words = "component" => tool = "lookup"
    /\ tool \in {"schema", "glob", "query"} => words = "words" /\ scope = "none"
    /\ PreflightFields(tool, setup, words, scope) # NothingFound
    /\ Answer(PreflightFields(tool, setup, words, scope))

\* The values are counted within the scope, of more fields than are shown; the
\* order is that of the scores.  The limit is the caller's.  (Each result is
\* bound, so that it is not found anew wherever it is used.)
SearchCatalog(query, scope, limit) ==
    /\ findings = NothingFound /\ scope # "systems"
    /\ \E fields \in {RelevantFields(query, 2 * MostRelevant)} :
       \E counted \in {{fv \in ToSet(fields) \X Vehicles :
                          /\ fv \in DOMAIN subjects.holds /\ subjects.holds[fv] # "none" /\ InScope(scope, fv[2])}} :
       \E shown \in {FirstFields(SortedFields({Scored(f, MatchScore(query, f), Cardinality({fv \in counted : fv[1] = f})) :
                                                   f \in ToSet(fields)}), limit)} :
       \E rows \in {{fv \in counted : fv[1] \in ToSet(shown)}} :
       LET status == IF rows = {} THEN "data_coverage_insufficient" ELSE "success"
           reason == IF fields = <<>> THEN "CATALOG_FIELD_NOT_COVERED"
                     ELSE IF rows = {} THEN "CATALOG_VALUES_NOT_COVERED" ELSE "none"
       IN Answer([Tells("catalog", status, reason) EXCEPT !.fields = shown, !.rows = rows, !.query = query])

FilterFields(filterWord, value) ==
    IF filterWord # <<>> THEN RelevantFields(filterWord, MostRelevant)
    ELSE IF value # "none" THEN FieldsByValue(value) ELSE <<>>

\* A filter no field was found for is not applied at all.
PassesFilter(v, filters, value) ==
    \/ filters = <<>> \/ value = "none"
    \/ \E f \in ToSet(filters) : <<f, v>> \in DOMAIN subjects.holds /\ subjects.holds[<<f, v>>] = value

RowsOf(fields, entities, filters, value, scope, kinds) ==
    {fv \in ToSet(fields) \X entities :
       /\ fv \in DOMAIN subjects.holds /\ subjects.holds[fv] \in kinds
       /\ PassesFilter(fv[2], filters, value) /\ InScope(scope, fv[2])}

Lookup(query, entities, filterWord, value, scope) ==
    LET fields == RelevantFields(query, MostRelevant)
        filters == FilterFields(filterWord, value)
        rows == RowsOf(fields, entities, filters, value, scope, {"text", "number"})
        cohort == IF value = "none" \/ filters = <<>> THEN {}
                  ELSE {v \in entities : PassesFilter(v, filters, value) /\ InScope(scope, v)}
    IN /\ scope # "systems"
       /\ Answer([Tells("lookup", IF rows = {} THEN "no_data" ELSE "success",
                        IF rows = {} THEN "VEHICLE_ATTRIBUTE_NO_ROWS" ELSE "none")
                    EXCEPT !.fields = fields, !.rows = rows, !.cohort = Cardinality(cohort)])

\* Numbers only.
Stats(queries, entities, filterWord, value, scope) ==
    LET filters == FilterFields(filterWord, value)
        rows == UNION {RowsOf(RelevantFields(q, MostRelevant), entities, filters, value, scope,
                              {"number"}) : q \in queries}
    IN /\ scope # "systems"
       /\ Answer([Tells("stats", IF rows = {} THEN "no_data" ELSE "success",
                        IF rows = {} THEN "VEHICLE_ATTRIBUTE_STATS_NO_NUMERIC_VALUES" ELSE "none")
                    EXCEPT !.rows = rows])

\* The database fails in a call.  The questions of a lookup for its fields, of
\* statistics for those of the filter, and those for the schema come before
\* failures are caught; of several words of statistics, one failure loses all.
BreakOff(tool, caught, fault) ==
    /\ tool \in {"schema", "glob"} => ~caught
    /\ tool \in {"catalog", "query"} => caught
    /\ Answer(IF caught THEN Tells(tool, AfterFault(fault), fault) ELSE Tells(tool, "raised", "none"))

-----------------------------------------------------------------------------
(* The schema and generated statements.                                    *)
\* Names that are guesses are resolved; without a name all tables are listed.
InspectSchema(table, known) ==
    Answer(Tells("schema", IF table = "named" /\ ~known THEN "error" ELSE "success", "none"))

\* Columns fill what tables leave of the limit; no row is no error.
Glob(pattern, where, tables, columns) ==
    LET shown == IF where = "columns" THEN 0 ELSE IF tables < SqlLimit THEN tables ELSE SqlLimit
        room == SqlLimit - shown
        more == IF where = "tables" THEN 0 ELSE IF columns < room THEN columns ELSE room
    IN Answer(IF pattern = "empty" THEN Tells("glob", "raised", "none")
              ELSE [Tells("glob", "success", "none") EXCEPT !.cohort = shown + more])

\* flaw: what is wrong with a statement, costly: more rows than may be scanned;
\* of: what it reads, "active" if it speaks of a status and of active.
Statements ==
    [flaw : {"none", "empty", "comment", "write", "malformed", "table", "costly"}, of : {"fields", "vehicles", "active"},
     limited : BOOLEAN, found : 0..(SqlLimit + 1)]

\* Without the parser a statement that is not well formed passes.
SqlAllowed(stmt, parser) ==
    stmt.flaw \notin {"comment", "write", "table"} /\ (parser => stmt.flaw # "malformed")

ScopeAllows(stmt, scope) ==
    scope \notin {"vehicles", "owner", "systems"} /\ (scope = "active" => stmt.of # "vehicles")

PreflightSql(stmt, parser, scope) ==
    IF stmt.flaw = "empty" THEN Tells("query", "rejected", "EMPTY_SQL_QUERY")
    ELSE IF ~SqlAllowed(stmt, parser) THEN Tells("query", "rejected", "SQL_POLICY_REJECTED")
    ELSE IF ~ScopeAllows(stmt, scope) THEN Tells("query", "permission_denied", "SQL_DATA_SCOPE_REJECTED")
    ELSE NothingFound

\* A limit is added where there is none; only a statement with a limit of its
\* own is ever told to be cut off.
RunQuery(stmt, parser, scope) ==
    LET rows == IF stmt.limited \/ stmt.found < SqlLimit THEN stmt.found ELSE SqlLimit
        checked == PreflightSql(stmt, parser, scope)
    IN Answer(IF checked # NothingFound THEN checked
              ELSE IF stmt.flaw = "malformed" THEN Tells("query", "invalid_input", "SQL_EXECUTION_REJECTED")
              ELSE IF stmt.flaw = "costly" THEN Tells("query", "invalid_input", "SQL_SCAN_BUDGET_EXCEEDED")
              ELSE [Tells("query", IF rows = 0 THEN "no_data" ELSE "success", IF rows = 0 THEN "SQL_NO_ROWS" ELSE "none")
                      EXCEPT !.cohort = IF rows < SqlLimit THEN rows ELSE SqlLimit, !.truncated = rows > SqlLimit])

-----------------------------------------------------------------------------
Entities == {Vehicles, ScopedVehicles}

SubjectsNext ==
    \/ ReadFindings
    \/ \E f \in FilledFields, v \in Vehicles, value \in {"text", "number"} : RecordValue(f, v, value)
    \/ \E v \in RetiredVehicles : Retire(v)
    \/ \E tool \in DatabaseTools, setup \in Setups, words \in {"empty", "component", "words"}, scope \in Scopes :
         RefuseFields(tool, setup, words, scope)
    \/ \E tool \in DatabaseTools, caught \in BOOLEAN, fault \in Faults : BreakOff(tool, caught, fault)
    \/ \E query \in SearchWords, scope \in Scopes, limit \in 1..MostRelevant : SearchCatalog(query, scope, limit)
    \/ \E query \in LookupWords, entities \in Entities, filterWord \in FilterWords,
         value \in {"none", "text", "number"}, scope \in Scopes : Lookup(query, entities, filterWord, value, scope)
    \/ \E queries \in {LookupWords}, entities \in Entities, filterWord \in FilterWords,
         value \in {"none", "text", "number"}, scope \in Scopes : Stats(queries, entities, filterWord, value, scope)
    \/ \E table \in {"named", "all"}, known \in BOOLEAN : InspectSchema(table, known)
    \/ \E pattern \in {"empty", "pattern"}, where \in {"tables", "columns", "all"}, tables, columns \in 0..(SqlLimit + 1) :
         Glob(pattern, where, tables, columns)
    \/ \E stmt \in Statements, parser \in BOOLEAN, scope \in Scopes \cup {"active"} : RunQuery(stmt, parser, scope)

SubjectsSpec == SubjectsInit /\ [][SubjectsNext]_subjectvars

-----------------------------------------------------------------------------
SubjectsTypeOK ==
    /\ subjects.active \subseteq Vehicles
    /\ subjects.holds \in [FilledFields \X Vehicles -> {"none", "text", "number"}]
    /\ ToSet(findings.fields) \subseteq DOMAIN FieldTable /\ Len(findings.fields) <= MostRelevant
    /\ findings.rows \subseteq FilledFields \X Vehicles

\* A field whose code is the name of another differs from that one in letters
\* and pairs by more than its values can make up for (8 of the hint).
CodesDiffer ==
    \A f, g \in DOMAIN FieldTable :
        LET name == Normalized(FieldTable[f].name) IN
        Normalized(FieldTable[g].code) = name /\ Normalized(FieldTable[g].name) # name =>
            Likeness(FieldTable[f].name, FieldTable[g]) < (100 - 8) * Twelfths

\* A field whose name is exactly what was asked for comes first in the answer,
\* whatever its values, those of the others, and what the others share with
\* the question: five weights are added up and no one of them decides alone.
ExactNameWins ==
    findings.fields # <<>> /\ findings.tool = "catalog" =>
        LET exact == {f \in DOMAIN FieldTable : Normalized(FieldTable[f].name) = Normalized(findings.query)}
        IN exact # {} => findings.fields[1] \in exact
=============================================================================
