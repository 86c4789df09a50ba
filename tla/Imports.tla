------------------------------ MODULE Imports ------------------------------
(***************************************************************************)
(* The import of a file of configurations as vehicles, attributes and      *)
(* values (autohome.py): one transaction of MySQL for each request, and    *)
(* requests may overlap.  What a transaction selects is what was committed *)
(* when it began; what it inserts or updates waits for the other that      *)
(* holds the same row.                                                     *)
(***************************************************************************)
EXTENDS Naturals, Sequences, FiniteSets, SequencesExt

CONSTANTS
    Importers,    \* requests that may run at a time
    Files,        \* what mpv_configs_long.csv may hold: sequences of rows
    SpecLimits,   \* values of max_specs, 0 for none
    MaxImports    \* bound on the requests

\* A row has a version of a vehicle, the id of a field, its group and name
\* (their digest is the code of the attribute), and a value: a number, a text or
\* nothing.  The seven attributes every version has are left out.
ASSUME ImportsAssumption ==
    /\ SpecLimits \subseteq Nat /\ MaxImports \in Nat
    /\ \A f \in Files : \A i \in DOMAIN f : f[i].value \in {"number", "text", "blank"}

VARIABLES
    committed,     \* the rows: attributes, vehicles, values
    importing,  \* request -> its step, its file and its uncommitted rows
    imported    \* how many imports began; vehicle -> the last one committed

importvars == <<committed, importing, imported>>

-----------------------------------------------------------------------------
(* Reading the file.                                                       *)
Numeric(value) == value = "number"
NoValue(value) == value = "blank"

SpecsIn(rows) == {rows[i].spec : i \in DOMAIN rows}
FirstRowOf(rows, s) == SelectInSeq(rows, LAMBDA row : row.spec = s)
LimitSpecs(rows, max) ==
    LET allowed == {s \in SpecsIn(rows) :
                      Cardinality({z \in SpecsIn(rows) : FirstRowOf(rows, z) < FirstRowOf(rows, s)}) < max}
    IN IF max = 0 THEN rows ELSE SelectSeq(rows, LAMBDA row : row.spec \in allowed)

\* One profile for each field id, with the group and name of its first row.
Titles(rows) == {rows[i].title : i \in DOMAIN rows}
FieldOf(rows, t) == rows[SelectInSeq(rows, LAMBDA row : row.title = t)].field
Shown(rows, t) == {i \in DOMAIN rows : rows[i].title = t /\ ~ NoValue(rows[i].value)}
IsNumber(rows, t) ==
    LET numbers == {i \in Shown(rows, t) : Numeric(rows[i].value)}
    IN Shown(rows, t) # {} /\ 100 * Cardinality(numbers) >= 85 * Cardinality(Shown(rows, t))
Profiled(rows) == {FieldOf(rows, t) : t \in Titles(rows)}

\* Of two field ids with one name the later decides what the values are.
LastTitle(rows, field) ==
    LET first(t) == SelectInSeq(rows, LAMBDA row : row.title = t)
    IN CHOOSE t \in Titles(rows) : FieldOf(rows, t) = field /\
         \A u \in Titles(rows) : FieldOf(rows, u) = field => first(u) <= first(t)

-----------------------------------------------------------------------------
NoImport == [at |-> "idle", id |-> 0, rows |-> <<>>, seen |-> [attributes |-> {}, vehicles |-> {}],
             attributes |-> {}, held |-> {}, values |-> {}]

ImportsInit ==
    /\ committed = [attributes |-> {}, vehicles |-> {}, values |-> {}]
    /\ importing = [p \in Importers |-> NoImport]
    /\ imported = [count |-> 0, last |-> <<>>]

\* A dry run, a scan, a file that is missing or a backend without tables end
\* here and change nothing.
StartImport(p, file, max) ==
    /\ importing[p].at = "idle" /\ imported.count < MaxImports
    /\ imported' = [imported EXCEPT !.count = @ + 1]
    /\ importing' = [importing EXCEPT ![p] = [NoImport EXCEPT
            !.at = "attributes", !.id = imported.count + 1, !.rows = LimitSpecs(file, max),
            !.seen = [attributes |-> committed.attributes, vehicles |-> committed.vehicles]]]
    /\ UNCHANGED committed

\* All of a transaction or nothing: an error, a deadlock, a lock that is
\* waited for too long, or the end of the process.
RollBack(p) ==
    /\ importing[p].at # "idle"
    /\ importing' = [importing EXCEPT ![p] = NoImport]
    /\ UNCHANGED <<committed, imported>>

\* An attribute that was not there is inserted.  It is a duplicate if somebody
\* has committed it since, or if two field ids of the file have its name.
EnsureAttributes(p) ==
    LET i == importing[p]
        missing == Profiled(i.rows) \ i.seen.attributes
        twice == \E t, u \in Titles(i.rows) : t # u /\ FieldOf(i.rows, t) = FieldOf(i.rows, u)
                                                    /\ FieldOf(i.rows, t) \in missing
    IN /\ i.at = "attributes"
       /\ \A q \in Importers \ {p} : importing[q].attributes \cap missing = {}
       /\ IF twice \/ missing \cap committed.attributes # {} THEN importing' = [importing EXCEPT ![p] = NoImport]
          ELSE importing' = [importing EXCEPT ![p] = [@ EXCEPT !.at = "vehicles", !.attributes = missing]]
       /\ UNCHANGED <<committed, imported>>

\* A version that is there is updated, and its row held; a new one is inserted
\* with a profile for each system.
UpsertVehicle(p, s) ==
    LET i == importing[p] IN
    /\ i.at = "vehicles" /\ s \in SpecsIn(i.rows) \ i.held
    /\ \A z \in SpecsIn(i.rows) \ i.held : FirstRowOf(i.rows, s) <= FirstRowOf(i.rows, z)
    /\ \A q \in Importers \ {p} : s \notin importing[q].held
    /\ importing' = IF s \in committed.vehicles \ i.seen.vehicles
                    THEN [importing EXCEPT ![p] = NoImport]
                    ELSE [importing EXCEPT ![p].held = @ \cup {s}]
    /\ UNCHANGED <<committed, imported>>

\* As if only the attributes of this file were deleted.
DeletedValuesOfFile(i) ==
    {v \in committed.values : v.spec \in i.held /\ v.field \in Profiled(i.rows)}

\* All values of the source's attributes go, those of fields that the file no
\* longer has included; deleting reads what is committed now.
DeletedValues(i) == {v \in committed.values : v.spec \in i.held}

\* A row without a value, or whose field has another name than the first row
\* with its id, is skipped.
NewValues(i) ==
    {[spec |-> i.rows[k].spec, field |-> i.rows[k].field, row |-> k, of |-> i.id,
      number |-> Numeric(i.rows[k].value) /\ IsNumber(i.rows, LastTitle(i.rows, i.rows[k].field))] :
     k \in {n \in DOMAIN i.rows : ~ NoValue(i.rows[n].value) /\ i.rows[n].field \in Profiled(i.rows)}}

\* The rows of the vehicles are held, so no other import has values of theirs
\* on the way.
ReplaceValues(p) ==
    LET i == importing[p] IN
    /\ i.at = "vehicles" /\ i.held = SpecsIn(i.rows)
    /\ importing' = [importing EXCEPT ![p] = [@ EXCEPT !.at = "values",
                        !.values = (committed.values \ DeletedValues(i)) \cup NewValues(i)]]
    /\ UNCHANGED <<committed, imported>>

CommitImport(p) ==
    LET i == importing[p]
        others == {v \in committed.values : v.spec \notin i.held}
    IN /\ i.at = "values"
       /\ committed' = [attributes |-> committed.attributes \cup i.attributes,
                     vehicles |-> committed.vehicles \cup i.held,
                     values |-> others \cup {v \in i.values : v.spec \in i.held}]
       /\ imported' = [imported EXCEPT !.last = [s \in i.held \cup DOMAIN @ |-> IF s \in i.held THEN i.id ELSE @[s]]]
       /\ importing' = [importing EXCEPT ![p] = NoImport]

ImportsNext ==
    \E p \in Importers :
      \/ \E file \in Files, max \in SpecLimits : StartImport(p, file, max)
      \/ EnsureAttributes(p) \/ ReplaceValues(p) \/ CommitImport(p) \/ RollBack(p)
      \/ \E s \in SpecsIn(importing[p].rows) : UpsertVehicle(p, s)

ImportsSpec == ImportsInit /\ [][ImportsNext]_importvars

-----------------------------------------------------------------------------
ImportsTypeOK ==
    /\ \A p \in Importers : importing[p].at \in {"idle", "attributes", "vehicles", "values"}
    /\ imported.count \in 0 .. MaxImports
    /\ \A v \in committed.values : v.spec \in committed.vehicles /\ v.field \in committed.attributes

\* The note of the import says that importing again replaces the values and
\* does not pile them up: whatever requests overlapped, failed or were limited
\* to some versions, a vehicle has values of the last import of it only.
ReimportReplaces == \A v \in committed.values : v.of = imported.last[v.spec]
=============================================================================
