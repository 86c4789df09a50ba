--------------------------- MODULE ServicesProofs ---------------------------
(***************************************************************************)
(* What is proved of the services around the jobs.  Each part has its      *)
(* inductive invariant, and says why that is enough.                       *)
(*                                                                         *)
(* The import of vehicles: what a transaction is about to commit has, of   *)
(* the vehicles it holds, only values of its own, because it deletes all   *)
(* of theirs and not those of its fields.                                  *)
(*                                                                         *)
(* The two stores of the retrieval: who rebuilds holds the lock, so that   *)
(* how far it has come says what is in the stores.                         *)
(*                                                                         *)
(* The job rows: whoever has passed the unique index in its list of steps  *)
(* has left the index there, and inserts a key it has not found; the       *)
(* tables of an outcome are written by the transaction that writes the row *)
(* of its job.                                                             *)
(*                                                                         *)
(* The catalog and the dataset: rows are added and never taken away; who   *)
(* has counted the annotations of an image has the image alone; a type in  *)
(* a later archive and not in an earlier one is above all the earlier had, *)
(* or could still come up when the earlier one read the types.             *)
(*                                                                         *)
(* The events of a job: what a stream still has to send is in the list, at *)
(* its number, and what it has sent of a job that has ended is not the end.*)
(*                                                                         *)
(* The round robin: whose turn is not yet come is near it, by the visits   *)
(* to its credit and the entries ahead of it.                              *)
(*                                                                         *)
(* The window of the model: a unit is one message that is no result with   *)
(* the results that follow it, so that what is joined of units, whichever  *)
(* are kept, has no orphan and every answer; a summary is asked of all     *)
(* messages but the boundaries, which are about nothing.                   *)
(*                                                                         *)
(* The route of a prompt: the scores of its words add up, so that one word *)
(* that owes a file is enough for the card of the artifacts.               *)
(*                                                                         *)
(* The names of fields: what a field has for the very name, its letters    *)
(* and its pairs is more than any other can have, with its values.         *)
(*                                                                         *)
(* The chunks of a document: what is split and packed is folded from the   *)
(* left, and each part that is packed stands after all of the text there   *)
(* is; flushes move no part, and what is dropped is only overlap.          *)
(***************************************************************************)
EXTENDS RoundRobin, Imports, Retrieval, JobRecords, Datasets, EventStream, ContextWindow,
        Routing, SubjectsSql, Chunking, FiniteSetTheorems, SequenceTheorems, TLAPS

-----------------------------------------------------------------------------
(* The import of vehicles *)

\* A request is a record with these fields.
IsImport(i) == DOMAIN i = {"at", "id", "rows", "seen", "attributes", "held", "values"}

ImportShapes ==
    /\ DOMAIN importing = Importers /\ importing = [p \in Importers |-> importing[p]]
    /\ \A p \in Importers : IsImport(importing[p])
    /\ imported = [count |-> imported.count, last |-> imported.last]

\* Of the vehicles it holds, a transaction that has replaced the values has its own.
OwnValues(i) == i.at = "values" => \A v \in i.values : v.spec \in i.held => v.of = i.id

\* What is committed of a vehicle is of its last import.
LastValues == \A v \in committed.values : v.spec \in DOMAIN imported.last /\ v.of = imported.last[v.spec]

ReplaceInv ==
    /\ ImportShapes
    /\ \A p \in Importers : OwnValues(importing[p])
    /\ LastValues

-----------------------------------------------------------------------------
\* No vehicle has been imported at first.
LEMMA ReplaceInit == ImportsInit => ReplaceInv
BY DEF ImportsInit, ReplaceInv, ImportShapes, IsImport, OwnValues, LastValues, NoImport

\* A step of p that keeps what is committed, and gives p a record with values of
\* its own, keeps the invariant.
LEMMA OwnStep ==
  ASSUME ReplaceInv, NEW p \in Importers, NEW i,
         IsImport(i), OwnValues(i),
         importing' = [importing EXCEPT ![p] = i],
         LastValues', imported' = [count |-> imported'.count, last |-> imported'.last]
  PROVE  ReplaceInv'
<1>1. \A q \in Importers : importing'[q] = IF q = p THEN i ELSE importing[q]
  BY DEF ReplaceInv, ImportShapes
<1>2. ImportShapes'  BY <1>1 DEF ReplaceInv, ImportShapes, IsImport
<1>3. \A q \in Importers : OwnValues(importing[q])'  BY <1>1 DEF ReplaceInv, OwnValues
<1> QED BY <1>2, <1>3 DEF ReplaceInv

\* Each step of an import keeps the invariant.
LEMMA ReplaceStep ==
  ASSUME ReplaceInv, [ImportsNext]_importvars
  PROVE  ReplaceInv'
<1>1. CASE UNCHANGED importvars
  BY <1>1 DEF importvars, ReplaceInv, ImportShapes, IsImport, OwnValues, LastValues
<1>0. IsImport(NoImport) /\ OwnValues(NoImport)  BY DEF NoImport, IsImport, OwnValues
\* Only a commit changes what is committed; the count of the imports is free.
<1>2. ASSUME NEW p \in Importers, NEW file \in Files, NEW max \in SpecLimits, StartImport(p, file, max)
      PROVE  ReplaceInv'
  <2> DEFINE i == [NoImport EXCEPT
            !.at = "attributes", !.id = imported.count + 1, !.rows = LimitSpecs(file, max),
            !.seen = [attributes |-> committed.attributes, vehicles |-> committed.vehicles]]
  <2>1. IsImport(i) /\ OwnValues(i)  BY DEF NoImport, IsImport, OwnValues
  <2>2. importing' = [importing EXCEPT ![p] = i]  BY <1>2 DEF StartImport
  <2>3. imported' = [count |-> imported'.count, last |-> imported.last]
    BY <1>2 DEF StartImport, ReplaceInv, ImportShapes
  <2>4. LastValues'  BY <1>2, <2>3 DEF StartImport, ReplaceInv, LastValues
  <2> QED BY <2>1, <2>2, <2>3, <2>4, OwnStep
<1>3. ASSUME NEW p \in Importers, RollBack(p) PROVE ReplaceInv'
  <2>1. LastValues' /\ imported' = imported  BY <1>3 DEF RollBack, ReplaceInv, LastValues
  <2> QED BY <1>0, <1>3, <2>1, OwnStep DEF RollBack, ReplaceInv, ImportShapes
<1>4. ASSUME NEW p \in Importers, EnsureAttributes(p) PROVE ReplaceInv'
  <2>1. LastValues' /\ imported' = imported  BY <1>4 DEF EnsureAttributes, ReplaceInv, LastValues
  <2>2. PICK missing : LET i == [importing[p] EXCEPT !.at = "vehicles", !.attributes = missing]
                       IN importing' = [importing EXCEPT ![p] = NoImport] \/ importing' = [importing EXCEPT ![p] = i]
    BY <1>4 DEF EnsureAttributes, ReplaceInv, ImportShapes
  <2>3. LET i == [importing[p] EXCEPT !.at = "vehicles", !.attributes = missing]
        IN IsImport(i) /\ OwnValues(i)
    BY DEF ReplaceInv, ImportShapes, IsImport, OwnValues
  <2> QED BY <1>0, <2>1, <2>2, <2>3, OwnStep DEF ReplaceInv, ImportShapes
<1>5. ASSUME NEW p \in Importers, NEW s, UpsertVehicle(p, s) PROVE ReplaceInv'
  <2> DEFINE i == [importing[p] EXCEPT !.held = @ \cup {s}]
  <2>1. LastValues' /\ imported' = imported  BY <1>5 DEF UpsertVehicle, ReplaceInv, LastValues
  <2>2. importing' = [importing EXCEPT ![p] = NoImport] \/ importing' = [importing EXCEPT ![p] = i]
    BY <1>5 DEF UpsertVehicle, ReplaceInv, ImportShapes
  <2>3. IsImport(i) /\ OwnValues(i)
    BY <1>5 DEF UpsertVehicle, ReplaceInv, ImportShapes, IsImport, OwnValues
  <2> QED BY <1>0, <2>1, <2>2, <2>3, OwnStep DEF ReplaceInv, ImportShapes
\* Every value of a held vehicle is deleted; what is new is of this import.
<1>6. ASSUME NEW p \in Importers, ReplaceValues(p) PROVE ReplaceInv'
  <2> DEFINE now == importing[p]
             i == [now EXCEPT !.at = "values",
                              !.values = (committed.values \ DeletedValues(now)) \cup NewValues(now)]
  <2>1. LastValues' /\ imported' = imported  BY <1>6 DEF ReplaceValues, ReplaceInv, LastValues
  <2>2. importing' = [importing EXCEPT ![p] = i]
    BY <1>6 DEF ReplaceValues, ReplaceInv, ImportShapes
  <2>3. IsImport(now) BY DEF ReplaceInv, ImportShapes
  <2>4. /\ IsImport(i) /\ i.held = now.held /\ i.id = now.id
        /\ i.values = (committed.values \ DeletedValues(now)) \cup NewValues(now)
    <3> HIDE DEF now
    <3> QED BY <2>3 DEF IsImport
  <2>5. \A v \in NewValues(now) : v.of = now.id
    <3> HIDE DEF now
    <3> QED BY DEF NewValues
  <2>6. \A v \in committed.values \ DeletedValues(now) : v.spec \notin now.held
    BY DEF DeletedValues
  <2>7. OwnValues(i)
    <3> HIDE DEF now, i
    <3> QED BY <2>4, <2>5, <2>6 DEF OwnValues
  <2>8. imported' = [count |-> imported'.count, last |-> imported'.last]
    BY <2>1 DEF ReplaceInv, ImportShapes
  <2> HIDE DEF now, i
  <2> QED BY <2>1, <2>2, <2>4, <2>7, <2>8, OwnStep
<1>7. ASSUME NEW p \in Importers, CommitImport(p) PROVE ReplaceInv'
  <2>1. OwnValues(importing[p])  BY DEF ReplaceInv
  <2>2. \A v \in committed'.values :
          \/ v \in committed.values /\ v.spec \notin importing[p].held
          \/ v.spec \in importing[p].held /\ v.of = importing[p].id
    BY <1>7, <2>1 DEF CommitImport, OwnValues
  <2>3. imported' = [count |-> imported.count,
                     last |-> [s \in importing[p].held \cup DOMAIN imported.last |->
                                 IF s \in importing[p].held THEN importing[p].id ELSE imported.last[s]]]
    BY <1>7 DEF CommitImport, ReplaceInv, ImportShapes
  <2>4. LastValues'  BY <2>2, <2>3 DEF ReplaceInv, LastValues
  <2>5. importing' = [importing EXCEPT ![p] = NoImport]  BY <1>7 DEF CommitImport
  <2>6. imported' = [count |-> imported'.count, last |-> imported'.last]  BY <2>3
  <2> QED BY <1>0, <2>4, <2>5, <2>6, OwnStep
<1> QED BY <1>1, <1>2, <1>3, <1>4, <1>5, <1>6, <1>7 DEF ImportsNext

-----------------------------------------------------------------------------
\* Whatever imports overlap, fail or are limited to some vehicles, a vehicle
\* has values of its last import only.
THEOREM ImportsReplace == ImportsSpec => []ReimportReplaces
<1>1. ReplaceInv /\ [ImportsNext]_importvars => ReplaceInv'  BY ReplaceStep
<1>2. ReplaceInv => ReimportReplaces  BY DEF ReplaceInv, LastValues, ReimportReplaces
<1> QED BY ReplaceInit, <1>1, <1>2, PTL DEF ImportsSpec

-----------------------------------------------------------------------------
(* The two stores of the retrieval *)

\* Who rebuilds holds the service's lock alone.
LockHeld == \A r \in Rebuilders : rebuilds[r].at # "idle" => ragLock = {r}

\* How far a rebuild has come with the stores.
StoresOf(r) ==
    LET step == rebuilds[r].at
        own == NodesOf(rebuilds[r].from)
    IN /\ step \in {"creating", "filling"} => keywords = {}
       /\ step \in {"overwriting", "embedding", "signing"} => keywords = own
       /\ step = "embedding" => vectors = {}
       /\ step = "signing" => vectors = own

RebuildShapes ==
    /\ DOMAIN rebuilds = Rebuilders /\ rebuilds = [r \in Rebuilders |-> rebuilds[r]]
    /\ \A r \in Rebuilders : rebuilds[r].at \in RebuildSteps

RetrievalInv ==
    /\ RebuildShapes /\ LockHeld
    /\ \A r \in Rebuilders : StoresOf(r)
    /\ StoresAgree

\* Nothing is rebuilt at first, and nothing has been.
LEMMA RetrievalStart == RetrievalInit => RetrievalInv
BY DEF RetrievalInit, RetrievalInv, RebuildShapes, LockHeld, StoresOf, StoresAgree, IdleRebuild, RebuildSteps

\* Every step keeps it; what a rebuild does to the stores only matters to
\* itself, because nobody else is in one.
LEMMA RetrievalStep ==
  ASSUME RetrievalInv, [RetrievalNext]_retrievalvars
  PROVE  RetrievalInv'
<1>0. RebuildShapes /\ LockHeld /\ StoresAgree /\ \A r \in Rebuilders : StoresOf(r)  BY DEF RetrievalInv
<1> USE DEF RebuildShapes, LockHeld, StoresOf, StoresAgree, RebuildSteps, IdleRebuild, MoveRebuild
<1>1. ASSUME NEW r \in Rebuilders, StartRebuild(r)  PROVE RetrievalInv'
  <2>1. \A q \in Rebuilders : rebuilds[q].at = "idle"  BY <1>0, <1>1 DEF StartRebuild
  <2> QED BY <1>0, <1>1, <2>1 DEF StartRebuild, RetrievalInv
<1>2. ASSUME NEW r \in Rebuilders, rebuilds[r].at # "idle"
      PROVE  \A q \in Rebuilders \ {r} : rebuilds[q].at = "idle"
  BY <1>0, <1>2
<1>3. ASSUME NEW r \in Rebuilders, DropKeywords(r)  PROVE RetrievalInv'
  BY <1>0, <1>2, <1>3 DEF DropKeywords, RetrievalInv
<1>4. ASSUME NEW r \in Rebuilders, CreateKeywords(r)  PROVE RetrievalInv'
  BY <1>0, <1>2, <1>4 DEF CreateKeywords, RetrievalInv
<1>5. ASSUME NEW r \in Rebuilders, FillKeywords(r)  PROVE RetrievalInv'
  BY <1>0, <1>2, <1>5 DEF FillKeywords, RetrievalInv
<1>6. ASSUME NEW r \in Rebuilders, OverwriteVectors(r)  PROVE RetrievalInv'
  BY <1>0, <1>2, <1>6 DEF OverwriteVectors, RetrievalInv
<1>7. ASSUME NEW r \in Rebuilders, EmbedVectors(r)  PROVE RetrievalInv'
  BY <1>0, <1>2, <1>7 DEF EmbedVectors, RetrievalInv
<1>8. ASSUME NEW r \in Rebuilders, SignIndex(r)  PROVE RetrievalInv'
  BY <1>0, <1>2, <1>8 DEF SignIndex, RetrievalInv
<1>9. ASSUME NEW r \in Rebuilders, FailRebuild(r)  PROVE RetrievalInv'
  BY <1>0, <1>2, <1>9 DEF FailRebuild, RetrievalInv
<1>10. CASE RestartRag  BY <1>0, <1>10 DEF RestartRag, RetrievalInv
<1>11. ASSUME UNCHANGED <<rebuilds, ragLock, keywords, vectors, lastRebuild>>  PROVE RetrievalInv'
  BY <1>0, <1>11 DEF RetrievalInv
<1>12. CASE \E d \in RagDocs : PublishText(d)  BY <1>12, <1>11 DEF PublishText
<1>13. CASE \E doc \in {{}} \cup {{d} : d \in RagDocs} : DenseSearch(doc)
  BY <1>13, <1>11 DEF DenseSearch, ragstores
<1>14. CASE \E topK \in SearchTopK : SparseSearch(topK)  BY <1>14, <1>11 DEF SparseSearch, ragstores
<1>15. CASE SearchFails \/ TakeAnswer \/ FetchChunk
  BY <1>15, <1>11 DEF SearchFails, TakeAnswer, FetchChunk, ragstores
<1>16. CASE UNCHANGED retrievalvars  BY <1>16, <1>11 DEF retrievalvars
<1> QED BY <1>1, <1>3, <1>4, <1>5, <1>6, <1>7, <1>8, <1>9, <1>10, <1>12, <1>13, <1>14, <1>15, <1>16
        DEF RetrievalNext

\* For any documents, chunks and rebuilds, with failures at any step, searches,
\* publications and restarts: while no rebuild has begun to change a store and
\* the last one that did was signed, both stores hold exactly the chunks of the
\* documents it read (RagService.rebuild, rag.py).
THEOREM StoresStayTogether == RetrievalSpec => []StoresAgree
<1>1. RetrievalInit => RetrievalInv  BY RetrievalStart
<1>2. RetrievalInv /\ [RetrievalNext]_retrievalvars => RetrievalInv'  BY RetrievalStep
<1>3. RetrievalInv => StoresAgree  BY DEF RetrievalInv
<1> QED BY <1>1, <1>2, <1>3, PTL DEF RetrievalSpec

-----------------------------------------------------------------------------
(* The job rows of several processes *)

StoreRec == [at : {"idle", "existing", "reread", "answered"}, key : JobKeys \cup {NoJobKey},
             given : Records \cup {"none"}, tokens : [Staged -> Nat],
             snapshot : {NoSnapshot} \cup [id : Staged, fence : Nat, outcome : Metadata]]
Row == [key : JobKeys \cup {NoJobKey}, fence : Nat, of : Nat, outcome : Metadata \cup {NoOutcome}]

SchemaShape ==
    /\ schema = [present |-> schema.present, at |-> schema.at, missing |-> schema.missing, opens |-> schema.opens]
    /\ schema.at \in [Stores -> 0 .. 8] /\ schema.missing \in [Stores -> BOOLEAN]
RecordShapes ==
    /\ SchemaShape /\ stores \in [Stores -> StoreRec]
    /\ DOMAIN records \subseteq Records /\ \A j \in DOMAIN records : records[j] \in Row

\* A process that has passed the index in its list of steps has left it there.
IndexMade == \A p \in Stores : schema.at[p] > 4 => UniqueKey \in schema.present

\* No two rows have one key.
KeyOnce == \A j, k \in DOMAIN records : records[j].key = records[k].key /\ records[j].key # NoJobKey => j = k

\* What a process answers has its row; so has what it works on.
AnswersOwn(p) ==
    stores[p].at = "answered" =>
        stores[p].given \in DOMAIN records /\ records[stores[p].given].key = stores[p].key
Worked(p) ==
    /\ \A j \in Staged : stores[p].tokens[j] > 0 => j \in DOMAIN records
    /\ stores[p].snapshot # NoSnapshot => stores[p].snapshot.id \in DOMAIN records

RecordsInv ==
    /\ RecordShapes /\ IndexMade /\ KeyOnce
    /\ \A p \in Stores : AnswersOwn(p) /\ Worked(p)

\* Rows are not deleted and keep their keys.
RowsStay == DOMAIN records \subseteq DOMAIN records' /\ \A j \in DOMAIN records : records'[j].key = records[j].key

\* The index is the fourth step, and no table.
LEMMA IndexIsFourth ==
  Len(SchemaSteps) = 7 /\ DOMAIN SchemaSteps = 1 .. 7 /\ SchemaSteps[4] = UniqueKey /\ UniqueKey \notin Tables
<1>1. Len(SchemaSteps) = 7  BY DEF SchemaSteps
<1>2. DOMAIN SchemaSteps = 1 .. 7  BY DEF SchemaSteps
<1>3. SchemaSteps[4] = UniqueKey  BY DEF SchemaSteps
<1>4. UniqueKey \notin Tables  BY DEF Tables
<1> QED BY <1>1, <1>2, <1>3, <1>4

\* There are no tables and no rows at first.
LEMMA RecordsStart == RecordsInit => RecordsInv
<1> SUFFICES ASSUME RecordsInit PROVE RecordsInv  OBVIOUS
<1>1. NewStore \in StoreRec  BY DEF NewStore, StoreRec, NoJobKey
<1>2. RecordShapes  BY <1>1 DEF RecordsInit, RecordShapes, SchemaShape
<1> QED BY <1>2 DEF RecordsInit, RecordsInv, IndexMade, KeyOnce, AnswersOwn, Worked, NewStore

\* One process moves in its list of steps, and nothing is taken away.
LEMMA OneStart ==
  ASSUME SchemaShape, IndexMade, NEW p \in Stores, NEW step \in 0 .. 8, NEW there, NEW asked, NEW opens,
         asked \in [Stores -> BOOLEAN], schema.present \subseteq there, step > 4 => UniqueKey \in there,
         schema' = [present |-> there, at |-> [schema.at EXCEPT ![p] = step], missing |-> asked, opens |-> opens]
  PROVE  SchemaShape' /\ IndexMade'
<1> DEFINE at == [schema.at EXCEPT ![p] = step]
<1>1. at \in [Stores -> 0 .. 8] /\ at[p] = step /\ \A q \in Stores \ {p} : at[q] = schema.at[q]
  BY DEF SchemaShape
<1>2. schema' = [present |-> there, at |-> at, missing |-> asked, opens |-> opens]  OBVIOUS
<1> HIDE DEF at
<1>3. /\ schema'.present = there /\ schema'.at = at /\ schema'.missing = asked
      /\ schema' = [present |-> schema'.present, at |-> schema'.at, missing |-> schema'.missing, opens |-> schema'.opens]
  BY <1>2
<1> QED BY <1>1, <1>3 DEF SchemaShape, IndexMade

\* A step of the schema leaves the index to whoever has passed it.
LEMMA SchemaInv ==
  ASSUME SchemaShape, IndexMade, NEW p \in Stores,
         FindOldTable \/ OpenStore(p) \/ CreateTable(p) \/ EnsureColumn(p) \/ AlterTable(p) \/ Fails(p)
  PROVE  SchemaShape' /\ IndexMade'
<1> DEFINE step == schema.at[p]
           Moved(there, to, asked, opens) ==
             schema' = [present |-> there, at |-> [schema.at EXCEPT ![p] = to],
                        missing |-> [schema.missing EXCEPT ![p] = asked], opens |-> opens]
<1>1. step \in 0 .. 8 /\ schema.missing[p] \in BOOLEAN  BY DEF SchemaShape
<1>2. ASSUME NEW there, NEW to \in 0 .. 8, NEW asked \in BOOLEAN, NEW opens, Moved(there, to, asked, opens),
             schema.present \subseteq there, to > 4 => UniqueKey \in there
      PROVE  SchemaShape' /\ IndexMade'
  <2>1. [schema.missing EXCEPT ![p] = asked] \in [Stores -> BOOLEAN]  BY DEF SchemaShape
  <2> QED BY <1>2, <2>1, OneStart
<1>3. CASE FindOldTable
  <2>1. Moved({"agent_chat_jobs"}, step, schema.missing[p], schema.opens)  BY <1>3 DEF FindOldTable, SchemaShape
  <2>2. schema.present = {} /\ ~ step > 4  BY <1>1, <1>3 DEF FindOldTable, IndexMade
  <2> HIDE DEF Moved, step
  <2> QED BY <1>1, <1>2, <2>1, <2>2
<1>4. CASE OpenStore(p)
  <2>1. Moved(schema.present, 1, schema.missing[p], schema.opens + 1)  BY <1>4 DEF OpenStore, SchemaShape
  <2> HIDE DEF Moved, step
  <2> QED BY <1>1, <1>2, <2>1
<1>5. CASE Fails(p)
  <2>1. Moved(schema.present, 0, FALSE, schema.opens)  BY <1>5 DEF Fails, SchemaShape
  <2>2. 0 \in 0 .. 8 /\ ~ 0 > 4  OBVIOUS
  <2> HIDE DEF Moved, step
  <2> QED BY <1>1, <1>2, <2>1, <2>2
<1>6. CASE CreateTable(p) /\ ~ Fails(p)
  <2>1. step \in 1 .. 7 /\ step # 4  BY <1>1, <1>6, IndexIsFourth DEF CreateTable, Starting, SchemaStep
  <2> DEFINE there == IF SchemaStep(p) \in schema.present THEN schema.present
                      ELSE schema.present \cup Created(SchemaStep(p))
  <2>2. Moved(there, step + 1, schema.missing[p], schema.opens)  BY <1>6 DEF CreateTable, SchemaShape
  <2>3. schema.present \subseteq there  OBVIOUS
  <2>4. step + 1 > 4 => UniqueKey \in there  BY <2>1, <2>3 DEF IndexMade
  <2>5. step + 1 \in 0 .. 8  BY <2>1
  <2> HIDE DEF Moved, step, there
  <2> QED BY <1>1, <1>2, <2>2, <2>3, <2>4, <2>5
<1>7. CASE EnsureColumn(p) /\ ~ Fails(p)
  <2>1. step \in 1 .. 7 /\ SchemaStep(p) = SchemaSteps[step]
    BY <1>1, <1>7, IndexIsFourth DEF EnsureColumn, Starting, SchemaStep
  <2>2. CASE SchemaStep(p) \in schema.present
    <3>1. Moved(schema.present, step + 1, schema.missing[p], schema.opens)  BY <1>7, <2>2 DEF EnsureColumn, SchemaShape
    <3>2. step + 1 > 4 => UniqueKey \in schema.present  BY <2>1, <2>2, IndexIsFourth DEF IndexMade
    <3>3. step + 1 \in 0 .. 8  BY <2>1
    <3> HIDE DEF Moved, step
    <3> QED BY <1>1, <1>2, <3>1, <3>2, <3>3
  <2>3. CASE SchemaStep(p) \notin schema.present
    <3>1. Moved(schema.present, step, TRUE, schema.opens)  BY <1>7, <2>3 DEF EnsureColumn, SchemaShape
    <3>2. step > 4 => UniqueKey \in schema.present  BY DEF IndexMade
    <3> HIDE DEF Moved, step
    <3> QED BY <1>1, <1>2, <3>1, <3>2
  <2> QED BY <2>2, <2>3
<1>8. CASE AlterTable(p) /\ ~ Fails(p)
  <2>1. step \in 1 .. 7 /\ SchemaStep(p) = SchemaSteps[step]
    BY <1>1, <1>8, IndexIsFourth DEF AlterTable, Starting, SchemaStep
  <2> DEFINE there == schema.present \cup {SchemaStep(p)}
  <2>2. Moved(there, step + 1, FALSE, schema.opens)  BY <1>8 DEF AlterTable, SchemaShape
  <2>3. step + 1 > 4 => UniqueKey \in there  BY <2>1, IndexIsFourth DEF IndexMade
  <2>4. schema.present \subseteq there /\ step + 1 \in 0 .. 8  BY <2>1
  <2> HIDE DEF Moved, step, there
  <2> QED BY <1>1, <1>2, <2>2, <2>3, <2>4
<1> QED BY <1>3, <1>4, <1>5, <1>6, <1>7, <1>8

\* What a process answers and works on keeps its row, if the process does nothing.
LEMMA StaysAnswered ==
  ASSUME RecordsInv, RowsStay, NEW p \in Stores, stores'[p] = stores[p]
  PROVE  AnswersOwn(p)' /\ Worked(p)'
BY DEF RecordsInv, RecordShapes, AnswersOwn, Worked, RowsStay, StoreRec

\* It is enough to look at the rows, their keys and the one process that does something.
LEMMA OneStore ==
  ASSUME RecordsInv, NEW p \in Stores, NEW s \in StoreRec, stores' = [stores EXCEPT ![p] = s],
         UNCHANGED schema, RowsStay, KeyOnce',
         DOMAIN records' \subseteq Records, \A j \in DOMAIN records' : records'[j] \in Row,
         s.at = "answered" => s.given \in DOMAIN records' /\ records'[s.given].key = s.key,
         \A j \in Staged : s.tokens[j] > 0 => j \in DOMAIN records',
         s.snapshot # NoSnapshot => s.snapshot.id \in DOMAIN records'
  PROVE  RecordsInv'
<1>1. \A q \in Stores \ {p} : AnswersOwn(q)' /\ Worked(q)'
  BY StaysAnswered DEF RecordsInv, RecordShapes
<1>2. AnswersOwn(p)' /\ Worked(p)'  BY DEF RecordsInv, RecordShapes, AnswersOwn, Worked
<1>3. SchemaShape' /\ IndexMade'  BY DEF RecordsInv, RecordShapes, SchemaShape, IndexMade
<1>4. RecordShapes'  BY <1>3 DEF RecordsInv, RecordShapes
<1> QED BY <1>1, <1>2, <1>3, <1>4 DEF RecordsInv

\* The rows stay as they are.
LEMMA SameRows ==
  ASSUME RecordsInv, NEW p \in Stores, NEW s \in StoreRec, stores' = [stores EXCEPT ![p] = s],
         UNCHANGED <<schema, records>>,
         s.at = "answered" => s.given \in DOMAIN records /\ records[s.given].key = s.key,
         \A j \in Staged : s.tokens[j] > 0 => j \in DOMAIN records,
         s.snapshot # NoSnapshot => s.snapshot.id \in DOMAIN records
  PROVE  RecordsInv'
BY OneStore DEF RowsStay, RecordsInv, RecordShapes, KeyOnce

\* A row is inserted under a key that no row has.
LEMMA CreateJobInv ==
  ASSUME RecordsInv, NEW p \in Stores, NEW j \in Records, NEW key \in JobKeys \cup {NoJobKey}, CreateJob(p, j, key)
  PROVE  RecordsInv'
<1> DEFINE asked == [stores[p] EXCEPT !.key = key]
           failed == IF key = NoJobKey THEN Settled(asked) ELSE [asked EXCEPT !.at = "existing"]
           kept == [asked EXCEPT !.given = j, !.at = IF key = NoJobKey THEN "answered" ELSE "reread"]
<1>1. stores[p] \in StoreRec /\ Worked(p)  BY DEF RecordsInv, RecordShapes
<1>2. failed \in StoreRec /\ failed.at # "answered" /\ failed.tokens = stores[p].tokens /\ failed.snapshot = stores[p].snapshot
  BY <1>1 DEF StoreRec, Settled, NoJobKey
<1>3. /\ kept \in StoreRec /\ kept.given = j /\ kept.key = key
      /\ kept.tokens = stores[p].tokens /\ kept.snapshot = stores[p].snapshot
  BY <1>1 DEF StoreRec
<1>4. CASE UNCHANGED records /\ stores' = [stores EXCEPT ![p] = failed]
  BY <1>1, <1>2, <1>4, SameRows DEF CreateJob, Worked
<1>5. ASSUME ~ Refused(key), Put(j, [key |-> key, fence |-> 0, of |-> 0, outcome |-> NoOutcome]),
             NEW s \in {kept, failed}, stores' = [stores EXCEPT ![p] = s]
      PROVE  RecordsInv'
  <2>1. j \notin DOMAIN records /\ UNCHANGED schema /\ schema.at[p] > 7
    BY IndexIsFourth DEF CreateJob, Serving
  <2>2. UniqueKey \in schema.present
    BY <2>1 DEF RecordsInv, IndexMade, RecordShapes, SchemaShape
  <2>3. /\ DOMAIN records' = DOMAIN records \cup {j}
        /\ records'[j] = [key |-> key, fence |-> 0, of |-> 0, outcome |-> NoOutcome]
        /\ \A k \in DOMAIN records : records'[k] = records[k]
    BY <1>5, <2>1 DEF Put
  <2>4. RowsStay  BY <2>3 DEF RowsStay
  <2>5. KeyOnce'  BY <1>5, <2>2, <2>3 DEF KeyOnce, RecordsInv, Refused, RowsWith
  <2>6. DOMAIN records' \subseteq Records /\ \A k \in DOMAIN records' : records'[k] \in Row
    BY <2>3 DEF RecordsInv, RecordShapes, Row
  <2>7. s \in StoreRec /\ (s.at = "answered" => s.given = j /\ s.key = key)
        /\ s.tokens = stores[p].tokens /\ s.snapshot = stores[p].snapshot
    BY <1>2, <1>3, <1>5
  <2> HIDE DEF asked, failed, kept
  <2>8. /\ \A i \in Staged : s.tokens[i] > 0 => i \in DOMAIN records'
        /\ s.snapshot # NoSnapshot => s.snapshot.id \in DOMAIN records'
    BY <1>1, <2>3, <2>7 DEF Worked
  <2>9. s.at = "answered" => s.given \in DOMAIN records' /\ records'[s.given].key = s.key  BY <2>3, <2>7
  <2> QED BY <1>5, <2>1, <2>4, <2>5, <2>6, <2>7, <2>8, <2>9, OneStore
<1> QED BY <1>4, <1>5 DEF CreateJob

\* A row is given another token, or another outcome, and keeps its key.
LEMMA PutInv ==
  ASSUME RecordsInv, NEW p \in Stores, NEW s \in StoreRec, stores' = [stores EXCEPT ![p] = s], UNCHANGED schema,
         NEW j \in DOMAIN records, NEW row \in Row, row.key = records[j].key, Put(j, row),
         s.at = stores[p].at, s.given = stores[p].given, s.key = stores[p].key,
         \A i \in Staged : s.tokens[i] > 0 => i \in DOMAIN records,
         s.snapshot # NoSnapshot => s.snapshot.id \in DOMAIN records
  PROVE  RecordsInv'
<1>1. /\ DOMAIN records' = DOMAIN records /\ records'[j] = row
      /\ \A k \in DOMAIN records \ {j} : records'[k] = records[k]
  BY DEF Put
<1>2. \A k \in DOMAIN records : records'[k].key = records[k].key  BY <1>1
<1>3. RowsStay /\ KeyOnce'  BY <1>1, <1>2 DEF RowsStay, KeyOnce, RecordsInv
<1>4. DOMAIN records' \subseteq Records /\ \A k \in DOMAIN records' : records'[k] \in Row
  BY <1>1 DEF RecordsInv, RecordShapes
<1>5. s.at = "answered" => s.given \in DOMAIN records' /\ records'[s.given].key = s.key
  BY <1>1, <1>2 DEF RecordsInv, AnswersOwn
<1> QED BY <1>1, <1>3, <1>4, <1>5, OneStore

\* A process answers a request with the row that has the key, or gives up.
LEMMA AnswerInv ==
  ASSUME RecordsInv, NEW p \in Stores, LoadByIdempotency(p) \/ HandOut(p)
  PROVE  RecordsInv'
<1>1. stores[p] \in StoreRec /\ Worked(p)  BY DEF RecordsInv, RecordShapes
<1>2. /\ Settled(stores[p]) \in StoreRec /\ Settled(stores[p]).at = "idle"
      /\ Settled(stores[p]).tokens = stores[p].tokens /\ Settled(stores[p]).snapshot = stores[p].snapshot
  BY <1>1 DEF StoreRec, Settled, NoJobKey
<1>3. UNCHANGED <<schema, records>>  BY DEF LoadByIdempotency, HandOut
<1>4. CASE stores' = [stores EXCEPT ![p] = Settled(stores[p])]
  <2> HIDE DEF Settled
  <2> QED BY <1>1, <1>2, <1>3, <1>4, SameRows DEF Worked
<1>5. ASSUME NEW j \in RowsWith(stores[p].key), stores' = [stores EXCEPT ![p].at = "answered", ![p].given = j]
      PROVE  RecordsInv'
  <2> DEFINE s == [stores[p] EXCEPT !.at = "answered", !.given = j]
  <2>1. j \in DOMAIN records /\ j \in Records /\ records[j].key = stores[p].key
    BY <1>5 DEF RowsWith, RecordsInv, RecordShapes
  <2>2. s \in StoreRec /\ s.given = j /\ s.key = stores[p].key /\ s.tokens = stores[p].tokens
        /\ s.snapshot = stores[p].snapshot
    BY <1>1, <2>1 DEF StoreRec
  <2>3. stores' = [stores EXCEPT ![p] = s]  BY <1>5 DEF RecordsInv, RecordShapes
  <2> HIDE DEF s
  <2> QED BY <1>1, <1>3, <2>1, <2>2, <2>3, SameRows DEF Worked
<1>6. CASE HandOut(p)  BY <1>4, <1>6 DEF HandOut
<1>7. CASE LoadByIdempotency(p)
  <2>1. ASSUME stores' = [stores EXCEPT ![p] = Settled(stores[p])] PROVE RecordsInv'  BY <2>1, <1>4
  <2> QED BY <1>5, <2>1, <1>7 DEF LoadByIdempotency
<1> QED BY <1>6, <1>7

\* A process that works on a job has seen its row.
LEMMA WorkInv ==
  ASSUME RecordsInv, NEW p \in Stores, NEW j \in Staged,
         LoadJob(p, j) \/ StageDispatch(p, j) \/ \E outcome \in Metadata : TakeSnapshot(p, j, outcome)
  PROVE  RecordsInv'
<1>1. stores \in [Stores -> StoreRec] /\ stores[p] \in StoreRec /\ Worked(p) /\ AnswersOwn(p)
  BY DEF RecordsInv, RecordShapes
<1>2. CASE LoadJob(p, j)
  <2> DEFINE s == [stores[p] EXCEPT !.tokens[j] = records[j].fence]
  <2>1. j \in DOMAIN records /\ records[j].fence \in Nat  BY <1>2 DEF LoadJob, RecordsInv, RecordShapes, Row
  <2>2. /\ s \in StoreRec /\ s.at = stores[p].at /\ s.given = stores[p].given /\ s.key = stores[p].key
        /\ s.snapshot = stores[p].snapshot /\ \A i \in Staged \ {j} : s.tokens[i] = stores[p].tokens[i]
    BY <1>1, <2>1 DEF StoreRec
  <2>3. stores' = [stores EXCEPT ![p] = s] /\ UNCHANGED <<schema, records>>  BY <1>1, <1>2 DEF LoadJob
  <2>4. \A i \in Staged : s.tokens[i] > 0 => i \in DOMAIN records  BY <1>1, <2>1, <2>2 DEF Worked
  <2> HIDE DEF s
  <2> QED BY <1>1, <2>2, <2>3, <2>4, SameRows DEF Worked, AnswersOwn
<1>3. CASE StageDispatch(p, j)
  <2> DEFINE fence == stores[p].tokens[j] + 1
             s == [stores[p] EXCEPT !.tokens[j] = fence]
             row == [records[j] EXCEPT !.fence = fence]
  <2>1. j \in DOMAIN records /\ records[j] \in Row /\ fence \in Nat
    BY <1>1, <1>3 DEF StageDispatch, RecordsInv, RecordShapes, StoreRec
  <2>2. stores' = [stores EXCEPT ![p] = s] /\ UNCHANGED schema /\ Put(j, row)  BY <1>1, <1>3 DEF StageDispatch
  <2> HIDE DEF fence
  <2>3. row \in Row /\ row.key = records[j].key  BY <2>1 DEF Row
  <2>4. /\ s \in StoreRec /\ s.at = stores[p].at /\ s.given = stores[p].given /\ s.key = stores[p].key
        /\ s.snapshot = stores[p].snapshot /\ \A i \in Staged \ {j} : s.tokens[i] = stores[p].tokens[i]
    BY <1>1, <2>1 DEF StoreRec
  <2>5. \A i \in Staged : s.tokens[i] > 0 => i \in DOMAIN records  BY <1>1, <2>1, <2>4 DEF Worked
  <2> HIDE DEF s, row
  <2> QED BY <1>1, <2>1, <2>2, <2>3, <2>4, <2>5, PutInv DEF Worked
<1>4. ASSUME NEW outcome \in Metadata, TakeSnapshot(p, j, outcome)  PROVE RecordsInv'
  <2> DEFINE snapshot == [id |-> j, fence |-> stores[p].tokens[j], outcome |-> outcome]
             s == [stores[p] EXCEPT !.snapshot = snapshot]
  <2>1. j \in DOMAIN records  BY <1>1, <1>4 DEF TakeSnapshot, Worked
  <2>2. snapshot \in [id : Staged, fence : Nat, outcome : Metadata] /\ snapshot.id = j
    BY <1>1 DEF StoreRec
  <2>3. stores' = [stores EXCEPT ![p] = s] /\ UNCHANGED <<schema, records>>  BY <1>1, <1>4 DEF TakeSnapshot
  <2> HIDE DEF snapshot
  <2>4. /\ s \in StoreRec /\ s.at = stores[p].at /\ s.given = stores[p].given /\ s.key = stores[p].key
        /\ s.snapshot = snapshot /\ s.tokens = stores[p].tokens
    BY <1>1, <2>2 DEF StoreRec
  <2> HIDE DEF s
  <2> QED BY <1>1, <2>1, <2>2, <2>3, <2>4, SameRows DEF Worked, AnswersOwn
<1> QED BY <1>2, <1>3, <1>4

\* An outcome is saved or lost.
LEMMA SaveInv ==
  ASSUME RecordsInv, NEW p \in Stores, SaveJob(p) \/ LoseSave(p)
  PROVE  RecordsInv'
<1> DEFINE s == [stores[p] EXCEPT !.snapshot = NoSnapshot]
           shot == stores[p].snapshot
<1>1. stores \in [Stores -> StoreRec] /\ stores[p] \in StoreRec /\ Worked(p) /\ AnswersOwn(p)
  BY DEF RecordsInv, RecordShapes
<1>2. /\ s \in StoreRec /\ s.at = stores[p].at /\ s.given = stores[p].given /\ s.key = stores[p].key
      /\ s.snapshot = NoSnapshot /\ s.tokens = stores[p].tokens
  BY <1>1 DEF StoreRec
<1>3. stores' = [stores EXCEPT ![p] = s] /\ UNCHANGED schema  BY <1>1 DEF SaveJob, LoseSave
<1>4. CASE LoseSave(p)
  <2>1. UNCHANGED records  BY <1>4 DEF LoseSave
  <2> HIDE DEF s
  <2> QED BY <1>1, <1>2, <1>3, <2>1, SameRows DEF Worked, AnswersOwn
<1>5. CASE SaveJob(p)
  <2> DEFINE row == IF shot.fence >= records[shot.id].fence
                    THEN [records[shot.id] EXCEPT !.fence = shot.fence, !.of = shot.fence,
                                                  !.outcome = shot.outcome]
                    ELSE records[shot.id]
  <2>1. shot # NoSnapshot /\ Put(shot.id, row)  BY <1>5 DEF SaveJob
  <2>2. shot.fence \in Nat /\ shot.id \in DOMAIN records /\ shot.outcome \in Metadata  BY <1>1, <2>1 DEF Worked, StoreRec
  <2>3. records[shot.id] \in Row  BY <2>2 DEF RecordsInv, RecordShapes
  <2> HIDE DEF shot
  <2>4. row \in Row /\ row.key = records[shot.id].key  BY <2>2, <2>3 DEF Row
  <2> HIDE DEF s, row
  <2> QED BY <1>1, <1>2, <1>3, <2>1, <2>2, <2>4, PutInv DEF Worked
<1> QED BY <1>4, <1>5

\* A process that stops forgets what it was doing.
LEMMA StopInv ==
  ASSUME RecordsInv, NEW p \in Stores, StopStore(p)
  PROVE  RecordsInv'
<1>1. NewStore \in StoreRec  BY DEF NewStore, StoreRec, NoJobKey
<1>2. SchemaShape' /\ IndexMade'  BY SchemaInv DEF StopStore, RecordsInv, RecordShapes
<1>3. stores' = [stores EXCEPT ![p] = NewStore] /\ UNCHANGED records  BY DEF StopStore
<1>4. RecordShapes' /\ KeyOnce'  BY <1>1, <1>2, <1>3 DEF RecordsInv, RecordShapes, KeyOnce
<1>5. \A q \in Stores \ {p} : AnswersOwn(q)' /\ Worked(q)'
  BY <1>3, StaysAnswered DEF RecordsInv, RecordShapes, RowsStay
<1>6. stores'[p] = NewStore  BY <1>3 DEF RecordsInv, RecordShapes
<1>7. AnswersOwn(p)' /\ Worked(p)'  BY <1>6 DEF AnswersOwn, Worked, NewStore
<1> QED BY <1>2, <1>4, <1>5, <1>7 DEF RecordsInv

\* Every step keeps the invariant.
LEMMA RecordsStep == RecordsInv /\ [RecordsNext]_recordvars => RecordsInv'
<1> SUFFICES ASSUME RecordsInv, [RecordsNext]_recordvars PROVE RecordsInv'  OBVIOUS
<1>1. ASSUME UNCHANGED <<records, stores>>, SchemaShape', IndexMade'  PROVE RecordsInv'
  BY <1>1 DEF RecordsInv, RecordShapes, KeyOnce, AnswersOwn, Worked
<1>2. ASSUME NEW p \in Stores, OpenStore(p) \/ CreateTable(p) \/ EnsureColumn(p) \/ AlterTable(p)
      PROVE  RecordsInv'
  <2>1. UNCHANGED <<records, stores>>  BY <1>2 DEF OpenStore, CreateTable, EnsureColumn, AlterTable
  <2> QED BY <1>1, <1>2, <2>1, SchemaInv DEF RecordsInv, RecordShapes
<1>3. CASE FindOldTable
  <2>1. UNCHANGED <<records, stores>>  BY <1>3 DEF FindOldTable
  <2>2. SchemaShape' /\ IndexMade'
    BY <1>3 DEF FindOldTable, RecordsInv, RecordShapes, SchemaShape, IndexMade
  <2> QED BY <1>1, <2>1, <2>2
<1>4. CASE UNCHANGED recordvars
  <2>1. SchemaShape' /\ IndexMade'  BY <1>4 DEF recordvars, RecordsInv, RecordShapes, SchemaShape, IndexMade
  <2> QED BY <1>1, <1>4, <2>1 DEF recordvars
<1>5. ASSUME NEW p \in Stores, NEW j \in Records, NEW key \in JobKeys \cup {NoJobKey}, CreateJob(p, j, key)
      PROVE  RecordsInv'
  BY <1>5, CreateJobInv
<1>6. ASSUME NEW p \in Stores, LoadByIdempotency(p) \/ HandOut(p)  PROVE RecordsInv'
  BY <1>6, AnswerInv
<1>7. ASSUME NEW p \in Stores, NEW j \in Staged,
             LoadJob(p, j) \/ StageDispatch(p, j) \/ \E outcome \in Metadata : TakeSnapshot(p, j, outcome)
      PROVE  RecordsInv'
  BY <1>7, WorkInv
<1>8. ASSUME NEW p \in Stores, SaveJob(p) \/ LoseSave(p)  PROVE RecordsInv'  BY <1>8, SaveInv
<1>9. ASSUME NEW p \in Stores, StopStore(p)  PROVE RecordsInv'  BY <1>9, StopInv
<1> QED BY <1>2, <1>3, <1>4, <1>5, <1>6, <1>7, <1>8, <1>9 DEF RecordsNext

\* For any processes, jobs, keys and starts, with failures at every request: a
\* key has one row, and whoever repeats a request is given the id of that row
\* (create_job, load_by_idempotency, agent_job_persistence.py).
THEOREM KeysAreUnique == RecordsSpec => []OneJobPerKey
<1>1. RecordsInit => RecordsInv  BY RecordsStart
<1>2. RecordsInv => OneJobPerKey  BY DEF RecordsInv, KeyOnce, AnswersOwn, OneJobPerKey
<1> QED BY <1>1, <1>2, RecordsStep, PTL DEF RecordsSpec

-----------------------------------------------------------------------------
(* What the tables say of an outcome *)

ClaimsInv ==
    /\ RecordsInv /\ DOMAIN metadata = Staged /\ ClaimsHaveEvidence
    /\ \A j \in Staged : metadata[j].taken => j \in DOMAIN records

\* Under the numbers that are written there is what is written.
LEMMA WrittenRows ==
  ASSUME NEW old, NEW new
  PROVE  /\ \A r \in new : r \in Replaced(old, new) /\ r.id \in RowIds(new)
         /\ \A r \in Replaced(old, new) : r.id \in RowIds(new) => r \in new
<1>1. \A r \in new : r \in Replaced(old, new) /\ r.id \in RowIds(new)  BY DEF Replaced, RowIds
<1>2. \A r \in Replaced(old, new) : r.id \in RowIds(new) => r \in new  BY Zenon DEF Replaced
<1> QED BY <1>1, <1>2

\* No number is taken away, whoever writes.
LEMMA NumbersStay ==
  ASSUME NEW old, NEW new
  PROVE  RowIds(old) \cup RowIds(new) \subseteq RowIds(Replaced(old, new))
<1>1. \A r \in new : r \in Replaced(old, new)  BY DEF Replaced
<1>2. \A r \in old : r.id \notin RowIds(new) => r \in Replaced(old, new)  BY Zenon DEF Replaced
<1>3. RowIds(new) \subseteq RowIds(Replaced(old, new))  BY <1>1 DEF RowIds
<1>4. \A r \in old : r.id \in RowIds(Replaced(old, new))  BY <1>2, <1>3 DEF RowIds
<1> QED BY <1>3, <1>4 DEF RowIds

\* A save leaves what it has written, and some evidence for every claim.
LEMMA SavedClaims ==
  ASSUME NEW old, NEW outcome \in Metadata, NEW kept, \A c \in old.claims : Cites(c, old.evidence)
  PROVE  LET new == SaveMetadata(old, outcome, kept)
         IN  (\A c \in new.claims : Cites(c, new.evidence)) /\ TablesAgree(outcome, new) /\ new.taken = kept
<1> DEFINE new == SaveMetadata(old, outcome, kept)
<1>1. /\ new.evidence = Replaced(old.evidence, outcome.citations)
      /\ new.claims = Replaced(old.claims, outcome.claims) /\ new.taken = kept
  BY DEF SaveMetadata
<1>2. \A c \in outcome.claims : Cites(c, outcome.citations)  BY RecordsAssumption
<1>3. RowIds(old.evidence) \cup RowIds(outcome.citations) \subseteq RowIds(new.evidence)  BY <1>1, NumbersStay
<1> HIDE DEF new
<1>4. ASSUME NEW c \in new.claims  PROVE Cites(c, new.evidence)
  <2>1. c \in outcome.claims \/ c \in old.claims  BY <1>1 DEF Replaced
  <2> QED BY <1>2, <1>3, <2>1 DEF Cites
<1>5. {c \in new.claims : c.id \in RowIds(outcome.claims)} = outcome.claims
  <2>1. \A c \in new.claims : c.id \in RowIds(outcome.claims) => c \in outcome.claims  BY <1>1, WrittenRows
  <2>2. \A c \in outcome.claims : c \in new.claims /\ c.id \in RowIds(outcome.claims)  BY <1>1, WrittenRows
  <2> QED BY <2>1, <2>2
<1>6. ASSUME NEW c \in outcome.claims, c.status # "invalid_citation"
      PROVE  CitedRows(new.evidence, c) = CitedRows(outcome.citations, c)
  <2>1. c.cites \subseteq RowIds(outcome.citations)  BY <1>2, <1>6 DEF Cites
  <2>2. \A e \in new.evidence : e.id \in RowIds(outcome.citations) => e \in outcome.citations  BY <1>1, WrittenRows
  <2>3. \A e \in new.evidence : e.id \in c.cites => e \in outcome.citations  BY <2>1, <2>2
  <2>4. \A e \in outcome.citations : e \in new.evidence  BY <1>1, WrittenRows
  <2> QED BY <2>3, <2>4 DEF CitedRows
<1> QED BY <1>1, <1>4, <1>5, <1>6 DEF TablesAgree, new

\* The tables of an outcome are written in the transaction that writes the row.
LEMMA ClaimsStep == ClaimsInv /\ [RecordsNext]_recordvars => ClaimsInv'
<1> SUFFICES ASSUME ClaimsInv, [RecordsNext]_recordvars PROVE ClaimsInv'  OBVIOUS
<1>0. RecordsInv /\ RecordsInv'  BY RecordsStep DEF ClaimsInv
<1>1. ASSUME UNCHANGED metadata, DOMAIN records \subseteq DOMAIN records',
             \A j \in DOMAIN records : records'[j].outcome = records[j].outcome
      PROVE  ClaimsInv'
  BY <1>0, <1>1 DEF ClaimsInv, ClaimsHaveEvidence
<1>2. ASSUME NEW p \in Stores, SaveJob(p)  PROVE ClaimsInv'
  <2> DEFINE s == stores[p].snapshot
             kept == s.fence >= records[s.id].fence
             row == IF kept THEN [records[s.id] EXCEPT !.fence = s.fence, !.of = s.fence, !.outcome = s.outcome]
                            ELSE records[s.id]
  <2>1. /\ metadata' = [metadata EXCEPT ![s.id] = SaveMetadata(@, s.outcome, kept)]
        /\ Put(s.id, row) /\ s # NoSnapshot
    BY <1>2 DEF SaveJob
  <2>2. DOMAIN metadata' = Staged  BY <2>1 DEF ClaimsInv
  <2>3. s.id \in Staged /\ s.outcome \in Metadata /\ s.id \in DOMAIN records
    BY <1>0, <2>1 DEF RecordsInv, RecordShapes, Worked, StoreRec
  <2>4. records[s.id] \in Row  BY <1>0, <2>3 DEF RecordsInv, RecordShapes
  <2> HIDE DEF s
  <2>5. kept => row.outcome = s.outcome  BY <2>4 DEF Row
  <2> HIDE DEF row, kept
  <2>6. /\ DOMAIN records' = DOMAIN records /\ records'[s.id] = row
        /\ \A j \in DOMAIN records \ {s.id} : records'[j] = records[j]
    BY <2>1, <2>3 DEF Put
  <2>7. metadata'[s.id] = SaveMetadata(metadata[s.id], s.outcome, kept)  BY <2>1, <2>3 DEF ClaimsInv
  <2>8. /\ \A c \in metadata'[s.id].claims : Cites(c, metadata'[s.id].evidence)
        /\ TablesAgree(s.outcome, metadata'[s.id]) /\ metadata'[s.id].taken = kept
    BY <2>3, <2>7, SavedClaims DEF ClaimsInv, ClaimsHaveEvidence
  <2>9. ASSUME NEW j \in Staged
        PROVE  /\ \A c \in metadata'[j].claims : Cites(c, metadata'[j].evidence)
               /\ metadata'[j].taken => j \in DOMAIN records' /\ TablesAgree(records'[j].outcome, metadata'[j])
    <3>1. CASE j = s.id  BY <2>3, <2>5, <2>6, <2>8, <3>1
    <3>2. CASE j # s.id
      <4>1. metadata'[j] = metadata[j]  BY <2>1, <3>2 DEF ClaimsInv
      <4> QED BY <2>6, <3>2, <4>1 DEF ClaimsInv, ClaimsHaveEvidence
    <3> QED BY <3>1, <3>2
  <2> QED BY <1>0, <2>2, <2>9 DEF ClaimsInv, ClaimsHaveEvidence
<1>3. ASSUME NEW p \in Stores, NEW j \in Staged, StageDispatch(p, j)  PROVE ClaimsInv'
  <2>1. /\ UNCHANGED metadata /\ j \in DOMAIN records /\ records[j] \in Row
        /\ Put(j, [records[j] EXCEPT !.fence = stores[p].tokens[j] + 1])
    BY <1>0, <1>3 DEF StageDispatch, RecordsInv, RecordShapes
  <2>2. /\ DOMAIN records' = DOMAIN records
        /\ \A k \in DOMAIN records : records'[k].outcome = records[k].outcome
    BY <2>1 DEF Put, Row
  <2> QED BY <1>1, <2>1, <2>2
<1>4. ASSUME NEW p \in Stores, NEW j \in Records, NEW key \in JobKeys \cup {NoJobKey}, CreateJob(p, j, key)
      PROVE  ClaimsInv'
  <2>1. UNCHANGED metadata /\ j \notin DOMAIN records  BY <1>4 DEF CreateJob
  <2>2. CASE UNCHANGED records  BY <1>1, <2>1, <2>2
  <2>3. ASSUME NEW row, Put(j, row)  PROVE ClaimsInv'
    <3>1. /\ DOMAIN records' = DOMAIN records \cup {j}
          /\ \A k \in DOMAIN records : records'[k] = records[k]
      BY <2>1, <2>3 DEF Put
    <3> QED BY <1>1, <2>1, <3>1
  <2> QED BY <1>4, <2>2, <2>3 DEF CreateJob
<1>5. CASE UNCHANGED <<records, metadata>>  BY <1>1, <1>5
<1> QED BY <1>2, <1>3, <1>4, <1>5 DEF RecordsNext, recordvars, FindOldTable, OpenStore, CreateTable, EnsureColumn,
        AlterTable, StopStore, LoadByIdempotency, HandOut, LoadJob, TakeSnapshot, LoseSave

\* For any attempts saved late, in any order, by any process, or not at all:
\* every claim that may cite finds evidence under the numbers it cites; and if
\* the row took the last save of the tables, they hold the claims of its
\* outcome, and what those cite has the contents they were compared with
\* (save_job, _save_execution_metadata).
THEOREM ClaimsStayCovered == RecordsSpec => []ClaimsHaveEvidence
<1>1. RecordsInit => ClaimsInv  BY RecordsStart DEF RecordsInit, ClaimsInv, ClaimsHaveEvidence
<1>2. ClaimsInv => ClaimsHaveEvidence  BY DEF ClaimsInv
<1> QED BY <1>1, <1>2, ClaimsStep, PTL DEF RecordsSpec

-----------------------------------------------------------------------------
(* Sequences of rows *)

\* Appending keeps every row where it is.
LEMMA Appended ==
  ASSUME NEW S, NEW s \in Seq(S), NEW e \in S
  PROVE  /\ Append(s, e) \in Seq(S) /\ Len(s) + 1 \notin DOMAIN s
         /\ DOMAIN Append(s, e) = DOMAIN s \cup {Len(s) + 1}
         /\ Append(s, e)[Len(s) + 1] = e /\ \A i \in DOMAIN s : Append(s, e)[i] = s[i]
OBVIOUS

-----------------------------------------------------------------------------
(* The catalog and what is read of it *)

EntityType == [category : {"vehicle", "component"}, code : TypeCodes \cup {"vehicle", "arm"}, order : Nat,
               system : Systems \cup {NoSystem}, status : {"pending", "lost", "active", "inactive", "deleted"}]
Vehicle == [code : VehicleCodes, values : SUBSET {1}, profiles : {Systems}]
Component == [vehicle : Nat, system : Systems, type : Nat, code : PartCodes]

\* Who updates a type has found it committed, and it stays so.
TypesInv ==
    /\ types \in Seq(EntityType) /\ updating \in [Updatable -> Nat]
    /\ \A i \in Updatable : updating[i] > 0 =>
         i \in DOMAIN types /\ types[i].status \in {"active", "inactive", "deleted"}

\* What requests do to types, those of the catalog and of the dataset.
TypeRequest ==
    \/ \E code \in TypeCodes, order \in Orders, sys \in Systems \cup {NoSystem} : InsertEntityType(code, order, sys)
    \/ \E i \in DOMAIN types, status \in {"active", "lost"} : EndInsertion(i, status)
    \/ \E i \in Updatable : CheckEntityType(i)
    \/ \E i \in Updatable, status \in {"active", "inactive", "deleted"}, sys \in Systems \cup {NoSystem} :
         UpdateEntityType(i, status, sys)

\* The types that are listed or may come up.
Alive == {i \in DOMAIN types : types[i].category = "component" /\ types[i].status # "lost"}

\* Two types are there, committed.
LEMMA TypesStart == CatalogInit => TypesInv
<1> SUFFICES ASSUME CatalogInit PROVE TypesInv  OBVIOUS
<1>1. (CHOOSE s \in Systems : TRUE) \in Systems  BY CatalogAssumption DEF CatalogAssumption
<1>2. types \in Seq(EntityType)  BY <1>1 DEF CatalogInit, SeededTypes, TypeRow, EntityType
<1>3. updating = [i \in Updatable |-> 0]  BY DEF CatalogInit
<1> QED BY <1>2, <1>3 DEF TypesInv

\* A type is changed in place.
LEMMA TypeChanged ==
  ASSUME types \in Seq(EntityType), NEW i \in DOMAIN types, NEW row \in EntityType, row.category = types[i].category,
         types[i].status # "lost" \/ row.status = "lost", types' = [types EXCEPT ![i] = row]
  PROVE  /\ types' \in Seq(EntityType) /\ DOMAIN types' = DOMAIN types /\ types'[i] = row
         /\ \A k \in DOMAIN types \ {i} : types'[k] = types[k]
         /\ Alive' \subseteq Alive
<1>1. /\ types' \in Seq(EntityType) /\ DOMAIN types' = DOMAIN types /\ types'[i] = row
      /\ \A k \in DOMAIN types \ {i} : types'[k] = types[k]
  OBVIOUS
<1>2. ASSUME NEW k \in Alive'  PROVE k \in Alive
  <2>1. CASE k = i  BY <1>1, <1>2, <2>1 DEF Alive
  <2>2. CASE k # i  BY <1>1, <1>2, <2>2 DEF Alive
  <2> QED BY <2>1, <2>2
<1> QED BY <1>1, <1>2

\* Types are added at the end and changed in place; what comes up was alive, or
\* has the highest number.
LEMMA TypesGrow ==
  ASSUME TypesInv, TypeRequest
  PROVE  /\ TypesInv' /\ DOMAIN types \subseteq DOMAIN types'
         /\ \A i \in Alive' : i \in Alive \/ \A j \in DOMAIN types : j < i
<1>0. types \in Seq(EntityType) /\ updating \in [Updatable -> Nat]  BY DEF TypesInv
<1>1. ASSUME NEW code \in TypeCodes, NEW order \in Orders, NEW sys \in Systems \cup {NoSystem},
             InsertEntityType(code, order, sys)
      PROVE  /\ TypesInv' /\ DOMAIN types \subseteq DOMAIN types'
             /\ \A i \in Alive' : i \in Alive \/ \A j \in DOMAIN types : j < i
  <2> DEFINE row == [TypeRow("component", code, order, sys) EXCEPT !.status = "pending"]
  <2>1. row \in EntityType  BY CatalogAssumption DEF CatalogAssumption, TypeRow, EntityType
  <2>2. types' = Append(types, row) /\ updating' = updating  BY <1>1 DEF InsertEntityType
  <2> HIDE DEF row
  <2>3. /\ types' \in Seq(EntityType) /\ DOMAIN types' = DOMAIN types \cup {Len(types) + 1}
        /\ \A i \in DOMAIN types : types'[i] = types[i]
    BY <1>0, <2>1, <2>2, Appended
  <2>4. DOMAIN types = 1 .. Len(types) /\ Len(types) \in Nat  BY <1>0
  <2>5. \A i \in DOMAIN types : i < Len(types) + 1  BY <2>4
  <2>6. \A i \in Alive' : i \in Alive \/ i = Len(types) + 1  BY <2>3 DEF Alive
  <2>7. TypesInv'  BY <2>2, <2>3 DEF TypesInv
  <2> QED BY <2>3, <2>5, <2>6, <2>7
<1>2. ASSUME NEW i \in DOMAIN types, NEW status \in {"active", "lost"}, EndInsertion(i, status)
      PROVE  TypesInv' /\ DOMAIN types \subseteq DOMAIN types' /\ Alive' \subseteq Alive
  <2> DEFINE row == [types[i] EXCEPT !.status = status]
  <2>1. types[i] \in EntityType /\ types[i].status = "pending"  BY <1>0, <1>2 DEF EndInsertion
  <2>2. row \in EntityType /\ row.category = types[i].category  BY <2>1 DEF EntityType
  <2>3. types' = [types EXCEPT ![i] = row] /\ updating' = updating  BY <1>0, <1>2 DEF EndInsertion
  <2> HIDE DEF row
  <2>4. /\ types' \in Seq(EntityType) /\ DOMAIN types' = DOMAIN types
        /\ \A k \in DOMAIN types \ {i} : types'[k] = types[k]
        /\ Alive' \subseteq Alive
    BY <1>0, <2>1, <2>2, <2>3, TypeChanged
  <2>5. \A k \in Updatable : updating[k] > 0 => k # i  BY <2>1 DEF TypesInv
  <2>6. TypesInv'  BY <2>3, <2>4, <2>5 DEF TypesInv
  <2> QED BY <2>4, <2>6
<1>3. ASSUME NEW i \in Updatable, CheckEntityType(i)  PROVE TypesInv' /\ types' = types /\ Alive' \subseteq Alive
  <2>1. /\ i \in DOMAIN types /\ types[i].status \notin {"pending", "lost", "deleted"}
        /\ types' = types /\ updating' = [updating EXCEPT ![i] = @ + 1]
    BY <1>3 DEF CheckEntityType, Live
  <2>2. types[i] \in EntityType  BY <1>0, <2>1
  <2>3. types[i].status \in {"active", "inactive"}  BY <2>1, <2>2 DEF EntityType
  <2>4. updating' \in [Updatable -> Nat] /\ \A k \in Updatable \ {i} : updating'[k] = updating[k]  BY <1>0, <2>1
  <2>5. TypesInv'  BY <2>1, <2>3, <2>4 DEF TypesInv
  <2> QED BY <2>1, <2>5 DEF Alive
<1>4. ASSUME NEW i \in Updatable, NEW status \in {"active", "inactive", "deleted"}, NEW sys \in Systems \cup {NoSystem},
             UpdateEntityType(i, status, sys)
      PROVE  TypesInv' /\ DOMAIN types \subseteq DOMAIN types' /\ Alive' \subseteq Alive
  <2> DEFINE row == [types[i] EXCEPT !.status = status, !.system = sys]
  <2>1. /\ updating[i] > 0 /\ updating' = [updating EXCEPT ![i] = @ - 1]
        /\ types' \in {types, [types EXCEPT ![i].status = status, ![i].system = sys]}
    BY <1>4 DEF UpdateEntityType
  <2>2. i \in DOMAIN types /\ types[i].status \in {"active", "inactive", "deleted"}  BY <2>1 DEF TypesInv
  <2>3. types[i] \in EntityType  BY <1>0, <2>2
  <2>4. row \in EntityType /\ row.category = types[i].category /\ row.status = status  BY <2>3 DEF EntityType
  <2>5. types' = types \/ types' = [types EXCEPT ![i] = row]  BY <2>1, <2>2
  <2> HIDE DEF row
  <2>6. updating' \in [Updatable -> Nat] /\ \A k \in Updatable \ {i} : updating'[k] = updating[k]  BY <1>0, <2>1
  <2>7. CASE types' = types  BY <2>2, <2>6, <2>7 DEF TypesInv, Alive
  <2>8. CASE types' = [types EXCEPT ![i] = row]
    <3>1. /\ types' \in Seq(EntityType) /\ DOMAIN types' = DOMAIN types /\ types'[i] = row
          /\ \A k \in DOMAIN types \ {i} : types'[k] = types[k]
          /\ Alive' \subseteq Alive
      BY <1>0, <2>2, <2>4, <2>8, TypeChanged
    <3>2. \A k \in Updatable : updating'[k] > 0 =>
            k \in DOMAIN types' /\ types'[k].status \in {"active", "inactive", "deleted"}
      <4>1. ASSUME NEW k \in Updatable, updating'[k] > 0
            PROVE  k \in DOMAIN types' /\ types'[k].status \in {"active", "inactive", "deleted"}
        <5>1. CASE k = i  BY <2>2, <2>4, <3>1, <5>1
        <5>2. CASE k # i  BY <2>6, <3>1, <4>1, <5>2 DEF TypesInv
        <5> QED BY <5>1, <5>2
      <4> QED BY <4>1
    <3> QED BY <2>6, <3>1, <3>2 DEF TypesInv
  <2> QED BY <2>5, <2>7, <2>8
<1> QED BY <1>1, <1>2, <1>3, <1>4 DEF TypeRequest

\* The requests of the dataset on types are requests of the catalog.
LEMMA DatasetRequests ==
  ASSUME \/ \E code \in TypeCodes, order \in Orders : InsertEntityType(code, order, NoSystem)
         \/ \E i \in DOMAIN types, status \in {"active", "lost"} : EndInsertion(i, status)
         \/ \E i \in Updatable : CheckEntityType(i)
         \/ \E i \in Updatable, status \in {"active", "deleted"} : UpdateEntityType(i, status, types[i].system)
  PROVE  TypeRequest
<1>1. ASSUME NEW i \in Updatable, NEW status \in {"active", "deleted"}, UpdateEntityType(i, status, types[i].system)
      PROVE  TypeRequest
  <2>1. PICK sys : sys = types[i].system  OBVIOUS
  <2>2. UpdateEntityType(i, status, sys)  BY <1>1, <2>1 DEF UpdateEntityType
  <2>3. sys \in Systems \cup {NoSystem}  BY <2>2 DEF UpdateEntityType
  <2> QED BY <2>2, <2>3 DEF TypeRequest
<1> QED BY <1>1 DEF TypeRequest

\* Every step of the catalog and of the dataset keeps the types.
LEMMA TypesStep ==
  TypesInv /\ ([CatalogNext]_catalogvars \/ [DatasetNext]_<<catalogvars, datasetvars>>) => TypesInv'
<1> SUFFICES ASSUME TypesInv, [CatalogNext]_catalogvars \/ [DatasetNext]_<<catalogvars, datasetvars>>
             PROVE  TypesInv'
  OBVIOUS
<1>1. ASSUME UNCHANGED <<types, updating>>  PROVE TypesInv'  BY <1>1 DEF TypesInv
<1>2. ASSUME TypeRequest  PROVE TypesInv'  BY <1>2, TypesGrow
<1>3. CASE CatalogNext
  <2>1. ASSUME ~ TypeRequest  PROVE UNCHANGED <<types, updating>>
    BY <1>3, <2>1 DEF CatalogNext, TypeRequest, CreateAttribute, UpdateAttribute, CreateVehicle, CreateComponent,
       SearchVehicles, ExpireCounts, ReadVehicles, ReadProfiles, ReadComponents
  <2> QED BY <1>1, <1>2, <2>1
<1>4. CASE DatasetNext
  <2>1. UNCHANGED catalogvars \/ TypeRequest  BY <1>4, DatasetRequests DEF DatasetNext
  <2> QED BY <1>1, <1>2, <2>1 DEF catalogvars
<1> QED BY <1>1, <1>3, <1>4 DEF catalogvars

CatalogTables == types \in Seq(EntityType) /\ vehicles \in Seq(Vehicle) /\ components \in Seq(Component)

\* A component is in a vehicle, and a reading is of what there was when it began.
Placed == \A c \in DOMAIN components : components[c].vehicle \in DOMAIN vehicles
Begun ==
    reading.at # "idle" =>
        /\ reading.vehicles \subseteq DOMAIN vehicles /\ reading.before \subseteq DOMAIN components
        /\ \A c \in reading.before : components[c].vehicle \in reading.vehicles
Continued ==
    /\ reading.of = "tree" /\ reading.at \in {"components", "done"} =>
         \A v \in reading.vehicles, s \in Systems : <<v, s>> \in reading.profiles
    /\ reading.at = "done" => reading.before \subseteq reading.components

CatalogInv == CatalogTables /\ Placed /\ Begun /\ Continued

\* A vehicle has a profile for every active system.
LEMMA AllProfiles ==
  ASSUME CatalogTables, NEW v \in DOMAIN vehicles, NEW s \in Systems
  PROVE  <<v, s>> \in Profiles
<1>1. vehicles[v] \in Vehicle  BY DEF CatalogTables
<1>2. vehicles[v].profiles = Systems  BY <1>1 DEF Vehicle
<1>3. <<v, s>> \in (DOMAIN vehicles) \X (Systems \cup Retired)  OBVIOUS
<1> QED BY <1>2, <1>3 DEF Profiles

\* The seeded catalog has no vehicle.
LEMMA CatalogStart == CatalogInit => CatalogInv
<1> SUFFICES ASSUME CatalogInit PROVE CatalogInv  OBVIOUS
<1>1. (CHOOSE s \in Systems : TRUE) \in Systems  BY CatalogAssumption DEF CatalogAssumption
<1>2. types \in Seq(EntityType)  BY <1>1 DEF CatalogInit, SeededTypes, TypeRow, EntityType
<1>3. vehicles = <<>> /\ components = <<>> /\ reading = NoReading  BY DEF CatalogInit
<1>4. CatalogTables /\ Placed  BY <1>2, <1>3 DEF CatalogTables, Placed
<1>5. Begun /\ Continued  BY <1>3 DEF Begun, Continued, NoReading
<1> QED BY <1>4, <1>5 DEF CatalogInv

\* Vehicles and components are added at the end and stay as they are.
LEMMA RowsAreAdded ==
  ASSUME CatalogInv, CatalogTables', Placed', UNCHANGED reading,
         DOMAIN vehicles \subseteq DOMAIN vehicles', DOMAIN components \subseteq DOMAIN components',
         \A c \in DOMAIN components : components'[c] = components[c]
  PROVE  CatalogInv'
BY DEF CatalogInv, Begun, Continued

\* A vehicle and a component are added.
LEMMA AddingInv ==
  ASSUME CatalogInv,
         \/ \E code \in VehicleCodes, values \in SUBSET {1} : CreateVehicle(code, values)
         \/ \E v \in DOMAIN vehicles, sys \in Systems \cup Retired, i \in DOMAIN types, code \in PartCodes :
              CreateComponent(v, sys, i, code)
  PROVE  CatalogInv'
<1>0. CatalogTables /\ Placed  BY DEF CatalogInv
<1>1. ASSUME NEW code \in VehicleCodes, NEW values \in SUBSET {1}, CreateVehicle(code, values)
      PROVE  CatalogInv'
  <2> DEFINE row == [code |-> code, values |-> values, profiles |-> Systems]
  <2>1. row \in Vehicle  BY DEF Vehicle
  <2>2. vehicles' = Append(vehicles, row) /\ UNCHANGED <<types, components, reading>>  BY <1>1 DEF CreateVehicle
  <2> HIDE DEF row
  <2>3. vehicles' \in Seq(Vehicle) /\ DOMAIN vehicles \subseteq DOMAIN vehicles'
    BY <1>0, <2>1, <2>2, Appended DEF CatalogTables
  <2>4. CatalogTables' /\ Placed'  BY <1>0, <2>2, <2>3 DEF CatalogTables, Placed
  <2> QED BY <2>2, <2>3, <2>4, RowsAreAdded
<1>2. ASSUME NEW v \in DOMAIN vehicles, NEW sys \in Systems \cup Retired, NEW i \in DOMAIN types,
             NEW code \in PartCodes, CreateComponent(v, sys, i, code)
      PROVE  CatalogInv'
  <2> DEFINE row == [vehicle |-> v, system |-> sys, type |-> i, code |-> code]
  <2>1. v \in Nat /\ i \in Nat /\ sys \in Systems  BY <1>0, <1>2 DEF CatalogTables, CreateComponent, MayPlace
  <2>2. row \in Component /\ row.vehicle = v  BY <2>1 DEF Component
  <2>3. components' = Append(components, row) /\ UNCHANGED <<types, vehicles, reading>>  BY <1>2 DEF CreateComponent
  <2> HIDE DEF row
  <2>4. /\ components' \in Seq(Component) /\ DOMAIN components' = DOMAIN components \cup {Len(components) + 1}
        /\ components'[Len(components) + 1] = row /\ \A c \in DOMAIN components : components'[c] = components[c]
    BY <1>0, <2>2, <2>3, Appended DEF CatalogTables
  <2>5. CatalogTables'  BY <1>0, <2>3, <2>4 DEF CatalogTables
  <2>6. Placed'  BY <1>0, <2>2, <2>3, <2>4 DEF Placed
  <2> QED BY <2>3, <2>4, <2>5, <2>6, RowsAreAdded
<1> QED BY <1>1, <1>2

\* A reading goes on.
LEMMA ReadingInv ==
  ASSUME CatalogInv, (\E of \in {"tree", "evidence"} : ReadVehicles(of)) \/ ReadProfiles \/ ReadComponents
  PROVE  CatalogInv'
<1>0. CatalogTables /\ Placed /\ Begun /\ Continued  BY DEF CatalogInv
<1>1. UNCHANGED <<types, vehicles, components>>  BY DEF ReadVehicles, ReadProfiles, ReadComponents
<1>2. CatalogTables' /\ Placed'  BY <1>0, <1>1 DEF CatalogTables, Placed
<1>3. ASSUME NEW of \in {"tree", "evidence"}, ReadVehicles(of)  PROVE CatalogInv'
  <2>1. /\ reading'.of = of /\ reading'.at \in {"profiles", "components"} /\ (of = "tree" => reading'.at = "profiles")
        /\ reading'.vehicles = DOMAIN vehicles /\ reading'.before = DOMAIN components
    BY <1>3 DEF ReadVehicles, NoReading
  <2> QED BY <1>0, <1>1, <1>2, <2>1 DEF CatalogInv, Begun, Continued, Placed
<1>4. CASE ReadProfiles
  <2>1. reading.at = "profiles" /\ reading' = [reading EXCEPT !.at = "components", !.profiles = Profiles]
    BY <1>4 DEF ReadProfiles
  <2>2. /\ reading'.of = reading.of /\ reading'.vehicles = reading.vehicles /\ reading'.before = reading.before
        /\ reading'.at \in {"components", reading.at} /\ reading'.profiles \in {Profiles, reading.profiles}
    BY <2>1
  <2> QED BY <1>0, <1>1, <1>2, <2>1, <2>2, AllProfiles DEF CatalogInv, Begun, Continued
<1>5. CASE ReadComponents
  <2>1. reading.at = "components" /\ reading' = [reading EXCEPT !.at = "done", !.components = DOMAIN components]
    BY <1>5 DEF ReadComponents
  <2> QED BY <1>0, <1>1, <1>2, <2>1 DEF CatalogInv, Begun, Continued
<1> QED BY <1>3, <1>4, <1>5

\* Every step keeps the invariant.
LEMMA CatalogStep == TypesInv' /\ CatalogInv /\ [CatalogNext]_catalogvars => CatalogInv'
<1> SUFFICES ASSUME TypesInv', CatalogInv, [CatalogNext]_catalogvars PROVE CatalogInv'  OBVIOUS
<1>0. types' \in Seq(EntityType)  BY DEF TypesInv
<1>1. ASSUME UNCHANGED <<vehicles, components, reading>>  PROVE CatalogInv'
  BY <1>0, <1>1 DEF CatalogInv, CatalogTables, Placed, Begun, Continued
<1>2. CASE TypeRequest
  BY <1>1, <1>2 DEF TypeRequest, InsertEntityType, EndInsertion, CheckEntityType, UpdateEntityType
<1>3. ASSUME \/ \E i \in DOMAIN types, code \in AttributeCodes : CreateAttribute(i, code)
             \/ \E a \in DOMAIN attributes, status \in {"active", "inactive", "deleted"} : UpdateAttribute(a, status)
             \/ SearchVehicles \/ ExpireCounts \/ UNCHANGED catalogvars
      PROVE  CatalogInv'
  <2>1. UNCHANGED <<vehicles, components, reading>>
    BY <1>3 DEF CreateAttribute, UpdateAttribute, SearchVehicles, ExpireCounts, catalogvars
  <2> QED BY <1>1, <2>1
<1>4. CASE \/ \E code \in VehicleCodes, values \in SUBSET {1} : CreateVehicle(code, values)
           \/ \E v \in DOMAIN vehicles, sys \in Systems \cup Retired, i \in DOMAIN types, code \in PartCodes :
                CreateComponent(v, sys, i, code)
  BY <1>4, AddingInv
<1>5. CASE (\E of \in {"tree", "evidence"} : ReadVehicles(of)) \/ ReadProfiles \/ ReadComponents  BY <1>5, ReadingInv
<1> QED BY <1>2, <1>3, <1>4, <1>5 DEF CatalogNext, TypeRequest

\* For any systems, types, vehicles and components, with other requests between
\* any two transactions of a reading: a tree has the systems of its vehicles and
\* every component that was there when it began, and evidence shows such a
\* component with its vehicle (build_tree, _projected_items, assets.py).
THEOREM ReadingsStayWhole == CatalogSpec => []ReadingsWhole
<1>1. ASSUME CatalogInv  PROVE ReadingsWhole
  <2>0. CatalogTables /\ Placed /\ Begun /\ Continued  BY <1>1 DEF CatalogInv
  <2>1. CASE reading.at = "done"
    <3>1. \A c \in reading.before : /\ c \in DOMAIN components /\ c \in reading.components
                                    /\ components[c].vehicle \in reading.vehicles
                                    /\ components[c].vehicle \in DOMAIN vehicles /\ components[c].system \in Systems
      <4>1. \A c \in DOMAIN components : components[c] \in Component  BY <2>0 DEF CatalogTables
      <4>2. \A c \in DOMAIN components : components[c].system \in Systems  BY <4>1 DEF Component
      <4> QED BY <2>0, <2>1, <4>2 DEF Begun, Continued
    <3>2. reading.of = "evidence" => Unattached \cap reading.before = {}  BY <3>1 DEF Unattached
    <3>3. CASE reading.of = "tree"
      <4>1. \A v \in reading.vehicles, s \in Systems : <<v, s>> \in TreeProfiles
        BY <2>0, <2>1, <3>3 DEF Continued, TreeProfiles
      <4>2. reading.before \subseteq TreeComponents  BY <3>1, <4>1 DEF TreeComponents
      <4>3. \A c \in reading.before : c \in LazySystemChildren(components[c].vehicle, components[c].system)
        BY <2>0, <3>1, AllProfiles DEF LazySystemChildren
      <4> QED BY <3>2, <4>1, <4>2, <4>3 DEF ReadingsWhole
    <3> QED BY <3>2, <3>3 DEF ReadingsWhole
  <2> QED BY <2>1 DEF ReadingsWhole
<1> QED BY <1>1, CatalogStart, CatalogStep, TypesStart, TypesStep, PTL DEF CatalogSpec

-----------------------------------------------------------------------------
(* The counts of the images *)

Image == [status : {"unlabeled", "labeling"}, count : Nat, split : {"val", "unassigned"}, opens : Uploads \cup {TRUE}]
Annotation == [image : Nat, type : Nat]
Labelling == [at : {"idle", "inserted", "counted"}, image : Nat, type : Nat, count : Nat]
DatasetShapes ==
    /\ types \in Seq(EntityType) /\ images \in Seq(Image) /\ annotations \in Seq(Annotation)
    /\ labelling \in [Annotators -> Labelling]
    /\ \A a \in DOMAIN annotations : annotations[a].image \in DOMAIN images

\* Who has counted has the image alone, and the count is one ahead of what is committed.
CountAhead(c) ==
    LET l == labelling[c] IN
    /\ l.at # "idle" => l.image \in DOMAIN images
    /\ l.at = "counted" =>
         /\ l.count = Cardinality(AnnotationsOf(l.image)) + 1
         /\ Holders(l.image, {"inserted", "counted"}) = {c}

CountInv == DatasetShapes /\ CountsExact /\ \A c \in Annotators : CountAhead(c)

\* The annotations of an image are finitely many.
LEMMA FewAnnotations ==
  ASSUME DatasetShapes, NEW m
  PROVE  IsFiniteSet(AnnotationsOf(m)) /\ Cardinality(AnnotationsOf(m)) \in Nat
<1>1. DOMAIN annotations = 1 .. Len(annotations) /\ Len(annotations) \in Nat  BY DEF DatasetShapes
<1>2. IsFiniteSet(DOMAIN annotations)  BY <1>1, FS_Interval
<1>3. AnnotationsOf(m) \in SUBSET DOMAIN annotations  BY DEF AnnotationsOf
<1>4. IsFiniteSet(AnnotationsOf(m))  BY <1>2, <1>3, FS_Subset
<1> QED BY <1>4, FS_CardinalityType

\* There is one image, without annotations, at first.
LEMMA CountStart == CatalogInit /\ DatasetInit => CountInv
<1> SUFFICES ASSUME CatalogInit, DatasetInit PROVE CountInv  OBVIOUS
<1>1. (CHOOSE s \in Systems : TRUE) \in Systems  BY CatalogAssumption DEF CatalogAssumption
<1>2. types \in Seq(EntityType)
  BY <1>1 DEF CatalogInit, SeededTypes, TypeRow, EntityType
<1>3. images \in Seq(Image) /\ DOMAIN images = {1} /\ images[1].count = 0 /\ images[1].status = "unlabeled"
  BY DEF DatasetInit, Image
<1>4. annotations = <<>> /\ DOMAIN annotations = {}  BY DEF DatasetInit
<1>5. labelling \in [Annotators -> Labelling] /\ \A c \in Annotators : labelling[c].at = "idle"
  BY DEF DatasetInit, NoLabelling, Labelling
<1>6. DatasetShapes  BY <1>2, <1>3, <1>4, <1>5 DEF DatasetShapes
<1>7. \A m : AnnotationsOf(m) = {}  BY <1>4 DEF AnnotationsOf
<1>8. CountsExact  BY <1>3, <1>7, FS_EmptySet DEF CountsExact
<1> QED BY <1>5, <1>6, <1>8 DEF CountInv, CountAhead

\* An image is added.
LEMMA CreateImageCounts ==
  ASSUME CountInv, NEW opens \in Uploads, CreateImage(opens), UNCHANGED types
  PROVE  CountInv'
<1> DEFINE m == Len(images) + 1
           image == [status |-> "unlabeled", count |-> 0, split |-> "unassigned", opens |-> opens]
<1>1. DatasetShapes /\ CountsExact /\ \A c \in Annotators : CountAhead(c)  BY DEF CountInv
<1>2. image \in Image  BY DEF Image
<1>3. images' = Append(images, image) /\ UNCHANGED <<annotations, labelling>>  BY DEF CreateImage
<1>4. /\ images' \in Seq(Image) /\ DOMAIN images' = DOMAIN images \cup {m} /\ m \notin DOMAIN images
      /\ images'[m] = image /\ \A i \in DOMAIN images : images'[i] = images[i]
  BY <1>1, <1>2, <1>3, Appended DEF DatasetShapes
<1>5. AnnotationsOf(m) = {}  BY <1>1, <1>4 DEF DatasetShapes, AnnotationsOf
<1>6. \A i : AnnotationsOf(i)' = AnnotationsOf(i)  BY <1>3 DEF AnnotationsOf
<1>7. DatasetShapes'  BY <1>1, <1>3, <1>4 DEF DatasetShapes
<1>8. CountsExact'
  <2>1. ASSUME NEW i \in DOMAIN images'
        PROVE  /\ images'[i].count = Cardinality(AnnotationsOf(i)')
               /\ images'[i].status = "unlabeled" <=> AnnotationsOf(i)' = {}
    <3>1. AnnotationsOf(i)' = AnnotationsOf(i)  BY <1>6
    <3>2. CASE i = m
      <4>1. AnnotationsOf(i)' = {}  BY <1>5, <3>1, <3>2 DEF AnnotationsOf
      <4>2. images'[i].count = 0 /\ images'[i].status = "unlabeled"  BY <1>4, <3>2
      <4> QED BY <4>1, <4>2, FS_EmptySet
    <3>3. CASE i \in DOMAIN images  BY <1>1, <1>4, <3>1, <3>3 DEF CountsExact
    <3> QED BY <1>4, <3>2, <3>3
  <2> QED BY <2>1 DEF CountsExact
<1>9. \A c \in Annotators : CountAhead(c)'  BY <1>1, <1>3, <1>4, <1>6 DEF CountAhead, Holders
<1> QED BY <1>7, <1>8, <1>9 DEF CountInv

\* An annotator goes on, and what is committed stays.
LEMMA LabellingStep ==
  ASSUME CountInv, NEW c \in Annotators, NEW l \in Labelling, labelling' = [labelling EXCEPT ![c] = l],
         UNCHANGED <<types, images, annotations>>,
         l.at # "idle" => l.image \in DOMAIN images /\ Holders(l.image, {"counted"}) = {},
         l.at = "counted" => /\ l.count = Cardinality(AnnotationsOf(l.image)) + 1
                             /\ Holders(l.image, {"inserted", "counted"}) = {c}
  PROVE  CountInv'
<1>1. DatasetShapes /\ CountsExact /\ \A d \in Annotators : CountAhead(d)  BY DEF CountInv
<1>2. \A m : AnnotationsOf(m)' = AnnotationsOf(m)  BY DEF AnnotationsOf
<1>3. DatasetShapes' /\ CountsExact'  BY <1>1, <1>2 DEF DatasetShapes, CountsExact
<1>4. labelling'[c] = l /\ \A d \in Annotators \ {c} : labelling'[d] = labelling[d]  BY <1>1 DEF DatasetShapes
<1>5. CountAhead(c)'  BY <1>1, <1>2, <1>4 DEF CountAhead, Holders
<1>6. ASSUME NEW d \in Annotators \ {c}  PROVE CountAhead(d)'
  <2>1. CASE labelling[d].at = "counted"
    <3>1. Holders(labelling[d].image, {"inserted", "counted"}) = {d}  BY <1>1, <2>1 DEF CountAhead
    <3>2. l.at # "idle" => l.image # labelling[d].image  BY <2>1 DEF Holders
    <3>3. l.at = "idle" \/ l.image # labelling[d].image  BY <3>2
    <3>4. Holders(labelling[d].image, {"inserted", "counted"})' = {d}
      BY <1>4, <3>1, <3>3 DEF Holders, Labelling
    <3> QED BY <1>1, <1>2, <1>4, <3>4 DEF CountAhead
  <2>2. CASE labelling[d].at # "counted"  BY <1>1, <1>4, <2>2 DEF CountAhead
  <2> QED BY <2>1, <2>2
<1> QED BY <1>3, <1>5, <1>6 DEF CountInv

\* The annotation is committed with its count.
LEMMA CommitCounts ==
  ASSUME CountInv, NEW c \in Annotators, CommitAnnotation(c), UNCHANGED types
  PROVE  CountInv'
<1>0. PICK l, n : l = labelling[c] /\ n = Len(annotations) + 1  OBVIOUS
<1> DEFINE row == [image |-> l.image, type |-> l.type]
<1>1. DatasetShapes /\ CountsExact /\ \A d \in Annotators : CountAhead(d)  BY DEF CountInv
<1>2. /\ l \in Labelling /\ l.image \in DOMAIN images /\ l.at = "counted" /\ l.count \in Nat
      /\ l.count = Cardinality(AnnotationsOf(l.image)) + 1
      /\ Holders(l.image, {"inserted", "counted"}) = {c}
  BY <1>0, <1>1 DEF CommitAnnotation, CountAhead, DatasetShapes, Labelling
<1>3. row \in Annotation /\ row.image = l.image  BY <1>2 DEF Annotation, Labelling
<1>4. annotations' = Append(annotations, row)  BY <1>0 DEF CommitAnnotation
<1>5. /\ annotations' \in Seq(Annotation) /\ DOMAIN annotations' = DOMAIN annotations \cup {n}
      /\ n \notin DOMAIN annotations /\ annotations'[n] = row
      /\ \A a \in DOMAIN annotations : annotations'[a] = annotations[a]
  BY <1>0, <1>1, <1>3, <1>4, Appended DEF DatasetShapes
<1>6. /\ images' \in Seq(Image) /\ DOMAIN images' = DOMAIN images
      /\ images'[l.image].count = l.count /\ images'[l.image].status = "labeling"
      /\ \A m \in DOMAIN images \ {l.image} : images'[m] = images[m]
  <2> DEFINE image == [images[l.image] EXCEPT !.count = l.count, !.status = IF @ = "unlabeled" THEN "labeling" ELSE @]
  <2>1. images[l.image] \in Image /\ images \in Seq(Image)  BY <1>1, <1>2 DEF DatasetShapes
  <2>2. image \in Image /\ image.count = l.count /\ image.status = "labeling"  BY <1>2, <2>1 DEF Image
  <2>3. images' = [images EXCEPT ![l.image] = image]  BY <1>0, <1>2, <2>1 DEF CommitAnnotation
  <2> HIDE DEF image
  <2> QED BY <1>2, <2>1, <2>2, <2>3
<1>7. labelling' = [labelling EXCEPT ![c] = NoLabelling]  BY DEF CommitAnnotation
<1> HIDE DEF row
<1>8. /\ AnnotationsOf(l.image)' = AnnotationsOf(l.image) \cup {n} /\ n \notin AnnotationsOf(l.image)
      /\ \A m : m # l.image => AnnotationsOf(m)' = AnnotationsOf(m)
  <2> USE DEF AnnotationsOf
  <2>1. n \notin AnnotationsOf(l.image)  BY <1>5
  <2>2. AnnotationsOf(l.image)' = AnnotationsOf(l.image) \cup {n}  BY <1>3, <1>5
  <2>3. ASSUME NEW m, m # l.image  PROVE AnnotationsOf(m)' = AnnotationsOf(m)  BY <1>3, <1>5, <2>3
  <2> QED BY <2>1, <2>2, <2>3
<1>9. Cardinality(AnnotationsOf(l.image)') = l.count  BY <1>1, <1>2, <1>8, FewAnnotations, FS_AddElement
<1>10. labelling'[c] = NoLabelling /\ \A d \in Annotators \ {c} : labelling'[d] = labelling[d]
  BY <1>1, <1>7 DEF DatasetShapes
<1>11. NoLabelling \in Labelling /\ NoLabelling.at = "idle"  BY DEF NoLabelling, Labelling
<1>12. DatasetShapes'
  <2>1. labelling' \in [Annotators -> Labelling]  BY <1>1, <1>7, <1>11 DEF DatasetShapes
  <2>2. \A a \in DOMAIN annotations' : annotations'[a].image \in DOMAIN images'
    BY <1>1, <1>2, <1>3, <1>5, <1>6 DEF DatasetShapes
  <2> QED BY <1>1, <1>5, <1>6, <2>1, <2>2 DEF DatasetShapes
<1>13. CountsExact'
  <2>1. ASSUME NEW m \in DOMAIN images'
        PROVE  /\ images'[m].count = Cardinality(AnnotationsOf(m)')
               /\ images'[m].status = "unlabeled" <=> AnnotationsOf(m)' = {}
    <3>1. CASE m = l.image
      <4>1. AnnotationsOf(m)' # {} /\ Cardinality(AnnotationsOf(m)') = l.count
        BY <1>8, <1>9, <3>1 DEF AnnotationsOf
      <4> QED BY <1>6, <3>1, <4>1
    <3>2. CASE m # l.image  BY <1>1, <1>6, <1>8, <3>2 DEF CountsExact
    <3> QED BY <3>1, <3>2
  <2> QED BY <2>1 DEF CountsExact
<1>14. ASSUME NEW d \in Annotators \ {c}  PROVE CountAhead(d)'
  <2>1. CASE labelling[d].at = "counted"
    <3>1. Holders(labelling[d].image, {"inserted", "counted"}) = {d}  BY <1>1, <2>1 DEF CountAhead
    <3>2. labelling[d].image # l.image  BY <1>0, <1>2, <2>1 DEF Holders
    <3>3. Holders(labelling[d].image, {"inserted", "counted"})' = {d}
      BY <1>10, <1>11, <3>1 DEF Holders
    <3> QED BY <1>1, <1>6, <1>8, <1>10, <3>2, <3>3 DEF CountAhead
  <2>2. CASE labelling[d].at # "counted"  BY <1>1, <1>6, <1>10, <2>2 DEF CountAhead
  <2> QED BY <2>1, <2>2
<1>15. CountAhead(c)'  BY <1>10, <1>11 DEF CountAhead
<1> QED BY <1>12, <1>13, <1>14, <1>15 DEF CountInv

\* The catalog changes types only.
LEMMA TypesCounts ==
  ASSUME CountInv, types' \in Seq(EntityType), UNCHANGED <<images, annotations, labelling>>
  PROVE  CountInv'
<1>1. DatasetShapes /\ CountsExact /\ \A d \in Annotators : CountAhead(d)  BY DEF CountInv
<1>2. \A m : AnnotationsOf(m)' = AnnotationsOf(m)  BY DEF AnnotationsOf
<1>3. DatasetShapes' /\ CountsExact'  BY <1>1, <1>2 DEF DatasetShapes, CountsExact
<1>4. \A c \in Annotators : CountAhead(c)'  BY <1>1, <1>2 DEF CountAhead, Holders
<1> QED BY <1>3, <1>4 DEF CountInv

\* Every step keeps the counts.
LEMMA CountStep == TypesInv' /\ CountInv /\ [DatasetNext]_<<catalogvars, datasetvars>> => CountInv'
<1> SUFFICES ASSUME TypesInv', CountInv, [DatasetNext]_<<catalogvars, datasetvars>> PROVE CountInv'  OBVIOUS
<1>1. DatasetShapes /\ labelling \in [Annotators -> Labelling] /\ types \in Seq(EntityType)
  BY DEF CountInv, DatasetShapes
<1>2. ASSUME NEW opens \in Uploads, CreateImage(opens), UNCHANGED types  PROVE CountInv'
  BY <1>2, CreateImageCounts
<1>3. ASSUME NEW c \in Annotators, NEW m \in DOMAIN images, NEW i \in DOMAIN types,
             InsertAnnotation(c, m, i), UNCHANGED types
      PROVE  CountInv'
  <2> DEFINE l == [at |-> "inserted", image |-> m, type |-> i, count |-> 0]
  <2>1. m \in Nat /\ i \in Nat  BY <1>1 DEF DatasetShapes
  <2>2. l \in Labelling  BY <2>1 DEF Labelling
  <2>3. labelling' = [labelling EXCEPT ![c] = l] /\ Holders(m, {"counted"}) = {} /\ UNCHANGED <<images, annotations>>
    BY <1>3 DEF InsertAnnotation
  <2>4. l.at = "inserted" /\ l.image = m  OBVIOUS
  <2> HIDE DEF l
  <2> QED BY <1>3, <2>2, <2>3, <2>4, LabellingStep
<1>4. ASSUME NEW c \in Annotators, Recount(c), UNCHANGED types  PROVE CountInv'
  <2> DEFINE m == labelling[c].image
             l == [labelling[c] EXCEPT !.at = "counted", !.count = Cardinality(AnnotationsOf(m)) + 1]
  <2>1. Cardinality(AnnotationsOf(m)) + 1 \in Nat  BY <1>1, FewAnnotations
  <2>2. labelling[c] \in Labelling /\ labelling[c].at = "inserted"  BY <1>1, <1>4 DEF Recount
  <2>3. m \in DOMAIN images  BY <2>2 DEF CountInv, CountAhead
  <2>4. labelling' = [labelling EXCEPT ![c] = l] /\ UNCHANGED <<images, annotations>>  BY <1>1, <1>4 DEF Recount
  <2>5. l \in Labelling /\ l.at = "counted" /\ l.image = m /\ l.count = Cardinality(AnnotationsOf(m)) + 1
    BY <2>1, <2>2 DEF Labelling
  <2>6. Holders(m, {"inserted", "counted"}) = {c}  BY <1>4 DEF Recount
  <2>7. Holders(m, {"counted"}) = {}  BY <2>2, <2>6 DEF Holders
  <2> HIDE DEF l, m
  <2> QED BY <1>4, <2>3, <2>4, <2>5, <2>6, <2>7, LabellingStep
<1>5. ASSUME NEW c \in Annotators, Deadlocked(c), UNCHANGED types  PROVE CountInv'
  <2>1. NoLabelling \in Labelling /\ NoLabelling.at = "idle"  BY DEF NoLabelling, Labelling
  <2>2. labelling' = [labelling EXCEPT ![c] = NoLabelling] /\ UNCHANGED <<images, annotations>>
    BY <1>5 DEF Deadlocked
  <2> QED BY <1>5, <2>1, <2>2, LabellingStep
<1>6. ASSUME NEW c \in Annotators, CommitAnnotation(c), UNCHANGED types  PROVE CountInv'
  BY <1>6, CommitCounts
<1>7. ASSUME UNCHANGED <<types, images, annotations, labelling>>  PROVE CountInv'
  BY <1>1, <1>7, TypesCounts
<1>8. ASSUME (\E format \in {"yolo", "coco"} : ReadClasses(format)) \/ ReadImages \/ BuildArchive, UNCHANGED types
      PROVE  CountInv'
  BY <1>7, <1>8 DEF ReadClasses, ReadImages, BuildArchive
<1>9. CASE UNCHANGED datasetvars
  <2>1. types' \in Seq(EntityType)  BY DEF TypesInv
  <2> QED BY <1>9, <2>1, TypesCounts DEF datasetvars
<1> QED BY <1>2, <1>3, <1>4, <1>5, <1>6, <1>7, <1>8, <1>9 DEF DatasetNext, catalogvars, datasetvars

\* For any annotators, images and annotations, however their transactions
\* interleave, deadlock and roll back: an image has as many objects as
\* annotations, and is unlabeled as long as it has none (create_annotation,
\* dataset.py).
THEOREM CountsStayExactly == DatasetSpec => []CountsExact
<1>1. CountInv => CountsExact  BY DEF CountInv
<1> QED BY <1>1, CountStart, CountStep, TypesStart, TypesStep, PTL DEF DatasetSpec

-----------------------------------------------------------------------------
(* Sets of numbers in their order *)

\* The rank grows with the number.
LEMMA RankGrows ==
  ASSUME NEW S \in SUBSET Nat, IsFiniteSet(S), NEW x \in S, NEW y \in S, x < y
  PROVE  Place(S, x) \in 1 .. Cardinality(S) /\ Place(S, y) \in 1 .. Cardinality(S) /\ Place(S, x) < Place(S, y)
<1> DEFINE Below(z) == {w \in S : w <= z}
<1>1. \A z \in S : IsFiniteSet(Below(z)) /\ Cardinality(Below(z)) \in Nat /\ Cardinality(Below(z)) <= Cardinality(S)
  <2>1. ASSUME NEW z \in S  PROVE IsFiniteSet(Below(z)) /\ Cardinality(Below(z)) <= Cardinality(S)
    <3>1. Below(z) \in SUBSET S  OBVIOUS
    <3> QED BY <3>1, FS_Subset
  <2> QED BY <2>1, FS_CardinalityType
<1>2. \A z \in S : Cardinality(Below(z)) # 0
  BY <1>1, FS_EmptySet
<1>3. Cardinality(Below(x)) <= Cardinality(Below(y)) /\ Cardinality(Below(x)) # Cardinality(Below(y))
  <2>1. /\ \A w \in S : w <= x => w <= y
        /\ y <= y /\ ~(y <= x)
    OBVIOUS
  <2>2. Below(x) \in SUBSET Below(y) /\ y \in Below(y) /\ y \notin Below(x)  BY <2>1
  <2> HIDE DEF Below
  <2> QED BY <1>1, <2>2, FS_Subset
<1>4. Cardinality(S) \in Nat  BY FS_CardinalityType
<1> HIDE DEF Below
<1>5. Place(S, x) = Cardinality(Below(x)) /\ Place(S, y) = Cardinality(Below(y))  BY DEF Place, Below
<1> QED BY <1>1, <1>2, <1>3, <1>4, <1>5

\* Every number of the set has a place, and every place one number.
LEMMA Ranked ==
  ASSUME NEW S \in SUBSET Nat, IsFiniteSet(S)
  PROVE  /\ Cardinality(S) \in Nat
         /\ \A x \in S : Place(S, x) \in 1 .. Cardinality(S)
         /\ \A x, y \in S : Place(S, x) = Place(S, y) => x = y
         /\ \A k \in 1 .. Cardinality(S) : \E x \in S : Place(S, x) = k
<1>1. Cardinality(S) \in Nat  BY FS_CardinalityType
<1>2. ASSUME NEW x \in S  PROVE Place(S, x) \in 1 .. Cardinality(S)
  <2> DEFINE below == {w \in S : w <= x}
  <2>1. below \in SUBSET S /\ x \in below  OBVIOUS
  <2>2. IsFiniteSet(below) /\ Cardinality(below) <= Cardinality(S)  BY <2>1, FS_Subset
  <2>3. Cardinality(below) \in Nat /\ Cardinality(below) # 0  BY <2>1, <2>2, FS_CardinalityType, FS_EmptySet
  <2> QED BY <1>1, <2>2, <2>3 DEF Place
<1>3. ASSUME NEW x \in S, NEW y \in S, Place(S, x) = Place(S, y)  PROVE x = y
  <2>1. ~(x < y) /\ ~(y < x)
    <3>1. CASE x < y  BY <1>2, <1>3, <3>1, RankGrows
    <3>2. CASE y < x  BY <1>2, <1>3, <3>2, RankGrows
    <3> QED BY <3>1, <3>2
  <2> QED BY <2>1
<1> DEFINE rank == [x \in S |-> Place(S, x)]
           places == 1 .. Cardinality(S)
<1>4. rank \in Injection(S, places)
  BY <1>2, <1>3 DEF Injection, IsInjective
<1>5. IsFiniteSet(places) /\ Cardinality(places) = Cardinality(S)
  BY <1>1, FS_Interval
<1>6. rank \in Surjection(S, places)  
  <2> HIDE DEF rank, places
  <2> QED BY <1>4, <1>5, FS_Injection
<1>7. \A k \in places : \E x \in S : rank[x] = k  BY <1>6 DEF Surjection
<1> QED BY <1>1, <1>2, <1>3, <1>7

\* The order has the set, each number once and at its place.
LEMMA InOrderIs ==
  ASSUME NEW S \in SUBSET Nat, IsFiniteSet(S)
  PROVE  /\ Cardinality(S) \in Nat /\ DOMAIN InOrder(S) = 1 .. Cardinality(S)
         /\ \A k \in 1 .. Cardinality(S) : InOrder(S)[k] \in S /\ Place(S, InOrder(S)[k]) = k
         /\ \A x \in S : Place(S, x) \in 1 .. Cardinality(S) /\ InOrder(S)[Place(S, x)] = x
<1>1. Cardinality(S) \in Nat /\ DOMAIN InOrder(S) = 1 .. Cardinality(S)  BY Ranked DEF InOrder
<1>2. ASSUME NEW k \in 1 .. Cardinality(S)  PROVE InOrder(S)[k] \in S /\ Place(S, InOrder(S)[k]) = k
  <2>1. \E x \in S : Place(S, x) = k  BY Ranked
  <2>2. InOrder(S)[k] = CHOOSE x \in S : Place(S, x) = k  BY DEF InOrder
  <2> QED BY <2>1, <2>2
<1>3. ASSUME NEW x \in S  PROVE Place(S, x) \in 1 .. Cardinality(S) /\ InOrder(S)[Place(S, x)] = x
  <2> DEFINE k == Place(S, x)
  <2>1. k \in 1 .. Cardinality(S) /\ \A y \in S : Place(S, y) = k => y = x  BY Ranked
  <2> HIDE DEF k
  <2>2. InOrder(S)[k] \in S /\ Place(S, InOrder(S)[k]) = k  BY <1>2, <2>1
  <2> QED BY <2>1, <2>2 DEF k
<1> QED BY <1>1, <1>2, <1>3

\* A larger set whose new numbers are above the old ones begins like the old.
LEMMA InOrderExtends ==
  ASSUME NEW S \in SUBSET Nat, IsFiniteSet(S), NEW T \in SUBSET Nat, IsFiniteSet(T),
         S \subseteq T, \A t \in T : t \in S \/ \A s \in S : s < t,
         NEW k \in 1 .. Cardinality(S)
  PROVE  InOrder(T)[k] = InOrder(S)[k]
<1> DEFINE x == InOrder(S)[k]
<1>1. x \in S /\ Place(S, x) = k  BY InOrderIs
<1> HIDE DEF x
<1>2. {y \in S : y <= x} = {y \in T : y <= x}
  <2>1. ASSUME NEW y \in T, y <= x  PROVE y \in S
    <3>1. x \in Nat /\ y \in Nat /\ ~(x < y)  BY <1>1, <2>1
    <3> QED BY <1>1, <3>1
  <2> QED BY <2>1
<1>3. Place(T, x) = k  BY <1>1, <1>2 DEF Place
<1>4. InOrder(T)[Place(T, x)] = x  BY <1>1, InOrderIs
<1> QED BY <1>3, <1>4 DEF x

\* What is in the order is in the set.
LEMMA InOrderHas ==
  ASSUME NEW S \in SUBSET Nat, IsFiniteSet(S)
  PROVE  ToSet(InOrder(S)) = S
<1>1. \A x \in S : \E i \in DOMAIN InOrder(S) : InOrder(S)[i] = x  BY InOrderIs
<1>2. \A i \in DOMAIN InOrder(S) : InOrder(S)[i] \in S  BY InOrderIs
<1> QED BY <1>1, <1>2 DEF ToSet

\* Two ordered sets of which the later only has more at its end.
LEMMA InOrderAgree ==
  ASSUME NEW S \in SUBSET Nat, IsFiniteSet(S), NEW T \in SUBSET Nat, IsFiniteSet(T),
         \A t \in T : t \in S \/ \A s \in S : s < t,
         ToSet(InOrder(S)) \subseteq ToSet(InOrder(T)), NEW k \in DOMAIN InOrder(S)
  PROVE  InOrder(T)[k] = InOrder(S)[k]
<1>1. S \subseteq T  BY InOrderHas
<1>2. k \in 1 .. Cardinality(S)  BY InOrderIs
<1> QED BY <1>1, <1>2, InOrderExtends

-----------------------------------------------------------------------------
(* The class ids of the archives *)

\* The types that an order of classes does not have were inserted after all it
\* has, or could come up when it was read.
Later(D, C, unlisted) == \A i \in D : i \in C \cup unlisted \/ \A j \in C : j < i
ListedSince(a) == \E C \in SUBSET DOMAIN types : a.classes = InOrder(C) /\ Later(Alive, C, a.unlisted)
Follows(after, before) ==
    \E C, D \in SUBSET DOMAIN types :
        before.classes = InOrder(C) /\ after.classes = InOrder(D) /\ Later(D, C, before.unlisted)

ClassInv ==
    /\ \E S : archives \in Seq(S)
    /\ \A e \in DOMAIN archives : ListedSince(archives[e])
    /\ exporting.at # "idle" =>
         ListedSince(exporting) /\ \A e \in DOMAIN archives : Follows(exporting, archives[e])
    /\ \A e, f \in DOMAIN archives : e < f => Follows(archives[f], archives[e])

\* Nothing was exported at first.
LEMMA ClassStart == CatalogInit /\ DatasetInit => ClassInv
<1> SUFFICES ASSUME CatalogInit, DatasetInit PROVE ClassInv  OBVIOUS
<1>1. archives = <<>> /\ DOMAIN archives = {} /\ archives \in Seq({})  BY DEF DatasetInit
<1>2. exporting.at = "idle"  BY DEF DatasetInit, NoExport
<1> QED BY <1>1, <1>2 DEF ClassInv

\* A set of types is a finite set of numbers.
LEMMA TypeNumbers ==
  ASSUME types \in Seq(EntityType), NEW C \in SUBSET DOMAIN types
  PROVE  C \in SUBSET Nat /\ IsFiniteSet(C)
<1>1. DOMAIN types = 1 .. Len(types) /\ Len(types) \in Nat  OBVIOUS
<1>2. IsFiniteSet(DOMAIN types) /\ DOMAIN types \subseteq Nat  BY <1>1, FS_Interval
<1> QED BY <1>2, FS_Subset

\* Of an export only the classes and the types that could come up matter.
LEMMA SameExport ==
  ASSUME UNCHANGED types, NEW a, NEW b, a.classes = b.classes, a.unlisted = b.unlisted, NEW e
  PROVE  (ListedSince(a)' <=> ListedSince(b)) /\ (Follows(a, e)' <=> Follows(b, e)) /\ (Follows(e, a)' <=> Follows(e, b))
BY DEF ListedSince, Follows, Alive

\* Every step of the dataset keeps its invariant.
LEMMA ClassStep == TypesInv /\ ClassInv /\ [DatasetNext]_<<catalogvars, datasetvars>> => ClassInv'
<1> SUFFICES ASSUME TypesInv, ClassInv, [DatasetNext]_<<catalogvars, datasetvars>> PROVE ClassInv'  OBVIOUS
<1>1. types \in Seq(EntityType) /\ \E S : archives \in Seq(S)  BY DEF TypesInv, ClassInv
<1>2. CASE UNCHANGED <<types, exporting, archives>>
  BY <1>2 DEF ClassInv, ListedSince, Follows, Alive
<1>3. ASSUME NEW format \in {"yolo", "coco"}, ReadClasses(format), UNCHANGED types  PROVE ClassInv'
  <2> DEFINE L == ListEntityTypes("component")
             export == [format |-> format, at |-> "images", classes |-> InOrder(L), unlisted |-> Unlisted, images |-> {}]
  <2>1. exporting' = export /\ archives' = archives /\ types' = types  BY <1>3 DEF ReadClasses, ExportClasses
  <2>2. L \in SUBSET DOMAIN types /\ L \subseteq Alive  BY DEF ListEntityTypes, Live, Alive
  <2>3. \A i \in Alive : i \in L \cup Unlisted
    <3>1. ASSUME NEW i \in Alive  PROVE i \in L \cup Unlisted
      <4>1. i \in DOMAIN types /\ types[i] \in EntityType  BY <1>1, <3>1 DEF Alive
      <4>2. types[i].status \in {"pending", "active", "inactive", "deleted"}  BY <3>1, <4>1 DEF EntityType, Alive
      <4> QED BY <3>1, <4>1, <4>2 DEF Alive, ListEntityTypes, Live, Unlisted
    <3> QED BY <3>1
  <2>4. export.classes = InOrder(L) /\ export.unlisted = Unlisted  OBVIOUS
  <2> HIDE DEF export, L
  <2>5. ListedSince(export)  BY <2>2, <2>3, <2>4 DEF ListedSince, Later
  <2>6. ASSUME NEW e \in DOMAIN archives  PROVE Follows(export, archives[e])
    <3>1. PICK C \in SUBSET DOMAIN types : archives[e].classes = InOrder(C) /\ Later(Alive, C, archives[e].unlisted)
      BY DEF ClassInv, ListedSince
    <3>2. Later(L, C, archives[e].unlisted)  BY <2>2, <3>1 DEF Later
    <3> QED BY <2>2, <2>4, <3>1, <3>2 DEF Follows
  <2>7. \A a, e : (ListedSince(a)' <=> ListedSince(a)) /\ (Follows(a, e)' <=> Follows(a, e))  BY <2>1, SameExport
  <2> QED BY <1>1, <2>1, <2>5, <2>6, <2>7 DEF ClassInv
<1>4. CASE ReadImages /\ UNCHANGED types
  <2>1. /\ exporting.at = "images" /\ archives' = archives /\ types' = types
        /\ exporting'.classes = exporting.classes /\ exporting'.unlisted = exporting.unlisted
    BY <1>4 DEF ReadImages
  <2>2. ListedSince(exporting) /\ \A e \in DOMAIN archives : Follows(exporting, archives[e])
    BY <2>1 DEF ClassInv
  <2>3. PICK x : x = exporting'  OBVIOUS
  <2>4. ListedSince(x) /\ \A e \in DOMAIN archives : Follows(x, archives[e])
    BY <2>1, <2>2, <2>3 DEF ListedSince, Follows
  <2>5. \A a, e : (ListedSince(a)' <=> ListedSince(a)) /\ (Follows(a, e)' <=> Follows(a, e))  BY <2>1, SameExport
  <2>6. ListedSince(exporting)' /\ \A e \in DOMAIN archives' : Follows(exporting, archives[e])'
    BY <2>1, <2>3, <2>4, <2>5
  <2> QED BY <1>1, <2>1, <2>5, <2>6 DEF ClassInv
<1>5. CASE BuildArchive /\ UNCHANGED types
  <2>1. exporting.at # "idle" /\ exporting'.at = "idle" /\ types' = types
    BY <1>5 DEF BuildArchive, NoExport
  <2>2. PICK a : archives' = Append(archives, a) /\ a.classes = exporting.classes /\ a.unlisted = exporting.unlisted
    BY <1>5 DEF BuildArchive
  <2>3. PICK S : archives \in Seq(S) /\ a \in S
    <3>1. PICK S : archives \in Seq(S)  BY <1>1
    <3>2. archives \in Seq(S \cup {a})  BY <3>1
    <3> QED BY <3>2
  <2> DEFINE n == Len(archives) + 1
  <2>4. /\ archives' \in Seq(S) /\ DOMAIN archives' = DOMAIN archives \cup {n} /\ archives'[n] = a
        /\ \A e \in DOMAIN archives : archives'[e] = archives[e]
    BY <2>2, <2>3, Appended
  <2>5. \A e \in DOMAIN archives : e < n  BY <2>3
  <2> HIDE DEF n
  <2>6. \A b, e : (ListedSince(b)' <=> ListedSince(b)) /\ (Follows(b, e)' <=> Follows(b, e))  BY <2>1, SameExport
  <2>7. ListedSince(a) /\ \A e \in DOMAIN archives : Follows(a, archives[e])
    BY <2>1, <2>2 DEF ClassInv, ListedSince, Follows
  <2>8. \A e \in DOMAIN archives' : ListedSince(archives'[e])
    BY <2>4, <2>7 DEF ClassInv
  <2>9. ASSUME NEW e \in DOMAIN archives', NEW f \in DOMAIN archives', e < f
        PROVE  Follows(archives'[f], archives'[e])
    <3>1. e \in DOMAIN archives
      <4>1. n \in Nat /\ DOMAIN archives \subseteq Nat  BY <2>3 DEF n
      <4> QED BY <2>4, <2>5, <2>9, <4>1
    <3>2. CASE f \in DOMAIN archives  BY <2>4, <2>9, <3>1, <3>2 DEF ClassInv
    <3>3. CASE f = n  BY <2>4, <2>7, <3>1, <3>3
    <3> QED BY <2>4, <3>2, <3>3
  <2> QED BY <1>1, <2>1, <2>4, <2>6, <2>8, <2>9 DEF ClassInv
<1>6. CASE TypeRequest /\ UNCHANGED datasetvars
  <2>1. /\ DOMAIN types \subseteq DOMAIN types'
        /\ \A i \in Alive' : i \in Alive \/ \A j \in DOMAIN types : j < i
    BY <1>6, TypesGrow
  <2>2. exporting' = exporting /\ archives' = archives  BY <1>6 DEF datasetvars
  <2>3. ASSUME NEW a, ListedSince(a)  PROVE ListedSince(a)'
    <3>1. PICK C \in SUBSET DOMAIN types : a.classes = InOrder(C) /\ Later(Alive, C, a.unlisted)
      BY <2>3 DEF ListedSince
    <3>2. Later(Alive', C, a.unlisted)  BY <2>1, <3>1 DEF Later
    <3>3. C \in SUBSET DOMAIN types'  BY <2>1
    <3> QED BY <3>1, <3>2, <3>3 DEF ListedSince
  <2>4. \A a, e : Follows(a, e) => Follows(a, e)'  BY <2>1 DEF Follows
  <2> QED BY <1>1, <2>2, <2>3, <2>4 DEF ClassInv
<1>7. CASE UNCHANGED <<catalogvars, datasetvars>>  BY <1>2, <1>7 DEF catalogvars, datasetvars
<1>8. ASSUME DatasetNext  PROVE ClassInv'
  <2>1. CASE UNCHANGED types /\ \E opens \in Uploads : CreateImage(opens)
    BY <1>2, <2>1 DEF CreateImage
  <2>2. CASE UNCHANGED types /\ \E c \in Annotators, m \in DOMAIN images, i \in DOMAIN types : InsertAnnotation(c, m, i)
    BY <1>2, <2>2 DEF InsertAnnotation
  <2>3. CASE UNCHANGED types /\ \E c \in Annotators : Recount(c) \/ Deadlocked(c) \/ CommitAnnotation(c)
    BY <1>2, <2>3 DEF Recount, Deadlocked, CommitAnnotation
  <2> QED BY <1>3, <1>4, <1>5, <1>6, <1>8, <2>1, <2>2, <2>3, DatasetRequests DEF DatasetNext, catalogvars
<1> QED BY <1>7, <1>8

\* ClassIdsFrozen, for any number of requests on types that overlap each other
\* and the exports: labels of two archives agree unless a type was deleted
\* between them, or one came up that was deleted or not committed at the first;
\* for ids are taken in order, and an insertion that is lost stays lost.
THEOREM ClassesStayFrozen == DatasetSpec => []ClassIdsFrozen
<1>1. TypesInv /\ ClassInv => ClassIdsFrozen
  <2> SUFFICES ASSUME TypesInv, ClassInv, NEW e \in DOMAIN archives, NEW f \in DOMAIN archives, e < f,
                      KeepsAll(archives[f], archives[e].classes), NoneCameUp(archives[f], archives[e].unlisted),
                      NEW k \in DOMAIN archives[e].classes
               PROVE  archives[f].classes[k] = archives[e].classes[k]
    BY DEF ClassIdsFrozen
  <2>1. types \in Seq(EntityType) /\ Follows(archives[f], archives[e])  BY DEF TypesInv, ClassInv
  <2>2. PICK C \in SUBSET DOMAIN types, D \in SUBSET DOMAIN types :
          archives[e].classes = InOrder(C) /\ archives[f].classes = InOrder(D) /\ Later(D, C, archives[e].unlisted)
    BY <2>1 DEF Follows
  <2>3. C \in SUBSET Nat /\ IsFiniteSet(C) /\ D \in SUBSET Nat /\ IsFiniteSet(D)  BY <2>1, TypeNumbers
  <2>4. ToSet(InOrder(C)) \subseteq ToSet(InOrder(D)) /\ ToSet(InOrder(D)) \cap archives[e].unlisted = {}
    BY <2>2 DEF KeepsAll, NoneCameUp
  <2>5. \A t \in D : t \in C \/ \A s \in C : s < t
    <3>1. \A t \in D : t \notin archives[e].unlisted  BY <2>3, <2>4, InOrderHas
    <3> QED BY <2>2, <3>1 DEF Later
  <2> QED BY <2>2, <2>3, <2>4, <2>5, InOrderAgree
<1> QED BY <1>1, ClassStart, ClassStep, TypesStart, TypesStep, PTL DEF DatasetSpec

-----------------------------------------------------------------------------
(* The events of a job and the page that shows them *)

Event == [seq : Nat \ {0}, kind : EventKinds, n : Nat \ {0}]
Page(p) ==
    p = [at |-> p.at, status |-> p.status, text |-> p.text, shown |-> p.shown, answers |-> p.answers, opened |-> p.opened,
         took |-> p.took]
StreamShapes ==
    /\ events \in Seq(Event) /\ \A i \in DOMAIN events : events[i].seq = i
    /\ mailbox \in Seq(Event)
    /\ IsFiniteSet(DOMAIN saved) /\ DOMAIN saved \subseteq Nat /\ \A i \in DOMAIN saved : saved[i] \in Event
    /\ stream = [at |-> stream.at, last |-> stream.last, backlog |-> stream.backlog]
    /\ stream.last \in Nat /\ stream.backlog \in Seq(Event)
    /\ Page(page) /\ breaks \in Seq({"restart", "connection", "opened"})

\* Who took the final event shows its text, and takes nothing after it.
Completed(p) ==
    /\ p.took = "final" => p.at = "ended" /\ p.status = "completed" /\ p.shown = Says("final")
    /\ p.status = "completed" => p.took \in {"final", "telemetry_final"}

\* The event is in the list, at its number.
InList(e) == e.seq \in DOMAIN events /\ events[e.seq] = e
Following == stream.at \notin {"none", "closed"} \/ page.at = "broken"

\* What holds as long as the process was not restarted.
Unrestarted == "restart" \notin ToSet(breaks)
Begins ==
    /\ page.at \in {"reading", "stopping"} => stream.at # "none"
    /\ reads = "none" => page.at \in {"idle", "ended"} /\ course = "queued"
Ahead ==
    /\ DOMAIN saved = {} /\ stream.last <= Len(events)
    /\ \A i \in DOMAIN mailbox : InList(mailbox[i])
    /\ \A i \in DOMAIN stream.backlog : InList(stream.backlog[i])
    /\ course = "ended" => /\ Len(events) # 0 /\ EndsPage(events[Len(events)].kind)
                           /\ Following => stream.last < Len(events)

StreamInv == StreamShapes /\ Completed(page) /\ (Unrestarted => Begins /\ Ahead)

\* An event is the last of the list, with the number of its place.
LEMMA Emitted ==
  ASSUME StreamShapes, NEW kind \in EventKinds, Emit(kind)
  PROVE  /\ events' \in Seq(Event) /\ Len(events') = Len(events) + 1 /\ mailbox' \in Seq(Event)
         /\ \A i \in DOMAIN events' : events'[i].seq = i
         /\ events'[Len(events')].kind = kind
         /\ \A e : InList(e) => InList(e)'
         /\ (\A i \in DOMAIN mailbox : InList(mailbox[i])) => (\A i \in DOMAIN mailbox : InList(mailbox[i]))'
<1>0. PICK k, event : k = Len(events) + 1 /\ event = [seq |-> k, kind |-> kind, n |-> Cardinality(EventsOfKind(kind)) + 1]
  OBVIOUS
<1>1. events \in Seq(Event) /\ Len(events) \in Nat /\ DOMAIN events = 1 .. Len(events)  BY DEF StreamShapes
<1>2. Cardinality(EventsOfKind(kind)) \in Nat
  <2>1. IsFiniteSet(DOMAIN events)
    <3>1. PICK n \in Nat : n = Len(events)  BY <1>1
    <3>2. IsFiniteSet(1 .. n)  BY FS_Interval
    <3> QED BY <1>1, <3>1, <3>2
  <2>2. EventsOfKind(kind) \in SUBSET DOMAIN events  BY DEF EventsOfKind
  <2>3. IsFiniteSet(EventsOfKind(kind))  BY <2>1, <2>2, FS_Subset
  <2> QED BY <2>3, FS_CardinalityType
<1>3. event \in Event /\ event.kind = kind /\ event.seq = k /\ k = Len(events) + 1  BY <1>0, <1>1, <1>2 DEF Event
<1>4. /\ events' = Append(events, event)
      /\ mailbox' = mailbox \/ mailbox' = Append(mailbox, event)
  BY <1>0 DEF Emit, NumberOf
<1>5. /\ events' \in Seq(Event) /\ DOMAIN events' = DOMAIN events \cup {k} /\ events'[k] = event
      /\ Len(events') = k /\ \A i \in DOMAIN events : events'[i] = events[i]
  BY <1>1, <1>3, <1>4, Appended
<1>6. \A i \in DOMAIN events' : events'[i].seq = i  BY <1>3, <1>5 DEF StreamShapes
<1>7. \A e : InList(e) => InList(e)'  BY <1>5 DEF InList
<1>8. mailbox \in Seq(Event)  BY DEF StreamShapes
<1>9. InList(event)'  BY <1>3, <1>5 DEF InList
<1>10. /\ mailbox' \in Seq(Event)
       /\ (\A i \in DOMAIN mailbox : InList(mailbox[i])) => (\A i \in DOMAIN mailbox : InList(mailbox[i]))'
  <2>1. CASE mailbox' = mailbox  BY <1>7, <1>8, <2>1
  <2>2. CASE mailbox' = Append(mailbox, event)
    <3>1. /\ mailbox' \in Seq(Event) /\ DOMAIN mailbox' = DOMAIN mailbox \cup {Len(mailbox) + 1}
          /\ mailbox'[Len(mailbox) + 1] = event /\ \A i \in DOMAIN mailbox : mailbox'[i] = mailbox[i]
      BY <1>3, <1>8, <2>2, Appended
    <3> QED BY <1>7, <1>9, <3>1
  <2> QED BY <1>4, <2>1, <2>2
<1> QED BY <1>3, <1>5, <1>6, <1>7, <1>10

\* What is read after a number is in the list or in the rows.
LEMMA ReadAfter ==
  ASSUME StreamShapes, NEW last \in Nat
  PROVE  /\ EventsAfter(last) \in Seq(Event)
         /\ \A k \in DOMAIN EventsAfter(last) :
              InList(EventsAfter(last)[k]) \/ \E i \in DOMAIN saved : EventsAfter(last)[k] = saved[i]
<1> DEFINE own == {i \in DOMAIN events : events[i].seq > last}
           numbers == Rows(last) \cup {events[i].seq : i \in own}
           with(n) == IF n \in Rows(last) THEN saved[n] ELSE events[CHOOSE i \in own : events[i].seq = n]
<1>1. /\ events \in Seq(Event) /\ DOMAIN events = 1 .. Len(events) /\ Len(events) \in Nat
      /\ \A i \in DOMAIN events : events[i] \in Event /\ events[i].seq = i
  BY DEF StreamShapes
<1>2. own \in SUBSET DOMAIN events /\ own \in SUBSET Nat /\ {events[i].seq : i \in own} = own  BY <1>1
<1>3. IsFiniteSet(own)
  <2>1. IsFiniteSet(DOMAIN events)
    <3>1. PICK n \in Nat : n = Len(events)  BY <1>1
    <3>2. IsFiniteSet(1 .. n)  BY FS_Interval
    <3> QED BY <1>1, <3>1, <3>2
  <2> QED BY <1>2, <2>1, FS_Subset
<1>4. numbers \in SUBSET Nat /\ IsFiniteSet(numbers)
  <2>1. Rows(last) \in SUBSET DOMAIN saved  BY DEF Rows
  <2>2. IsFiniteSet(Rows(last)) /\ Rows(last) \in SUBSET Nat  BY <2>1, FS_Subset DEF StreamShapes
  <2> HIDE DEF own
  <2> QED BY <1>2, <1>3, <2>2, FS_Union
<1>5. \A n \in numbers : with(n) \in Event /\ (InList(with(n)) \/ \E i \in DOMAIN saved : with(n) = saved[i])
  <2>1. ASSUME NEW n \in Rows(last)  PROVE saved[n] \in Event /\ n \in DOMAIN saved
    BY <2>1 DEF Rows, StreamShapes
  <2>2. ASSUME NEW n \in own
        PROVE  LET i == CHOOSE i \in own : events[i].seq = n IN events[i] \in Event /\ InList(events[i])
    <3>1. (CHOOSE i \in own : events[i].seq = n) \in own  BY <1>1, <1>2
    <3>2. \A i \in own : events[i] \in Event /\ InList(events[i])  BY <1>1, <1>2 DEF InList
    <3> QED BY <3>1, <3>2
  <2> QED BY <1>2, <2>1, <2>2
<1>6. CASE reads = "local"
  <2>1. EventsAfter(last) = [k \in DOMAIN InOrder(own) |-> events[InOrder(own)[k]]]
    BY <1>6 DEF EventsAfter, Selected
  <2>2. /\ Cardinality(own) \in Nat /\ DOMAIN InOrder(own) = 1 .. Cardinality(own)
        /\ \A k \in 1 .. Cardinality(own) : InOrder(own)[k] \in own
    BY <1>2, <1>3, InOrderIs
  <2>3. \A i \in own : events[i] \in Event /\ InList(events[i])  BY <1>1, <1>2 DEF InList
  <2> HIDE DEF own
  <2>4. EventsAfter(last) = [k \in 1 .. Cardinality(own) |-> events[InOrder(own)[k]]]  BY <2>1, <2>2
  <2> QED BY <2>2, <2>3, <2>4
<1>7. CASE reads # "local"
  <2>1. EventsAfter(last) = [k \in DOMAIN InOrder(numbers) |-> with(InOrder(numbers)[k])]
    BY <1>7 DEF EventsAfter
  <2>2. /\ Cardinality(numbers) \in Nat /\ DOMAIN InOrder(numbers) = 1 .. Cardinality(numbers)
        /\ \A k \in 1 .. Cardinality(numbers) : InOrder(numbers)[k] \in numbers
    BY <1>4, InOrderIs
  <2> HIDE DEF numbers, with
  <2>3. EventsAfter(last) = [k \in 1 .. Cardinality(numbers) |-> with(InOrder(numbers)[k])]  BY <2>1, <2>2
  <2> QED BY <1>5, <2>2, <2>3
<1> QED BY <1>6, <1>7

\* What an event of this kind makes the page say of the end.
TellsEnd(p, kind) ==
    /\ kind = "final" => p.status = "completed" /\ p.shown = Says("final")
    /\ p.status = "completed" => kind \in {"final", "telemetry_final"}

\* What the page makes of an event.
LEMMA Shows ==
  ASSUME NEW p, Page(p), NEW event \in Event
  PROVE  /\ Page(Show(p, event)) /\ TellsEnd(Show(p, event), event.kind)
         /\ Show(p, event).at = IF EndsPage(event.kind) THEN "ended" ELSE p.at
<1> DEFINE q == Show(p, event)
<1>1. event.kind \in EventKinds  BY DEF Event
<1>2. CASE event.kind \in {"queued", "running", "telemetry", "telemetry_final", "cancel_requested"}
  <2>1. PICK status : /\ q = [p EXCEPT !.status = status]
                      /\ status = "completed" => event.kind = "telemetry_final"
    <3>1. CASE event.kind = "queued"
      <4>1. q = [p EXCEPT !.status = "queued"]  BY <3>1 DEF Show
      <4> QED BY <4>1
    <3>2. CASE event.kind \in {"running", "telemetry"}
      <4>1. q = [p EXCEPT !.status = "running"]  BY <3>2 DEF Show
      <4> QED BY <4>1
    <3>3. CASE event.kind = "telemetry_final"
      <4>1. q = [p EXCEPT !.status = "completed"]  BY <3>3 DEF Show
      <4> QED BY <3>3, <4>1
    <3>4. CASE event.kind = "cancel_requested"
      <4>1. q = [p EXCEPT !.status = "stopped"]  BY <3>4 DEF Show
      <4> QED BY <4>1
    <3> QED BY <1>2, <3>1, <3>2, <3>3, <3>4
  <2> HIDE DEF q
  <2> QED BY <1>2, <2>1 DEF Page, TellsEnd, EndsPage, EndsStream, q
<1>3. \A text : \E n : Patch(p, text) = [at |-> p.at, status |-> p.status, text |-> p.text, shown |-> text,
                                         answers |-> n, opened |-> p.opened, took |-> p.took]
  <2>1. PICK n : n = IF p.shown = Says("streaming") THEN p.answers ELSE p.answers + 1  OBVIOUS
  <2>2. \A text : Patch(p, text) = [p EXCEPT !.shown = text, !.answers = n]  BY <2>1 DEF Patch
  <2>3. ASSUME NEW text
        PROVE  Patch(p, text) = [at |-> p.at, status |-> p.status, text |-> p.text, shown |-> text,
                                 answers |-> n, opened |-> p.opened, took |-> p.took]
    <3>1. PICK a : a = [p EXCEPT !.shown = text]  OBVIOUS
    <3>2. a = [at |-> p.at, status |-> p.status, text |-> p.text, shown |-> text, answers |-> p.answers, opened |-> p.opened, took |-> p.took]
      BY <3>1 DEF Page
    <3>3. [a EXCEPT !.answers = n]
            = [at |-> p.at, status |-> p.status, text |-> p.text, shown |-> text, answers |-> n, opened |-> p.opened, took |-> p.took]
      BY <3>2
    <3> QED BY <2>2, <3>1, <3>3
  <2> QED BY <2>3
<1>4. CASE event.kind = "text_delta"
  <2> DEFINE text == p.text \o Delta(event.n)
  <2>1. q = [Patch(p, text) EXCEPT !.status = "streaming", !.text = text]  BY <1>4 DEF Show
  <2> HIDE DEF q, text
  <2>2. PICK n : Patch(p, text) = [at |-> p.at, status |-> p.status, text |-> p.text, shown |-> text,
                                   answers |-> n, opened |-> p.opened, took |-> p.took]
    BY <1>3
  <2>3. q = [at |-> p.at, status |-> "streaming", text |-> text, shown |-> text, answers |-> n, opened |-> p.opened, took |-> p.took]
    <3>1. PICK a : a = [Patch(p, text) EXCEPT !.status = "streaming"]  OBVIOUS
    <3>2. a = [at |-> p.at, status |-> "streaming", text |-> p.text, shown |-> text, answers |-> n, opened |-> p.opened, took |-> p.took]
      BY <2>2, <3>1
    <3>3. q = [a EXCEPT !.text = text]  BY <2>1, <3>1
    <3> QED BY <3>2, <3>3
  <2> QED BY <1>4, <2>3 DEF Page, TellsEnd, EndsPage, EndsStream, q
<1>5. CASE event.kind = "tool_use"
  <2> DEFINE text == IF p.text = <<>> THEN Says("streaming") ELSE p.text
  <2>1. q = [Patch(p, text) EXCEPT !.status = "running"]  BY <1>5 DEF Show
  <2> HIDE DEF q, text
  <2>2. PICK n : Patch(p, text) = [at |-> p.at, status |-> p.status, text |-> p.text, shown |-> text,
                                   answers |-> n, opened |-> p.opened, took |-> p.took]
    BY <1>3
  <2>3. q = [at |-> p.at, status |-> "running", text |-> p.text, shown |-> text, answers |-> n, opened |-> p.opened, took |-> p.took]
    BY <2>1, <2>2
  <2> QED BY <1>5, <2>3 DEF Page, TellsEnd, EndsPage, EndsStream, q
<1>6. CASE event.kind = "final"
  <2> DEFINE text == Says("final")
  <2>1. q = [Patch(p, text) EXCEPT !.status = "completed", !.text = text, !.at = "ended"]
    BY <1>6 DEF Show, FinalText
  <2> HIDE DEF q, text
  <2>2. PICK n : Patch(p, text) = [at |-> p.at, status |-> p.status, text |-> p.text, shown |-> text,
                                   answers |-> n, opened |-> p.opened, took |-> p.took]
    BY <1>3
  <2>3. q = [at |-> "ended", status |-> "completed", text |-> text, shown |-> text, answers |-> n, opened |-> p.opened, took |-> p.took]
    <3>1. PICK a : a = [Patch(p, text) EXCEPT !.status = "completed"]  OBVIOUS
    <3>2. a = [at |-> p.at, status |-> "completed", text |-> p.text, shown |-> text, answers |-> n, opened |-> p.opened, took |-> p.took]
      BY <2>2, <3>1
    <3>3. PICK b : b = [a EXCEPT !.text = text]  OBVIOUS
    <3>4. b = [at |-> p.at, status |-> "completed", text |-> text, shown |-> text, answers |-> n, opened |-> p.opened, took |-> p.took]
      BY <3>2, <3>3
    <3>5. q = [b EXCEPT !.at = "ended"]  BY <2>1, <3>1, <3>3
    <3> QED BY <3>4, <3>5
  <2> QED BY <1>6, <2>3 DEF Page, TellsEnd, EndsPage, EndsStream, q, text
<1>7. CASE event.kind \in {"cancelled", "failed", "error"}
  <2>1. PICK text, status : /\ q = [Patch(p, text) EXCEPT !.status = status, !.at = "ended"]
                            /\ status \in {"stopped", "error"}
    <3>1. CASE event.kind = "cancelled"
      <4>1. q = [Patch(p, Says("cancelled")) EXCEPT !.status = "stopped", !.at = "ended"]  BY <3>1 DEF Show
      <4> QED BY <4>1
    <3>2. CASE event.kind = "failed"
      <4>1. q = [Patch(p, Says("not done")) EXCEPT !.status = "error", !.at = "ended"]  BY <3>2 DEF Show
      <4> QED BY <4>1
    <3>3. CASE event.kind = "error"
      <4>1. q = [Patch(p, Says("request failed")) EXCEPT !.status = "error", !.at = "ended"]  BY <3>3 DEF Show
      <4> QED BY <4>1
    <3> QED BY <1>7, <3>1, <3>2, <3>3
  <2> HIDE DEF q
  <2>2. PICK n : Patch(p, text) = [at |-> p.at, status |-> p.status, text |-> p.text, shown |-> text,
                                   answers |-> n, opened |-> p.opened, took |-> p.took]
    BY <1>3
  <2>3. q = [at |-> "ended", status |-> status, text |-> p.text, shown |-> text, answers |-> n, opened |-> p.opened, took |-> p.took]
    <3>1. PICK a : a = [Patch(p, text) EXCEPT !.status = status]  OBVIOUS
    <3>2. a = [at |-> p.at, status |-> status, text |-> p.text, shown |-> text, answers |-> n, opened |-> p.opened, took |-> p.took]
      BY <2>2, <3>1
    <3>3. q = [a EXCEPT !.at = "ended"]  BY <2>1, <3>1
    <3> QED BY <3>2, <3>3
  <2> QED BY <1>7, <2>1, <2>3 DEF Page, TellsEnd, EndsPage, EndsStream, q
<1> QED BY <1>1, <1>2, <1>4, <1>5, <1>6, <1>7 DEF EventKinds, Progress

\* The page after it has taken an event.
LEMMA PageTakes ==
  ASSUME NEW p, Page(p), NEW event \in Event, NEW s, s = Show(p, event), NEW told, told = ToldOf(event.kind),
         NEW q, q = [s EXCEPT !.took = told]
  PROVE  Page(q) /\ Completed(q) /\ q.took = told
<1>1. Page(s) /\ TellsEnd(s, event.kind) /\ s.at = IF EndsPage(event.kind) THEN "ended" ELSE p.at  BY Shows
<1>2. q = [at |-> s.at, status |-> s.status, text |-> s.text, shown |-> s.shown, answers |-> s.answers,
           opened |-> s.opened, took |-> told]
  BY <1>1 DEF Page
<1>3. Page(q) /\ q.at = s.at /\ q.status = s.status /\ q.shown = s.shown /\ q.took = told  BY <1>2 DEF Page
<1>4. Completed(q)
  BY <1>1, <1>3 DEF Completed, TellsEnd, ToldOf, EndsPage, EndsStream
<1> QED BY <1>1, <1>3, <1>4

\* Nothing was emitted at first.
LEMMA StreamStart == StreamInit => StreamInv
<1> SUFFICES ASSUME StreamInit PROVE StreamInv  OBVIOUS
<1>1. /\ events = <<>> /\ mailbox = <<>> /\ saved = NoRows /\ stream = NoStream /\ page = IdlePage /\ breaks = <<>>
      /\ reads = "none" /\ course = "queued"
  BY DEF StreamInit
<1>2. DOMAIN saved = {} /\ IsFiniteSet(DOMAIN saved)  BY <1>1, FS_EmptySet DEF NoRows
<1>3. /\ events \in Seq(Event) /\ DOMAIN events = {} /\ Len(events) = 0
      /\ mailbox \in Seq(Event) /\ DOMAIN mailbox = {} /\ breaks \in Seq({"restart", "connection", "opened"})
  BY <1>1
<1>4. /\ stream = [at |-> stream.at, last |-> stream.last, backlog |-> stream.backlog] /\ stream.last = 0
      /\ stream.backlog \in Seq(Event) /\ DOMAIN stream.backlog = {} /\ stream.at = "none"
  BY <1>1 DEF NoStream
<1>5. Page(page) /\ page.at = "idle" /\ page.status = "idle" /\ page.took = "none"
  BY <1>1 DEF IdlePage, Page
<1> QED BY <1>1, <1>2, <1>3, <1>4, <1>5 DEF StreamInv, StreamShapes, Completed, Begins, Ahead

\* An event is emitted: what has passed the end of the list has not passed
\* the new one.
LEMMA EmittedInv ==
  ASSUME StreamInv, NEW kind \in EventKinds, Emit(kind), UNCHANGED <<saved, stream, breaks>>,
         Page(page'), Completed(page'), reads' # "none", course' = "ended" => EndsPage(kind),
         page'.at \in {"reading", "stopping"} => page.at \in {"reading", "stopping"},
         page'.at = "broken" => page.at = "broken"
  PROVE  StreamInv'
<1>1. StreamShapes /\ (Unrestarted => Begins /\ Ahead)  BY DEF StreamInv
<1>2. /\ events' \in Seq(Event) /\ Len(events') = Len(events) + 1 /\ mailbox' \in Seq(Event)
      /\ \A i \in DOMAIN events' : events'[i].seq = i
      /\ events'[Len(events')].kind = kind
      /\ \A e : InList(e) => InList(e)'
      /\ (\A i \in DOMAIN mailbox : InList(mailbox[i])) => (\A i \in DOMAIN mailbox : InList(mailbox[i]))'
  BY <1>1, Emitted
<1>3. StreamShapes' /\ Completed(page)'  BY <1>1, <1>2 DEF StreamShapes, Page, Completed
<1>4. ASSUME Unrestarted  PROVE Begins' /\ Ahead'
  <2>1. Begins /\ Ahead  BY <1>1, <1>4
  <2>2. Begins'  BY <2>1 DEF Begins
  <2>3. Len(events) \in Nat /\ stream.last \in Nat  BY <1>1 DEF StreamShapes
  <2>4. stream'.last < Len(events') /\ Len(events') # 0  BY <1>2, <2>1, <2>3 DEF Ahead
  <2>5. (\A i \in DOMAIN stream.backlog : InList(stream.backlog[i]))'  BY <1>2, <2>1 DEF Ahead
  <2> QED BY <1>2, <2>1, <2>2, <2>3, <2>4, <2>5 DEF Ahead
<1>5. Unrestarted' => Unrestarted  BY DEF Unrestarted
<1> QED BY <1>3, <1>4, <1>5 DEF StreamInv

\* The job goes on, the stream and the page stand still.
LEMMA CourseInv ==
  StreamInv /\ (\/ EmitFinalTelemetry \/ \E kind \in Progress : EmitProgress(kind)
                \/ EmitRunning \/ EmitUpstreamError
                \/ \E kind \in {"final", "failed", "error", "cancelled"} : EmitEnd(kind)) => StreamInv'
<1> SUFFICES ASSUME StreamInv,
                    \/ EmitFinalTelemetry \/ \E kind \in Progress : EmitProgress(kind)
                    \/ EmitRunning \/ EmitUpstreamError
                    \/ \E kind \in {"final", "failed", "error", "cancelled"} : EmitEnd(kind)
             PROVE  StreamInv'
  OBVIOUS
<1>1. Page(page) /\ Completed(page) /\ (Unrestarted => Begins /\ Ahead) /\ StreamShapes
  BY DEF StreamInv, StreamShapes
<1>2. PICK kind \in EventKinds :
        /\ Emit(kind) /\ UNCHANGED <<reads, saved, stream, page, breaks>>
        /\ course' = "ended" => EndsPage(kind)
        /\ course # "queued" \/ reads # "none"
  <2>1. CASE EmitFinalTelemetry
    BY <2>1 DEF EmitFinalTelemetry, Talking, EventKinds
  <2>2. ASSUME NEW kind \in Progress, EmitProgress(kind)  PROVE Emit(kind) /\ course = "running"
    BY <2>2 DEF EmitProgress, Talking
  <2>3. CASE \E kind \in Progress : EmitProgress(kind)
    BY <2>2, <2>3 DEF EmitProgress, Talking, EventKinds
  <2>4. CASE EmitRunning \/ EmitUpstreamError \/ \E kind \in {"final", "failed", "error", "cancelled"} : EmitEnd(kind)
    BY <2>4 DEF EmitRunning, EmitUpstreamError, EmitEnd, EndsPage, EndsStream, EventKinds
  <2> QED BY <2>1, <2>3, <2>4
<1>3. CASE reads # "none"
  BY <1>1, <1>2, <1>3, EmittedInv DEF Page, Completed
<1>4. CASE reads = "none"
  <2>1. ~Unrestarted  BY <1>1, <1>2, <1>4 DEF Begins
  <2>2. /\ events' \in Seq(Event) /\ mailbox' \in Seq(Event) /\ \A i \in DOMAIN events' : events'[i].seq = i
    BY <1>1, <1>2, Emitted
  <2>3. StreamShapes' /\ Completed(page)' /\ ~Unrestarted'
    BY <1>1, <1>2, <2>1, <2>2 DEF StreamShapes, Page, Completed, Unrestarted
  <2> QED BY <2>3 DEF StreamInv
<1> QED BY <1>3, <1>4

\* The stream and the page go on, the list stands still.
LEMMA FollowedInv ==
  ASSUME StreamInv, UNCHANGED <<reads, course, events, saved>>,
         breaks' \in Seq({"restart", "connection", "opened"}), Unrestarted' => Unrestarted,
         mailbox' \in Seq(Event), Page(page'), Completed(page'),
         stream' = [at |-> stream'.at, last |-> stream'.last, backlog |-> stream'.backlog],
         stream'.last \in Nat, stream'.backlog \in Seq(Event),
         Unrestarted => /\ Begins' /\ stream'.last <= Len(events)
                        /\ (\A i \in DOMAIN mailbox : InList(mailbox[i]))'
                        /\ (\A i \in DOMAIN stream.backlog : InList(stream.backlog[i]))'
                        /\ course = "ended" /\ Following' => stream'.last < Len(events)
  PROVE  StreamInv'
<1>1. StreamShapes /\ (Unrestarted => Begins /\ Ahead)  BY DEF StreamInv
<1>2. StreamShapes' /\ Completed(page)'  BY <1>1 DEF StreamShapes, Page, Completed
<1>3. Unrestarted => Begins' /\ Ahead'  BY <1>1 DEF Ahead
<1> QED BY <1>2, <1>3 DEF StreamInv

\* The page takes an event that the stream had.
LEMMA YieldedInv ==
  ASSUME StreamInv, NEW event \in Event, NEW rest \in Seq(Event), Yield(event, rest),
         page.at \in {"reading", "stopping"}, stream.at \notin {"none", "closed"},
         UNCHANGED <<reads, course, events, saved, breaks>>, mailbox' \in Seq(Event),
         Unrestarted => /\ InList(event) /\ \A i \in DOMAIN rest : InList(rest[i])
                        /\ (\A i \in DOMAIN mailbox : InList(mailbox[i]))'
  PROVE  StreamInv'
<1> DEFINE last == IF event.seq > stream.last THEN event.seq ELSE stream.last
           at == IF EndsPage(event.kind) THEN "closed" ELSE stream.at
<1>1. /\ StreamShapes /\ (Unrestarted => Begins /\ Ahead) /\ Page(page) /\ Completed(page)
      /\ stream = [at |-> stream.at, last |-> stream.last, backlog |-> stream.backlog] /\ stream.last \in Nat
      /\ Len(events) \in Nat /\ DOMAIN events = 1 .. Len(events)
  BY DEF StreamInv, StreamShapes
<1>2. event.seq \in Nat  BY DEF Event
<1>3. stream' = [at |-> at, last |-> last, backlog |-> rest] /\ last \in Nat
  <2>1. PICK l, a : l = last /\ a = at  OBVIOUS
  <2>2. stream' = [stream EXCEPT !.last = l, !.backlog = rest, !.at = a]  BY <2>1 DEF Yield
  <2>3. PICK s : s = [stream EXCEPT !.last = l]  OBVIOUS
  <2>4. s = [at |-> stream.at, last |-> l, backlog |-> stream.backlog]  BY <1>1, <2>3
  <2>5. PICK t : t = [s EXCEPT !.backlog = rest]  OBVIOUS
  <2>6. t = [at |-> stream.at, last |-> l, backlog |-> rest]  BY <2>4, <2>5
  <2>7. stream' = [t EXCEPT !.at = a]  BY <2>2, <2>3, <2>5
  <2>8. stream' = [at |-> a, last |-> l, backlog |-> rest]  BY <2>6, <2>7
  <2> QED BY <1>1, <1>2, <2>1, <2>8
<1>4. /\ Page(page') /\ Completed(page') /\ page'.at = IF EndsPage(event.kind) THEN "ended" ELSE page.at
  <2>1. PICK shown, told : shown = Show(page, event) /\ told = ToldOf(event.kind)  OBVIOUS
  <2>2. PICK next : next = [shown EXCEPT !.took = told]  OBVIOUS
  <2>3. page' = next  BY <2>1, <2>2 DEF Yield
  <2>4. Page(next) /\ Completed(next)  BY <1>1, <2>1, <2>2, PageTakes
  <2>5. Page(shown) /\ shown.at = IF EndsPage(event.kind) THEN "ended" ELSE page.at  BY <1>1, <2>1, Shows
  <2>6. next.at = shown.at  BY <2>2, <2>5 DEF Page
  <2> QED BY <2>3, <2>4, <2>5, <2>6
<1>5. /\ stream'.at = at /\ stream'.last = last /\ stream'.backlog = rest
      /\ stream' = [at |-> stream'.at, last |-> stream'.last, backlog |-> stream'.backlog]
  BY <1>3
<1>6. ASSUME Unrestarted
      PROVE  /\ Begins' /\ last <= Len(events)
             /\ course = "ended" /\ Following' => last < Len(events)
  <2>1. Begins /\ Ahead /\ InList(event)  BY <1>1, <1>6
  <2>2. Begins'  BY <1>4, <1>5, <2>1 DEF Begins
  <2>3. event.seq <= Len(events) /\ stream.last <= Len(events)  BY <1>1, <2>1 DEF InList, Ahead
  <2>4. ASSUME course = "ended", Following'  PROVE last < Len(events)
    <3>1. ~EndsPage(event.kind)  BY <1>4, <1>5, <2>4 DEF Following
    <3>2. event.seq # Len(events)  BY <2>1, <2>4, <3>1 DEF Ahead, InList
    <3>3. stream.last < Len(events)  BY <2>1, <2>4 DEF Ahead, Following
    <3> QED BY <1>1, <1>2, <2>3, <3>2, <3>3
  <2> QED BY <1>1, <1>2, <2>2, <2>3, <2>4
<1> HIDE DEF last, at
<1>7. Unrestarted' => Unrestarted  BY DEF Unrestarted
<1>8. (Unrestarted => \A i \in DOMAIN stream.backlog : InList(stream.backlog[i]))' 
  BY <1>5, <1>7 DEF InList
<1>9. breaks' \in Seq({"restart", "connection", "opened"})  BY <1>1 DEF StreamShapes
<1>10. Unrestarted => (\A i \in DOMAIN stream.backlog : InList(stream.backlog[i]))'  BY <1>8 DEF Unrestarted
<1> QED BY <1>3, <1>4, <1>5, <1>6, <1>7, <1>9, <1>10, FollowedInv

\* An event that is sent, from the backlog or live, keeps the invariant.
LEMMA YieldsInv == StreamInv /\ (YieldBacklog \/ YieldLive) => StreamInv'
<1> SUFFICES ASSUME StreamInv, YieldBacklog \/ YieldLive PROVE StreamInv'  OBVIOUS
<1>1. StreamShapes /\ (Unrestarted => Ahead)  BY DEF StreamInv
<1>2. /\ stream.backlog \in Seq(Event) /\ mailbox \in Seq(Event)  BY <1>1 DEF StreamShapes
<1>3. CASE YieldBacklog
  <2> DEFINE event == Head(stream.backlog)
             rest == IF EndsPage(event.kind) THEN <<>> ELSE Tail(stream.backlog)
  <2>1. /\ stream.at \in {"replaying", "catching"} /\ stream.backlog # <<>> /\ page.at \in {"reading", "stopping"}
        /\ Yield(event, rest) /\ UNCHANGED <<reads, course, events, saved, mailbox, breaks>>
    BY <1>3 DEF YieldBacklog
  <2>2. /\ event \in Event /\ event = stream.backlog[1] /\ 1 \in DOMAIN stream.backlog
        /\ Tail(stream.backlog) \in Seq(Event)
        /\ \A i \in DOMAIN Tail(stream.backlog) :
             i + 1 \in DOMAIN stream.backlog /\ Tail(stream.backlog)[i] = stream.backlog[i + 1]
    BY <1>2, <2>1
  <2>3. rest \in Seq(Event) /\ (rest = <<>> \/ rest = Tail(stream.backlog))  BY <2>2
  <2>4. Unrestarted => /\ InList(event) /\ \A i \in DOMAIN rest : InList(rest[i])
                       /\ (\A i \in DOMAIN mailbox : InList(mailbox[i]))'
    <3>1. Unrestarted => \A i \in DOMAIN stream.backlog : InList(stream.backlog[i])  BY <1>1 DEF Ahead
    <3>2. Unrestarted => \A i \in DOMAIN mailbox : InList(mailbox[i])  BY <1>1 DEF Ahead
    <3>3. Unrestarted => (\A i \in DOMAIN mailbox : InList(mailbox[i]))'  BY <2>1, <3>2 DEF InList
    <3> QED BY <2>2, <2>3, <3>1, <3>3
  <2>5. PICK e, r : e = event /\ r = rest  OBVIOUS
  <2> HIDE DEF event, rest
  <2> QED BY <1>2, <2>1, <2>2, <2>3, <2>4, <2>5, YieldedInv
<1>4. CASE YieldLive
  <2> DEFINE event == Head(mailbox)
  <2>1. /\ stream.at = "live" /\ mailbox # <<>> /\ page.at \in {"reading", "stopping"} /\ mailbox' = Tail(mailbox)
        /\ Yield(event, <<>>) /\ UNCHANGED <<reads, course, events, saved, breaks>>
    BY <1>4 DEF YieldLive
  <2>2. /\ event \in Event /\ event = mailbox[1] /\ 1 \in DOMAIN mailbox
        /\ Tail(mailbox) \in Seq(Event)
        /\ \A i \in DOMAIN Tail(mailbox) : i + 1 \in DOMAIN mailbox /\ Tail(mailbox)[i] = mailbox[i + 1]
    BY <1>2, <2>1
  <2>3. Unrestarted => InList(event) /\ (\A i \in DOMAIN mailbox : InList(mailbox[i]))'
    <3>1. Unrestarted => \A i \in DOMAIN mailbox : InList(mailbox[i])  BY <1>1 DEF Ahead
    <3>2. Unrestarted => \A i \in DOMAIN Tail(mailbox) : InList(Tail(mailbox)[i])  BY <2>2, <3>1
    <3>3. Unrestarted => (\A i \in DOMAIN mailbox : InList(mailbox[i]))'  BY <2>1, <3>2 DEF InList
    <3> QED BY <2>2, <3>1, <3>3
  <2>4. <<>> \in Seq(Event) /\ DOMAIN <<>> = {}  OBVIOUS
  <2>5. PICK e : e = event  OBVIOUS
  <2> HIDE DEF event
  <2> QED BY <2>1, <2>2, <2>3, <2>4, <2>5, YieldedInv
<1> QED BY <1>3, <1>4

\* So do the steps that read the list of a job.
LEMMA ReadingStreamInv ==
  StreamInv /\ (Subscribe \/ ReadBacklog \/ EndReplay \/ LookAgain \/ CaughtUp) => StreamInv'
<1> SUFFICES ASSUME StreamInv, Subscribe \/ ReadBacklog \/ EndReplay \/ LookAgain \/ CaughtUp PROVE StreamInv'
  OBVIOUS
<1>1. /\ StreamShapes /\ (Unrestarted => Begins /\ Ahead) /\ Page(page) /\ Completed(page)
      /\ stream = [at |-> stream.at, last |-> stream.last, backlog |-> stream.backlog] /\ stream.last \in Nat
      /\ stream.backlog \in Seq(Event) /\ mailbox \in Seq(Event) /\ Len(events) \in Nat
      /\ breaks \in Seq({"restart", "connection", "opened"})
  BY DEF StreamInv, StreamShapes
<1>2. Unrestarted => /\ \A i \in DOMAIN mailbox : InList(mailbox[i])
                     /\ \A i \in DOMAIN stream.backlog : InList(stream.backlog[i])
  BY <1>1 DEF Ahead
<1>3. <<>> \in Seq(Event) /\ DOMAIN <<>> = {}  OBVIOUS
<1>4. CASE Subscribe
  <2> DEFINE last == IF page.at = "broken" THEN stream.last ELSE 0
  <2>1. /\ page.at \in {"created", "broken"} /\ stream.at \in {"none", "closed"}
        /\ stream' = [at |-> "subscribed", last |-> last, backlog |-> <<>>]
        /\ page' = [page EXCEPT !.at = "reading"] /\ mailbox' = <<>>
        /\ UNCHANGED <<reads, course, events, saved, breaks>>
    BY <1>4 DEF Subscribe
  <2>2. Page(page') /\ Completed(page') /\ page'.at = "reading"
    BY <1>1, <2>1 DEF Page, Completed
  <2>3. last \in Nat  BY <1>1
  <2>4. Unrestarted => last <= Len(events) /\ (course = "ended" => last < Len(events))
    <3>1. CASE page.at = "broken"  BY <1>1, <3>1 DEF Ahead, Following
    <3>2. CASE page.at # "broken"  BY <1>1, <3>2 DEF Ahead
    <3> QED BY <3>1, <3>2
  <2> HIDE DEF last
  <2>5. /\ stream'.at = "subscribed" /\ stream'.last = last /\ stream'.backlog = <<>>
        /\ stream' = [at |-> stream'.at, last |-> stream'.last, backlog |-> stream'.backlog]
    BY <2>1
  <2>6. Unrestarted => Begins'
    BY <1>1, <2>1, <2>2, <2>5 DEF Begins
  <2>7. (\A i \in DOMAIN mailbox : InList(mailbox[i]))' /\ (\A i \in DOMAIN stream.backlog : InList(stream.backlog[i]))'
    BY <1>3, <2>1, <2>5
  <2>8. Unrestarted' => Unrestarted  BY <2>1 DEF Unrestarted
  <2>9. mailbox' \in Seq(Event) /\ stream'.backlog \in Seq(Event) /\ breaks' \in Seq({"restart", "connection", "opened"})
    BY <1>1, <1>3, <2>1, <2>5
  <2> QED BY <2>1, <2>2, <2>3, <2>4, <2>5, <2>6, <2>7, <2>8, <2>9, FollowedInv
<1>5. CASE ReadBacklog \/ LookAgain \/ CaughtUp
  <2>1. ASSUME NEW at, NEW backlog, stream' = [stream EXCEPT !.at = at, !.backlog = backlog]
        PROVE  stream' = [at |-> at, last |-> stream.last, backlog |-> backlog]
    <3>1. PICK s : s = [stream EXCEPT !.at = at]  OBVIOUS
    <3>2. s = [at |-> at, last |-> stream.last, backlog |-> stream.backlog]  BY <1>1, <3>1
    <3>3. stream' = [s EXCEPT !.backlog = backlog]  BY <2>1, <3>1
    <3> QED BY <3>2, <3>3
  <2>2. /\ \/ stream' = [at |-> "replaying", last |-> stream.last, backlog |-> EventsAfter(stream.last)]
           \/ stream' = [at |-> "catching", last |-> stream.last, backlog |-> EventsAfter(stream.last)]
           \/ stream' = [at |-> "live", last |-> stream.last, backlog |-> stream.backlog]
        /\ stream.at \notin {"none", "closed"}
        /\ UNCHANGED <<reads, course, events, saved, mailbox, page, breaks>>
    <3>1. CASE ReadBacklog
      <4>1. PICK new : new = EventsAfter(stream.last)  OBVIOUS
      <4>2. stream' = [stream EXCEPT !.at = "replaying", !.backlog = new]  BY <3>1, <4>1 DEF ReadBacklog
      <4>3. stream' = [at |-> "replaying", last |-> stream.last, backlog |-> new]  BY <2>1, <4>2
      <4> QED BY <3>1, <4>1, <4>3 DEF ReadBacklog
    <3>2. CASE LookAgain
      <4>1. PICK new : new = EventsAfter(stream.last)  OBVIOUS
      <4>2. stream' = [stream EXCEPT !.at = "catching", !.backlog = new]  BY <3>2, <4>1 DEF LookAgain
      <4>3. stream' = [at |-> "catching", last |-> stream.last, backlog |-> new]  BY <2>1, <4>2
      <4> QED BY <3>2, <4>1, <4>3 DEF LookAgain
    <3>3. CASE CaughtUp
      <4>1. stream' = [stream EXCEPT !.at = "live"]  BY <3>3 DEF CaughtUp
      <4>2. stream' = [at |-> "live", last |-> stream.last, backlog |-> stream.backlog]  BY <1>1, <4>1
      <4> QED BY <3>3, <4>2 DEF CaughtUp
    <3> QED BY <1>5, <3>1, <3>2, <3>3
  <2>3. /\ stream'.at \notin {"none", "closed"} /\ stream'.last = stream.last
        /\ stream'.backlog = stream.backlog \/ stream'.backlog = EventsAfter(stream.last)
        /\ stream' = [at |-> stream'.at, last |-> stream'.last, backlog |-> stream'.backlog]
    BY <2>2
  <2>4. /\ stream'.backlog \in Seq(Event)
        /\ Unrestarted => \A i \in DOMAIN stream'.backlog : InList(stream'.backlog[i])
    <3>1. Unrestarted => DOMAIN saved = {}  BY <1>1 DEF Ahead
    <3> QED BY <1>1, <1>2, <2>3, <3>1, ReadAfter
  <2>5. Unrestarted => Begins' /\ stream'.last <= Len(events) /\ (course = "ended" => stream'.last < Len(events))
    BY <1>1, <2>2, <2>3 DEF Begins, Ahead, Following
  <2>6. Unrestarted => /\ (\A i \in DOMAIN mailbox : InList(mailbox[i]))'
                       /\ (\A i \in DOMAIN stream.backlog : InList(stream.backlog[i]))'
    BY <1>2, <2>2, <2>4 DEF InList
  <2>7. Page(page') /\ Completed(page')  BY <1>1, <2>2
  <2>8. Unrestarted' => Unrestarted  BY <2>2 DEF Unrestarted
  <2> QED BY <1>1, <2>2, <2>3, <2>4, <2>5, <2>6, <2>7, <2>8, FollowedInv
<1>6. CASE EndReplay
  <2> DEFINE at == IF course = "ended" THEN "closed" ELSE "live"
  <2>1. /\ stream.at = "replaying"
        /\ stream' = [stream EXCEPT !.at = at]
        /\ page' = IF course = "ended" THEN [page EXCEPT !.at = "ended"] ELSE page
        /\ UNCHANGED <<reads, course, events, saved, mailbox, breaks>>
    BY <1>6 DEF EndReplay
  <2> HIDE DEF at
  <2>2. /\ stream'.at = at /\ stream'.last = stream.last /\ stream'.backlog = stream.backlog
        /\ stream' = [at |-> stream'.at, last |-> stream'.last, backlog |-> stream'.backlog]
    BY <1>1, <2>1
  <2>3. /\ Page(page') /\ Completed(page') /\ page'.at = IF course = "ended" THEN "ended" ELSE page.at
    BY <1>1, <2>1 DEF Page, Completed
  <2>4. Unrestarted => Begins' /\ stream'.last <= Len(events) /\ ~(course = "ended" /\ Following')
    BY <1>1, <2>1, <2>2, <2>3 DEF Begins, Ahead, Following, at
  <2>5. Unrestarted => /\ (\A i \in DOMAIN mailbox : InList(mailbox[i]))'
                       /\ (\A i \in DOMAIN stream.backlog : InList(stream.backlog[i]))'
    BY <1>2, <2>1, <2>2 DEF InList
  <2>6. Unrestarted' => Unrestarted  BY <2>1 DEF Unrestarted
  <2> QED BY <1>1, <2>1, <2>2, <2>3, <2>4, <2>5, <2>6, FollowedInv
<1> QED BY <1>4, <1>5, <1>6

\* Connections that end, and what the user does beside the stream.
LEMMA LeavingInv ==
  StreamInv /\ (Disconnect \/ ReportFailure \/ Abort \/ OpenConversation \/ CreateFails) => StreamInv'
<1> SUFFICES ASSUME StreamInv, Disconnect \/ ReportFailure \/ Abort \/ OpenConversation \/ CreateFails PROVE StreamInv'
  OBVIOUS
<1>1. /\ StreamShapes /\ (Unrestarted => Begins /\ Ahead) /\ Page(page) /\ Completed(page)
      /\ stream = [at |-> stream.at, last |-> stream.last, backlog |-> stream.backlog] /\ stream.last \in Nat
      /\ stream.backlog \in Seq(Event) /\ mailbox \in Seq(Event) /\ Len(events) \in Nat
      /\ breaks \in Seq({"restart", "connection", "opened"})
  BY DEF StreamInv, StreamShapes
<1>2. Unrestarted => /\ \A i \in DOMAIN mailbox : InList(mailbox[i])
                     /\ \A i \in DOMAIN stream.backlog : InList(stream.backlog[i])
  BY <1>1 DEF Ahead
<1>3. UNCHANGED <<reads, course, events, saved, mailbox>>
  BY DEF Disconnect, ReportFailure, Abort, OpenConversation, CreateFails
<1>4. breaks' \in Seq({"restart", "connection", "opened"}) /\ (Unrestarted' => Unrestarted)
  <2>1. CASE breaks' = breaks  BY <1>1, <2>1 DEF Unrestarted
  <2>2. CASE breaks' = Append(breaks, "connection") \/ breaks' = Append(breaks, "opened")
    <3>1. /\ breaks' \in Seq({"restart", "connection", "opened"}) /\ DOMAIN breaks \subseteq DOMAIN breaks'
          /\ \A i \in DOMAIN breaks : breaks'[i] = breaks[i]
      <4>1. PICK new \in {"connection", "opened"} : breaks' = Append(breaks, new)  BY <2>2
      <4>2. new \in {"restart", "connection", "opened"}  BY <4>1
      <4> QED BY <1>1, <4>1, <4>2, Appended
    <3> QED BY <3>1 DEF Unrestarted, ToSet
  <2> QED BY <2>1, <2>2 DEF Disconnect, ReportFailure, Abort, OpenConversation, CreateFails
<1>5. /\ stream'.last = stream.last /\ (stream' = stream \/ (stream'.at = "closed" /\ stream'.backlog = <<>>))
      /\ stream' = [at |-> stream'.at, last |-> stream'.last, backlog |-> stream'.backlog]
  <2>1. CASE stream' = stream  BY <1>1, <2>1
  <2>2. CASE stream' = [stream EXCEPT !.at = "closed", !.backlog = <<>>]
    <3>1. PICK s : s = [stream EXCEPT !.at = "closed"]  OBVIOUS
    <3>2. s = [at |-> "closed", last |-> stream.last, backlog |-> stream.backlog]  BY <1>1, <3>1
    <3>3. stream' = [s EXCEPT !.backlog = <<>>]  BY <2>2, <3>1
    <3>4. stream' = [at |-> "closed", last |-> stream.last, backlog |-> <<>>]  BY <3>2, <3>3
    <3> QED BY <3>4
  <2> QED BY <2>1, <2>2 DEF Disconnect, ReportFailure, Abort, OpenConversation, CreateFails
<1>6. /\ stream'.backlog \in Seq(Event)
      /\ Unrestarted => /\ (\A i \in DOMAIN mailbox : InList(mailbox[i]))'
                        /\ (\A i \in DOMAIN stream.backlog : InList(stream.backlog[i]))'
  <2>1. <<>> \in Seq(Event) /\ DOMAIN <<>> = {}  OBVIOUS
  <2> QED BY <1>1, <1>2, <1>3, <1>5, <2>1 DEF InList
<1>7. ASSUME Page(page'), Completed(page'),
             Unrestarted => Begins' /\ (course = "ended" /\ Following' => stream.last < Len(events))
      PROVE  StreamInv'
  <2>1. Unrestarted => stream.last <= Len(events)  BY <1>1 DEF Ahead
  <2> QED BY <1>1, <1>3, <1>4, <1>5, <1>6, <1>7, <2>1, FollowedInv
<1>8. CASE Disconnect
  <2>1. page.at = "reading" /\ stream.at # "closed" /\ page' = [page EXCEPT !.at = "broken"] /\ stream'.at = "closed"
    <3>1. page.at = "reading" /\ stream.at # "closed" /\ page' = [page EXCEPT !.at = "broken"]  BY <1>8 DEF Disconnect
    <3>2. PICK s : s = [stream EXCEPT !.at = "closed"]  OBVIOUS
    <3>3. s = [at |-> "closed", last |-> stream.last, backlog |-> stream.backlog]  BY <1>1, <3>2
    <3>4. stream' = [s EXCEPT !.backlog = <<>>]  BY <1>8, <3>2 DEF Disconnect
    <3>5. stream' = [at |-> "closed", last |-> stream.last, backlog |-> <<>>]  BY <3>3, <3>4
    <3> QED BY <3>1, <3>5
  <2>2. Page(page') /\ Completed(page') /\ page'.at = "broken"  BY <1>1, <2>1 DEF Page, Completed
  <2>3. Unrestarted => Begins'  BY <1>1, <1>3, <2>1, <2>2 DEF Begins
  <2>4. Unrestarted => (course = "ended" => stream.last < Len(events))
    BY <1>1, <2>1 DEF Begins, Ahead, Following
  <2> QED BY <1>7, <2>2, <2>3, <2>4
<1>9. CASE ReportFailure
  <2> DEFINE text == Says("request failed")
  <2>1. page.at = "broken" /\ stream' = stream /\ page' = [Patch(page, text) EXCEPT !.at = "ended", !.status = "error"]
    BY <1>9 DEF ReportFailure
  <2> HIDE DEF text
  <2>2. Page(page') /\ Completed(page') /\ page'.at = "ended"
    <3>1. PICK n : n = IF page.shown = Says("streaming") THEN page.answers ELSE page.answers + 1  OBVIOUS
    <3>2. PICK a : a = [page EXCEPT !.shown = text]  OBVIOUS
    <3>3. a = [at |-> page.at, status |-> page.status, text |-> page.text, shown |-> text, answers |-> page.answers, opened |-> page.opened, took |-> page.took]
      BY <1>1, <3>2 DEF Page
    <3>4. PICK b : b = [a EXCEPT !.answers = n]  OBVIOUS
    <3>5. b = [at |-> page.at, status |-> page.status, text |-> page.text, shown |-> text, answers |-> n, opened |-> page.opened, took |-> page.took]
      BY <3>3, <3>4
    <3>6. PICK c : c = [b EXCEPT !.at = "ended"]  OBVIOUS
    <3>7. c = [at |-> "ended", status |-> page.status, text |-> page.text, shown |-> text, answers |-> n, opened |-> page.opened, took |-> page.took]
      BY <3>5, <3>6
    <3>8. page' = [c EXCEPT !.status = "error"]  BY <2>1, <3>1, <3>2, <3>4, <3>6 DEF Patch
    <3>9. page' = [at |-> "ended", status |-> "error", text |-> page.text, shown |-> text, answers |-> n, opened |-> page.opened, took |-> page.took]
      BY <3>7, <3>8
    <3>10. page.took # "final"  BY <1>1, <2>1 DEF Completed
    <3> QED BY <3>9, <3>10 DEF Page, Completed
  <2>3. Unrestarted => Begins' /\ (course = "ended" /\ Following' => stream.last < Len(events))
    BY <1>1, <1>3, <2>1, <2>2 DEF Begins, Ahead, Following
  <2> QED BY <1>7, <2>2, <2>3
<1>10. CASE Abort
  <2>1. page.at = "stopping" /\ page' = [page EXCEPT !.at = "ended"]  BY <1>10 DEF Abort
  <2>2. Page(page') /\ Completed(page') /\ page'.at = "ended"  BY <1>1, <2>1 DEF Page, Completed
  <2>3. stream'.at = "closed"
    <3>1. PICK s : s = [stream EXCEPT !.at = "closed"]  OBVIOUS
    <3>2. s = [at |-> "closed", last |-> stream.last, backlog |-> stream.backlog]  BY <1>1, <3>1
    <3>3. stream' = [s EXCEPT !.backlog = <<>>]  BY <1>10, <3>1 DEF Abort
    <3>4. stream' = [at |-> "closed", last |-> stream.last, backlog |-> <<>>]  BY <3>2, <3>3
    <3> QED BY <3>4
  <2>4. Unrestarted => Begins' /\ ~Following'
    BY <1>1, <1>3, <2>1, <2>2, <2>3 DEF Begins, Following
  <2> QED BY <1>7, <2>2, <2>4
<1>11. CASE OpenConversation
  <2> DEFINE text == Says("another")
  <2>1. /\ page.at = "reading" /\ stream' = stream
        /\ page' = [page EXCEPT !.opened = TRUE, !.status = "idle", !.shown = text, !.answers = 0]
    BY <1>11 DEF OpenConversation
  <2> HIDE DEF text
  <2>2. Page(page') /\ Completed(page') /\ page'.at = "reading"
    <3>1. PICK a : a = [page EXCEPT !.opened = TRUE]  OBVIOUS
    <3>2. a = [at |-> page.at, status |-> page.status, text |-> page.text, shown |-> page.shown, answers |-> page.answers, opened |-> TRUE, took |-> page.took]
      BY <1>1, <3>1 DEF Page
    <3>3. PICK b : b = [a EXCEPT !.status = "idle"]  OBVIOUS
    <3>4. b = [at |-> page.at, status |-> "idle", text |-> page.text, shown |-> page.shown, answers |-> page.answers, opened |-> TRUE, took |-> page.took]
      BY <3>2, <3>3
    <3>5. PICK c : c = [b EXCEPT !.shown = text]  OBVIOUS
    <3>6. c = [at |-> page.at, status |-> "idle", text |-> page.text, shown |-> text, answers |-> page.answers, opened |-> TRUE, took |-> page.took]
      BY <3>4, <3>5
    <3>7. page' = [c EXCEPT !.answers = 0]  BY <2>1, <3>1, <3>3, <3>5
    <3>8. page' = [at |-> page.at, status |-> "idle", text |-> page.text, shown |-> text, answers |-> 0, opened |-> TRUE, took |-> page.took]
      BY <3>6, <3>7
    <3> QED BY <1>1, <2>1, <3>8 DEF Page, Completed
  <2>3. Unrestarted => Begins' /\ (course = "ended" /\ Following' => stream.last < Len(events))
    BY <1>1, <1>3, <2>1, <2>2 DEF Begins, Ahead, Following
  <2> QED BY <1>7, <2>2, <2>3
<1>12. CASE CreateFails
  <2> DEFINE text == Says("request failed")
  <2>1. /\ page.at = "idle" /\ reads = "none" /\ stream' = stream
        /\ page' = [page EXCEPT !.at = "ended", !.status = "error", !.shown = text, !.answers = 1]
    BY <1>12 DEF CreateFails
  <2> HIDE DEF text
  <2>2. Page(page') /\ Completed(page') /\ page'.at = "ended"
    <3>1. PICK a : a = [page EXCEPT !.at = "ended"]  OBVIOUS
    <3>2. a = [at |-> "ended", status |-> page.status, text |-> page.text, shown |-> page.shown, answers |-> page.answers, opened |-> page.opened, took |-> page.took]
      BY <1>1, <3>1 DEF Page
    <3>3. PICK b : b = [a EXCEPT !.status = "error"]  OBVIOUS
    <3>4. b = [at |-> "ended", status |-> "error", text |-> page.text, shown |-> page.shown, answers |-> page.answers, opened |-> page.opened, took |-> page.took]
      BY <3>2, <3>3
    <3>5. PICK c : c = [b EXCEPT !.shown = text]  OBVIOUS
    <3>6. c = [at |-> "ended", status |-> "error", text |-> page.text, shown |-> text, answers |-> page.answers, opened |-> page.opened, took |-> page.took]
      BY <3>4, <3>5
    <3>7. page' = [c EXCEPT !.answers = 1]  BY <2>1, <3>1, <3>3, <3>5
    <3>8. page' = [at |-> "ended", status |-> "error", text |-> page.text, shown |-> text, answers |-> 1, opened |-> page.opened, took |-> page.took]
      BY <3>6, <3>7
    <3> QED BY <1>1, <2>1, <3>8 DEF Page, Completed
  <2>3. Unrestarted => Begins' /\ (course = "ended" /\ Following' => stream.last < Len(events))
    BY <1>1, <1>3, <2>1, <2>2 DEF Begins, Ahead, Following
  <2> QED BY <1>7, <2>2, <2>3
<1> QED BY <1>8, <1>9, <1>10, <1>11, <1>12

\* The page asks and the stop button is pressed: both emit.
LEMMA AskingInv ==
  StreamInv /\ (PressStop \/ \E mode \in {"local", "merged"} : CreateChatJob(mode)) => StreamInv'
<1> SUFFICES ASSUME StreamInv, PressStop \/ \E mode \in {"local", "merged"} : CreateChatJob(mode) PROVE StreamInv'
  OBVIOUS
<1>1. /\ StreamShapes /\ (Unrestarted => Begins /\ Ahead) /\ Page(page) /\ Completed(page)
  BY DEF StreamInv, StreamShapes
<1>2. ASSUME NEW mode \in {"local", "merged"}, CreateChatJob(mode)  PROVE StreamInv'
  <2> DEFINE text == Says("streaming")
  <2>1. /\ page.at = "idle" /\ page' = [page EXCEPT !.at = "created", !.status = "queued", !.shown = text, !.answers = 1]
        /\ reads = "none" /\ reads' = mode /\ Emit("queued") /\ UNCHANGED <<course, saved, stream, breaks>>
    BY <1>2 DEF CreateChatJob
  <2> HIDE DEF text
  <2>2. page' = [at |-> "created", status |-> "queued", text |-> page.text, shown |-> text, answers |-> 1, opened |-> page.opened, took |-> page.took]
    <3>1. PICK a : a = [page EXCEPT !.at = "created"]  OBVIOUS
    <3>2. a = [at |-> "created", status |-> page.status, text |-> page.text, shown |-> page.shown, answers |-> page.answers, opened |-> page.opened, took |-> page.took]
      BY <1>1, <3>1 DEF Page
    <3>3. PICK b : b = [a EXCEPT !.status = "queued"]  OBVIOUS
    <3>4. b = [at |-> "created", status |-> "queued", text |-> page.text, shown |-> page.shown, answers |-> page.answers, opened |-> page.opened, took |-> page.took]
      BY <3>2, <3>3
    <3>5. PICK c : c = [b EXCEPT !.shown = text]  OBVIOUS
    <3>6. c = [at |-> "created", status |-> "queued", text |-> page.text, shown |-> text, answers |-> page.answers, opened |-> page.opened, took |-> page.took]
      BY <3>4, <3>5
    <3>7. page' = [c EXCEPT !.answers = 1]  BY <2>1, <3>1, <3>3, <3>5
    <3> QED BY <3>6, <3>7
  <2>3. Page(page') /\ Completed(page') /\ page'.at = "created"  BY <1>1, <2>1, <2>2 DEF Page, Completed
  <2>4. /\ events' \in Seq(Event) /\ Len(events') = Len(events) + 1 /\ mailbox' \in Seq(Event)
        /\ \A i \in DOMAIN events' : events'[i].seq = i
        /\ \A e : InList(e) => InList(e)'
        /\ (\A i \in DOMAIN mailbox : InList(mailbox[i])) => (\A i \in DOMAIN mailbox : InList(mailbox[i]))'
    BY <1>1, <2>1, Emitted DEF EventKinds
  <2>5. Unrestarted' <=> Unrestarted  BY <2>1 DEF Unrestarted
  <2>6. StreamShapes' /\ Completed(page)'
    BY <1>1, <2>1, <2>3, <2>4 DEF StreamShapes, Page, Completed
  <2>7. ASSUME Unrestarted  PROVE Begins' /\ Ahead'
    <3>1. Begins /\ Ahead  BY <1>1, <2>7
    <3>2. course # "ended" /\ course' = course  BY <2>1, <3>1 DEF Begins
    <3>3. Begins'  BY <2>1, <2>3 DEF Begins
    <3>4. stream.last <= Len(events') /\ DOMAIN saved' = {}
      <4>1. Len(events) \in Nat /\ stream.last \in Nat  BY <1>1 DEF StreamShapes
      <4> QED BY <2>1, <2>4, <3>1, <4>1 DEF Ahead
    <3>5. (\A i \in DOMAIN stream.backlog : InList(stream.backlog[i]))'  BY <2>1, <2>4, <3>1 DEF Ahead
    <3>6. (\A i \in DOMAIN mailbox : InList(mailbox[i]))'  BY <2>4, <3>1 DEF Ahead
    <3> QED BY <2>1, <3>2, <3>3, <3>4, <3>5, <3>6 DEF Ahead
  <2> QED BY <2>5, <2>6, <2>7 DEF StreamInv
<1>3. CASE PressStop
  <2> DEFINE text == Says("cancelling")
  <2>1. /\ page.at = "reading" /\ page' = [page EXCEPT !.at = "stopping", !.status = "stopped", !.shown = text]
        /\ UNCHANGED <<reads, saved, stream, breaks>>
        /\ \/ course' = "cancelling" /\ Emit("cancel_requested")
           \/ course' = "ended" /\ Emit("cancelled")
           \/ UNCHANGED <<course, events, mailbox>>
    BY <1>3 DEF PressStop
  <2> HIDE DEF text
  <2>2. page' = [at |-> "stopping", status |-> "stopped", text |-> page.text, shown |-> text, answers |-> page.answers, opened |-> page.opened, took |-> page.took]
    <3>1. PICK a : a = [page EXCEPT !.at = "stopping"]  OBVIOUS
    <3>2. a = [at |-> "stopping", status |-> page.status, text |-> page.text, shown |-> page.shown, answers |-> page.answers, opened |-> page.opened, took |-> page.took]
      BY <1>1, <3>1 DEF Page
    <3>3. PICK b : b = [a EXCEPT !.status = "stopped"]  OBVIOUS
    <3>4. b = [at |-> "stopping", status |-> "stopped", text |-> page.text, shown |-> page.shown, answers |-> page.answers, opened |-> page.opened, took |-> page.took]
      BY <3>2, <3>3
    <3>5. page' = [b EXCEPT !.shown = text]  BY <2>1, <3>1, <3>3
    <3> QED BY <3>4, <3>5
  <2>3. Page(page') /\ Completed(page') /\ page'.at = "stopping"  BY <1>1, <2>1, <2>2 DEF Page, Completed
  <2>4. Unrestarted => reads # "none"  BY <1>1, <2>1 DEF Begins
  <2>5. CASE UNCHANGED <<course, events, mailbox>>
    <3>1. Unrestarted' <=> Unrestarted  BY <2>1 DEF Unrestarted
    <3>2. StreamShapes' /\ Completed(page)'  BY <1>1, <2>1, <2>3, <2>5 DEF StreamShapes, Page, Completed
    <3>3. Unrestarted => Begins' /\ Ahead'
      BY <1>1, <2>1, <2>3, <2>4, <2>5 DEF Begins, Ahead, Following, InList
    <3> QED BY <3>1, <3>2, <3>3 DEF StreamInv
  <2>6. ASSUME NEW kind \in EventKinds, Emit(kind), course' = "ended" => EndsPage(kind)  PROVE StreamInv'
    <3>1. CASE reads # "none"
      BY <2>1, <2>3, <2>6, <3>1, EmittedInv
    <3>2. CASE reads = "none"
      <4>1. ~Unrestarted  BY <2>4, <3>2
      <4>2. /\ events' \in Seq(Event) /\ mailbox' \in Seq(Event) /\ \A i \in DOMAIN events' : events'[i].seq = i
        BY <1>1, <2>6, Emitted
      <4>3. StreamShapes' /\ Completed(page)' /\ ~Unrestarted'
        BY <1>1, <2>1, <2>3, <4>1, <4>2 DEF StreamShapes, Page, Completed, Unrestarted
      <4> QED BY <4>3 DEF StreamInv
    <3> QED BY <3>1, <3>2
  <2> QED BY <2>1, <2>5, <2>6 DEF EventKinds, EndsPage, EndsStream
<1> QED BY <1>2, <1>3

\* A restart, and the rows it leaves to be written over.
LEMMA OverwrittenRows ==
  ASSUME StreamShapes, NEW rows \in SUBSET {events[i] : i \in DOMAIN events}
  PROVE  LET new == Overwritten(rows)
         IN /\ IsFiniteSet(DOMAIN new) /\ DOMAIN new \subseteq Nat /\ \A i \in DOMAIN new : new[i] \in Event
            /\ \A i \in DOMAIN new : new[i] \in rows \/ (i \in DOMAIN saved /\ new[i] = saved[i])
<1> DEFINE numbers == {e.seq : e \in rows}
           new == Overwritten(rows)
<1>1. /\ events \in Seq(Event) /\ DOMAIN events = 1 .. Len(events) /\ Len(events) \in Nat
      /\ \A i \in DOMAIN events : events[i] \in Event /\ events[i].seq = i
      /\ IsFiniteSet(DOMAIN saved) /\ DOMAIN saved \subseteq Nat /\ \A i \in DOMAIN saved : saved[i] \in Event
  BY DEF StreamShapes
<1>2. /\ DOMAIN new = DOMAIN saved \cup numbers
      /\ \A i \in DOMAIN new : new[i] = IF i \in numbers THEN CHOOSE e \in rows : e.seq = i ELSE saved[i]
  BY DEF Overwritten
<1>3. \A e \in rows : e \in Event /\ e.seq \in DOMAIN events  BY <1>1
<1>4. numbers \in SUBSET DOMAIN events  BY <1>3
<1>5. IsFiniteSet(numbers)
  <2>1. IsFiniteSet(DOMAIN events)
    <3>1. PICK n \in Nat : n = Len(events)  BY <1>1
    <3>2. IsFiniteSet(1 .. n)  BY FS_Interval
    <3> QED BY <1>1, <3>1, <3>2
  <2> HIDE DEF numbers
  <2> QED BY <1>4, <2>1, FS_Subset
<1>6. ASSUME NEW i \in numbers  PROVE (CHOOSE e \in rows : e.seq = i) \in rows
  <2>1. \E e \in rows : e.seq = i  OBVIOUS
  <2> QED BY <2>1
<1> HIDE DEF new
<1>7. \A i \in DOMAIN new : new[i] \in rows \/ (i \in DOMAIN saved /\ new[i] = saved[i])  BY <1>2, <1>6
<1>9. \A i \in DOMAIN new : new[i] \in Event  BY <1>1, <1>3, <1>7
<1> HIDE DEF numbers
<1>8. IsFiniteSet(DOMAIN new) /\ DOMAIN new \subseteq Nat
  <2>1. DOMAIN events \subseteq Nat  BY <1>1
  <2>2. numbers \subseteq Nat  BY <1>4, <2>1
  <2>3. IsFiniteSet((DOMAIN saved) \cup numbers)  BY <1>1, <1>5, FS_Union
  <2> QED BY <1>1, <1>2, <2>2, <2>3
<1> QED BY <1>7, <1>8, <1>9 DEF new

\* So do a restart and the rows that are overwritten after it.
LEMMA RestartInv == StreamInv /\ (RestartProcess \/ OverwriteRows) => StreamInv'
<1> SUFFICES ASSUME StreamInv, RestartProcess \/ OverwriteRows PROVE StreamInv'  OBVIOUS
<1>1. /\ StreamShapes /\ (Unrestarted => Begins /\ Ahead) /\ Page(page) /\ Completed(page)
      /\ stream = [at |-> stream.at, last |-> stream.last, backlog |-> stream.backlog] /\ stream.last \in Nat
      /\ breaks \in Seq({"restart", "connection", "opened"}) /\ stream.backlog \in Seq(Event)
  BY DEF StreamInv, StreamShapes
<1>2. CASE RestartProcess
  <2>1. PICK rows \in RowsWritten : saved' = Overwritten(rows)  BY <1>2 DEF RestartProcess
  <2>2. rows \in SUBSET {events[i] : i \in DOMAIN events}
    <3>1. PICK n \in 0 .. Len(events) : rows = {events[i] : i \in {k \in 1 .. n : events[k].kind # "text_delta"}}
      BY <2>1 DEF RowsWritten
    <3>2. DOMAIN events = 1 .. Len(events) /\ Len(events) \in Nat  BY <1>1 DEF StreamShapes
    <3>3. 1 .. n \subseteq DOMAIN events  BY <3>2
    <3> QED BY <3>1, <3>3
  <2>3. IsFiniteSet(DOMAIN saved') /\ DOMAIN saved' \subseteq Nat /\ \A i \in DOMAIN saved' : saved'[i] \in Event
    BY <1>1, <2>1, <2>2, OverwrittenRows
  <2>4. /\ breaks' = Append(breaks, "restart") /\ events' = <<>> /\ mailbox' = <<>>
    BY <1>2 DEF RestartProcess
  <2>5. breaks' \in Seq({"restart", "connection", "opened"}) /\ ~Unrestarted'
    <3>1. /\ breaks' \in Seq({"restart", "connection", "opened"}) /\ Len(breaks) + 1 \in DOMAIN breaks'
          /\ breaks'[Len(breaks) + 1] = "restart"
      BY <1>1, <2>4, Appended
    <3> QED BY <3>1 DEF Unrestarted, ToSet
  <2>6. /\ stream' = [at |-> stream'.at, last |-> stream'.last, backlog |-> stream'.backlog]
        /\ stream'.last = stream.last /\ stream'.backlog = <<>>
    <3>1. PICK at : at = IF stream.at = "none" THEN "none" ELSE "closed"  OBVIOUS
    <3>2. PICK s : s = [stream EXCEPT !.at = at]  OBVIOUS
    <3>3. s = [at |-> at, last |-> stream.last, backlog |-> stream.backlog]  BY <1>1, <3>2
    <3>4. stream' = [s EXCEPT !.backlog = <<>>]  BY <1>2, <3>1, <3>2 DEF RestartProcess
    <3>5. stream' = [at |-> at, last |-> stream.last, backlog |-> <<>>]  BY <3>3, <3>4
    <3> QED BY <3>5
  <2>7. Page(page') /\ Completed(page')
    <3>1. PICK at : at = IF page.at \in {"reading", "stopping"} THEN "broken" ELSE page.at  OBVIOUS
    <3>2. page' = [page EXCEPT !.at = at]  BY <1>2, <3>1 DEF RestartProcess
    <3> QED BY <1>1, <3>1, <3>2 DEF Page, Completed
  <2>8. <<>> \in Seq(Event) /\ DOMAIN <<>> = {}  OBVIOUS
  <2>9. StreamShapes' /\ Completed(page)'
    BY <1>1, <2>3, <2>4, <2>5, <2>6, <2>7, <2>8 DEF StreamShapes, Page, Completed
  <2> QED BY <2>5, <2>9 DEF StreamInv
<1>3. CASE OverwriteRows
  <2> DEFINE written == {e \in ToSet(events) : e.kind # "text_delta" /\ e.seq \in DOMAIN saved}
  <2>1. /\ \E e \in written : e.seq \in DOMAIN saved
        /\ saved' = Overwritten(written) /\ UNCHANGED <<reads, course, events, mailbox, stream, page, breaks>>
    BY <1>3 DEF OverwriteRows
  <2>2. written \in SUBSET {events[i] : i \in DOMAIN events}  BY DEF ToSet
  <2>3. ~Unrestarted  BY <1>1, <2>1 DEF Ahead
  <2> HIDE DEF written
  <2>4. PICK rows : rows = written  OBVIOUS
  <2>5. IsFiniteSet(DOMAIN saved') /\ DOMAIN saved' \subseteq Nat /\ \A i \in DOMAIN saved' : saved'[i] \in Event
    BY <1>1, <2>1, <2>2, <2>4, OverwrittenRows
  <2>6. StreamShapes' /\ Completed(page)' /\ ~Unrestarted'
    BY <1>1, <2>1, <2>3, <2>5 DEF StreamShapes, Page, Completed, Unrestarted
  <2> QED BY <2>6 DEF StreamInv
<1> QED BY <1>2, <1>3

\* Every step of the stream keeps its invariant.
LEMMA StreamStep == StreamInv /\ [StreamNext]_streamvars => StreamInv'
<1> SUFFICES ASSUME StreamInv, [StreamNext]_streamvars PROVE StreamInv'  OBVIOUS
<1>1. CASE UNCHANGED streamvars
  BY <1>1 DEF streamvars, StreamInv, StreamShapes, Page, Completed, Unrestarted, Begins, Ahead, Following, InList
<1>2. CASE StreamNext
  BY <1>2, CourseInv, YieldsInv, ReadingStreamInv, LeavingInv, AskingInv, RestartInv DEF StreamNext
<1> QED BY <1>1, <1>2

\* As long as the outcome is open there is no final event, and no page took one.
NotFinal(e) == e.kind # "final"
NoneFinal(s) == \A i \in DOMAIN s : NotFinal(s[i])
Decided ==
    course # "ended" =>
        page.took # "final" /\ NoneFinal(events) /\ NoneFinal(mailbox) /\ NoneFinal(stream.backlog) /\ NoneFinal(saved)

\* An event of another kind leaves it so.
LEMMA EmitsNoFinal ==
  ASSUME StreamInv, Decided, NEW kind \in EventKinds \ {"final"}, Emit(kind),
         course # "ended" \/ course' = "ended", page'.took = page.took, UNCHANGED <<saved, stream>>
  PROVE  Decided'
<1> SUFFICES ASSUME course' # "ended" PROVE Decided'  BY DEF Decided
<1>1. /\ events \in Seq(Event) /\ mailbox \in Seq(Event) /\ page.took # "final" /\ NoneFinal(events) /\ NoneFinal(mailbox)
      /\ NoneFinal(stream.backlog) /\ NoneFinal(saved)
  BY DEF StreamInv, StreamShapes, Decided
<1>2. PICK event : /\ NotFinal(event) /\ events' = Append(events, event)
                   /\ mailbox' = mailbox \/ mailbox' = Append(mailbox, event)
  <2>1. PICK event : event = [seq |-> NumberOf(kind), kind |-> kind, n |-> Cardinality(EventsOfKind(kind)) + 1]  OBVIOUS
  <2>2. NotFinal(event)  BY <2>1 DEF NotFinal
  <2> QED BY <2>1, <2>2 DEF Emit
<1>3. ASSUME NEW s \in Seq(Event), NoneFinal(s)  PROVE NoneFinal(Append(s, event))
  BY <1>2, <1>3 DEF NoneFinal
<1>4. NoneFinal(events) /\ NoneFinal(mailbox) => NoneFinal(events') /\ NoneFinal(mailbox')
  BY <1>1, <1>2, <1>3
<1> QED BY <1>1, <1>4 DEF Decided, NoneFinal

\* Every step keeps it: the final event is emitted with the outcome.
LEMMA DecidedStep == StreamInv /\ Decided /\ [StreamNext]_streamvars => Decided'
<1> SUFFICES ASSUME StreamInv, Decided, [StreamNext]_streamvars, course' # "ended" PROVE Decided'
  BY DEF Decided
<1>1. StreamShapes /\ Page(page) /\ (course # "ended" => /\ page.took # "final" /\ NoneFinal(events) /\ NoneFinal(mailbox)
                                                        /\ NoneFinal(stream.backlog) /\ NoneFinal(saved))
  BY DEF StreamInv, StreamShapes, Decided
<1>2. course # "ended"
  BY DEF StreamNext, streamvars, CreateChatJob, CreateFails, Subscribe, ReadBacklog, YieldBacklog, EndReplay, YieldLive, LookAgain,
         CaughtUp, EmitRunning, EmitUpstreamError, EmitFinalTelemetry, EmitProgress, Talking, EmitEnd, RestartProcess,
         OverwriteRows, Disconnect, ReportFailure, PressStop, Abort, OpenConversation
<1>3. /\ stream = [at |-> stream.at, last |-> stream.last, backlog |-> stream.backlog] /\ stream.last \in Nat
      /\ stream.backlog \in Seq(Event) /\ mailbox \in Seq(Event) /\ NoneFinal(<<>>)
  BY <1>1 DEF StreamShapes, NoneFinal
<1>4. \A last \in Nat : NoneFinal(EventsAfter(last))
  BY <1>1, <1>2, ReadAfter DEF NoneFinal, InList
<1>5. CASE UNCHANGED streamvars  BY <1>1, <1>2, <1>5 DEF streamvars, Decided, NoneFinal
<1>6. ASSUME NEW kind \in EventKinds \ {"final"}, Emit(kind), page'.took = page.took, UNCHANGED <<saved, stream>>
      PROVE  Decided'
  BY <1>2, <1>6, EmitsNoFinal
<1>7. CASE \/ EmitRunning \/ EmitUpstreamError \/ EmitFinalTelemetry \/ \E kind \in Progress : EmitProgress(kind)
           \/ \E kind \in {"final", "failed", "error", "cancelled"} : EmitEnd(kind)
  <2>1. CASE EmitRunning \/ EmitUpstreamError \/ EmitFinalTelemetry
    BY <1>6, <2>1 DEF EmitRunning, EmitUpstreamError, EmitFinalTelemetry, EventKinds
  <2>2. ASSUME NEW kind \in Progress, EmitProgress(kind)  PROVE Decided'
    BY <1>6, <2>2 DEF EmitProgress, EventKinds, Progress
  <2>3. ASSUME NEW kind, EmitEnd(kind)  PROVE FALSE
    BY <2>3 DEF EmitEnd
  <2> QED BY <1>7, <2>1, <2>2, <2>3
<1>8. ASSUME page'.took = page.took, UNCHANGED <<events, saved>>,
             mailbox' = mailbox \/ mailbox' = <<>>,
             stream'.backlog = stream.backlog \/ stream'.backlog = <<>> \/ stream'.backlog = EventsAfter(stream.last)
      PROVE  Decided'
  BY <1>1, <1>2, <1>3, <1>4, <1>8 DEF Decided, NoneFinal
<1>9. ASSUME NEW event \in Event, NEW rest, Yield(event, rest), NotFinal(event), NoneFinal(rest),
             UNCHANGED <<events, saved>>, NoneFinal(mailbox')
      PROVE  Decided'
  <2>1. page'.took # "final"
    <3>1. PICK shown, told : shown = Show(page, event) /\ told = ToldOf(event.kind)  OBVIOUS
    <3>2. PICK next : next = [shown EXCEPT !.took = told]  OBVIOUS
    <3>3. page'.took = told
      <4>1. page' = next  BY <1>9, <3>1, <3>2 DEF Yield
      <4>2. next.took = told  BY <1>1, <1>9, <3>1, <3>2, PageTakes
      <4> QED BY <4>1, <4>2
    <3> QED BY <1>9, <3>1, <3>3 DEF ToldOf, NotFinal
  <2>2. stream'.backlog = rest
    <3>1. PICK l, a : stream' = [stream EXCEPT !.last = l, !.backlog = rest, !.at = a]  BY <1>9 DEF Yield
    <3> QED BY <1>3, <3>1
  <2> QED BY <1>1, <1>2, <1>9, <2>1, <2>2 DEF Decided, NoneFinal
<1>10. CASE YieldBacklog \/ YieldLive
  <2>1. ASSUME NEW s \in Seq(Event), s # <<>>, NoneFinal(s)
        PROVE  Head(s) \in Event /\ NotFinal(Head(s)) /\ NoneFinal(Tail(s))
    <3>1. /\ Head(s) \in Event /\ Head(s) = s[1] /\ 1 \in DOMAIN s
          /\ \A i \in DOMAIN Tail(s) : i + 1 \in DOMAIN s /\ Tail(s)[i] = s[i + 1]
      BY <2>1
    <3> QED BY <2>1, <3>1 DEF NoneFinal
  <2>2. CASE YieldBacklog
    <3>1. PICK event, rest :
            /\ Yield(event, rest) /\ event = Head(stream.backlog) /\ (rest = <<>> \/ rest = Tail(stream.backlog))
            /\ stream.backlog # <<>> /\ UNCHANGED <<events, saved, mailbox>>
      BY <2>2 DEF YieldBacklog
    <3>2. event \in Event /\ NotFinal(event) /\ NoneFinal(rest)  BY <1>1, <1>2, <1>3, <2>1, <3>1
    <3> QED BY <1>1, <1>2, <1>9, <3>1, <3>2
  <2>3. CASE YieldLive
    <3>1. PICK event : /\ Yield(event, <<>>) /\ event = Head(mailbox) /\ mailbox # <<>>
                       /\ mailbox' = Tail(mailbox) /\ UNCHANGED <<events, saved>>
      BY <2>3 DEF YieldLive
    <3>2. event \in Event /\ NotFinal(event) /\ NoneFinal(mailbox')  BY <1>1, <1>2, <1>3, <2>1, <3>1
    <3> QED BY <1>3, <1>9, <3>1, <3>2
  <2> QED BY <1>10, <2>2, <2>3
<1>11. CASE \/ Subscribe \/ ReadBacklog \/ EndReplay \/ LookAgain \/ CaughtUp \/ Disconnect \/ ReportFailure \/ Abort
            \/ OpenConversation \/ CreateFails
  <2>1. page'.took = page.took
    <3>1. CASE Subscribe \/ ReadBacklog \/ EndReplay \/ LookAgain \/ CaughtUp
      BY <1>1, <3>1 DEF Page, Subscribe, ReadBacklog, EndReplay, LookAgain, CaughtUp
    <3>2. CASE Disconnect \/ Abort \/ OpenConversation \/ CreateFails
      BY <1>1, <3>2 DEF Page, Disconnect, Abort, OpenConversation, CreateFails
    <3>3. CASE ReportFailure
      <4>1. PICK text, n : page' = [page EXCEPT !.shown = text, !.answers = n, !.at = "ended", !.status = "error"]
        BY <3>3 DEF ReportFailure, Patch
      <4> QED BY <1>1, <4>1 DEF Page
    <3> QED BY <1>11, <3>1, <3>2, <3>3
  <2>2. UNCHANGED <<events, saved>> /\ (mailbox' = mailbox \/ mailbox' = <<>>)
    BY <1>11
    DEF Subscribe, ReadBacklog, EndReplay, LookAgain, CaughtUp, Disconnect, ReportFailure, Abort, OpenConversation, CreateFails
  <2>3. stream'.backlog = stream.backlog \/ stream'.backlog = <<>> \/ stream'.backlog = EventsAfter(stream.last)
    <3>1. CASE ReadBacklog \/ LookAgain
      <4>1. PICK at, read : read = EventsAfter(stream.last) /\ stream' = [stream EXCEPT !.at = at, !.backlog = read]
        BY <3>1 DEF ReadBacklog, LookAgain
      <4> QED BY <1>3, <4>1
    <3>2. CASE Subscribe \/ EndReplay \/ CaughtUp
      BY <1>3, <3>2 DEF Subscribe, EndReplay, CaughtUp
    <3>3. CASE Disconnect \/ Abort
      <4>1. stream' = [stream EXCEPT !.at = "closed", !.backlog = <<>>]  BY <3>3 DEF Disconnect, Abort
      <4> QED BY <1>3, <4>1
    <3>4. CASE ReportFailure \/ OpenConversation \/ CreateFails
      BY <3>4 DEF ReportFailure, OpenConversation, CreateFails
    <3> QED BY <1>11, <3>1, <3>2, <3>3, <3>4
  <2> QED BY <1>8, <2>1, <2>2, <2>3
<1>12. CASE PressStop \/ \E mode \in {"local", "merged"} : CreateChatJob(mode)
  <2>1. page'.took = page.took  BY <1>1, <1>12 DEF Page, PressStop, CreateChatJob
  <2>2. \/ UNCHANGED <<saved, stream>> /\ \E kind \in EventKinds \ {"final"} : Emit(kind)
        \/ UNCHANGED <<events, saved, mailbox, stream>>
    BY <1>12 DEF PressStop, CreateChatJob, EventKinds
  <2> QED BY <1>6, <1>8, <2>1, <2>2
<1>13. CASE RestartProcess \/ OverwriteRows
  <2>1. PICK rows \in SUBSET {events[i] : i \in DOMAIN events} : saved' = Overwritten(rows)
    <3>1. DOMAIN events = 1 .. Len(events) /\ Len(events) \in Nat  BY <1>1 DEF StreamShapes
    <3>2. RowsWritten \subseteq SUBSET {events[i] : i \in DOMAIN events}
      <4>1. ASSUME NEW n \in 0 .. Len(events)  PROVE 1 .. n \subseteq DOMAIN events  BY <3>1
      <4> QED BY <4>1 DEF RowsWritten
    <3> QED BY <1>13, <3>2 DEF RestartProcess, OverwriteRows, ToSet
  <2>2. NoneFinal(saved')
    <3>1. \A i \in DOMAIN saved' : saved'[i] \in rows \/ (i \in DOMAIN saved /\ saved'[i] = saved[i])
      BY <1>1, <2>1, OverwrittenRows
    <3>2. \A e \in rows : NotFinal(e)  BY <1>1, <1>2, <2>1 DEF NoneFinal
    <3> QED BY <1>1, <1>2, <3>1, <3>2 DEF NoneFinal
  <2>3. page'.took = page.took  BY <1>1, <1>13 DEF Page, RestartProcess, OverwriteRows
  <2>4. /\ events' = events \/ events' = <<>>
        /\ mailbox' = mailbox \/ mailbox' = <<>>
        /\ stream'.backlog = stream.backlog \/ stream'.backlog = <<>>
    BY <1>3, <1>13 DEF RestartProcess, OverwriteRows
  <2> QED BY <1>1, <1>2, <1>3, <2>2, <2>3, <2>4 DEF Decided, NoneFinal
<1> QED BY <1>5, <1>7, <1>10, <1>11, <1>12, <1>13 DEF StreamNext

\* CompleteIsFinal: who took the final event shows its text and that it is
\* complete, of a job that has ended; who says complete without it was last
\* told so by the final telemetry.  For any number of deltas, restarts and lost
\* connections and any room of the queues.
THEOREM CompleteStaysFinal == StreamSpec => []CompleteIsFinal
<1>1. StreamInit => Decided  BY DEF StreamInit, Decided, NoneFinal, IdlePage, NoStream, NoRows
<1>2. StreamInv /\ Decided => CompleteIsFinal  BY DEF StreamInv, Decided, Completed, CompleteIsFinal
<1> QED BY <1>1, <1>2, StreamStart, StreamStep, DecidedStep, PTL DEF StreamSpec

\* EndIsAhead: until the process restarts, a stream that follows a job that has
\* ended has not passed the event that ends it, although its queue may have
\* dropped it.
THEOREM EndStaysAhead == StreamSpec => []EndIsAhead
<1>1. StreamInv => EndIsAhead
  <2> SUFFICES ASSUME StreamInv, Unrestarted, stream.at = "live", course = "ended"
               PROVE  Last(events).seq > stream.last
    BY DEF EndIsAhead, Unrestarted
  <2>1. /\ events \in Seq(Event) /\ Len(events) # 0 /\ stream.last < Len(events)
        /\ \A i \in DOMAIN events : events[i].seq = i
    BY DEF StreamInv, StreamShapes, Ahead, Following
  <2>2. Last(events) = events[Len(events)] /\ Len(events) \in DOMAIN events  BY <2>1 DEF Last
  <2> QED BY <2>1, <2>2
<1> QED BY <1>1, StreamStart, StreamStep, PTL DEF StreamSpec

-----------------------------------------------------------------------------
(* The round robin                                                         *)

\* A list of numbers has a least one.
LEMMA LeastOf == ASSUME NEW S \in SUBSET Nat, IsFiniteSet(S), S # {} PROVE \E x \in S : \A y \in S : x <= y
<1>1. Cardinality(S) \in Nat /\ Cardinality(S) # 0  BY FS_CardinalityType, FS_EmptySet
<1>2. PICK x \in S : Place(S, x) = 1  BY <1>1, Ranked
<1>3. ASSUME NEW y \in S, y < x PROVE FALSE
  <2>1. Place(S, y) \in 1 .. Cardinality(S) /\ Place(S, y) < Place(S, x)  BY <1>3, RankGrows
  <2> QED BY <1>1, <1>2, <2>1
<1> QED BY <1>2, <1>3

\* The entries of others in a list of keys.
OthersIn(ks, u) == {i \in DOMAIN ks : ks[i] # u}

\* They can be counted.
LEMMA OthersCount ==
  ASSUME NEW S, NEW ks \in Seq(S), NEW u
  PROVE  IsFiniteSet(OthersIn(ks, u)) /\ Cardinality(OthersIn(ks, u)) \in Nat
<1>1. IsFiniteSet(1 .. Len(ks))  BY FS_Interval
<1>2. OthersIn(ks, u) \in SUBSET (1 .. Len(ks))  BY DEF OthersIn
<1> QED BY <1>1, <1>2, FS_Subset, FS_CardinalityType

\* Before the first entry of a key are entries of others only.
LEMMA FirstAhead ==
  ASSUME NEW S, NEW ks \in Seq(S), NEW u, NEW i \in 1 .. Len(ks), ks[i] = u
  PROVE  \E k \in 1 .. Len(ks) : ks[k] = u /\ k - 1 <= Cardinality(OthersIn(ks, u))
<1> DEFINE own == {k \in 1 .. Len(ks) : ks[k] = u}
<1>1. own \in SUBSET Nat /\ own # {} /\ IsFiniteSet(own)
  <2>1. IsFiniteSet(1 .. Len(ks))  BY FS_Interval
  <2>2. own \in SUBSET (1 .. Len(ks)) /\ i \in own  OBVIOUS
  <2> QED BY <2>1, <2>2, FS_Subset
<1>2. PICK k \in own : \A l \in own : k <= l
  <2> HIDE DEF own
  <2> QED BY <1>1, LeastOf
<1>3. (1 .. k - 1) \in SUBSET OthersIn(ks, u)  BY <1>2 DEF OthersIn
<1>4. k - 1 \in Nat /\ Cardinality(1 .. k - 1) = k - 1
  <2>1. k - 1 \in Nat  OBVIOUS
  <2> QED BY <2>1, FS_Interval
<1>5. Cardinality(1 .. k - 1) <= Cardinality(OthersIn(ks, u))  BY <1>3, OthersCount, FS_Subset
<1> QED BY <1>2, <1>4, <1>5

\* An entry at the end counts if it is another's.
LEMMA OthersAppended ==
  ASSUME NEW S, NEW ks \in Seq(S), NEW u, NEW v \in S
  PROVE  /\ Append(ks, v) \in Seq(S)
         /\ Cardinality(OthersIn(Append(ks, v), u)) = Cardinality(OthersIn(ks, u)) + IF v = u THEN 0 ELSE 1
<1> DEFINE n == Len(ks) + 1
<1>1. Append(ks, v) \in Seq(S) /\ DOMAIN Append(ks, v) = DOMAIN ks \cup {n} /\ n \notin DOMAIN ks
      /\ \A i \in DOMAIN ks : Append(ks, v)[i] = ks[i]
      /\ Append(ks, v)[n] = v
  OBVIOUS
<1>2. OthersIn(Append(ks, v), u) = IF v = u THEN OthersIn(ks, u) ELSE OthersIn(ks, u) \cup {n}
  BY <1>1 DEF OthersIn
<1>3. n \notin OthersIn(ks, u)  BY <1>1 DEF OthersIn
<1> HIDE DEF n
<1>4. Cardinality(OthersIn(ks, u)) \in Nat /\ IsFiniteSet(OthersIn(ks, u))  BY OthersCount
<1>5. CASE v = u  BY <1>1, <1>2, <1>4, <1>5
<1>6. CASE v # u
  <2>1. Cardinality(OthersIn(ks, u) \cup {n}) = Cardinality(OthersIn(ks, u)) + 1  BY <1>3, <1>4, FS_AddElement
  <2> QED BY <1>1, <1>2, <1>6, <2>1
<1> QED BY <1>5, <1>6

\* What is taken from the front counted if it is another's.
LEMMA OthersLeft ==
  ASSUME NEW S, NEW ks \in Seq(S), NEW u, ks # <<>>
  PROVE  /\ Tail(ks) \in Seq(S) /\ Head(ks) \in S
         /\ Cardinality(OthersIn(Tail(ks), u)) + (IF Head(ks) = u THEN 0 ELSE 1) <= Cardinality(OthersIn(ks, u))
<1>1. /\ Tail(ks) \in Seq(S) /\ Head(ks) \in S /\ Head(ks) = ks[1]
      /\ DOMAIN Tail(ks) = 1 .. Len(ks) - 1 /\ DOMAIN ks = 1 .. Len(ks)
      /\ \A i \in 1 .. Len(ks) - 1 : Tail(ks)[i] = ks[i + 1]
      /\ Len(ks) \in Nat
  OBVIOUS
<1> DEFINE old == OthersIn(ks, u)  new == OthersIn(Tail(ks), u)  rest == old \ {1}
           shift == [i \in new |-> i + 1]
<1>2. \A i \in new : i \in Nat \ {0} /\ i + 1 \in rest  BY <1>1 DEF OthersIn
<1>3. shift \in Injection(new, rest)
  <2>1. shift \in [new -> rest] /\ \A i, j \in new : shift[i] = shift[j] => i = j
    <3> HIDE DEF new, rest
    <3> QED BY <1>2
  <2> HIDE DEF new, rest, shift
  <2> QED BY <2>1 DEF Injection, IsInjective
<1>4. IsFiniteSet(old) /\ Cardinality(old) \in Nat /\ Cardinality(new) \in Nat  BY <1>1, OthersCount
<1>5. 1 \in old <=> Head(ks) # u  BY <1>1 DEF OthersIn
<1> HIDE DEF old, new, shift
<1>6. IsFiniteSet(rest) /\ Cardinality(rest) = IF 1 \in old THEN Cardinality(old) - 1 ELSE Cardinality(old)
  BY <1>4, FS_RemoveElement
<1> HIDE DEF rest
<1>7. Cardinality(new) <= Cardinality(rest)  BY <1>3, <1>6, FS_Injection
<1>8. Cardinality(new) + (IF Head(ks) = u THEN 0 ELSE 1) <= Cardinality(old)  BY <1>4, <1>5, <1>6, <1>7
<1> QED BY <1>1, <1>8 DEF old, new

\* A key is near its turn: it has had m visits to its credit, which were too few
\* for its first job, and the turns that others got, and those of the entries
\* ahead of it, are no more than m + 1 times the most entries there were.
Near(ks, credit, cost, turns, most, u) ==
    \E k \in 1 .. Len(ks), m \in Nat :
        /\ ks[k] = u /\ m * Quantum <= credit /\ m * Quantum < cost
        /\ turns + k <= (m + 1) * most + 1

\* Products of numbers, once and for all.
LEMMA Products ==
  ASSUME NEW m \in Nat, NEW p \in Nat
  PROVE  /\ (m + 1) * p \in Nat /\ m * p \in Nat /\ (m + 1) * p = m * p + p /\ 0 * p = 0 /\ (0 + 1) * p = p
         /\ \A q \in Nat : p <= q => (m + 1) * p <= (m + 1) * q
<1>1. m * p \in Nat /\ (m + 1) * p \in Nat /\ (m + 1) * p = m * p + p /\ 0 * p = 0 /\ (0 + 1) * p = p  OBVIOUS
<1>2. ASSUME NEW q \in Nat, p <= q PROVE (m + 1) * p <= (m + 1) * q
  <2>1. PICK d \in Nat : q = p + d  BY <1>2
  <2>2. (m + 1) * q = (m + 1) * p + (m + 1) * d /\ (m + 1) * d \in Nat  BY <2>1
  <2> QED BY <1>1, <2>2
<1> QED BY <1>1, <1>2

\* A bound on what is near is the property.
LEMMA NearIsFair ==
  ASSUME NEW ks, NEW u, NEW credit \in Nat, NEW cost \in Nat \ {0}, NEW turns \in Nat, NEW most \in Nat,
         Near(ks, credit, cost, turns, most, u), Len(ks) \in Nat
  PROVE  turns <= ((cost + Quantum - 1) \div Quantum) * most
<1>1. PICK k \in 1 .. Len(ks), m \in Nat :
         m * Quantum < cost /\ turns + k <= (m + 1) * most + 1
  BY DEF Near
<1>2. Quantum \in Nat \ {0}  BY RobinAssumption
<1> DEFINE v == (cost + Quantum - 1) \div Quantum
<1>3. m + 1 <= v /\ v \in Nat
  <2>1. m * Quantum \in Nat /\ (m + 1) * Quantum = m * Quantum + Quantum  BY <1>2
  <2>2. (m + 1) * Quantum <= cost + Quantum - 1  BY <1>1, <1>2, <2>1
  <2>3. v \in Nat /\ cost + Quantum - 1 < (v + 1) * Quantum  BY <1>2
  <2>4. (m + 1) * Quantum < (v + 1) * Quantum  BY <2>1, <2>2, <2>3, <1>2
  <2>5. CASE v < m + 1
    <3> HIDE DEF v
    <3>1. PICK d \in Nat : m = v + d
      <4>1. m - v \in Nat /\ m = v + (m - v)  BY <2>3, <2>5
      <4> QED BY <4>1
    <3>2. (m + 1) * Quantum = (v + 1) * Quantum + d * Quantum /\ d * Quantum \in Nat
      <4>1. m + 1 = (v + 1) + d  BY <3>1, <2>3
      <4>2. ((v + 1) + d) * Quantum = (v + 1) * Quantum + d * Quantum /\ d * Quantum \in Nat  BY <2>3, <1>2
      <4> QED BY <4>1, <4>2
    <3>3. (v + 1) * Quantum \in Nat  BY <2>3, <1>2
    <3> QED BY <2>1, <2>4, <3>2, <3>3
  <2> HIDE DEF v
  <2> QED BY <2>3, <2>5
<1> HIDE DEF v
<1>4. (m + 1) * most <= v * most
  <2>1. PICK d \in Nat : v = m + 1 + d  BY <1>3
  <2>2. v * most = (m + 1) * most + d * most /\ d * most \in Nat  BY <2>1
  <2>3. (m + 1) * most \in Nat  OBVIOUS
  <2> QED BY <2>2, <2>3
<1>5. (m + 1) * most \in Nat /\ v * most \in Nat  BY <1>3
<1>6. turns <= v * most  BY <1>1, <1>4, <1>5
<1> QED BY <1>6 DEF v

\* With the count begun anew a key that is in the list is near its turn.
LEMMA NearFresh ==
  ASSUME NEW S, NEW ks \in Seq(S), NEW u, NEW i \in 1 .. Len(ks), ks[i] = u, NEW credit \in Nat,
         NEW cost \in Nat \ {0}, NEW most \in Nat, Cardinality(OthersIn(ks, u)) <= most
  PROVE  Near(ks, credit, cost, 0, most, u)
<1>1. PICK k \in 1 .. Len(ks) : ks[k] = u /\ k - 1 <= Cardinality(OthersIn(ks, u))  BY FirstAhead
<1>2. 0 * Quantum = 0 /\ (0 + 1) * most = most  BY RobinAssumption
<1>3. Cardinality(OthersIn(ks, u)) \in Nat /\ k \in Nat  BY OthersCount
<1>4. 0 \in Nat /\ 0 * Quantum <= credit /\ 0 * Quantum < cost /\ 0 + k <= (0 + 1) * most + 1  BY <1>1, <1>2, <1>3
<1> QED BY <1>1, <1>4 DEF Near

\* Entries that come after it, and more credit, leave it near.
LEMMA NearStays ==
  ASSUME NEW S, NEW ks \in Seq(S), NEW u, NEW v \in S, NEW credit \in Nat, NEW cost \in Nat \ {0}, NEW turns \in Nat,
         NEW most \in Nat, NEW more \in Nat, most <= more, Near(ks, credit, cost, turns, most, u)
  PROVE  Near(ks, credit, cost, turns, more, u) /\ Near(Append(ks, v), credit, cost, turns, more, u)
<1>1. PICK k \in 1 .. Len(ks), m \in Nat :
        /\ ks[k] = u /\ m * Quantum <= credit /\ m * Quantum < cost
        /\ turns + k <= (m + 1) * most + 1
  BY DEF Near
<1>2. (m + 1) * most <= (m + 1) * more /\ (m + 1) * most \in Nat /\ (m + 1) * more \in Nat  BY Products
<1>3. turns + k <= (m + 1) * more + 1  BY <1>1, <1>2
<1>4. k \in 1 .. Len(Append(ks, v)) /\ Append(ks, v)[k] = u  BY <1>1
<1> QED BY <1>1, <1>3, <1>4 DEF Near

\* One entry ahead of it is visited, and may be taken.
LEMMA NearAhead ==
  ASSUME NEW S, NEW ks \in Seq(S), NEW u, NEW v \in S, NEW credit \in Nat, NEW cost \in Nat \ {0}, NEW turns \in Nat,
         NEW most \in Nat, Near(ks, credit, cost, turns, most, u), ks # <<>>, Head(ks) # u
  PROVE  /\ Near(Tail(ks), credit, cost, turns, most, u) /\ Near(Tail(ks), credit, cost, turns + 1, most, u)
         /\ Near(Append(Tail(ks), v), credit, cost, turns, most, u)
<1>1. PICK k \in 1 .. Len(ks), m \in Nat :
        /\ ks[k] = u /\ m * Quantum <= credit /\ m * Quantum < cost
        /\ turns + k <= (m + 1) * most + 1
  BY DEF Near
<1>2. Tail(ks) \in Seq(S) /\ Len(Tail(ks)) = Len(ks) - 1 /\ k # 1  BY <1>1
<1>3. k - 1 \in 1 .. Len(Tail(ks)) /\ Tail(ks)[k - 1] = u  BY <1>1, <1>2
<1>4. (m + 1) * most \in Nat  OBVIOUS
<1>5. turns + 1 + (k - 1) <= (m + 1) * most + 1 /\ turns + (k - 1) <= (m + 1) * most + 1  BY <1>1, <1>4
<1>6. Near(Tail(ks), credit, cost, turns, most, u) /\ Near(Tail(ks), credit, cost, turns + 1, most, u)
  BY <1>1, <1>3, <1>5 DEF Near
<1>7. PICK rest : rest = Tail(ks)  OBVIOUS
<1>8. rest \in Seq(S) /\ Near(rest, credit, cost, turns, most, u)  BY <1>2, <1>6, <1>7
<1>9. Near(Append(rest, v), credit, cost, turns, most, u)
  <2>1. most <= most  OBVIOUS
  <2> QED BY <1>8, <2>1, NearStays
<1> QED BY <1>6, <1>7, <1>9

\* It is visited itself, and its credit does not suffice.
LEMMA NearAgain ==
  ASSUME NEW S, NEW ks, NEW u, NEW credit \in Nat, NEW cost \in Nat \ {0}, NEW turns \in Nat, NEW most \in Nat,
         Near(ks, credit, cost, turns, most, u), Len(ks) \in Nat, credit + Quantum < cost,
         NEW new \in Seq(S), NEW i \in 1 .. Len(new), new[i] = u, Cardinality(OthersIn(new, u)) <= most
  PROVE  Near(new, credit + Quantum, cost, turns, most, u)
<1>1. PICK k \in 1 .. Len(ks), m \in Nat :
        /\ m * Quantum <= credit
        /\ turns + k <= (m + 1) * most + 1
  BY DEF Near
<1>2. PICK l \in 1 .. Len(new) : new[l] = u /\ l - 1 <= Cardinality(OthersIn(new, u))  BY FirstAhead
<1>3. Quantum \in Nat /\ Cardinality(OthersIn(new, u)) \in Nat  BY RobinAssumption, OthersCount
<1>4. (m + 1) * Quantum = m * Quantum + Quantum /\ m * Quantum \in Nat  BY <1>3
<1>5. ((m + 1) + 1) * most = (m + 1) * most + most /\ (m + 1) * most \in Nat  OBVIOUS
<1>6. m + 1 \in Nat /\ (m + 1) * Quantum <= credit + Quantum /\ (m + 1) * Quantum < cost  BY <1>1, <1>3, <1>4
<1>7. turns + l <= ((m + 1) + 1) * most + 1  BY <1>1, <1>2, <1>3, <1>5
<1> QED BY <1>2, <1>6, <1>7 DEF Near

-----------------------------------------------------------------------------
ChatJobs == [user : Users, chat : {ask.chat : ask \in Asks}, cost : Nat \ {0}, status : {"queued", "active", "ended"}]

IsRotation(r) ==
    /\ r = [keys |-> r.keys, listed |-> r.listed, credit |-> r.credit]
    /\ r.keys \in Seq(Users) /\ r.credit \in [Users -> Nat]

RobinShapes ==
    /\ IsRotation(rotation)
    /\ chatjobs \in Seq(ChatJobs) /\ waitlists \in [Users -> Seq(1 .. Len(chatjobs))]
    /\ hand \in [at : {"none", "taken", "checked", "admitted"}, user : Users \cup {Nobody}, job : Nat]
    /\ hand.at # "none" => hand.user \in Users /\ hand.job \in 1 .. Len(chatjobs)
    /\ tally \in [requeues : Nat, restarts : Nat]

Cost(u) == chatjobs[waitlists[u][1]].cost
Counted ==
    \A u \in Users : Waits(u) =>
        /\ Cardinality(OthersIn(rotation.keys, u)) <= passed[u].most
        /\ Near(rotation.keys, rotation.credit[u], Cost(u), passed[u].turns, passed[u].most, u)

RobinInv == RobinShapes /\ passed \in [Users -> [turns : Nat, most : Nat]] /\ Counted

\* What a round has come to after n visits.
Fits(r, n) ==
    /\ r = [keys |-> r.keys, listed |-> r.listed, credit |-> r.credit, taken |-> r.taken]
    /\ r.keys \in Seq(Users) /\ r.credit \in [Users -> Nat] /\ r.taken \in Users \cup {Nobody}
    /\ r.taken = Nobody => Len(rotation.keys) <= Len(r.keys) + n
    /\ r.taken # Nobody => waitlists[r.taken] # <<>>
    /\ \A u \in Users : Waits(u) /\ r.taken # u =>
         /\ Cardinality(OthersIn(r.keys, u)) <= passed[u].most
         /\ Near(r.keys, r.credit[u], Cost(u), passed[u].turns + (IF r.taken = Nobody THEN 0 ELSE 1), passed[u].most, u)

\* A first job has a cost, and the history has numbers.
LEMMA CostIs ==
  ASSUME RobinInv, NEW u \in Users, Waits(u)
  PROVE  /\ Cost(u) \in Nat \ {0} /\ Cost(u) <= MaxCredit /\ waitlists[u] # <<>> /\ waitlists[u][1] \in 1 .. Len(chatjobs)
         /\ passed[u].turns \in Nat /\ passed[u].most \in Nat /\ Sess(waitlists[u][1]) \notin occupied
<1>1. waitlists[u] \in Seq(1 .. Len(chatjobs)) /\ waitlists[u] # <<>>  BY DEF Waits, RobinInv, RobinShapes
<1>2. waitlists[u][1] \in 1 .. Len(chatjobs)  BY <1>1
<1>3. chatjobs[waitlists[u][1]] \in ChatJobs  BY <1>2 DEF RobinInv, RobinShapes
<1> QED BY <1>1, <1>2, <1>3 DEF ChatJobs, Cost, Waits, RobinInv

\* A visit to the first entry.
LEMMA VisitFits ==
  ASSUME RobinInv, NEW n \in Nat, n < Len(rotation.keys), NEW r, Fits(r, n)
  PROVE  Fits(Visit(r), n + 1)
<1>1. CASE r.taken # Nobody
  <2>1. Visit(r) = r  BY <1>1 DEF Visit
  <2> QED BY <1>1, <2>1 DEF Fits
<1>2. CASE r.taken = Nobody
  <2>1. PICK ks, ls, cr : ks = r.keys /\ ls = r.listed /\ cr = r.credit  OBVIOUS
  <2>2. /\ r = [keys |-> ks, listed |-> ls, credit |-> cr, taken |-> Nobody]
        /\ ks \in Seq(Users) /\ cr \in [Users -> Nat] /\ Len(rotation.keys) <= Len(ks) + n
        /\ \A u \in Users : Waits(u) =>
             /\ Cardinality(OthersIn(ks, u)) <= passed[u].most
             /\ Near(ks, cr[u], Cost(u), passed[u].turns, passed[u].most, u)
    <3>1. Nobody \notin Users  BY RobinAssumption
    <3>2. ASSUME NEW u \in Users, Waits(u)
          PROVE  /\ Cardinality(OthersIn(ks, u)) <= passed[u].most
                 /\ Near(ks, cr[u], Cost(u), passed[u].turns, passed[u].most, u)
      <4>1. passed[u].turns + 0 = passed[u].turns  BY <3>2, CostIs
      <4> QED BY <1>2, <2>1, <3>1, <3>2, <4>1 DEF Fits
    <3> QED BY <1>2, <2>1, <3>2 DEF Fits
  <2>3. ks # <<>>
    <3>1. Len(rotation.keys) \in Nat  BY DEF RobinInv, RobinShapes, IsRotation
    <3> QED BY <2>2, <3>1
  <2>4. PICK h, t : h = Head(ks) /\ t = Tail(ks)  OBVIOUS
  <2>5. h \in Users /\ t \in Seq(Users) /\ Len(t) = Len(ks) - 1 /\ Append(t, h) \in Seq(Users) /\ Len(Append(t, h)) = Len(ks)
        /\ Append(t, h)[Len(ks)] = h /\ Len(ks) \in Nat \ {0}
    BY <2>2, <2>3, <2>4
  <2>6. \A u \in Users : /\ Cardinality(OthersIn(t, u)) <= Cardinality(OthersIn(ks, u))
                         /\ Cardinality(OthersIn(Append(t, h), u)) <= Cardinality(OthersIn(ks, u))
                         /\ Cardinality(OthersIn(t, u)) \in Nat /\ Cardinality(OthersIn(ks, u)) \in Nat
    <3>1. ASSUME NEW u \in Users
          PROVE  /\ Cardinality(OthersIn(t, u)) <= Cardinality(OthersIn(ks, u))
                 /\ Cardinality(OthersIn(Append(t, h), u)) <= Cardinality(OthersIn(ks, u))
                 /\ Cardinality(OthersIn(t, u)) \in Nat /\ Cardinality(OthersIn(ks, u)) \in Nat
      <4>1. Cardinality(OthersIn(t, u)) + (IF h = u THEN 0 ELSE 1) <= Cardinality(OthersIn(ks, u))
        BY <2>2, <2>3, <2>4, OthersLeft
      <4>2. Cardinality(OthersIn(Append(t, h), u)) = Cardinality(OthersIn(t, u)) + (IF h = u THEN 0 ELSE 1)
        BY <2>5, OthersAppended
      <4>3. Cardinality(OthersIn(t, u)) \in Nat /\ Cardinality(OthersIn(ks, u)) \in Nat  BY <2>2, <2>5, OthersCount
      <4> QED BY <4>1, <4>2, <4>3
    <3> QED BY <3>1
  <2>7. ASSUME NEW u \in Users, Waits(u), u # h
        PROVE  /\ Near(t, cr[u], Cost(u), passed[u].turns, passed[u].most, u)
               /\ Near(t, cr[u], Cost(u), passed[u].turns + 1, passed[u].most, u)
               /\ Near(Append(t, h), cr[u], Cost(u), passed[u].turns, passed[u].most, u)
    <3>1. Cost(u) \in Nat \ {0} /\ passed[u].turns \in Nat /\ passed[u].most \in Nat  BY <2>7, CostIs
    <3>2. Near(ks, cr[u], Cost(u), passed[u].turns, passed[u].most, u) /\ cr[u] \in Nat  BY <2>2, <2>7
    <3> QED BY <2>2, <2>3, <2>4, <2>5, <2>7, <3>1, <3>2, NearAhead
  <2>8. PICK paid : paid = IF cr[h] + Quantum > MaxCredit THEN MaxCredit ELSE cr[h] + Quantum  OBVIOUS
  <2>9. paid \in Nat /\ cr[h] \in Nat  BY <2>2, <2>5, <2>8, RobinAssumption
  <2>10. CASE waitlists[h] = <<>>
    <3> DEFINE q == [keys |-> t, listed |-> ls \ {h}, credit |-> [cr EXCEPT ![h] = 0], taken |-> Nobody]
    <3>1. Visit(r) = q  BY <2>2, <2>4, <2>10 DEF Visit, Unlist
    <3>2. \A u \in Users : Waits(u) => u # h  BY <2>10 DEF Waits
    <3>3. /\ q.keys = t /\ q.credit \in [Users -> Nat] /\ q.taken = Nobody
          /\ q = [keys |-> q.keys, listed |-> q.listed, credit |-> q.credit, taken |-> q.taken]
          /\ \A u \in Users : u # h => q.credit[u] = cr[u]
      BY <2>2, <2>5
    <3> HIDE DEF q
    <3>4. \A u \in Users : Waits(u) => passed[u].turns + 0 = passed[u].turns /\ passed[u].most \in Nat  BY CostIs
    <3>5. Len(rotation.keys) <= Len(t) + (n + 1) /\ Nobody \notin Users
      BY <2>2, <2>5, RobinAssumption DEF RobinInv, RobinShapes, IsRotation
    <3>6. \A u \in Users : Waits(u) => Cardinality(OthersIn(t, u)) <= passed[u].most  BY <2>2, <2>6, <3>4
    <3>7. \A u \in Users : Waits(u) => Near(q.keys, q.credit[u], Cost(u), passed[u].turns + 0, passed[u].most, u)
      BY <2>7, <3>2, <3>3, <3>4
    <3>8. Fits(q, n + 1)  BY <2>5, <3>3, <3>5, <3>6, <3>7 DEF Fits
    <3> QED BY <3>1, <3>8
  <2>11. CASE waitlists[h] # <<>> /\ (paid < Cost(h) \/ Sess(waitlists[h][1]) \in occupied)
    <3> DEFINE q == [keys |-> Append(t, h), listed |-> ls, credit |-> [cr EXCEPT ![h] = paid], taken |-> Nobody]
    <3>1. Visit(r) = q  BY <2>2, <2>4, <2>8, <2>11 DEF Visit, Cost
    <3>2. /\ q.keys = Append(t, h) /\ q.credit \in [Users -> Nat] /\ q.taken = Nobody
          /\ q = [keys |-> q.keys, listed |-> q.listed, credit |-> q.credit, taken |-> q.taken]
          /\ \A u \in Users : u # h => q.credit[u] = cr[u]
          /\ q.credit[h] = paid
      BY <2>2, <2>5, <2>9
    <3> HIDE DEF q
    <3>3. \A u \in Users : Waits(u) => passed[u].turns + 0 = passed[u].turns /\ passed[u].most \in Nat  BY CostIs
    <3>4. Waits(h) => Near(Append(t, h), paid, Cost(h), passed[h].turns, passed[h].most, h)
      <4> SUFFICES ASSUME Waits(h) PROVE Near(Append(t, h), paid, Cost(h), passed[h].turns, passed[h].most, h)  OBVIOUS
      <4>1. /\ Cost(h) \in Nat \ {0} /\ Cost(h) <= MaxCredit /\ passed[h].turns \in Nat /\ passed[h].most \in Nat
            /\ Sess(waitlists[h][1]) \notin occupied
        BY <2>5, CostIs
      <4>2. paid = cr[h] + Quantum /\ cr[h] + Quantum < Cost(h)  BY <2>8, <2>9, <2>11, <4>1, RobinAssumption
      <4>3. Near(ks, cr[h], Cost(h), passed[h].turns, passed[h].most, h) /\ Cardinality(OthersIn(ks, h)) <= passed[h].most
        BY <2>2, <2>5
      <4>4. Cardinality(OthersIn(Append(t, h), h)) <= passed[h].most
        <5>1. Cardinality(OthersIn(Append(t, h), h)) \in Nat  BY <2>5, OthersCount
        <5> QED BY <2>5, <2>6, <4>1, <4>3, <5>1
      <4>5. PICK new : new = Append(t, h)  OBVIOUS
      <4>6. new \in Seq(Users) /\ Len(ks) \in 1 .. Len(new) /\ new[Len(ks)] = h  BY <2>5, <4>5
      <4>7. Near(new, cr[h] + Quantum, Cost(h), passed[h].turns, passed[h].most, h)
        BY <2>5, <2>9, <4>1, <4>2, <4>3, <4>4, <4>5, <4>6, NearAgain
      <4> QED BY <4>2, <4>5, <4>7
    <3>5. Len(rotation.keys) <= Len(Append(t, h)) + (n + 1) /\ Nobody \notin Users
      BY <2>2, <2>5, RobinAssumption DEF RobinInv, RobinShapes, IsRotation
    <3>6. \A u \in Users : Waits(u) => Cardinality(OthersIn(Append(t, h), u)) <= passed[u].most
      <4>1. ASSUME NEW u \in Users, Waits(u) PROVE Cardinality(OthersIn(Append(t, h), u)) <= passed[u].most
        <5>1. Cardinality(OthersIn(Append(t, h), u)) \in Nat  BY <2>5, OthersCount
        <5> QED BY <2>2, <2>6, <3>3, <4>1, <5>1
      <4> QED BY <4>1
    <3>7. Fits(q, n + 1)
      <4>1. ASSUME NEW u \in Users, Waits(u) PROVE Near(q.keys, q.credit[u], Cost(u), passed[u].turns + 0, passed[u].most, u)
        BY <2>7, <3>2, <3>3, <3>4, <4>1
      <4> QED BY <2>5, <3>2, <3>5, <3>6, <4>1 DEF Fits
    <3> QED BY <3>1, <3>7
  <2>12. CASE waitlists[h] # <<>> /\ ~ (paid < Cost(h) \/ Sess(waitlists[h][1]) \in occupied)
    <3> DEFINE q == [keys |-> t, listed |-> ls \ {h}, credit |-> [cr EXCEPT ![h] = paid], taken |-> h]
    <3>1. Visit(r) = q  BY <2>2, <2>4, <2>8, <2>12 DEF Visit, Unlist, Cost
    <3>2. /\ q.keys = t /\ q.credit \in [Users -> Nat] /\ q.taken = h
          /\ q = [keys |-> q.keys, listed |-> q.listed, credit |-> q.credit, taken |-> q.taken]
          /\ \A u \in Users : u # h => q.credit[u] = cr[u]
      BY <2>2, <2>5, <2>9
    <3> HIDE DEF q
    <3>3. \A u \in Users : Waits(u) => passed[u].most \in Nat  BY CostIs
    <3>4. h # Nobody  BY <2>5, RobinAssumption
    <3>5. \A u \in Users : Waits(u) => Cardinality(OthersIn(t, u)) <= passed[u].most  BY <2>2, <2>6, <3>3
    <3>6. \A u \in Users : Waits(u) /\ u # h => Near(q.keys, q.credit[u], Cost(u), passed[u].turns + 1, passed[u].most, u)
      BY <2>7, <3>2
    <3>7. Fits(q, n + 1)  BY <2>5, <2>12, <3>2, <3>4, <3>5, <3>6 DEF Fits
    <3> QED BY <3>1, <3>7
  <2> QED BY <2>10, <2>11, <2>12
<1> QED BY <1>1, <1>2

\* Facts about the numbers up to n that hold of 0 and are passed on hold of all.
LEMMA UpTo ==
  ASSUME NEW n \in Nat, NEW T, 0 \in T, \A k \in 0 .. n : k # n /\ k \in T => k + 1 \in T
  PROVE  \A k \in 0 .. n : k \in T
<1> DEFINE bad == (0 .. n) \ T
<1>1. CASE bad = {}  BY <1>1
<1>2. CASE bad # {}
  <2>1. bad \in SUBSET Nat /\ IsFiniteSet(bad)
    <3>1. IsFiniteSet(0 .. n)  BY FS_Interval
    <3> QED BY <3>1, FS_Subset
  <2>2. PICK x \in bad : \A y \in bad : x <= y
    <3> HIDE DEF bad
    <3> QED BY <1>2, <2>1, LeastOf
  <2>3. x # 0 /\ x - 1 \in 0 .. n /\ x - 1 # n /\ (x - 1) + 1 = x  OBVIOUS
  <2>4. x - 1 \in T
    <3>1. x - 1 \notin bad  BY <2>2, <2>3
    <3> QED BY <2>3, <3>1
  <2> QED BY <2>3, <2>4
<1> QED BY <1>1, <1>2

\* The visits of a round exist, one after the other.
Trail(k, f, start) == f = [n \in 0 .. k |-> IF n = 0 THEN start ELSE Visit(f[n - 1])]

\* By one visit more at a time.
LEMMA TrailExists == ASSUME NEW n \in Nat, NEW start PROVE \E f : Trail(n, f, start)
<1> DEFINE good == {k \in 0 .. n : \E f : Trail(k, f, start)}
<1>1. 0 \in good
  <2>1. Trail(0, [k \in 0 .. 0 |-> start], start)  BY DEF Trail
  <2> QED BY <2>1
<1>2. ASSUME NEW k \in 0 .. n, k # n, k \in good PROVE k + 1 \in good
  <2>1. PICK f : Trail(k, f, start)  BY <1>2
  <2> DEFINE g == [i \in 0 .. k + 1 |-> IF i = k + 1 THEN Visit(f[k]) ELSE f[i]]
  <2>2. \A i \in 0 .. k + 1 : g[i] = IF i = 0 THEN start ELSE Visit(g[i - 1])
    <3>1. ASSUME NEW i \in 0 .. k + 1 PROVE g[i] = IF i = 0 THEN start ELSE Visit(g[i - 1])
      <4>1. CASE i = 0
        <5>1. f[0] = start  BY <2>1 DEF Trail
        <5> QED BY <4>1, <5>1
      <4>2. CASE i # 0 /\ i # k + 1
        <5>1. i \in 0 .. k /\ i - 1 \in 0 .. k /\ i - 1 # k + 1  BY <4>2
        <5>2. f[i] = Visit(f[i - 1])  BY <2>1, <4>2, <5>1 DEF Trail
        <5>3. g[i] = f[i] /\ g[i - 1] = f[i - 1]  BY <4>2, <5>1
        <5> QED BY <4>2, <5>2, <5>3
      <4>3. CASE i = k + 1
        <5>1. i - 1 = k /\ k \in 0 .. k + 1 /\ k # k + 1 /\ i # 0  BY <4>3
        <5>2. g[i] = Visit(f[k]) /\ g[i - 1] = f[k]  BY <4>3, <5>1
        <5> QED BY <5>1, <5>2
      <4> QED BY <4>1, <4>2, <4>3
    <3> QED BY <3>1
  <2>3. Trail(k + 1, g, start)
    <3>1. g = [i \in 0 .. k + 1 |-> g[i]]  OBVIOUS
    <3> HIDE DEF g
    <3> QED BY <2>2, <3>1 DEF Trail
  <2>4. k + 1 \in 0 .. n  BY <1>2
  <2> QED BY <2>3, <2>4
<1>3. n \in good
  <2> HIDE DEF good
  <2> QED BY <1>1, <1>2, UpTo
<1> QED BY <1>3

\* A round ends with as many visits as there were entries.
LEMMA RoundFits == ASSUME RobinInv PROVE Fits(Round, Len(rotation.keys))
<1> DEFINE start == [keys |-> rotation.keys, listed |-> rotation.listed, credit |-> rotation.credit, taken |-> Nobody]
           f == CHOOSE f : Trail(Len(rotation.keys), f, start)
<1>1. PICK n \in Nat : n = Len(rotation.keys)
  <2>1. rotation.keys \in Seq(Users)  BY DEF RobinInv, RobinShapes, IsRotation
  <2>2. Len(rotation.keys) \in Nat  BY <2>1
  <2> QED BY <2>2
<1>2. Round = f[Len(rotation.keys)]  BY DEF Round, Trail
<1>3. Trail(n, f, start)
  <2> HIDE DEF start
  <2>1. \E g : Trail(n, g, start)  BY TrailExists
  <2> QED BY <1>1, <2>1
<1>4. Fits(start, 0)
  <2>1. /\ start.keys = rotation.keys /\ start.credit = rotation.credit /\ start.taken = Nobody
        /\ start = [keys |-> start.keys, listed |-> start.listed, credit |-> start.credit, taken |-> start.taken]
    OBVIOUS
  <2>2. rotation.keys \in Seq(Users) /\ rotation.credit \in [Users -> Nat]  BY DEF RobinInv, RobinShapes, IsRotation
  <2>3. \A u \in Users : Waits(u) => passed[u].turns + 0 = passed[u].turns  BY CostIs
  <2> HIDE DEF start
  <2> QED BY <2>1, <2>2, <2>3 DEF Fits, RobinInv, Counted
<1> HIDE DEF f
<1>5. f[0] = start /\ \A k \in 0 .. n : k # 0 => f[k] = Visit(f[k - 1])  BY <1>3 DEF Trail
<1> HIDE DEF start
<1> DEFINE good == {k \in 0 .. n : Fits(f[k], k)}
<1>6. 0 \in good  BY <1>4, <1>5
<1>7. ASSUME NEW k \in 0 .. n, k # n, k \in good PROVE k + 1 \in good
  <2>1. k \in Nat /\ k < n /\ k + 1 \in 0 .. n /\ k + 1 # 0 /\ (k + 1) - 1 = k  BY <1>7
  <2>2. PICK r : r = f[k] /\ Fits(r, k)  BY <1>7
  <2>3. Fits(Visit(r), k + 1)  BY <1>1, <2>1, <2>2, VisitFits
  <2>4. f[k + 1] = Visit(r)  BY <1>5, <2>1, <2>2
  <2> QED BY <2>1, <2>3, <2>4
<1>8. n \in good
  <2> HIDE DEF good
  <2> QED BY <1>6, <1>7, UpTo
<1> QED BY <1>1, <1>2, <1>8

-----------------------------------------------------------------------------
\* What the history makes of a step, for a key whose first job waits after it.
Goes(u) ==
    /\ Waits(u) /\ Waits(u)' /\ ~Takes(u)
    /\ waitlists'[u][1] = waitlists[u][1] /\ tally'.restarts = tally.restarts
TakenFrom(u) == \E v \in Users \ {u} : Takes(v)

\* If those who go on waiting stay near, the invariant holds again.
LEMMA WatchCounts ==
  ASSUME RobinInv, RobinShapes', Watch,
         \A u \in Users : Goes(u) =>
           Near(rotation'.keys, rotation'.credit[u], Cost(u)', passed[u].turns + (IF TakenFrom(u) THEN 1 ELSE 0),
                passed[u].most, u)
  PROVE  RobinInv'
<1>1. \A u \in Users : Cardinality(OthersIn(rotation'.keys, u)) \in Nat  BY OthersCount DEF RobinShapes, IsRotation
<1>2. \A u \in Users : OthersEntries(u)' = Cardinality(OthersIn(rotation'.keys, u))  BY DEF OthersEntries, OthersIn
<1> DEFINE others(u) == Cardinality(OthersIn(rotation'.keys, u))
           most(u) == IF others(u) > passed[u].most THEN others(u) ELSE passed[u].most
           turns(u) == passed[u].turns + IF TakenFrom(u) THEN 1 ELSE 0
<1>3. /\ DOMAIN passed' = Users /\ passed' = [u \in Users |-> passed'[u]]
      /\ \A u \in Users : passed'[u] = IF Goes(u) THEN [turns |-> turns(u), most |-> most(u)]
                                       ELSE [turns |-> 0, most |-> others(u)]
  BY <1>2 DEF Watch, Goes, TakenFrom
<1>4. \A u \in Users : passed[u].turns \in Nat /\ passed[u].most \in Nat  BY DEF RobinInv
<1>5. \A u \in Users : others(u) \in Nat /\ most(u) \in Nat /\ turns(u) \in Nat /\ others(u) <= most(u) /\ passed[u].most <= most(u)
  BY <1>1, <1>4
<1>6. passed' \in [Users -> [turns : Nat, most : Nat]]
  <2> HIDE DEF others, most, turns
  <2>1. \A u \in Users : passed'[u] \in [turns : Nat, most : Nat]  BY <1>3, <1>5
  <2> QED BY <1>3, <2>1
<1>7. ASSUME NEW u \in Users, Waits(u)'
      PROVE  /\ Cardinality(OthersIn(rotation'.keys, u)) <= passed'[u].most
             /\ Near(rotation'.keys, rotation'.credit[u], Cost(u)', passed'[u].turns, passed'[u].most, u)
  <2>1. /\ rotation'.keys \in Seq(Users) /\ rotation'.credit[u] \in Nat /\ Cost(u)' \in Nat \ {0}
        /\ \E i \in 1 .. Len(rotation'.keys) : rotation'.keys[i] = u
    <3>1. waitlists'[u] \in Seq(1 .. Len(chatjobs')) /\ waitlists'[u] # <<>>  BY <1>7 DEF Waits, RobinShapes
    <3>2. waitlists'[u][1] \in 1 .. Len(chatjobs')  BY <3>1
    <3>3. chatjobs'[waitlists'[u][1]] \in ChatJobs  BY <3>2 DEF RobinShapes
    <3>4. \E i \in 1 .. Len(rotation'.keys) : rotation'.keys[i] = u  BY <1>7 DEF Waits, Contains
    <3> QED BY <3>3, <3>4 DEF ChatJobs, Cost, RobinShapes, IsRotation
  <2>2. PICK ks, cr, co, t, p, q : /\ ks = rotation'.keys /\ cr = rotation'.credit[u] /\ co = Cost(u)'
                                   /\ t = turns(u) /\ p = passed[u].most /\ q = most(u)
    OBVIOUS
  <2>3. CASE Goes(u)
    <3>1. passed'[u].turns = t /\ passed'[u].most = q  BY <1>3, <2>2, <2>3
    <3>2. Near(ks, cr, co, t, p, u)  BY <2>2, <2>3
    <3>3. t \in Nat /\ p \in Nat /\ q \in Nat /\ p <= q /\ Cardinality(OthersIn(ks, u)) <= q  BY <1>4, <1>5, <2>2
    <3> HIDE DEF others, most, turns
    <3>4. ks \in Seq(Users) /\ cr \in Nat /\ co \in Nat \ {0}  BY <2>1, <2>2
    <3>5. Near(ks, cr, co, t, q, u)  BY <3>2, <3>3, <3>4, NearStays
    <3> QED BY <2>2, <3>1, <3>3, <3>5
  <2>4. CASE ~ Goes(u)
    <3>1. passed'[u].turns = 0 /\ passed'[u].most = Cardinality(OthersIn(ks, u)) /\ Cardinality(OthersIn(ks, u)) \in Nat
      BY <1>1, <1>3, <2>2, <2>4
    <3> HIDE DEF others, most, turns
    <3>2. ks \in Seq(Users) /\ cr \in Nat /\ co \in Nat \ {0} /\ \E i \in 1 .. Len(ks) : ks[i] = u  BY <2>1, <2>2
    <3>3. PICK n : n = Cardinality(OthersIn(ks, u)) /\ n \in Nat /\ Cardinality(OthersIn(ks, u)) <= n  BY <3>1
    <3>4. Near(ks, cr, co, 0, n, u)  BY <3>2, <3>3, NearFresh
    <3> QED BY <2>2, <3>1, <3>3, <3>4
  <2> QED BY <2>3, <2>4
<1>8. Counted'
  <2> HIDE DEF others, most, turns
  <2> QED BY <1>7 DEF Counted
<1> QED BY <1>6, <1>8 DEF RobinInv

\* The steps that are no round and no restart: keys enter at the end only, and a
\* credit is charged only when the first job is admitted, whose session is
\* occupied from then on.
Quiet ==
    /\ rotation'.keys = rotation.keys \/ \E v \in Users : rotation'.keys = Append(rotation.keys, v)
    /\ \A j \in 1 .. Len(chatjobs) : chatjobs'[j].cost = chatjobs[j].cost
    /\ ~ (hand.at = "none" /\ hand'.at = "taken")
    /\ \A u \in Users : \/ rotation'.credit[u] = rotation.credit[u]
                        \/ \E h : h = waitlists[u][1] /\ Sess(h)' \in occupied'

\* A quiet step leaves who waits where it is.
LEMMA QuietCounts == ASSUME RobinInv, RobinShapes', Watch, Quiet PROVE RobinInv'
<1>1. ASSUME NEW u \in Users, Goes(u)
      PROVE  Near(rotation'.keys, rotation'.credit[u], Cost(u)', passed[u].turns + (IF TakenFrom(u) THEN 1 ELSE 0),
                  passed[u].most, u)
  <2>1. ~ TakenFrom(u)  BY DEF Quiet, TakenFrom, Takes
  <2>2. /\ Cost(u) \in Nat \ {0} /\ passed[u].turns \in Nat /\ passed[u].most \in Nat
        /\ waitlists[u] # <<>> /\ waitlists[u][1] \in 1 .. Len(chatjobs)
    BY <1>1, CostIs DEF Goes
  <2>3. Cost(u)' = Cost(u)  BY <1>1, <2>2 DEF Cost, Quiet, Goes
  <2>4. rotation'.credit[u] = rotation.credit[u]
    <3>1. PICK h : h = waitlists[u][1] /\ h = waitlists'[u][1]  BY <1>1 DEF Goes
    <3>2. Sess(h)' \notin occupied'  BY <1>1, <3>1 DEF Goes, Waits, Sess
    <3> QED BY <3>1, <3>2 DEF Quiet
  <2>5. /\ Near(rotation.keys, rotation.credit[u], Cost(u), passed[u].turns, passed[u].most, u)
        /\ rotation.keys \in Seq(Users) /\ rotation.credit[u] \in Nat
    BY <1>1 DEF Goes, RobinInv, RobinShapes, IsRotation, Counted
  <2>6. passed[u].most <= passed[u].most /\ passed[u].turns + 0 = passed[u].turns  BY <2>2
  <2>7. CASE rotation'.keys = rotation.keys  BY <2>1, <2>3, <2>4, <2>5, <2>6, <2>7
  <2>8. ASSUME NEW v \in Users, rotation'.keys = Append(rotation.keys, v)
        PROVE  Near(rotation'.keys, rotation.credit[u], Cost(u), passed[u].turns, passed[u].most, u)
    BY <2>2, <2>5, <2>6, <2>8, NearStays
  <2> QED BY <2>1, <2>3, <2>4, <2>6, <2>7, <2>8 DEF Quiet
<1> QED BY <1>1, WatchCounts

\* A round: who was visited and refused has more credit, who was passed over is
\* further to the front.
LEMMA SelectCounts == ASSUME RobinInv, SelectNext, Watch PROVE RobinInv'
<1>1. PICK r : r = Round /\ Fits(r, Len(rotation.keys))  BY RoundFits
<1>2. /\ hand = EmptyHand /\ UNCHANGED <<chatjobs, waitlists, occupied, tally>>
      /\ rotation' = [keys |-> r.keys, listed |-> r.listed, credit |-> r.credit]
      /\ hand' = IF r.taken = Nobody THEN EmptyHand ELSE [at |-> "taken", user |-> r.taken, job |-> waitlists[r.taken][1]]
  BY <1>1 DEF SelectNext
<1>3. r.keys \in Seq(Users) /\ r.credit \in [Users -> Nat] /\ r.taken \in Users \cup {Nobody} /\ Nobody \notin Users
      /\ (r.taken # Nobody => waitlists[r.taken] # <<>>)
  BY <1>1, RobinAssumption DEF Fits
<1>4. RobinShapes'
  <2>1. IsRotation(rotation)'  BY <1>2, <1>3 DEF IsRotation
  <2>2. CASE r.taken = Nobody
    <3>1. hand' = hand  BY <1>2, <2>2
    <3> QED BY <1>2, <2>1, <3>1 DEF RobinInv, RobinShapes
  <2>3. CASE r.taken # Nobody
    <3>1. r.taken \in Users /\ waitlists[r.taken] \in Seq(1 .. Len(chatjobs)) /\ waitlists[r.taken] # <<>>
      BY <1>3, <2>3 DEF RobinInv, RobinShapes
    <3>2. waitlists[r.taken][1] \in 1 .. Len(chatjobs) /\ Len(chatjobs) \in Nat
      BY <3>1 DEF RobinInv, RobinShapes
    <3>3. hand' = [at |-> "taken", user |-> r.taken, job |-> waitlists[r.taken][1]]  BY <1>2, <2>3
    <3>4. hand' \in [at : {"none", "taken", "checked", "admitted"}, user : Users \cup {Nobody}, job : Nat]
          /\ hand'.user \in Users /\ hand'.job \in 1 .. Len(chatjobs)
      BY <3>1, <3>2, <3>3
    <3> QED BY <1>2, <2>1, <3>4 DEF RobinInv, RobinShapes
  <2> QED BY <2>2, <2>3
<1>5. ASSUME NEW u \in Users, Goes(u)
      PROVE  Near(rotation'.keys, rotation'.credit[u], Cost(u)', passed[u].turns + (IF TakenFrom(u) THEN 1 ELSE 0),
                  passed[u].most, u)
  <2>1. Waits(u) /\ Cost(u)' = Cost(u) /\ rotation'.keys = r.keys /\ rotation'.credit = r.credit
    BY <1>2, <1>5 DEF Goes, Cost
  <2>2. r.taken # u  BY <1>2, <1>3, <1>5 DEF Goes, Takes, EmptyHand
  <2>3. TakenFrom(u) <=> r.taken # Nobody  BY <1>2, <1>3, <2>2 DEF TakenFrom, Takes, EmptyHand
  <2>4. Near(r.keys, r.credit[u], Cost(u), passed[u].turns + (IF r.taken = Nobody THEN 0 ELSE 1), passed[u].most, u)
    BY <1>1, <2>1, <2>2 DEF Fits
  <2>5. CASE r.taken = Nobody  BY <2>1, <2>3, <2>4, <2>5
  <2>6. CASE r.taken # Nobody  BY <2>1, <2>3, <2>4, <2>6
  <2> QED BY <2>5, <2>6
<1> QED BY <1>4, <1>5, WatchCounts

\* A restart begins the counts anew; the queues and the rotation are as the jobs
\* are numbered.
LEMMA RestartCounts == ASSUME RobinInv, RestartRobin, Watch PROVE RobinInv'
<1>1. PICK gone \in SUBSET {j \in DOMAIN chatjobs : chatjobs[j].status = "active"} :
        chatjobs' = [j \in DOMAIN chatjobs |->
                       IF j \in gone THEN [chatjobs[j] EXCEPT !.status = "ended"]
                       ELSE IF chatjobs[j].status = "active" THEN [chatjobs[j] EXCEPT !.status = "queued"]
                       ELSE chatjobs[j]]
  BY DEF RestartRobin
<1>2. chatjobs' \in Seq(ChatJobs) /\ Len(chatjobs') = Len(chatjobs)
  <2>1. chatjobs \in Seq(ChatJobs) /\ Len(chatjobs) \in Nat /\ DOMAIN chatjobs = 1 .. Len(chatjobs)
    BY DEF RobinInv, RobinShapes
  <2>2. \A j \in 1 .. Len(chatjobs) : chatjobs[j] \in ChatJobs  BY <2>1
  <2>3. \A j \in 1 .. Len(chatjobs) : chatjobs'[j] \in ChatJobs  BY <1>1, <2>1, <2>2 DEF ChatJobs
  <2>4. PICK n \in Nat : n = Len(chatjobs)  BY <2>1
  <2>5. chatjobs' = [j \in 1 .. n |-> chatjobs'[j]]  BY <1>1, <2>1, <2>4
  <2>6. chatjobs' \in [1 .. n -> ChatJobs]  BY <2>3, <2>4, <2>5
  <2> QED BY <2>4, <2>6
<1> DEFINE restored == {j \in DOMAIN chatjobs : chatjobs'[j].status = "queued"}
           Of(u) == {j \in restored : chatjobs[j].user = u}
           firsts == {j \in restored : \A i \in Of(chatjobs[j].user) : j <= i}
<1>3. /\ waitlists' = [u \in Users |-> InOrder(Of(u))]
      /\ rotation' = [keys |-> Selected([j \in DOMAIN chatjobs |-> chatjobs[j].user], firsts),
                      listed |-> {u \in Users : Of(u) # {}}, credit |-> NoRotation.credit]
      /\ hand' = EmptyHand /\ Trouble("restarts")
  BY DEF RestartRobin, LayDown
<1>4. PICK n \in Nat : n = Len(chatjobs) /\ DOMAIN chatjobs = 1 .. n /\ \A j \in 1 .. n : chatjobs[j].user \in Users
  <2>1. chatjobs \in Seq(ChatJobs)  BY DEF RobinInv, RobinShapes
  <2>2. Len(chatjobs) \in Nat /\ DOMAIN chatjobs = 1 .. Len(chatjobs) /\ \A j \in 1 .. Len(chatjobs) : chatjobs[j] \in ChatJobs
    BY <2>1
  <2> QED BY <2>2 DEF ChatJobs
<1>5. ASSUME NEW T \in SUBSET (1 .. n) PROVE InOrder(T) \in Seq(T) /\ InOrder(T) \in Seq(1 .. n)
  <2>1. T \in SUBSET Nat /\ IsFiniteSet(T)
    <3>1. PICK s : s = 1 .. n /\ IsFiniteSet(s)  BY FS_Interval
    <3>2. T \in SUBSET s  BY <1>5, <3>1
    <3>3. IsFiniteSet(T)  BY <3>1, <3>2, FS_Subset
    <3>4. T \in SUBSET Nat  BY <3>1, <3>2
    <3> QED BY <3>3, <3>4
  <2>2. /\ Cardinality(T) \in Nat /\ InOrder(T) = [k \in 1 .. Cardinality(T) |-> InOrder(T)[k]]
        /\ \A k \in 1 .. Cardinality(T) : InOrder(T)[k] \in T
    <3>1. InOrder(T) = [k \in 1 .. Cardinality(T) |-> InOrder(T)[k]]  BY DEF InOrder
    <3> QED BY <2>1, <3>1, InOrderIs
  <2>3. PICK c \in Nat : c = Cardinality(T)  BY <2>2
  <2>4. InOrder(T) \in [1 .. c -> T] /\ InOrder(T) \in [1 .. c -> 1 .. n]  BY <2>2, <2>3
  <2> QED BY <2>4
<1>6. waitlists' \in [Users -> Seq(1 .. Len(chatjobs'))]
  <2>1. \A u \in Users : Of(u) \in SUBSET (1 .. n)  BY <1>4
  <2> HIDE DEF Of
  <2> QED BY <1>2, <1>3, <1>4, <1>5, <2>1
<1>7. IsRotation(rotation)'
  <2> DEFINE names == [j \in DOMAIN chatjobs |-> chatjobs[j].user]
  <2>1. firsts \in SUBSET (1 .. n)  BY <1>4
  <2>2. PICK c \in Nat : InOrder(firsts) \in [1 .. c -> 1 .. n]
    <3> HIDE DEF firsts
    <3>1. InOrder(firsts) \in Seq(1 .. n)  BY <1>5, <2>1
    <3>2. InOrder(firsts) \in [1 .. Len(InOrder(firsts)) -> 1 .. n] /\ Len(InOrder(firsts)) \in Nat  BY <3>1
    <3> QED BY <3>2
  <2>3. names \in [1 .. n -> Users]  BY <1>4
  <2>4. Selected(names, firsts) \in [1 .. c -> Users]
    <3> HIDE DEF firsts, names
    <3> QED BY <2>2, <2>3 DEF Selected
  <2>5. Selected(names, firsts) \in Seq(Users)
    <3> HIDE DEF firsts, names
    <3> QED BY <2>4
  <2>6. NoRotation.credit \in [Users -> Nat]  BY DEF NoRotation
  <2>7. rotation'.keys = Selected(names, firsts) /\ rotation'.credit = NoRotation.credit
        /\ rotation' = [keys |-> rotation'.keys, listed |-> rotation'.listed, credit |-> rotation'.credit]
    BY <1>3
  <2> HIDE DEF firsts, names
  <2> QED BY <2>5, <2>6, <2>7 DEF IsRotation
<1>8. tally' \in [requeues : Nat, restarts : Nat] /\ tally'.restarts # tally.restarts
  <2>1. PICK a \in Nat, b \in Nat : tally = [requeues |-> a, restarts |-> b]  BY DEF RobinInv, RobinShapes
  <2>2. tally' = [requeues |-> a, restarts |-> b + 1]  BY <1>3, <2>1 DEF Trouble
  <2> QED BY <2>1, <2>2
<1>9. RobinShapes'
  <2>1. hand' \in [at : {"none", "taken", "checked", "admitted"}, user : Users \cup {Nobody}, job : Nat] /\ hand'.at = "none"
    BY <1>3 DEF EmptyHand
  <2> HIDE DEF restored
  <2> QED BY <1>2, <1>6, <1>7, <1>8, <2>1 DEF RobinShapes
<1>10. \A u \in Users : ~ Goes(u)  BY <1>8 DEF Goes
<1> QED BY <1>9, <1>10, WatchCounts

-----------------------------------------------------------------------------
\* A queue without a job is a queue of the same jobs.
LEMMA QueueWithout == ASSUME NEW S, NEW s \in Seq(S), NEW e PROVE RemoveFirst(s, e) \in Seq(S)
<1>1. CASE ~ \E i \in 1 .. Len(s) : s[i] = e  BY <1>1 DEF RemoveFirst
<1>2. CASE \E i \in 1 .. Len(s) : s[i] = e
  <2> DEFINE places == {i \in 1 .. Len(s) : s[i] = e}
  <2>1. Len(s) \in Nat /\ \A i \in 1 .. Len(s) : s[i] \in S  BY LenProperties, ElementOfSeq
  <2>2. PICK m \in places : m = Min(places)
    <3>1. IsFiniteSet(1 .. Len(s))  BY <2>1, FS_Interval
    <3>2. places \in SUBSET (1 .. Len(s)) /\ places \in SUBSET Nat /\ places # {}  BY <1>2, <2>1
    <3> HIDE DEF places
    <3>3. \E x \in places : \A y \in places : x <= y  BY <3>1, <3>2, FS_Subset, LeastOf
    <3> QED BY <3>3 DEF Min
  <2>3. RemoveFirst(s, e) = SubSeq(s, 1, m - 1) \o SubSeq(s, m + 1, Len(s))
    BY <1>2, <2>2 DEF RemoveFirst, RemoveAt, SelectInSeq
  <2>4. m \in 1 .. Len(s)  BY <2>2
  <2> HIDE DEF places
  <2>5. SubSeq(s, 1, m - 1) \in Seq(S) /\ SubSeq(s, m + 1, Len(s)) \in Seq(S)
    BY <2>1, <2>4, SubSeqProperties
  <2> QED BY <2>3, <2>5, ConcatProperties
<1> QED BY <1>1, <1>2

\* What the operations on the rotation do to it.
Extended(r, q) == IsRotation(q) /\ q.credit = r.credit /\ (q.keys = r.keys \/ \E v \in Users : q.keys = Append(r.keys, v))

\* A change of the fields of a rotation.
LEMMA Relisted ==
  ASSUME NEW r, NEW ks, NEW ls, NEW cr, r = [keys |-> ks, listed |-> ls, credit |-> cr], NEW k, NEW l
  PROVE  /\ [r EXCEPT !.listed = l] = [keys |-> ks, listed |-> l, credit |-> cr]
         /\ [r EXCEPT !.keys = k, !.listed = l] = [keys |-> k, listed |-> l, credit |-> cr]
<1> DEFINE fields == {"keys", "listed", "credit"}
<1>1. DOMAIN r = fields /\ r["keys"] = ks /\ r["listed"] = ls /\ r["credit"] = cr  OBVIOUS
<1>2. [r EXCEPT !.listed = l] = [f \in fields |-> IF f = "listed" THEN l ELSE r[f]]  BY <1>1
<1>3. [keys |-> ks, listed |-> l, credit |-> cr] = [f \in fields |-> IF f = "listed" THEN l ELSE r[f]]  BY <1>1
<1>4. [r EXCEPT !.keys = k, !.listed = l] = [f \in fields |-> IF f = "listed" THEN l ELSE IF f = "keys" THEN k ELSE r[f]]
  BY <1>1
<1>5. [keys |-> k, listed |-> l, credit |-> cr] = [f \in fields |-> IF f = "listed" THEN l ELSE IF f = "keys" THEN k ELSE r[f]]
  BY <1>1
<1> QED BY <1>2, <1>3, <1>4, <1>5

\* Each of them enters a key at its end, if at all.
LEMMA Listings ==
  ASSUME NEW r, IsRotation(r), NEW v \in Users
  PROVE  /\ Extended(r, r) /\ Extended(r, Ask(r, v)) /\ Extended(r, Reenter(r, v)) /\ Extended(r, Unlist(r, v))
         /\ Extended(r, Ask(Unlist(r, v), v))
<1>1. PICK ks, ls, cr : r = [keys |-> ks, listed |-> ls, credit |-> cr] /\ ks \in Seq(Users) /\ cr \in [Users -> Nat]
  BY DEF IsRotation
<1>2. Append(ks, v) \in Seq(Users)  BY <1>1
<1>3. \A k, l : k = ks \/ k = Append(ks, v) => Extended(r, [keys |-> k, listed |-> l, credit |-> cr])
  BY <1>1, <1>2 DEF Extended, IsRotation
<1>4. Reenter(r, v) = [keys |-> Append(ks, v), listed |-> ls \cup {v}, credit |-> cr]
  <2>1. Reenter(r, v) = [r EXCEPT !.keys = Append(r.keys, v), !.listed = r.listed \cup {v}]  BY DEF Reenter
  <2>2. r.keys = ks /\ r.listed = ls  BY <1>1
  <2> QED BY <1>1, <2>1, <2>2, Relisted
<1>5. Unlist(r, v) = [keys |-> ks, listed |-> ls \ {v}, credit |-> cr]
  <2>1. Unlist(r, v) = [r EXCEPT !.listed = r.listed \ {v}]  BY DEF Unlist
  <2>2. r.listed = ls  BY <1>1
  <2> QED BY <1>1, <2>1, <2>2, Relisted
<1>6. Ask(r, v) = r \/ Ask(r, v) = Reenter(r, v)  BY DEF Ask, Reenter
<1>7. PICK q : q = Unlist(r, v)  OBVIOUS
<1>8. Reenter(q, v) = [keys |-> Append(ks, v), listed |-> (ls \ {v}) \cup {v}, credit |-> cr]
  <2>1. Reenter(q, v) = [q EXCEPT !.keys = Append(q.keys, v), !.listed = q.listed \cup {v}]  BY DEF Reenter
  <2>2. q = [keys |-> ks, listed |-> ls \ {v}, credit |-> cr] /\ q.keys = ks /\ q.listed = ls \ {v}  BY <1>5, <1>7
  <2> QED BY <2>1, <2>2, Relisted
<1>9. Ask(q, v) = q \/ Ask(q, v) = Reenter(q, v)  BY DEF Ask, Reenter
<1>10. Extended(r, r) /\ Extended(r, Reenter(r, v)) /\ Extended(r, q) /\ Extended(r, Reenter(q, v))
  BY <1>1, <1>3, <1>4, <1>5, <1>7, <1>8
<1> QED BY <1>6, <1>7, <1>9, <1>10

\* Jobs are added, and keep their costs.
JobsKept ==
    /\ chatjobs' \in Seq(ChatJobs) /\ Len(chatjobs) <= Len(chatjobs')
    /\ \A j \in 1 .. Len(chatjobs) : chatjobs'[j].cost = chatjobs[j].cost

\* A job changes its status and nothing else.
LEMMA MarkKeeps ==
  ASSUME RobinInv, NEW j \in 1 .. Len(chatjobs), NEW st \in {"queued", "active", "ended"}, Mark(j, st)
  PROVE  JobsKept /\ Len(chatjobs') = Len(chatjobs) /\ Sess(j)' = Sess(j)
<1>1. PICK n \in Nat : n = Len(chatjobs) /\ chatjobs \in [1 .. n -> ChatJobs]
  <2>1. chatjobs \in Seq(ChatJobs)  BY DEF RobinInv, RobinShapes
  <2>2. Len(chatjobs) \in Nat /\ chatjobs \in [1 .. Len(chatjobs) -> ChatJobs]  BY <2>1
  <2> QED BY <2>2
<1>2. PICK new : new = [chatjobs[j] EXCEPT !.status = st]  OBVIOUS
<1>3. chatjobs[j] \in ChatJobs /\ new \in ChatJobs /\ new.cost = chatjobs[j].cost /\ new.user = chatjobs[j].user
      /\ new.chat = chatjobs[j].chat
  BY <1>1, <1>2 DEF ChatJobs
<1>4. chatjobs' = [chatjobs EXCEPT ![j] = new]  BY <1>2 DEF Mark
<1>5. chatjobs' \in [1 .. n -> ChatJobs]  BY <1>1, <1>3, <1>4
<1>6. chatjobs' \in Seq(ChatJobs) /\ Len(chatjobs') = n  BY <1>5
<1>7. \A i \in 1 .. n : chatjobs'[i].cost = chatjobs[i].cost  BY <1>1, <1>3, <1>4
<1> QED BY <1>1, <1>3, <1>4, <1>6, <1>7 DEF JobsKept, Sess

\* A step that leaves the jobs alone keeps them.
LEMMA SameJobs == ASSUME RobinInv, UNCHANGED chatjobs PROVE JobsKept /\ Len(chatjobs') = Len(chatjobs)
<1>1. chatjobs \in Seq(ChatJobs)  BY DEF RobinInv, RobinShapes
<1>2. Len(chatjobs) \in Nat  BY <1>1
<1> QED BY <1>1, <1>2 DEF JobsKept

\* One queue changes.
LEMMA QueueChanges ==
  ASSUME RobinInv, NEW u \in Users, NEW q \in Seq(1 .. Len(chatjobs)), waitlists' = [waitlists EXCEPT ![u] = q],
         Len(chatjobs') = Len(chatjobs)
  PROVE  waitlists' \in [Users -> Seq(1 .. Len(chatjobs'))]
BY DEF RobinInv, RobinShapes

\* The scheduler's hand is as before, empty, or one step further.
HandKept ==
    \/ hand' = hand
    \/ hand' = EmptyHand
    \/ hand.at # "none" /\ \E s \in {"checked", "admitted"} : hand' = [hand EXCEPT !.at = s]
TallyKept == UNCHANGED tally \/ Trouble("requeues")

\* With those parts a step is a quiet one.
LEMMA Quietly ==
  ASSUME RobinInv, IsRotation(rotation'), rotation'.keys = rotation.keys \/ \E v \in Users : rotation'.keys = Append(rotation.keys, v),
         JobsKept, waitlists' \in [Users -> Seq(1 .. Len(chatjobs'))], HandKept, TallyKept,
         \A u \in Users : \/ rotation'.credit[u] = rotation.credit[u]
                          \/ \E h : h = waitlists[u][1] /\ Sess(h)' \in occupied'
  PROVE  RobinShapes' /\ Quiet
<1>1. /\ hand' \in [at : {"none", "taken", "checked", "admitted"}, user : Users \cup {Nobody}, job : Nat]
      /\ hand'.at # "none" => hand'.user = hand.user /\ hand'.job = hand.job /\ hand.at # "none"
      /\ ~ (hand.at = "none" /\ hand'.at = "taken")
  <2>1. PICK a, b, c : hand = [at |-> a, user |-> b, job |-> c] /\ a \in {"none", "taken", "checked", "admitted"}
                       /\ b \in Users \cup {Nobody} /\ c \in Nat
    BY DEF RobinInv, RobinShapes
  <2>2. hand' = hand \/ hand' = EmptyHand \/ (a # "none" /\ \E s \in {"checked", "admitted"} : hand' = [at |-> s, user |-> b, job |-> c])
    BY <2>1 DEF HandKept
  <2> QED BY <2>1, <2>2 DEF EmptyHand
<1>2. tally' \in [requeues : Nat, restarts : Nat]
  <2>1. PICK a \in Nat, b \in Nat : tally = [requeues |-> a, restarts |-> b]  BY DEF RobinInv, RobinShapes
  <2>2. tally' = tally \/ tally' = [requeues |-> a + 1, restarts |-> b]  BY <2>1 DEF TallyKept, Trouble
  <2> QED BY <2>1, <2>2
<1>3. hand'.at # "none" => hand'.user \in Users /\ hand'.job \in 1 .. Len(chatjobs')
  <2>1. Len(chatjobs) \in Nat /\ Len(chatjobs') \in Nat /\ Len(chatjobs) <= Len(chatjobs')
    BY DEF JobsKept, RobinInv, RobinShapes
  <2>2. hand.at # "none" => hand.user \in Users /\ hand.job \in 1 .. Len(chatjobs)  BY DEF RobinInv, RobinShapes
  <2> QED BY <1>1, <2>1, <2>2
<1>4. RobinShapes'  BY <1>1, <1>2, <1>3 DEF RobinShapes, JobsKept
<1> QED BY <1>1, <1>4 DEF Quiet, JobsKept

\* The quiet steps that charge no credit.
LEMMA Uncharged ==
  ASSUME RobinInv, NEW q, Extended(rotation, q), rotation' = q, JobsKept, HandKept, TallyKept,
         waitlists' \in [Users -> Seq(1 .. Len(chatjobs'))]
  PROVE  RobinShapes' /\ Quiet
<1>1. IsRotation(rotation') /\ rotation'.credit = rotation.credit
      /\ (rotation'.keys = rotation.keys \/ \E v \in Users : rotation'.keys = Append(rotation.keys, v))
  BY DEF Extended
<1> QED BY <1>1, Quietly

\* No queue changes.
LEMMA SameQueues ==
  ASSUME RobinInv, UNCHANGED waitlists, Len(chatjobs') = Len(chatjobs)
  PROVE  waitlists' \in [Users -> Seq(1 .. Len(chatjobs'))]
BY DEF RobinInv, RobinShapes

\* A job's owner is a user, and its queue one of jobs.
LEMMA OwnerIs ==
  ASSUME RobinInv, NEW j \in 1 .. Len(chatjobs)
  PROVE  chatjobs[j].user \in Users /\ waitlists[chatjobs[j].user] \in Seq(1 .. Len(chatjobs))
<1>1. chatjobs \in Seq(ChatJobs)  BY DEF RobinInv, RobinShapes
<1>2. chatjobs[j] \in ChatJobs  BY <1>1
<1> QED BY <1>2 DEF ChatJobs, RobinInv, RobinShapes

\* A queue stays one when more jobs exist.
LEMMA WiderQueue == ASSUME NEW S, NEW T, S \subseteq T, NEW q \in Seq(S) PROVE q \in Seq(T)
<1>1. Len(q) \in Nat /\ q \in [1 .. Len(q) -> S]  OBVIOUS
<1>2. q \in [1 .. Len(q) -> T]  BY <1>1
<1> QED BY <1>1, <1>2

\* A job is created.
LEMMA CreateQuiet == ASSUME RobinInv, NEW ask \in Asks, CreateRound(ask) PROVE RobinShapes' /\ Quiet
<1> DEFINE made == [user |-> ask.user, chat |-> ask.chat, cost |-> ask.cost, status |-> "queued"]
<1>1. ask.user \in Users /\ ask.cost \in Nat \ {0}  BY RobinAssumption
<1>2. made \in ChatJobs  BY <1>1 DEF ChatJobs
<1> HIDE DEF made
<1>3. chatjobs \in Seq(ChatJobs) /\ Len(chatjobs) \in Nat  BY DEF RobinInv, RobinShapes
<1>4. chatjobs' = Append(chatjobs, made)  BY DEF CreateRound, made
<1>5. JobsKept /\ Len(chatjobs') = Len(chatjobs) + 1  BY <1>2, <1>3, <1>4 DEF JobsKept
<1>6. waitlists' \in [Users -> Seq(1 .. Len(chatjobs'))]
  <2>1. PICK n, u, m : n = Len(chatjobs) /\ n \in Nat /\ u = ask.user /\ m = Len(chatjobs')  BY <1>3
  <2>2. waitlists \in [Users -> Seq(1 .. n)] /\ waitlists' = [waitlists EXCEPT ![u] = Append(waitlists[u], n + 1)] /\ m = n + 1
    BY <1>5, <2>1 DEF CreateRound, RobinInv, RobinShapes
  <2>3. \A q \in Seq(1 .. n) : q \in Seq(1 .. m) /\ Append(q, n + 1) \in Seq(1 .. m)
    <3>1. ASSUME NEW q \in Seq(1 .. n) PROVE q \in Seq(1 .. m) /\ Append(q, n + 1) \in Seq(1 .. m)
      <4>1. PICK old, new : old = 1 .. n /\ new = 1 .. m  OBVIOUS
      <4>2. old \subseteq new /\ n + 1 \in new  BY <2>1, <2>2, <4>1
      <4>3. q \in Seq(old)  BY <4>1
      <4>4. q \in Seq(new)  BY <4>2, <4>3, WiderQueue
      <4>5. Append(q, n + 1) \in Seq(new)  BY <4>2, <4>4
      <4> QED BY <4>1, <4>4, <4>5
    <3> QED BY <3>1
  <2>4. waitlists' \in [Users -> Seq(1 .. m)]  BY <2>2, <2>3
  <2> QED BY <2>1, <2>4
<1>7. Extended(rotation, Ask(rotation, ask.user))  BY <1>1, Listings DEF RobinInv, RobinShapes
<1>8. rotation' = Ask(rotation, ask.user) /\ UNCHANGED <<hand, tally>>  BY DEF CreateRound
<1> QED BY <1>5, <1>6, <1>7, <1>8, Uncharged DEF HandKept, TallyKept

\* A queued job is cancelled.
LEMMA CancelQuiet == ASSUME RobinInv, NEW j \in DOMAIN chatjobs, CancelQueued(j) PROVE RobinShapes' /\ Quiet
<1>1. j \in 1 .. Len(chatjobs)
  <2>1. chatjobs \in Seq(ChatJobs)  BY DEF RobinInv, RobinShapes
  <2> QED BY <2>1
<1>2. JobsKept /\ Len(chatjobs') = Len(chatjobs)  BY <1>1, MarkKeeps DEF CancelQueued
<1>3. PICK u, q : u = chatjobs[j].user /\ q = RemoveFirst(waitlists[u], j)  OBVIOUS
<1>4. u \in Users /\ q \in Seq(1 .. Len(chatjobs))  BY <1>1, <1>3, OwnerIs, QueueWithout
<1>5. waitlists' = [waitlists EXCEPT ![u] = q]  BY <1>3 DEF CancelQueued
<1>6. waitlists' \in [Users -> Seq(1 .. Len(chatjobs'))]  BY <1>2, <1>4, <1>5, QueueChanges
<1>7. Extended(rotation, rotation)  BY <1>4, Listings DEF RobinInv, RobinShapes
<1>8. UNCHANGED <<rotation, hand, tally>>  BY DEF CancelQueued
<1> QED BY <1>2, <1>6, <1>7, <1>8, Uncharged DEF HandKept, TallyKept

\* A job ends, or its execution leaves the session.
LEMMA EndQuiet == ASSUME RobinInv, NEW j \in DOMAIN chatjobs, EndJob(j) \/ LeaveSession(j) PROVE RobinShapes' /\ Quiet
<1>1. j \in 1 .. Len(chatjobs)
  <2>1. chatjobs \in Seq(ChatJobs)  BY DEF RobinInv, RobinShapes
  <2> QED BY <2>1
<1>2. JobsKept /\ Len(chatjobs') = Len(chatjobs)  BY <1>1, MarkKeeps, SameJobs DEF EndJob, LeaveSession
<1>3. UNCHANGED <<rotation, waitlists, hand, tally>>  BY DEF EndJob, LeaveSession
<1>4. Extended(rotation, rotation)  BY <1>1, OwnerIs, Listings DEF RobinInv, RobinShapes
<1> QED BY <1>2, <1>3, <1>4, SameQueues, Uncharged DEF HandKept, TallyKept

\* A job is queued again.
LEMMA RequeueQuiet == ASSUME RobinInv, NEW j \in DOMAIN chatjobs, RequeueJob(j) PROVE RobinShapes' /\ Quiet
<1>1. j \in 1 .. Len(chatjobs)
  <2>1. chatjobs \in Seq(ChatJobs)  BY DEF RobinInv, RobinShapes
  <2> QED BY <2>1
<1>2. JobsKept /\ Len(chatjobs') = Len(chatjobs)  BY <1>1, MarkKeeps DEF RequeueJob
<1>3. PICK u, w, q : u = chatjobs[j].user /\ w = waitlists[u] /\ q = IF Contains(w, j) THEN w ELSE <<j>> \o w  OBVIOUS
<1>4. u \in Users /\ q \in Seq(1 .. Len(chatjobs))
  <2>1. u \in Users /\ w \in Seq(1 .. Len(chatjobs))  BY <1>1, <1>3, OwnerIs
  <2>2. <<j>> \o w \in Seq(1 .. Len(chatjobs))
    <3>1. <<j>> \in Seq(1 .. Len(chatjobs))  BY <1>1
    <3> QED BY <2>1, <3>1, ConcatProperties
  <2> QED BY <1>3, <2>1, <2>2
<1>5. waitlists' = [waitlists EXCEPT ![u] = q] /\ rotation' = Ask(rotation, u) /\ Trouble("requeues") /\ UNCHANGED hand
  BY <1>3 DEF RequeueJob
<1>6. waitlists' \in [Users -> Seq(1 .. Len(chatjobs'))]  BY <1>2, <1>4, <1>5, QueueChanges
<1>7. Extended(rotation, Ask(rotation, u))  BY <1>4, Listings DEF RobinInv, RobinShapes
<1> QED BY <1>2, <1>5, <1>6, <1>7, Uncharged DEF HandKept, TallyKept

\* What the scheduler does with what it has taken.
LEMMA HandQuiet ==
  ASSUME RobinInv, LoadFails \/ CheckRow \/ LockRefused \/ AdmissionLost \/ FinishDispatch
  PROVE  RobinShapes' /\ Quiet
<1>1. hand.at # "none" /\ hand.user \in Users /\ UNCHANGED <<chatjobs, waitlists, tally>>
  BY DEF LoadFails, CheckRow, LockRefused, AdmissionLost, FinishDispatch, RobinInv, RobinShapes
<1>2. HandKept  BY <1>1 DEF HandKept, LoadFails, CheckRow, LockRefused, AdmissionLost, FinishDispatch, LayDown
<1>3. rotation' = rotation \/ rotation' = Reenter(rotation, hand.user) \/ rotation' = Unlist(rotation, hand.user)
  BY DEF LoadFails, CheckRow, LockRefused, AdmissionLost, FinishDispatch
<1>4. PICK u : u = hand.user  OBVIOUS
<1>5. Extended(rotation, rotation) /\ Extended(rotation, Reenter(rotation, u)) /\ Extended(rotation, Unlist(rotation, u))
  BY <1>1, <1>4, Listings DEF RobinInv, RobinShapes
<1>6. JobsKept /\ Len(chatjobs') = Len(chatjobs)  BY <1>1, SameJobs
<1>7. Extended(rotation, rotation')  BY <1>3, <1>4, <1>5
<1>8. waitlists' \in [Users -> Seq(1 .. Len(chatjobs'))]  BY <1>1, <1>6, SameQueues
<1>9. PICK q : q = rotation' /\ Extended(rotation, q)  BY <1>7
<1> QED BY <1>1, <1>2, <1>6, <1>8, <1>9, Uncharged DEF TallyKept

\* A job that is no longer queued is dropped.
LEMMA DropQuiet == ASSUME RobinInv, DropStale PROVE RobinShapes' /\ Quiet
<1>1. PICK u, j : u = hand.user /\ j = hand.job  OBVIOUS
<1>2. u \in Users /\ j \in 1 .. Len(chatjobs)  BY <1>1 DEF DropStale, RobinInv, RobinShapes
<1>3. HandKept /\ UNCHANGED tally  BY DEF DropStale, LayDown, HandKept
<1>4. JobsKept /\ Len(chatjobs') = Len(chatjobs)  BY <1>1, <1>2, MarkKeeps, SameJobs DEF DropStale
<1>5. PICK w : w = waitlists[u]  OBVIOUS
<1>6. w \in Seq(1 .. Len(chatjobs))  BY <1>2, <1>5 DEF RobinInv, RobinShapes
<1>7. waitlists' \in [Users -> Seq(1 .. Len(chatjobs'))]
  <2>1. CASE TakenHead
    <3>1. w # <<>>  BY <1>1, <1>5, <2>1 DEF TakenHead
    <3>2. Tail(w) \in Seq(1 .. Len(chatjobs))  BY <1>6, <3>1
    <3>3. waitlists' = [waitlists EXCEPT ![u] = Tail(w)]  BY <1>1, <1>5, <2>1 DEF DropStale
    <3> QED BY <1>2, <1>4, <3>2, <3>3, QueueChanges
  <2>2. CASE ~ TakenHead
    <3>1. UNCHANGED waitlists  BY <2>2 DEF DropStale
    <3> QED BY <1>4, <3>1, SameQueues
  <2> QED BY <2>1, <2>2
<1>8. rotation' = Ask(Unlist(rotation, u), u) \/ rotation' = Unlist(rotation, u)  BY <1>1 DEF DropStale
<1>9. Extended(rotation, Ask(Unlist(rotation, u), u)) /\ Extended(rotation, Unlist(rotation, u))
  BY <1>2, Listings DEF RobinInv, RobinShapes
<1>10. PICK q : q = rotation' /\ Extended(rotation, q)  BY <1>8, <1>9
<1> QED BY <1>3, <1>4, <1>7, <1>10, Uncharged DEF TallyKept

\* The only step that charges a credit.
LEMMA AdmitQuiet == ASSUME RobinInv, Admit PROVE RobinShapes' /\ Quiet
<1>1. PICK u, j : u = hand.user /\ j = hand.job  OBVIOUS
<1>2. u \in Users /\ j \in 1 .. Len(chatjobs) /\ hand.at # "none"  BY <1>1 DEF Admit, RobinInv, RobinShapes
<1>3. HandKept /\ UNCHANGED tally  BY <1>2 DEF Admit, HandKept
<1>4. JobsKept /\ Len(chatjobs') = Len(chatjobs) /\ Sess(j)' = Sess(j)
  <2>1. Mark(j, "active")  BY <1>1 DEF Admit
  <2> QED BY <1>2, <2>1, MarkKeeps
<1>5. PICK w : w = waitlists[u]  OBVIOUS
<1>6. w # <<>> /\ w[1] = j /\ waitlists' = [waitlists EXCEPT ![u] = Tail(w)] /\ w \in Seq(1 .. Len(chatjobs))
  BY <1>1, <1>2, <1>5 DEF Admit, TakenHead, RobinInv, RobinShapes
<1>7. waitlists' \in [Users -> Seq(1 .. Len(chatjobs'))]
  <2>1. Tail(w) \in Seq(1 .. Len(chatjobs))  BY <1>6
  <2> QED BY <1>2, <1>4, <1>6, <2>1, QueueChanges
<1>8. PICK ks, ls, cr : rotation = [keys |-> ks, listed |-> ls, credit |-> cr] /\ ks \in Seq(Users) /\ cr \in [Users -> Nat]
  BY DEF RobinInv, RobinShapes, IsRotation
<1>9. PICK c : c = Charged(cr[u], chatjobs[j].cost)  OBVIOUS
<1>10. c \in Nat
  <2>1. chatjobs \in Seq(ChatJobs)  BY DEF RobinInv, RobinShapes
  <2>2. chatjobs[j] \in ChatJobs  BY <1>2, <2>1
  <2>3. cr[u] \in Nat /\ chatjobs[j].cost \in Nat  BY <1>2, <1>8, <2>2 DEF ChatJobs
  <2> QED BY <1>9, <2>3 DEF Charged
<1>11. rotation' = [rotation EXCEPT !.credit = [cr EXCEPT ![u] = c]]  BY <1>1, <1>8, <1>9 DEF Admit
<1>12. /\ rotation'.keys = ks /\ rotation'.credit = [cr EXCEPT ![u] = c]
       /\ rotation' = [keys |-> ks, listed |-> ls, credit |-> [cr EXCEPT ![u] = c]]
  BY <1>8, <1>11
<1>13. IsRotation(rotation') /\ rotation'.keys = rotation.keys
  BY <1>2, <1>8, <1>10, <1>12 DEF IsRotation
<1>14. \A v \in Users : \/ rotation'.credit[v] = rotation.credit[v]
                        \/ \E h : h = waitlists[v][1] /\ Sess(h)' \in occupied'
  <2>1. Sess(j)' \in occupied'  BY <1>1, <1>4 DEF Admit
  <2>2. \A v \in Users : v # u => rotation'.credit[v] = rotation.credit[v]  BY <1>2, <1>8, <1>12
  <2>3. j = waitlists[u][1]  BY <1>5, <1>6
  <2> QED BY <2>1, <2>2, <2>3
<1> QED BY <1>3, <1>4, <1>7, <1>13, <1>14, Quietly DEF TallyKept

\* A dispatch fails.
LEMMA FailQuiet == ASSUME RobinInv, FailDispatch PROVE RobinShapes' /\ Quiet
<1>1. PICK u, j : u = hand.user /\ j = hand.job  OBVIOUS
<1>2. u \in Users /\ j \in 1 .. Len(chatjobs)  BY <1>1 DEF FailDispatch, RobinInv, RobinShapes
<1>3. HandKept /\ TallyKept  BY DEF FailDispatch, LayDown, HandKept, TallyKept
<1>4. JobsKept /\ Len(chatjobs') = Len(chatjobs)
  <2>1. Mark(j, "ended") \/ Mark(j, "queued") \/ UNCHANGED chatjobs  BY <1>1 DEF FailDispatch
  <2> QED BY <1>2, <2>1, MarkKeeps, SameJobs
<1>5. PICK w, q : w = waitlists[u] /\ q = <<j>> \o w  OBVIOUS
<1>6. q \in Seq(1 .. Len(chatjobs))
  <2>1. w \in Seq(1 .. Len(chatjobs))  BY <1>2, <1>5 DEF RobinInv, RobinShapes
  <2>2. <<j>> \in Seq(1 .. Len(chatjobs))  BY <1>2
  <2> QED BY <1>5, <2>1, <2>2, ConcatProperties
<1>7. UNCHANGED waitlists \/ waitlists' = [waitlists EXCEPT ![u] = q]  BY <1>1, <1>5 DEF FailDispatch
<1>8. waitlists' \in [Users -> Seq(1 .. Len(chatjobs'))]  BY <1>2, <1>4, <1>6, <1>7, QueueChanges, SameQueues
<1>9. UNCHANGED rotation \/ rotation' = Ask(rotation, u)  BY <1>1 DEF FailDispatch
<1>10. Extended(rotation, rotation) /\ Extended(rotation, Ask(rotation, u))  BY <1>2, Listings DEF RobinInv, RobinShapes
<1>11. PICK r : r = rotation' /\ Extended(rotation, r)  BY <1>9, <1>10
<1> QED BY <1>3, <1>4, <1>8, <1>11, Uncharged

-----------------------------------------------------------------------------
\* At first nobody waits.
LEMMA RobinStart == RobinInit => RobinInv
<1> SUFFICES ASSUME RobinInit PROVE RobinInv  OBVIOUS
<1>1. IsRotation(rotation) /\ rotation.keys = <<>>  BY DEF RobinInit, NoRotation, IsRotation
<1>2. Len(chatjobs) = 0 /\ chatjobs \in Seq(ChatJobs) /\ waitlists \in [Users -> Seq(1 .. Len(chatjobs))]
  BY DEF RobinInit
<1>3. hand = [at |-> "none", user |-> Nobody, job |-> 0]  BY DEF RobinInit, EmptyHand
<1>4. RobinShapes  BY <1>1, <1>2, <1>3 DEF RobinInit, RobinShapes
<1>5. Counted  BY DEF Counted, Waits, RobinInit
<1> QED BY <1>4, <1>5 DEF RobinInit, RobinInv

\* Each step is a round, a restart or a quiet one.
LEMMA RobinKept == RobinInv /\ [RobinNext]_robinvars => RobinInv'
<1> SUFFICES ASSUME RobinInv, [RobinNext]_robinvars PROVE RobinInv'  OBVIOUS
<1>1. CASE UNCHANGED robinvars
  <2>1. RobinShapes' /\ passed' = passed  BY <1>1 DEF robinvars, RobinInv, RobinShapes, IsRotation
  <2>2. Counted'  BY <1>1 DEF robinvars, RobinInv, Counted, Waits, Sess, Cost
  <2> QED BY <2>1, <2>2 DEF RobinInv
<1>2. CASE RobinNext
  <2>1. Watch /\ RobinStep  BY <1>2 DEF RobinNext
  <2>2. CASE SelectNext  BY <2>1, <2>2, SelectCounts
  <2>3. CASE RestartRobin  BY <2>1, <2>3, RestartCounts
  <2>4. ASSUME RobinShapes' /\ Quiet PROVE RobinInv'  BY <2>1, <2>4, QuietCounts
  <2>5. ASSUME NEW ask \in Asks, CreateRound(ask) PROVE RobinInv'  BY <2>4, <2>5, CreateQuiet
  <2>6. ASSUME NEW j \in DOMAIN chatjobs, CancelQueued(j) PROVE RobinInv'  BY <2>4, <2>6, CancelQuiet
  <2>7. ASSUME NEW j \in DOMAIN chatjobs, EndJob(j) \/ LeaveSession(j) PROVE RobinInv'  BY <2>4, <2>7, EndQuiet
  <2>8. ASSUME NEW j \in DOMAIN chatjobs, RequeueJob(j) PROVE RobinInv'  BY <2>4, <2>8, RequeueQuiet
  <2>9. CASE LoadFails \/ CheckRow \/ LockRefused \/ AdmissionLost \/ FinishDispatch  BY <2>4, <2>9, HandQuiet
  <2>10. CASE DropStale  BY <2>4, <2>10, DropQuiet
  <2>11. CASE Admit  BY <2>4, <2>11, AdmitQuiet
  <2>12. CASE FailDispatch  BY <2>4, <2>12, FailQuiet
  <2> QED BY <2>1, <2>2, <2>3, <2>5, <2>6, <2>7, <2>8, <2>9, <2>10, <2>11, <2>12 DEF RobinStep
<1> QED BY <1>1, <1>2

\* For any users, jobs, costs, quantum and limits: as long as only its turn and its
\* credit keep the first job of a user back, the others get no more turns than
\* they have entries in the rotation, as often as the credit needs visits
\* (_select_next_candidate, agent_jobs.py).
THEOREM TurnsStayFair == RobinSpec => []TurnsAreFair
<1>1. RobinInv => TurnsAreFair
  <2> SUFFICES ASSUME RobinInv, NEW u \in Users, Waits(u) PROVE passed[u].turns <= Visits(u) * passed[u].most
    BY DEF TurnsAreFair
  <2>1. Cost(u) \in Nat \ {0} /\ passed[u].turns \in Nat /\ passed[u].most \in Nat  BY CostIs
  <2>2. /\ Near(rotation.keys, rotation.credit[u], Cost(u), passed[u].turns, passed[u].most, u)
        /\ rotation.credit[u] \in Nat /\ Len(rotation.keys) \in Nat
    BY DEF RobinInv, RobinShapes, IsRotation, Counted
  <2>3. passed[u].turns <= ((Cost(u) + Quantum - 1) \div Quantum) * passed[u].most  BY <2>1, <2>2, NearIsFair
  <2> QED BY <2>3 DEF Visits, Cost
<1> QED BY <1>1, RobinStart, RobinKept, PTL DEF RobinSpec

-----------------------------------------------------------------------------
(* Folds and lists *)

\* A fact that holds of no element, and of a set if it holds without the one
\* that is taken from it, holds of all parts of a finite set.
LEMMA PartByPart ==
  ASSUME NEW S, IsFiniteSet(S), NEW c, \A T \in SUBSET S : T # {} => c[T] \in T,
         NEW G, {} \in G, \A T \in SUBSET S : T # {} /\ T \ {c[T]} \in G => T \in G
  PROVE  S \in G
<1> DEFINE n == Cardinality(S)
           good == {k \in 0 .. n : \A T \in SUBSET S : Cardinality(T) = k => T \in G}
<1>1. n \in Nat /\ \A T \in SUBSET S : IsFiniteSet(T) /\ Cardinality(T) \in Nat /\ Cardinality(T) <= n
  BY FS_Subset, FS_CardinalityType
<1>2. 0 \in good
  <2>1. ASSUME NEW T \in SUBSET S, Cardinality(T) = 0  PROVE T \in G
    <3>1. T = {}  BY <1>1, <2>1, FS_EmptySet
    <3> QED BY <3>1
  <2> QED BY <1>1, <2>1
<1>3. ASSUME NEW k \in 0 .. n, k # n, k \in good  PROVE k + 1 \in good
  <2>1. ASSUME NEW T \in SUBSET S, Cardinality(T) = k + 1  PROVE T \in G
    <3>1. T # {}
      <4>1. Cardinality({}) = 0  BY FS_EmptySet
      <4> QED BY <2>1, <4>1
    <3>2. c[T] \in T /\ IsFiniteSet(T)  BY <1>1, <3>1
    <3>5. Cardinality(T \ {c[T]}) = Cardinality(T) - 1  BY <3>2, FS_RemoveElement
    <3>3. Cardinality(T \ {c[T]}) = k  BY <2>1, <3>5
    <3>4. T \ {c[T]} \in G  BY <1>3, <3>3
    <3> QED BY <3>1, <3>4
  <2>2. k + 1 \in 0 .. n  BY <1>1, <1>3
  <2> QED BY <2>1, <2>2
<1>4. \A k \in 0 .. n : k \in good
  <2> HIDE DEF good, n
  <2> QED BY <1>1, <1>2, <1>3, UpTo
<1>5. n \in good /\ S \in SUBSET S /\ Cardinality(S) = n  BY <1>1, <1>4
<1> QED BY <1>5

\* h folds the parts of S: each has what g makes of one of its elements and of
\* the rest.
FoldsParts(h, S, X, base, g, c) ==
    /\ h \in [SUBSET S -> X]
    /\ \A T \in SUBSET S : h[T] = IF T = {} THEN base ELSE g[c[T]][h[T \ {c[T]}]]

\* The parts of a finite set are folded, the smaller ones first.
LEMMA FoldExists ==
  ASSUME NEW S, IsFiniteSet(S), NEW X, NEW base \in X, NEW g \in [S -> [X -> X]],
         NEW c, \A T \in SUBSET S : T # {} => c[T] \in T
  PROVE  \E h : FoldsParts(h, S, X, base, g, c)
<1> DEFINE Upto(n, h) == \A T \in SUBSET S : Cardinality(T) <= n =>
                h[T] = IF T = {} THEN base ELSE g[c[T]][h[T \ {c[T]}]]
           most == Cardinality(S)
           good == {n \in 0 .. most : \E h \in [SUBSET S -> X] : Upto(n, h)}
<1>1. \A T \in SUBSET S : IsFiniteSet(T) /\ Cardinality(T) \in Nat /\ Cardinality(T) <= most
                          /\ (Cardinality(T) = 0 <=> T = {})
  BY FS_Subset, FS_CardinalityType, FS_EmptySet
<1>2. most \in Nat  BY FS_CardinalityType
<1>3. 0 \in good
  <2> DEFINE h == [T \in SUBSET S |-> base]
  <2>1. h \in [SUBSET S -> X]  OBVIOUS
  <2>2. ASSUME NEW T \in SUBSET S, Cardinality(T) <= 0
        PROVE  h[T] = IF T = {} THEN base ELSE g[c[T]][h[T \ {c[T]}]]
    <3>1. T = {}  BY <1>1, <2>2
    <3> QED BY <3>1
  <2>3. Upto(0, h)  BY <2>2
  <2> HIDE DEF h, Upto
  <2> QED BY <1>2, <2>1, <2>3
<1>4. ASSUME NEW n \in 0 .. most, n # most, n \in good  PROVE n + 1 \in good
  <2>1. PICK h \in [SUBSET S -> X] : Upto(n, h)  BY <1>4
  <2> DEFINE k == [T \in SUBSET S |-> IF Cardinality(T) = n + 1 THEN g[c[T]][h[T \ {c[T]}]] ELSE h[T]]
  <2>2. ASSUME NEW T \in SUBSET S, T # {}
        PROVE  /\ c[T] \in S /\ T \ {c[T]} \in SUBSET S /\ Cardinality(T \ {c[T]}) = Cardinality(T) - 1
    <3>1. c[T] \in T  BY <2>2
    <3> QED BY <3>1, <1>1, FS_RemoveElement
  <2>3. k \in [SUBSET S -> X]
    <3>1. ASSUME NEW T \in SUBSET S, Cardinality(T) = n + 1  PROVE g[c[T]][h[T \ {c[T]}]] \in X
      <4>1. T # {}  BY <1>1, <3>1
      <4> QED BY <4>1, <2>2
    <3> QED BY <3>1
  <2>4. ASSUME NEW T \in SUBSET S, Cardinality(T) <= n + 1
        PROVE  k[T] = IF T = {} THEN base ELSE g[c[T]][k[T \ {c[T]}]]
    <3>1. CASE T = {}
      <4>1. Cardinality(T) = 0  BY <3>1, <1>1
      <4>2. Cardinality(T) # n + 1 /\ Cardinality(T) <= n  BY <4>1
      <4>3. k[T] = h[T]  BY <4>2
      <4>4. h[T] = IF T = {} THEN base ELSE g[c[T]][h[T \ {c[T]}]]  BY <2>1, <4>2
      <4> QED BY <3>1, <4>3, <4>4
    <3>2. CASE T # {} /\ Cardinality(T) = n + 1
      <4>1. T \ {c[T]} \in SUBSET S /\ Cardinality(T \ {c[T]}) = n  BY <2>2, <3>2
      <4>2. k[T \ {c[T]}] = h[T \ {c[T]}]  BY <4>1
      <4>3. k[T] = g[c[T]][h[T \ {c[T]}]]  BY <3>2
      <4> QED BY <3>2, <4>2, <4>3
    <3>3. CASE T # {} /\ Cardinality(T) # n + 1
      <4>1. T \ {c[T]} \in SUBSET S /\ Cardinality(T \ {c[T]}) = Cardinality(T) - 1  BY <2>2, <3>3
      <4>2. Cardinality(T) \in Nat /\ Cardinality(T) <= n  BY <1>1, <2>4, <3>3
      <4>3. k[T] = h[T]  BY <3>3
      <4>4. k[T \ {c[T]}] = h[T \ {c[T]}]  BY <4>1, <4>2
      <4>5. h[T] = g[c[T]][h[T \ {c[T]}]]  BY <2>1, <3>3, <4>2
      <4> QED BY <3>3, <4>3, <4>4, <4>5
    <3> QED BY <3>1, <3>2, <3>3
  <2>5. Upto(n + 1, k)  BY <2>4
  <2>6. n + 1 \in 0 .. most  BY <1>2, <1>4
  <2> HIDE DEF k, Upto
  <2> QED BY <2>3, <2>5, <2>6
<1>5. most \in good
  <2> HIDE DEF good, most
  <2>1. \A k \in 0 .. most : k \in good  BY <1>2, <1>3, <1>4, UpTo
  <2> QED BY <1>2, <2>1
<1>6. PICK h \in [SUBSET S -> X] : Upto(most, h)  BY <1>5
<1> QED BY <1>1, <1>6 DEF FoldsParts

\* What is counted part by part is a number, and no less than any one counts.
LEMMA CountedPartByPart ==
  ASSUME NEW S, IsFiniteSet(S), NEW c, \A T \in SUBSET S : T # {} => c[T] \in T,
         NEW size, \A x \in S : size[x] \in Nat, NEW sum, sum[{}] = 0,
         \A T \in SUBSET S : T # {} /\ sum[T \ {c[T]}] \in Nat => sum[T] = size[c[T]] + sum[T \ {c[T]}]
  PROVE  sum[S] \in Nat /\ \A x \in S : sum[S] >= size[x]
<1> DEFINE G == {T \in SUBSET S : sum[T] \in Nat /\ \A x \in T : sum[T] >= size[x]}
<1>1. {} \in G  OBVIOUS
<1>2. \A T \in SUBSET S : T # {} /\ T \ {c[T]} \in G => T \in G
  <2> SUFFICES ASSUME NEW T \in SUBSET S, T # {}, T \ {c[T]} \in G  PROVE T \in G  OBVIOUS
  <2> DEFINE rest == T \ {c[T]}
  <2>1. c[T] \in T /\ c[T] \in S /\ size[c[T]] \in Nat  OBVIOUS
  <2>2. sum[rest] \in Nat /\ \A x \in rest : sum[rest] >= size[x]  OBVIOUS
  <2>3. sum[T] = size[c[T]] + sum[rest]  BY <2>2
  <2>4. sum[T] \in Nat /\ sum[T] >= size[c[T]] /\ sum[T] >= sum[rest]  BY <2>1, <2>2, <2>3
  <2>5. ASSUME NEW x \in T, x # c[T]  PROVE sum[T] >= size[x]
    <3>1. sum[rest] >= size[x] /\ size[x] \in Nat  BY <2>2, <2>5
    <3> QED BY <2>2, <2>4, <3>1
  <2> QED BY <2>4, <2>5
<1> HIDE DEF G
<1>3. S \in G  BY <1>1, <1>2, PartByPart
<1> QED BY <1>3 DEF G

\* A finite set of numbers has a greatest one.
LEMMA GreatestOf == ASSUME NEW S \in SUBSET Nat, IsFiniteSet(S), S # {} PROVE Max(S) \in S /\ \A y \in S : Max(S) >= y
<1>1. \E x \in S : \A y \in S : x >= y
  <2> DEFINE n == Cardinality(S)
  <2>1. n \in Nat /\ n # 0  BY FS_CardinalityType, FS_EmptySet
  <2>2. n \in 1 .. n  BY <2>1
  <2>3. PICK x \in S : Place(S, x) = n  BY <2>2, Ranked
  <2>4. ASSUME NEW y \in S, ~ (x >= y)  PROVE FALSE
    <3>1. x < y  BY <2>4
    <3>2. Place(S, y) \in 1 .. n /\ Place(S, x) < Place(S, y)  BY <3>1, RankGrows
    <3> QED BY <2>1, <2>3, <3>2
  <2> QED BY <2>4
<1> QED BY <1>1 DEF Max
\* What is selected from a list is a list of what stands at the places.
LEMMA SelectedIs ==
  ASSUME NEW S, NEW s \in Seq(S), NEW places \in SUBSET DOMAIN s
  PROVE  /\ Selected(s, places) \in Seq(S)
         /\ \A k \in DOMAIN Selected(s, places) : \E i \in places : Selected(s, places)[k] = s[i]
         /\ \A i \in places : \E k \in DOMAIN Selected(s, places) : Selected(s, places)[k] = s[i]
<1> DEFINE n == Cardinality(places)
           t == Selected(s, places)
<1>1. DOMAIN s = 1 .. Len(s) /\ Len(s) \in Nat  BY LenProperties
<1>2. places \in SUBSET Nat /\ IsFiniteSet(places)
  <2>1. IsFiniteSet(1 .. Len(s))  BY <1>1, FS_Interval
  <2> QED BY <1>1, <2>1, FS_Subset
<1>3. /\ n \in Nat /\ DOMAIN InOrder(places) = 1 .. n
      /\ \A k \in 1 .. n : InOrder(places)[k] \in places
      /\ \A i \in places : Place(places, i) \in 1 .. n /\ InOrder(places)[Place(places, i)] = i
  BY <1>2, InOrderIs
<1>4. t = [k \in 1 .. n |-> s[InOrder(places)[k]]]  BY <1>3 DEF Selected
<1> HIDE DEF t
<1>5. \A i \in places : s[i] \in S  BY <1>1, ElementOfSeq
<1>6. t \in [1 .. n -> S]  BY <1>3, <1>4, <1>5
<1>7. t \in Seq(S)  BY <1>3, <1>6, SeqDef
<1>8. DOMAIN t = 1 .. n  BY <1>6
<1>9. \A k \in DOMAIN t : \E i \in places : t[k] = s[i]  BY <1>3, <1>4, <1>8
<1>10. \A i \in places : \E k \in DOMAIN t : t[k] = s[i]
  <2>1. ASSUME NEW i \in places  PROVE \E k \in DOMAIN t : t[k] = s[i]
    <3>1. Place(places, i) \in 1 .. n /\ InOrder(places)[Place(places, i)] = i  BY <1>3
    <3> QED BY <1>4, <1>8, <3>1
  <2> QED BY <2>1
<1> QED BY <1>7, <1>9, <1>10 DEF t

\* Where what stands at a place of a list of lists joined into one comes from:
\* from a part that stands there as a whole, and what follows it is the
\* beginning of another.
PartsIn(flat, parts, n) ==
    \A j \in 1 .. Len(flat) : \E i \in 1 .. n, o \in 0 .. Len(flat) :
        /\ o < j /\ j <= o + Len(parts[i]) /\ o + Len(parts[i]) <= Len(flat)
        /\ \A t \in 1 .. Len(parts[i]) : flat[o + t] = parts[i][t]
        /\ \/ o + Len(parts[i]) = Len(flat)
           \/ \E k \in 1 .. n : parts[k] # <<>> /\ flat[o + Len(parts[i]) + 1] = parts[k][1]

\* One part more is joined.
LEMMA PartJoined ==
  ASSUME NEW S, NEW n \in Nat, NEW parts, \A i \in 1 .. n + 1 : parts[i] \in Seq(S),
         NEW flat \in Seq(S), PartsIn(flat, parts, n)
  PROVE  flat \o parts[n + 1] \in Seq(S) /\ PartsIn(flat \o parts[n + 1], parts, n + 1)
<1> DEFINE new == parts[n + 1]
           all == flat \o new
<1>1. new \in Seq(S) /\ Len(new) \in Nat /\ Len(flat) \in Nat  BY LenProperties
<1>2. /\ all \in Seq(S) /\ Len(all) = Len(flat) + Len(new)
      /\ \A i \in 1 .. Len(flat) + Len(new) : all[i] = IF i <= Len(flat) THEN flat[i] ELSE new[i - Len(flat)]
  BY <1>1, ConcatProperties
<1> HIDE DEF all
<1>3. \A i \in 1 .. n : Len(parts[i]) \in Nat  BY LenProperties
<1>4. ASSUME NEW j \in 1 .. Len(all)
      PROVE  \E i \in 1 .. n + 1, o \in 0 .. Len(all) :
                /\ o < j /\ j <= o + Len(parts[i]) /\ o + Len(parts[i]) <= Len(all)
                /\ \A t \in 1 .. Len(parts[i]) : all[o + t] = parts[i][t]
                /\ \/ o + Len(parts[i]) = Len(all)
                   \/ \E k \in 1 .. n + 1 : parts[k] # <<>> /\ all[o + Len(parts[i]) + 1] = parts[k][1]
  <2>1. CASE j <= Len(flat)
    <3>1. j \in 1 .. Len(flat)  BY <1>1, <2>1
    <3>2. PICK i \in 1 .. n, o \in 0 .. Len(flat) :
            /\ o < j /\ j <= o + Len(parts[i]) /\ o + Len(parts[i]) <= Len(flat)
            /\ \A t \in 1 .. Len(parts[i]) : flat[o + t] = parts[i][t]
            /\ \/ o + Len(parts[i]) = Len(flat)
               \/ \E k \in 1 .. n : parts[k] # <<>> /\ flat[o + Len(parts[i]) + 1] = parts[k][1]
      BY <3>1 DEF PartsIn
    <3> DEFINE l == Len(parts[i])
    <3>3. l \in Nat /\ o \in Nat  BY <1>1, <1>3
    <3>4. \A t \in 1 .. l : all[o + t] = parts[i][t]
      <4>1. ASSUME NEW t \in 1 .. l  PROVE all[o + t] = parts[i][t]
        <5>1. o + t \in 1 .. Len(flat) + Len(new) /\ o + t <= Len(flat)  BY <1>1, <3>2, <3>3
        <5>2. all[o + t] = flat[o + t]  BY <1>2, <5>1
        <5> QED BY <3>2, <5>2
      <4> QED BY <4>1
    <3>5. o + l = Len(all) \/ \E k \in 1 .. n + 1 : parts[k] # <<>> /\ all[o + l + 1] = parts[k][1]
      <4>1. CASE o + l = Len(flat) /\ new = <<>>
        <5>1. Len(new) = 0  BY <4>1, EmptySeq
        <5> QED BY <1>1, <1>2, <4>1, <5>1
      <4>2. CASE o + l = Len(flat) /\ new # <<>>
        <5>1. Len(new) # 0  BY <1>1, <4>2, EmptySeq
        <5>2. o + l + 1 \in 1 .. Len(flat) + Len(new) /\ ~ (o + l + 1 <= Len(flat)) /\ o + l + 1 - Len(flat) = 1
          BY <1>1, <3>3, <4>2, <5>1
        <5>3. all[o + l + 1] = new[1]  BY <1>2, <5>2
        <5>4. n + 1 \in 1 .. n + 1  OBVIOUS
        <5> QED BY <4>2, <5>3, <5>4
      <4>3. CASE o + l # Len(flat)
        <5>1. PICK k \in 1 .. n : parts[k] # <<>> /\ flat[o + l + 1] = parts[k][1]  BY <3>2, <4>3
        <5>2. o + l + 1 \in 1 .. Len(flat) + Len(new) /\ o + l + 1 <= Len(flat)  BY <1>1, <3>2, <3>3, <4>3
        <5>3. all[o + l + 1] = flat[o + l + 1]  BY <1>2, <5>2
        <5>4. k \in 1 .. n + 1  OBVIOUS
        <5> QED BY <5>1, <5>3, <5>4
      <4> QED BY <4>1, <4>2, <4>3
    <3>6. i \in 1 .. n + 1 /\ o \in 0 .. Len(all) /\ o + l <= Len(all)  BY <1>1, <1>2, <3>2, <3>3
    <3> QED BY <3>2, <3>4, <3>5, <3>6
  <2>2. CASE ~ (j <= Len(flat))
    <3>1. n + 1 \in 1 .. n + 1 /\ Len(flat) \in 0 .. Len(all)  BY <1>1, <1>2
    <3>2. Len(flat) < j /\ j <= Len(flat) + Len(new) /\ Len(flat) + Len(new) = Len(all)  BY <1>1, <1>2, <2>2
    <3>3. ASSUME NEW t \in 1 .. Len(new)  PROVE all[Len(flat) + t] = new[t]
      <4>1. Len(flat) + t \in 1 .. Len(flat) + Len(new) /\ ~ (Len(flat) + t <= Len(flat)) /\ Len(flat) + t - Len(flat) = t
        BY <1>1
      <4> QED BY <1>2, <4>1
    <3>4. Len(flat) + Len(new) <= Len(all)  BY <1>1, <1>2
    <3> QED BY <3>1, <3>2, <3>3, <3>4
  <2> QED BY <2>1, <2>2
<1>5. PartsIn(all, parts, n + 1)  BY <1>4 DEF PartsIn
<1> QED BY <1>2, <1>5 DEF all

\* All parts are joined, one after the other.
LEMMA FlattenedIs ==
  ASSUME NEW S, NEW parts \in Seq(Seq(S))
  PROVE  /\ FlattenSeq(parts) \in Seq(S) /\ PartsIn(FlattenSeq(parts), parts, Len(parts))
         /\ Len(parts) # 0 => Len(FlattenSeq(parts)) >= Len(parts[Len(parts)])
<1> DEFINE n == Len(parts)
           Joined(k, f) == f = [i \in 1 .. k |-> IF i = 1 THEN parts[i] ELSE f[i - 1] \o parts[i]]
           flatten == CHOOSE f : Joined(n, f)
<1>1. n \in Nat /\ \A i \in 1 .. n : parts[i] \in Seq(S)  BY LenProperties, ElementOfSeq
<1>2. CASE n = 0
  <2>1. parts = <<>>  BY <1>2, EmptySeq
  <2>2. FlattenSeq(parts) = <<>>  BY <1>2, <2>1 DEF FlattenSeq
  <2> QED BY <1>2, <2>2, EmptySeq DEF PartsIn
<1>3. CASE n # 0
  <2>1. FlattenSeq(parts) = flatten[n]  BY <1>3 DEF FlattenSeq
  <2>2. \E f : Joined(n, f)
    <3> DEFINE good == {k \in 0 .. n : \E f : Joined(k, f)}
    <3>1. 0 \in good
      <4> DEFINE f == [i \in 1 .. 0 |-> parts[i]]
      <4>1. f = [i \in 1 .. 0 |-> IF i = 1 THEN parts[i] ELSE f[i - 1] \o parts[i]]  OBVIOUS
      <4>2. 0 \in 0 .. n  BY <1>1
      <4> HIDE DEF f
      <4> QED BY <4>1, <4>2
    <3>2. ASSUME NEW k \in 0 .. n, k # n, k \in good  PROVE k + 1 \in good
      <4>1. PICK f : Joined(k, f)  BY <3>2
      <4> DEFINE h == [i \in 1 .. k + 1 |-> IF i = k + 1 THEN IF i = 1 THEN parts[i] ELSE f[k] \o parts[i] ELSE f[i]]
      <4>2. ASSUME NEW i \in 1 .. k + 1  PROVE h[i] = IF i = 1 THEN parts[i] ELSE h[i - 1] \o parts[i]
        <5>1. CASE i = k + 1 /\ i = 1  BY <5>1
        <5>2. CASE i = k + 1 /\ i # 1
          <6>1. k \in 1 .. k + 1 /\ k # k + 1 /\ i - 1 = k  BY <5>2
          <6>2. h[k] = f[k]  BY <6>1
          <6> QED BY <5>2, <6>1, <6>2
        <5>3. CASE i # k + 1 /\ i = 1
          <6>1. i \in 1 .. k  BY <5>3
          <6>2. h[i] = f[i]  BY <5>3
          <6>3. f[i] = parts[i]  BY <4>1, <5>3, <6>1
          <6> QED BY <5>3, <6>2, <6>3
        <5>4. CASE i # k + 1 /\ i # 1
          <6>1. i \in 1 .. k /\ i - 1 \in 1 .. k + 1 /\ i - 1 # k + 1  BY <5>4
          <6>2. h[i] = f[i] /\ h[i - 1] = f[i - 1]  BY <5>4, <6>1
          <6>3. f[i] = f[i - 1] \o parts[i]  BY <4>1, <5>4, <6>1
          <6> QED BY <5>4, <6>2, <6>3
        <5> QED BY <5>1, <5>2, <5>3, <5>4
      <4>3. h = [i \in 1 .. k + 1 |-> IF i = 1 THEN parts[i] ELSE h[i - 1] \o parts[i]]
        <5>1. \A x \in 1 .. k + 1 : h[x] = [i \in 1 .. k + 1 |-> IF i = 1 THEN parts[i] ELSE h[i - 1] \o parts[i]][x]
          <6> HIDE DEF h
          <6> QED BY <4>2
        <5>2. DOMAIN h = 1 .. k + 1 /\ h = [x \in 1 .. k + 1 |-> h[x]]  OBVIOUS
        <5> HIDE DEF h
        <5> QED BY <5>1, <5>2
      <4>4. k + 1 \in 0 .. n  BY <1>1, <3>2
      <4> HIDE DEF h
      <4> QED BY <4>3, <4>4
    <3>3. n \in 0 .. n /\ \A k \in 0 .. n : k \in good
      <4>1. \A k \in 0 .. n : k \in good
        <5> HIDE DEF good, n
        <5> QED BY <1>1, <3>1, <3>2, UpTo
      <4>2. n \in 0 .. n  BY <1>1
      <4> HIDE DEF good, n
      <4> QED BY <4>1, <4>2
    <3> QED BY <3>3
  <2>3. Joined(n, flatten)
    <3> HIDE DEF Joined
    <3> QED BY <2>2, Zenon
  <2> HIDE DEF flatten
  <2>4. \A i \in 1 .. n : flatten[i] = IF i = 1 THEN parts[i] ELSE flatten[i - 1] \o parts[i]
    <3> HIDE DEF n
    <3> QED BY <2>3
  <2> DEFINE done == {k \in 0 .. n : k # 0 => flatten[k] \in Seq(S) /\ PartsIn(flatten[k], parts, k)}
  <2>5. 0 \in done  BY <1>1
  <2>6. ASSUME NEW k \in 0 .. n, k # n, k \in done  PROVE k + 1 \in done
    <3>1. k \in Nat /\ k + 1 \in 1 .. n /\ \A i \in 1 .. k + 1 : parts[i] \in Seq(S)  BY <1>1, <2>6
    <3>2. CASE k = 0
      <4>1. flatten[k + 1] = <<>> \o parts[k + 1]
        <5>1. flatten[1] = parts[1] /\ parts[1] \in Seq(S)  BY <2>4, <3>1, <3>2
        <5>2. <<>> \o parts[1] = parts[1]  BY <5>1, ConcatEmptySeq
        <5> QED BY <3>2, <5>1, <5>2
      <4>2. <<>> \in Seq(S) /\ PartsIn(<<>>, parts, k)  BY EmptySeq DEF PartsIn
      <4>3. flatten[k + 1] \in Seq(S) /\ PartsIn(flatten[k + 1], parts, k + 1)  BY <3>1, <4>1, <4>2, PartJoined
      <4> QED BY <3>1, <4>3
    <3>3. CASE k # 0
      <4>1. flatten[k + 1] = flatten[k] \o parts[k + 1]
        <5>1. k + 1 # 1 /\ k + 1 - 1 = k  BY <3>1, <3>3
        <5>2. flatten[k + 1] = IF k + 1 = 1 THEN parts[k + 1] ELSE flatten[k + 1 - 1] \o parts[k + 1]
          <6> HIDE DEF n
          <6> QED BY <2>4, <3>1
        <5> QED BY <5>1, <5>2
      <4>2. flatten[k] \in Seq(S) /\ PartsIn(flatten[k], parts, k)  BY <2>6, <3>3
      <4>3. flatten[k + 1] \in Seq(S) /\ PartsIn(flatten[k + 1], parts, k + 1)  BY <3>1, <4>1, <4>2, PartJoined
      <4> QED BY <3>1, <4>3
    <3> QED BY <3>2, <3>3
  <2>7. n \in 0 .. n /\ \A k \in 0 .. n : k \in done
    <3>1. \A k \in 0 .. n : k \in done
      <4> HIDE DEF done, n
      <4> QED BY <1>1, <2>5, <2>6, UpTo
    <3> QED BY <1>1, <3>1
  <2>8. flatten[n] \in Seq(S) /\ PartsIn(flatten[n], parts, n)  BY <1>3, <2>7
  <2>9. Len(flatten[n]) >= Len(parts[n])
    <3>1. n \in 1 .. n /\ parts[n] \in Seq(S) /\ Len(parts[n]) \in Nat  BY <1>1, <1>3, LenProperties
    <3>2. CASE n = 1
      <4>1. flatten[n] = parts[n]  BY <2>4, <3>1, <3>2
      <4> QED BY <3>1, <4>1
    <3>3. CASE n # 1
      <4>1. n - 1 \in 0 .. n /\ n - 1 # 0  BY <1>1, <1>3, <3>3
      <4>2. flatten[n] = flatten[n - 1] \o parts[n]
        <5> HIDE DEF n
        <5> QED BY <2>4, <3>1, <3>3
      <4>3. flatten[n - 1] \in Seq(S) /\ Len(flatten[n - 1]) \in Nat  BY <2>7, <4>1, LenProperties
      <4>4. Len(flatten[n]) = Len(flatten[n - 1]) + Len(parts[n])  BY <3>1, <4>2, <4>3, ConcatProperties
      <4>5. ASSUME NEW a \in Nat, NEW c \in Nat, NEW l, l = a + c  PROVE l >= c  BY <4>5
      <4> QED BY <3>1, <4>3, <4>4, <4>5, Zenon
    <3> QED BY <3>2, <3>3
  <2> QED BY <2>1, <2>8, <2>9
<1> QED BY <1>2, <1>3

-----------------------------------------------------------------------------
(* The window of the model *)

\* A list of messages, of which the marks of a compaction are about nothing.
WindowInv ==
    /\ history \in Seq(WindowMessages) /\ added \in Nat
    /\ \A i \in DOMAIN history : history[i].kind = "boundary" => history[i].about = {}

Contents == {"user", "text", "uses", "result", "summary", "fallback"}

\* Messages are messages.
LEMMA MessageIs ==
  ASSUME NEW kind \in Contents \cup {"boundary"}, NEW uses \in Seq(Nat), NEW size \in Nat, NEW about \in SUBSET Nat
  PROVE  /\ WindowMessage(kind, uses, size, about) \in WindowMessages
         /\ WindowMessage(kind, uses, size, about).kind = kind
         /\ WindowMessage(kind, uses, size, about).uses = uses
         /\ WindowMessage(kind, uses, size, about).about = about
BY DEF WindowMessage, WindowMessages, Contents

\* The uses that are open are numbers.
LEMMA OpenAreNumbers ==
  ASSUME NEW messages \in Seq(WindowMessages)
  PROVE  OpenUses(messages) \in Seq(Nat)
<1>1. DOMAIN messages = 1 .. Len(messages)  BY LenProperties
<1>2. CASE \E i \in DOMAIN messages : IsUses(messages[i]) /\ \A k \in i + 1 .. Len(messages) : IsResult(messages[k])
  <2> DEFINE i == CHOOSE k \in DOMAIN messages :
                     IsUses(messages[k]) /\ \A l \in k + 1 .. Len(messages) : IsResult(messages[l])
             uses == messages[i].uses
             open == {n \in DOMAIN uses : \A k \in i + 1 .. Len(messages) : messages[k].uses # <<uses[n]>>}
  <2>1. i \in DOMAIN messages  BY <1>2
  <2>2. OpenUses(messages) = Selected(uses, open)  BY <1>2 DEF OpenUses
  <2> HIDE DEF i
  <2>3. uses \in Seq(Nat)
    <3>1. messages[i] \in WindowMessages  BY <1>1, <2>1, ElementOfSeq
    <3> QED BY <3>1 DEF WindowMessages
  <2>4. open \in SUBSET DOMAIN uses  OBVIOUS
  <2> HIDE DEF uses, open
  <2> QED BY <2>2, <2>3, <2>4, SelectedIs
<1>3. CASE ~ \E i \in DOMAIN messages : IsUses(messages[i]) /\ \A k \in i + 1 .. Len(messages) : IsResult(messages[k])
  BY <1>3, EmptySeq DEF OpenUses
<1> QED BY <1>2, <1>3

\* A message is added behind, and no other is changed.
LEMMA AddedMessage ==
  ASSUME WindowInv, NEW kind \in Contents, NEW uses \in Seq(Nat), NEW size \in Nat,
         AddMessage(kind, uses, size)
  PROVE  WindowInv' /\ history' # <<>> /\ Last(history').kind = kind
<1> DEFINE m == WindowMessage(kind, uses, size, {added + 1})
           kept == IF Len(history) >= MaxHistory THEN Tail(history) ELSE history
<1>1. history \in Seq(WindowMessages) /\ Len(history) \in Nat /\ DOMAIN history = 1 .. Len(history)
  BY LenProperties DEF WindowInv
<1>2. added' = added + 1 /\ added' \in Nat /\ history' = Append(kept, m)
  BY DEF AddMessage, AddTo, WindowInv
<1>3. m \in WindowMessages /\ m.kind = kind
  <2>1. {added + 1} \in SUBSET Nat  BY DEF WindowInv
  <2> QED BY <2>1, MessageIs
<1> HIDE DEF m
<1>4. /\ kept \in Seq(WindowMessages)
      /\ \A i \in 1 .. Len(kept) : kept[i].kind = "boundary" => kept[i].about = {}
  <2>1. CASE Len(history) >= MaxHistory
    <3>1. history # <<>>
      <4>1. Len(history) # 0  BY <1>1, <2>1, WindowAssumption
      <4> QED BY <4>1, EmptySeq
    <3>2. /\ Tail(history) \in Seq(WindowMessages) /\ Len(Tail(history)) = Len(history) - 1
          /\ \A i \in 1 .. Len(Tail(history)) : Tail(history)[i] = history[i + 1]
      BY <1>1, <3>1, HeadTailProperties
    <3>3. \A i \in 1 .. Len(Tail(history)) : i + 1 \in DOMAIN history  BY <1>1, <3>2
    <3> QED BY <2>1, <3>2, <3>3 DEF WindowInv
  <2>2. CASE ~ (Len(history) >= MaxHistory)  BY <1>1, <2>2 DEF WindowInv
  <2> QED BY <2>1, <2>2
<1> HIDE DEF kept
<1>5. /\ history' \in Seq(WindowMessages) /\ history' # <<>> /\ Len(history') = Len(kept) + 1
      /\ \A i \in 1 .. Len(kept) : history'[i] = kept[i]
      /\ history'[Len(kept) + 1] = m
  BY <1>2, <1>3, <1>4, AppendProperties
<1>6. Len(kept) \in Nat /\ DOMAIN history' = 1 .. Len(kept) + 1  BY <1>4, <1>5, LenProperties
<1>7. ASSUME NEW i \in DOMAIN history', history'[i].kind = "boundary"  PROVE history'[i].about = {}
  <2>1. CASE i \in 1 .. Len(kept)  BY <1>4, <1>5, <1>7, <2>1
  <2>2. CASE i = Len(kept) + 1  BY <1>3, <1>5, <1>7, <2>2 DEF Contents
  <2> QED BY <1>6, <2>1, <2>2
<1>8. Last(history').kind = kind  BY <1>3, <1>5 DEF Last
<1> QED BY <1>2, <1>5, <1>7, <1>8 DEF WindowInv

\* The messages that ask, answer and use.
LEMMA AddingMessages ==
  ASSUME WindowInv,
         \/ \E size \in MessageSizes : AskUser(size) \/ AddResult(size)
         \/ AskAnyway \/ AddText \/ \E n \in 1 .. 2 : AddUses(n)
  PROVE  WindowInv' /\ history' # <<>> /\ Last(history').kind # "summary" /\ prompt' = NoPrompt
<1>1. \A size \in MessageSizes : size \in Nat  BY WindowAssumption
<1>2. <<>> \in Seq(Nat) /\ 1 \in Nat  BY EmptySeq
<1>3. CASE \E size \in MessageSizes : AskUser(size)
  <2>1. PICK size \in MessageSizes : AddMessage("user", <<>>, size)  BY <1>3 DEF AskUser
  <2> QED BY <1>1, <1>2, <2>1, AddedMessage DEF Contents, AddMessage
<1>4. CASE \E size \in MessageSizes : AddResult(size)
  <2>1. PICK size \in MessageSizes :
           OpenUses(history) # <<>> /\ AddMessage("result", <<Head(OpenUses(history))>>, size)
    BY <1>4 DEF AddResult
  <2>2. Head(OpenUses(history)) \in Nat
    <3>1. OpenUses(history) \in Seq(Nat)  BY OpenAreNumbers DEF WindowInv
    <3> QED BY <2>1, <3>1, HeadTailProperties
  <2>3. <<Head(OpenUses(history))>> \in Seq(Nat)  BY <2>2
  <2> QED BY <1>1, <2>1, <2>3, AddedMessage DEF Contents, AddMessage
<1>5. CASE AskAnyway  BY <1>2, <1>5, AddedMessage DEF AskAnyway, Contents, AddMessage
<1>6. CASE AddText  BY <1>2, <1>6, AddedMessage DEF AddText, Contents, AddMessage
<1>7. CASE \E n \in 1 .. 2 : AddUses(n)
  <2>1. PICK n \in 1 .. 2 : AddMessage("uses", [i \in 1 .. n |-> 10 * added + i], 1)  BY <1>7 DEF AddUses
  <2>2. [i \in 1 .. n |-> 10 * added + i] \in Seq(Nat)
    <3>1. [i \in 1 .. n |-> 10 * added + i] \in [1 .. n -> Nat]  BY DEF WindowInv
    <3>2. n \in Nat  OBVIOUS
    <3> QED BY <3>1, <3>2, SeqDef
  <2> QED BY <1>2, <2>1, <2>2, AddedMessage DEF Contents, AddMessage
<1> QED BY <1>3, <1>4, <1>5, <1>6, <1>7

\* The last mark is in the history, or there is none.
LEMMA LastBoundaryIs == ASSUME WindowInv PROVE LastBoundary \in 0 .. Len(history) /\ Len(history) \in Nat
<1>1. DOMAIN history = 1 .. Len(history) /\ Len(history) \in Nat  BY LenProperties DEF WindowInv
<1>2. CASE Boundaries = {}  BY <1>1, <1>2 DEF LastBoundary
<1>3. CASE Boundaries # {}
  <2>1. Boundaries \in SUBSET Nat /\ Boundaries \subseteq 1 .. Len(history) /\ IsFiniteSet(Boundaries)
    <3>1. Boundaries \subseteq 1 .. Len(history)  BY <1>1 DEF Boundaries
    <3>2. IsFiniteSet(1 .. Len(history))  BY <1>1, FS_Interval
    <3>3. IsFiniteSet(Boundaries)  BY <3>1, <3>2, FS_Subset
    <3>4. Boundaries \in SUBSET Nat  BY <1>1, <3>1
    <3> QED BY <3>1, <3>3, <3>4
  <2>2. Max(Boundaries) \in Boundaries /\ \A y \in Boundaries : Max(Boundaries) >= y  BY <1>3, <2>1, GreatestOf
  <2>3. \E i \in Boundaries : \A k \in Boundaries : k <= i
    <3>1. \A k \in Boundaries : k <= Max(Boundaries)  BY <2>1, <2>2
    <3> QED BY <2>2, <3>1
  <2>4. LastBoundary \in Boundaries  BY <1>3, <2>3 DEF LastBoundary
  <2> QED BY <1>1, <2>1, <2>4
<1> QED BY <1>1, <1>2, <1>3

\* The form of the API has the messages but the marks, and so all they are about.
LEMMA ApiIs ==
  ASSUME NEW messages \in Seq(WindowMessages)
  PROVE  /\ Api(messages) \in Seq(WindowMessages)
         /\ \A k \in DOMAIN Api(messages) : \E i \in DOMAIN messages : Api(messages)[k] = messages[i]
         /\ \A i \in DOMAIN messages : messages[i].kind # "boundary" =>
                \E k \in DOMAIN Api(messages) : Api(messages)[k] = messages[i]
<1> DEFINE places == {i \in DOMAIN messages : messages[i].kind # "boundary"}
<1>1. places \in SUBSET DOMAIN messages /\ Api(messages) = Selected(messages, places)  BY DEF Api
<1>2. /\ Selected(messages, places) \in Seq(WindowMessages)
      /\ \A k \in DOMAIN Selected(messages, places) : \E i \in places : Selected(messages, places)[k] = messages[i]
      /\ \A i \in places : \E k \in DOMAIN Selected(messages, places) : Selected(messages, places)[k] = messages[i]
  <2> HIDE DEF places
  <2> QED BY <1>1, SelectedIs
<1> QED BY <1>1, <1>2

\* A boundary is about nothing: what the conversation is about is what the
\* form of the API is about.
LEMMA ApiIsAboutAll == ASSUME WindowInv PROVE About(Api(history)) = About(history)
<1>1. history \in Seq(WindowMessages)  BY DEF WindowInv
<1>2. About(Api(history)) \subseteq About(history)  BY <1>1, ApiIs DEF About
<1>3. ASSUME NEW x \in About(history)  PROVE x \in About(Api(history))
  <2>1. PICK i \in DOMAIN history : x \in history[i].about  BY <1>3 DEF About
  <2>2. history[i].kind # "boundary"  BY <2>1 DEF WindowInv
  <2>3. PICK k \in DOMAIN Api(history) : Api(history)[k] = history[i]  BY <1>1, <2>2, ApiIs
  <2> QED BY <2>1, <2>3 DEF About
<1> QED BY <1>2, <1>3

\* What a list of messages is about, is a set of numbers.
LEMMA AboutNumbers == ASSUME NEW messages \in Seq(WindowMessages) PROVE About(messages) \in SUBSET Nat
<1>1. \A i \in DOMAIN messages : messages[i] \in WindowMessages  BY LenProperties, ElementOfSeq
<1> QED BY <1>1 DEF About, WindowMessages

\* A compaction leaves what was before the last mark, a mark and a message.
LEMMA CompactedIs ==
  ASSUME WindowInv, NEW kind \in Contents, NEW about \in SUBSET Nat, history' = Compacted(kind, about)
  PROVE  /\ history' \in Seq(WindowMessages)
         /\ \A i \in DOMAIN history' : history'[i].kind = "boundary" => history'[i].about = {}
         /\ Last(history').kind = kind
         /\ About(history') = About(SubSeq(history, 1, LastBoundary)) \cup about
         /\ About(SubSeq(history, 1, LastBoundary)) \subseteq About(history)
<1> DEFINE l == LastBoundary
           before == SubSeq(history, 1, l)
           m == WindowMessage(kind, <<>>, 1, about)
           tail == <<BoundaryMark, m>>
<1>1. l \in 0 .. Len(history) /\ Len(history) \in Nat /\ history \in Seq(WindowMessages)
      /\ DOMAIN history = 1 .. Len(history)
  BY LastBoundaryIs, LenProperties DEF WindowInv
<1>2. /\ before \in Seq(WindowMessages) /\ Len(before) = l /\ DOMAIN before = 1 .. l
      /\ \A i \in 1 .. l : before[i] = history[i]
  <2> HIDE DEF l
  <2>1. \A i \in 1 .. l : history[i] \in WindowMessages  BY <1>1, ElementOfSeq
  <2>2. /\ before \in Seq(WindowMessages) /\ Len(before) = (IF 1 <= l THEN l - 1 + 1 ELSE 0)
        /\ \A i \in 1 .. l - 1 + 1 : before[i] = history[1 + i - 1]
    BY <1>1, <2>1, SubSeqProperties
  <2>3. Len(before) = l /\ \A i \in 1 .. l : before[i] = history[i]  BY <1>1, <2>2
  <2> HIDE DEF before
  <2> QED BY <2>2, <2>3, LenProperties
<1> HIDE DEF before, l
<1>3. <<>> \in Seq(Nat) /\ 1 \in Nat /\ {} \in SUBSET Nat  BY EmptySeq
<1>4. /\ BoundaryMark \in WindowMessages /\ BoundaryMark.kind = "boundary" /\ BoundaryMark.about = {}
      /\ m \in WindowMessages /\ m.kind = kind /\ m.about = about
  <2>1. kind \in Contents \cup {"boundary"} /\ "boundary" \in Contents \cup {"boundary"}  OBVIOUS
  <2>2. m \in WindowMessages /\ m.kind = kind /\ m.about = about  BY <1>3, <2>1 DEF WindowMessage, WindowMessages, Contents
  <2>3. /\ WindowMessage("boundary", <<>>, 1, {}) \in WindowMessages
        /\ WindowMessage("boundary", <<>>, 1, {}).kind = "boundary"
        /\ WindowMessage("boundary", <<>>, 1, {}).about = {}
    BY <1>3 DEF WindowMessage, WindowMessages
  <2> QED BY <2>2, <2>3 DEF BoundaryMark
<1> HIDE DEF m
<1>5. tail \in Seq(WindowMessages) /\ Len(tail) = 2 /\ tail[1] = BoundaryMark /\ tail[2] = m  BY <1>4
<1>6. history' = before \o tail  BY DEF Compacted, before, l, m
<1> HIDE DEF tail
<1>7. /\ history' \in Seq(WindowMessages) /\ Len(history') = l + 2
      /\ \A i \in 1 .. l + 2 : history'[i] = IF i <= l THEN before[i] ELSE tail[i - l]
  <2>1. /\ before \o tail \in Seq(WindowMessages) /\ Len(before \o tail) = Len(before) + Len(tail)
        /\ \A i \in 1 .. Len(before) + Len(tail) :
               (before \o tail)[i] = IF i <= Len(before) THEN before[i] ELSE tail[i - Len(before)]
    BY <1>2, <1>5, ConcatProperties
  <2>2. Len(before) = l /\ Len(before) + Len(tail) = l + 2  BY <1>2, <1>5
  <2> QED BY <1>6, <2>1, <2>2
<1>8. /\ DOMAIN history' = 1 .. l + 2 /\ \A i \in 1 .. l : history'[i] = history[i]
      /\ history'[l + 1] = BoundaryMark /\ history'[l + 2] = m
  <2>1. DOMAIN history' = 1 .. l + 2  BY <1>7, LenProperties
  <2>2. l + 1 \in 1 .. l + 2 /\ ~ (l + 1 <= l) /\ l + 1 - l = 1  BY <1>1
  <2>3. l + 2 \in 1 .. l + 2 /\ ~ (l + 2 <= l) /\ l + 2 - l = 2  BY <1>1
  <2>4. \A i \in 1 .. l : i \in 1 .. l + 2 /\ i <= l  BY <1>1
  <2> QED BY <1>2, <1>5, <1>7, <2>1, <2>2, <2>3, <2>4
<1>9. \A i \in DOMAIN history' : i \in 1 .. l \/ i = l + 1 \/ i = l + 2  BY <1>1, <1>8
<1>10. ASSUME NEW i \in DOMAIN history', history'[i].kind = "boundary"  PROVE history'[i].about = {}
  <2>1. CASE i \in 1 .. l
    <3>1. i \in DOMAIN history  BY <1>1, <2>1
    <3> QED BY <1>8, <1>10, <2>1, <3>1 DEF WindowInv
  <2>2. CASE i = l + 1  BY <1>4, <1>8, <2>2
  <2>3. CASE i = l + 2  BY <1>4, <1>8, <1>10, <2>3 DEF Contents
  <2> QED BY <1>9, <2>1, <2>2, <2>3
<1>11. Last(history').kind = kind  BY <1>4, <1>7, <1>8 DEF Last
<1>12. About(history') = About(before) \cup about
  <2>1. ASSUME NEW x \in About(history')  PROVE x \in About(before) \cup about
    <3>1. PICK i \in DOMAIN history' : x \in history'[i].about  BY <2>1 DEF About
    <3>2. CASE i \in 1 .. l  BY <1>2, <1>8, <3>1, <3>2 DEF About
    <3>3. CASE i = l + 1  BY <1>4, <1>8, <3>1, <3>3
    <3>4. CASE i = l + 2  BY <1>4, <1>8, <3>1, <3>4
    <3> QED BY <1>9, <3>1, <3>2, <3>3, <3>4
  <2>2. ASSUME NEW x \in About(before)  PROVE x \in About(history')
    <3>1. PICK i \in 1 .. l : x \in history[i].about  BY <1>2, <2>2 DEF About
    <3>2. i \in DOMAIN history'  BY <1>1, <1>8
    <3> QED BY <1>8, <3>1, <3>2 DEF About
  <2>3. about \subseteq About(history')
    <3>1. l + 2 \in DOMAIN history'  BY <1>1, <1>8
    <3> QED BY <1>4, <1>8, <3>1 DEF About
  <2> QED BY <2>1, <2>2, <2>3
<1>13. About(before) \subseteq About(history)
  <2>1. \A i \in 1 .. l : i \in DOMAIN history  BY <1>1
  <2> QED BY <1>2, <2>1 DEF About
<1> QED BY <1>7, <1>10, <1>11, <1>12, <1>13 DEF before, l

\* A part of a list is a list.
LEMMA PartOfMessages ==
  ASSUME NEW messages \in Seq(WindowMessages), NEW from \in Nat \ {0}
  PROVE  SubSeq(messages, from, Len(messages)) \in Seq(WindowMessages)
<1>1. Len(messages) \in Nat  BY LenProperties
<1>2. \A i \in from .. Len(messages) : messages[i] \in WindowMessages
  <2>1. \A i \in from .. Len(messages) : i \in 1 .. Len(messages)  BY <1>1
  <2> QED BY <2>1, ElementOfSeq
<1> QED BY <1>1, <1>2, SubSeqProperties

\* The summary is about all that it is made from; nothing is forgotten if
\* that is the whole conversation.
LEMMA CompactKeeps ==
  ASSUME WindowInv, NEW failed \in BOOLEAN, Compact(failed)
  PROVE  /\ WindowInv'
         /\ Last(history').kind = "summary" /\ Len(Api(history)) <= Summarized => About(history') = About(history)
<1> DEFINE api == Api(history)
<1>1. history \in Seq(WindowMessages) /\ added \in Nat /\ added' = added /\ LastBoundary \in 0 .. Len(history)
      /\ Len(history) \in Nat
  BY LastBoundaryIs DEF WindowInv, Compact
<1>2. api \in Seq(WindowMessages) /\ Len(api) \in Nat  BY <1>1, ApiIs, LenProperties
<1>3. CASE failed
  <2>1. AfterBoundary \in Seq(WindowMessages)
    <3>1. LastBoundary + 1 \in Nat \ {0}  BY <1>1
    <3> QED BY <1>1, <3>1, PartOfMessages DEF AfterBoundary
  <2>2. FallbackSummary \in SUBSET Nat
    <3>1. FallbackSummary \subseteq About(AfterBoundary)  BY DEF FallbackSummary, About
    <3> QED BY <2>1, <3>1, AboutNumbers
  <2>3. history' = Compacted("fallback", FallbackSummary)  BY <1>3 DEF Compact
  <2> QED BY <1>1, <2>2, <2>3, CompactedIs DEF WindowInv, Contents
<1>4. CASE ~ failed
  <2>1. SummaryInput \in Seq(WindowMessages)
    <3>1. (IF Len(api) > Summarized THEN Len(api) - Summarized + 1 ELSE 1) \in Nat \ {0}  BY <1>2, WindowAssumption
    <3> HIDE DEF api
    <3> QED BY <1>2, <3>1, PartOfMessages DEF SummaryInput, api
  <2>2. history' = Compacted("summary", About(SummaryInput))  BY <1>4 DEF Compact
  <2>3. /\ WindowInv'
        /\ About(history') = About(SubSeq(history, 1, LastBoundary)) \cup About(SummaryInput)
        /\ About(SubSeq(history, 1, LastBoundary)) \subseteq About(history)
    BY <1>1, <2>1, <2>2, AboutNumbers, CompactedIs DEF WindowInv, Contents
  <2>4. ASSUME Len(api) <= Summarized  PROVE About(history') = About(history)
    <3>1. ~ (Len(api) > Summarized)  BY <1>2, <2>4, WindowAssumption
    <3>2. SummaryInput = SubSeq(api, 1, Len(api))  BY <3>1 DEF SummaryInput
    <3>3. SummaryInput = api
      <4> HIDE DEF api
      <4> QED BY <1>2, <3>2, SubSeqFull
    <3> QED BY <2>3, <3>3, ApiIsAboutAll
  <2> QED BY <2>3, <2>4
<1> QED BY <1>3, <1>4

\* Every step leaves a list of messages.
LEMMA WindowStep == WindowInv /\ [WindowNext]_windowvars => WindowInv'
<1> SUFFICES ASSUME WindowInv, [WindowNext]_windowvars  PROVE WindowInv'  OBVIOUS
<1>1. CASE PrepareRequest  BY <1>1 DEF PrepareRequest, WindowInv
<1>2. CASE ClearHistory
  <2>1. history' = <<>> /\ added' = added  BY <1>2 DEF ClearHistory
  <2> QED BY <2>1, EmptySeq DEF WindowInv
<1>3. CASE \E failed \in BOOLEAN : Compact(failed)  BY <1>3, CompactKeeps
<1>4. CASE UNCHANGED windowvars  BY <1>4 DEF windowvars, WindowInv
<1> QED BY <1>1, <1>2, <1>3, <1>4, AddingMessages DEF WindowNext

\* For any sizes, limits and histories: what a summary that the model wrote is
\* about is what the conversation was about, earlier summaries included, unless
\* there was more of it than the summary is made from (compact_conversation).
THEOREM SummariesForgetNothing == WindowSpec => CompactionForgetsNothing
<1>1. WindowInit => WindowInv
  <2>1. ASSUME WindowInit  PROVE WindowInv
    <3>1. history = <<>> /\ added = 0  BY <2>1 DEF WindowInit
    <3> QED BY <3>1, EmptySeq DEF WindowInv
  <2> QED BY <2>1
<1> DEFINE Forgets == [/\ history' # <<>>
                       /\ Last(history').kind = "summary" /\ Len(Api(history)) <= Summarized
                       => About(history') = About(history)]_history
<1>2. WindowInv /\ [WindowNext]_windowvars => Forgets
  <2> SUFFICES ASSUME WindowInv, [WindowNext]_windowvars, history' # history, history' # <<>>,
                      Last(history').kind = "summary", Len(Api(history)) <= Summarized
               PROVE  About(history') = About(history)
    OBVIOUS
  <2>1. ~ PrepareRequest /\ ~ ClearHistory /\ ~ UNCHANGED windowvars
    BY DEF PrepareRequest, ClearHistory, windowvars
  <2>2. CASE \E failed \in BOOLEAN : Compact(failed)  BY <2>2, CompactKeeps
  <2> QED BY <2>1, <2>2, AddingMessages DEF WindowNext
<1> QED BY <1>1, <1>2, WindowStep, PTL DEF WindowSpec, CompactionForgetsNothing

-----------------------------------------------------------------------------
(* The uses and their results *)

\* The run of results that a use begins.
LEMMA RunStartIs ==
  ASSUME NEW messages, NEW i \in Nat, NEW h \in 1 .. i - 1, IsUses(messages[h]),
         \A l \in h + 1 .. i - 1 : IsResult(messages[l])
  PROVE  RunStart(messages, i) = {h}
<1> DEFINE before == {k \in 1 .. i - 1 : \A l \in k + 1 .. i - 1 : IsResult(messages[l])}
<1>1. \A k : IsUses(messages[k]) => ~ IsResult(messages[k])  BY DEF IsUses, IsResult
<1>2. h \in before  OBVIOUS
<1>3. ASSUME NEW k \in before, IsUses(messages[k]), k # h  PROVE FALSE
  <2>1. CASE k > h
    <3>1. k \in h + 1 .. i - 1  BY <2>1
    <3> QED BY <1>1, <1>3, <3>1
  <2>2. CASE k < h
    <3>1. h \in k + 1 .. i - 1  BY <2>2
    <3> QED BY <1>1, <1>3, <3>1
  <2> QED BY <1>3, <2>1, <2>2
<1> QED BY <1>2, <1>3 DEF RunStart

\* The results of a use are those up to the next message that is none.
LEMMA AnswersAre ==
  ASSUME NEW messages \in Seq(WindowMessages), NEW h \in 1 .. Len(messages), IsUses(messages[h]),
         NEW e \in h .. Len(messages), \A l \in h + 1 .. e : IsResult(messages[l]),
         e = Len(messages) \/ ~ IsResult(messages[e + 1])
  PROVE  AnswersOf(messages, h) = h + 1 .. e /\ Cardinality(AnswersOf(messages, h)) = e - h
<1>1. Len(messages) \in Nat /\ h \in Nat /\ e \in Nat  BY LenProperties
<1>2. ASSUME NEW k \in h + 1 .. e  PROVE k \in AnswersOf(messages, h)
  <2>1. h \in 1 .. k - 1 /\ k \in Nat /\ \A l \in h + 1 .. k - 1 : IsResult(messages[l])  BY <1>1, <1>2
  <2>2. RunStart(messages, k) = {h}  BY <2>1, RunStartIs
  <2> QED BY <1>1, <2>2 DEF AnswersOf
<1>3. ASSUME NEW k \in AnswersOf(messages, h)  PROVE k \in h + 1 .. e
  <2>1. k \in h + 1 .. Len(messages) /\ RunStart(messages, k) = {h} /\ IsResult(messages[k])  BY <1>3 DEF AnswersOf
  <2>2. \A l \in h + 1 .. k - 1 : IsResult(messages[l])
    <3>1. h \in RunStart(messages, k)  BY <2>1
    <3> QED BY <3>1 DEF RunStart
  <2>3. ASSUME k > e  PROVE FALSE
    <3>1. e + 1 \in h + 1 .. k - 1 \/ e + 1 = k  BY <1>1, <2>1, <2>3
    <3>2. IsResult(messages[e + 1])  BY <2>1, <2>2, <3>1
    <3> QED BY <1>1, <2>1, <2>3, <3>2
  <2> QED BY <1>1, <2>1, <2>3
<1>4. AnswersOf(messages, h) = h + 1 .. e  BY <1>2, <1>3
<1>5. Cardinality(h + 1 .. e) = e - h
  <2>1. Cardinality(h + 1 .. e) = IF h + 1 > e THEN 0 ELSE e - (h + 1) + 1  BY <1>1, FS_Interval
  <2> QED BY <1>1, <2>1
<1> QED BY <1>4, <1>5

\* Messages that are of the same kinds and have the same uses.
Alike(messages, others) ==
    /\ DOMAIN messages = DOMAIN others /\ Len(messages) = Len(others)
    /\ \A i \in DOMAIN messages : messages[i].kind = others[i].kind /\ messages[i].uses = others[i].uses

\* They have the same pairs.
LEMMA SamePairs ==
  ASSUME NEW messages \in Seq(WindowMessages), NEW others \in Seq(WindowMessages), Alike(messages, others)
  PROVE  /\ NoOrphan(messages) => NoOrphan(others)
         /\ \A h \in DOMAIN messages : AnswersOf(messages, h) = AnswersOf(others, h)
<1>1. DOMAIN messages = 1 .. Len(messages) /\ Len(messages) \in Nat  BY LenProperties
<1>2. \A i \in 1 .. Len(messages) : /\ IsUses(messages[i]) <=> IsUses(others[i])
                                    /\ IsResult(messages[i]) <=> IsResult(others[i])
                                    /\ messages[i].uses = others[i].uses
  BY <1>1 DEF Alike, IsUses, IsResult
<1>3. ASSUME NEW i \in 1 .. Len(messages)  PROVE RunStart(messages, i) = RunStart(others, i)
  <2>1. \A k \in 1 .. i - 1 : k \in 1 .. Len(messages) /\ \A l \in k + 1 .. i - 1 : l \in 1 .. Len(messages)
    BY <1>1
  <2> QED BY <1>2, <2>1 DEF RunStart
<1>4. Len(others) = Len(messages) /\ DOMAIN others = 1 .. Len(messages)  BY <1>1 DEF Alike
<1>5. ASSUME NoOrphan(messages), NEW i \in DOMAIN others, IsResult(others[i])
      PROVE  \E k \in RunStart(others, i) : Contains(others[k].uses, Head(others[i].uses))
  <2>1. IsResult(messages[i]) /\ i \in 1 .. Len(messages)  BY <1>2, <1>4, <1>5
  <2>2. PICK k \in RunStart(messages, i) : Contains(messages[k].uses, Head(messages[i].uses))
    BY <1>1, <1>5, <2>1 DEF NoOrphan
  <2>3. k \in 1 .. Len(messages)  BY <1>1, <2>1, <2>2 DEF RunStart
  <2> QED BY <1>2, <1>3, <2>1, <2>2, <2>3
<1>6. ASSUME NEW h \in DOMAIN messages  PROVE AnswersOf(messages, h) = AnswersOf(others, h)
  <2>1. \A k \in h + 1 .. Len(messages) : k \in 1 .. Len(messages)  BY <1>1
  <2> QED BY <1>2, <1>3, <1>4, <2>1 DEF AnswersOf
<1> QED BY <1>5, <1>6 DEF NoOrphan

\* Old results are replaced by a reference, and the pairs stay.
LEMMA ExternalizedIs ==
  ASSUME NEW messages \in Seq(WindowMessages)
  PROVE  Externalize(messages) \in Seq(WindowMessages) /\ Alike(messages, Externalize(messages))
<1> DEFINE old == {i \in ResultPositions(messages) :
                      Cardinality({k \in ResultPositions(messages) : k > i}) >= KeepResults}
           new(i) == IF i \in old THEN [messages[i] EXCEPT !.size = 1, !.about = {}] ELSE messages[i]
           n == Len(messages)
<1>1. DOMAIN messages = 1 .. n /\ n \in Nat  BY LenProperties
<1>2. Externalize(messages) = [i \in 1 .. n |-> new(i)]  BY <1>1 DEF Externalize
<1> HIDE DEF old
<1>3. ASSUME NEW i \in 1 .. n
      PROVE  new(i) \in WindowMessages /\ new(i).kind = messages[i].kind /\ new(i).uses = messages[i].uses
  <2>1. messages[i] \in WindowMessages  BY ElementOfSeq
  <2> QED BY <2>1 DEF WindowMessages
<1> HIDE DEF new, n
<1>4. [i \in 1 .. n |-> new(i)] \in [1 .. n -> WindowMessages]  BY <1>3
<1>5. Externalize(messages) \in Seq(WindowMessages) /\ Len(Externalize(messages)) = n /\ DOMAIN Externalize(messages) = 1 .. n
  <2>1. Externalize(messages) \in Seq(WindowMessages)  BY <1>1, <1>2, <1>4, SeqDef
  <2>2. DOMAIN Externalize(messages) = 1 .. n  BY <1>2
  <2>3. Len(Externalize(messages)) = n
    <3>1. Len(Externalize(messages)) \in Nat /\ DOMAIN Externalize(messages) = 1 .. Len(Externalize(messages))
      BY <2>1, LenProperties
    <3> QED BY <1>1, <2>2, <3>1
  <2> QED BY <2>1, <2>2, <2>3
<1>6. \A i \in 1 .. n : Externalize(messages)[i].kind = messages[i].kind /\ Externalize(messages)[i].uses = messages[i].uses
  BY <1>2, <1>3
<1> QED BY <1>1, <1>5, <1>6 DEF Alike, n

\* A part of a request: its results follow the message that makes their uses,
\* and a message with uses stands there with all the results it has in s.
WholePart(part, s) ==
    /\ part \in Seq(WindowMessages)
    /\ part # <<>> => ~ IsResult(part[1])
    /\ \A j \in 1 .. Len(part) : IsResult(part[j]) =>
          \E h \in 1 .. j - 1 : /\ IsUses(part[h]) /\ \A l \in h + 1 .. j - 1 : IsResult(part[l])
                                /\ Contains(part[h].uses, Head(part[j].uses))
    /\ \A h \in 1 .. Len(part) : IsUses(part[h]) =>
          /\ \A l \in h + 1 .. Len(part) : IsResult(part[l])
          /\ \E k \in DOMAIN s : s[k].uses = part[h].uses /\ Cardinality(AnswersOf(s, k)) = Len(part) - h

\* The messages with uses of a request have the results they have in s.
KeepsAnswers(messages, s) ==
    \A i \in DOMAIN messages : IsUses(messages[i]) =>
        \E k \in DOMAIN s : /\ s[k].uses = messages[i].uses
                            /\ Cardinality(AnswersOf(s, k)) = Cardinality(AnswersOf(messages, i))

\* Whole parts, joined, have no orphans and all answers.
LEMMA WholePartsJoined ==
  ASSUME NEW s, NEW parts \in Seq(Seq(WindowMessages)), \A i \in DOMAIN parts : WholePart(parts[i], s)
  PROVE  /\ FlattenSeq(parts) \in Seq(WindowMessages)
         /\ NoOrphan(FlattenSeq(parts)) /\ KeepsAnswers(FlattenSeq(parts), s)
<1> DEFINE flat == FlattenSeq(parts)
           n == Len(parts)
<1>1. flat \in Seq(WindowMessages) /\ PartsIn(flat, parts, n)  BY FlattenedIs
<1> HIDE DEF flat
<1>2. DOMAIN parts = 1 .. n /\ n \in Nat /\ DOMAIN flat = 1 .. Len(flat) /\ Len(flat) \in Nat  BY <1>1, LenProperties
<1>3. ASSUME NEW j \in 1 .. Len(flat)
      PROVE  \E i \in 1 .. n, o \in Nat :
                /\ o < j /\ j <= o + Len(parts[i]) /\ o + Len(parts[i]) <= Len(flat)
                /\ \A t \in 1 .. Len(parts[i]) : flat[o + t] = parts[i][t]
                /\ o + Len(parts[i]) = Len(flat) \/ ~ IsResult(flat[o + Len(parts[i]) + 1])
                /\ WholePart(parts[i], s) /\ Len(parts[i]) \in Nat
  <2>1. PICK i \in 1 .. n, o \in 0 .. Len(flat) :
          /\ o < j /\ j <= o + Len(parts[i]) /\ o + Len(parts[i]) <= Len(flat)
          /\ \A t \in 1 .. Len(parts[i]) : flat[o + t] = parts[i][t]
          /\ \/ o + Len(parts[i]) = Len(flat)
             \/ \E k \in 1 .. n : parts[k] # <<>> /\ flat[o + Len(parts[i]) + 1] = parts[k][1]
    BY <1>1 DEF PartsIn
  <2>2. \A k \in 1 .. n : parts[k] # <<>> => ~ IsResult(parts[k][1])  BY <1>2 DEF WholePart
  <2>5. i \in DOMAIN parts  BY <1>2
  <2>6. o \in Nat  BY <1>2
  <2>3. o \in Nat /\ WholePart(parts[i], s)  BY <2>5, <2>6
  <2>4. Len(parts[i]) \in Nat  BY <2>3, LenProperties DEF WholePart
  <2> QED BY <2>1, <2>2, <2>3, <2>4
<1>4. ASSUME NEW j \in 1 .. Len(flat), IsResult(flat[j])
      PROVE  \E k \in RunStart(flat, j) : Contains(flat[k].uses, Head(flat[j].uses))
  <2>1. PICK i \in 1 .. n, o \in Nat :
          /\ o < j /\ j <= o + Len(parts[i]) /\ o + Len(parts[i]) <= Len(flat)
          /\ \A t \in 1 .. Len(parts[i]) : flat[o + t] = parts[i][t]
          /\ WholePart(parts[i], s) /\ Len(parts[i]) \in Nat
    BY <1>3
  <2> DEFINE p == parts[i]
             at == j - o
  <2>2. at \in 1 .. Len(p) /\ o + at = j  BY <1>2, <2>1
  <2>3. p[at] = flat[j]  BY <2>1, <2>2
  <2>4. PICK h \in 1 .. at - 1 : /\ IsUses(p[h]) /\ \A l \in h + 1 .. at - 1 : IsResult(p[l])
                                 /\ Contains(p[h].uses, Head(p[at].uses))
    <3> HIDE DEF p, at
    <3> QED BY <1>4, <2>1, <2>2, <2>3 DEF WholePart, p
  <2>9. Len(p) \in Nat /\ o \in Nat /\ j \in Nat  BY <1>2, <2>1
  <2>10. h \in 1 .. Len(p)
    <3> HIDE DEF p, at
    <3> QED BY <2>2, <2>4, <2>9
  <2>5. h \in 1 .. Len(p) /\ flat[o + h] = p[h]  BY <2>1, <2>10
  <2>6. ASSUME NEW l \in o + h + 1 .. j - 1  PROVE IsResult(flat[l])
    <3>1. l - o \in h + 1 .. at - 1 /\ l - o \in 1 .. Len(p) /\ o + (l - o) = l  BY <1>2, <2>1, <2>2, <2>4
    <3>2. flat[o + (l - o)] = p[l - o]  BY <2>1, <3>1
    <3> QED BY <2>4, <3>1, <3>2
  <2>7. o + h \in 1 .. j - 1 /\ j \in Nat  BY <1>2, <2>1, <2>2, <2>4
  <2>8. RunStart(flat, j) = {o + h}  BY <2>4, <2>5, <2>6, <2>7, RunStartIs
  <2> QED BY <2>3, <2>4, <2>5, <2>8
<1>5. ASSUME NEW j \in 1 .. Len(flat), IsUses(flat[j])
      PROVE  \E k \in DOMAIN s : /\ s[k].uses = flat[j].uses
                                 /\ Cardinality(AnswersOf(s, k)) = Cardinality(AnswersOf(flat, j))
  <2>1. PICK i \in 1 .. n, o \in Nat :
          /\ o < j /\ j <= o + Len(parts[i]) /\ o + Len(parts[i]) <= Len(flat)
          /\ \A t \in 1 .. Len(parts[i]) : flat[o + t] = parts[i][t]
          /\ o + Len(parts[i]) = Len(flat) \/ ~ IsResult(flat[o + Len(parts[i]) + 1])
          /\ WholePart(parts[i], s) /\ Len(parts[i]) \in Nat
    BY <1>3
  <2> DEFINE p == parts[i]
             h == j - o
             e == o + Len(p)
  <2>2. h \in 1 .. Len(p) /\ o + h = j  BY <1>2, <2>1
  <2>10. Len(p) \in Nat  BY <2>1
  <2>11. j \in Nat  BY <1>2
  <2>9. Len(p) \in Nat /\ o \in Nat /\ j \in Nat  BY <2>10, <2>11
  <2>3. p[h] = flat[j]  BY <2>1, <2>2
  <2>4. /\ \A l \in h + 1 .. Len(p) : IsResult(p[l])
        /\ \E k \in DOMAIN s : s[k].uses = p[h].uses /\ Cardinality(AnswersOf(s, k)) = Len(p) - h
    <3> HIDE DEF p, h
    <3> QED BY <1>5, <2>1, <2>2, <2>3 DEF WholePart, p
  <2>5. ASSUME NEW l \in j + 1 .. e  PROVE IsResult(flat[l])
    <3>1. l - o \in h + 1 .. Len(p) /\ l - o \in 1 .. Len(p) /\ o + (l - o) = l
      <4>1. l \in j + 1 .. o + Len(p)  BY <2>5
      <4> HIDE DEF p, e
      <4> QED BY <2>2, <2>9, <4>1
    <3>2. flat[o + (l - o)] = p[l - o]  BY <2>1, <3>1
    <3> QED BY <2>4, <3>1, <3>2
  <2>6. e \in j .. Len(flat) /\ (e = Len(flat) \/ ~ IsResult(flat[e + 1]))  BY <1>2, <2>1
  <2>7. Cardinality(AnswersOf(flat, j)) = e - j
    <3> HIDE DEF e
    <3> QED BY <1>1, <1>5, <2>5, <2>6, AnswersAre
  <2>8. e - j = Len(p) - h  BY <1>2, <2>1
  <2> QED BY <2>3, <2>4, <2>7, <2>8
<1>6. NoOrphan(flat) /\ KeepsAnswers(flat, s)  BY <1>2, <1>4, <1>5 DEF NoOrphan, KeepsAnswers
<1> QED BY <1>1, <1>6 DEF flat

\* A unit is a message that is no result with the results that follow it.
LEMMA UnitIs ==
  ASSUME NEW e \in Seq(WindowMessages), NoOrphan(e), NEW s, s \in Seq(WindowMessages), Alike(e, s)
  PROVE  /\ AtomicUnits(e) \in Seq(Seq(WindowMessages))
         /\ \A n \in DOMAIN AtomicUnits(e) : WholePart(AtomicUnits(e)[n], s)
<1> DEFINE P == {i \in DOMAIN e : ~ (IsResult(e[i]) /\ RunStart(e, i) # {})}
           starts == InOrder(P)
           c == Cardinality(P)
           last(n) == IF n = Len(starts) THEN Len(e) ELSE starts[n + 1] - 1
           unit(n) == SubSeq(e, starts[n], last(n))
<1>1. DOMAIN e = 1 .. Len(e) /\ Len(e) \in Nat  BY LenProperties
<1>2. \A i \in DOMAIN e : i \in P <=> ~ IsResult(e[i])
  BY DEF NoOrphan
<1>3. P \in SUBSET Nat /\ IsFiniteSet(P) /\ P \in SUBSET (1 .. Len(e))
  <2>1. IsFiniteSet(1 .. Len(e))  BY <1>1, FS_Interval
  <2>2. P \in SUBSET (1 .. Len(e))  BY <1>1
  <2> HIDE DEF P
  <2>3. IsFiniteSet(P)  BY <2>1, <2>2, FS_Subset
  <2> QED BY <2>2, <2>3
<1>4. AtomicUnits(e) = [n \in DOMAIN starts |-> unit(n)]  BY DEF AtomicUnits
<1> HIDE DEF P
<1>5. /\ c \in Nat /\ DOMAIN starts = 1 .. c
      /\ \A k \in 1 .. c : starts[k] \in P /\ Place(P, starts[k]) = k
      /\ \A x \in P : Place(P, x) \in 1 .. c /\ starts[Place(P, x)] = x
  BY <1>3, InOrderIs
<1>6. Len(starts) = c
  <2>1. starts = [k \in 1 .. c |-> CHOOSE x \in P : Place(P, x) = k]  BY DEF InOrder
  <2>2. starts \in Seq(P)
    <3>1. starts \in [1 .. c -> P]  BY <1>5, <2>1
    <3> QED BY <1>5, <3>1, SeqDef
  <2>3. Len(starts) \in Nat /\ DOMAIN starts = 1 .. Len(starts)  BY <2>2, LenProperties
  <2> QED BY <1>5, <2>3
<1> HIDE DEF starts, c
<1>7. \A x, y \in P : x < y => Place(P, x) < Place(P, y)
  <2>1. ASSUME NEW x \in P, NEW y \in P, x < y  PROVE Place(P, x) < Place(P, y)
    BY <1>3, <2>1, RankGrows
  <2> QED BY <2>1
<1>8. ASSUME NEW n \in 1 .. c
      PROVE  /\ starts[n] \in 1 .. Len(e) /\ starts[n] \in P
             /\ last(n) \in starts[n] .. Len(e)
             /\ \A l \in starts[n] + 1 .. last(n) : IsResult(e[l])
             /\ last(n) = Len(e) \/ ~ IsResult(e[last(n) + 1])
  <2> DEFINE a == starts[n]
  <2>1. a \in P /\ Place(P, a) = n /\ a \in 1 .. Len(e)  BY <1>3, <1>5
  <2> HIDE DEF a
  <2>2. CASE n = c
    <3>1. last(n) = Len(e)  BY <1>6, <2>2
    <3>2. ASSUME NEW l \in a + 1 .. Len(e)  PROVE IsResult(e[l])
      <4>1. l \in DOMAIN e /\ a < l  BY <1>1, <2>1
      <4>2. ASSUME l \in P  PROVE FALSE
        <5>1. Place(P, l) \in 1 .. c /\ n < Place(P, l)  BY <1>5, <1>7, <2>1, <4>1, <4>2
        <5> QED BY <1>5, <2>2, <5>1
      <4> QED BY <1>2, <4>1, <4>2
    <3> QED BY <1>1, <2>1, <3>1, <3>2 DEF a
  <2>3. CASE n # c
    <3> DEFINE b == starts[n + 1]
    <3>1. n + 1 \in 1 .. c  BY <1>5, <2>3
    <3>2. b \in P /\ Place(P, b) = n + 1 /\ b \in 1 .. Len(e)  BY <1>3, <1>5, <3>1
    <3>3. last(n) = b - 1  BY <1>6, <2>3
    <3> HIDE DEF b, last
    <3>4. a < b
      <4>1. CASE b < a
        <5>1. n + 1 < n  BY <1>7, <2>1, <3>2, <4>1
        <5> QED BY <1>5, <5>1
      <4>2. CASE b = a
        <5>1. n + 1 = n  BY <2>1, <3>2, <4>2
        <5> QED BY <1>5, <5>1
      <4> QED BY <1>1, <2>1, <3>2, <4>1, <4>2
    <3>5. ASSUME NEW l \in a + 1 .. b - 1  PROVE IsResult(e[l])
      <4>1. l \in DOMAIN e /\ a < l /\ l < b  BY <1>1, <2>1, <3>2
      <4>2. ASSUME l \in P  PROVE FALSE
        <5>1. Place(P, l) \in 1 .. c /\ n < Place(P, l) /\ Place(P, l) < n + 1
          BY <1>5, <1>7, <2>1, <3>2, <4>1, <4>2
        <5> QED BY <1>5, <5>1
      <4> QED BY <1>2, <4>1, <4>2
    <3>6. b - 1 + 1 = b /\ ~ IsResult(e[b]) /\ b - 1 \in a .. Len(e)  BY <1>1, <1>2, <2>1, <3>2, <3>4
    <3> QED BY <2>1, <3>3, <3>5, <3>6 DEF a
  <2> QED BY <2>2, <2>3
<1> HIDE DEF last
<1>9. ASSUME NEW n \in 1 .. c
      PROVE  WholePart(unit(n), s)
  <2> DEFINE a == starts[n]
             z == last(n)
             q == unit(n)
  <2>1. /\ a \in 1 .. Len(e) /\ a \in P /\ z \in a .. Len(e)
        /\ \A l \in a + 1 .. z : IsResult(e[l])
        /\ z = Len(e) \/ ~ IsResult(e[z + 1])
    BY <1>8
  <2>2. q = SubSeq(e, a, z)  OBVIOUS
  <2>20. a \in 1 .. Len(e) /\ z \in a .. Len(e) /\ Len(e) \in Nat  BY <1>1, <2>1
  <2> HIDE DEF a, z, q
  <2>21. a \in Nat /\ a >= 1  BY <2>20
  <2>22. z \in Nat /\ a <= z /\ z <= Len(e)  BY <2>20, <2>21
  <2>3. /\ q \in Seq(WindowMessages) /\ Len(q) = z - a + 1
        /\ \A i \in 1 .. z - a + 1 : q[i] = e[a + i - 1]
    <3>1. \A i \in a .. z : e[i] \in WindowMessages
      <4>1. \A i \in a .. z : i \in 1 .. Len(e)  BY <2>20, <2>21, <2>22
      <4> QED BY <4>1, ElementOfSeq
    <3>2. a \in Int /\ z \in Int /\ a <= z  BY <2>21, <2>22
    <3> QED BY <2>2, <3>1, <3>2, SubSeqProperties
  <2>4. a \in Nat /\ z \in Nat /\ 1 \in 1 .. z - a + 1 /\ a + 1 - 1 = a  BY <2>21, <2>22
  <2>5. ~ IsResult(e[a]) /\ q[1] = e[a]  BY <1>1, <1>2, <2>1, <2>3, <2>4
  <2>6. ASSUME NEW l \in 2 .. Len(q)  PROVE IsResult(q[l])
    <3>1. a + l - 1 \in a + 1 .. z /\ l \in 1 .. z - a + 1  BY <2>3, <2>4
    <3> QED BY <2>1, <2>3, <3>1
  <2>7. ASSUME NEW j \in 1 .. Len(q), IsResult(q[j])
        PROVE  \E h \in 1 .. j - 1 : /\ IsUses(q[h]) /\ \A l \in h + 1 .. j - 1 : IsResult(q[l])
                                     /\ Contains(q[h].uses, Head(q[j].uses))
    <3> DEFINE i == a + j - 1
    <3>1. j # 1 /\ j \in 1 .. z - a + 1  BY <2>3, <2>5, <2>7
    <3>10. j \in Nat /\ j > 1 /\ j <= z - a + 1  BY <2>21, <2>22, <3>1
    <3>11. i \in a + 1 .. z /\ i \in 1 .. Len(e)  BY <2>20, <2>21, <2>22, <3>10
    <3>2. i \in a + 1 .. z /\ i \in DOMAIN e /\ q[j] = e[i]  BY <1>1, <2>3, <3>1, <3>11
    <3>3. PICK k \in RunStart(e, i) : Contains(e[k].uses, Head(e[i].uses))  BY <2>7, <3>2 DEF NoOrphan
    <3>4. k \in 1 .. i - 1 /\ IsUses(e[k]) /\ \A l \in k + 1 .. i - 1 : IsResult(e[l])  BY <3>3 DEF RunStart
    <3> HIDE DEF i
    <3>5. k = a
      <4>1. CASE k < a
        <5>1. a \in k + 1 .. i - 1  BY <2>4, <3>2, <3>4, <4>1
        <5> QED BY <2>5, <3>4, <5>1
      <4>2. CASE k > a
        <5>1. k \in a + 1 .. z  BY <2>4, <3>2, <3>4, <4>2
        <5>2. IsResult(e[k])  BY <2>1, <5>1
        <5> QED BY <3>4, <5>2 DEF IsUses, IsResult
      <4> QED BY <2>4, <3>4, <4>1, <4>2
    <3>6. 1 \in 1 .. j - 1 /\ \A l \in 1 + 1 .. j - 1 : l \in 2 .. Len(q)  BY <2>3, <2>4, <3>1
    <3> QED BY <2>5, <2>6, <3>2, <3>3, <3>4, <3>5, <3>6
  <2>8. ASSUME NEW h \in 1 .. Len(q), IsUses(q[h])
        PROVE  /\ \A l \in h + 1 .. Len(q) : IsResult(q[l])
               /\ \E k \in DOMAIN s : s[k].uses = q[h].uses /\ Cardinality(AnswersOf(s, k)) = Len(q) - h
    <3>1. h = 1
      <4>1. CASE h # 1
        <5>1. h \in 2 .. Len(q)  BY <2>3, <2>4, <4>1
        <5> QED BY <2>6, <2>8, <5>1 DEF IsUses, IsResult
      <4> QED BY <4>1
    <3>2. IsUses(e[a])  BY <2>5, <2>8, <3>1
    <3>3. Cardinality(AnswersOf(e, a)) = z - a  BY <2>1, <3>2, AnswersAre
    <3>4. a \in DOMAIN e /\ a \in DOMAIN s /\ s[a].uses = e[a].uses  BY <1>1, <2>1 DEF Alike
    <3>5. AnswersOf(s, a) = AnswersOf(e, a)  BY <3>4, SamePairs
    <3>6. z - a = Len(q) - h  BY <2>3, <2>4, <3>1
    <3>7. \A l \in h + 1 .. Len(q) : l \in 2 .. Len(q)  BY <3>1
    <3> QED BY <2>5, <2>6, <3>1, <3>3, <3>4, <3>5, <3>6, <3>7
  <2>9. WholePart(q, s)  BY <2>3, <2>5, <2>7, <2>8 DEF WholePart
  <2> QED BY <2>9 DEF q
<1> HIDE DEF unit
<1>10. [n \in 1 .. c |-> unit(n)] \in [1 .. c -> Seq(WindowMessages)]  BY <1>9 DEF WholePart
<1> QED BY <1>4, <1>5, <1>9, <1>10, SeqDef

\* The sizes of messages add up to a number.
LEMMA TotalIsNat == ASSUME NEW messages \in Seq(WindowMessages) PROVE Total(messages) \in Nat
<1> DEFINE S == DOMAIN messages
           top == [T \in SUBSET S |-> Max(T)]
           size == [i \in S |-> messages[i].size]
           Unfolded(h) == h = [T \in SUBSET S |-> IF T = {} THEN 0 ELSE
                LET i == Max(T)
                IN h[T \ {i}] + messages[i].size]
           sum == CHOOSE h : Unfolded(h)
<1>1. Total(messages) = sum[S]
  BY DEF Total, FoldLeft, MapThenFoldSet
<1>2. S \in SUBSET Nat /\ IsFiniteSet(S)
  <2>1. S = 1 .. Len(messages) /\ Len(messages) \in Nat  BY LenProperties
  <2>2. IsFiniteSet(1 .. Len(messages))  BY <2>1, FS_Interval
  <2> QED BY <2>1, <2>2
<1>3. \A i \in S : messages[i].size \in Nat
  <2>1. \A i \in 1 .. Len(messages) : messages[i] \in WindowMessages  BY ElementOfSeq
  <2>2. S = 1 .. Len(messages)  BY LenProperties
  <2> QED BY <2>1, <2>2 DEF WindowMessages
<1>4. \A T \in SUBSET S : T # {} => top[T] \in T
  <2>1. ASSUME NEW T \in SUBSET S, T # {}  PROVE Max(T) \in T
    <3>1. T \in SUBSET Nat /\ IsFiniteSet(T)  BY <1>2, FS_Subset
    <3> QED BY <2>1, <3>1, GreatestOf
  <2> QED BY <2>1
<1>5. \E h \in [SUBSET S -> Nat] : Unfolded(h)
  <2> DEFINE g == [i \in S |-> [n \in Nat |-> n + messages[i].size]]
  <2>1. g \in [S -> [Nat -> Nat]]  BY <1>3
  <2> HIDE DEF g, top, S
  <2>2. \E h : FoldsParts(h, S, Nat, 0, g, top)
    <3>1. 0 \in Nat  OBVIOUS
    <3> QED BY <1>2, <1>4, <2>1, <3>1, FoldExists
  <2>3. PICK h \in [SUBSET S -> Nat] :
           \A T \in SUBSET S : h[T] = IF T = {} THEN 0 ELSE g[top[T]][h[T \ {top[T]}]]
    BY <2>2 DEF FoldsParts
  <2>4. ASSUME NEW T \in SUBSET S, T # {}
        PROVE  h[T] = LET i == Max(T) IN h[T \ {i}] + messages[i].size
    <3>1. top[T] \in S /\ T \ {top[T]} \in SUBSET S  BY <1>4, <2>4
    <3>2. h[T \ {top[T]}] \in Nat  BY <3>1
    <3>3. h[T] = h[T \ {top[T]}] + messages[top[T]].size  BY <2>3, <2>4, <3>1, <3>2 DEF g
    <3>4. top[T] = Max(T)  BY DEF top
    <3> QED BY <3>3, <3>4
  <2>5. Unfolded(h)  BY <2>3, <2>4
  <2> QED BY <2>5
<1>6. Unfolded(sum)
  <2> HIDE DEF Unfolded
  <2> QED BY <1>5, Zenon
<1> HIDE DEF sum
<1>7. ASSUME NEW T \in SUBSET S
      PROVE  /\ T = {} => sum[T] = 0
             /\ T # {} => sum[T] = sum[T \ {top[T]}] + messages[top[T]].size
  BY <1>6
<1> HIDE DEF Unfolded, top, S
<1>8. sum[{}] = 0
  <2>1. {} \in SUBSET S  OBVIOUS
  <2> QED BY <1>7, <2>1
<1>9. \A T \in SUBSET S : T # {} /\ sum[T \ {top[T]}] \in Nat => sum[T] = size[top[T]] + sum[T \ {top[T]}]
  <2>1. ASSUME NEW T \in SUBSET S, T # {}, sum[T \ {top[T]}] \in Nat
        PROVE  sum[T] = size[top[T]] + sum[T \ {top[T]}]
    <3>1. top[T] \in S  BY <1>4, <2>1
    <3>2. sum[T] = sum[T \ {top[T]}] + messages[top[T]].size  BY <1>7, <2>1
    <3>3. messages[top[T]].size \in Nat /\ size[top[T]] = messages[top[T]].size  BY <1>3, <3>1
    <3> QED BY <2>1, <3>2, <3>3
  <2> QED BY <2>1
<1>10. \A i \in S : size[i] \in Nat  BY <1>3
<1> HIDE DEF size
<1>11. sum[S] \in Nat  BY <1>2, <1>4, <1>8, <1>9, <1>10, CountedPartByPart
<1> QED BY <1>1, <1>11

\* The snapshot of what is left out before a whole part is a whole part.
LEMMA AfterSnapshot ==
  ASSUME NEW s, NEW units, NEW part, WholePart(part, s)
  PROVE  WholePart(<<SnapshotOf(units)>> \o part, s)
<1> DEFINE m == SnapshotOf(units)
           long == <<m>> \o part
           n == Len(part)
<1>1. part \in Seq(WindowMessages) /\ n \in Nat  BY LenProperties DEF WholePart
<1>2. m \in WindowMessages /\ ~ IsResult(m) /\ ~ IsUses(m)
  BY EmptySeq DEF SnapshotOf, WindowMessage, WindowMessages, IsResult, IsUses
<1> HIDE DEF m
<1>3. /\ long \in Seq(WindowMessages) /\ Len(long) = n + 1 /\ long[1] = m
      /\ \A j \in 1 .. n : long[j + 1] = part[j]
  <2>1. <<m>> \in Seq(WindowMessages) /\ Len(<<m>>) = 1 /\ <<m>>[1] = m  BY <1>2
  <2>2. /\ long \in Seq(WindowMessages) /\ Len(long) = 1 + n
        /\ \A i \in 1 .. 1 + n : long[i] = IF i <= 1 THEN <<m>>[i] ELSE part[i - 1]
    BY <1>1, <2>1, ConcatProperties
  <2>3. \A j \in 1 .. n : j + 1 \in 1 .. 1 + n /\ ~ (j + 1 <= 1) /\ j + 1 - 1 = j  BY <1>1
  <2>4. 1 \in 1 .. 1 + n  BY <1>1
  <2> QED BY <1>1, <2>1, <2>2, <2>3, <2>4
<1> HIDE DEF long
<1>4. \A i \in 1 .. Len(long) : i = 1 \/ (i - 1 \in 1 .. n /\ long[i] = part[i - 1] /\ i - 1 + 1 = i)
  <2>1. ASSUME NEW i \in 1 .. Len(long), i # 1  PROVE i - 1 \in 1 .. n /\ i - 1 + 1 = i  BY <1>1, <1>3, <2>1
  <2>2. ASSUME NEW i \in 1 .. Len(long), i # 1  PROVE long[i] = part[i - 1]  BY <1>3, <2>1, <2>2
  <2> QED BY <2>1, <2>2
<1>5. ASSUME NEW j \in 1 .. Len(long), IsResult(long[j])
      PROVE  \E h \in 1 .. j - 1 : /\ IsUses(long[h]) /\ \A l \in h + 1 .. j - 1 : IsResult(long[l])
                                   /\ Contains(long[h].uses, Head(long[j].uses))
  <2>1. j # 1 /\ j - 1 \in 1 .. n /\ long[j] = part[j - 1]  BY <1>2, <1>3, <1>4, <1>5
  <2>2. PICK h \in 1 .. j - 1 - 1 : /\ IsUses(part[h]) /\ \A l \in h + 1 .. j - 1 - 1 : IsResult(part[l])
                                    /\ Contains(part[h].uses, Head(part[j - 1].uses))
    BY <1>5, <2>1 DEF WholePart
  <2>3. h + 1 \in 1 .. j - 1 /\ h \in 1 .. n  BY <1>1, <2>1
  <2>4. long[h + 1] = part[h]  BY <1>3, <2>3
  <2>5. ASSUME NEW l \in h + 1 + 1 .. j - 1  PROVE IsResult(long[l])
    <3>1. l - 1 \in h + 1 .. j - 1 - 1 /\ l \in 1 .. Len(long) /\ l # 1  BY <1>1, <1>3, <2>1, <2>3
    <3>2. long[l] = part[l - 1]  BY <1>4, <3>1
    <3> QED BY <2>2, <3>1, <3>2
  <2> QED BY <2>1, <2>2, <2>3, <2>4, <2>5
<1>6. ASSUME NEW h \in 1 .. Len(long), IsUses(long[h])
      PROVE  /\ \A l \in h + 1 .. Len(long) : IsResult(long[l])
             /\ \E k \in DOMAIN s : s[k].uses = long[h].uses /\ Cardinality(AnswersOf(s, k)) = Len(long) - h
  <2>1. h - 1 \in 1 .. n /\ long[h] = part[h - 1]  BY <1>2, <1>3, <1>4, <1>6
  <2>2. /\ \A l \in h - 1 + 1 .. n : IsResult(part[l])
        /\ \E k \in DOMAIN s : s[k].uses = part[h - 1].uses /\ Cardinality(AnswersOf(s, k)) = n - (h - 1)
    BY <1>6, <2>1 DEF WholePart
  <2>3. ASSUME NEW l \in h + 1 .. Len(long)  PROVE IsResult(long[l])
    <3>1. l - 1 \in h - 1 + 1 .. n /\ l \in 1 .. Len(long) /\ l # 1  BY <1>1, <1>3, <2>1
    <3>2. long[l] = part[l - 1]  BY <1>4, <3>1
    <3> QED BY <2>2, <3>1, <3>2
  <2>4. n - (h - 1) = Len(long) - h  BY <1>1, <1>3, <2>1
  <2> QED BY <2>1, <2>2, <2>3, <2>4
<1>7. WholePart(long, s)  BY <1>2, <1>3, <1>5, <1>6 DEF WholePart
<1> QED BY <1>7 DEF long, m

\* What is sent of messages without orphans has none, each of its uses has the
\* results it had, and it is not longer than the window without the verdict.
LEMMA PreparedKeeps ==
  ASSUME NEW messages \in Seq(WindowMessages), NoOrphan(messages)
  PROVE  LET sent == PrepareWithBudget(messages)
         IN /\ NoOrphan(sent.messages) /\ KeepsAnswers(sent.messages, messages)
            /\ Overhead + Total(sent.messages) > HardLimit => sent.overHard
<1> DEFINE ext == Externalize(messages)
           units == AtomicUnits(ext)
           keep == KeptUnits(units)
           next == CHOOSE i \in keep \ {1} : \A k \in keep \ {1} : i <= k
           part(i) == IF i \notin keep THEN <<>>
                      ELSE IF i = next /\ keep # DOMAIN units THEN <<SnapshotOf(units)>> \o units[i]
                      ELSE units[i]
           parts == [i \in DOMAIN units |-> part(i)]
           kept == FlattenSeq(parts)
           sent == PrepareWithBudget(messages)
<1>1. sent = IF Overhead + Total(messages) <= SoftLimit
             THEN [messages |-> messages, compacted |-> FALSE, overHard |-> FALSE]
             ELSE IF Overhead + Total(ext) <= HardLimit
             THEN [messages |-> ext, compacted |-> TRUE, overHard |-> FALSE]
             ELSE IF Len(units) <= 3
             THEN [messages |-> ext, compacted |-> TRUE, overHard |-> TRUE]
             ELSE [messages |-> kept, compacted |-> TRUE, overHard |-> Overhead + Total(kept) > HardLimit]
  BY DEF PrepareWithBudget
<1> HIDE DEF sent
<1>2. ext \in Seq(WindowMessages) /\ Alike(messages, ext) /\ Alike(ext, messages)
  BY ExternalizedIs DEF Alike
<1> HIDE DEF ext
<1>3. NoOrphan(ext) /\ \A h \in DOMAIN messages : AnswersOf(messages, h) = AnswersOf(ext, h)
  BY <1>2, SamePairs
<1>4. KeepsAnswers(messages, messages)  BY DEF KeepsAnswers
<1>5. KeepsAnswers(ext, messages)
  <2>1. ASSUME NEW i \in DOMAIN ext  PROVE i \in DOMAIN messages /\ messages[i].uses = ext[i].uses
    BY <1>2 DEF Alike
  <2> QED BY <1>3, <2>1 DEF KeepsAnswers
<1>6. units \in Seq(Seq(WindowMessages)) /\ \A n \in DOMAIN units : WholePart(units[n], messages)
  BY <1>2, <1>3, UnitIs
<1> HIDE DEF units, keep, next
<1>7. ASSUME NEW i \in DOMAIN units  PROVE WholePart(part(i), messages)
  <2>1. WholePart(<<>>, messages)
    <3>1. <<>> \in Seq(WindowMessages) /\ 1 .. Len(<<>>) = {}  BY EmptySeq
    <3> QED BY <3>1 DEF WholePart
  <2>2. WholePart(units[i], messages) /\ WholePart(<<SnapshotOf(units)>> \o units[i], messages)
    BY <1>6, AfterSnapshot
  <2> QED BY <2>1, <2>2
<1> HIDE DEF part
<1>8. parts \in Seq(Seq(WindowMessages)) /\ \A i \in DOMAIN parts : WholePart(parts[i], messages)
  <2>1. DOMAIN units = 1 .. Len(units) /\ Len(units) \in Nat  BY <1>6, LenProperties
  <2>2. parts \in [1 .. Len(units) -> Seq(WindowMessages)]  BY <1>7, <2>1 DEF WholePart
  <2>3. parts \in Seq(Seq(WindowMessages))  BY <2>1, <2>2, SeqDef
  <2> QED BY <1>7, <2>3
<1> HIDE DEF parts
<1>9. NoOrphan(kept) /\ KeepsAnswers(kept, messages)  BY <1>8, WholePartsJoined
<1> HIDE DEF kept
<1>10. Total(messages) \in Nat /\ Total(ext) \in Nat  BY <1>2, TotalIsNat
<1>11. SoftLimit \in Nat /\ HardLimit \in Nat /\ Overhead \in Nat /\ SoftLimit <= HardLimit  BY WindowAssumption
<1>12. CASE Overhead + Total(messages) <= SoftLimit
  <2>1. sent = [messages |-> messages, compacted |-> FALSE, overHard |-> FALSE]  BY <1>1, <1>12
  <2>2. ~ (Overhead + Total(messages) > HardLimit)  BY <1>10, <1>11, <1>12
  <2> QED BY <1>4, <2>1, <2>2 DEF sent
<1>13. CASE ~ (Overhead + Total(messages) <= SoftLimit) /\ Overhead + Total(ext) <= HardLimit
  <2>1. sent = [messages |-> ext, compacted |-> TRUE, overHard |-> FALSE]  BY <1>1, <1>13
  <2>2. ~ (Overhead + Total(ext) > HardLimit)  BY <1>10, <1>11, <1>13
  <2> QED BY <1>3, <1>5, <2>1, <2>2 DEF sent
<1>14. CASE ~ (Overhead + Total(messages) <= SoftLimit) /\ ~ (Overhead + Total(ext) <= HardLimit)
  <2>1. \/ sent = [messages |-> ext, compacted |-> TRUE, overHard |-> TRUE]
        \/ sent = [messages |-> kept, compacted |-> TRUE, overHard |-> Overhead + Total(kept) > HardLimit]
    BY <1>1, <1>14
  <2>2. CASE sent = [messages |-> ext, compacted |-> TRUE, overHard |-> TRUE]
    BY <1>3, <1>5, <2>2 DEF sent
  <2>3. CASE sent = [messages |-> kept, compacted |-> TRUE, overHard |-> Overhead + Total(kept) > HardLimit]
    <3>1. /\ NoOrphan(sent.messages) /\ KeepsAnswers(sent.messages, messages)
          /\ Overhead + Total(sent.messages) > HardLimit => sent.overHard
      BY <1>9, <2>3
    <3> QED BY <3>1 DEF sent
  <2> QED BY <2>1, <2>2, <2>3
<1> QED BY <1>12, <1>13, <1>14

\* For any sizes, limits and numbers of results to keep: a request has an orphan
\* only if the conversation itself has one, its uses have the results they have
\* in the conversation, and what is too long for the window is sent only with
\* the verdict that it is (prepare_messages_with_budget).
THEOREM RequestsKeepPairs == WindowSpec => RequestKeepsPairs
<1>1. WindowInit => WindowInv  BY EmptySeq DEF WindowInit, WindowInv
<1>2. WindowInv /\ [WindowNext]_windowvars => WindowInv'  BY WindowStep
<1> DEFINE Kept == /\ NoOrphan(prompt'.messages)
                   /\ \A i \in DOMAIN prompt'.messages : IsUses(prompt'.messages[i]) =>
                          \E k \in DOMAIN Api(history) :
                              /\ Api(history)[k].uses = prompt'.messages[i].uses
                              /\ Cardinality(AnswersOf(Api(history), k)) = Cardinality(AnswersOf(prompt'.messages, i))
                   /\ Overhead + Total(prompt'.messages) > HardLimit => prompt'.overHard
<1>3. ASSUME WindowInv, [WindowNext]_windowvars
      PROVE  [(prompt' \notin {prompt, NoPrompt} /\ NoOrphan(Api(history))) => Kept]_windowvars
  <2>1. SUFFICES ASSUME prompt' # prompt, prompt' # NoPrompt, NoOrphan(Api(history))  PROVE Kept
    OBVIOUS
  <2>2. PrepareRequest
    <3>1. ~ UNCHANGED windowvars  BY <2>1 DEF windowvars
    <3>2. ~ ClearHistory  BY <2>1 DEF ClearHistory
    <3>3. ~ \E failed \in BOOLEAN : Compact(failed)  BY <2>1 DEF Compact
    <3> QED BY <1>3, <2>1, <3>1, <3>2, <3>3, AddingMessages DEF WindowNext
  <2>3. prompt' = PrepareWithBudget(Api(history))  BY <2>2 DEF PrepareRequest
  <2>4. Api(history) \in Seq(WindowMessages)  BY <1>3, ApiIs DEF WindowInv
  <2>5. /\ NoOrphan(prompt'.messages) /\ KeepsAnswers(prompt'.messages, Api(history))
        /\ Overhead + Total(prompt'.messages) > HardLimit => prompt'.overHard
    BY <2>1, <2>3, <2>4, PreparedKeeps
  <2> QED BY <2>5 DEF KeepsAnswers
<1> QED BY <1>1, <1>2, <1>3, PTL DEF WindowSpec, RequestKeepsPairs

-----------------------------------------------------------------------------
(* The route of a prompt *)

\* The score of a prompt is at least what one of its words counts.
LEMMA ScoreCounts ==
  ASSUME NEW p, p.words \subseteq Words, NEW w \in p.words, NEW card, card \in DOMAIN Word[w].score
  PROVE  Score(p, card) \in Nat /\ Score(p, card) >= Word[w].score[card]
<1> DEFINE S == p.words
           weight == [x \in S |-> IF card \in DOMAIN Word[x].score THEN Word[x].score[card] ELSE 0]
           pick == [T \in SUBSET S |-> CHOOSE x \in T : TRUE]
           Unfolded(h) == h = [T \in SUBSET S |-> IF T = {} THEN 0 ELSE
                LET x == CHOOSE y \in T : TRUE
                IN (IF card \in DOMAIN Word[x].score THEN Word[x].score[card] ELSE 0) + h[T \ {x}]]
           sum == CHOOSE h : Unfolded(h)
<1>1. Score(p, card) = sum[S]
  BY DEF Score, MapThenSumSet, MapThenFoldSet
<1>2. IsFiniteSet(S)  BY RoutingAssumption, FS_Subset
<1>3. \A x \in S : weight[x] \in Nat  BY TablesAssumption
<1>4. \A T \in SUBSET S : T # {} => pick[T] \in T  OBVIOUS
<1>5. \E h \in [SUBSET S -> Nat] : Unfolded(h)
  <2> DEFINE g == [x \in S |-> [n \in Nat |-> weight[x] + n]]
  <2>1. g \in [S -> [Nat -> Nat]]  BY <1>3
  <2> HIDE DEF g, weight, pick, S
  <2>2. \E h : FoldsParts(h, S, Nat, 0, g, pick)
    <3>1. 0 \in Nat  OBVIOUS
    <3> QED BY <1>2, <1>4, <2>1, <3>1, FoldExists
  <2>5. PICK h \in [SUBSET S -> Nat] :
           \A T \in SUBSET S : h[T] = IF T = {} THEN 0 ELSE g[pick[T]][h[T \ {pick[T]}]]
    BY <2>2 DEF FoldsParts
  <2>3. ASSUME NEW T \in SUBSET S, T # {}
        PROVE  h[T] = LET x == CHOOSE y \in T : TRUE
                      IN (IF card \in DOMAIN Word[x].score THEN Word[x].score[card] ELSE 0) + h[T \ {x}]
    <3>1. pick[T] \in S /\ T \ {pick[T]} \in SUBSET S  BY <1>4, <2>3
    <3>2. h[T \ {pick[T]}] \in Nat  BY <3>1
    <3>3. h[T] = weight[pick[T]] + h[T \ {pick[T]}]
      BY <2>5, <2>3, <3>1, <3>2 DEF g
    <3>4. pick[T] = CHOOSE y \in T : TRUE  BY DEF pick
    <3> QED BY <3>1, <3>3, <3>4 DEF weight
  <2>4. Unfolded(h)  BY <2>5, <2>3
  <2> QED BY <2>4
<1>6. Unfolded(sum)
  <2> HIDE DEF Unfolded
  <2> QED BY <1>5, Zenon
<1> HIDE DEF sum
<1>7. ASSUME NEW T \in SUBSET S
      PROVE  /\ T = {} => sum[T] = 0
             /\ T # {} => sum[T] = weight[pick[T]] + sum[T \ {pick[T]}]
  BY <1>6
<1> HIDE DEF Unfolded, weight, pick
<1>8. sum[{}] = 0
  <2>1. {} \in SUBSET S  OBVIOUS
  <2> QED BY <1>7, <2>1
<1>9. \A T \in SUBSET S : T # {} /\ sum[T \ {pick[T]}] \in Nat => sum[T] = weight[pick[T]] + sum[T \ {pick[T]}]
  BY <1>7
<1>10. sum[S] \in Nat /\ \A x \in S : sum[S] >= weight[x]
  <2> HIDE DEF S
  <2> QED BY <1>2, <1>3, <1>4, <1>8, <1>9, CountedPartByPart
<1>11. w \in S /\ weight[w] = Word[w].score[card]  BY DEF weight
<1> QED BY <1>1, <1>10, <1>11

\* Whoever runs in the loop is on the route of its prompt.
RoutedByPrompt ==
    /\ DOMAIN job = {"st", "prompt", "charge", "route", "status", "rows"}
    /\ job.prompt.words \subseteq Words
    /\ job.st = "loop" => job.route = DecideRoute(job.prompt, FALSE)

\* A prompt that owes a file is decided for the card of the artifacts.
LEMMA OwedDecision ==
  ASSUME NEW p, p.words \subseteq Words, Owes(p) \cap {"pptx", "chart"} # {}
  PROVE  DecideRoute(p, FALSE).route = "artifact_generation"
<1>1. PICK w \in p.words : Word[w].owes \in {"pptx", "chart"}  BY DEF Owes
<1>2. "artifact_generation" \in DOMAIN Word[w].score /\ Word[w].score["artifact_generation"] \in Nat
      /\ Word[w].score["artifact_generation"] >= 4
  BY <1>1, TablesAssumption
<1>3. Score(p, "artifact_generation") \in Nat /\ Score(p, "artifact_generation") >= 4
  BY <1>2, ScoreCounts
<1> DEFINE l0 == Classify(p)
           fixed == FALSE /\ l0.fixed
           none == p.words = {}
           low == Score(p, "artifact_generation") < 4
           workflow == RouteOf("vehicle_spec", "deterministic_workflow", "lookup", 1, <<1, Max({1, Len(l0.attrs)}), 0>>)
           weak == IF l0.task = "no_tool_explanation" THEN RouteOf("general", "agent_loop", "lookup", 1, <<2, 0, 16>>)
                   ELSE GeneralDecision
           made == RouteOf("artifact_generation", "agent_loop", BudgetClass["artifact_generation"],
                           CardCost["artifact_generation"], LimitsFor(BudgetClass["artifact_generation"]))
<1>4. DecideRoute(p, FALSE) =
        CASE fixed -> workflow [] none -> GeneralDecision [] low -> weak [] OTHER -> made
  <2> DEFINE best == IF Score(p, "artifact_generation") >= 4 THEN "artifact_generation" ELSE BestCard(p)
  <2>1. best = "artifact_generation"  BY <1>3
  <2>2. DecideRoute(p, FALSE) =
          CASE fixed -> workflow [] none -> GeneralDecision [] Score(p, best) < 4 -> weak
            [] OTHER -> RouteOf(best, "agent_loop", BudgetClass[best], CardCost[best], LimitsFor(BudgetClass[best]))
    BY Zenon DEF DecideRoute
  <2> HIDE DEF best, fixed, workflow, weak
  <2> QED BY <2>1, <2>2, Zenon
<1>5. ~ fixed /\ ~ none /\ ~ low  BY <1>1, <1>3
<1>6. DecideRoute(p, FALSE) = made
  <2> HIDE DEF fixed, none, low, workflow, weak, made
  <2> QED BY <1>4, <1>5, Zenon
<1>7. \A b, c, l : RouteOf("artifact_generation", "agent_loop", b, c, l).route = "artifact_generation"
  BY DEF RouteOf
<1> QED BY <1>6, <1>7

\* For any words with the scores of the code: a prompt that owes a file runs on
\* a route that has the tool for it (classify_l0, decide_route, OutputContract).
THEOREM FilesAreRouted == RouteSpec => []OwedFilesAreRouted
<1>1. RouteInit => RoutedByPrompt
  BY DEF RouteInit, NoJobYet, RoutedByPrompt
<1>2. RoutedByPrompt /\ [RouteNext]_job => RoutedByPrompt'
  <2> SUFFICES ASSUME RoutedByPrompt, [RouteNext]_job  PROVE RoutedByPrompt'  OBVIOUS
  <2>1. CASE Price  
    BY <2>1, RoutingAssumption DEF RoutedByPrompt, Price
  <2>2. CASE RunWorkflow  BY <2>2 DEF RoutedByPrompt, RunWorkflow
  <2>3. CASE RunInLoop  BY <2>3 DEF RoutedByPrompt, RunInLoop
  <2>4. CASE UNCHANGED job  BY <2>4 DEF RoutedByPrompt
  <2> QED BY <2>1, <2>2, <2>3, <2>4 DEF RouteNext
<1>3. RoutedByPrompt => OwedFilesAreRouted
  BY OwedDecision DEF RoutedByPrompt, OwedFilesAreRouted
<1> QED BY <1>1, <1>2, <1>3, PTL DEF RouteSpec

-----------------------------------------------------------------------------
(* The names of fields *)

\* A row that is compared: a field, its score and its number of values.
ScoredRows == [field : Nat, score : Int, filled : Int]

\* In the order of the rows o comes before r.
Before(o, r) ==
    \/ o.score > r.score
    \/ o.score = r.score /\ (o.filled > r.filled \/ (o.filled = r.filled /\ o.field < r.field))

\* The rows that come before one.
RowsBefore(rows, r) == {o \in rows : Before(o, r)}

\* Rows of different fields have places from the first to the last.
LEMMA RowsRanked ==
  ASSUME NEW rows \in SUBSET ScoredRows, IsFiniteSet(rows), \A r, o \in rows : r.field = o.field => r = o
  PROVE  /\ Cardinality(rows) \in Nat
         /\ \A k \in 1 .. Cardinality(rows) : \E r \in rows : Cardinality(RowsBefore(rows, r)) = k - 1
<1> DEFINE n == Cardinality(rows)
           rank == [r \in rows |-> Cardinality(RowsBefore(rows, r)) + 1]
           places == 1 .. n
<1>1. n \in Nat  BY FS_CardinalityType
<1>2. \A x, y, z \in rows : Before(x, y) /\ Before(y, z) => Before(x, z)  BY DEF Before, ScoredRows
<1>3. \A x \in rows : ~ Before(x, x)  BY DEF Before, ScoredRows
<1>4. \A x, y \in rows : x # y => Before(x, y) \/ Before(y, x)
  <2>1. ASSUME NEW x \in rows, NEW y \in rows, x # y  PROVE Before(x, y) \/ Before(y, x)
    <3>1. x.field # y.field  BY <2>1
    <3> QED BY <3>1 DEF Before, ScoredRows
  <2> QED BY <2>1
<1>5. ASSUME NEW r \in rows
      PROVE  /\ IsFiniteSet(RowsBefore(rows, r)) /\ Cardinality(RowsBefore(rows, r)) \in Nat
             /\ Cardinality(RowsBefore(rows, r)) < n
  <2>1. RowsBefore(rows, r) \in SUBSET rows /\ r \notin RowsBefore(rows, r)  BY <1>3 DEF RowsBefore
  <2> QED BY <1>1, <2>1, FS_Subset, FS_CardinalityType
<1>6. ASSUME NEW x \in rows, NEW y \in rows, Before(x, y)
      PROVE  Cardinality(RowsBefore(rows, x)) < Cardinality(RowsBefore(rows, y))
  <2>1. RowsBefore(rows, x) \in SUBSET RowsBefore(rows, y)  BY <1>2, <1>6 DEF RowsBefore
  <2>2. x \in RowsBefore(rows, y) /\ x \notin RowsBefore(rows, x)  BY <1>3, <1>6 DEF RowsBefore
  <2> QED BY <1>5, <2>1, <2>2, FS_Subset
<1>7. rank \in Injection(rows, places)
  <2>1. ASSUME NEW r \in rows  PROVE rank[r] \in places  BY <1>1, <1>5
  <2>2. ASSUME NEW x \in rows, NEW y \in rows, rank[x] = rank[y]  PROVE x = y
    <3>1. ~ Before(x, y) /\ ~ Before(y, x)  BY <1>5, <1>6, <2>2
    <3> QED BY <1>4, <3>1
  <2> QED BY <2>1, <2>2 DEF Injection, IsInjective
<1>8. IsFiniteSet(places) /\ Cardinality(places) = n  BY <1>1, FS_Interval
<1>9. rank \in Surjection(rows, places)
  <2> HIDE DEF rank, places
  <2> QED BY <1>7, <1>8, FS_Injection
<1>10. ASSUME NEW k \in places  PROVE \E r \in rows : Cardinality(RowsBefore(rows, r)) = k - 1
  <2>1. PICK r \in rows : rank[r] = k  BY <1>9 DEF Surjection
  <2> QED BY <1>5, <2>1
<1> QED BY <1>1, <1>10

\* The sorted fields are those of the rows, one of the best score first.
LEMMA SortedAre ==
  ASSUME NEW rows \in SUBSET ScoredRows, IsFiniteSet(rows), \A r, o \in rows : r.field = o.field => r = o
  PROVE  /\ SortedFields(rows) \in Seq({r.field : r \in rows}) /\ Len(SortedFields(rows)) = Cardinality(rows)
         /\ Cardinality(rows) \in Nat /\ (rows # {} => Cardinality(rows) # 0)
         /\ rows # {} => \E r \in rows : SortedFields(rows)[1] = r.field /\ \A o \in rows : o.score <= r.score
<1> DEFINE n == Cardinality(rows)
           at(k) == CHOOSE r \in rows : Cardinality(RowsBefore(rows, r)) = k - 1
           fields == {r.field : r \in rows}
<1>1. n \in Nat /\ (rows # {} => n # 0)  BY FS_CardinalityType, FS_EmptySet
<1>2. SortedFields(rows) = [k \in 1 .. n |-> at(k).field]
  BY DEF SortedFields, RowsBefore, Before
<1>3. ASSUME NEW k \in 1 .. n  PROVE at(k) \in rows /\ Cardinality(RowsBefore(rows, at(k))) = k - 1
  BY RowsRanked
<1> HIDE DEF at
<1>4. SortedFields(rows) \in Seq(fields) /\ Len(SortedFields(rows)) = n
  <2>1. SortedFields(rows) \in [1 .. n -> fields]  BY <1>2, <1>3
  <2> HIDE DEF fields, n
  <2>2. SortedFields(rows) \in Seq(fields)  BY <1>1, <2>1, SeqDef
  <2>3. Len(SortedFields(rows)) \in Nat /\ 1 .. Len(SortedFields(rows)) = 1 .. n  BY <2>1, <2>2, LenProperties
  <2> QED BY <1>1, <2>2, <2>3
<1>5. ASSUME rows # {}  PROVE at(1) \in rows /\ SortedFields(rows)[1] = at(1).field /\ \A o \in rows : o.score <= at(1).score
  <2>1. 1 \in 1 .. n  BY <1>1, <1>5
  <2>2. at(1) \in rows /\ Cardinality(RowsBefore(rows, at(1))) = 0  BY <1>3, <2>1
  <2>3. RowsBefore(rows, at(1)) = {}
    <3>1. RowsBefore(rows, at(1)) \in SUBSET rows  BY DEF RowsBefore
    <3>2. IsFiniteSet(RowsBefore(rows, at(1)))  BY <3>1, FS_Subset
    <3> QED BY <2>2, <3>2, FS_EmptySet
  <2>4. \A o \in rows : ~ (o.score > at(1).score)  BY <2>3 DEF RowsBefore, Before
  <2> QED BY <1>2, <2>1, <2>2, <2>4 DEF ScoredRows
<1> QED BY <1>1, <1>4, <1>5

\* A part of at most the whole counts at most the weight.
LEMMA DividedUpTo ==
  ASSUME NEW w \in Nat, NEW x \in Nat, NEW y \in Nat \ {0}, x <= y
  PROVE  (w * x) \div y \in Nat /\ (w * x) \div y <= w /\ (x = y => (w * x) \div y = w)
<1> DEFINE n == w * x
           q == n \div y
<1>1. n \in Nat /\ n <= w * y  OBVIOUS
<1>2. q \in Int /\ y * q <= n /\ n < y * q + y  OBVIOUS
<1> QED BY <1>1, <1>2

\* What a function makes of a finite set is one.
LEMMA ImageIsFinite ==
  ASSUME NEW S, IsFiniteSet(S), NEW f, NEW T, T = {f[x] : x \in S}  PROVE IsFiniteSet(T)
<1> DEFINE g == [x \in S |-> f[x]]
<1>1. g \in Surjection(S, T)  BY DEF Surjection, Range
<1> QED BY <1>1, FS_Surjection

\* What a word is without units.
LEMMA NormalizedIs ==
  ASSUME NEW word \in Seq(Letters)
  PROVE  /\ Normalized(word) \in Seq(Letters) /\ ToSet(Normalized(word)) \subseteq ToSet(word)
         /\ IsFiniteSet(ToSet(Normalized(word))) /\ (ToSet(Normalized(word)) = {} <=> Normalized(word) = <<>>)
         /\ IsFiniteSet(Ngrams(word)) /\ (Normalized(word) # <<>> => Ngrams(word) # {})
<1> DEFINE places == {i \in DOMAIN word : word[i] # "unit"}
           text == Normalized(word)
<1>1. /\ text \in Seq(Letters) /\ \A k \in DOMAIN text : \E i \in places : text[k] = word[i]
  <2>1. places \in SUBSET DOMAIN word /\ text = Selected(word, places)  BY DEF Normalized
  <2> HIDE DEF places, text
  <2> QED BY <2>1, SelectedIs
<1> HIDE DEF text
<1>2. DOMAIN text = 1 .. Len(text) /\ Len(text) \in Nat  BY <1>1, LenProperties
<1>3. ToSet(text) = {text[i] : i \in 1 .. Len(text)}  BY <1>2 DEF ToSet
<1>4. IsFiniteSet(1 .. Len(text)) /\ IsFiniteSet(1 .. Len(text) - 1)  BY <1>2, FS_Interval
<1>5. IsFiniteSet(ToSet(text))  BY <1>3, <1>4, ImageIsFinite
<1>6. text = <<>> <=> Len(text) = 0  BY <1>1, EmptySeq
<1>7. ToSet(text) = {} <=> text = <<>>
  <2>1. Len(text) # 0 => 1 \in 1 .. Len(text)  BY <1>2
  <2>2. Len(text) = 0 => 1 .. Len(text) = {}  OBVIOUS
  <2> QED BY <1>3, <1>6, <2>1, <2>2
<1>8. ToSet(text) \subseteq ToSet(word)  BY <1>1, <1>2 DEF ToSet
<1>9. Ngrams(word) = IF Len(text) \in {1, 2} THEN {text} ELSE {SubSeq(text, i, i + 1) : i \in 1 .. (Len(text) - 1)}
  BY DEF Ngrams, text
<1>10. IsFiniteSet({text})  BY FS_Singleton
<1>11. IsFiniteSet({SubSeq(text, i, i + 1) : i \in 1 .. (Len(text) - 1)})
  <2> DEFINE pair == [i \in 1 .. (Len(text) - 1) |-> SubSeq(text, i, i + 1)]
             S == 1 .. Len(text) - 1
             pairs == {SubSeq(text, i, i + 1) : i \in 1 .. (Len(text) - 1)}
  <2>1. pairs = {pair[i] : i \in S}  OBVIOUS
  <2> HIDE DEF pair, S, pairs
  <2>2. IsFiniteSet(S)  BY <1>4 DEF S
  <2>3. IsFiniteSet(pairs)  BY <2>1, <2>2, ImageIsFinite
  <2> QED BY <2>3 DEF pairs
<1>12. IsFiniteSet(Ngrams(word))  BY <1>9, <1>10, <1>11
<1>13. text # <<>> => Ngrams(word) # {}
  <2>1. SUFFICES ASSUME text # <<>>, Len(text) \notin {1, 2}  PROVE Ngrams(word) # {}  BY <1>9
  <2>2. 1 \in 1 .. Len(text) - 1  BY <1>2, <1>6, <2>1
  <2> QED BY <1>9, <2>1, <2>2
<1> QED BY <1>1, <1>5, <1>7, <1>8, <1>12, <1>13 DEF text

\* A share is at most the weight, and all of it for what is alike.
LEMMA ShareIs ==
  ASSUME NEW weight \in Nat, NEW left, NEW right, IsFiniteSet(left), IsFiniteSet(right)
  PROVE  /\ Share(weight, left, right) \in Nat /\ Share(weight, left, right) <= weight * 12
         /\ left = right /\ left # {} => Share(weight, left, right) = weight * 12
<1> DEFINE x == Cardinality(left \cap right)
           y == Cardinality(left \cup right)
<1>1. IsFiniteSet(left \cup right)  BY FS_Union
<1>2. x \in Nat /\ y \in Nat /\ x <= y
  <2>1. (left \cap right) \subseteq (left \cup right)  OBVIOUS
  <2> QED BY <1>1, <2>1, FS_Subset, FS_CardinalityType
<1>3. left # {} => y # 0  BY <1>1, FS_EmptySet
<1>4. left = right => x = y
  <2>1. left = right => left \cap right = left \cup right  OBVIOUS
  <2> QED BY <2>1
<1>5. Share(weight, left, right) = IF left = {} \/ right = {} THEN 0 ELSE (weight * 12 * x) \div y
  BY DEF Share, Twelfths
<1> HIDE DEF x, y
<1>6. weight * 12 \in Nat  OBVIOUS
<1>7. CASE left = {} \/ right = {}  BY <1>5, <1>6, <1>7
<1>8. CASE left # {} /\ right # {}
  <2>1. Share(weight, left, right) = (weight * 12 * x) \div y  BY <1>5, <1>8
  <2> DEFINE w == weight * 12
  <2> HIDE DEF w
  <2>2. (w * x) \div y \in Nat /\ (w * x) \div y <= w /\ (x = y => (w * x) \div y = w)
    BY <1>2, <1>3, <1>6, <1>8, DividedUpTo DEF w
  <2>3. Share(weight, left, right) = (w * x) \div y  BY <2>1 DEF w
  <2> QED BY <1>4, <2>2, <2>3 DEF w
<1> QED BY <1>7, <1>8

\* The fields that are named exactly.
Exact(query) == {f \in DOMAIN FieldTable : Normalized(FieldTable[f].name) = Normalized(query)}

\* The words of fields and questions.
LEMMA WordsAre ==
  /\ \A f \in DOMAIN FieldTable : FieldTable[f].name \in Seq(Letters) /\ FieldTable[f].code \in Seq(Letters)
  /\ \A query \in SearchWords : query \in Seq(Letters) /\ query \in AskedWords
  /\ DOMAIN FieldTable \in SUBSET Nat /\ IsFiniteSet(DOMAIN FieldTable)
<1> DEFINE Fields == [name : Seq(Letters), code : Seq(Letters)]
<1>1. FieldTable \in Seq(Fields)  BY SubjectsAssumption
<1>2. ASSUME NEW f \in DOMAIN FieldTable  PROVE FieldTable[f].name \in Seq(Letters) /\ FieldTable[f].code \in Seq(Letters)
  <2>1. FieldTable[f] \in Fields
    <3> HIDE DEF Fields
    <3> QED BY <1>1, ElementOfSeq, LenProperties
  <2> QED BY <2>1
<1>3. ASSUME NEW query \in SearchWords  PROVE query \in Seq(Letters)
  <2>1. PICK n \in 1 .. MaxWord : query \in [1 .. n -> Letters]  BY DEF SearchWords
  <2>2. n \in Nat  BY SubjectsAssumption
  <2> QED BY <2>1, <2>2, SeqDef
<1>4. DOMAIN FieldTable \in SUBSET Nat /\ IsFiniteSet(DOMAIN FieldTable)
  <2>1. DOMAIN FieldTable = 1 .. Len(FieldTable) /\ Len(FieldTable) \in Nat
    <3> HIDE DEF Fields
    <3> QED BY <1>1, LenProperties
  <2>2. IsFiniteSet(1 .. Len(FieldTable))  BY <2>1, FS_Interval
  <2> QED BY <2>1, <2>2
<1> QED BY <1>2, <1>3, <1>4 DEF AskedWords

\* What a field has in common with the words counts at most a hundred.
LEMMA LikenessIs ==
  ASSUME NEW query \in Seq(Letters), NEW f \in DOMAIN FieldTable
  PROVE  /\ Likeness(query, FieldTable[f]) \in Nat /\ Likeness(query, FieldTable[f]) <= 1200
         /\ f \in Exact(query) /\ Normalized(query) # <<>> => Likeness(query, FieldTable[f]) = 1200
<1> DEFINE name == FieldTable[f].name
           a == ToSet(Normalized(query))
           b == ToSet(Normalized(name))
           c == Ngrams(query)
           d == Ngrams(name)
<1>1. name \in Seq(Letters)  BY WordsAre
<1>2. Likeness(query, FieldTable[f]) = Share(45, a, b) + Share(55, c, d)  BY DEF Likeness
<1>3. f \in Exact(query) => a = b /\ c = d  BY DEF Exact, Ngrams
<1> HIDE DEF name
<1>4. /\ IsFiniteSet(a) /\ IsFiniteSet(b) /\ IsFiniteSet(c) /\ IsFiniteSet(d)
      /\ Normalized(query) # <<>> => a # {} /\ c # {}
  BY <1>1, NormalizedIs
<1> HIDE DEF a, b, c, d
<1>5. /\ Share(45, a, b) \in Nat /\ Share(45, a, b) <= 45 * 12
      /\ a = b /\ a # {} => Share(45, a, b) = 45 * 12
  BY <1>4, ShareIs
<1>6. /\ Share(55, c, d) \in Nat /\ Share(55, c, d) <= 55 * 12
      /\ c = d /\ c # {} => Share(55, c, d) = 55 * 12
  BY <1>4, ShareIs
<1> QED BY <1>2, <1>3, <1>4, <1>5, <1>6

\* The similarity of the fields: those named exactly have the most, and the
\* others as much more than their values count less.
LEMMA ExactAreAbove ==
  ASSUME CodesDiffer, NEW query \in SearchWords, Normalized(query) # <<>>, Exact(query) # {}
  PROVE  \E t \in {0, 25} :
           /\ \A f \in Exact(query) : Similarity[query][f] = (220 + t) * 12
           /\ \A g \in (DOMAIN FieldTable) \ Exact(query) : Similarity[query][g] \in Nat /\ Similarity[query][g] < (212 + t) * 12
<1> DEFINE t == IF Facing(query) = {} THEN 0 ELSE 25
           raw(f) == (Named(query, FieldTable[f]) + Towards(query, FieldTable[f])) * 12 + Likeness(query, FieldTable[f])
<1>1. query \in Seq(Letters) /\ query \in AskedWords  BY WordsAre
<1>2. ASSUME NEW f \in DOMAIN FieldTable
      PROVE  Similarity[query][f] = IF raw(f) < 0 THEN 0 ELSE raw(f)
  <2>1. Similarity[query][f] = FieldSimilarity(query, FieldTable[f])  BY <1>1 DEF Similarity
  <2>2. FieldSimilarity(query, FieldTable[f]) = IF raw(f) < 0 THEN 0 ELSE raw(f)  BY DEF FieldSimilarity, Twelfths
  <2> QED BY <2>1, <2>2
<1>3. ASSUME NEW f \in DOMAIN FieldTable
      PROVE  /\ Named(query, FieldTable[f]) \in {0, 65, 90, 120}
             /\ Towards(query, FieldTable[f]) \in {-80, -8, 0, 25} /\ Towards(query, FieldTable[f]) <= t
  BY DEF Named, Towards
<1>4. ASSUME NEW f \in Exact(query)
      PROVE  Similarity[query][f] = (220 + t) * 12
  <2>1. f \in DOMAIN FieldTable /\ Normalized(FieldTable[f].name) = Normalized(query)  BY DEF Exact
  <2>2. Named(query, FieldTable[f]) = 120  BY <2>1 DEF Named
  <2>3. Facing(FieldTable[f].name) = Facing(query)  BY <2>1 DEF Facing
  <2>4. Towards(query, FieldTable[f]) = t  BY <2>3 DEF Towards
  <2>5. Likeness(query, FieldTable[f]) = 1200  BY <1>1, <2>1, LikenessIs
  <2>6. raw(f) = (120 + t) * 12 + 1200  BY <2>2, <2>4, <2>5
  <2>7. Similarity[query][f] = IF raw(f) < 0 THEN 0 ELSE raw(f)  BY <1>2, <2>1
  <2>8. t \in {0, 25}  OBVIOUS
  <2> HIDE DEF raw, t
  <2> QED BY <2>6, <2>7, <2>8
<1>5. ASSUME NEW g \in (DOMAIN FieldTable) \ Exact(query)
      PROVE  Similarity[query][g] \in Nat /\ Similarity[query][g] < (212 + t) * 12
  <2> DEFINE like == Likeness(query, FieldTable[g])
             named == Named(query, FieldTable[g])
             towards == Towards(query, FieldTable[g])
  <2>1. like \in Nat /\ like <= 1200  BY <1>1, LikenessIs
  <2>2. Normalized(FieldTable[g].name) # Normalized(query)  BY DEF Exact
  <2>3. towards \in Int /\ towards <= t  BY <1>3
  <2>4. named \in {0, 65, 90} \/ (named = 120 /\ like < 92 * 12)
    <3>1. CASE Normalized(FieldTable[g].code) = Normalized(query)
      <4>1. PICK f \in DOMAIN FieldTable : Normalized(FieldTable[f].name) = Normalized(query)  BY DEF Exact
      <4>2. Likeness(FieldTable[f].name, FieldTable[g]) < 92 * 12
        BY <2>2, <3>1, <4>1 DEF CodesDiffer, Twelfths
      <4>3. Likeness(FieldTable[f].name, FieldTable[g]) = like  BY <4>1 DEF Likeness, Ngrams
      <4> QED BY <1>3, <4>2, <4>3
    <3>2. CASE Normalized(FieldTable[g].code) # Normalized(query)  BY <2>2, <3>2 DEF Named
    <3> QED BY <3>1, <3>2
  <2>5. raw(g) = (named + towards) * 12 + like  OBVIOUS
  <2>7. Similarity[query][g] = IF raw(g) < 0 THEN 0 ELSE raw(g)  BY <1>2
  <2>8. t \in {0, 25}  OBVIOUS
  <2> HIDE DEF raw, like, named, towards, t
  <2>6. raw(g) \in Int /\ raw(g) < (212 + t) * 12  BY <2>1, <2>3, <2>4, <2>5, <2>8
  <2> QED BY <2>6, <2>7, <2>8
<1>6. t \in {0, 25}  OBVIOUS
<1> HIDE DEF t
<1> QED BY <1>4, <1>5, <1>6

\* With the values they have, too, those named exactly stay above the others.
LEMMA ScoresApart ==
  ASSUME CodesDiffer, NEW query \in SearchWords, Normalized(query) # <<>>, Exact(query) # {}
  PROVE  /\ \A f \in DOMAIN FieldTable : MatchScore(query, f) \in Nat /\ Populated(f) \in Nat
         /\ \A f \in Exact(query) : MatchScore(query, f) >= 45 * Twelfths
         /\ \A f \in Exact(query), g \in DOMAIN FieldTable : 4 * MatchScore(query, f) >= 3 * MatchScore(query, g)
         /\ \A f \in Exact(query), g \in (DOMAIN FieldTable) \ Exact(query) : MatchScore(query, f) > MatchScore(query, g)
<1> DEFINE cover(f) == (96 * (IF Populated(f) < CoverageCap THEN Populated(f) ELSE CoverageCap)) \div CoverageCap
           similar(f) == Similarity[query][f]
<1>1. PICK t \in {0, 25} :
           /\ \A f \in Exact(query) : similar(f) = (220 + t) * 12
           /\ \A g \in (DOMAIN FieldTable) \ Exact(query) : similar(g) \in Nat /\ similar(g) < (212 + t) * 12
  BY ExactAreAbove
<1>2. ASSUME NEW f  PROVE Populated(f) \in Nat
  <2> DEFINE S == {v \in Vehicles : <<f, v>> \in DOMAIN subjects.holds /\ subjects.holds[<<f, v>>] # "none"}
  <2>1. IsFiniteSet(S)
    <3>1. S \in SUBSET Vehicles  OBVIOUS
    <3>2. IsFiniteSet(Vehicles)  BY SubjectsAssumption
    <3> HIDE DEF S
    <3> QED BY <3>1, <3>2, FS_Subset
  <2>2. Populated(f) = Cardinality(S)  BY DEF Populated
  <2> HIDE DEF S
  <2> QED BY <2>1, <2>2, FS_CardinalityType
<1>3. ASSUME NEW f  PROVE cover(f) \in Nat /\ cover(f) <= 96
  <2> DEFINE x == IF Populated(f) < CoverageCap THEN Populated(f) ELSE CoverageCap
  <2>1. x \in Nat /\ CoverageCap \in Nat \ {0} /\ x <= CoverageCap  BY <1>2, SubjectsAssumption
  <2> HIDE DEF x
  <2>2. (96 * x) \div CoverageCap \in Nat /\ (96 * x) \div CoverageCap <= 96  BY <2>1, DividedUpTo
  <2> QED BY <2>2 DEF x
<1>4. ASSUME NEW f  PROVE MatchScore(query, f) = similar(f) + cover(f)
  BY DEF MatchScore, Twelfths
<1> HIDE DEF cover, similar
<1>5. ASSUME NEW f \in Exact(query)
      PROVE  MatchScore(query, f) \in Nat /\ MatchScore(query, f) >= (220 + t) * 12 /\ MatchScore(query, f) <= (228 + t) * 12
  <2>1. similar(f) = (220 + t) * 12  BY <1>1
  <2> QED BY <1>3, <1>4, <2>1
<1>6. ASSUME NEW g \in (DOMAIN FieldTable) \ Exact(query)
      PROVE  MatchScore(query, g) \in Nat /\ MatchScore(query, g) < (220 + t) * 12
  <2>1. similar(g) \in Nat /\ similar(g) < (212 + t) * 12  BY <1>1
  <2> QED BY <1>3, <1>4, <2>1
<1>7. Exact(query) \in SUBSET DOMAIN FieldTable  BY DEF Exact
<1>8. ASSUME NEW f \in DOMAIN FieldTable  PROVE MatchScore(query, f) \in Nat /\ MatchScore(query, f) <= (228 + t) * 12
  <2>1. CASE f \in Exact(query)  BY <1>5, <2>1
  <2>2. CASE f \notin Exact(query)  BY <1>6, <2>2
  <2> QED BY <2>1, <2>2
<1>9. ASSUME NEW f \in Exact(query)
      PROVE  /\ MatchScore(query, f) >= 45 * Twelfths
             /\ \A g \in DOMAIN FieldTable : 4 * MatchScore(query, f) >= 3 * MatchScore(query, g)
             /\ \A g \in (DOMAIN FieldTable) \ Exact(query) : MatchScore(query, f) > MatchScore(query, g)
  <2>1. MatchScore(query, f) \in Nat /\ MatchScore(query, f) >= (220 + t) * 12  BY <1>5
  <2>2. MatchScore(query, f) >= 45 * Twelfths  BY <2>1 DEF Twelfths
  <2>3. ASSUME NEW g \in DOMAIN FieldTable  PROVE 4 * MatchScore(query, f) >= 3 * MatchScore(query, g)
    <3>1. MatchScore(query, g) \in Nat /\ MatchScore(query, g) <= (228 + t) * 12  BY <1>8
    <3> QED BY <2>1, <3>1
  <2>4. ASSUME NEW g \in (DOMAIN FieldTable) \ Exact(query)  PROVE MatchScore(query, f) > MatchScore(query, g)
    <3>1. MatchScore(query, g) \in Nat /\ MatchScore(query, g) < (220 + t) * 12  BY <1>6
    <3> QED BY <2>1, <3>1
  <2> QED BY <2>2, <2>3, <2>4
<1> QED BY <1>2, <1>8, <1>9

\* The first fields of a list are of the list, and begin with its first.
LEMMA FirstFieldsAre ==
  ASSUME NEW S, NEW list \in Seq(S), Len(list) # 0, NEW limit \in Nat \ {0}
  PROVE  /\ FirstFields(list, limit) \in Seq(S) /\ Len(FirstFields(list, limit)) \in Nat
         /\ 1 <= Len(FirstFields(list, limit)) /\ FirstFields(list, limit)[1] = list[1]
<1> DEFINE n == IF Len(list) < limit THEN Len(list) ELSE limit
           fields == FirstFields(list, limit)
<1>1. Len(list) \in Nat /\ n \in 1 .. Len(list)  BY LenProperties
<1>2. fields = SubSeq(list, 1, n)  BY DEF FirstFields
<1> HIDE DEF n, fields
<1>3. fields = [i \in 1 .. n |-> list[i]]  BY <1>1, <1>2
<1>4. \A i \in 1 .. Len(list) : list[i] \in S  BY ElementOfSeq
<1>5. n \in Nat /\ 1 <= n  BY <1>1
<1>6. fields \in [1 .. n -> S]  BY <1>1, <1>3, <1>4
<1>7. fields \in Seq(S)  BY <1>5, <1>6, SeqDef
<1>8. Len(fields) \in Nat /\ 1 .. Len(fields) = 1 .. n  BY <1>6, <1>7, LenProperties
<1>9. fields[1] = list[1] /\ 1 <= Len(fields)  BY <1>3, <1>5, <1>8
<1> QED BY <1>7, <1>8, <1>9 DEF fields

\* What is looked up are fields, and one named exactly is among them if
\* there is any.
LEMMA CatalogFields ==
  ASSUME CodesDiffer, NEW query \in SearchWords, Normalized(query) # <<>>, Exact(query) # {}, NEW limit \in Nat \ {0}
  PROVE  LET fields == ToSet(RelevantFields(query, limit)) IN
         fields \in SUBSET DOMAIN FieldTable /\ IsFiniteSet(fields) /\ fields \cap Exact(query) # {}
<1> DEFINE row == [f \in DOMAIN FieldTable |-> Scored(f, MatchScore(query, f), Populated(f))]
           rows == CandidateFields(query)
           relevant == {r \in rows : r.score >= 45 * Twelfths /\ \A o \in rows : 4 * r.score >= 3 * o.score}
           sorted == SortedFields(relevant)
           fields == RelevantFields(query, limit)
           matching == MatchingFields[query]
<1>1. query \in AskedWords /\ query \in Seq(Letters)  BY WordsAre
<1>2. /\ matching \in SUBSET DOMAIN FieldTable
      /\ \A f \in DOMAIN FieldTable :
            /\ ToSet(Normalized(query)) \cap ToSet(FieldTable[f].name) # {}
            /\ Similarity[query][f] > 0
            => f \in matching
  BY <1>1 DEF MatchingFields
<1>3. rows = {row[f] : f \in matching}
  <2>1. \A f \in matching : row[f] = Scored(f, MatchScore(query, f), Populated(f))  BY <1>2
  <2> QED BY <2>1 DEF CandidateFields
<1> HIDE DEF matching
<1>4. \A f \in DOMAIN FieldTable : /\ row[f].field = f /\ row[f].score = MatchScore(query, f)
                                  /\ row[f] \in ScoredRows
  <2>1. ASSUME NEW f \in DOMAIN FieldTable
        PROVE  row[f].field = f /\ row[f].score = MatchScore(query, f) /\ row[f] \in ScoredRows
    <3>1. MatchScore(query, f) \in Nat /\ Populated(f) \in Nat  BY ScoresApart
    <3>2. f \in Nat  BY WordsAre
    <3> QED BY <3>1, <3>2 DEF Scored, ScoredRows
  <2> QED BY <2>1
<1>5. IsFiniteSet(rows)
  <2>1. IsFiniteSet(matching)  BY <1>2, WordsAre, FS_Subset
  <2> HIDE DEF row, rows
  <2> QED BY <1>3, <2>1, ImageIsFinite
<1>6. fields = FirstFields(sorted, limit)  BY DEF RelevantFields
<1> HIDE DEF row, rows, fields
<1>7. /\ relevant \in SUBSET ScoredRows /\ IsFiniteSet(relevant) /\ \A r, o \in relevant : r.field = o.field => r = o
      /\ \A r \in relevant : \E f \in matching : r = row[f]
  <2>1. relevant \in SUBSET rows  OBVIOUS
  <2>2. IsFiniteSet(relevant)  BY <1>5, <2>1, FS_Subset
  <2>3. \A r \in relevant : \E f \in matching : r = row[f]  BY <1>3, <2>1
  <2>4. \A r \in relevant : \E f \in DOMAIN FieldTable : r = row[f]  BY <1>2, <2>3
  <2> HIDE DEF relevant
  <2> QED BY <1>4, <2>2, <2>3, <2>4
<1>8. PICK e \in DOMAIN FieldTable : e \in Exact(query)  BY DEF Exact
<1>9. e \in matching
  <2>1. Normalized(FieldTable[e].name) = Normalized(query) /\ FieldTable[e].name \in Seq(Letters)
    BY <1>8, WordsAre DEF Exact
  <2>2. ToSet(Normalized(query)) # {} /\ ToSet(Normalized(FieldTable[e].name)) \subseteq ToSet(FieldTable[e].name)
    BY <1>1, <2>1, NormalizedIs
  <2>3. PICK t \in {0, 25} : \A f \in Exact(query) : Similarity[query][f] = (220 + t) * 12  BY ExactAreAbove
  <2>4. Similarity[query][e] = (220 + t) * 12  BY <1>8, <2>3
  <2>5. Similarity[query][e] > 0  BY <2>4
  <2>6. ToSet(Normalized(query)) \cap ToSet(FieldTable[e].name) # {}  BY <2>1, <2>2
  <2> QED BY <1>2, <2>5, <2>6
<1>10. row[e] \in relevant
  <2>1. row[e] \in rows  BY <1>3, <1>9
  <2>2. row[e].score = MatchScore(query, e) /\ MatchScore(query, e) >= 45 * Twelfths  BY <1>4, <1>8, ScoresApart
  <2>3. ASSUME NEW o \in rows  PROVE 4 * row[e].score >= 3 * o.score
    <3>1. PICK f \in DOMAIN FieldTable : o = row[f]  BY <1>2, <1>3
    <3>2. o.score = MatchScore(query, f)  BY <1>4, <3>1
    <3>3. 4 * MatchScore(query, e) >= 3 * MatchScore(query, f)  BY <1>8, ScoresApart
    <3> QED BY <2>2, <3>2, <3>3
  <2> QED BY <2>1, <2>2, <2>3
<1> HIDE DEF relevant
<1>11. /\ sorted \in Seq({r.field : r \in relevant}) /\ Len(sorted) \in Nat /\ Len(sorted) # 0
       /\ \E r \in relevant : sorted[1] = r.field /\ \A o \in relevant : o.score <= r.score
  BY <1>7, <1>10, SortedAre
<1>12. PICK best \in relevant : sorted[1] = best.field /\ \A o \in relevant : o.score <= best.score  BY <1>11
<1>13. sorted[1] \in Exact(query)
  <2>1. PICK g \in DOMAIN FieldTable : best = row[g]  BY <1>2, <1>7
  <2>2. best.field = g /\ best.score = MatchScore(query, g)  BY <1>4, <2>1
  <2>3. row[e].score = MatchScore(query, e) /\ row[e].score <= best.score  BY <1>4, <1>10, <1>12
  <2>4. MatchScore(query, e) \in Nat /\ MatchScore(query, g) \in Nat  BY ScoresApart
  <2>5. g \in Exact(query)
    <3>1. SUFFICES ASSUME g \notin Exact(query)  PROVE FALSE  OBVIOUS
    <3>2. MatchScore(query, e) > MatchScore(query, g)  BY <1>8, <3>1, ScoresApart
    <3> QED BY <2>2, <2>3, <2>4, <3>2
  <2> QED BY <1>12, <2>2, <2>5
<1>14. {r.field : r \in relevant} \in SUBSET DOMAIN FieldTable  BY <1>2, <1>4, <1>7
<1> DEFINE F == {r.field : r \in relevant}
<1> HIDE DEF sorted, F
<1>15. fields \in Seq(F) /\ Len(fields) \in Nat /\ 1 <= Len(fields) /\ fields[1] = sorted[1]
  <2>1. sorted \in Seq(F) /\ Len(sorted) # 0  BY <1>11 DEF F
  <2> QED BY <1>6, <2>1, FirstFieldsAre
<1>16. ToSet(fields) = {fields[i] : i \in 1 .. Len(fields)}  BY <1>15, LenProperties DEF ToSet
<1>17. IsFiniteSet(ToSet(fields))
  <2>1. IsFiniteSet(1 .. Len(fields))  BY <1>15, FS_Interval
  <2> QED BY <1>16, <2>1, ImageIsFinite
<1>18. ToSet(fields) \in SUBSET DOMAIN FieldTable
  <2>1. \A i \in 1 .. Len(fields) : fields[i] \in F  BY <1>15, ElementOfSeq
  <2> QED BY <1>14, <1>16, <2>1 DEF F
<1>19. fields[1] \in ToSet(fields)  BY <1>15, <1>16
<1> QED BY <1>13, <1>15, <1>17, <1>18, <1>19 DEF fields

\* Of no rows there are no fields.
LEMMA NoRowsNoFields == SortedFields({}) = <<>>
<1> DEFINE none == {r.field : r \in {}}
<1>1. {} \in SUBSET ScoredRows /\ IsFiniteSet({}) /\ Cardinality({}) = 0  BY FS_EmptySet
<1>2. SortedFields({}) \in Seq(none) /\ Len(SortedFields({})) = 0  BY <1>1, SortedAre
<1> QED BY <1>2, EmptySeq

\* Of no fields the first are none.
LEMMA NoFieldsFirst ==
  ASSUME NEW limit \in Nat \ {0}  PROVE FirstFields(<<>>, limit) = <<>>
<1>1. SubSeq(<<>>, 1, 0) = <<>>  OBVIOUS
<1> QED BY <1>1 DEF FirstFields

\* Nothing is looked up for words without letters.
LEMMA NothingForUnits ==
  ASSUME NEW query \in SearchWords, NEW limit \in Nat \ {0}, RelevantFields(query, limit) # <<>>  PROVE Normalized(query) # <<>>
<1> DEFINE relevant == {r \in CandidateFields(query) : r.score >= 45 * Twelfths /\ \A o \in CandidateFields(query) : 4 * r.score >= 3 * o.score}
<1>1. SUFFICES ASSUME Normalized(query) = <<>>  PROVE RelevantFields(query, limit) = <<>>  OBVIOUS
<1>2. query \in AskedWords /\ query \in Seq(Letters)  BY WordsAre
<1>3. ToSet(Normalized(query)) = {}  BY <1>1, <1>2, NormalizedIs
<1>4. MatchingFields[query] = {}  BY <1>2, <1>3 DEF MatchingFields
<1>5. CandidateFields(query) = {}  BY <1>4 DEF CandidateFields
<1>6. relevant = {}  BY <1>5
<1>7. RelevantFields(query, limit) = FirstFields(SortedFields(relevant), limit)  BY DEF RelevantFields
<1>8. FirstFields(<<>>, limit) = <<>>  BY NoFieldsFirst
<1> QED BY <1>6, <1>7, <1>8, NoRowsNoFields

\* What a search shows first, if a field is named exactly, is such a field.
LEMMA ShownFirst ==
  ASSUME CodesDiffer, NEW query \in SearchWords, Normalized(query) # <<>>, Exact(query) # {},
         NEW looked \in Nat \ {0}, NEW limit \in Nat \ {0},
         NEW rows \in SUBSET (ToSet(RelevantFields(query, looked)) \X Vehicles)
  PROVE  FirstFields(SortedFields({Scored(f, MatchScore(query, f), Cardinality({fv \in rows : fv[1] = f})) :
                                      f \in ToSet(RelevantFields(query, looked))}), limit)[1] \in Exact(query)
<1> DEFINE fields == ToSet(RelevantFields(query, looked))
           filled(f) == Cardinality({fv \in rows : fv[1] = f})
           row == [f \in fields |-> Scored(f, MatchScore(query, f), filled(f))]
           shown == {Scored(f, MatchScore(query, f), filled(f)) : f \in fields}
<1>1. fields \in SUBSET DOMAIN FieldTable /\ IsFiniteSet(fields) /\ fields \cap Exact(query) # {}  BY CatalogFields
<1>2. rows \in SUBSET (fields \X Vehicles)  OBVIOUS
<1> HIDE DEF fields
<1>3. IsFiniteSet(rows)  BY <1>1, <1>2, SubjectsAssumption, FS_Product, FS_Subset
<1>4. ASSUME NEW f  PROVE filled(f) \in Nat
  <2> DEFINE S == {fv \in rows : fv[1] = f}
  <2>1. S \in SUBSET rows  OBVIOUS
  <2> HIDE DEF S
  <2>2. Cardinality(S) \in Nat  BY <1>3, <2>1, FS_Subset, FS_CardinalityType
  <2> QED BY <2>2 DEF S
<1> HIDE DEF filled
<1>5. shown = {row[f] : f \in fields}  OBVIOUS
<1>6. \A f \in fields : row[f].field = f /\ row[f].score = MatchScore(query, f) /\ row[f] \in ScoredRows
  <2>1. ASSUME NEW f \in fields
        PROVE  row[f].field = f /\ row[f].score = MatchScore(query, f) /\ row[f] \in ScoredRows
    <3>1. MatchScore(query, f) \in Nat  BY <1>1, ScoresApart
    <3>2. f \in Nat  BY <1>1, WordsAre
    <3> QED BY <1>4, <3>1, <3>2 DEF Scored, ScoredRows
  <2> QED BY <2>1
<1> HIDE DEF row
<1>7. IsFiniteSet(shown)
  <2> HIDE DEF shown
  <2> QED BY <1>1, <1>5, ImageIsFinite
<1>8. \A r \in shown : \E f \in fields : r = row[f]  BY <1>5
<1>9. PICK e \in fields : e \in Exact(query)  BY <1>1
<1>10. row[e] \in shown  BY <1>5, <1>9
<1> HIDE DEF shown
<1>11. shown \in SUBSET ScoredRows /\ \A r, o \in shown : r.field = o.field => r = o  BY <1>6, <1>8
<1>12. PICK best \in shown : SortedFields(shown)[1] = best.field /\ \A o \in shown : o.score <= best.score
  BY <1>7, <1>10, <1>11, SortedAre
<1>13. PICK g \in fields : best = row[g]  BY <1>8
<1>14. best.field = g /\ best.score = MatchScore(query, g)  BY <1>6, <1>13
<1>15. MatchScore(query, e) <= MatchScore(query, g)  BY <1>6, <1>9, <1>10, <1>12, <1>14
<1>16. MatchScore(query, e) \in Nat /\ MatchScore(query, g) \in Nat  BY <1>1, ScoresApart
<1>17. g \in Exact(query)
  <2>1. SUFFICES ASSUME g \notin Exact(query)  PROVE FALSE  OBVIOUS
  <2>2. MatchScore(query, e) > MatchScore(query, g)  BY <1>1, <1>9, <2>1, ScoresApart
  <2> QED BY <1>15, <1>16, <2>2
<1>18. SortedFields(shown)[1] \in Exact(query)  BY <1>12, <1>14, <1>17
<1>19. FirstFields(SortedFields(shown), limit)[1] = SortedFields(shown)[1]
  <2> DEFINE all == {r.field : r \in shown}
  <2>1. SortedFields(shown) \in Seq(all) /\ Len(SortedFields(shown)) # 0  BY <1>7, <1>10, <1>11, SortedAre
  <2> HIDE DEF all
  <2> QED BY <2>1, FirstFieldsAre
<1>20. FirstFields(SortedFields(shown), limit)[1] \in Exact(query)  BY <1>18, <1>19
<1> QED BY <1>20 DEF shown, filled, fields

\* What is told of the fields and the words is what is answered.
LEMMA AnswerIs ==
  ASSUME NEW shown, NEW rows, NEW query, NEW status, NEW reason,
         Answer([Tells("catalog", status, reason) EXCEPT !.fields = shown, !.rows = rows, !.query = query])
  PROVE  findings'.fields = shown /\ findings'.query = query
BY DEF Answer, Tells, NothingFound

\* A search keeps the property.
LEMMA SearchCatalogKeeps ==
  ASSUME CodesDiffer, NEW query \in SearchWords, NEW scope, NEW limit \in 1 .. MostRelevant, SearchCatalog(query, scope, limit)
  PROVE  ExactNameWins'
<1> DEFINE fields == RelevantFields(query, 2 * MostRelevant)
           valued == {fv \in ToSet(fields) \X Vehicles :
                         /\ fv \in DOMAIN subjects.holds /\ subjects.holds[fv] # "none" /\ InScope(scope, fv[2])}
           scored == {Scored(f, MatchScore(query, f), Cardinality({fv \in valued : fv[1] = f})) : f \in ToSet(fields)}
           shown == FirstFields(SortedFields(scored), limit)
<1>1. findings'.fields = shown /\ findings'.query = query
  <2> DEFINE counts(list) == {fv \in ToSet(list) \X Vehicles :
                /\ fv \in DOMAIN subjects.holds /\ subjects.holds[fv] # "none" /\ InScope(scope, fv[2])}
             best(list, having) ==
                FirstFields(SortedFields({Scored(f, MatchScore(query, f), Cardinality({fv \in having : fv[1] = f})) :
                                             f \in ToSet(list)}), limit)
             told(list, first, rows) ==
                LET status == IF rows = {} THEN "data_coverage_insufficient" ELSE "success"
                    reason == IF list = <<>> THEN "CATALOG_FIELD_NOT_COVERED"
                              ELSE IF rows = {} THEN "CATALOG_VALUES_NOT_COVERED" ELSE "none"
                IN Answer([Tells("catalog", status, reason) EXCEPT !.fields = first, !.rows = rows, !.query = query])
  <2>1. \E list \in {fields} : \E having \in {counts(list)} : \E first \in {best(list, having)} :
          \E rows \in {{fv \in having : fv[1] \in ToSet(first)}} : told(list, first, rows)
    BY Zenon DEF SearchCatalog
  <2>2. shown = best(fields, counts(fields))  OBVIOUS
  <2>3. ASSUME NEW rows, told(fields, shown, rows)  PROVE findings'.fields = shown /\ findings'.query = query
    <3> HIDE DEF shown, fields
    <3> QED BY <2>3, AnswerIs
  <2> HIDE DEF counts, best, told, shown, fields
  <2> QED BY <2>1, <2>2, <2>3
<1>2. SUFFICES ASSUME shown # <<>>, Exact(query) # {}  PROVE shown[1] \in Exact(query)
  BY <1>1 DEF ExactNameWins, Exact
<1>3. valued \in SUBSET (ToSet(fields) \X Vehicles)  OBVIOUS
<1>4. limit \in Nat \ {0} /\ 2 * MostRelevant \in Nat \ {0}  BY SubjectsAssumption
<1>5. Normalized(query) # <<>>
  <2>1. fields # <<>>
    <3>1. SUFFICES ASSUME fields = <<>>  PROVE shown = <<>>  BY <1>2
    <3>2. ToSet(fields) = {}  BY <3>1 DEF ToSet
    <3>3. scored = {}  BY <3>2
    <3> QED BY <1>4, <3>3, NoRowsNoFields, NoFieldsFirst
  <2> QED BY <1>4, <2>1, NothingForUnits
<1> HIDE DEF valued
<1> QED BY <1>2, <1>3, <1>4, <1>5, ShownFirst

\* A field whose name is exactly what was asked for comes first in the answer
\* of a search, for all tables, values and words - where a field whose code is
\* another's name is unlike that one in its own.
THEOREM ExactNamesFirst ==
  ASSUME CodesDiffer  PROVE SubjectsSpec => []ExactNameWins
<1>1. SubjectsInit => ExactNameWins  BY DEF SubjectsInit, NothingFound, ExactNameWins
<1>2. ASSUME ExactNameWins, [SubjectsNext]_subjectvars  PROVE ExactNameWins'
  <2>1. CASE UNCHANGED subjectvars  BY <1>2, <2>1 DEF subjectvars, ExactNameWins
  <2>2. ASSUME findings'.tool # "catalog" \/ findings'.fields = <<>>  PROVE ExactNameWins'  BY <2>2 DEF ExactNameWins
  <2>3. ASSUME UNCHANGED findings  PROVE ExactNameWins'  BY <1>2, <2>3 DEF ExactNameWins
  <2>4. CASE ReadFindings  BY <2>2, <2>4 DEF ReadFindings, NothingFound
  <2>5. ASSUME NEW f \in FilledFields, NEW v \in Vehicles, NEW value, RecordValue(f, v, value)  PROVE ExactNameWins'
    BY <2>3, <2>5 DEF RecordValue
  <2>6. ASSUME NEW v \in RetiredVehicles, Retire(v)  PROVE ExactNameWins'  BY <2>3, <2>6 DEF Retire
  <2>7. ASSUME NEW tool, NEW setup, NEW words, NEW scope, RefuseFields(tool, setup, words, scope)  PROVE ExactNameWins'
    BY <2>2, <2>7 DEF RefuseFields, PreflightFields, Answer, Tells, NothingFound
  <2>8. ASSUME NEW tool, NEW caught, NEW fault, BreakOff(tool, caught, fault)  PROVE ExactNameWins'
    BY <2>2, <2>8 DEF BreakOff, Answer, Tells, NothingFound
  <2>9. ASSUME NEW query \in SearchWords, NEW scope, NEW limit \in 1 .. MostRelevant, SearchCatalog(query, scope, limit)
        PROVE  ExactNameWins'
    BY <2>9, SearchCatalogKeeps
  <2>10. ASSUME NEW query, NEW entities, NEW filterWord, NEW value, NEW scope, Lookup(query, entities, filterWord, value, scope)
         PROVE  ExactNameWins'
    BY <2>2, <2>10 DEF Lookup, Answer, Tells, NothingFound
  <2>11. ASSUME NEW queries, NEW entities, NEW filterWord, NEW value, NEW scope, Stats(queries, entities, filterWord, value, scope)
         PROVE  ExactNameWins'
    BY <2>2, <2>11 DEF Stats, Answer, Tells, NothingFound
  <2>12. ASSUME NEW table, NEW known, InspectSchema(table, known)  PROVE ExactNameWins'
    BY <2>2, <2>12 DEF InspectSchema, Answer, Tells, NothingFound
  <2>13. ASSUME NEW pattern, NEW where, NEW tables, NEW columns, Glob(pattern, where, tables, columns)  PROVE ExactNameWins'
    BY <2>2, <2>13 DEF Glob, Answer, Tells, NothingFound
  <2>14. ASSUME NEW stmt, NEW parser, NEW scope, RunQuery(stmt, parser, scope)  PROVE ExactNameWins'
    BY <2>2, <2>14 DEF RunQuery, PreflightSql, Answer, Tells, NothingFound
  <2>15. CASE SubjectsNext
    BY <2>4, <2>5, <2>6, <2>7, <2>8, <2>9, <2>10, <2>11, <2>12, <2>13, <2>14, <2>15 DEF SubjectsNext
  <2> QED BY <1>2, <2>1, <2>15
<1> QED BY <1>1, <1>2, PTL DEF SubjectsSpec

-----------------------------------------------------------------------------
(* What is folded from the left *)

\* h folds from the left: what it has of numbers is what g makes of the last.
LeftFolds(h, n, X, base, g) ==
    /\ h \in [SUBSET (1 .. n) -> X]
    /\ \A T \in SUBSET (1 .. n) : h[T] = IF T = {} THEN base ELSE g[Max(T)][h[T \ {Max(T)}]]

\* From the left, element after element, all beginnings of a list are folded.
LEMMA LeftFoldExists ==
  ASSUME NEW n \in Nat, NEW X, NEW base \in X, NEW g \in [1 .. n -> [X -> X]]
  PROVE  \E h : LeftFolds(h, n, X, base, g)
<1> DEFINE S == 1 .. n
           top == [T \in SUBSET S |-> Max(T)]
<1>1. IsFiniteSet(S) /\ S \in SUBSET Nat  BY FS_Interval
<1>2. \A T \in SUBSET S : T # {} => top[T] \in T
  <2>1. ASSUME NEW T \in SUBSET S, T # {}  PROVE Max(T) \in T
    <3>1. T \in SUBSET Nat /\ IsFiniteSet(T)  BY <1>1, FS_Subset
    <3> QED BY <2>1, <3>1, GreatestOf
  <2> QED BY <2>1
<1>3. \E h : FoldsParts(h, S, X, base, g, top)
  <2> HIDE DEF S, top
  <2>1. g \in [S -> [X -> X]]  BY DEF S
  <2> QED BY <1>1, <1>2, <2>1, FoldExists
<1>4. PICK h : FoldsParts(h, S, X, base, g, top)  BY <1>3
<1>5. h \in [SUBSET S -> X]  BY <1>4 DEF FoldsParts
<1>6. \A T \in SUBSET S : h[T] = IF T = {} THEN base ELSE g[top[T]][h[T \ {top[T]}]]
  <2> HIDE DEF S, top
  <2> QED BY <1>4 DEF FoldsParts
<1>7. \A T \in SUBSET S : top[T] = Max(T)  OBVIOUS
<1> HIDE DEF top
<1>8. LeftFolds(h, n, X, base, g)  BY <1>5, <1>6, <1>7 DEF LeftFolds
<1> QED BY <1>8

\* A list is as long as its domain.
LEMMA LenOfDomain ==
  ASSUME NEW S, NEW s \in Seq(S), NEW n \in Nat, DOMAIN s = 1 .. n  PROVE Len(s) = n
<1> DEFINE a == Len(s)
<1>1. a \in Nat /\ DOMAIN s = 1 .. a  BY LenProperties
<1>2. \A x \in Nat : x \in 1 .. a <=> x \in 1 .. n  BY <1>1
<1> HIDE DEF a
<1>3. (a # 0 => a \in 1 .. n) /\ (n # 0 => n \in 1 .. a)  BY <1>1, <1>2
<1>4. a = n  BY <1>1, <1>3
<1> QED BY <1>4 DEF a

\* The last of the first ones.
LEMMA LastOfFirst ==
  ASSUME NEW k \in Nat
  PROVE  Max(1 .. k + 1) = k + 1 /\ (1 .. k + 1) \ {k + 1} = 1 .. k
<1> DEFINE S == 1 .. k + 1
<1>1. S \in SUBSET Nat /\ IsFiniteSet(S) /\ k + 1 \in S  BY FS_Interval
<1>2. Max(S) \in S /\ \A y \in S : Max(S) >= y
  <2> HIDE DEF S
  <2>1. S # {}  BY <1>1
  <2> QED BY <1>1, <2>1, GreatestOf
<1>3. Max(S) >= k + 1  BY <1>1, <1>2
<1>4. \A m \in S : m >= k + 1 => m = k + 1  OBVIOUS
<1>5. Max(S) = k + 1
  <2> HIDE DEF S
  <2> QED BY <1>2, <1>3, <1>4
<1>6. S \ {k + 1} = 1 .. k  OBVIOUS
<1> QED BY <1>5, <1>6

\* The last of some numbers is one of them.
LEMMA LastIn ==
  ASSUME NEW n \in Nat, NEW T \in SUBSET (1 .. n), T # {}
  PROVE  Max(T) \in T /\ Max(T) \in 1 .. n /\ T \ {Max(T)} \in SUBSET (1 .. n)
<1>1. IsFiniteSet(1 .. n) /\ T \in SUBSET Nat  BY FS_Interval
<1>2. IsFiniteSet(T)  BY <1>1, FS_Subset
<1> QED BY <1>1, <1>2, GreatestOf

\* One number more.
LEMMA NextOf ==
  ASSUME NEW n \in Nat, NEW k \in 0 .. n, k # n
  PROVE  /\ k \in Nat /\ k + 1 \in 1 .. n /\ k + 1 \in 0 .. n
         /\ 1 .. k + 1 \in SUBSET (1 .. n) /\ 1 .. k + 1 # {}
<1>1. k \in Nat /\ k + 1 \in 1 .. n /\ k + 1 \in 0 .. n  OBVIOUS
<1>2. \A x \in 1 .. k + 1 : x \in 1 .. n  BY <1>1
<1>3. k + 1 \in 1 .. k + 1  BY <1>1
<1> QED BY <1>1, <1>2, <1>3

\* A fact of what is folded, of each beginning one, holds of all of it.
LEMMA FoldedUpTo ==
  ASSUME NEW n \in Nat, NEW iter, NEW good, iter[{}] \in good[0],
         \A k \in 0 .. n : k # n /\ iter[1 .. k] \in good[k] => iter[1 .. k + 1] \in good[k + 1]
  PROVE  iter[1 .. n] \in good[n]
<1> DEFINE T == {k \in 0 .. n : iter[1 .. k] \in good[k]}
<1>1. 0 \in T
  <2>1. 1 .. 0 = {} /\ 0 \in 0 .. n  OBVIOUS
  <2> QED BY <2>1
<1>2. \A k \in 0 .. n : k # n /\ k \in T => k + 1 \in T  OBVIOUS
<1> HIDE DEF T
<1>3. \A k \in 0 .. n : k \in T  BY <1>1, <1>2, UpTo
<1>4. n \in 0 .. n  OBVIOUS
<1> QED BY <1>3, <1>4 DEF T

-----------------------------------------------------------------------------
(* The chunks of a document *)

BlockKinds == {"paragraph", "table", "heading", "overlap"}
Blocks == [kind : BlockKinds, chars : Nat, of : Nat, part : Nat, more : BOOLEAN]

\* The characters of a chunk are a number; one block alone has its own.
LEMMA CharsAre ==
  ASSUME NEW blocks \in Seq(Blocks)
  PROVE  /\ Chars(blocks) \in Nat
         /\ blocks = <<>> => Chars(blocks) = 0
         /\ Len(blocks) = 1 => Chars(blocks) = blocks[1].chars
<1> DEFINE n == Len(blocks)
           S == 1 .. n
           Unfolded(h) == h = [T \in SUBSET S |-> IF T = {} THEN 0 ELSE
                LET i == Max(T)
                IN h[T \ {i}] + blocks[i].chars]
           sum == CHOOSE h : Unfolded(h)
<1>1. n \in Nat /\ DOMAIN blocks = S /\ \A i \in S : blocks[i] \in Blocks
  BY LenProperties, ElementOfSeq
<1>0. n \in Nat  BY <1>1
<1>13. IsFiniteSet(S) /\ S \in SUBSET Nat  BY <1>0, FS_Interval
<1>2. Chars(blocks) = sum[S] + (IF blocks = <<>> THEN 0 ELSE 2 * (n - 1))
  <2>1. DOMAIN blocks = 1 .. Len(blocks)  BY <1>1
  <2> QED BY <2>1 DEF Chars, FoldLeft, MapThenFoldSet
<1>3. \A i \in S : blocks[i].chars \in Nat  BY <1>1 DEF Blocks
<1>4. \E h \in [SUBSET S -> Nat] : Unfolded(h)
  <2> DEFINE g == [i \in S |-> [x \in Nat |-> x + blocks[i].chars]]
  <2>1. g \in [S -> [Nat -> Nat]]  BY <1>3
  <2> HIDE DEF g
  <2>2. PICK h \in [SUBSET S -> Nat] : \A T \in SUBSET S : h[T] = IF T = {} THEN 0 ELSE g[Max(T)][h[T \ {Max(T)}]]
    <3>1. 0 \in Nat  OBVIOUS
    <3>2. \E h : LeftFolds(h, n, Nat, 0, g)
      <4> HIDE DEF n
      <4> QED BY <1>0, <2>1, <3>1, LeftFoldExists
    <3> QED BY <3>2 DEF LeftFolds
  <2>3. ASSUME NEW T \in SUBSET S, T # {}
        PROVE  h[T] = LET i == Max(T) IN h[T \ {i}] + blocks[i].chars
    <3>1. T \in SUBSET Nat /\ IsFiniteSet(T)
      <4> HIDE DEF S
      <4> QED BY <1>13, FS_Subset
    <3>2. Max(T) \in S /\ T \ {Max(T)} \in SUBSET S  BY <2>3, <3>1, GreatestOf
    <3>3. h[T \ {Max(T)}] \in Nat  BY <3>2
    <3>4. h[T] = g[Max(T)][h[T \ {Max(T)}]]  BY <2>2, <2>3
    <3>5. g[Max(T)][h[T \ {Max(T)}]] = h[T \ {Max(T)}] + blocks[Max(T)].chars  BY <3>2, <3>3 DEF g
    <3> QED BY <3>4, <3>5
  <2>4. Unfolded(h)  BY <2>2, <2>3
  <2> QED BY <2>4
<1>5. Unfolded(sum)
  <2> HIDE DEF Unfolded
  <2> QED BY <1>4, Zenon
<1> HIDE DEF sum
<1>6. ASSUME NEW T \in SUBSET S
      PROVE  /\ T = {} => sum[T] = 0
             /\ T # {} => sum[T] = sum[T \ {Max(T)}] + blocks[Max(T)].chars
  BY <1>5
<1> HIDE DEF Unfolded
<1>7. sum[{}] = 0
  <2>1. {} \in SUBSET S  OBVIOUS
  <2> QED BY <1>6, <2>1
<1>8. ASSUME NEW k \in 0 .. n, k # n  PROVE k + 1 \in S /\ sum[1 .. k + 1] = sum[1 .. k] + blocks[k + 1].chars
  <2>1. k \in Nat /\ k + 1 \in S
    <3> HIDE DEF n
    <3> QED BY <1>0, <1>8
  <2>2. 1 .. k + 1 \in SUBSET S /\ 1 .. k + 1 # {}
    <3> HIDE DEF n
    <3>1. \A x \in 1 .. k + 1 : x \in 1 .. n  BY <1>0, <2>1
    <3>2. k + 1 \in 1 .. k + 1  BY <2>1
    <3> QED BY <3>1, <3>2
  <2>3. Max(1 .. k + 1) = k + 1 /\ (1 .. k + 1) \ {k + 1} = 1 .. k  BY <2>1, LastOfFirst
  <2>4. sum[1 .. k + 1] = sum[(1 .. k + 1) \ {Max(1 .. k + 1)}] + blocks[Max(1 .. k + 1)].chars
    <3> HIDE DEF S
    <3> QED BY <1>6, <2>2
  <2> QED BY <2>1, <2>3, <2>4
<1>9. sum[1 .. n] \in Nat
  <2> DEFINE good == [k \in 0 .. n |-> Nat]
  <2>1. sum[{}] \in good[0]  BY <1>1, <1>7
  <2>2. ASSUME NEW k \in 0 .. n, k # n, sum[1 .. k] \in good[k]  PROVE sum[1 .. k + 1] \in good[k + 1]
    <3>1. sum[1 .. k] \in Nat /\ k + 1 \in 0 .. n
      <4> HIDE DEF n
      <4> QED BY <1>0, <2>2
    <3>2. sum[1 .. k + 1] = sum[1 .. k] + blocks[k + 1].chars /\ blocks[k + 1].chars \in Nat  BY <1>3, <1>8, <2>2
    <3>3. sum[1 .. k + 1] \in Nat  BY <3>1, <3>2
    <3> QED BY <3>1, <3>3
  <2>3. sum[1 .. n] \in good[n]
    <3> HIDE DEF good, n
    <3> QED BY <1>1, <2>1, <2>2, FoldedUpTo
  <2> QED BY <1>1, <2>3
<1>10. Chars(blocks) \in Nat
  <2>1. blocks # <<>> => n # 0  BY <1>1, EmptySeq
  <2> QED BY <1>1, <1>2, <1>9, <2>1
<1>11. ASSUME blocks = <<>>  PROVE Chars(blocks) = 0
  <2>1. n = 0  BY <1>11, EmptySeq
  <2>2. S = {}  BY <2>1
  <2> QED BY <1>2, <1>7, <1>11, <2>2
<1>12. ASSUME n = 1  PROVE Chars(blocks) = blocks[1].chars
  <2>1. 0 \in 0 .. n /\ 0 # n /\ 0 + 1 = 1 /\ 1 .. 0 = {} /\ S = 1 .. 1  BY <1>12
  <2>2. sum[1 .. 0 + 1] = sum[1 .. 0] + blocks[0 + 1].chars  BY <1>8, <2>1
  <2>3. sum[S] = 0 + blocks[1].chars  BY <1>7, <2>1, <2>2
  <2>4. blocks # <<>>  BY <1>12, EmptySeq
  <2>5. blocks[1].chars \in Nat  BY <1>3, <2>1
  <2> QED BY <1>2, <1>12, <2>3, <2>4, <2>5
<1> QED BY <1>10, <1>11, <1>12

\* A text is cut into pieces that are no longer than asked for, none empty.
LEMMA CutsAre ==
  ASSUME NEW chars \in Nat \ {0}, NEW most \in Nat \ {0}
  PROVE  Cuts(chars, most) \in Seq(1 .. most) /\ Len(Cuts(chars, most)) >= 1
<1> DEFINE c == (chars + most - 1) \div most
           cut == [i \in 1 .. c |-> IF i * most <= chars THEN most ELSE chars - (i - 1) * most]
<1>1. c \in Nat /\ c * most <= chars + most - 1 /\ chars + most - 1 < (c + 1) * most  OBVIOUS
<1>2. Cuts(chars, most) = cut  BY DEF Cuts
<1> HIDE DEF c
<1>3. c * most \in Nat /\ (c + 1) * most = c * most + most  BY <1>1
<1>4. c # 0
  <2>1. c * most >= chars  BY <1>1, <1>3
  <2>2. 0 * most = 0  OBVIOUS
  <2> QED BY <1>3, <2>1, <2>2
<1>5. ASSUME NEW i \in 1 .. c  PROVE cut[i] \in 1 .. most
  <2>1. i * most \in Nat /\ (i - 1) * most \in Nat /\ (i - 1) * most = i * most - most
    <3>1. i \in Nat /\ i - 1 \in Nat  BY <1>1
    <3> QED BY <3>1
  <2>2. i * most <= c * most
    <3>1. PICK d \in Nat : c = i + d
      <4>1. c - i \in Nat /\ c = i + (c - i)  BY <1>1
      <4> QED BY <4>1
    <3>2. i \in Nat /\ (i + d) * most = i * most + d * most /\ d * most \in Nat  OBVIOUS
    <3> QED BY <2>1, <3>1, <3>2
  <2>3. (i - 1) * most < chars  BY <1>1, <1>3, <2>1, <2>2
  <2>4. ~(i * most <= chars) => chars - (i - 1) * most \in 1 .. most  BY <2>1, <2>3
  <2> QED BY <2>4
<1>6. cut \in [1 .. c -> 1 .. most]
  <2>1. cut = [i \in 1 .. c |-> cut[i]] /\ DOMAIN cut = 1 .. c  OBVIOUS
  <2> HIDE DEF cut
  <2> QED BY <1>5, <2>1
<1> HIDE DEF cut
<1>7. cut \in Seq(1 .. most) /\ DOMAIN cut = 1 .. c  BY <1>1, <1>6, SeqDef
<1>8. Len(cut) \in Nat /\ DOMAIN cut = 1 .. Len(cut)  BY <1>7, LenProperties
<1>9. Len(cut) >= 1
  <2>1. 1 \in 1 .. c  BY <1>1, <1>4
  <2>2. 1 \in 1 .. Len(cut)  BY <1>7, <1>8, <2>1
  <2> QED BY <1>8, <2>2
<1> QED BY <1>2, <1>7, <1>9

Splits == [parts : Seq(1 .. MaxChars), current : 0 .. MaxChars]
HasText(state) == state.current > 0 \/ state.parts # <<>>

\* What was split before a step is a state of the splitting, and so is what is
\* split after it.
LEMMA PartIsAppended ==
  ASSUME NEW state \in Splits, state.current > 0
  PROVE  Append(state.parts, state.current) \in Seq(1 .. MaxChars) /\ Append(state.parts, state.current) # <<>>
<1>1. state.parts \in Seq(1 .. MaxChars) /\ state.current \in 1 .. MaxChars  BY ChunkingAssumption DEF Splits
<1>2. Append(state.parts, state.current) \in Seq(1 .. MaxChars)
      /\ Len(Append(state.parts, state.current)) = Len(state.parts) + 1 /\ Len(state.parts) \in Nat
  BY <1>1, AppendProperties, LenProperties
<1>3. Len(Append(state.parts, state.current)) # 0  BY <1>2
<1> QED BY <1>2, <1>3, EmptySeq

LEMMA AddSentenceIs ==
  ASSUME NEW state \in Splits, NEW sentence \in Nat \ {0}
  PROVE  AddSentence(state, sentence) \in Splits /\ HasText(AddSentence(state, sentence))
<1> DEFINE full == state.current > 0 /\ state.current + sentence + 1 > MaxChars
           begun == IF full THEN [parts |-> Append(state.parts, state.current), current |-> 0] ELSE state
<1>1. state.parts \in Seq(1 .. MaxChars) /\ state.current \in 0 .. MaxChars /\ MaxChars \in Nat \ {0}
      /\ state = [parts |-> state.parts, current |-> state.current]
  BY ChunkingAssumption DEF Splits
<1>2. begun \in Splits /\ (full => begun.current = 0) /\ (~full => begun = state)
  <2>1. CASE full
    <3>1. Append(state.parts, state.current) \in Seq(1 .. MaxChars)  BY <2>1, PartIsAppended
    <3>2. 0 \in 0 .. MaxChars  BY <1>1
    <3> QED BY <2>1, <3>1, <3>2 DEF Splits
  <2>2. CASE ~full  BY <2>2
  <2> QED BY <2>1, <2>2
<1>3. AddSentence(state, sentence) =
        IF sentence > MaxChars
        THEN [begun EXCEPT !.parts = @ \o Cuts(sentence, MaxChars)]
        ELSE [begun EXCEPT !.current = IF @ = 0 THEN sentence ELSE @ + 1 + sentence]
  BY DEF AddSentence
<1>4. begun.current # 0 => begun.current = state.current /\ state.current + sentence + 1 <= MaxChars
  <2>1. ASSUME begun.current # 0  PROVE ~full  BY <1>2, <2>1
  <2>2. ASSUME ~full, state.current # 0  PROVE state.current + sentence + 1 <= MaxChars  BY <1>1, <2>2
  <2> HIDE DEF full, begun
  <2> QED BY <1>2, <2>1, <2>2
<1> HIDE DEF full, begun
<1>5. begun.parts \in Seq(1 .. MaxChars) /\ begun.current \in 0 .. MaxChars
      /\ begun = [parts |-> begun.parts, current |-> begun.current]
  BY <1>2 DEF Splits
<1>6. CASE sentence > MaxChars
  <2>1. Cuts(sentence, MaxChars) \in Seq(1 .. MaxChars) /\ Len(Cuts(sentence, MaxChars)) >= 1  BY <1>1, CutsAre
  <2> DEFINE parts == begun.parts \o Cuts(sentence, MaxChars)
  <2>2. parts \in Seq(1 .. MaxChars) /\ Len(parts) = Len(begun.parts) + Len(Cuts(sentence, MaxChars))
    BY <1>5, <2>1, ConcatProperties
  <2>3. Len(begun.parts) \in Nat /\ Len(Cuts(sentence, MaxChars)) \in Nat  BY <1>5, <2>1, LenProperties
  <2>4. parts # <<>>
    <3>1. Len(parts) # 0  BY <2>1, <2>2, <2>3
    <3> QED BY <3>1, EmptySeq
  <2>5. AddSentence(state, sentence) = [parts |-> parts, current |-> begun.current]  BY <1>3, <1>5, <1>6
  <2> HIDE DEF parts
  <2> QED BY <1>5, <2>2, <2>4, <2>5 DEF Splits, HasText
<1>7. CASE ~(sentence > MaxChars)
  <2> DEFINE current == IF begun.current = 0 THEN sentence ELSE begun.current + 1 + sentence
  <2>1. current \in 1 .. MaxChars  BY <1>1, <1>4, <1>5, <1>7
  <2>2. AddSentence(state, sentence) = [parts |-> begun.parts, current |-> current]  BY <1>3, <1>5, <1>7
  <2> HIDE DEF current
  <2>3. current \in 0 .. MaxChars /\ current > 0  BY <2>1, <1>1
  <2> QED BY <1>5, <2>2, <2>3 DEF Splits, HasText
<1> QED BY <1>6, <1>7

LEMMA AddLineIs ==
  ASSUME NEW header \in 0 .. MaxChars - 2, NEW state \in Splits,
         NEW line \in 1 .. MaxChars - header - (IF header > 0 THEN 1 ELSE 0)
  PROVE  AddLine(header, state, line) \in Splits /\ HasText(AddLine(header, state, line))
<1>1. state.parts \in Seq(1 .. MaxChars) /\ state.current \in 0 .. MaxChars /\ MaxChars \in Nat \ {0}
      /\ state = [parts |-> state.parts, current |-> state.current]
  BY ChunkingAssumption DEF Splits
<1>2. WithLine(header, line) \in 1 .. MaxChars  BY <1>1 DEF WithLine
<1>3. CASE state.current > 0 /\ WithLine(state.current, line) > MaxChars
  <2>1. AddLine(header, state, line) = [parts |-> Append(state.parts, state.current), current |-> WithLine(header, line)]
    BY <1>3 DEF AddLine
  <2>2. Append(state.parts, state.current) \in Seq(1 .. MaxChars)  BY <1>3, PartIsAppended
  <2>3. WithLine(header, line) \in 0 .. MaxChars /\ WithLine(header, line) > 0  BY <1>2, <1>1
  <2> QED BY <2>1, <2>2, <2>3 DEF Splits, HasText
<1>4. CASE ~(state.current > 0 /\ WithLine(state.current, line) > MaxChars)
  <2>1. WithLine(state.current, line) \in 1 .. MaxChars  BY <1>1, <1>4 DEF WithLine
  <2>2. AddLine(header, state, line) = [parts |-> state.parts, current |-> WithLine(state.current, line)]
    BY <1>1, <1>4 DEF AddLine
  <2>3. WithLine(state.current, line) \in 0 .. MaxChars /\ WithLine(state.current, line) > 0  BY <2>1, <1>1
  <2> QED BY <1>1, <2>2, <2>3 DEF Splits, HasText
<1> QED BY <1>3, <1>4

LEMMA AllPartsAre ==
  ASSUME NEW state \in Splits, HasText(state)
  PROVE  AllParts(state) \in Seq(1 .. MaxChars) /\ AllParts(state) # <<>>
<1>1. CASE state.current > 0  BY <1>1, PartIsAppended DEF AllParts
<1>2. CASE ~(state.current > 0)  BY <1>2 DEF AllParts, Splits, HasText
<1> QED BY <1>1, <1>2

\* The sentences of a text are packed into parts that are not too long.
LEMMA SentencesAre ==
  ASSUME NEW sentences \in Seq(Nat \ {0}), sentences # <<>>
  PROVE  SplitSentences(sentences) \in Seq(1 .. MaxChars) /\ SplitSentences(sentences) # <<>>
<1> DEFINE n == Len(sentences)
           S == 1 .. n
           base == [parts |-> <<>>, current |-> 0]
           Unfolded(h) == h = [T \in SUBSET S |-> IF T = {} THEN base ELSE
                LET i == Max(T)
                IN AddSentence(h[T \ {i}], sentences[i])]
           iter == CHOOSE h : Unfolded(h)
<1>1. n \in Nat /\ n # 0 /\ DOMAIN sentences = S /\ \A i \in S : sentences[i] \in Nat \ {0}
  BY LenProperties, ElementOfSeq, EmptySeq
<1>2. n \in Nat /\ n # 0  BY <1>1
<1>3. SplitSentences(sentences) = AllParts(iter[S])
  <2>1. DOMAIN sentences = 1 .. Len(sentences)  BY <1>1
  <2> QED BY <2>1 DEF SplitSentences, FoldLeft, MapThenFoldSet
<1>4. base \in Splits
  <2>1. <<>> \in Seq(1 .. MaxChars) /\ 0 \in 0 .. MaxChars  BY EmptySeq, ChunkingAssumption
  <2> QED BY <2>1 DEF Splits
<1>5. \E h \in [SUBSET S -> Splits] : Unfolded(h)
  <2> DEFINE g == [i \in S |-> [u \in Splits |-> AddSentence(u, sentences[i])]]
  <2>1. g \in [S -> [Splits -> Splits]]  BY <1>1, AddSentenceIs
  <2> HIDE DEF g, base
  <2>2. PICK h \in [SUBSET S -> Splits] : \A T \in SUBSET S : h[T] = IF T = {} THEN base ELSE g[Max(T)][h[T \ {Max(T)}]]
    <3>1. \E h : LeftFolds(h, n, Splits, base, g)
      <4> HIDE DEF n
      <4> QED BY <1>2, <1>4, <2>1, LeftFoldExists
    <3> QED BY <3>1 DEF LeftFolds
  <2>3. ASSUME NEW T \in SUBSET S, T # {}
        PROVE  h[T] = LET i == Max(T) IN AddSentence(h[T \ {i}], sentences[i])
    <3>1. Max(T) \in S /\ T \ {Max(T)} \in SUBSET S  BY <1>2, <2>3, LastIn
    <3>2. h[T \ {Max(T)}] \in Splits  BY <3>1
    <3>3. h[T] = g[Max(T)][h[T \ {Max(T)}]]  BY <2>2, <2>3
    <3>4. g[Max(T)][h[T \ {Max(T)}]] = AddSentence(h[T \ {Max(T)}], sentences[Max(T)])  BY <3>1, <3>2 DEF g
    <3> QED BY <3>3, <3>4
  <2>4. Unfolded(h)  BY <2>2, <2>3
  <2> QED BY <2>4
<1>6. Unfolded(iter)
  <2> HIDE DEF Unfolded
  <2> QED BY <1>5, Zenon
<1> HIDE DEF iter
<1>7. ASSUME NEW T \in SUBSET S
      PROVE  /\ T = {} => iter[T] = base
             /\ T # {} => iter[T] = AddSentence(iter[T \ {Max(T)}], sentences[Max(T)])
  BY <1>6
<1> HIDE DEF Unfolded, base
<1> DEFINE good == [k \in 0 .. n |-> {u \in Splits : k # 0 => HasText(u)}]
<1>8. iter[{}] \in good[0]
  <2>1. {} \in SUBSET S /\ 0 \in 0 .. n  BY <1>2
  <2>2. iter[{}] = base  BY <1>7, <2>1
  <2> QED BY <1>4, <2>1, <2>2
<1>9. ASSUME NEW k \in 0 .. n, k # n, iter[1 .. k] \in good[k]  PROVE iter[1 .. k + 1] \in good[k + 1]
  <2>1. k \in Nat /\ k + 1 \in S /\ k + 1 \in 0 .. n /\ 1 .. k + 1 \in SUBSET S /\ 1 .. k + 1 # {}
    <3> HIDE DEF n
    <3> QED BY <1>2, <1>9, NextOf
  <2>2. Max(1 .. k + 1) = k + 1 /\ (1 .. k + 1) \ {k + 1} = 1 .. k  BY <2>1, LastOfFirst
  <2>3. iter[1 .. k + 1] = AddSentence(iter[1 .. k], sentences[k + 1])
    <3>1. iter[1 .. k + 1] = AddSentence(iter[(1 .. k + 1) \ {Max(1 .. k + 1)}], sentences[Max(1 .. k + 1)])
      <4> HIDE DEF S
      <4> QED BY <1>7, <2>1
    <3> QED BY <2>2, <3>1
  <2>4. iter[1 .. k] \in Splits /\ sentences[k + 1] \in Nat \ {0}  BY <1>1, <1>9, <2>1
  <2>5. iter[1 .. k + 1] \in Splits /\ HasText(iter[1 .. k + 1])  BY <2>3, <2>4, AddSentenceIs
  <2> QED BY <2>1, <2>5
<1>10. iter[S] \in good[n]
  <2> HIDE DEF good, n
  <2> QED BY <1>2, <1>8, <1>9, FoldedUpTo
<1>11. iter[S] \in Splits /\ HasText(iter[S])
  <2>1. n \in 0 .. n  BY <1>2
  <2> QED BY <1>2, <1>10, <2>1
<1> QED BY <1>3, <1>11, AllPartsAre

\* The lines of a table, cut to what its header leaves, are packed behind it.
LEMMA LinesAre ==
  ASSUME NEW header \in 0 .. MaxChars - 2, NEW budget, budget = MaxChars - header - (IF header > 0 THEN 1 ELSE 0),
         NEW pieces \in Seq(1 .. budget), header > 0 \/ pieces # <<>>
  PROVE  PackLines(header, pieces) \in Seq(1 .. MaxChars) /\ PackLines(header, pieces) # <<>>
<1> DEFINE n == Len(pieces)
           S == 1 .. n
           base == [parts |-> <<>>, current |-> header]
           Unfolded(h) == h = [T \in SUBSET S |-> IF T = {} THEN base ELSE
                LET i == Max(T)
                IN AddLine(header, h[T \ {i}], pieces[i])]
           iter == CHOOSE h : Unfolded(h)
<1>0. header \in 0 .. MaxChars - 2 /\ header \in 0 .. MaxChars /\ budget = MaxChars - header - (IF header > 0 THEN 1 ELSE 0)
  <2>1. MaxChars \in Nat  BY ChunkingAssumption
  <2>2. header \in 0 .. MaxChars - 2 /\ header \in 0 .. MaxChars  BY <2>1
  <2> QED BY <2>2
<1>1. n \in Nat /\ DOMAIN pieces = S /\ \A i \in S : pieces[i] \in 1 .. budget
  BY LenProperties, ElementOfSeq
<1>2. n \in Nat  BY <1>1
<1>3. PackLines(header, pieces) = AllParts(iter[S])
  <2>1. DOMAIN pieces = 1 .. Len(pieces)  BY <1>1
  <2> QED BY <2>1 DEF PackLines, FoldLeft, MapThenFoldSet
<1>4. base \in Splits
  <2>1. <<>> \in Seq(1 .. MaxChars) /\ header \in 0 .. MaxChars  BY <1>0, EmptySeq
  <2> QED BY <2>1 DEF Splits
<1>5. \E h \in [SUBSET S -> Splits] : Unfolded(h)
  <2> DEFINE g == [i \in S |-> [u \in Splits |-> AddLine(header, u, pieces[i])]]
  <2>1. g \in [S -> [Splits -> Splits]]  BY <1>1, <1>0, AddLineIs
  <2> HIDE DEF g, base
  <2>2. PICK h \in [SUBSET S -> Splits] : \A T \in SUBSET S : h[T] = IF T = {} THEN base ELSE g[Max(T)][h[T \ {Max(T)}]]
    <3>1. \E h : LeftFolds(h, n, Splits, base, g)
      <4> HIDE DEF n
      <4> QED BY <1>2, <1>4, <2>1, LeftFoldExists
    <3> QED BY <3>1 DEF LeftFolds
  <2>3. ASSUME NEW T \in SUBSET S, T # {}
        PROVE  h[T] = LET i == Max(T) IN AddLine(header, h[T \ {i}], pieces[i])
    <3>1. Max(T) \in S /\ T \ {Max(T)} \in SUBSET S  BY <1>2, <2>3, LastIn
    <3>2. h[T \ {Max(T)}] \in Splits  BY <3>1
    <3>3. h[T] = g[Max(T)][h[T \ {Max(T)}]]  BY <2>2, <2>3
    <3>4. g[Max(T)][h[T \ {Max(T)}]] = AddLine(header, h[T \ {Max(T)}], pieces[Max(T)])  BY <3>1, <3>2 DEF g
    <3> QED BY <3>3, <3>4
  <2>4. Unfolded(h)  BY <2>2, <2>3
  <2> QED BY <2>4
<1>6. Unfolded(iter)
  <2> HIDE DEF Unfolded
  <2> QED BY <1>5, Zenon
<1> HIDE DEF iter
<1>7. ASSUME NEW T \in SUBSET S
      PROVE  /\ T = {} => iter[T] = base
             /\ T # {} => iter[T] = AddLine(header, iter[T \ {Max(T)}], pieces[Max(T)])
  BY <1>6
<1> HIDE DEF Unfolded, base
<1> DEFINE good == [k \in 0 .. n |-> {u \in Splits : k # 0 \/ header > 0 => HasText(u)}]
<1>8. iter[{}] \in good[0]
  <2>1. {} \in SUBSET S /\ 0 \in 0 .. n
    <3> HIDE DEF n
    <3> QED BY <1>2
  <2>2. iter[{}] = base  BY <1>7, <2>1
  <2>3. header > 0 => HasText(base)  BY DEF HasText, base
  <2> QED BY <1>4, <2>1, <2>2, <2>3
<1>9. ASSUME NEW k \in 0 .. n, k # n, iter[1 .. k] \in good[k]  PROVE iter[1 .. k + 1] \in good[k + 1]
  <2>1. k \in Nat /\ k + 1 \in S /\ k + 1 \in 0 .. n /\ 1 .. k + 1 \in SUBSET S /\ 1 .. k + 1 # {}
    <3> HIDE DEF n
    <3> QED BY <1>2, <1>9, NextOf
  <2>2. Max(1 .. k + 1) = k + 1 /\ (1 .. k + 1) \ {k + 1} = 1 .. k  BY <2>1, LastOfFirst
  <2>3. iter[1 .. k + 1] = AddLine(header, iter[1 .. k], pieces[k + 1])
    <3>1. iter[1 .. k + 1] = AddLine(header, iter[(1 .. k + 1) \ {Max(1 .. k + 1)}], pieces[Max(1 .. k + 1)])
      <4> HIDE DEF S
      <4> QED BY <1>7, <2>1
    <3> QED BY <2>2, <3>1
  <2>4. iter[1 .. k] \in Splits /\ pieces[k + 1] \in 1 .. budget  BY <1>1, <1>9, <2>1
  <2>5. iter[1 .. k + 1] \in Splits /\ HasText(iter[1 .. k + 1])  BY <2>3, <2>4, <1>0, AddLineIs
  <2> QED BY <2>1, <2>5
<1>10. iter[S] \in good[n]
  <2> HIDE DEF good, n
  <2> QED BY <1>2, <1>8, <1>9, FoldedUpTo
<1>11. iter[S] \in Splits /\ HasText(iter[S])
  <2>1. n \in 0 .. n
    <3> HIDE DEF n
    <3> QED BY <1>2
  <2>2. n # 0 \/ header > 0  BY <1>1, EmptySeq
  <2> QED BY <1>2, <1>10, <2>1, <2>2
<1> QED BY <1>3, <1>11, AllPartsAre

LEMMA TablesAre ==
  ASSUME NEW lines \in Seq(Nat \ {0}), lines # <<>>
  PROVE  SplitTable(lines) \in Seq(1 .. MaxChars) /\ SplitTable(lines) # <<>>
<1> DEFINE header == IF Head(lines) <= HeaderChars THEN Head(lines) ELSE 0
           budget == MaxChars - header - (IF header > 0 THEN 1 ELSE 0)
           data == IF header > 0 THEN Tail(lines) ELSE lines
           cuts == [i \in DOMAIN data |-> Cuts(data[i], budget)]
           pieces == FlattenSeq(cuts)
<1>1. Head(lines) \in Nat \ {0} /\ Tail(lines) \in Seq(Nat \ {0})  BY HeadTailProperties
<1>2. header \in 0 .. MaxChars - 2 /\ MaxChars \in Nat  BY <1>1, ChunkingAssumption
<1>3. data \in Seq(Nat \ {0}) /\ (header > 0 \/ data # <<>>)  BY <1>1
<1>4. SplitTable(lines) = PackLines(header, pieces)  BY DEF SplitTable
<1> HIDE DEF header
<1>5. budget \in Nat \ {0} /\ budget = MaxChars - header - (IF header > 0 THEN 1 ELSE 0)  BY <1>2
<1> HIDE DEF data, budget
<1>6. Len(data) \in Nat /\ DOMAIN data = 1 .. Len(data) /\ \A i \in 1 .. Len(data) : data[i] \in Nat \ {0}
  BY <1>3, LenProperties, ElementOfSeq
<1>7. \A i \in 1 .. Len(data) : Cuts(data[i], budget) \in Seq(1 .. budget) /\ Len(Cuts(data[i], budget)) >= 1
  BY <1>5, <1>6, CutsAre
<1>8. cuts \in [1 .. Len(data) -> Seq(1 .. budget)]  BY <1>6, <1>7
<1>9. cuts \in Seq(Seq(1 .. budget))  BY <1>6, <1>8, SeqDef
<1>10. Len(cuts) = Len(data)
  <2>1. DOMAIN cuts = 1 .. Len(data)  BY <1>6
  <2> HIDE DEF cuts
  <2> QED BY <1>6, <1>9, <2>1, LenOfDomain
<1>11. \A i \in 1 .. Len(data) : Len(cuts[i]) >= 1  BY <1>6, <1>7
<1> HIDE DEF cuts
<1>12. pieces \in Seq(1 .. budget) /\ (Len(cuts) # 0 => Len(pieces) >= Len(cuts[Len(cuts)]))  BY <1>9, FlattenedIs
<1>13. header > 0 \/ pieces # <<>>
  <2>1. ASSUME ~(header > 0)  PROVE pieces # <<>>
    <3>1. Len(data) # 0  BY <1>3, <2>1, EmptySeq
    <3>2. Len(data) \in 1 .. Len(data)  BY <1>6, <3>1
    <3>3. Len(pieces) >= 1
      <4>1. Len(cuts[Len(data)]) >= 1  BY <1>11, <3>2
      <4>2. Len(pieces) >= Len(cuts[Len(data)]) /\ Len(pieces) \in Nat  BY <1>10, <1>12, <3>1, LenProperties
      <4>3. Len(cuts[Len(data)]) \in Nat  BY <1>9, <1>10, <3>2, ElementOfSeq, LenProperties
      <4> QED BY <4>1, <4>2, <4>3
    <3> QED BY <3>3, EmptySeq
  <2> QED BY <2>1
<1> HIDE DEF pieces
<1> QED BY <1>2, <1>4, <1>5, <1>12, <1>13, LinesAre

\* A block is split into blocks that are not too long, numbered as its parts.
LEMMA SplitIs ==
  ASSUME NEW kind \in BlockKinds, NEW chars \in Nat \ {0}, NEW of \in Nat, NEW blocks \in SplitOversized(kind, chars, of)
  PROVE  /\ blocks \in Seq(Blocks) /\ Len(blocks) \in Nat \ {0}
         /\ \A i \in 1 .. Len(blocks) : /\ blocks[i].kind = kind /\ blocks[i].of = of /\ blocks[i].part = i
                                         /\ blocks[i].more = (i < Len(blocks)) /\ blocks[i].chars <= MaxChars
<1> DEFINE parts == IF chars <= MaxChars THEN {<<chars>>}
                    ELSE IF kind = "table" THEN {SplitTable(d) : d \in Divisions(chars)}
                    ELSE {SplitSentences(d) : d \in Divisions(chars)}
<1>1. PICK p \in parts : blocks = [i \in DOMAIN p |-> Block(kind, p[i], of, i, i < Len(p))]  BY DEF SplitOversized
<1>2. p \in Seq(1 .. MaxChars) /\ p # <<>>
  <2>1. CASE chars <= MaxChars
    <3>1. p = <<chars>> /\ chars \in 1 .. MaxChars  BY <1>1, <2>1, ChunkingAssumption
    <3> QED BY <3>1
  <2>2. CASE ~(chars <= MaxChars)
    <3>1. PICK d \in Divisions(chars) : p = SplitTable(d) \/ p = SplitSentences(d)  BY <1>1, <2>2
    <3>2. d \in Seq(Nat \ {0}) /\ d # <<>>
      <4>1. CASE d = <<chars>>  BY <4>1
      <4>2. CASE d # <<chars>>
        <5>1. PICK a \in {b \in BlockChars : b < chars - 1} : d = <<a, chars - a - 1>>  BY <3>1, <4>2 DEF Divisions
        <5>2. a \in Nat \ {0} /\ chars - a - 1 \in Nat \ {0}  BY <5>1, ChunkingAssumption
        <5> QED BY <5>1, <5>2
      <4> QED BY <4>1, <4>2
    <3> QED BY <3>1, <3>2, TablesAre, SentencesAre
  <2> QED BY <2>1, <2>2
<1> HIDE DEF parts
<1> DEFINE n == Len(p)
<1>3. n \in Nat /\ n # 0 /\ DOMAIN p = 1 .. n /\ \A i \in 1 .. n : p[i] \in 1 .. MaxChars
  BY <1>2, LenProperties, ElementOfSeq, EmptySeq
<1> HIDE DEF n
<1>4. blocks = [i \in 1 .. n |-> Block(kind, p[i], of, i, i < n)]  BY <1>1, <1>3 DEF n
<1>5. \A i \in 1 .. n : Block(kind, p[i], of, i, i < n) \in Blocks  BY <1>3 DEF Block, Blocks
<1>6. blocks \in [1 .. n -> Blocks]  BY <1>4, <1>5
<1>7. blocks \in Seq(Blocks)  BY <1>3, <1>6, SeqDef
<1>8. Len(blocks) = n  BY <1>3, <1>6, <1>7, LenOfDomain
<1>9. \A i \in 1 .. n : blocks[i] = Block(kind, p[i], of, i, i < n)  BY <1>4
<1>10. \A i \in 1 .. n : p[i] <= MaxChars  BY <1>3
<1> QED BY <1>3, <1>7, <1>8, <1>9, <1>10 DEF Block

\* What the text of pages is made of.
LEMMA TextIs ==
  ASSUME NEW pages \in Seq(Seq(Blocks)), NEW x
  PROVE  x \in TextOf(pages) <=> \E i \in 1 .. Len(pages) : \E k \in 1 .. Len(pages[i]) :
                                    ~IsOverlap(pages[i][k]) /\ x = TextPart(i, k, pages[i][k])
<1>1. DOMAIN pages = 1 .. Len(pages) /\ \A i \in 1 .. Len(pages) : pages[i] \in Seq(Blocks)
  BY LenProperties, ElementOfSeq
<1>2. \A i \in 1 .. Len(pages) : DOMAIN pages[i] = 1 .. Len(pages[i])  BY <1>1, LenProperties
<1> DEFINE texts(i) == {TextPart(i, k, pages[i][k]) : k \in {n \in DOMAIN pages[i] : ~IsOverlap(pages[i][n])}}
<1>3. x \in TextOf(pages) <=> \E i \in DOMAIN pages : x \in texts(i)
  <2>1. TextOf(pages) = UNION {texts(i) : i \in DOMAIN pages}  BY Zenon DEF TextOf
  <2> HIDE DEF texts
  <2> QED BY <2>1
<1>4. ASSUME NEW i \in 1 .. Len(pages)
      PROVE  x \in texts(i) <=> \E k \in 1 .. Len(pages[i]) : ~IsOverlap(pages[i][k]) /\ x = TextPart(i, k, pages[i][k])
  BY <1>2
<1> HIDE DEF texts
<1> QED BY <1>1, <1>3, <1>4

LEMMA TextTypes ==
  ASSUME NEW pages \in Seq(Seq(Blocks)), NEW x \in TextOf(pages)
  PROVE  /\ x.page \in 1 .. Len(pages) /\ Len(pages) \in Nat /\ pages[x.page] \in Seq(Blocks)
         /\ x.place \in 1 .. Len(pages[x.page]) /\ Len(pages[x.page]) \in Nat
         /\ x.of \in Nat /\ x.part \in Nat /\ x.more \in BOOLEAN
<1>1. PICK i \in 1 .. Len(pages) : \E k \in 1 .. Len(pages[i]) : x = TextPart(i, k, pages[i][k])  BY TextIs
<1>2. PICK k \in 1 .. Len(pages[i]) : x = TextPart(i, k, pages[i][k])  BY <1>1
<1>3. pages[i] \in Seq(Blocks) /\ Len(pages[i]) \in Nat /\ Len(pages) \in Nat  BY ElementOfSeq, LenProperties
<1>4. pages[i][k] \in Blocks  BY <1>3, ElementOfSeq
<1> QED BY <1>2, <1>3, <1>4 DEF TextPart, Blocks

\* A page of overlaps adds no text.
LEMMA OverlapsAreNoText ==
  ASSUME NEW pages \in Seq(Seq(Blocks)), NEW tail \in Seq(Blocks), \A k \in DOMAIN tail : IsOverlap(tail[k])
  PROVE  TextOf(Append(pages, tail)) = TextOf(pages)
<1> DEFINE all == Append(pages, tail)
<1>1. /\ all \in Seq(Seq(Blocks)) /\ Len(all) = Len(pages) + 1 /\ Len(pages) \in Nat
      /\ all[Len(pages) + 1] = tail /\ \A i \in 1 .. Len(pages) : all[i] = pages[i]
  BY AppendProperties, LenProperties
<1>2. DOMAIN tail = 1 .. Len(tail)  BY LenProperties
<1> HIDE DEF all
<1>3. ASSUME NEW x \in TextOf(all)  PROVE x \in TextOf(pages)
  <2>1. PICK i \in 1 .. Len(all) : \E k \in 1 .. Len(all[i]) : ~IsOverlap(all[i][k]) /\ x = TextPart(i, k, all[i][k])
    <3>1. all \in Seq(Seq(Blocks))  BY <1>1
    <3> QED BY <1>3, <3>1, TextIs
  <2>2. i # Len(pages) + 1  BY <1>1, <1>2, <2>1
  <2>3. i \in 1 .. Len(pages) /\ all[i] = pages[i]  BY <1>1, <2>2
  <2> QED BY <2>1, <2>3, TextIs
<1>4. ASSUME NEW x \in TextOf(pages)  PROVE x \in TextOf(all)
  <2>1. PICK i \in 1 .. Len(pages) : \E k \in 1 .. Len(pages[i]) : ~IsOverlap(pages[i][k]) /\ x = TextPart(i, k, pages[i][k])
    BY <1>4, TextIs
  <2>2. i \in 1 .. Len(all) /\ all[i] = pages[i]  BY <1>1
  <2> QED BY <1>1, <2>1, <2>2, TextIs
<1> QED BY <1>3, <1>4 DEF all

\* A block at the end of the last page stands after all of the text.
LEMMA TextGrows ==
  ASSUME NEW pages \in Seq(Seq(Blocks)), NEW last \in Seq(Blocks), NEW b \in Blocks, ~IsOverlap(b)
  PROVE  LET x == TextPart(Len(pages) + 1, Len(last) + 1, b) IN
         /\ TextOf(Append(pages, Append(last, b))) = TextOf(Append(pages, last)) \cup {x}
         /\ \A y \in TextOf(Append(pages, last)) : StandsBefore(y, x) /\ ~StandsBefore(x, y)
         /\ ~StandsBefore(x, x)
<1> DEFINE x == TextPart(Len(pages) + 1, Len(last) + 1, b)
           n == Len(pages)
           m == Len(last)
           longer == Append(last, b)
           old == Append(pages, last)
           new == Append(pages, longer)
<1>1. n \in Nat /\ m \in Nat  BY LenProperties
<1>2. /\ longer \in Seq(Blocks) /\ Len(longer) = m + 1 /\ longer[m + 1] = b
      /\ \A k \in 1 .. m : longer[k] = last[k]
  BY AppendProperties
<1>3. /\ old \in Seq(Seq(Blocks)) /\ Len(old) = n + 1 /\ old[n + 1] = last /\ \A i \in 1 .. n : old[i] = pages[i]
  BY AppendProperties
<1>4. /\ new \in Seq(Seq(Blocks)) /\ Len(new) = n + 1 /\ new[n + 1] = longer /\ \A i \in 1 .. n : new[i] = pages[i]
  <2> HIDE DEF longer
  <2> QED BY <1>2, AppendProperties
<1>5. x = TextPart(n + 1, m + 1, b)  OBVIOUS
<1> HIDE DEF n, m, longer, old, new, x
<1>6. ASSUME NEW z \in TextOf(new)  PROVE z \in TextOf(old) \cup {x}
  <2>1. PICK i \in 1 .. n + 1 : \E k \in 1 .. Len(new[i]) : ~IsOverlap(new[i][k]) /\ z = TextPart(i, k, new[i][k])
    <3>1. new \in Seq(Seq(Blocks)) /\ Len(new) = n + 1  BY <1>4
    <3>2. \E i \in 1 .. Len(new) : \E k \in 1 .. Len(new[i]) : ~IsOverlap(new[i][k]) /\ z = TextPart(i, k, new[i][k])
      BY <1>6, <3>1, TextIs
    <3> QED BY <3>1, <3>2
  <2>2. PICK k \in 1 .. Len(new[i]) : ~IsOverlap(new[i][k]) /\ z = TextPart(i, k, new[i][k])  BY <2>1
  <2>3. CASE i # n + 1
    <3>1. i \in 1 .. n  BY <1>1, <2>3
    <3>2. new[i] = old[i] /\ i \in 1 .. Len(old)  BY <1>1, <1>3, <1>4, <3>1
    <3> QED BY <1>3, <2>2, <3>2, TextIs
  <2>4. CASE i = n + 1 /\ k # m + 1
    <3>1. k \in 1 .. m  BY <1>1, <1>2, <1>4, <2>4
    <3>2. new[i][k] = old[i][k] /\ k \in 1 .. Len(old[i])  BY <1>2, <1>3, <1>4, <2>4, <3>1 DEF m
    <3>3. i \in 1 .. Len(old)  BY <1>3
    <3> QED BY <1>3, <2>2, <3>2, <3>3, TextIs
  <2>5. CASE i = n + 1 /\ k = m + 1  BY <1>2, <1>4, <1>5, <2>2, <2>5
  <2> QED BY <2>3, <2>4, <2>5
<1>7. ASSUME NEW z \in TextOf(old)  PROVE z \in TextOf(new)
  <2>1. PICK i \in 1 .. n + 1 : \E k \in 1 .. Len(old[i]) : ~IsOverlap(old[i][k]) /\ z = TextPart(i, k, old[i][k])
    <3>1. old \in Seq(Seq(Blocks)) /\ Len(old) = n + 1  BY <1>3
    <3>2. \E i \in 1 .. Len(old) : \E k \in 1 .. Len(old[i]) : ~IsOverlap(old[i][k]) /\ z = TextPart(i, k, old[i][k])
      BY <1>7, <3>1, TextIs
    <3> QED BY <3>1, <3>2
  <2>2. PICK k \in 1 .. Len(old[i]) : ~IsOverlap(old[i][k]) /\ z = TextPart(i, k, old[i][k])  BY <2>1
  <2>3. i \in 1 .. Len(new)  BY <1>4
  <2>4. CASE i # n + 1
    <3>1. i \in 1 .. n  BY <1>1, <2>4
    <3>2. new[i] = old[i]  BY <1>3, <1>4, <3>1
    <3> QED BY <1>4, <2>2, <2>3, <3>2, TextIs
  <2>5. CASE i = n + 1
    <3>1. k \in 1 .. m  BY <1>3, <2>5 DEF m
    <3>2. new[i][k] = old[i][k] /\ k \in 1 .. Len(new[i])  BY <1>1, <1>2, <1>3, <1>4, <2>5, <3>1
    <3> QED BY <1>4, <2>2, <2>3, <3>2, TextIs
  <2> QED BY <2>4, <2>5
<1>8. x \in TextOf(new)
  <2>1. n + 1 \in 1 .. Len(new) /\ m + 1 \in 1 .. Len(new[n + 1]) /\ new[n + 1][m + 1] = b  BY <1>1, <1>2, <1>4
  <2> QED BY <1>4, <1>5, <2>1, TextIs
<1>9. x.page = n + 1 /\ x.place = m + 1  BY <1>5 DEF TextPart
<1>10. ASSUME NEW y \in TextOf(old)  PROVE StandsBefore(y, x) /\ ~StandsBefore(x, y)
  <2>1. y.page \in 1 .. n + 1 /\ y.place \in 1 .. Len(old[y.page]) /\ Len(old[y.page]) \in Nat
    BY <1>3, <1>10, TextTypes
  <2>2. y.page = n + 1 => y.place \in 1 .. m  BY <1>3, <2>1 DEF m
  <2> QED BY <1>1, <1>9, <2>1, <2>2 DEF StandsBefore
<1>11. ~StandsBefore(x, x)  BY <1>1, <1>9 DEF StandsBefore
<1>12. TextOf(new) = TextOf(old) \cup {x}  BY <1>6, <1>7, <1>8
<1> QED BY <1>10, <1>11, <1>12 DEF new, old, longer, x

\* A text that has the blocks up to n, whole, once and in order.
WholeText(text, n) ==
    /\ \A x, y \in text : StandsBefore(x, y) <=> ComesBefore(x, y)
    /\ \A of \in 1 .. n : \E x \in text : x.of = of /\ ~x.more
    /\ \A x \in text :
         /\ x.of \in 1 .. n /\ x.part >= 1
         /\ \A part \in 1 .. x.part : \E y \in text : y.of = x.of /\ y.part = part
         /\ x.more <=> \E y \in text : y.of = x.of /\ y.part = x.part + 1

\* And one that has k of count parts of the next block too.
TextUpTo(text, n, k, count) ==
    /\ \A x, y \in text : StandsBefore(x, y) <=> ComesBefore(x, y)
    /\ \A of \in 1 .. n : \E x \in text : x.of = of /\ ~x.more
    /\ \A x \in text :
         /\ x.part \in Nat /\ x.part >= 1
         /\ x.of \in 1 .. n \/ (x.of = n + 1 /\ x.part \in 1 .. k /\ x.more = (x.part < count))
    /\ \A x \in text : x.of \in 1 .. n =>
         /\ \A part \in 1 .. x.part : \E y \in text : y.of = x.of /\ y.part = part
         /\ x.more <=> \E y \in text : y.of = x.of /\ y.part = x.part + 1
    /\ \A part \in 1 .. k : \E y \in text : y.of = n + 1 /\ y.part = part

LEMMA TextBegins ==
  ASSUME NEW n \in Nat, NEW count \in Nat, NEW text, \A x \in text : x.part \in Nat, WholeText(text, n)
  PROVE  TextUpTo(text, n, 0, count)
BY DEF WholeText, TextUpTo

\* One part more.
LEMMA TextGoesOn ==
  ASSUME NEW n \in Nat, NEW k \in Nat, NEW count \in Nat, NEW text, TextUpTo(text, n, k, count),
         NEW x, x.of = n + 1, x.part = k + 1, x.more = (k + 1 < count),
         \A y \in text : StandsBefore(y, x) /\ ~StandsBefore(x, y), ~StandsBefore(x, x)
  PROVE  TextUpTo(text \cup {x}, n, k + 1, count)
<1> DEFINE longer == text \cup {x}
<1>1. ASSUME NEW y \in text  PROVE ComesBefore(y, x) /\ ~ComesBefore(x, y)
  BY DEF TextUpTo, ComesBefore
<1>2. ~ComesBefore(x, x)  BY DEF ComesBefore
<1>3. \A y, z \in longer : StandsBefore(y, z) <=> ComesBefore(y, z)
  <2>1. \A y, z \in text : StandsBefore(y, z) <=> ComesBefore(y, z)  BY DEF TextUpTo
  <2> QED BY <1>1, <1>2, <2>1
<1>4. \A of \in 1 .. n : \E y \in longer : y.of = of /\ ~y.more  BY DEF TextUpTo
<1>5. ASSUME NEW y \in longer
      PROVE  /\ y.part \in Nat /\ y.part >= 1
             /\ y.of \in 1 .. n \/ (y.of = n + 1 /\ y.part \in 1 .. k + 1 /\ y.more = (y.part < count))
  <2>1. CASE y \in text  BY <2>1 DEF TextUpTo
  <2>2. CASE y = x  BY <2>2
  <2> QED BY <2>1, <2>2
<1>6. ASSUME NEW y \in longer, y.of \in 1 .. n
      PROVE  /\ \A part \in 1 .. y.part : \E z \in longer : z.of = y.of /\ z.part = part
             /\ y.more <=> \E z \in longer : z.of = y.of /\ z.part = y.part + 1
  <2>1. y \in text /\ y.of # x.of  BY <1>6
  <2>2. /\ \A part \in 1 .. y.part : \E z \in text : z.of = y.of /\ z.part = part
        /\ y.more <=> \E z \in text : z.of = y.of /\ z.part = y.part + 1
    BY <1>6, <2>1 DEF TextUpTo
  <2> QED BY <2>1, <2>2
<1>7. ASSUME NEW part \in 1 .. k + 1  PROVE \E y \in longer : y.of = n + 1 /\ y.part = part
  <2>1. CASE part = k + 1  BY <2>1
  <2>2. CASE part # k + 1
    <3>1. part \in 1 .. k  BY <2>2
    <3> QED BY <3>1 DEF TextUpTo
  <2> QED BY <2>1, <2>2
<1> HIDE DEF longer
<1>8. TextUpTo(longer, n, k + 1, count)  BY <1>3, <1>4, <1>5, <1>6, <1>7 DEF TextUpTo
<1> QED BY <1>8 DEF longer

\* With all of its parts the next block is whole.
LEMMA TextIsWhole ==
  ASSUME NEW n \in Nat, NEW count \in Nat \ {0}, NEW text, TextUpTo(text, n, count, count)
  PROVE  WholeText(text, n + 1)
<1>1. ASSUME NEW of \in 1 .. n + 1  PROVE \E x \in text : x.of = of /\ ~x.more
  <2>1. CASE of = n + 1
    <3>1. PICK y \in text : y.of = n + 1 /\ y.part = count
      <4>1. count \in 1 .. count  OBVIOUS
      <4> QED BY <4>1 DEF TextUpTo
    <3>2. n + 1 \notin 1 .. n  OBVIOUS
    <3>3. y.more = (y.part < count)  BY <3>1, <3>2 DEF TextUpTo
    <3>5. ~(y.part < count)  BY <3>1
    <3>4. ~y.more  BY <3>3, <3>5, Zenon
    <3> QED BY <2>1, <3>1, <3>4
  <2>2. CASE of # n + 1
    <3>1. of \in 1 .. n  BY <2>2
    <3> QED BY <3>1 DEF TextUpTo
  <2> QED BY <2>1, <2>2
<1>2. ASSUME NEW x \in text
      PROVE  /\ x.of \in 1 .. n + 1 /\ x.part >= 1
             /\ \A part \in 1 .. x.part : \E y \in text : y.of = x.of /\ y.part = part
             /\ x.more <=> \E y \in text : y.of = x.of /\ y.part = x.part + 1
  <2>1. x.part \in Nat /\ x.part >= 1  BY DEF TextUpTo
  <2>2. CASE x.of \in 1 .. n
    <3>1. x.of \in 1 .. n + 1  BY <2>2
    <3> QED BY <2>1, <2>2, <3>1 DEF TextUpTo
  <2>3. CASE x.of \notin 1 .. n
    <3>1. x.of = n + 1 /\ x.part \in 1 .. count /\ x.more = (x.part < count)  BY <2>3 DEF TextUpTo
    <3>2. ASSUME NEW part \in 1 .. x.part  PROVE \E y \in text : y.of = x.of /\ y.part = part
      <4>1. part \in 1 .. count  BY <3>1, <3>2
      <4>2. \E y \in text : y.of = n + 1 /\ y.part = part  BY <4>1 DEF TextUpTo
      <4> QED BY <3>1, <4>2
    <3>3. ASSUME x.part < count  PROVE \E y \in text : y.of = x.of /\ y.part = x.part + 1
      <4>1. x.part + 1 \in 1 .. count  BY <3>1, <3>3
      <4>2. \E y \in text : y.of = n + 1 /\ y.part = x.part + 1  BY <4>1 DEF TextUpTo
      <4> QED BY <3>1, <4>2
    <3>4. ASSUME NEW y \in text, y.of = x.of, y.part = x.part + 1  PROVE x.part < count
      <4>1. y.part \in 1 .. count  BY <2>3, <3>1, <3>4 DEF TextUpTo
      <4> QED BY <2>1, <3>4, <4>1
    <3>5. x.of \in 1 .. n + 1  BY <3>1
    <3> QED BY <2>1, <3>1, <3>2, <3>3, <3>4, <3>5
  <2> QED BY <2>2, <2>3
<1>3. \A x, y \in text : StandsBefore(x, y) <=> ComesBefore(x, y)  BY DEF TextUpTo
<1> QED BY <1>1, <1>2, <1>3 DEF WholeText

\* Chunks and the one being packed, none of them too long, and their text.
PackStates == [chunks : Seq(Seq(Blocks)), packing : Seq(Blocks)]
Packed(s) ==
    /\ s \in PackStates /\ Chars(s.packing) <= MaxChars
    /\ \A i \in DOMAIN s.chunks : Chars(s.chunks[i]) <= MaxChars
PackText(s) == TextOf(Append(s.chunks, s.packing))

\* A tail is all overlap, and not too long.
LEMMA TailIs ==
  ASSUME NEW body, NEW tail \in TailOverlaps(body)
  PROVE  tail \in Seq(Blocks) /\ Chars(tail) <= MaxChars /\ \A k \in DOMAIN tail : IsOverlap(tail[k])
<1>0. MaxChars \in Nat /\ OverlapChars \in Nat /\ OverlapChars <= MaxChars  BY ChunkingAssumption
<1>1. CASE tail = <<>>
  <2>1. tail \in Seq(Blocks) /\ Len(tail) = 0  BY <1>1, EmptySeq
  <2>2. Chars(tail) = 0  BY <1>1, <2>1, CharsAre
  <2>3. DOMAIN tail = {}  BY <1>1
  <2> QED BY <1>0, <2>1, <2>2, <2>3
<1>2. CASE tail # <<>>
  <2>1. PICK n \in 1 .. OverlapChars : tail = <<Block("overlap", n, 0, 0, FALSE)>>  BY <1>2 DEF TailOverlaps
  <2> DEFINE b == Block("overlap", n, 0, 0, FALSE)
  <2>2. b \in Blocks /\ b.chars = n /\ IsOverlap(b)
    <3>1. n \in Nat /\ 0 \in Nat  BY <1>0
    <3>3. "overlap" \in BlockKinds /\ FALSE \in BOOLEAN  BY DEF BlockKinds
    <3>2. b = [kind |-> "overlap", chars |-> n, of |-> 0, part |-> 0, more |-> FALSE]  BY DEF Block
    <3> HIDE DEF b
    <3> QED BY <3>1, <3>2, <3>3 DEF Blocks, IsOverlap
  <2>3. tail = <<b>>  BY <2>1
  <2> HIDE DEF b
  <2>4. tail \in Seq(Blocks) /\ Len(tail) = 1 /\ tail[1] = b /\ DOMAIN tail = {1}  BY <2>2, <2>3
  <2>5. Chars(tail) = n  BY <2>2, <2>4, CharsAre
  <2> QED BY <1>0, <2>2, <2>4, <2>5
<1> QED BY <1>1, <1>2

\* A flush keeps the text, and what it leaves to pack is all overlap.
LEMMA FlushedIs ==
  ASSUME NEW s, Packed(s), NEW u \in Flushed(s)
  PROVE  Packed(u) /\ PackText(u) = PackText(s) /\ \A k \in DOMAIN u.packing : IsOverlap(u.packing[k])
<1>0. s.chunks \in Seq(Seq(Blocks)) /\ s.packing \in Seq(Blocks) /\ Chars(s.packing) <= MaxChars
      /\ \A i \in DOMAIN s.chunks : Chars(s.chunks[i]) <= MaxChars
  BY DEF Packed, PackStates
<1>1. CASE s.packing = <<>>
  <2>1. u = s  BY <1>1 DEF Flushed
  <2>2. DOMAIN s.packing = {}  BY <1>1
  <2> QED BY <2>1, <2>2
<1>2. CASE s.packing # <<>>
  <2>1. PICK tail \in TailOverlaps(s.packing) : u = [chunks |-> Append(s.chunks, s.packing), packing |-> tail]
    BY <1>2 DEF Flushed
  <2>2. tail \in Seq(Blocks) /\ Chars(tail) <= MaxChars /\ \A k \in DOMAIN tail : IsOverlap(tail[k])  BY TailIs
  <2> DEFINE all == Append(s.chunks, s.packing)
  <2>3. /\ all \in Seq(Seq(Blocks)) /\ Len(all) = Len(s.chunks) + 1 /\ Len(s.chunks) \in Nat
        /\ all[Len(s.chunks) + 1] = s.packing /\ \A i \in 1 .. Len(s.chunks) : all[i] = s.chunks[i]
    BY <1>0, AppendProperties, LenProperties
  <2>4. DOMAIN all = 1 .. Len(all) /\ DOMAIN s.chunks = 1 .. Len(s.chunks)  BY <1>0, <2>3, LenProperties
  <2>5. u.chunks = all /\ u.packing = tail /\ u = [chunks |-> all, packing |-> tail]  BY <2>1
  <2> HIDE DEF all
  <2>6. \A i \in DOMAIN all : Chars(all[i]) <= MaxChars
    <3> SUFFICES ASSUME NEW i \in DOMAIN all  PROVE Chars(all[i]) <= MaxChars  OBVIOUS
    <3>1. CASE i = Len(s.chunks) + 1  BY <1>0, <2>3, <3>1
    <3>2. CASE i # Len(s.chunks) + 1
      <4>1. i \in 1 .. Len(s.chunks)  BY <2>3, <2>4, <3>2
      <4> QED BY <1>0, <2>3, <2>4, <4>1
    <3> QED BY <3>1, <3>2
  <2>7. Packed(u)  BY <2>2, <2>3, <2>5, <2>6 DEF Packed, PackStates
  <2>8. TextOf(Append(all, tail)) = TextOf(all)  BY <2>2, <2>3, OverlapsAreNoText
  <2>9. PackText(u) = PackText(s)  BY <2>5, <2>8 DEF PackText, all
  <2> QED BY <2>2, <2>5, <2>7, <2>9
<1> QED BY <1>1, <1>2

\* An overlap may be dropped.
LEMMA EmptiedIs ==
  ASSUME NEW s, Packed(s), \A k \in DOMAIN s.packing : IsOverlap(s.packing[k])
  PROVE  Packed(Emptied(s)) /\ PackText(Emptied(s)) = PackText(s) /\ Emptied(s).packing = <<>>
<1>1. s.chunks \in Seq(Seq(Blocks)) /\ s.packing \in Seq(Blocks) /\ s = [chunks |-> s.chunks, packing |-> s.packing]
      /\ \A i \in DOMAIN s.chunks : Chars(s.chunks[i]) <= MaxChars
  BY DEF Packed, PackStates
<1>2. Emptied(s) = [chunks |-> s.chunks, packing |-> <<>>]  BY <1>1 DEF Emptied
<1>3. <<>> \in Seq(Blocks) /\ Chars(<<>>) = 0 /\ MaxChars \in Nat  BY EmptySeq, CharsAre, ChunkingAssumption
<1>4. Packed(Emptied(s))  BY <1>1, <1>2, <1>3 DEF Packed, PackStates
<1>5. TextOf(Append(s.chunks, s.packing)) = TextOf(s.chunks)  BY <1>1, OverlapsAreNoText
<1>6. TextOf(Append(s.chunks, <<>>)) = TextOf(s.chunks)
  <2>1. \A k \in DOMAIN <<>> : IsOverlap(<<>>[k])  OBVIOUS
  <2> QED BY <1>1, <1>3, <2>1, OverlapsAreNoText
<1> QED BY <1>2, <1>4, <1>5, <1>6 DEF PackText

\* The chunk that is made room in has room for the block, and the text is kept.
LEMMA RoomIs ==
  ASSUME NEW b \in Blocks, b.chars <= MaxChars,
         NEW s, Packed(s), NEW t \in BeginSection(s, b), NEW u \in MakeRoom(t, b)
  PROVE  Packed(u) /\ PackText(u) = PackText(s) /\ Chars(Append(u.packing, b)) <= MaxChars
<1>1. Packed(t) /\ PackText(t) = PackText(s)
  <2>1. CASE t = s  BY <2>1
  <2>2. CASE t # s
    <3>1. PICK f \in Flushed(s) : t = Emptied(f)  BY <2>2 DEF BeginSection
    <3>2. Packed(f) /\ PackText(f) = PackText(s) /\ \A k \in DOMAIN f.packing : IsOverlap(f.packing[k])  BY FlushedIs
    <3> QED BY <3>1, <3>2, EmptiedIs
  <2> QED BY <2>1, <2>2
<1>2. Chars(Append(<<>>, b)) <= MaxChars
  <2>1. <<>> \in Seq(Blocks) /\ Len(<<>>) = 0  BY EmptySeq
  <2>2. Append(<<>>, b) \in Seq(Blocks) /\ Len(Append(<<>>, b)) = 1 /\ Append(<<>>, b)[1] = b  BY <2>1, AppendProperties
  <2>3. Chars(Append(<<>>, b)) = b.chars  BY <2>2, CharsAre
  <2> QED BY <2>3
<1>3. CASE t.packing = <<>> \/ Chars(Append(t.packing, b)) <= MaxChars
  <2>1. u = t  BY <1>3 DEF MakeRoom
  <2> QED BY <1>1, <1>2, <1>3, <2>1
<1>4. CASE ~(t.packing = <<>> \/ Chars(Append(t.packing, b)) <= MaxChars) /\ \A i \in DOMAIN t.packing : IsOverlap(t.packing[i])
  <2>1. u = Emptied(t)  BY <1>4 DEF MakeRoom
  <2> QED BY <1>1, <1>2, <1>4, <2>1, EmptiedIs
<1>5. CASE ~(t.packing = <<>> \/ Chars(Append(t.packing, b)) <= MaxChars) /\ ~\A i \in DOMAIN t.packing : IsOverlap(t.packing[i])
  <2>1. PICK f \in Flushed(t) : u = IF f.packing # <<>> /\ Chars(Append(f.packing, b)) > MaxChars THEN Emptied(f) ELSE f
    BY <1>5 DEF MakeRoom
  <2>2. Packed(f) /\ PackText(f) = PackText(t) /\ \A k \in DOMAIN f.packing : IsOverlap(f.packing[k])  BY <1>1, FlushedIs
  <2>3. CASE f.packing # <<>> /\ Chars(Append(f.packing, b)) > MaxChars
    <3>1. u = Emptied(f)  BY <2>1, <2>3
    <3> QED BY <1>1, <1>2, <2>2, <3>1, EmptiedIs
  <2>4. CASE ~(f.packing # <<>> /\ Chars(Append(f.packing, b)) > MaxChars)
    <3>1. u = f  BY <2>1, <2>4
    <3>2. CASE f.packing = <<>>  BY <1>1, <1>2, <2>2, <3>1, <3>2
    <3>3. CASE ~(Chars(Append(f.packing, b)) > MaxChars)
      <4>1. f.packing \in Seq(Blocks)  BY <2>2 DEF Packed, PackStates
      <4>2. Append(f.packing, b) \in Seq(Blocks)  BY <4>1, AppendProperties
      <4>3. Chars(Append(f.packing, b)) \in Nat /\ MaxChars \in Nat  BY <4>2, CharsAre, ChunkingAssumption
      <4> QED BY <1>1, <2>2, <3>1, <3>3, <4>3
    <3> QED BY <2>4, <3>2, <3>3
  <2> QED BY <2>3, <2>4
<1> QED BY <1>3, <1>4, <1>5

\* w has the text of s and a block after all of it.
Extends(s, w, b) ==
    \E x : /\ x.of = b.of /\ x.part = b.part /\ x.more = b.more
           /\ PackText(w) = PackText(s) \cup {x}
           /\ \A y \in PackText(s) : StandsBefore(y, x) /\ ~StandsBefore(x, y)
           /\ ~StandsBefore(x, x)

LEMMA AddedIs ==
  ASSUME NEW b \in Blocks, ~IsOverlap(b), NEW u, Packed(u), Chars(Append(u.packing, b)) <= MaxChars,
         NEW w \in Added(u, b)
  PROVE  Packed(w) /\ Extends(u, w, b)
<1> DEFINE next == [u EXCEPT !.packing = Append(@, b)]
           x == TextPart(Len(u.chunks) + 1, Len(u.packing) + 1, b)
<1>1. u.chunks \in Seq(Seq(Blocks)) /\ u.packing \in Seq(Blocks) /\ u = [chunks |-> u.chunks, packing |-> u.packing]
      /\ \A i \in DOMAIN u.chunks : Chars(u.chunks[i]) <= MaxChars
  BY DEF Packed, PackStates
<1>2. next = [chunks |-> u.chunks, packing |-> Append(u.packing, b)]
  <2>1. ASSUME NEW c, NEW p, u = [chunks |-> c, packing |-> p]  PROVE next = [chunks |-> c, packing |-> Append(p, b)]
    BY <2>1
  <2> HIDE DEF next
  <2> QED BY <1>1, <2>1
<1>3. w \in Flushed(next) \/ w = next  BY DEF Added
<1> HIDE DEF next
<1>4. Append(u.packing, b) \in Seq(Blocks)  BY <1>1, AppendProperties
<1>5. Packed(next)  BY <1>1, <1>2, <1>4 DEF Packed, PackStates
<1>6. /\ PackText(next) = PackText(u) \cup {x}
      /\ \A y \in PackText(u) : StandsBefore(y, x) /\ ~StandsBefore(x, y)
      /\ ~StandsBefore(x, x)
  BY <1>1, <1>2, TextGrows DEF PackText
<1>7. x.of = b.of /\ x.part = b.part /\ x.more = b.more  BY DEF TextPart
<1> HIDE DEF x
<1>8. Packed(w) /\ PackText(w) = PackText(next)  BY <1>3, <1>5, FlushedIs
<1> QED BY <1>6, <1>7, <1>8 DEF Extends

\* What packing a block makes of some states.
PackedStates == {s \in PackStates : Packed(s)}

LEMMA PackBlockIs ==
  ASSUME NEW b \in Blocks, ~IsOverlap(b), b.chars <= MaxChars, NEW states \in SUBSET PackedStates
  PROVE  /\ PackBlock(states, b) \in SUBSET PackedStates
         /\ \A w \in PackBlock(states, b) : \E s \in states : Extends(s, w, b)
<1>1. ASSUME NEW w \in PackBlock(states, b)  PROVE w \in PackedStates /\ \E s \in states : Extends(s, w, b)
  <2>1. PICK s \in states : w \in UNION {UNION {Added(u, b) : u \in MakeRoom(t, b)} : t \in BeginSection(s, b)}
    BY <1>1, Zenon DEF PackBlock
  <2>2. PICK t \in BeginSection(s, b) : w \in UNION {Added(u, b) : u \in MakeRoom(t, b)}  BY <2>1, Zenon
  <2>3. PICK u \in MakeRoom(t, b) : w \in Added(u, b)  BY <2>2, Zenon
  <2>4. Packed(s)  BY DEF PackedStates
  <2>5. Packed(u) /\ PackText(u) = PackText(s) /\ Chars(Append(u.packing, b)) <= MaxChars  BY <2>4, RoomIs
  <2>6. Packed(w) /\ Extends(u, w, b)  BY <2>3, <2>5, AddedIs
  <2>7. Extends(s, w, b)  BY <2>5, <2>6 DEF Extends
  <2>8. w \in PackedStates  BY <2>6 DEF PackedStates, Packed
  <2> QED BY <2>7, <2>8
<1> QED BY <1>1

\* The parts of a block, one after the other, end up in the text, after all of it.
LEMMA BlocksArePacked ==
  ASSUME NEW n \in Nat, NEW start, Packed(start), WholeText(PackText(start), n),
         NEW blocks \in Seq(Blocks), Len(blocks) \in Nat \ {0},
         \A i \in 1 .. Len(blocks) : /\ ~IsOverlap(blocks[i]) /\ blocks[i].of = n + 1 /\ blocks[i].part = i
                                     /\ blocks[i].more = (i < Len(blocks)) /\ blocks[i].chars <= MaxChars,
         NEW next \in FoldLeft(PackBlock, {start}, blocks)
  PROVE  Packed(next) /\ WholeText(PackText(next), n + 1)
<1> DEFINE c == Len(blocks)
           S == 1 .. c
           X == SUBSET PackedStates
           base == {start}
           Unfolded(h) == h = [T \in SUBSET S |-> IF T = {} THEN base ELSE
                LET i == Max(T)
                IN PackBlock(h[T \ {i}], blocks[i])]
           iter == CHOOSE h : Unfolded(h)
<1>1. c \in Nat /\ c # 0 /\ DOMAIN blocks = S /\ \A i \in S : blocks[i] \in Blocks
  BY LenProperties, ElementOfSeq
<1>2. c \in Nat \ {0}  BY <1>1
<1>a. \A i \in S : /\ ~IsOverlap(blocks[i]) /\ blocks[i].of = n + 1 /\ blocks[i].part = i
                   /\ blocks[i].more = (i < c) /\ blocks[i].chars <= MaxChars
  OBVIOUS
<1>3. FoldLeft(PackBlock, {start}, blocks) = iter[S]
  <2>1. DOMAIN blocks = 1 .. Len(blocks)  BY <1>1
  <2> QED BY <2>1 DEF FoldLeft, MapThenFoldSet
<1>4. base \in X
  <2>1. start \in PackedStates  BY DEF PackedStates, Packed
  <2> QED BY <2>1
<1>b. \A u \in X : \A i \in S : PackBlock(u, blocks[i]) \in X  BY <1>1, <1>a, PackBlockIs
<1>5. \E h \in [SUBSET S -> X] : Unfolded(h)
  <2> DEFINE g == [i \in S |-> [u \in X |-> PackBlock(u, blocks[i])]]
  <2> HIDE DEF X
  <2>1. g \in [S -> [X -> X]]  BY <1>b
  <2> HIDE DEF g, base
  <2>2. PICK h \in [SUBSET S -> X] : \A T \in SUBSET S : h[T] = IF T = {} THEN base ELSE g[Max(T)][h[T \ {Max(T)}]]
    <3>1. \E h : LeftFolds(h, c, X, base, g)
      <4> HIDE DEF c
      <4> QED BY <1>2, <1>4, <2>1, LeftFoldExists
    <3> QED BY <3>1 DEF LeftFolds
  <2>3. ASSUME NEW T \in SUBSET S, T # {}
        PROVE  h[T] = LET i == Max(T) IN PackBlock(h[T \ {i}], blocks[i])
    <3>1. Max(T) \in S /\ T \ {Max(T)} \in SUBSET S  BY <1>2, <2>3, LastIn
    <3>2. h[T \ {Max(T)}] \in X  BY <3>1
    <3>3. h[T] = g[Max(T)][h[T \ {Max(T)}]]  BY <2>2, <2>3
    <3>4. g[Max(T)][h[T \ {Max(T)}]] = PackBlock(h[T \ {Max(T)}], blocks[Max(T)])  BY <3>1, <3>2 DEF g
    <3> QED BY <3>3, <3>4
  <2>4. Unfolded(h)  BY <2>2, <2>3
  <2> QED BY <2>4
<1>6. Unfolded(iter)
  <2> HIDE DEF Unfolded
  <2> QED BY <1>5, Zenon
<1> HIDE DEF iter
<1>7. ASSUME NEW T \in SUBSET S
      PROVE  /\ T = {} => iter[T] = base
             /\ T # {} => iter[T] = PackBlock(iter[T \ {Max(T)}], blocks[Max(T)])
  BY <1>6
<1> HIDE DEF Unfolded
<1> DEFINE good == [k \in 0 .. c |-> {u \in X : \A s \in u : TextUpTo(PackText(s), n, k, c)}]
<1>8. iter[{}] \in good[0]
  <2>1. {} \in SUBSET S /\ 0 \in 0 .. c
    <3> HIDE DEF c
    <3> QED BY <1>2
  <2>2. iter[{}] = base  BY <1>7, <2>1
  <2>3. \A y \in PackText(start) : y.part \in Nat
    <3>1. Append(start.chunks, start.packing) \in Seq(Seq(Blocks))  BY AppendProperties DEF Packed, PackStates
    <3> QED BY <3>1, TextTypes DEF PackText
  <2>4. TextUpTo(PackText(start), n, 0, c)  BY <1>2, <2>3, TextBegins
  <2> QED BY <1>4, <2>1, <2>2, <2>4
<1> HIDE DEF base
<1>9. ASSUME NEW k \in 0 .. c, k # c, iter[1 .. k] \in good[k]  PROVE iter[1 .. k + 1] \in good[k + 1]
  <2>1. k \in Nat /\ k + 1 \in S /\ k + 1 \in 0 .. c /\ 1 .. k + 1 \in SUBSET S /\ 1 .. k + 1 # {}
    <3> HIDE DEF c
    <3> QED BY <1>2, <1>9, NextOf
  <2>2. Max(1 .. k + 1) = k + 1 /\ (1 .. k + 1) \ {k + 1} = 1 .. k  BY <2>1, LastOfFirst
  <2>3. iter[1 .. k + 1] = PackBlock(iter[1 .. k], blocks[k + 1])
    <3>1. iter[1 .. k + 1] = PackBlock(iter[(1 .. k + 1) \ {Max(1 .. k + 1)}], blocks[Max(1 .. k + 1)])
      <4> HIDE DEF S
      <4> QED BY <1>7, <2>1
    <3> QED BY <2>2, <3>1
  <2>4. iter[1 .. k] \in X /\ \A s \in iter[1 .. k] : TextUpTo(PackText(s), n, k, c)
    <3> HIDE DEF X
    <3> QED BY <1>9, <2>1
  <2> DEFINE b == blocks[k + 1]
  <2>5. b \in Blocks /\ ~IsOverlap(b) /\ b.chars <= MaxChars /\ b.of = n + 1 /\ b.part = k + 1 /\ b.more = (k + 1 < c)
    BY <1>1, <1>a, <2>1
  <2> HIDE DEF b
  <2>6. /\ PackBlock(iter[1 .. k], b) \in X
        /\ \A w \in PackBlock(iter[1 .. k], b) : \E s \in iter[1 .. k] : Extends(s, w, b)
    BY <2>4, <2>5, PackBlockIs
  <2>7. ASSUME NEW w \in PackBlock(iter[1 .. k], b)  PROVE TextUpTo(PackText(w), n, k + 1, c)
    <3>1. PICK s \in iter[1 .. k] : Extends(s, w, b)  BY <2>6
    <3>2. PICK x : /\ x.of = b.of /\ x.part = b.part /\ x.more = b.more
                   /\ PackText(w) = PackText(s) \cup {x}
                   /\ \A y \in PackText(s) : StandsBefore(y, x) /\ ~StandsBefore(x, y)
                   /\ ~StandsBefore(x, x)
      BY <3>1 DEF Extends
    <3>3. TextUpTo(PackText(s), n, k, c)  BY <2>4
    <3>4. x.of = n + 1 /\ x.part = k + 1 /\ x.more = (k + 1 < c)  BY <2>5, <3>2
    <3>5. TextUpTo(PackText(s) \cup {x}, n, k + 1, c)
      <4> HIDE DEF c
      <4> QED BY <1>2, <2>1, <3>2, <3>3, <3>4, TextGoesOn
    <3> QED BY <3>2, <3>5
  <2>8. iter[1 .. k + 1] = PackBlock(iter[1 .. k], b)  BY <2>3 DEF b
  <2> HIDE DEF X
  <2> QED BY <2>1, <2>6, <2>7, <2>8
<1>10. iter[S] \in good[c]
  <2> HIDE DEF good, c
  <2> QED BY <1>2, <1>8, <1>9, FoldedUpTo
<1>11. iter[S] \in X /\ \A s \in iter[S] : TextUpTo(PackText(s), n, c, c)
  <2>1. c \in 0 .. c
    <3> HIDE DEF c
    <3> QED BY <1>2
  <2> HIDE DEF X, c
  <2> QED BY <1>10, <2>1
<1>12. TextUpTo(PackText(next), n, c, c) /\ Packed(next)  BY <1>3, <1>11 DEF PackedStates
<1> QED BY <1>2, <1>12, TextIsWhole

\* The inductive invariant of the chunks.
ChunkState == [chunks |-> chunks, packing |-> packing]
ChunkInv == taken \in Nat /\ Packed(ChunkState) /\ WholeText(PackText(ChunkState), taken)

LEMMA ChunksBegin == ChunkingInit => ChunkInv
<1> SUFFICES ASSUME ChunkingInit  PROVE ChunkInv  OBVIOUS
<1>1. chunks = <<>> /\ packing = <<>> /\ taken = 0 /\ ChunkState.chunks = <<>> /\ ChunkState.packing = <<>>
  BY DEF ChunkingInit, ChunkState
<1>2. <<>> \in Seq(Blocks) /\ <<>> \in Seq(Seq(Blocks)) /\ Chars(<<>>) = 0 /\ MaxChars \in Nat
  BY EmptySeq, CharsAre, ChunkingAssumption
<1>3. Packed(ChunkState)
  <2>1. ChunkState \in PackStates  BY <1>1, <1>2 DEF ChunkState, PackStates
  <2>2. Chars(ChunkState.packing) <= MaxChars /\ DOMAIN ChunkState.chunks = {}  BY <1>1, <1>2
  <2> QED BY <2>1, <2>2 DEF Packed
<1>4. ASSUME NEW x \in PackText(ChunkState)  PROVE FALSE
  <2>1. TextOf(Append(<<>>, <<>>)) = TextOf(<<>>)
    <3>1. \A k \in DOMAIN <<>> : IsOverlap(<<>>[k])  OBVIOUS
    <3> QED BY <1>2, <3>1, OverlapsAreNoText
  <2>2. x \in TextOf(<<>>)  BY <1>1, <1>4, <2>1 DEF PackText
  <2>3. x.page \in 1 .. Len(<<>>)  BY <1>2, <2>2, TextTypes
  <2>4. Len(<<>>) = 0  BY EmptySeq
  <2> QED BY <2>3, <2>4
<1>5. WholeText(PackText(ChunkState), taken)
  <2>1. 1 .. taken = {}  BY <1>1
  <2> QED BY <1>4, <2>1 DEF WholeText
<1> QED BY <1>1, <1>3, <1>5 DEF ChunkInv

LEMMA BlockIsTaken ==
  ASSUME ChunkInv, NEW kind \in {"paragraph", "table", "heading"}, NEW chars \in BlockChars, TakeBlock(kind, chars)
  PROVE  ChunkInv'
<1>1. PICK blocks \in SplitOversized(kind, chars, taken + 1) :
        \E next \in FoldLeft(PackBlock, {ChunkState}, blocks) : chunks' = next.chunks /\ packing' = next.packing
  BY DEF TakeBlock, ChunkState
<1>2. PICK next \in FoldLeft(PackBlock, {ChunkState}, blocks) : chunks' = next.chunks /\ packing' = next.packing
  BY <1>1
<1>3. taken \in Nat /\ taken + 1 \in Nat /\ taken' = taken + 1 /\ Packed(ChunkState) /\ WholeText(PackText(ChunkState), taken)
  BY DEF ChunkInv, TakeBlock
<1>4. kind \in BlockKinds /\ kind # "overlap" /\ chars \in Nat \ {0}
  <2>1. chars \in Nat \ {0}  BY ChunkingAssumption
  <2>2. kind \in BlockKinds /\ kind # "overlap"  BY DEF BlockKinds
  <2> QED BY <2>1, <2>2
<1>5. /\ blocks \in Seq(Blocks) /\ Len(blocks) \in Nat \ {0}
      /\ \A i \in 1 .. Len(blocks) : /\ blocks[i].kind = kind /\ blocks[i].of = taken + 1 /\ blocks[i].part = i
                                      /\ blocks[i].more = (i < Len(blocks)) /\ blocks[i].chars <= MaxChars
  BY <1>3, <1>4, SplitIs
<1>6. \A i \in 1 .. Len(blocks) : ~IsOverlap(blocks[i])  BY <1>4, <1>5 DEF IsOverlap
<1>7. Packed(next) /\ WholeText(PackText(next), taken + 1)  BY <1>3, <1>5, <1>6, BlocksArePacked
<1>8. next = [chunks |-> next.chunks, packing |-> next.packing]  BY <1>7 DEF Packed, PackStates
<1>9. ChunkState' = next  BY <1>2, <1>8 DEF ChunkState
<1>10. Packed(ChunkState') /\ WholeText(PackText(ChunkState'), taken')  BY <1>3, <1>7, <1>9
<1> QED BY <1>3, <1>10 DEF ChunkInv, Packed, PackText, WholeText

LEMMA LastIsFlushed ==
  ASSUME ChunkInv, FlushLast  PROVE ChunkInv'
<1> DEFINE old == ChunkState
           next == ChunkState'
<1>1. taken \in Nat /\ taken' = taken /\ Packed(old) /\ WholeText(PackText(old), taken)  BY DEF ChunkInv, FlushLast
<1>2. old.chunks = chunks /\ old.packing = packing /\ next.chunks = chunks' /\ next.packing = <<>>
      /\ next = [chunks |-> chunks', packing |-> <<>>]
  BY DEF ChunkState, FlushLast
<1>3. chunks \in Seq(Seq(Blocks)) /\ packing \in Seq(Blocks) /\ Chars(packing) <= MaxChars
      /\ \A i \in DOMAIN chunks : Chars(chunks[i]) <= MaxChars
  BY <1>1, <1>2 DEF Packed, PackStates
<1>4. /\ <<>> \in Seq(Blocks) /\ Chars(<<>>) = 0 /\ MaxChars \in Nat /\ \A k \in DOMAIN <<>> : IsOverlap(<<>>[k])
  <2>1. <<>> \in Seq(Blocks) /\ Chars(<<>>) = 0 /\ MaxChars \in Nat  BY EmptySeq, CharsAre, ChunkingAssumption
  <2>2. \A k \in DOMAIN <<>> : IsOverlap(<<>>[k])  OBVIOUS
  <2> QED BY <2>1, <2>2
<1>5. Packed(next) /\ PackText(next) = PackText(old)
  <2>1. CASE packing = <<>>
    <3>1. chunks' = chunks  BY <2>1 DEF FlushLast
    <3>2. next = old  BY <1>2, <2>1, <3>1 DEF ChunkState
    <3> QED BY <1>1, <3>2
  <2>2. CASE packing # <<>>
    <3> DEFINE all == Append(chunks, packing)
    <3>1. chunks' = all  BY <2>2 DEF FlushLast
    <3>2. /\ all \in Seq(Seq(Blocks)) /\ Len(all) = Len(chunks) + 1 /\ Len(chunks) \in Nat
          /\ all[Len(chunks) + 1] = packing /\ \A i \in 1 .. Len(chunks) : all[i] = chunks[i]
      BY <1>3, AppendProperties, LenProperties
    <3>3. DOMAIN all = 1 .. Len(all) /\ DOMAIN chunks = 1 .. Len(chunks)  BY <1>3, <3>2, LenProperties
    <3>4. PackText(old) = TextOf(all)  BY <1>2 DEF PackText
    <3> HIDE DEF all
    <3>5. \A i \in DOMAIN all : Chars(all[i]) <= MaxChars
      <4> SUFFICES ASSUME NEW i \in DOMAIN all  PROVE Chars(all[i]) <= MaxChars  OBVIOUS
      <4>1. CASE i = Len(chunks) + 1  BY <1>3, <3>2, <4>1
      <4>2. CASE i # Len(chunks) + 1
        <5>1. i \in 1 .. Len(chunks)  BY <3>2, <3>3, <4>2
        <5> QED BY <1>3, <3>2, <3>3, <5>1
      <4> QED BY <4>1, <4>2
    <3>6. TextOf(Append(all, <<>>)) = TextOf(all)  BY <1>4, <3>2, OverlapsAreNoText
    <3>7. PackText(next) = TextOf(Append(all, <<>>))  BY <1>2, <3>1 DEF PackText
    <3>8. Packed(next)
      <4> HIDE DEF next
      <4> QED BY <1>2, <1>4, <3>1, <3>2, <3>5 DEF Packed, PackStates
    <3> QED BY <3>4, <3>6, <3>7, <3>8
  <2> QED BY <2>1, <2>2
<1>6. Packed(ChunkState') /\ WholeText(PackText(ChunkState'), taken')  BY <1>1, <1>5
<1> QED BY <1>1, <1>6 DEF ChunkInv, Packed, PackText, WholeText

\* Whatever is split, flushed or dropped, no chunk is longer than max_chars, and
\* the chunks and the one being packed hold every part of every block read, once
\* and in the order of the document (pdf_chunking.build_chunks).
THEOREM ChunksStayWhole == ChunkingSpec => []ChunksKeepText
<1>1. ChunkInv /\ [ChunkingNext]_chunkingvars => ChunkInv'
  <2> SUFFICES ASSUME ChunkInv, [ChunkingNext]_chunkingvars  PROVE ChunkInv'  OBVIOUS
  <2>1. CASE FlushLast  BY <2>1, LastIsFlushed
  <2>2. CASE \E kind \in {"paragraph", "table", "heading"} : \E chars \in BlockChars : TakeBlock(kind, chars)
    BY <2>2, BlockIsTaken
  <2>3. CASE UNCHANGED chunkingvars
    BY <2>3 DEF chunkingvars, ChunkInv, ChunkState, Packed, PackText, WholeText
  <2> QED BY <2>1, <2>2, <2>3 DEF ChunkingNext
<1>2. ChunkInv => ChunksKeepText
  <2> SUFFICES ASSUME ChunkInv  PROVE ChunksKeepText  OBVIOUS
  <2>1. ChunkState.chunks = chunks /\ ChunkState.packing = packing  BY DEF ChunkState
  <2>2. \A i \in DOMAIN chunks : Chars(chunks[i]) <= MaxChars  BY <2>1 DEF ChunkInv, Packed
  <2>3. WholeText(TextOf(Append(chunks, packing)), taken)  BY <2>1 DEF ChunkInv, PackText
  <2> QED BY <2>2, <2>3 DEF ChunksKeepText, WholeText
<1> QED BY <1>1, <1>2, ChunksBegin, PTL DEF ChunkingSpec

=============================================================================
