----------------------------- MODULE JobRecords -----------------------------
(***************************************************************************)
(* The tables of the jobs as several processes open, create and fill them  *)
(* (agent_job_persistence.py).  Every action on rows is one transaction of *)
(* mysql_connection; a table or a column is committed as it is made.       *)
(***************************************************************************)
EXTENDS Naturals, Sequences, SequencesExt

CONSTANTS
    Stores,      \* processes that open the tables
    Records,     \* ids of jobs
    JobKeys,     \* idempotency keys of one user
    Metadata,    \* what an attempt may end with: citations, claims, audit
    MaxFences,   \* bound on the attempts of a job
    Staged,   \* the jobs that get to a worker
    MaxOpens     \* bound on the starts

RowIds(rows) == {r.id : r \in rows}
Numbered(rows) == \A r, q \in rows : r.id = q.id => r = q

\* What a claim rests on is there, unless the claim was found to cite what is not.
Cites(c, evidence) == c.status # "invalid_citation" => c.cites \subseteq RowIds(evidence)

\* A citation has a number and contents; _extract_claims has compared the
\* claims of an answer with the citations of that answer.
ASSUME RecordsAssumption ==
    /\ MaxFences \in Nat /\ MaxOpens \in Nat /\ Staged \subseteq Records
    /\ \A o \in Metadata :
         /\ Numbered(o.citations) /\ Numbered(o.claims) /\ \A c \in o.claims : Cites(c, o.citations)
         /\ o.audit \subseteq {"call", "nameless", "context_compacted"}

VARIABLES
    schema,      \* the tables, columns and indexes there are; where each start is
    records,     \* the rows of agent_chat_jobs
    metadata,    \* evidence, claims, audit and context rows of each job; whether
                 \* the row of the job took the last save of them (a history)
    stores       \* process -> the create_job it is in, the tokens it knows, the
                 \* finished attempt it has yet to save

recordvars == <<schema, records, metadata, stores>>

NoJobKey == "NULL"
NoSnapshot == [id |-> "none"]
NoOutcome == [citations |-> {}, claims |-> {}, audit |-> {}]

-----------------------------------------------------------------------------
(* ensure_schema: in this order, tables if they do not exist, columns and  *)
(* the index if the table that was found has none.  Two columns stand for  *)
(* the twelve.                                                             *)
Columns == {"fencing_token", "idempotency_key"}
UniqueKey == "uniq_agent_job_idempotency"
SchemaSteps == <<"agent_chat_jobs", "idempotency_key", "fencing_token", UniqueKey,
             "agent_chat_events", "execution metadata", "agent_job_outbox">>
Tables == ToSet(SchemaSteps) \ (Columns \cup {UniqueKey})
Created(table) == IF table = "agent_chat_jobs" THEN {table, UniqueKey} \cup Columns ELSE {table}

SchemaStep(p) == SchemaSteps[schema.at[p]]
Starting(p) == schema.at[p] \in DOMAIN SchemaSteps
Serving(p) == schema.at[p] > Len(SchemaSteps)
NewStore == [at |-> "idle", key |-> NoJobKey, given |-> "none",
          tokens |-> [j \in Staged |-> 0], snapshot |-> NoSnapshot]

\* A start is over at once if the connection breaks; what it made stays.
Fails(p) == schema' = [schema EXCEPT !.at[p] = 0, !.missing[p] = FALSE]

\* The database may have the table of an earlier release.
FindOldTable ==
    /\ schema.present = {} /\ schema.opens = 0
    /\ schema' = [schema EXCEPT !.present = {"agent_chat_jobs"}]
    /\ UNCHANGED <<records, metadata, stores>>

OpenStore(p) ==
    /\ schema.at[p] = 0 /\ schema.opens < MaxOpens
    /\ schema' = [schema EXCEPT !.at[p] = 1, !.opens = @ + 1]
    /\ UNCHANGED <<records, metadata, stores>>

CreateTable(p) ==
    /\ Starting(p) /\ SchemaStep(p) \in Tables
    /\ \/ schema' = [schema EXCEPT !.at[p] = @ + 1,
                        !.present = IF SchemaStep(p) \in @ THEN @ ELSE @ \cup Created(SchemaStep(p))]
       \/ Fails(p)
    /\ UNCHANGED <<records, metadata, stores>>

\* As if one start could leave the index to the other.
EnsureColumnNotIndex(p) ==
    /\ Starting(p) /\ SchemaStep(p) \notin Tables /\ ~ schema.missing[p]
    /\ \/ schema' = IF SchemaStep(p) \in schema.present \cup {UniqueKey} THEN [schema EXCEPT !.at[p] = @ + 1]
                                                             ELSE [schema EXCEPT !.missing[p] = TRUE]
       \/ Fails(p)
    /\ UNCHANGED <<records, metadata, stores>>

\* information_schema is asked first ...
EnsureColumn(p) ==
    /\ Starting(p) /\ SchemaStep(p) \notin Tables /\ ~ schema.missing[p]
    /\ \/ schema' = IF SchemaStep(p) \in schema.present THEN [schema EXCEPT !.at[p] = @ + 1]
                                                ELSE [schema EXCEPT !.missing[p] = TRUE]
       \/ Fails(p)
    /\ UNCHANGED <<records, metadata, stores>>

\* ... and then the table is altered.  If another process has done so in
\* between, the column is a duplicate and this process does not start.
AlterTable(p) ==
    /\ Starting(p) /\ schema.missing[p]
    /\ \/ /\ SchemaStep(p) \notin schema.present
          /\ schema' = [schema EXCEPT !.present = @ \cup {SchemaStep(p)}, !.at[p] = @ + 1, !.missing[p] = FALSE]
       \/ Fails(p)
    /\ UNCHANGED <<records, metadata, stores>>

-----------------------------------------------------------------------------
(* create_job: an insertion, and a reading of the row that has the key.    *)
RowsWith(key) == {j \in DOMAIN records : records[j].key = key}
Refused(key) == UniqueKey \in schema.present /\ key # NoJobKey /\ RowsWith(key) # {}
Put(j, row) == records' = [x \in DOMAIN records \cup {j} |-> IF x = j THEN row ELSE records[x]]

\* The caller has the job or an error; the process may take the next request.
Settled(s) == [s EXCEPT !.at = "idle", !.key = NoJobKey, !.given = "none"]

\* A failure is a duplicate key, or a broken connection before or after the
\* commit; without a key it goes to the caller.
CreateJob(p, j, key) ==
    LET asked  == [stores[p] EXCEPT !.key = key]
        failed == IF key = NoJobKey THEN Settled(asked) ELSE [asked EXCEPT !.at = "existing"]
        kept   == [asked EXCEPT !.given = j, !.at = IF key = NoJobKey THEN "answered" ELSE "reread"]
    IN /\ Serving(p) /\ stores[p].at = "idle" /\ j \notin DOMAIN records
       /\ \/ /\ ~ Refused(key)
             /\ Put(j, [key |-> key, fence |-> 0, of |-> 0, outcome |-> NoOutcome])
             /\ \E s \in {kept, failed} : stores' = [stores EXCEPT ![p] = s]
          \/ UNCHANGED records /\ stores' = [stores EXCEPT ![p] = failed]
       /\ UNCHANGED <<schema, metadata>>

\* load_by_idempotency, LIMIT 1: after an insertion, or after a failure.  If
\* this reading fails too, the caller gets an error though a row may be there.
LoadByIdempotency(p) ==
    LET s == stores[p] IN
    /\ s.at \in {"reread", "existing"}
    /\ \/ \E j \in RowsWith(s.key) : stores' = [stores EXCEPT ![p].at = "answered", ![p].given = j]
       \/ stores' = [stores EXCEPT ![p] = Settled(s)]
    /\ UNCHANGED <<schema, records, metadata>>

HandOut(p) ==
    /\ stores[p].at = "answered"
    /\ stores' = [stores EXCEPT ![p] = Settled(@)]
    /\ UNCHANGED <<schema, records, metadata>>

-----------------------------------------------------------------------------
(* An attempt: staged by a process that has read the row, and saved by it  *)
(* when it gets to it.                                                     *)
LoadJob(p, j) ==
    /\ Serving(p) /\ j \in DOMAIN records
    /\ stores' = [stores EXCEPT ![p].tokens[j] = records[j].fence]
    /\ UNCHANGED <<schema, records, metadata>>

\* Refused if the row has gone further; accepted if another process has
\* staged the same token.
StageDispatch(p, j) ==
    LET fence == stores[p].tokens[j] + 1 IN
    /\ Serving(p) /\ j \in DOMAIN records /\ fence <= MaxFences
    /\ records[j].fence <= fence
    /\ Put(j, [records[j] EXCEPT !.fence = fence])
    /\ stores' = [stores EXCEPT ![p].tokens[j] = fence]
    /\ UNCHANGED <<schema, metadata>>

\* The persistence loop takes a copy of the finished job.
TakeSnapshot(p, j, outcome) ==
    /\ Serving(p) /\ stores[p].tokens[j] > 0 /\ stores[p].snapshot = NoSnapshot
    /\ stores' = [stores EXCEPT ![p].snapshot = [id |-> j, fence |-> stores[p].tokens[j], outcome |-> outcome]]
    /\ UNCHANGED <<schema, records, metadata>>

Replaced(old, new) == new \cup {r \in old : r.id \notin RowIds(new)}

\* As if a number that is there kept its contents (INSERT IGNORE).
SaveMetadataIgnoring(old, outcome, taken) ==
    [evidence |-> Replaced(outcome.citations, old.evidence), claims |-> Replaced(old.claims, outcome.claims),
     audit |-> outcome.audit \cap {"call"}, contexts |-> outcome.audit \cap {"context_compacted"},
     taken |-> taken]

\* Evidence and claims of an earlier attempt are overwritten under their
\* numbers, contents and all, and stay under numbers this one has not; audit
\* and context rows are all replaced.
SaveMetadata(old, outcome, taken) ==
    [evidence |-> Replaced(old.evidence, outcome.citations), claims |-> Replaced(old.claims, outcome.claims),
     audit |-> outcome.audit \cap {"call"}, contexts |-> outcome.audit \cap {"context_compacted"},
     taken |-> taken]

\* save_job; the row is there, created before the attempt was staged.  Only
\* the row asks for the token.
SaveJob(p) ==
    LET s == stores[p].snapshot
        taken == s.fence >= records[s.id].fence
    IN /\ Serving(p) /\ s # NoSnapshot
       /\ Put(s.id, IF taken THEN [records[s.id] EXCEPT !.fence = s.fence, !.of = s.fence, !.outcome = s.outcome]
                    ELSE records[s.id])
       /\ metadata' = [metadata EXCEPT ![s.id] = SaveMetadata(@, s.outcome, taken)]
       /\ stores' = [stores EXCEPT ![p].snapshot = NoSnapshot]
       /\ UNCHANGED schema

\* A save that fails is rolled back whole and not repeated.
LoseSave(p) ==
    /\ Serving(p) /\ stores[p].snapshot # NoSnapshot
    /\ stores' = [stores EXCEPT ![p].snapshot = NoSnapshot]
    /\ UNCHANGED <<schema, records, metadata>>

StopStore(p) ==
    /\ Serving(p)
    /\ Fails(p) /\ stores' = [stores EXCEPT ![p] = NewStore]
    /\ UNCHANGED <<records, metadata>>

-----------------------------------------------------------------------------
RecordsInit ==
    /\ schema = [present |-> {}, at |-> [p \in Stores |-> 0], missing |-> [p \in Stores |-> FALSE], opens |-> 0]
    /\ records = [j \in {} |-> 0]
    /\ metadata = [j \in Staged |-> [evidence |-> {}, claims |-> {}, audit |-> {}, contexts |-> {},
                                   taken |-> FALSE]]
    /\ stores = [p \in Stores |-> NewStore]

RecordsNext ==
    \/ FindOldTable
    \/ \E p \in Stores :
         \/ OpenStore(p) \/ CreateTable(p) \/ EnsureColumn(p) \/ AlterTable(p) \/ StopStore(p)
         \/ \E j \in Records, key \in JobKeys \cup {NoJobKey} : CreateJob(p, j, key)
         \/ LoadByIdempotency(p) \/ HandOut(p)
         \/ \E j \in Staged : LoadJob(p, j) \/ StageDispatch(p, j)
         \/ \E j \in Staged, outcome \in Metadata : TakeSnapshot(p, j, outcome)
         \/ SaveJob(p) \/ LoseSave(p)

RecordsSpec == RecordsInit /\ [][RecordsNext]_recordvars

-----------------------------------------------------------------------------
RecordsTypeOK ==
    /\ schema.present \subseteq ToSet(SchemaSteps) /\ schema.at \in [Stores -> 0 .. Len(SchemaSteps) + 1]
    /\ DOMAIN records \subseteq Records
    /\ \A j \in DOMAIN records :
         records[j] \in [key : JobKeys \cup {NoJobKey}, fence : 0 .. MaxFences, of : 0 .. MaxFences,
                        outcome : Metadata \cup {NoOutcome}]
    /\ \A j \in Staged :
         /\ Numbered(metadata[j].evidence) /\ Numbered(metadata[j].claims) /\ metadata[j].taken \in BOOLEAN
         /\ metadata[j].audit \cup metadata[j].contexts \subseteq {"call", "context_compacted"}

\* However processes start, upgrade the tables and fail meanwhile: a key has
\* one row, and whoever repeats the request is given the id of that row.
OneJobPerKey ==
    /\ \A j, k \in DOMAIN records : records[j].key = records[k].key /\ records[j].key # NoJobKey => j = k
    /\ \A p \in Stores : stores[p].at = "answered" =>
         stores[p].given \in DOMAIN records /\ records[stores[p].given].key = stores[p].key

\* The claims of an answer are in the table as it made them, and what they
\* cite has there the contents they were compared with.
CitedRows(evidence, c) == {e \in evidence : e.id \in c.cites}
TablesAgree(outcome, m) ==
    /\ {c \in m.claims : c.id \in RowIds(outcome.claims)} = outcome.claims
    /\ \A c \in outcome.claims : c.status # "invalid_citation" =>
         CitedRows(m.evidence, c) = CitedRows(outcome.citations, c)

\* Attempts are saved late, in any order, or not at all, over each other's
\* rows.  If the row of the job took the last save, the tables say of its
\* outcome what that says.  A late attempt the row refuses writes the tables
\* all the same: then, and for claims of other attempts at any time, there is
\* only some evidence under the numbers they cite, and not always theirs.
ClaimsHaveEvidence ==
    \A j \in Staged :
      /\ \A c \in metadata[j].claims : Cites(c, metadata[j].evidence)
      /\ metadata[j].taken => TablesAgree(records[j].outcome, metadata[j])
=============================================================================
