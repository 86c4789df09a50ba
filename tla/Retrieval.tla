----------------------------- MODULE Retrieval -----------------------------
(***************************************************************************)
(* RagService: the rebuild of the two stores from the corpus on disk, which *)
(* holds the service's lock, and searches and fetches, which do not.  A    *)
(* chunk is a document, the version it was read at and its ordinal; that   *)
(* is what the hash of its identifier tells apart.                         *)
(***************************************************************************)
EXTENDS Integers, FiniteSets, Sequences, SequencesExt, TLC

CONSTANTS
    RagDocs,            \* documents of the manifests
    Revised,            \* those whose text may change
    ChunkOrdinals,      \* ordinals of the chunks of a document
    Rebuilders,         \* requests that may rebuild
    DenseTopK, SparseTopK, RerankTopN,  \* 30, 30 and 10 in the code
    SearchTopK,         \* top_k of a search
    MaxRevisions        \* bound of the versions of a document

ASSUME RetrievalAssumption ==
    /\ DenseTopK \in Nat \ {0} /\ SparseTopK \in Nat \ {0} /\ RerankTopN \in Nat \ {0}
    /\ SearchTopK \subseteq Int /\ ChunkOrdinals \subseteq Nat /\ MaxRevisions \in Nat

VARIABLES
    corpus,     \* document -> its version on disk, 0 while it has no text
    rebuilds,   \* request -> the step of its rebuild and the corpus it read
    ragLock,    \* holders of RagService._lock
    indexThere, \* the OpenSearch index exists
    keywords,   \* its chunks
    vectors,    \* chunks of the Milvus collection
    signature,  \* _index_signature: the corpus it was computed from
    lastRebuild,    \* what the last rebuild that touched a store came to
    inquiry,    \* a search and what it found
    opened      \* what the last fetch returned

retrievalvars == <<corpus, rebuilds, ragLock, indexThere, keywords, vectors, signature, lastRebuild, inquiry, opened>>
ragstores == <<indexThere, keywords, vectors>>

NoCorpus == [d \in RagDocs |-> 0]
IdleRebuild == [at |-> "idle", from |-> NoCorpus]
NoInquiry == [at |-> "idle", doc |-> {}, dense |-> <<>>, sparse |-> <<>>, fused |-> <<>>, selected |-> {}]

RetrievalInit ==
    /\ corpus = [d \in RagDocs |-> IF d \in Revised THEN 0 ELSE 1] /\ rebuilds = [r \in Rebuilders |-> IdleRebuild] /\ ragLock = {}
    /\ indexThere = FALSE /\ keywords = {} /\ vectors = {} /\ signature = NoCorpus
    /\ lastRebuild = [ended |-> "never", from |-> NoCorpus]
    /\ inquiry = NoInquiry /\ opened = {}

\* The corpus scripts and the publication of a document work on the files.
PublishText(d) ==
    /\ d \in Revised /\ corpus[d] < MaxRevisions /\ corpus' = [corpus EXCEPT ![d] = @ + 1]
    /\ UNCHANGED <<rebuilds, ragLock, indexThere, keywords, vectors, signature, lastRebuild, inquiry, opened>>

-----------------------------------------------------------------------------
(* Rebuild.                                                                *)
\* A document whose text cannot be found is passed over.
Loaded(from) == {d \in RagDocs : from[d] > 0}
NodesOf(from) == {[doc |-> d, revision |-> from[d], ordinal |-> o] : d \in Loaded(from), o \in ChunkOrdinals}

MoveRebuild(r, step, from) ==
    rebuilds' = [rebuilds EXCEPT ![r] = [at |-> step, from |-> from]]

\* A bug: a rebuild that is under way does not keep another from starting.
StartRebuildUnlocked(r) ==
    /\ rebuilds[r] = IdleRebuild
    /\ ragLock' = ragLock \cup {r} /\ MoveRebuild(r, "dropping", corpus)
    /\ UNCHANGED <<corpus, indexThere, keywords, vectors, signature, lastRebuild, inquiry, opened>>

\* The documents are read under the lock; without any there is nothing to do.
StartRebuild(r) ==
    /\ rebuilds[r] = IdleRebuild /\ ragLock = {} /\ NodesOf(corpus) # {}
    /\ ragLock' = ragLock \cup {r} /\ MoveRebuild(r, "dropping", corpus)
    /\ UNCHANGED <<corpus, indexThere, keywords, vectors, signature, lastRebuild, inquiry, opened>>

DropKeywords(r) ==
    /\ rebuilds[r].at = "dropping" /\ MoveRebuild(r, "creating", rebuilds[r].from)
    /\ indexThere' = FALSE /\ keywords' = {}
    /\ UNCHANGED <<corpus, ragLock, vectors, signature, lastRebuild, inquiry, opened>>

\* Creating an index that is there is an error, as any failed request is.
CreateKeywords(r) ==
    /\ rebuilds[r].at = "creating" /\ ~indexThere /\ MoveRebuild(r, "filling", rebuilds[r].from)
    /\ indexThere' = TRUE /\ UNCHANGED <<corpus, ragLock, keywords, vectors, signature, lastRebuild, inquiry, opened>>

FillKeywords(r) ==
    /\ rebuilds[r].at = "filling" /\ MoveRebuild(r, "overwriting", rebuilds[r].from)
    /\ indexThere' = TRUE /\ keywords' = keywords \cup NodesOf(rebuilds[r].from)
    /\ UNCHANGED <<corpus, ragLock, vectors, signature, lastRebuild, inquiry, opened>>

OverwriteVectors(r) ==
    /\ rebuilds[r].at = "overwriting" /\ MoveRebuild(r, "embedding", rebuilds[r].from)
    /\ vectors' = {}
    /\ UNCHANGED <<corpus, ragLock, indexThere, keywords, signature, lastRebuild, inquiry, opened>>

EmbedVectors(r) ==
    /\ rebuilds[r].at = "embedding" /\ MoveRebuild(r, "signing", rebuilds[r].from)
    /\ vectors' = vectors \cup NodesOf(rebuilds[r].from)
    /\ UNCHANGED <<corpus, ragLock, indexThere, keywords, signature, lastRebuild, inquiry, opened>>

\* The signature is that of the files as they are now.
SignIndex(r) ==
    /\ rebuilds[r].at = "signing" /\ MoveRebuild(r, "idle", NoCorpus)
    /\ signature' = corpus /\ ragLock' = ragLock \ {r}
    /\ lastRebuild' = [ended |-> "signed", from |-> rebuilds[r].from]
    /\ UNCHANGED <<corpus, indexThere, keywords, vectors, inquiry, opened>>

\* A request that fails part of the way leaves what it has written.
FailRebuild(r) ==
    LET step == rebuilds[r].at IN
    /\ step # "idle" /\ MoveRebuild(r, "idle", NoCorpus) /\ ragLock' = ragLock \ {r}
    /\ \/ step = "filling" /\ \E some \in SUBSET NodesOf(rebuilds[r].from) : keywords' = keywords \cup some
       \/ step # "filling" /\ UNCHANGED keywords
    /\ \/ step = "embedding" /\ \E some \in SUBSET NodesOf(rebuilds[r].from) : vectors' = vectors \cup some
       \/ step # "embedding" /\ UNCHANGED vectors
    /\ lastRebuild' = IF step = "dropping" THEN lastRebuild ELSE [ended |-> "failed", from |-> NoCorpus]
    /\ UNCHANGED <<corpus, indexThere, signature, inquiry, opened>>

\* The stores outlive the process; the lock and the signature do not.
RestartRag ==
    /\ rebuilds' = [r \in Rebuilders |-> IdleRebuild] /\ ragLock' = {} /\ signature' = NoCorpus
    /\ lastRebuild' = IF \E r \in Rebuilders : rebuilds[r].at \notin {"idle", "dropping"}
                      THEN [ended |-> "failed", from |-> NoCorpus]
                      ELSE lastRebuild
    /\ inquiry' = NoInquiry /\ opened' = {}
    /\ UNCHANGED <<corpus, indexThere, keywords, vectors>>

-----------------------------------------------------------------------------
(* Search: one request to each store, and the fusion of what they return.  *)
RRF_K == 60

RankIn(hits, c) == IF Contains(hits, c) THEN {CHOOSE i \in DOMAIN hits : hits[i] = c} ELSE {}

\* The sum of 1 / (RRF_K + rank), as a fraction.
RrfScore(c, dense, sparse) ==
    LET shares == [h \in {dense, sparse} |-> {RRF_K + i : i \in RankIn(h, c)}]
        a == UNION {shares[h] : h \in {dense}}
        b == UNION {shares[h] : h \in {sparse}}
        one(s) == CHOOSE x \in s : TRUE
    IN IF a = {} THEN [num |-> 1, den |-> one(b)]
       ELSE IF b = {} THEN [num |-> 1, den |-> one(a)]
       ELSE [num |-> one(a) + one(b), den |-> one(a) * one(b)]

\* By score; of equals the one that was met first, the dense hits first.
Fuse(dense, sparse) ==
    LET met == dense \o SelectSeq(sparse, LAMBDA c : ~Contains(dense, c))
        position == [c \in ToSet(met) |-> CHOOSE i \in DOMAIN met : met[i] = c]
        score == [c \in ToSet(met) |-> RrfScore(c, dense, sparse)]
        before(c, d) ==
            LET left == score[c].num * score[d].den
                right == score[d].num * score[c].den
            IN left > right \/ (left = right /\ position[c] < position[d])
    IN SortSeq(met, before)

Rankings(chunks, n) ==
    UNION {{s \in [1 .. m -> chunks] : \A i, k \in 1 .. m : s[i] = s[k] => i = k} :
             m \in {IF Cardinality(chunks) < n THEN Cardinality(chunks) ELSE n}}
OfDocs(hits, doc) == SelectSeq(hits, LAMBDA c : doc = {} \/ c.doc \in doc)
FirstOf(hits, n) == SubSeq(hits, 1, IF Len(hits) < n THEN Len(hits) ELSE n)

\* The filter is applied to twice as many as are asked of Milvus.
DenseSearch(doc) ==
    /\ inquiry.at = "idle"
    /\ \E found \in Rankings(vectors, 2 * DenseTopK) :
         inquiry' = [NoInquiry EXCEPT !.at = "dense", !.doc = doc, !.dense = FirstOf(OfDocs(found, doc), DenseTopK)]
    /\ UNCHANGED <<corpus, rebuilds, ragLock, ragstores, signature, lastRebuild, opened>>

\* BM25 returns those that match the words of the query.
SparseSearch(topK) ==
    /\ inquiry.at = "dense" /\ indexThere
    /\ \E matching \in SUBSET {c \in keywords : inquiry.doc = {} \/ c.doc \in inquiry.doc} :
       \E sparse \in Rankings(matching, SparseTopK) :
         LET fused == Fuse(inquiry.dense, sparse)
             most == IF topK < 1 THEN 1 ELSE IF topK > 20 THEN 20 ELSE topK
         IN \E reranked \in Rankings(ToSet(FirstOf(fused, RerankTopN)), RerankTopN) :
              inquiry' = [inquiry EXCEPT !.at = "done", !.sparse = sparse, !.fused = fused,
                                         !.selected = ToSet(FirstOf(reranked, most))]
    /\ UNCHANGED <<corpus, rebuilds, ragLock, ragstores, signature, lastRebuild, opened>>

\* While the index is being made again a search is an error.
SearchFails ==
    /\ inquiry.at = "dense" /\ ~indexThere /\ inquiry' = NoInquiry
    /\ UNCHANGED <<corpus, rebuilds, ragLock, ragstores, signature, lastRebuild, opened>>

TakeAnswer ==
    /\ inquiry.at = "done" /\ inquiry' = NoInquiry /\ opened' = {}
    /\ UNCHANGED <<corpus, rebuilds, ragLock, ragstores, signature, lastRebuild>>

Neighbours(c) == {n \in keywords : n.doc = c.doc /\ n.ordinal \in {c.ordinal - 1, c.ordinal + 1}}

\* A chunk that is found again brings its neighbours as they are now.
FetchChunk ==
    /\ inquiry.at = "done"
    /\ \E c \in inquiry.selected :
         opened' = IF c \in keywords
                   THEN {c} \cup Neighbours(c) ELSE {}
    /\ UNCHANGED <<corpus, rebuilds, ragLock, ragstores, signature, lastRebuild, inquiry>>

-----------------------------------------------------------------------------
RetrievalNext ==
    \/ \E d \in RagDocs : PublishText(d)
    \/ \E r \in Rebuilders :
         \/ StartRebuild(r) \/ DropKeywords(r) \/ CreateKeywords(r) \/ FillKeywords(r)
         \/ OverwriteVectors(r) \/ EmbedVectors(r) \/ SignIndex(r) \/ FailRebuild(r)
    \/ RestartRag
    \/ \E doc \in {{}} \cup {{d} : d \in RagDocs} : DenseSearch(doc)
    \/ \E topK \in SearchTopK : SparseSearch(topK)
    \/ SearchFails \/ TakeAnswer \/ FetchChunk

RetrievalSpec == RetrievalInit /\ [][RetrievalNext]_retrievalvars

-----------------------------------------------------------------------------
RagChunks == [doc : RagDocs, revision : 1 .. MaxRevisions, ordinal : ChunkOrdinals]
RebuildSteps == {"idle", "dropping", "creating", "filling", "overwriting", "embedding", "signing"}
Corpora == [RagDocs -> 0 .. MaxRevisions]

RetrievalTypeOK ==
    /\ corpus \in Corpora /\ signature \in Corpora /\ ragLock \subseteq Rebuilders
    /\ rebuilds \in [Rebuilders -> [at : RebuildSteps, from : Corpora]]
    /\ indexThere \in BOOLEAN /\ keywords \subseteq RagChunks
    /\ vectors \subseteq RagChunks /\ opened \subseteq RagChunks
    /\ lastRebuild \in [ended : {"never", "signed", "failed"}, from : Corpora]
    /\ inquiry.at \in {"idle", "dense", "done"} /\ inquiry.selected \subseteq RagChunks

\* When no rebuild is under way and the last one that touched a store signed
\* the index, both stores hold exactly the chunks of the documents it read,
\* whatever was published, searched, failed or restarted before and since.
StoresAgree ==
    (lastRebuild.ended = "signed" /\ \A r \in Rebuilders : rebuilds[r].at \in {"idle", "dropping"})
        => keywords = NodesOf(lastRebuild.from) /\ vectors = NodesOf(lastRebuild.from)

=============================================================================
