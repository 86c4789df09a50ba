------------------------------ MODULE Evidence ------------------------------
(***************************************************************************)
(* The evidence of a run (agent_loop.py): what a tool's result offers as   *)
(* evidence, how it is numbered, and how an answer is held against it.     *)
(*                                                                         *)
(* An answer is the set of its claims.  A claim has the citation ids it    *)
(* quotes, its numbers and a flag for its wording: near if enough of it    *)
(* occurs in the evidence.                                                 *)
(***************************************************************************)
EXTENDS Integers, Sequences, FiniteSets, SequencesExt

\* What a tool hands over as evidence goes first.  Then its own documents: a
\* knowledge result is named by its chunk, a page by its address; a table is
\* named by the tool that returned it.
Items(rows, kind) == [i \in DOMAIN rows |-> [key |-> rows[i].id, kind |-> kind, numbers |-> rows[i].numbers]]
Table(rows, name, kind) ==
    IF rows = <<>> THEN <<>>
    ELSE <<[key |-> name, kind |-> kind, numbers |-> UNION {rows[i].numbers : i \in DOMAIN rows}]>>
Candidates(family, name, explicit, rows) ==
    explicit \o CASE family = "knowledge" -> Items(rows, "knowledge")
                  [] family = "sql"       -> Table(rows, name, "sql")
                  [] family = "websearch" -> Items(rows, "web_search")
                  [] family = "webfetch"  -> Items(rows, "web_fetch")
                  [] OTHER                -> Table(rows, name, "structured_data")

\* register_evidence numbers the candidates whose key is new.
Register(citations, found) ==
    FoldLeft(LAMBDA cs, c : IF \E i \in DOMAIN cs : cs[i].key = c.key THEN cs ELSE Append(cs, c),
             citations, found)
NewCitations(old, new) == {[id |-> i, kind |-> new[i].kind] : i \in Len(old) + 1 .. Len(new)}

OfKind(citations, kind) == {i \in DOMAIN citations : citations[i].kind = kind}
Quoted(answer) == UNION {c.ids : c \in answer}
Numbers(answer) == UNION {c.numbers : c \in answer}

\* An answer is rewritten unless it quotes evidence, only evidence, and, where
\* there are tables and the route asks for facts, one of the tables and some
\* of its numbers.
NeedsRepair(answer, citations, structured) ==
    LET sql == OfKind(citations, "sql")
        numeric == \E i \in sql : citations[i].numbers # {}
    IN /\ citations # <<>> /\ answer # {}
       /\ \/ Quoted(answer) = {}
          \/ ~ Quoted(answer) \subseteq DOMAIN citations
          \/ structured /\ sql # {} /\ Quoted(answer) \cap sql = {}
          \/ structured /\ numeric /\ (Numbers(answer) = {} \/ \E c \in answer : c.hedged)

\* The rewritten answer is taken only if its citations are good.
Repaired(answer, rewritten, citations, structured) ==
    IF /\ NeedsRepair(answer, citations, structured)
       /\ rewritten # {} /\ Quoted(rewritten) # {} /\ Quoted(rewritten) \subseteq DOMAIN citations
    THEN rewritten ELSE answer

ClaimStatus(c, citations) ==
    LET known == UNION {citations[i].numbers : i \in c.ids} IN
    CASE ~ c.ids \subseteq DOMAIN citations -> "invalid_citation"
      [] c.ids = {}                         -> "unsupported"
      [] ~ c.numbers \subseteq known        -> "numeric_mismatch"
      [] c.near                             -> "supported"
      [] OTHER                              -> "weak_support"

EvidenceStatus(answer, citations) ==
    IF answer = {} THEN "not_applicable"
    ELSE IF \A c \in answer : ClaimStatus(c, citations) = "supported" THEN "supported"
    ELSE "needs_review"

\* The notice for the reader at the end of an answer that may be wrong.
NeedsNotice(answer, citations) ==
    \E c \in answer : ClaimStatus(c, citations) \in {"unsupported", "invalid_citation", "numeric_mismatch"}
=============================================================================
