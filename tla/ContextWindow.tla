--------------------------- MODULE ContextWindow ---------------------------
(***************************************************************************)
(* The messages of a conversation, what is sent of them when the window of *)
(* the model is full (budget.py), and what is left of them after /compact  *)
(* (compact_service).  A message is its kind, the uses it makes or answers, *)
(* a size in units of tokens, and the turns whose content it carries.      *)
(***************************************************************************)
EXTENDS Integers, FiniteSets, Sequences, SequencesExt, TLC, Ordering

CONSTANTS
    MaxHistory,     \* Conversation.max_history
    KeepResults,    \* keep_recent of _externalize_old_tool_results
    Summarized,     \* the messages the summary is made from, 20 in the code
    SoftLimit, HardLimit, Overhead, \* tokens; the overhead is prompt and schemas
    MessageSizes,   \* tokens of a message
    MaxMessages     \* bound of the messages ever added

ASSUME WindowAssumption ==
    /\ MaxHistory \in Nat \ {0} /\ KeepResults \in Nat \ {0} /\ Summarized \in Nat \ {0}
    /\ SoftLimit \in Nat /\ HardLimit \in Nat /\ SoftLimit <= HardLimit /\ Overhead \in Nat
    /\ MessageSizes \subseteq Nat \ {0} /\ MaxMessages \in Nat

VARIABLES
    history,    \* Conversation.messages
    prompt,     \* the request copy that was prepared last, and its verdict
    added       \* messages added so far

windowvars == <<history, prompt, added>>

WindowMessage(kind, uses, size, about) == [kind |-> kind, uses |-> uses, size |-> size, about |-> about]
WindowMessages ==
    [kind : {"user", "text", "uses", "result", "boundary", "summary", "fallback"}, uses : Seq(Nat), size : Nat,
     about : SUBSET Nat]
BoundaryMark == WindowMessage("boundary", <<>>, 1, {})
NoPrompt == [messages |-> <<>>, compacted |-> FALSE, overHard |-> FALSE]

WindowInit == history = <<>> /\ prompt = NoPrompt /\ added = 0

-----------------------------------------------------------------------------
(* Messages and their pairs.                                               *)
Api(messages) == Selected(messages, {i \in DOMAIN messages : messages[i].kind # "boundary"})
IsUses(m) == m.kind = "uses"
IsResult(m) == m.kind = "result"
About(messages) == UNION {messages[i].about : i \in DOMAIN messages}
Total(messages) == FoldLeft(LAMBDA n, m : n + m.size, 0, messages)

\* The position of the uses that the message at i follows, if any.
RunStart(messages, i) ==
    LET before == {k \in 1 .. i - 1 : \A l \in k + 1 .. i - 1 : IsResult(messages[l])}
    IN {k \in before : IsUses(messages[k])}

AnswersOf(messages, i) == {k \in i + 1 .. Len(messages) : RunStart(messages, k) = {i} /\ IsResult(messages[k])}
OpenUses(messages) ==
    IF \E i \in DOMAIN messages : IsUses(messages[i]) /\ \A k \in i + 1 .. Len(messages) : IsResult(messages[k])
    THEN LET i == CHOOSE k \in DOMAIN messages : IsUses(messages[k]) /\ \A l \in k + 1 .. Len(messages) : IsResult(messages[l])
             uses == messages[i].uses
         IN Selected(uses, {n \in DOMAIN uses : \A k \in i + 1 .. Len(messages) : messages[k].uses # <<uses[n]>>})
    ELSE <<>>

\* Every result answers a use that is made where its run of results starts.
NoOrphan(messages) ==
    \A i \in DOMAIN messages :
        IsResult(messages[i]) =>
            \E k \in RunStart(messages, i) : Contains(messages[k].uses, Head(messages[i].uses))

-----------------------------------------------------------------------------
(* The budget of a request.                                                *)
ResultPositions(messages) == {i \in DOMAIN messages : IsResult(messages[i])}
Externalize(messages) ==
    LET at == ResultPositions(messages)
        old == {i \in at : Cardinality({k \in at : k > i}) >= KeepResults}
    IN [i \in DOMAIN messages |-> IF i \in old THEN [messages[i] EXCEPT !.size = 1, !.about = {}] ELSE messages[i]]

\* A bug: every message is a unit of its own.
SingleUnits(messages) == [i \in DOMAIN messages |-> <<messages[i]>>]

\* A message with uses takes the results that follow it into its unit.
AtomicUnits(messages) ==
    LET starts == InOrder({i \in DOMAIN messages : ~(IsResult(messages[i]) /\ RunStart(messages, i) # {})})
        last(n) == IF n = Len(starts) THEN Len(messages) ELSE starts[n + 1] - 1
    IN [n \in DOMAIN starts |-> SubSeq(messages, starts[n], last(n))]

SnapshotOf(units) == WindowMessage("user", <<>>, 1, {})

\* The first and the last unit stay, and before the last the newest that fit.
KeptUnits(units) ==
    LET n == Len(units)
        base == Overhead + Total(units[1]) + Total(units[n])
        middle == [i \in 1 .. n - 2 |-> n - i]
        keep == FoldLeft(LAMBDA acc, i :
                            LET cost == Total(units[i]) IN
                            IF acc.sum + cost <= SoftLimit THEN [sum |-> acc.sum + cost, keep |-> acc.keep \cup {i}] ELSE acc,
                         [sum |-> base, keep |-> {1, n}], middle)
    IN keep.keep

PrepareWithBudget(messages) ==
    LET externalized == Externalize(messages)
        units == AtomicUnits(externalized)
        keep == KeptUnits(units)
        next == CHOOSE i \in keep \ {1} : \A k \in keep \ {1} : i <= k
        part(i) == IF i \notin keep THEN <<>>
                   ELSE IF i = next /\ keep # DOMAIN units THEN <<SnapshotOf(units)>> \o units[i]
                   ELSE units[i]
        kept == FlattenSeq([i \in DOMAIN units |-> part(i)])
    IN IF Overhead + Total(messages) <= SoftLimit
       THEN [messages |-> messages, compacted |-> FALSE, overHard |-> FALSE]
       ELSE IF Overhead + Total(externalized) <= HardLimit
       THEN [messages |-> externalized, compacted |-> TRUE, overHard |-> FALSE]
       ELSE IF Len(units) <= 3
       THEN [messages |-> externalized, compacted |-> TRUE, overHard |-> TRUE]
       ELSE [messages |-> kept, compacted |-> TRUE, overHard |-> Overhead + Total(kept) > HardLimit]

-----------------------------------------------------------------------------
(* Adding messages; a full history loses its oldest message.               *)
AddTo(messages, m) == Append(IF Len(messages) >= MaxHistory THEN Tail(messages) ELSE messages, m)

AddMessage(kind, uses, size) ==
    /\ added < MaxMessages
    /\ added' = added + 1
    /\ history' = AddTo(history, WindowMessage(kind, uses, size, {added + 1}))
    /\ prompt' = NoPrompt

AskUser(size) == OpenUses(history) = <<>> /\ AddMessage("user", <<>>, size)
\* A run that was cancelled between two uses leaves the later ones open.
AskAnyway == OpenUses(history) # <<>> /\ AddMessage("user", <<>>, 1)
AddText == OpenUses(history) = <<>> /\ history # <<>> /\ AddMessage("text", <<>>, 1)
AddUses(n) ==
    OpenUses(history) = <<>> /\ history # <<>> /\ AddMessage("uses", [i \in 1 .. n |-> 10 * added + i], 1)
AddResult(size) == OpenUses(history) # <<>> /\ AddMessage("result", <<Head(OpenUses(history))>>, size)

PrepareRequest ==
    /\ Api(history) # <<>>
    /\ prompt = NoPrompt
    /\ prompt' = PrepareWithBudget(Api(history))
    /\ UNCHANGED <<history, added>>

-----------------------------------------------------------------------------
(* /compact and /clear.                                                    *)
Boundaries == {i \in DOMAIN history : history[i].kind = "boundary"}
LastBoundary == IF Boundaries = {} THEN 0 ELSE CHOOSE i \in Boundaries : \A k \in Boundaries : k <= i
AfterBoundary == SubSeq(history, LastBoundary + 1, Len(history))

\* The summary is asked of the last messages in the form of the API, from
\* which images are stripped; no message of that form has the "type" by which
\* microcompact finds the uses, so no result is cleared.  When both calls fail
\* the fallback has the last text of the user and of the model.
SummaryInput == LET api == Api(history) IN SubSeq(api, IF Len(api) > Summarized THEN Len(api) - Summarized + 1 ELSE 1, Len(api))
FallbackSummary ==
    UNION {AfterBoundary[i].about : i \in {k \in DOMAIN AfterBoundary :
        /\ AfterBoundary[k].kind \in {"user", "text"}
        /\ \A l \in k + 1 .. Len(AfterBoundary) : AfterBoundary[l].kind # AfterBoundary[k].kind}}

Compacted(kind, about) ==
    SubSeq(history, 1, LastBoundary) \o <<BoundaryMark, WindowMessage(kind, <<>>, 1, about)>>

\* A bug: the summary is made from the messages after the one at the boundary.
CompactWithoutSummary(failed) ==
    /\ Len(AfterBoundary) >= 2
    /\ history' = IF failed THEN Compacted("fallback", FallbackSummary)
                  ELSE Compacted("summary", About(Tail(SummaryInput)))
    /\ prompt' = NoPrompt /\ UNCHANGED added

Compact(failed) ==
    /\ Len(AfterBoundary) >= 2
    /\ history' = IF failed THEN Compacted("fallback", FallbackSummary)
                  ELSE Compacted("summary", About(SummaryInput))
    /\ prompt' = NoPrompt /\ UNCHANGED added

ClearHistory == history # <<>> /\ history' = <<>> /\ prompt' = NoPrompt /\ UNCHANGED added

-----------------------------------------------------------------------------
WindowNext ==
    \/ \E size \in MessageSizes : AskUser(size) \/ AddResult(size)
    \/ AskAnyway \/ AddText \/ PrepareRequest \/ ClearHistory
    \/ \E n \in 1 .. 2 : AddUses(n)
    \/ \E failed \in BOOLEAN : Compact(failed)

WindowSpec == WindowInit /\ [][WindowNext]_windowvars

-----------------------------------------------------------------------------
WindowTypeOK ==
    /\ history \in Seq(WindowMessages) /\ Len(history) <= MaxHistory + 1 /\ added \in 0 .. MaxMessages
    /\ prompt.compacted \in BOOLEAN /\ prompt.overHard \in BOOLEAN

\* What compaction sends of a conversation has its results with their uses:
\* a request has an orphan only if the conversation itself has one, and what
\* is too long for the window is sent only with the verdict that it is.
RequestKeepsPairs ==
    [][(prompt' \notin {prompt, NoPrompt} /\ NoOrphan(Api(history))) =>
           /\ NoOrphan(prompt'.messages)
           /\ \A i \in DOMAIN prompt'.messages : IsUses(prompt'.messages[i]) =>
                  \E k \in DOMAIN Api(history) :
                      /\ Api(history)[k].uses = prompt'.messages[i].uses
                      /\ Cardinality(AnswersOf(Api(history), k)) = Cardinality(AnswersOf(prompt'.messages, i))
           /\ Overhead + Total(prompt'.messages) > HardLimit => prompt'.overHard]_windowvars

\* A summary that the model wrote forgets nothing that the conversation still
\* had, earlier summaries included, unless there was more than it is made from.
CompactionForgetsNothing ==
    [][/\ history' # <<>>
       /\ Last(history').kind = "summary" /\ Len(Api(history)) <= Summarized
       => About(history') = About(history)]_history
=============================================================================
