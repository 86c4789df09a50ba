----------------------------- MODULE Providers -----------------------------
(***************************************************************************)
(* The settings file of the runtime and one call of the model: which       *)
(* provider and key it takes, the request in the provider's form, the       *)
(* stream put together again, and the second call when the stream fails.    *)
(***************************************************************************)
EXTENDS Integers, FiniteSets, Sequences, SequencesExt

CONSTANTS
    ModelProviders, \* a subset of the names the registry has
    KeysInEnv,      \* those whose key is in the environment
    ReplyCalls,     \* bound of the calls in a reply
    ReplyPieces     \* of the pieces in which the arguments of a call come

ASSUME ProviderAssumption ==
    /\ ModelProviders \subseteq {"anthropic", "minimax", "openai", "ark", "glm", "ark_responses"}
    /\ "anthropic" \in ModelProviders /\ KeysInEnv \subseteq ModelProviders
    /\ ReplyCalls \in Nat /\ ReplyPieces \in Nat \ {0}

VARIABLES
    config,  \* config.json: written whole, cut off by the write that is going on, or none yet
    edit,    \* a login, or a request to /api/config
    ask      \* the call of the model

providervars == <<config, edit, ask>>

-----------------------------------------------------------------------------
(* Settings.                                                               *)
Wire(p) == CASE p \in {"anthropic", "minimax"} -> "messages" [] p = "ark_responses" -> "responses" [] OTHER -> "completions"

DefaultConfig == [chosen |-> "anthropic", keys |-> {}]

\* What cannot be read is answered with the default, and not reported.
LoadConfig == IF config.text = "whole" THEN config.has ELSE DefaultConfig
CreatedIfNone == IF config.text = "none" THEN [text |-> "whole", has |-> DefaultConfig] ELSE config

HasKey(has, p) == p \in has.keys \cup KeysInEnv

NoEdit == [at |-> "idle", provider |-> "anthropic", typed |-> FALSE, has |-> DefaultConfig]

\* A login must type a key.  Without one the web page writes back the key it
\* reads, which may be the one of the environment.
Configure(p, typed) ==
    /\ edit.at = "idle" /\ ask.at \in {"idle", "chosen"}
    /\ edit' = [edit EXCEPT !.at = "key", !.provider = p, !.typed = typed \/ HasKey(LoadConfig, p)]
    /\ config' = CreatedIfNone /\ UNCHANGED ask

SetApiKey ==
    /\ edit.at = "key"
    /\ edit' = [edit EXCEPT !.at = "writing key",
                   !.has = [LoadConfig EXCEPT !.keys = IF edit.typed THEN @ \cup {edit.provider} ELSE @ \ {edit.provider}]]
    /\ config' = [CreatedIfNone EXCEPT !.text = "cut off"] /\ UNCHANGED ask

SetDefaultProvider ==
    /\ edit.at = "default"
    /\ edit' = [edit EXCEPT !.at = "writing default", !.has = [LoadConfig EXCEPT !.chosen = edit.provider]]
    /\ config' = [CreatedIfNone EXCEPT !.text = "cut off"] /\ UNCHANGED ask

\* The file is truncated when it is opened and has the text when it is closed.
SaveConfig ==
    /\ edit.at \in {"writing key", "writing default"}
    /\ config' = [text |-> "whole", has |-> edit.has]
    /\ edit' = IF edit.at = "writing key" THEN [edit EXCEPT !.at = "default"] ELSE NoEdit
    /\ UNCHANGED ask

\* The process ends in between; what is in the file stays.
StopEdit == edit.at # "idle" /\ edit' = NoEdit /\ UNCHANGED <<config, ask>>

-----------------------------------------------------------------------------
(* The request, in the form of the provider.                               *)
Turns == {<<"user">>, <<"system", "user", "assistant", "call", "tool">>}

\* Messages for Responses: the system's become the instructions, and a call
\* of the assistant is an item of its own before its result.
Item(role) == CASE role = "call" -> "function_call" [] role = "tool" -> "function_call_output" [] OTHER -> "message"
ResponsesInput(history) ==
    LET said == SelectSeq(history, LAMBDA role : role # "system") IN [i \in DOMAIN said |-> Item(said[i])]
\* A direct answer is asked for with the texts only.
DirectPayload(history) == SelectSeq(history, LAMBDA role : role \notin {"call", "tool"})

Prepared(p, direct, history) ==
    LET messages == IF direct THEN DirectPayload(history) ELSE history IN
    CASE Wire(p) = "responses" -> ResponsesInput(messages)
      [] Wire(p) = "messages" -> SelectSeq(messages, LAMBDA role : role # "system")
      [] OTHER -> messages

NoAsk ==
    [at |-> "idle", provider |-> "anthropic", direct |-> FALSE, request |-> <<>>, requests |-> 0,
     shown |-> 0, text |-> 0, sent |-> [i \in 1 .. ReplyCalls |-> 0], entries |-> [i \in {} |-> 0],
     uses |-> [i \in {} |-> "given"]]

ProviderInit ==
    /\ config = [text |-> "none", has |-> DefaultConfig] /\ edit = NoEdit /\ ask = NoAsk

\* The provider and its key are read one after the other.
ChooseProvider(direct) ==
    /\ ask.at = "idle" /\ config' = CreatedIfNone /\ UNCHANGED edit
    /\ ask' = [NoAsk EXCEPT !.at = "chosen", !.provider = LoadConfig.chosen, !.direct = direct]

RefuseWithoutKey ==
    /\ ask.at = "chosen" /\ ~HasKey(LoadConfig, ask.provider) /\ config' = CreatedIfNone
    /\ ask' = [ask EXCEPT !.at = "failed"] /\ UNCHANGED edit

\* Responses are not streamed but asked for whole; directly, too.
SendRequest(history) ==
    /\ ask.at = "chosen" /\ HasKey(LoadConfig, ask.provider) /\ config' = CreatedIfNone
    /\ ask' = [ask EXCEPT !.at = IF Wire(ask.provider) = "responses" THEN "whole" ELSE "streaming",
                          !.request = Prepared(ask.provider, ask.direct, history), !.requests = @ + 1]
    /\ UNCHANGED edit

-----------------------------------------------------------------------------
(* The stream.                                                             *)
\* A text is at most one piece here; a direct one is shown as it comes.
ReceiveText ==
    /\ ask.at = "streaming" /\ ~ask.direct /\ ask.text = 0 /\ ask' = [ask EXCEPT !.text = 1]
    /\ UNCHANGED <<config, edit>>

ShowText ==
    /\ ask.at = "streaming" /\ ask.direct /\ ask.text = 0
    /\ ask' = [ask EXCEPT !.text = 1, !.shown = @ + 1]
    /\ UNCHANGED <<config, edit>>

NoEntry == [named |-> {}, arguments |-> <<>>]

\* A bug: the place of a call is not asked for.
FirstEntry(i) == 1
Entry(i) == i

\* Pieces of several calls come between each other; the first of a call has
\* its name.
ReceiveCall(i) ==
    /\ ask.at = "streaming" /\ ~ask.direct /\ ask.sent[i] < ReplyPieces
    /\ LET k == Entry(i)
           old == IF k \in DOMAIN ask.entries THEN ask.entries[k] ELSE NoEntry
           new == [named |-> IF ask.sent[i] = 0 THEN old.named \cup {i} ELSE old.named,
                   arguments |-> Append(old.arguments, <<i, ask.sent[i] + 1>>)]
       IN ask' = [ask EXCEPT !.sent[i] = @ + 1, !.entries = [c \in DOMAIN @ \cup {k} |-> IF c = k THEN new ELSE @[c]]]
    /\ UNCHANGED <<config, edit>>

\* Arguments that do not parse, the ones cut off among them, are none.
Parsed(entry) ==
    IF \E i \in 1 .. ReplyCalls : entry.arguments = [k \in 1 .. ReplyPieces |-> <<i, k>>] THEN "given" ELSE "empty"

\* Messages are taken from the last message of the stream, where the calls
\* are whole; when it cannot be had, only the text is left.
ToolUses(whole) ==
    IF Wire(ask.provider) = "completions" THEN [k \in DOMAIN ask.entries |-> Parsed(ask.entries[k])]
    ELSE IF whole THEN [i \in {i \in 1 .. ReplyCalls : ask.sent[i] > 0} |-> "given"]
    ELSE [i \in {} |-> "given"]

\* The end may come before everything that was meant was sent: at the limit of
\* the tokens.  A direct answer without a text is no answer.
EndStream(whole) ==
    /\ ask.at = "streaming" /\ (whole \/ Wire(ask.provider) = "messages")
    /\ ask' = IF ask.direct /\ ask.text = 0 THEN [ask EXCEPT !.at = "chosen", !.direct = FALSE]
              ELSE [ask EXCEPT !.at = "answered", !.uses = IF ask.direct THEN @ ELSE ToolUses(whole)]
    /\ UNCHANGED <<config, edit>>

Dropped(a) == [a EXCEPT !.text = 0, !.sent = NoAsk.sent, !.entries = NoAsk.entries]

\* A direct answer is given up for the loop only if nothing of it was shown.
GiveUpDirect == IF ask.shown > 0 THEN [ask EXCEPT !.at = "failed"] ELSE [ask EXCEPT !.at = "chosen", !.direct = FALSE]

\* In the loop any exception of the stream is passed over and the model is
\* asked again for a whole answer; the tokens of the first are not counted.
BreakStream ==
    /\ ask.at = "streaming" /\ UNCHANGED <<config, edit>>
    /\ ask' = IF ask.direct THEN GiveUpDirect ELSE [Dropped(ask) EXCEPT !.at = "whole", !.requests = @ + 1]

-----------------------------------------------------------------------------
(* The answer in one piece, asked for when there is no stream or it failed. *)
(* Arguments that do not parse are none; those of messages are objects.     *)
AnswerWhole(calls, bad) ==
    /\ ask.at = "whole" /\ calls \subseteq 1 .. ReplyCalls /\ bad \subseteq calls
    /\ ask' = [ask EXCEPT !.at = "answered", !.text = 1, !.shown = IF ask.direct THEN 1 ELSE @,
                          !.uses = IF ask.direct THEN @ ELSE [i \in calls |-> IF i \in bad THEN "empty" ELSE "given"]]
    /\ UNCHANGED <<config, edit>>

AnswerCompletion(calls, bad) == Wire(ask.provider) = "completions" /\ AnswerWhole(calls, bad)
AnswerMessage(calls) == Wire(ask.provider) = "messages" /\ AnswerWhole(calls, {})
AnswerResponse(calls, bad) == Wire(ask.provider) = "responses" /\ AnswerWhole(calls, bad)

FailWhole ==
    /\ ask.at = "whole" /\ UNCHANGED <<config, edit>>
    /\ ask' = IF ask.direct THEN GiveUpDirect ELSE [ask EXCEPT !.at = "failed"]

NextAsk == ask.at \in {"answered", "failed"} /\ ask' = NoAsk /\ UNCHANGED <<config, edit>>

-----------------------------------------------------------------------------
ProviderNext ==
    \/ \E p \in ModelProviders, typed \in BOOLEAN : Configure(p, typed)
    \/ SetApiKey \/ SetDefaultProvider \/ SaveConfig \/ StopEdit
    \/ \E direct \in BOOLEAN : ChooseProvider(direct)
    \/ \E history \in Turns : SendRequest(history)
    \/ RefuseWithoutKey \/ ReceiveText \/ ShowText \/ (\E i \in 1 .. ReplyCalls : ReceiveCall(i)) \/ BreakStream
    \/ \E whole \in BOOLEAN : EndStream(whole)
    \/ \E calls \in SUBSET (1 .. ReplyCalls) :
         AnswerMessage(calls) \/ \E bad \in SUBSET calls : AnswerCompletion(calls, bad) \/ AnswerResponse(calls, bad)
    \/ FailWhole \/ NextAsk

ProviderSpec == ProviderInit /\ [][ProviderNext]_providervars

-----------------------------------------------------------------------------
IsConfig(has) == has.chosen \in ModelProviders /\ has.keys \subseteq ModelProviders

ProviderTypeOK ==
    /\ config.text \in {"none", "cut off", "whole"} /\ IsConfig(config.has)
    /\ edit.at \in {"idle", "key", "writing key", "default", "writing default"} /\ IsConfig(edit.has)
    /\ ask.at \in {"idle", "chosen", "streaming", "whole", "answered", "failed"} /\ ask.provider \in ModelProviders
    /\ \A k \in DOMAIN ask.uses : ask.uses[k] \in {"given", "empty"}

\* Of a stream of completions, whichever way the pieces of its calls came
\* between each other, the answer has each call that was begun, with its own
\* name, and with the arguments of that call when all of them came.
CallsWhole ==
    ask.at = "answered" /\ Wire(ask.provider) = "completions" /\ ask.entries # NoAsk.entries =>
        /\ DOMAIN ask.uses = {i \in 1 .. ReplyCalls : ask.sent[i] > 0}
        /\ \A i \in DOMAIN ask.uses :
             ask.entries[i].named = {i} /\ (ask.uses[i] = "given" <=> ask.sent[i] = ReplyPieces)

=============================================================================
