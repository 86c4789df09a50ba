-------------------------------- MODULE Repl --------------------------------
(***************************************************************************)
(* The interactive terminal: which handler takes a line, what the commands *)
(* do to the conversation, a turn of the chat and what may break it off,   *)
(* the questions and permissions asked in it, and saving and loading.      *)
(***************************************************************************)
EXTENDS Naturals, FiniteSets

CONSTANTS
    UserSkills,   \* names of skills of the user that a model may invoke
    ProjectSkills, \* names of skills of the project; these it may not
    ReplNames,    \* the names that are typed after "/"
    ManyMessages  \* bound: so many messages and more are one case

ASSUME ReplAssumption == ManyMessages \in Nat \ {0, 1}

VARIABLES
    terminal, \* modes, spinner, and what the program is doing
    talks,    \* messages since the last boundary in the conversation made at
              \* the start and in the one loaded from a file (or NoTalk)
    savedtalk     \* the same in the file of the session, NoTalk if there is none

replvars == <<terminal, talks, savedtalk>>

-----------------------------------------------------------------------------
(* Commands.                                                               *)
\* What the command system knows, with the aliases.
LocalCommands == {"?", "help", "clear", "reset", "new", "exit", "quit", "q", "skills", "cost", "context", "compact"}
OriginalBuiltIns ==
    {"help", "exit", "quit", "q", "clear", "save", "load", "multiline", "stream", "render-last",
     "tools", "tool", "skills", "init", "dashboard"}
BuiltInCommands == OriginalBuiltIns \cup LocalCommands

SpecialCommands ==
    {"exit", "quit", "q", "help", "tools", "tool", "save", "load", "multiline", "stream", "render-last",
     "skill", "context", "compact"}

\* Of the names that the built-in handler compares by their beginning only.
BeginsWith == [tool |-> {"tool", "tools", "toolbox"}, load |-> {"load", "loader"}]

\* A word nobody knows is a search, even if it names a skill; the command
\* system is asked before the handlers built in, and the skills come last.
Handler(name, words) ==
    IF name \notin BuiltInCommands /\ ~words THEN "palette"
    ELSE IF name = "init" THEN "init"
    ELSE IF name \in LocalCommands \ SpecialCommands
      THEN IF name \in {"clear", "reset", "new"} THEN "clear" ELSE "told"
    ELSE IF name \in {"exit", "quit", "q"} /\ ~words THEN "exit"
    ELSE IF name \in {"help", "tools", "render-last", "context", "stream"} /\ ~words THEN "told"
    ELSE IF name \in BeginsWith.tool THEN IF words THEN "tool" ELSE "usage"
    ELSE IF name \in {"save", "multiline", "compact"} /\ ~words THEN name
    ELSE IF name \in {"stream", "dashboard"} THEN name
    ELSE IF name \in BeginsWith.load THEN IF words THEN "load" ELSE "usage"
    ELSE IF name \in BuiltInCommands THEN "unknown"
    ELSE "skill"

-----------------------------------------------------------------------------
NoTalk == ManyMessages + 1

\* Dashboard on, everything else off.
ReplInit ==
    /\ terminal = [at |-> "prompt", line |-> FALSE, back |-> "loop", multiline |-> FALSE, stream |-> FALSE,
                   dashboard |-> TRUE, spinner |-> "none", docs |-> FALSE, uses |-> "first"]
    /\ talks = [first |-> 0, loaded |-> NoTalk] /\ savedtalk = NoTalk

Longer(n) == IF n < ManyMessages THEN n + 1 ELSE n

AtPrompt == terminal.at = "prompt" /\ UNCHANGED savedtalk

\* An answer leaves the mode of many lines only if a line asked for it.
ToPrompt == [terminal EXCEPT !.at = "prompt", !.multiline = @ /\ ~terminal.line, !.line = FALSE]

\* The message stays in the conversation in use, whatever becomes of the turn.
Chat(at, line) ==
    /\ terminal' = [terminal EXCEPT !.at = at, !.back = "loop", !.line = line,
                       !.spinner = IF terminal.dashboard THEN @ ELSE "running"]
    /\ talks' = [talks EXCEPT ![terminal.uses] = Longer(@)]

EnterNothing == AtPrompt /\ terminal' = [terminal EXCEPT !.multiline = FALSE] /\ UNCHANGED talks

\* A short text without a word of the work on files may be answered directly.
EnterText(ofWork) ==
    AtPrompt /\ Chat(IF terminal.stream /\ ~ofWork /\ ~terminal.dashboard THEN "direct" ELSE "loop", TRUE)

\* /clear and its names empty the conversation the commands were given at the
\* start, whichever is in use.
Clear(name, words) ==
    AtPrompt /\ Handler(name, words) = "clear" /\ talks' = [talks EXCEPT !.first = 0] /\ UNCHANGED terminal

\* So does /compact, which has the model make a summary, or makes one itself
\* if that fails; one message is not worth it.
CompactTalk(name, words) ==
    /\ AtPrompt /\ Handler(name, words) = "compact" /\ UNCHANGED terminal
    /\ talks' = [talks EXCEPT !.first = IF @ < 2 THEN @ ELSE 1]

StartInit(name, words) == AtPrompt /\ Handler(name, words) = "init" /\ Chat("loop", FALSE)

\* The directories are read again, and of two skills of a name the last one
\* read counts: the one of the project.
Invocable(name) == name \in UserSkills \ ProjectSkills

\* The text of a skill has paths, so it is never answered directly.
RunSkill(name, words) ==
    /\ AtPrompt /\ Handler(name, words) = "skill"
    /\ IF Invocable(name) THEN Chat("loop", FALSE) ELSE UNCHANGED <<terminal, talks>>

RunTool(name, words) ==
    /\ AtPrompt /\ Handler(name, words) = "tool" /\ UNCHANGED talks
    /\ terminal' = [terminal EXCEPT !.at = "tool", !.back = "tool"]

\* A mode given by name, or the other one; an argument it does not know is
\* answered with the usage.  The dashboard asks for no argument.
SwitchMode(name, words, on) ==
    /\ AtPrompt /\ UNCHANGED talks
    /\ CASE Handler(name, words) = "multiline" -> terminal' = [terminal EXCEPT !.multiline = ~@]
         [] Handler(name, words) = "stream" -> terminal' = [terminal EXCEPT !.stream = on]
         [] Handler(name, words) = "dashboard" -> terminal' = [terminal EXCEPT !.dashboard = ~@]
         [] OTHER -> FALSE

\* The palette, the lists, the usages and the refusals change nothing.
Tell(name, words) ==
    AtPrompt /\ Handler(name, words) \in {"palette", "told", "usage", "unknown"} /\ UNCHANGED <<terminal, talks>>

SaveTalk(name, words) ==
    /\ terminal.at = "prompt" /\ Handler(name, words) = "save"
    /\ savedtalk' = talks[terminal.uses] /\ UNCHANGED <<terminal, talks>>

\* The session in use is replaced, the one the commands have is not.
LoadTalk(name, words) ==
    /\ AtPrompt /\ Handler(name, words) = "load" /\ savedtalk # NoTalk
    /\ talks' = [talks EXCEPT !.loaded = savedtalk] /\ terminal' = [terminal EXCEPT !.uses = "loaded"]

Exit(name, words) ==
    AtPrompt /\ Handler(name, words) = "exit" /\ terminal' = [terminal EXCEPT !.at = "exited"] /\ UNCHANGED talks

EndOfInput == AtPrompt /\ terminal' = [terminal EXCEPT !.at = "exited"] /\ UNCHANGED talks

-----------------------------------------------------------------------------
(* A turn.                                                                 *)
\* The loop may say more than one message.
AnswerLoop(calls) ==
    /\ terminal.at = "loop" /\ UNCHANGED savedtalk
    /\ talks' = [talks EXCEPT ![terminal.uses] = IF calls THEN ManyMessages ELSE Longer(@)]
    /\ terminal' = [ToPrompt EXCEPT !.spinner = IF terminal.dashboard THEN @ ELSE "none"]

\* A direct answer is not counted in the cost; without a text the loop answers.
AnswerDirect(text) ==
    /\ terminal.at = "direct" /\ UNCHANGED savedtalk
    /\ IF text
         THEN /\ talks' = [talks EXCEPT ![terminal.uses] = Longer(@)]
              /\ terminal' = [ToPrompt EXCEPT !.spinner = "none"]
         ELSE terminal' = [terminal EXCEPT !.at = "loop"] /\ UNCHANGED talks

\* The spinner of a turn that fails stops, and is kept.  The dashboard has none
\* of its own, nor has /tool; there what was kept is as it was.
Stopped == IF terminal.dashboard \/ terminal.back = "tool" \/ terminal.spinner = "none" THEN terminal.spinner ELSE "stopped"

BreakTurn(unauthorized) ==
    /\ terminal.at \in {"direct", "loop"} /\ UNCHANGED <<talks, savedtalk>>
    /\ terminal' = IF unauthorized THEN [terminal EXCEPT !.at = "login", !.spinner = Stopped]
                   ELSE [ToPrompt EXCEPT !.spinner = Stopped]

\* With a new key the terminal has a new provider; the session still says the
\* old one.
Relogin == terminal.at = "login" /\ terminal' = ToPrompt /\ UNCHANGED <<talks, savedtalk>>

\* Interrupted the turn ends where it is, and with it the mode of many lines.
Interrupt ==
    /\ terminal.at # "exited" /\ UNCHANGED <<talks, savedtalk>>
    /\ terminal' = [terminal EXCEPT !.at = "prompt", !.line = FALSE, !.multiline = FALSE,
                       !.spinner = IF terminal.at = "prompt" THEN @ ELSE Stopped]

EndTool == terminal.at = "tool" /\ terminal' = [terminal EXCEPT !.at = "prompt"] /\ UNCHANGED <<talks, savedtalk>>

-----------------------------------------------------------------------------
(* Questions of a tool, in a turn or in /tool.                             *)
Asking(what) ==
    /\ terminal.at \in {"loop", "tool"}
    /\ terminal' = [terminal EXCEPT !.at = what, !.spinner = IF @ = "none" THEN @ ELSE "stopped"]
    /\ UNCHANGED <<talks, savedtalk>>

RequestDocs == ~terminal.docs /\ Asking("permission")
AskQuestion == Asking("question")

\* The menu: 1 enables documents for the session, 2, yes and nothing allow
\* this one; 3, no and whatever is no choice deny it.  The spinner stays stopped.
AnswerPermission(choice) ==
    /\ terminal.at = "permission" /\ UNCHANGED <<talks, savedtalk>>
    /\ terminal' = [terminal EXCEPT !.at = terminal.back, !.docs = @ \/ choice = "enable"]

\* The spinner runs again if there is one, were it that of a turn that failed.
AnswerQuestion ==
    /\ terminal.at = "question" /\ UNCHANGED <<talks, savedtalk>>
    /\ terminal' = [terminal EXCEPT !.at = terminal.back, !.spinner = IF @ = "none" THEN @ ELSE "running"]

-----------------------------------------------------------------------------
ReplCommand(name, words) ==
    \/ Clear(name, words) \/ CompactTalk(name, words) \/ StartInit(name, words) \/ RunTool(name, words)
    \/ Tell(name, words) \/ SaveTalk(name, words) \/ LoadTalk(name, words) \/ Exit(name, words)
    \/ RunSkill(name, words) \/ \E on \in BOOLEAN : SwitchMode(name, words, on)

ReplNext ==
    \/ \E name \in ReplNames, words \in BOOLEAN : ReplCommand(name, words)
    \/ EnterNothing \/ EndOfInput \/ Relogin \/ Interrupt \/ EndTool \/ RequestDocs \/ AskQuestion \/ AnswerQuestion
    \/ \E b \in BOOLEAN : EnterText(b) \/ AnswerLoop(b) \/ AnswerDirect(b) \/ BreakTurn(b)
    \/ \E choice \in {"enable", "yes", "no"} : AnswerPermission(choice)

ReplSpec == ReplInit /\ [][ReplNext]_replvars

ReplTypeOK ==
    /\ terminal.at \in {"prompt", "direct", "loop", "tool", "permission", "question", "login", "exited"}
    /\ terminal.back \in {"loop", "tool"} /\ terminal.spinner \in {"none", "running", "stopped"}
    /\ terminal.uses \in {"first", "loaded"} /\ (terminal.uses = "loaded" => talks.loaded # NoTalk)
    /\ {talks.first, talks.loaded, savedtalk} \subseteq 0 .. NoTalk
=============================================================================
