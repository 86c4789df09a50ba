----------------------------- MODULE FileTools -----------------------------
(***************************************************************************)
(* The tools that read and write the files of a workspace: Read, Edit,     *)
(* Write, Bash (a cd), EnterWorktree, ExitWorktree, EnterPlanMode and      *)
(* ExitPlanMode, with the fingerprints by which a ToolContext knows the    *)
(* files that were read.  The system calls of a tool are steps of their    *)
(* own: an editor of the user may write between any two of them.  A        *)
(* fingerprint is of the whole file, however few of its lines a Read has   *)
(* shown: what the lines are, and which of them were shown, is left out.   *)
(***************************************************************************)
EXTENDS Integers, FiniteSets, Sequences, TLC

CONSTANTS
    Paths,      \* files of the workspace
    Docs,       \* those of them that end in .md
    Dirs,       \* directories: "root", those below it and those outside
    Outside,    \* directories outside the allowed roots
    FileSizes,  \* sizes of a file, in bytes
    Consent,    \* what the permission handler can answer; {} without a handler
    MaxSeconds, \* bound of the clock
    MaxVersions \* bound of the writes

ASSUME FileAssumption ==
    /\ Docs \subseteq Paths /\ Outside \subseteq Dirs /\ "root" \in Dirs \ Outside
    /\ Consent \subseteq {"allow", "deny", "enable"}
    /\ FileSizes \subseteq Nat /\ MaxSeconds \in Nat /\ MaxVersions \in Nat

VARIABLES
    disk,       \* path -> the file: whether it exists, its version, size and mtime
    marks,      \* path -> the fingerprint of read_file_fingerprints, or NoMark
    known,      \* path -> the file as the session last read from or wrote it (history)
    meddled,    \* paths written by somebody else while a tool had them (history)
    handling,   \* the tool that runs
    second,     \* the clock, whole seconds
    allowDocs,  \* permission_context.allow_docs
    cwd, worktree, planMode

filevars == <<disk, marks, known, meddled, handling, second, allowDocs, cwd, worktree, planMode>>
session == <<allowDocs, cwd, worktree, planMode>>

NoMark == <<>>
Absent == [there |-> FALSE, ver |-> 0, size |-> 0, sec |-> 0]
NoTool == [tool |-> "none", path |-> "none", at |-> "idle", base |-> 0]

FileInit ==
    /\ disk = [p \in Paths |-> [there |-> TRUE, ver |-> 1, size |-> 1, sec |-> 0]]
    /\ marks = [p \in Paths |-> NoMark] /\ known = [p \in Paths |-> Absent]
    /\ meddled = {} /\ handling = NoTool /\ second = 0
    /\ allowDocs = FALSE /\ cwd = "root" /\ worktree = "none" /\ planMode = FALSE

-----------------------------------------------------------------------------
Fingerprint(f) == <<f.sec, f.size>>
WasReadAndUnchanged(p) == marks[p] # NoMark /\ disk[p].there /\ marks[p] = Fingerprint(disk[p])

Versions == {disk[p].ver : p \in Paths}
LastVersion == CHOOSE v \in Versions : \A w \in Versions : w <= v
Written(size) == [there |-> TRUE, ver |-> LastVersion + 1, size |-> size, sec |-> second]

\* mark_file_read stats the file when the tool has read or written it.
MarkFileRead(p) == IF disk[p].there THEN [marks EXCEPT ![p] = Fingerprint(disk[p])] ELSE marks

\* A tool of the session is at a point of its run.
ToolAt(tool, at) == handling.tool = tool /\ handling.at = at
Step(at, base) == handling' = [handling EXCEPT !.at = at, !.base = base]

-----------------------------------------------------------------------------
\* Somebody else writes or removes a file; Bash commands count among them.
Foreign(p) ==
    /\ LastVersion < MaxVersions
    /\ \/ \E size \in FileSizes : disk' = [disk EXCEPT ![p] = Written(size)]
       \/ disk[p].there /\ disk' = [disk EXCEPT ![p].there = FALSE]
    /\ meddled' = IF handling.path = p THEN meddled \cup {p} ELSE meddled
    /\ UNCHANGED <<marks, known, handling, second, session>>

Tick == second < MaxSeconds /\ second' = second + 1 /\ UNCHANGED <<disk, marks, known, meddled, handling, session>>

-----------------------------------------------------------------------------
\* Read of a text: it shows at most 2000 lines from the offset on, all of the
\* file or some of it, and marks the file either way.  Without offset and limit
\* the answer for a file that is marked and unchanged is only that it is, so
\* that the rest of its lines are shown only to who asks for them by offset or
\* limit.
ReadText(p, plain) ==
    /\ handling = NoTool /\ disk[p].there
    /\ ~(plain /\ WasReadAndUnchanged(p))
    /\ handling' = [tool |-> "Read", path |-> p, at |-> "mark", base |-> disk[p].ver]
    /\ known' = [known EXCEPT ![p] = disk[p]]
    /\ UNCHANGED <<disk, marks, meddled, second, session>>

\* The end of Read, Edit and Write: nobody meddled if the file is as it was
\* read or written.
MarkRead ==
    /\ handling.at = "mark"
    /\ marks' = MarkFileRead(handling.path)
    /\ meddled' = IF disk[handling.path] = known[handling.path] THEN meddled \ {handling.path} ELSE meddled
    /\ handling' = NoTool
    /\ UNCHANGED <<disk, known, second, session>>

-----------------------------------------------------------------------------
\* check_permissions of Edit and Write, and the handler's answer; "enable"
\* sets allow_docs for the session.
NeedsConsent(p) == p \in Docs /\ ~allowDocs
Consented(p) ==
    \/ ~NeedsConsent(p) /\ UNCHANGED allowDocs
    \/ NeedsConsent(p) /\ "allow" \in Consent /\ UNCHANGED allowDocs
    \/ NeedsConsent(p) /\ "enable" \in Consent /\ allowDocs' = TRUE

StartEdit(p) ==
    /\ handling = NoTool /\ disk[p].there
    /\ WasReadAndUnchanged(p)
    /\ Consented(p)
    /\ handling' = [tool |-> "Edit", path |-> p, at |-> "load", base |-> 0]
    /\ UNCHANGED <<disk, marks, known, meddled, second, cwd, worktree, planMode>>

\* read_text; old_string is found once, or replace_all is set, or Edit is refused.
LoadEdit ==
    /\ ToolAt("Edit", "load")
    /\ \/ disk[handling.path].there /\ Step("write", disk[handling.path].ver)
       \/ handling' = NoTool
    /\ UNCHANGED <<disk, marks, known, meddled, second, session>>

StartWriteUnchecked(p) ==
    /\ handling = NoTool
    /\ Consented(p)
    /\ handling' = [tool |-> "Write", path |-> p, at |-> "write", base |-> disk[p].ver]
    /\ UNCHANGED <<disk, marks, known, meddled, second, cwd, worktree, planMode>>

StartWrite(p) ==
    /\ handling = NoTool
    /\ Consented(p)
    /\ disk[p].there => WasReadAndUnchanged(p)
    /\ handling' = [tool |-> "Write", path |-> p, at |-> "write", base |-> disk[p].ver]
    /\ UNCHANGED <<disk, marks, known, meddled, second, cwd, worktree, planMode>>

\* write_text of Edit and of Write, whatever the file is by now.
WriteText(size) ==
    /\ handling.at = "write" /\ LastVersion < MaxVersions
    /\ disk' = [disk EXCEPT ![handling.path] = Written(size)]
    /\ known' = [known EXCEPT ![handling.path] = Written(size)]
    /\ Step("mark", disk'[handling.path].ver)
    /\ UNCHANGED <<marks, meddled, second, session>>

-----------------------------------------------------------------------------
\* A command that only changes the directory; the target must be allowed.
ChangeDirectory(d) ==
    /\ handling = NoTool /\ d \notin Outside /\ cwd' = d
    /\ UNCHANGED <<disk, marks, known, meddled, handling, second, allowDocs, worktree, planMode>>

EnterWorktree(d) ==
    /\ handling = NoTool /\ worktree = "none" /\ d \in Dirs \ (Outside \cup {"root"})
    /\ worktree' = d /\ cwd' = d
    /\ UNCHANGED <<disk, marks, known, meddled, handling, second, allowDocs, planMode>>

ExitWorktree ==
    /\ handling = NoTool /\ worktree # "none"
    /\ worktree' = "none" /\ cwd' = "root"
    /\ UNCHANGED <<disk, marks, known, meddled, handling, second, allowDocs, planMode>>

EnterPlanMode ==
    /\ handling = NoTool /\ planMode' = TRUE
    /\ UNCHANGED <<disk, marks, known, meddled, handling, second, allowDocs, cwd, worktree>>

\* The plan is written to any path of the workspace: neither the fingerprint
\* nor allow_docs is asked, and the file is not marked.
ExitPlanMode ==
    /\ handling = NoTool /\ planMode
    /\ \/ \E p \in Paths, size \in FileSizes :
             LastVersion < MaxVersions /\ disk' = [disk EXCEPT ![p] = Written(size)]
       \/ UNCHANGED disk
    /\ planMode' = FALSE
    /\ UNCHANGED <<marks, known, meddled, handling, second, allowDocs, cwd, worktree>>

-----------------------------------------------------------------------------
FileNext ==
    \/ \E p \in Paths : Foreign(p) \/ StartEdit(p) \/ StartWrite(p) \/ \E plain \in BOOLEAN : ReadText(p, plain)
    \/ Tick \/ MarkRead \/ LoadEdit \/ ExitWorktree \/ EnterPlanMode \/ ExitPlanMode
    \/ \E size \in FileSizes : WriteText(size)
    \/ \E d \in Dirs : ChangeDirectory(d) \/ EnterWorktree(d)

FileSpec == FileInit /\ [][FileNext]_filevars

-----------------------------------------------------------------------------
FileTypeOK ==
    /\ \A p \in Paths : disk[p].ver \in 0 .. MaxVersions /\ disk[p].size \in FileSizes
    /\ \A p \in Paths : marks[p] = NoMark \/ marks[p] \in (0 .. MaxSeconds) \X FileSizes
    /\ meddled \subseteq Paths /\ second \in 0 .. MaxSeconds
    /\ handling.tool \in {"none", "Read", "Edit", "Write"} /\ handling.path \in Paths \cup {"none"}
    /\ handling.at \in {"idle", "mark", "load", "write"}
    /\ cwd \in Dirs \ Outside /\ worktree \in Dirs \cup {"none"} /\ planMode \in BOOLEAN /\ allowDocs \in BOOLEAN

\* Edit and Write destroy a version of a text that the session never read from
\* only in one of two ways: somebody wrote the file while a tool had it, or
\* wrote it within the second, and to the size, that the fingerprint holds.
\* Nothing is promised of the lines: a version of which a Read showed one line
\* may be overwritten, for Edit and Write ask the fingerprint and no more.
UnopenedIsKept ==
    [][\A p \in Paths :
           (/\ handling.at = "write" /\ handling.path = p /\ disk'[p] # disk[p]
            /\ handling'.at = "mark" /\ disk[p].there)
           => \/ disk[p].ver = known[p].ver
              \/ disk[p].ver = handling.base /\ handling.tool = "Edit"
              \/ p \in meddled
              \/ Fingerprint(disk[p]) = Fingerprint(known[p])]_filevars
=============================================================================
