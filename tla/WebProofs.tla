----------------------------- MODULE WebProofs -----------------------------
(***************************************************************************)
(* The web process for every set of requests, sessions and jobs and every  *)
(* number of run slots: the slots are accounted for, two streams never     *)
(* work on one REPL object, the table of running jobs is exact, an answer  *)
(* stays in the session file, and a cancellation is not cleared.  Then, of *)
(* a run of that process: the calls of a streamed completion (Providers),  *)
(* and what its session shows when it is opened again (RunReport).         *)
(*                                                                         *)
(* A step of a request is first put in one form: Walk says how its thread  *)
(* moves, Effects which table entry it changes.  The invariants are then   *)
(* proved of that form, and not once more for each of the twenty actions.  *)
(*                                                                         *)
(* Last the lease by which one of several such processes schedules: it     *)
(* does not look at the key when it admits a job, it goes by what it was   *)
(* answered.  As long as the lease it renewed has not run out on its own   *)
(* clock, the key is still its own and runs at least as long.              *)
(***************************************************************************)
EXTENDS WebRuntime, Providers, RunReport, Leases, FiniteSetTheorems, SequenceTheorems, TLAPS

Fields == {"pc", "kind", "sess", "job", "uses", "snap", "end"}

(***************************************************************************)
(* The course of a request.                                                *)
(***************************************************************************)
\* Where a request goes when it is given an object, and when it is over.
Given(kind, b) == b = IF kind = "get" THEN "done" ELSE IF kind = "new" THEN "save" ELSE "apply"
Over(kind, b) == b = IF kind = "stream" THEN "leave" ELSE "done"

\* From a to b in one step, as a request of that kind does it.
Onward(kind, a, b) ==
    \/ a = "new" /\ \/ kind = "stream" /\ b = "slot"
                    \/ kind = "cancel" /\ b = "find"
                    \/ kind = "new" /\ b = "evict"
                    \/ kind \in {"chat", "get"} /\ b = "lookup"
    \/ a = "slot" /\ b \in {"lock", "done"}
    \/ a = "lock" /\ b \in {"lookup", "free"}
    \/ a = "evict" /\ b = "lookup"
    \/ a = "lookup" /\ (b = "register" \/ Given(kind, b) \/ Over(kind, b))
    \/ a = "register" /\ Given(kind, b)
    \/ a = "apply" /\ b = IF kind = "stream" THEN "enter" ELSE "run"
    \/ a = "enter" /\ b = "run"
    \/ a = "run" /\ (b = "save" \/ Over(kind, b))
    \/ a = "save" /\ b = "write"
    \/ a = "write" /\ b = IF kind = "new" THEN "lookup" ELSE "final"
    \/ a = "final" /\ Over(kind, b)
    \/ a = "find" /\ b \in {"signal", "done"}
    \/ a = "signal" /\ b = "done"
    \/ a = "leave" /\ b = "free"
    \/ a = "free" /\ b = "done"

\* Only requests of these kinds get there.
OnCourse(kind, pc) ==
    /\ pc \in {"slot", "lock", "enter", "leave", "free"} => kind = "stream"
    /\ pc \in {"find", "signal"} => kind = "cancel"
    /\ pc = "evict" => kind = "new"
    /\ pc \in {"apply", "run", "final"} => kind \in {"stream", "chat"}
    /\ pc \in {"save", "write"} => kind \in {"stream", "chat", "new"}
    /\ pc \in {"lookup", "register"} => kind \in {"stream", "chat", "new", "get"}

\* The step of request r makes t of its thread.
Walk(r, t) ==
    /\ th' = [th EXCEPT ![r] = t] /\ DOMAIN t = Fields
    /\ Onward(IF At(r, "new") THEN t.kind ELSE th[r].kind, th[r].pc, t.pc)
    /\ At(r, "new") => t.sess \in WebSessions /\ t.job \in WebJobs /\ t.end = th[r].end
    /\ ~ At(r, "new") => /\ t.sess = th[r].sess /\ t.job = th[r].job
                         /\ t.kind = IF At(r, "write") /\ th[r].kind = "new" THEN "get" ELSE th[r].kind
    /\ t.uses = CASE t.pc = "done" -> NoReq
                  [] At(r, "lookup") /\ t.pc \in {"apply", "save"} -> repls[th[r].sess]
                  [] At(r, "register") /\ t.pc # "done" -> Built(r)
                  [] At(r, "find") /\ t.pc # "done" -> contexts[th[r].job]
                  [] OTHER -> th[r].uses
    /\ At(r, "lookup") /\ t.pc \in {"apply", "save"} => repls[th[r].sess] # NoReq
    /\ At(r, "find") /\ t.pc = "signal" => contexts[th[r].job] # NoReq
    /\ t.pc = "write" => t.snap = obj[th[r].uses].conv
    /\ t.end = "final" => th[r].end = "final" \/ At(r, "final")

\* What it changes besides.
Effects(r, t) ==
    /\ CASE At(r, "slot") /\ t.pc = "lock" -> permits > 0 /\ permits' = permits - 1 /\ active' = active + 1
         [] At(r, "free") -> permits' = permits + 1 /\ active' = IF active > 0 THEN active - 1 ELSE 0
         [] OTHER -> UNCHANGED <<permits, active>>
    /\ CASE At(r, "lock") /\ t.pc = "lookup" -> held[th[r].sess] = NoReq /\ held' = [held EXCEPT ![th[r].sess] = r]
         [] At(r, "leave") -> held' = [held EXCEPT ![th[r].sess] = NoReq]
         [] OTHER -> UNCHANGED held
    /\ CASE At(r, "evict") -> repls' = [repls EXCEPT ![th[r].sess] = NoReq]
         [] At(r, "register") -> repls' = [repls EXCEPT ![th[r].sess] = Built(r)]
         [] OTHER -> UNCHANGED repls
    /\ CASE At(r, "lookup") /\ t.pc = "register" ->
              /\ repls[th[r].sess] = NoReq /\ ~ file[th[r].sess].torn
              /\ obj' = [obj EXCEPT ![Built(r)] = [Blank EXCEPT !.conv = file[th[r].sess].conv]]
         [] At(r, "apply") -> obj' = [obj EXCEPT ![th[r].uses].job = th[r].job, ![th[r].uses].cancelled = FALSE]
         [] At(r, "run") /\ t.pc = "save" -> obj' = [obj EXCEPT ![th[r].uses].conv = @ \cup {r}]
         [] At(r, "signal") -> obj' = [obj EXCEPT ![th[r].uses].cancelled = TRUE]
         [] OTHER -> UNCHANGED obj
    /\ CASE At(r, "enter") -> contexts' = [contexts EXCEPT ![obj[th[r].uses].job] = th[r].uses]
         [] At(r, "leave") -> contexts' = [contexts EXCEPT ![th[r].job] = NoReq]
         [] OTHER -> UNCHANGED contexts
    /\ CASE At(r, "save") -> file' = [file EXCEPT ![th[r].sess] =
                  [torn |-> TRUE, conv |-> {}, open |-> @.open \cup {r}, clash |-> @.clash \/ @.open # {}]]
         [] At(r, "write") -> \E torn \in IF file[th[r].sess].clash THEN BOOLEAN ELSE {FALSE} :
              file' = [file EXCEPT ![th[r].sess] =
                       [torn |-> torn, conv |-> IF torn THEN {} ELSE th[r].snap, open |-> @.open \ {r},
                        clash |-> @.clash /\ @.open \ {r} # {}]]
         [] OTHER -> UNCHANGED file
    /\ UNCHANGED crashed

WebShapes == th = [r \in Requests |-> th[r]] /\ \A r \in Requests : DOMAIN th[r] = Fields
Courses == \A r \in Requests : OnCourse(th[r].kind, th[r].pc)

\* The thread moves on to pc as it is, but for the object it uses and its end.
Moves(r, t, pc, uses, end) ==
    /\ th' = [th EXCEPT ![r] = t] /\ DOMAIN t = Fields /\ t.pc = pc /\ t.uses = uses /\ t.end = end
    /\ t.kind = th[r].kind /\ t.sess = th[r].sess /\ t.job = th[r].job

\* A step that only moves on.
LEMMA GotoMoves ==
  ASSUME WebShapes, NEW r \in Requests, NEW pc, Goto(r, pc)
  PROVE  \E t : Moves(r, t, pc, th[r].uses, th[r].end) /\ t.snap = th[r].snap
<1> DEFINE t == [th[r] EXCEPT !.pc = pc]
<1> WITNESS t
<1> QED BY DEF Goto, Moves, WebShapes, Fields

\* A step that answers.
LEMMA DoneMoves ==
  ASSUME WebShapes, NEW r \in Requests, NEW end, Done(r, end)
  PROVE  \E t : Moves(r, t, "done", NoReq, end)
<1> DEFINE t == Gone(th[r], end)
<1> WITNESS t
<1> QED BY DEF Done, Gone, Moves, WebShapes, Fields

\* A step that ends the request: a stream still has its lock to give back.
LEMMA EndMoves ==
  ASSUME WebShapes, NEW r \in Requests, NEW end, End(r, end)
  PROVE  \E t : IF th[r].kind = "stream" THEN Moves(r, t, "leave", th[r].uses, end)
                                         ELSE Moves(r, t, "done", NoReq, end)
<1>1. CASE th[r].kind # "stream"  BY <1>1, DoneMoves DEF End
<1>2. CASE th[r].kind = "stream"
  <2> DEFINE t == [th[r] EXCEPT !.pc = "leave", !.end = end]
  <2> WITNESS t
  <2> QED BY <1>2 DEF End, Moves, WebShapes, Fields
<1> QED BY <1>1, <1>2

\* A step that gives the request an object.
LEMMA WithReplMoves ==
  ASSUME WebShapes, NEW r \in Requests, NEW o, WithRepl(r, o)
  PROVE  \E t : CASE th[r].kind = "get" -> Moves(r, t, "done", NoReq, "shown")
                  [] th[r].kind = "new" -> Moves(r, t, "save", o, th[r].end)
                  [] OTHER -> Moves(r, t, "apply", o, th[r].end)
<1>1. CASE th[r].kind = "get"  BY <1>1, DoneMoves DEF WithRepl
<1>2. CASE th[r].kind # "get"
  <2> DEFINE t == [th[r] EXCEPT !.uses = o, !.pc = IF th[r].kind = "new" THEN "save" ELSE "apply"]
  <2> WITNESS t
  <2> QED BY <1>2 DEF WithRepl, Moves, WebShapes, Fields
<1> QED BY <1>1, <1>2

\* The session is chosen when the request arrives.
LEMMA ArriveWalks == ASSUME WebShapes, Courses, NEW r \in Requests, Arrive(r) PROVE \E t : Walk(r, t) /\ Effects(r, t)
<1>1. PICK q \in Offers[r] :
        th' = [th EXCEPT ![r] = [@ EXCEPT
                    !.kind = q.kind, !.sess = q.sess, !.job = q.job,
                    !.pc = CASE q.kind = "stream" -> "slot"
                             [] q.kind = "cancel" -> "find"
                             [] q.kind = "new"    -> "evict"
                             [] OTHER             -> "lookup"]]
  BY DEF Arrive
<1>2. q.sess \in WebSessions /\ q.job \in WebJobs /\ q.kind \in {"stream", "chat", "cancel", "new", "get"}  BY WebAssumption
<1> DEFINE pc == CASE q.kind = "stream" -> "slot"
                   [] q.kind = "cancel" -> "find"
                   [] q.kind = "new"    -> "evict"
                   [] OTHER             -> "lookup"
           t == [th[r] EXCEPT !.kind = q.kind, !.sess = q.sess, !.job = q.job, !.pc = pc]
<1>3. /\ th' = [th EXCEPT ![r] = t] /\ DOMAIN t = Fields
      /\ t.pc = pc /\ t.kind = q.kind /\ t.sess = q.sess /\ t.job = q.job /\ t.uses = th[r].uses /\ t.end = th[r].end
  BY <1>1 DEF WebShapes, Fields
<1>4. At(r, "new") /\ UNCHANGED <<permits, active, held, contexts, repls, obj, file, crashed>>
  BY DEF Arrive, tables, objects
<1>5. pc \in {"slot", "find", "evict", "lookup"} /\ Onward(q.kind, "new", pc)  BY <1>2 DEF Onward
<1> HIDE DEF pc, t
<1>6. Walk(r, t)  BY <1>2, <1>3, <1>4, <1>5 DEF Walk, At
<1>7. Effects(r, t)  BY <1>3, <1>4, <1>5 DEF Effects, At
<1> QED BY <1>6, <1>7

\* A slot is of no session.
LEMMA SlotWalks ==
  ASSUME WebShapes, Courses, NEW r \in Requests, AcquireSlot(r) \/ ReleaseSlot(r)
  PROVE  \E t : Walk(r, t) /\ Effects(r, t)
<1>1. CASE AcquireSlot(r) /\ permits > 0
  <2>1. At(r, "slot") /\ Goto(r, "lock")  BY <1>1 DEF AcquireSlot
  <2>2. PICK t : Moves(r, t, "lock", th[r].uses, th[r].end)  BY <2>1, GotoMoves
  <2>3. Walk(r, t)  BY <2>1, <2>2 DEF Walk, Moves, At, Onward
  <2>4. Effects(r, t)  BY <1>1, <2>1, <2>2 DEF Effects, Moves, At, AcquireSlot, objects
  <2> QED BY <2>3, <2>4
<1>2. CASE AcquireSlot(r) /\ ~ (permits > 0)
  <2>1. At(r, "slot") /\ Done(r, "too_many")  BY <1>2 DEF AcquireSlot
  <2>2. PICK t : Moves(r, t, "done", NoReq, "too_many")  BY <2>1, DoneMoves
  <2>3. Walk(r, t)  BY <2>1, <2>2 DEF Walk, Moves, At, Onward
  <2>4. Effects(r, t)  BY <1>2, <2>1, <2>2 DEF Effects, Moves, At, AcquireSlot, objects
  <2> QED BY <2>3, <2>4
<1>3. CASE ReleaseSlot(r)
  <2>1. At(r, "free") /\ Done(r, th[r].end)  BY <1>3 DEF ReleaseSlot
  <2>2. PICK t : Moves(r, t, "done", NoReq, th[r].end)  BY <2>1, DoneMoves
  <2>3. Walk(r, t)  BY <2>1, <2>2 DEF Walk, Moves, At, Onward
  <2>4. Effects(r, t)  BY <1>3, <2>1, <2>2 DEF Effects, Moves, At, ReleaseSlot, objects
  <2> QED BY <2>3, <2>4
<1> QED BY <1>1, <1>2, <1>3

\* The lock is taken or refused, and given back.
LEMMA LockWalks ==
  ASSUME WebShapes, Courses, NEW r \in Requests, LockSession(r) \/ Leave(r)
  PROVE  \E t : Walk(r, t) /\ Effects(r, t)
<1>1. CASE LockSession(r) /\ held[th[r].sess] = NoReq
  <2>1. At(r, "lock") /\ Goto(r, "lookup")  BY <1>1 DEF LockSession
  <2>2. PICK t : Moves(r, t, "lookup", th[r].uses, th[r].end)  BY <2>1, GotoMoves
  <2>3. Walk(r, t)  BY <2>1, <2>2 DEF Walk, Moves, At, Onward
  <2>4. Effects(r, t)  BY <1>1, <2>1, <2>2 DEF Effects, Moves, At, LockSession, objects
  <2> QED BY <2>3, <2>4
<1>2. CASE LockSession(r) /\ held[th[r].sess] # NoReq
  <2> DEFINE t == [th[r] EXCEPT !.pc = "free", !.end = "conflict"]
  <2>1. At(r, "lock")  BY <1>2 DEF LockSession
  <2>2. Moves(r, t, "free", th[r].uses, "conflict")
    BY <1>2 DEF LockSession, Moves, WebShapes, Fields
  <2> HIDE DEF t
  <2>3. Walk(r, t)  BY <2>1, <2>2 DEF Walk, Moves, At, Onward
  <2>4. Effects(r, t)  BY <1>2, <2>1, <2>2 DEF Effects, Moves, At, LockSession, objects
  <2> QED BY <2>3, <2>4
<1>3. CASE Leave(r)
  <2>1. At(r, "leave") /\ Goto(r, "free")  BY <1>3 DEF Leave
  <2>2. PICK t : Moves(r, t, "free", th[r].uses, th[r].end)  BY <2>1, GotoMoves
  <2>3. Walk(r, t)  BY <2>1, <2>2 DEF Walk, Moves, At, Onward
  <2>4. Effects(r, t)  BY <1>3, <2>1, <2>2 DEF Effects, Moves, At, Leave, objects
  <2> QED BY <2>3, <2>4
<1> QED BY <1>1, <1>2, <1>3

\* The object is found in the table, or built, entered there, or forgotten.
LEMMA ReplWalks ==
  ASSUME WebShapes, Courses, NEW r \in Requests, LookupRepl(r) \/ RegisterRepl(r) \/ EvictRepl(r)
  PROVE  \E t : Walk(r, t) /\ Effects(r, t)
<1>1. CASE LookupRepl(r) /\ repls[th[r].sess] # NoReq
  <2>1. At(r, "lookup") /\ WithRepl(r, repls[th[r].sess])  BY <1>1 DEF LookupRepl
  <2>2. PICK t : CASE th[r].kind = "get" -> Moves(r, t, "done", NoReq, "shown")
                   [] th[r].kind = "new" -> Moves(r, t, "save", repls[th[r].sess], th[r].end)
                   [] OTHER -> Moves(r, t, "apply", repls[th[r].sess], th[r].end)
    BY <2>1, WithReplMoves
  <2>3. Walk(r, t)  BY <1>1, <2>1, <2>2 DEF Walk, Moves, At, Onward, Given
  <2>4. Effects(r, t)  BY <1>1, <2>1, <2>2 DEF Effects, Moves, At, LookupRepl, tables
  <2> QED BY <2>3, <2>4
<1>2. CASE LookupRepl(r) /\ repls[th[r].sess] = NoReq /\ file[th[r].sess].torn
  <2>1. At(r, "lookup") /\ End(r, "failed")  BY <1>2 DEF LookupRepl
  <2>2. PICK t : IF th[r].kind = "stream" THEN Moves(r, t, "leave", th[r].uses, "failed")
                                          ELSE Moves(r, t, "done", NoReq, "failed")
    BY <2>1, EndMoves
  <2>3. Walk(r, t)  BY <2>1, <2>2 DEF Walk, Moves, At, Onward, Over
  <2>4. Effects(r, t)  BY <1>2, <2>1, <2>2 DEF Effects, Moves, At, LookupRepl, tables
  <2> QED BY <2>3, <2>4
<1>3. CASE LookupRepl(r) /\ repls[th[r].sess] = NoReq /\ ~ file[th[r].sess].torn
  <2>1. At(r, "lookup") /\ Goto(r, "register")  BY <1>3 DEF LookupRepl
  <2>2. PICK t : Moves(r, t, "register", th[r].uses, th[r].end)  BY <2>1, GotoMoves
  <2>3. Walk(r, t)  BY <2>1, <2>2 DEF Walk, Moves, At, Onward
  <2>4. Effects(r, t)  BY <1>3, <2>1, <2>2 DEF Effects, Moves, At, LookupRepl, tables
  <2> QED BY <2>3, <2>4
<1>4. CASE RegisterRepl(r)
  <2>1. At(r, "register") /\ WithRepl(r, Built(r))  BY <1>4 DEF RegisterRepl
  <2>2. PICK t : CASE th[r].kind = "get" -> Moves(r, t, "done", NoReq, "shown")
                   [] th[r].kind = "new" -> Moves(r, t, "save", Built(r), th[r].end)
                   [] OTHER -> Moves(r, t, "apply", Built(r), th[r].end)
    BY <2>1, WithReplMoves
  <2>3. Walk(r, t)  BY <2>1, <2>2 DEF Walk, Moves, At, Onward, Given
  <2>4. Effects(r, t)  BY <1>4, <2>1, <2>2 DEF Effects, Moves, At, RegisterRepl, tables
  <2> QED BY <2>3, <2>4
<1>5. CASE EvictRepl(r)
  <2>1. At(r, "evict") /\ Goto(r, "lookup")  BY <1>5 DEF EvictRepl
  <2>2. PICK t : Moves(r, t, "lookup", th[r].uses, th[r].end)  BY <2>1, GotoMoves
  <2>3. Walk(r, t)  BY <2>1, <2>2 DEF Walk, Moves, At, Onward
  <2>4. Effects(r, t)  BY <1>5, <2>1, <2>2 DEF Effects, Moves, At, EvictRepl, tables
  <2> QED BY <2>3, <2>4
<1> QED BY <1>1, <1>2, <1>3, <1>4, <1>5

\* A run gets its claims, is entered in the table of running jobs, and answers.
LEMMA RunWalks ==
  ASSUME WebShapes, Courses, NEW r \in Requests, ApplyRuntimeContext(r) \/ EnterContext(r) \/ Answered(r)
  PROVE  \E t : Walk(r, t) /\ Effects(r, t)
<1>1. CASE ApplyRuntimeContext(r)
  <2> DEFINE pc == IF th[r].kind = "stream" THEN "enter" ELSE "run"
  <2>1. At(r, "apply") /\ Goto(r, pc)  BY <1>1 DEF ApplyRuntimeContext
  <2>2. PICK t : Moves(r, t, pc, th[r].uses, th[r].end)  BY <2>1, GotoMoves
  <2>3. Walk(r, t)  BY <2>1, <2>2 DEF Walk, Moves, At, Onward
  <2>4. Effects(r, t)  BY <1>1, <2>1, <2>2 DEF Effects, Moves, At, ApplyRuntimeContext, tables
  <2> QED BY <2>3, <2>4
<1>2. CASE EnterContext(r)
  <2>1. At(r, "enter") /\ Goto(r, "run")  BY <1>2 DEF EnterContext
  <2>2. PICK t : Moves(r, t, "run", th[r].uses, th[r].end)  BY <2>1, GotoMoves
  <2>3. Walk(r, t)  BY <2>1, <2>2 DEF Walk, Moves, At, Onward
  <2>4. Effects(r, t)  BY <1>2, <2>1, <2>2 DEF Effects, Moves, At, EnterContext, objects
  <2> QED BY <2>3, <2>4
<1>3. CASE Answered(r)
  <2>1. At(r, "run") /\ Goto(r, "save")  BY <1>3 DEF Answered
  <2>2. PICK t : Moves(r, t, "save", th[r].uses, th[r].end)  BY <2>1, GotoMoves
  <2>3. Walk(r, t)  BY <2>1, <2>2 DEF Walk, Moves, At, Onward
  <2>4. Effects(r, t)  BY <1>3, <2>1, <2>2 DEF Effects, Moves, At, Answered, tables
  <2> QED BY <2>3, <2>4
<1> QED BY <1>1, <1>2, <1>3

\* It ends because it was cancelled, has failed, or has given its answer.
LEMMA EndWalks ==
  ASSUME WebShapes, Courses, NEW r \in Requests, CancelRun(r) \/ FailRun(r) \/ SendFinal(r)
  PROVE  \E t : Walk(r, t) /\ Effects(r, t)
<1>1. PICK end : End(r, end) /\ (At(r, "run") \/ At(r, "final")) /\ (end = "final" => At(r, "final"))
  <2>1. CASE CancelRun(r)
    <3>1. End(r, IF th[r].kind = "stream" THEN "cancelled" ELSE "failed") /\ At(r, "run")
      BY <2>1 DEF CancelRun
    <3> QED BY <3>1
  <2>2. CASE FailRun(r)  BY <2>2 DEF FailRun
  <2>3. CASE SendFinal(r)
    <3>1. At(r, "final") /\ \E end \in {"final", "failed"} : End(r, end)  BY <2>3 DEF SendFinal
    <3> QED BY <3>1
  <2> QED BY <2>1, <2>2, <2>3
<1>2. PICK t : IF th[r].kind = "stream" THEN Moves(r, t, "leave", th[r].uses, end)
                                        ELSE Moves(r, t, "done", NoReq, end)
  BY <1>1, EndMoves
<1>3. Walk(r, t)  BY <1>1, <1>2 DEF Walk, Moves, At, Onward, Over
<1>4. Effects(r, t)
  <2>1. t.pc \in {"leave", "done"}  BY <1>2 DEF Moves
  <2>2. UNCHANGED <<permits, active, held, contexts, repls, obj, file, crashed>>
    BY DEF CancelRun, FailRun, SendFinal, tables, objects
  <2> QED BY <1>1, <2>1, <2>2 DEF Effects, At
<1> QED BY <1>3, <1>4

\* The file is truncated, then written.
LEMMA SaveWalks ==
  ASSUME WebShapes, Courses, NEW r \in Requests, TruncateFile(r) \/ WriteFile(r)
  PROVE  \E t : Walk(r, t) /\ Effects(r, t)
<1>1. CASE TruncateFile(r)
  <2> DEFINE t == [th[r] EXCEPT !.pc = "write", !.snap = obj[th[r].uses].conv]
  <2>1. At(r, "save")  BY <1>1 DEF TruncateFile
  <2>2. Moves(r, t, "write", th[r].uses, th[r].end) /\ t.snap = obj[th[r].uses].conv
    BY <1>1 DEF TruncateFile, Moves, WebShapes, Fields
  <2> HIDE DEF t
  <2>3. Walk(r, t)  BY <2>1, <2>2 DEF Walk, Moves, At, Onward
  <2>4. Effects(r, t)  BY <1>1, <2>1, <2>2 DEF Effects, Moves, At, TruncateFile, tables
  <2> QED BY <2>3, <2>4
<1>2. CASE WriteFile(r)
  <2> DEFINE t == IF th[r].kind = "new" THEN [th[r] EXCEPT !.pc = "lookup", !.kind = "get", !.snap = {}]
                                        ELSE [th[r] EXCEPT !.pc = "final", !.snap = {}]
  <2>1. At(r, "write") /\ th' = [th EXCEPT ![r] = t]  BY <1>2 DEF WriteFile
  <2>2. /\ DOMAIN t = Fields /\ t.pc = (IF th[r].kind = "new" THEN "lookup" ELSE "final")
        /\ t.kind = (IF th[r].kind = "new" THEN "get" ELSE th[r].kind)
        /\ t.uses = th[r].uses /\ t.end = th[r].end /\ t.sess = th[r].sess /\ t.job = th[r].job
    BY DEF WebShapes, Fields
  <2> HIDE DEF t
  <2>3. Walk(r, t)  BY <2>1, <2>2 DEF Walk, At, Onward
  <2>4. Effects(r, t)  BY <1>2, <2>1, <2>2 DEF Effects, At, WriteFile, tables
  <2> QED BY <2>3, <2>4
<1> QED BY <1>1, <1>2

\* A cancellation takes an object out of the table and sets its event.
LEMMA CancelWalks ==
  ASSUME WebShapes, Courses, NEW r \in Requests, FindContext(r) \/ SignalCancel(r)
  PROVE  \E t : Walk(r, t) /\ Effects(r, t)
<1>1. CASE FindContext(r) /\ contexts[th[r].job] = NoReq
  <2>1. At(r, "find") /\ Done(r, "unknown")  BY <1>1 DEF FindContext
  <2>2. PICK t : Moves(r, t, "done", NoReq, "unknown")  BY <2>1, DoneMoves
  <2>3. Walk(r, t)  BY <2>1, <2>2 DEF Walk, Moves, At, Onward
  <2>4. Effects(r, t)  BY <1>1, <2>1, <2>2 DEF Effects, Moves, At, FindContext, tables, objects
  <2> QED BY <2>3, <2>4
<1>2. CASE FindContext(r) /\ contexts[th[r].job] # NoReq
  <2> DEFINE t == [th[r] EXCEPT !.uses = contexts[th[r].job], !.pc = "signal"]
  <2>1. At(r, "find")  BY <1>2 DEF FindContext
  <2>2. Moves(r, t, "signal", contexts[th[r].job], th[r].end)
    BY <1>2 DEF FindContext, Moves, WebShapes, Fields
  <2> HIDE DEF t
  <2>3. Walk(r, t)  BY <1>2, <2>1, <2>2 DEF Walk, Moves, At, Onward
  <2>4. Effects(r, t)  BY <1>2, <2>1, <2>2 DEF Effects, Moves, At, FindContext, tables, objects
  <2> QED BY <2>3, <2>4
<1>3. CASE SignalCancel(r)
  <2>1. At(r, "signal") /\ Done(r, "signalled")  BY <1>3 DEF SignalCancel
  <2>2. PICK t : Moves(r, t, "done", NoReq, "signalled")  BY <2>1, DoneMoves
  <2>3. Walk(r, t)  BY <2>1, <2>2 DEF Walk, Moves, At, Onward
  <2>4. Effects(r, t)  BY <1>3, <2>1, <2>2 DEF Effects, Moves, At, SignalCancel, tables
  <2> QED BY <2>3, <2>4
<1> QED BY <1>1, <1>2, <1>3

\* Every step of a request is one of the walk.
LEMMA Walks ==
  ASSUME WebShapes, Courses, NEW r \in Requests, Handle(r)
  PROVE  \E t : Walk(r, t) /\ Effects(r, t)
BY ArriveWalks, SlotWalks, LockWalks, ReplWalks, RunWalks, EndWalks, SaveWalks, CancelWalks
   DEF Handle, AnswerWorkflow, AnswerStream, AnswerChat

-----------------------------------------------------------------------------
(* Objects, locks and tables.                                              *)
\* Steps at which a request has not built the object it may build.
Unbuilt == {"slot", "lock", "evict", "lookup", "register"}
\* Where a request works on an object.
UsingSteps == {"apply", "enter", "run", "save", "write", "final", "signal"}
\* Where a stream holds the lock of its session.
Inside == {"lookup", "register", "apply", "enter", "run", "save", "write", "final", "leave"}

\* Object o was built by a request of session s.
BuiltFor(o, s) ==
    LET b == th[Builder(o)] IN
    /\ o \in ReplObjects /\ b.sess = s /\ b.pc # "new"
    /\ IF o[2] THEN b.kind = "get" /\ b.pc = "done" ELSE b.kind = "get" \/ b.pc \notin Unbuilt

DataShapes ==
    /\ held = [s \in WebSessions |-> held[s]] /\ repls = [s \in WebSessions |-> repls[s]]
    /\ contexts = [j \in WebJobs |-> contexts[j]]
    /\ obj = [o \in ReplObjects |-> obj[o]] /\ \A o \in ReplObjects : DOMAIN obj[o] = {"job", "cancelled", "conv"}
    /\ file = [s \in WebSessions |-> file[s]] /\ \A s \in WebSessions : DOMAIN file[s] = {"torn", "conv", "open", "clash"}

\* What is known of a request at any time.
SoundRequest(r) ==
    /\ th[r].pc = "new" => th[r].uses = NoReq /\ th[r].end = "none"
    /\ th[r].pc # "new" => th[r].sess \in WebSessions /\ th[r].job \in WebJobs
    /\ th[r].kind = "stream" /\ th[r].pc \in Inside => held[th[r].sess] = r
    /\ th[r].pc \in UsingSteps => th[r].uses # NoReq
    /\ th[r].uses # NoReq => \E s : BuiltFor(th[r].uses, s) /\ (th[r].kind # "cancel" => s = th[r].sess)

SoundTables ==
    /\ \A s \in WebSessions : repls[s] # NoReq => BuiltFor(repls[s], s)
    /\ \A j \in WebJobs : contexts[j] # NoReq => \E s : BuiltFor(contexts[j], s)

WebInv == WebShapes /\ Courses /\ DataShapes /\ SoundTables /\ \A r \in Requests : SoundRequest(r)

\* Only r moves.
LEMMA OnlyOne ==
  ASSUME WebShapes, NEW r \in Requests, NEW t, Walk(r, t)
  PROVE  /\ \A q \in Requests : th'[q] = IF q = r THEN t ELSE th[q]
         /\ WebShapes'
BY DEF WebShapes, Walk

\* A request keeps to its course.
LEMMA StaysOnCourse ==
  ASSUME WebShapes, Courses, NEW r \in Requests, NEW t, Walk(r, t)
  PROVE  Courses'
<1>1. OnCourse(t.kind, t.pc)
  <2>1. CASE At(r, "new")  BY <2>1 DEF Walk, At, Onward, OnCourse
  <2>2. CASE ~ At(r, "new")  BY <2>2 DEF Courses, Walk, At, Onward, OnCourse, Given, Over
  <2> QED BY <2>1, <2>2
<1> QED BY <1>1, OnlyOne DEF Courses

\* An object stays built: its builder is past the steps where it builds.
LEMMA StaysBuilt ==
  ASSUME WebShapes, Courses, NEW r \in Requests, NEW t, Walk(r, t), NEW o, NEW s, BuiltFor(o, s)
  PROVE  BuiltFor(o, s)'
<1>1. Builder(o) \in Requests  BY DEF BuiltFor, ReplObjects, Builder
<1>2. CASE Builder(o) # r  BY <1>1, <1>2, OnlyOne DEF BuiltFor
<1>3. CASE Builder(o) = r
  <2>1. th'[Builder(o)] = t  BY <1>3, OnlyOne
  <2>2. /\ ~ At(r, "new") /\ th[r].sess = s
        /\ IF o[2] THEN th[r].kind = "get" /\ th[r].pc = "done" ELSE th[r].kind = "get" \/ th[r].pc \notin Unbuilt
    BY <1>3 DEF BuiltFor, At
  <2>3. t.pc # "new" /\ t.sess = s /\ th[r].pc # "done"
    BY <2>2 DEF Walk, At, Onward, Given, Over
  <2>4. t.kind = "get" \/ t.pc \notin Unbuilt
    BY <2>2, <2>3 DEF Walk, At, Onward, Unbuilt, Given, Over
  <2> QED BY <2>1, <2>2, <2>3, <2>4 DEF BuiltFor
<1> QED BY <1>2, <1>3

\* The object a request registers is built from then on.
LEMMA NowBuilt ==
  ASSUME WebShapes, Courses, NEW r \in Requests, NEW t, Walk(r, t), At(r, "register"), NEW o, o = Built(r)
  PROVE  BuiltFor(o, t.sess)' /\ o # NoReq
<1>0. o \in ReplObjects /\ Builder(o) = r /\ o[2] = (th[r].kind = "get")  BY DEF Built, ReplObjects, Builder
<1>1. o # NoReq  BY <1>0, WebAssumption DEF ReplObjects
<1>2. th'[Builder(o)] = t  BY <1>0, OnlyOne
<1>3. Given(th[r].kind, t.pc) /\ t.kind = th[r].kind  BY DEF Walk, At, Onward
<1>4. t.pc # "new" /\ (IF th[r].kind = "get" THEN t.kind = "get" /\ t.pc = "done" ELSE t.pc \notin Unbuilt)
  BY <1>3 DEF Unbuilt, Given
<1>5. IF o[2] THEN t.kind = "get" /\ t.pc = "done" ELSE t.kind = "get" \/ t.pc \notin Unbuilt
  BY <1>0, <1>4
<1> QED BY <1>0, <1>1, <1>2, <1>4, <1>5 DEF BuiltFor

\* A step keeps the shapes of the tables.
LEMMA StaysShaped ==
  ASSUME WebInv, NEW r \in Requests, NEW t, Walk(r, t), Effects(r, t)
  PROVE  DataShapes'
<1>1. held' = [s \in WebSessions |-> held'[s]]  BY DEF WebInv, DataShapes, Effects
<1>2. repls' = [s \in WebSessions |-> repls'[s]]  BY DEF WebInv, DataShapes, Effects
<1>3. contexts' = [j \in WebJobs |-> contexts'[j]]  BY DEF WebInv, DataShapes, Effects
<1>4. obj' = [o \in ReplObjects |-> obj'[o]] /\ \A o \in ReplObjects : DOMAIN obj'[o] = {"job", "cancelled", "conv"}
  BY DEF WebInv, DataShapes, Effects, Blank
<1>5. file' = [s \in WebSessions |-> file'[s]] /\ \A s \in WebSessions : DOMAIN file'[s] = {"torn", "conv", "open", "clash"}
  BY DEF WebInv, DataShapes, Effects
<1> QED BY <1>1, <1>2, <1>3, <1>4, <1>5 DEF DataShapes

\* What is registered, or running, is built.
LEMMA StaysTabled ==
  ASSUME WebInv, NEW r \in Requests, NEW t, Walk(r, t), Effects(r, t)
  PROVE  SoundTables'
<1>0. WebShapes /\ Courses /\ DataShapes /\ SoundTables /\ SoundRequest(r)  BY DEF WebInv
<1>1. ASSUME NEW s \in WebSessions, NEW o, o = repls'[s], o # NoReq  PROVE BuiltFor(o, s)'
  <2>1. CASE o = repls[s]
    <3>1. BuiltFor(o, s)  BY <1>0, <1>1, <2>1 DEF SoundTables
    <3> QED BY <1>0, <3>1, StaysBuilt
  <2>2. CASE o # repls[s]
    <3>1. At(r, "register") /\ s = th[r].sess /\ o = Built(r)
      BY <1>0, <1>1, <2>2 DEF Effects, DataShapes
    <3>2. t.sess = s  BY <3>1 DEF Walk, At
    <3> QED BY <1>0, <3>1, <3>2, NowBuilt
  <2> QED BY <2>1, <2>2
<1>2. ASSUME NEW j \in WebJobs, NEW o, o = contexts'[j], o # NoReq  PROVE \E s : BuiltFor(o, s)'
  <2>1. o = contexts[j] \/ o = th[r].uses  BY <1>0, <1>2 DEF Effects, DataShapes
  <2>2. \E s : BuiltFor(o, s)  BY <1>0, <1>2, <2>1 DEF SoundTables, SoundRequest
  <2> QED BY <1>0, <2>2, StaysBuilt
<1> QED BY <1>1, <1>2 DEF SoundTables

\* Requests stay sound: a lock is taken when it is nobody's and given back by
\* its holder, and the object that is used is one of the session.
LEMMA StaysSound ==
  ASSUME WebInv, NEW r \in Requests, NEW t, Walk(r, t), Effects(r, t)
  PROVE  \A q \in Requests : SoundRequest(q)'
<1>0. WebShapes /\ Courses /\ DataShapes /\ SoundTables /\ SoundRequest(r)  BY DEF WebInv
<1>1. ASSUME NEW q \in Requests, q # r  PROVE SoundRequest(q)'
  <2>1. th'[q] = th[q] /\ SoundRequest(q)  BY <1>0, <1>1, OnlyOne DEF WebInv
  <2>2. ASSUME NEW s \in WebSessions, held[s] = q  PROVE held'[s] = q
    <3>1. CASE At(r, "leave")
      <4>1. held[th[r].sess] = r  BY <1>0, <3>1 DEF SoundRequest, Courses, OnCourse, At, Inside
      <4>2. held' = [held EXCEPT ![th[r].sess] = NoReq]  BY <3>1 DEF Effects, At
      <4> QED BY <1>0, <1>1, <2>2, <4>1, <4>2 DEF DataShapes
    <3>2. CASE ~ At(r, "leave")  BY <1>0, <1>1, <2>2, <3>2, WebAssumption DEF Effects, DataShapes
    <3> QED BY <3>1, <3>2
  <2>3. ASSUME NEW o, NEW s, o = th[q].uses, BuiltFor(o, s)  PROVE BuiltFor(o, s)'
    BY <1>0, <2>3, StaysBuilt
  <2> QED BY <2>1, <2>2, <2>3 DEF SoundRequest, Inside
<1>2. SoundRequest(r)'
  <2>1. th'[r] = t  BY <1>0, OnlyOne
  <2>2. t.pc # "new" /\ t.sess \in WebSessions /\ t.job \in WebJobs
    BY <1>0 DEF Walk, At, Onward, Given, Over, SoundRequest
  <2>3. t.kind = "stream" /\ t.pc \in Inside => held'[t.sess] = r
    <3> SUFFICES ASSUME t.kind = "stream", t.pc \in Inside PROVE held'[t.sess] = r  OBVIOUS
    <3>1. ~ At(r, "new") /\ th[r].kind = "stream" /\ t.sess = th[r].sess
      BY DEF Walk, At, Onward, Inside
    <3>2. (th[r].pc = "lock" /\ t.pc = "lookup") \/ th[r].pc \in Inside \ {"leave"}
      BY <1>0, <3>1 DEF Walk, At, Onward, Inside, Courses, OnCourse, Over, Given
    <3>3. CASE At(r, "lock") /\ t.pc = "lookup"
      BY <1>0, <2>2, <3>1, <3>3 DEF Effects, At, DataShapes
    <3>4. CASE th[r].pc \in Inside \ {"leave"}
      <4>1. held[th[r].sess] = r  BY <1>0, <3>1, <3>4 DEF SoundRequest
      <4>2. UNCHANGED held  BY <3>4 DEF Effects, At, Inside
      <4> QED BY <3>1, <4>1, <4>2
    <3> QED BY <3>2, <3>3, <3>4 DEF At
  <2>4. ASSUME NEW o, o = t.uses, o # NoReq
        PROVE  \E s : BuiltFor(o, s)' /\ (t.kind # "cancel" => s = t.sess)
    <3>1. t.pc # "done"  BY <2>4 DEF Walk
    <3>2. CASE At(r, "lookup") /\ t.pc \in {"apply", "save"}
      <4>1. o = repls[th[r].sess] /\ t.sess = th[r].sess /\ th[r].sess \in WebSessions
        BY <1>0, <2>4, <3>2 DEF Walk, At, SoundRequest
      <4>2. BuiltFor(o, t.sess)  BY <1>0, <2>4, <4>1 DEF SoundTables
      <4> QED BY <1>0, <4>2, StaysBuilt
    <3>3. CASE At(r, "register")
      <4>1. o = Built(r)  BY <2>4, <3>1, <3>3 DEF Walk, At
      <4> QED BY <1>0, <3>3, <4>1, NowBuilt
    <3>4. CASE At(r, "find")
      <4>1. o = contexts[th[r].job] /\ th[r].kind = "cancel" /\ t.kind = "cancel"
        BY <1>0, <2>4, <3>1, <3>4 DEF Walk, At, Courses, OnCourse
      <4>2. \E s : BuiltFor(o, s)  BY <1>0, <2>4, <3>4, <4>1 DEF SoundTables, SoundRequest, At
      <4> QED BY <1>0, <4>1, <4>2, StaysBuilt
    <3>5. CASE ~ At(r, "register") /\ ~ At(r, "find") /\ ~ (At(r, "lookup") /\ t.pc \in {"apply", "save"})
      <4>1. o = th[r].uses /\ ~ At(r, "new")  BY <1>0, <2>4, <3>1, <3>5 DEF Walk, SoundRequest, At
      <4>2. t.sess = th[r].sess /\ (t.kind # "cancel" => th[r].kind # "cancel")  BY <4>1 DEF Walk, At
      <4>3. \E s : BuiltFor(o, s) /\ (t.kind # "cancel" => s = t.sess)
        BY <1>0, <2>4, <4>1, <4>2 DEF SoundRequest
      <4> QED BY <1>0, <4>3, StaysBuilt
    <3> QED BY <3>2, <3>3, <3>4, <3>5
  <2>5. t.pc \in UsingSteps => t.uses # NoReq
    <3> SUFFICES ASSUME t.pc \in UsingSteps PROVE t.uses # NoReq  OBVIOUS
    <3>1. CASE At(r, "register")
      <4>1. t.uses = Built(r)  BY <3>1 DEF Walk, At, UsingSteps
      <4> QED BY <1>0, <3>1, <4>1, NowBuilt
    <3>2. CASE At(r, "lookup") \/ At(r, "find")
      BY <3>2 DEF Walk, At, UsingSteps, Onward, Given, Over
    <3>3. CASE th[r].pc \notin {"register", "lookup", "find"}
      <4>1. th[r].pc \in UsingSteps /\ t.uses = th[r].uses
        BY <3>3 DEF Walk, At, UsingSteps, Onward, Given, Over
      <4> QED BY <1>0, <4>1 DEF SoundRequest
    <3> QED BY <3>1, <3>2, <3>3 DEF At
  <2> QED BY <2>1, <2>2, <2>3, <2>4, <2>5 DEF SoundRequest
<1> QED BY <1>1, <1>2

\* Nobody has arrived, and the tables are empty.
LEMMA WebInvInit == WebInit => WebInv
<1> SUFFICES ASSUME WebInit PROVE WebInv  OBVIOUS
<1>1. WebShapes /\ Courses  BY DEF WebInit, WebShapes, Courses, OnCourse, Idle, Fields
<1>2. DataShapes /\ SoundTables  BY DEF WebInit, DataShapes, SoundTables, Blank
<1>3. \A r \in Requests : SoundRequest(r)
  BY DEF WebInit, SoundRequest, Idle, Inside, UsingSteps
<1> QED BY <1>1, <1>2, <1>3 DEF WebInv

\* After a restart nobody is inside and the tables are empty.
LEMMA Restarts ==
  ASSUME WebInv, Restart, NEW r \in Requests
  PROVE  /\ DOMAIN th'[r] = Fields /\ th'[r].sess = th[r].sess /\ th'[r].kind = th[r].kind
         /\ th'[r].job = th[r].job /\ th'[r].uses = NoReq
         /\ th'[r].pc = IF th[r].pc = "new" THEN "new" ELSE "done"
         /\ th[r].pc = "new" => th'[r].end = "none"
<1>1. th'[r] = IF At(r, "new") THEN th[r] ELSE Gone(th[r], IF At(r, "done") THEN th[r].end ELSE "failed")
  BY DEF Restart
<1>2. CASE th[r].pc = "new"  BY <1>1, <1>2 DEF At, WebInv, WebShapes, SoundRequest
<1>3. CASE th[r].pc # "new"
  <2>1. PICK end : th'[r] = Gone(th[r], end)  BY <1>1, <1>3 DEF At
  <2>2. DOMAIN th[r] = Fields  BY DEF WebInv, WebShapes
  <2> QED BY <1>3, <2>1, <2>2 DEF Gone, Fields
<1> QED BY <1>2, <1>3

\* A restart forgets every lock, entry and object in use.
LEMMA WebInvRestart == ASSUME WebInv, Restart PROVE WebInv'
<1>1. WebShapes'  BY Restarts DEF Restart, WebShapes
<1>2. Courses'  BY Restarts DEF WebInv, Courses, OnCourse
<1>3. DataShapes'  BY DEF Restart, WebInv, DataShapes
<1>4. SoundTables'  BY DEF Restart, SoundTables
<1>5. \A r \in Requests : SoundRequest(r)'
  BY Restarts DEF WebInv, SoundRequest, Inside, UsingSteps
<1> QED BY <1>1, <1>2, <1>3, <1>4, <1>5 DEF WebInv

\* No step breaks the invariant.
LEMMA WebInvStep == ASSUME WebInv, [WebNext]_webvars PROVE WebInv'
<1>1. CASE UNCHANGED webvars
  BY <1>1 DEF webvars, WebInv, WebShapes, Courses, DataShapes, SoundTables, SoundRequest, BuiltFor
<1>2. ASSUME NEW r \in Requests, Handle(r) PROVE WebInv'
  <2>1. PICK t : Walk(r, t) /\ Effects(r, t)  BY <1>2, Walks DEF WebInv
  <2>2. WebShapes' /\ Courses'  BY <2>1, OnlyOne, StaysOnCourse DEF WebInv
  <2> QED BY <2>1, <2>2, StaysShaped, StaysTabled, StaysSound DEF WebInv
<1> QED BY <1>1, <1>2, WebInvRestart DEF WebNext

\* Two streams on one object are in the session it was built for, whose lock
\* both would hold.
LEMMA OneHolder == WebInv => OneRunPerObject
<1> SUFFICES ASSUME WebInv, NEW r \in Streams, NEW q \in Streams, OnObject(r), OnObject(q),
                    th[r].uses = th[q].uses, th[r].uses # NoReq
             PROVE  r = q
  BY DEF OneRunPerObject
<1>1. r \in Requests /\ q \in Requests /\ th[r].kind = "stream" /\ th[q].kind = "stream"  BY DEF Streams
<1>2. th[r].sess = th[q].sess  BY <1>1 DEF WebInv, SoundRequest, BuiltFor
<1>3. held[th[r].sess] = r /\ held[th[q].sess] = q  BY <1>1 DEF WebInv, SoundRequest, OnObject, Inside
<1> QED BY <1>2, <1>3

\* Two streams never work on one REPL object, so never on one conversation
\* or one tool context.
THEOREM OneStreamPerObject == WebSpec => []OneRunPerObject
<1>1. WebInv /\ [WebNext]_webvars => WebInv'  BY WebInvStep
<1> QED BY WebInvInit, <1>1, OneHolder, PTL DEF WebSpec

-----------------------------------------------------------------------------
(* Run slots.                                                              *)
Admitted == {r \in Streams : th[r].pc \notin {"new", "slot", "done"}}

\* There are always finitely many, however many requests there may be.
SlotInv == IsFiniteSet(Admitted) /\ SlotsAccounted

\* At first every slot is free.
LEMMA SlotInvInit == WebInit => SlotInv
<1> SUFFICES ASSUME WebInit PROVE SlotInv  OBVIOUS
<1>1. SlotInv = (/\ IsFiniteSet(Admitted)
                 /\ permits = MaxRuns - Cardinality(Admitted) /\ active = Cardinality(Admitted))
  BY DEF SlotInv, SlotsAccounted, Admitted
<1>2. Admitted = {}  BY DEF WebInit, Admitted, Streams, Idle
<1>3. permits = MaxRuns /\ active = 0 /\ MaxRuns \in Nat  BY WebAssumption DEF WebInit
<1> QED BY <1>1, <1>2, <1>3, FS_EmptySet

\* A slot is taken by a stream that is not yet counted, and given back by one
\* that is; no other step moves a stream in or out.
LEMMA SlotInvWalk ==
  ASSUME WebInv, SlotInv, NEW r \in Requests, NEW t, Walk(r, t), Effects(r, t)
  PROVE  SlotInv'
<1>1. /\ permits = MaxRuns - Cardinality(Admitted) /\ active = Cardinality(Admitted)
      /\ IsFiniteSet(Admitted) /\ Cardinality(Admitted) \in Nat /\ MaxRuns \in Nat
  BY FS_CardinalityType, WebAssumption DEF SlotInv, SlotsAccounted, Admitted
<1>2. SlotInv' = (/\ IsFiniteSet(Admitted')
                  /\ permits' = MaxRuns - Cardinality(Admitted') /\ active' = Cardinality(Admitted'))
  BY DEF SlotInv, SlotsAccounted, Admitted
<1>3. \A q \in Requests : th'[q] = IF q = r THEN t ELSE th[q]  BY OnlyOne DEF WebInv
<1>4. OnCourse(th[r].kind, th[r].pc)  BY DEF WebInv, Courses
<1>5. CASE At(r, "slot") /\ t.pc = "lock"
  <2>1. t.kind = "stream" /\ th[r].kind = "stream"  BY <1>4, <1>5 DEF Walk, At, OnCourse
  <2>2. Admitted' = Admitted \cup {r} /\ r \notin Admitted  BY <1>3, <1>5, <2>1 DEF Admitted, Streams, At
  <2>3. permits' = permits - 1 /\ active' = active + 1  BY <1>5 DEF Effects, At
  <2> QED BY <1>1, <1>2, <2>2, <2>3, FS_AddElement
<1>6. CASE At(r, "free")
  <2>1. th[r].kind = "stream" /\ t.pc = "done"  BY <1>4, <1>6 DEF Walk, At, OnCourse, Onward
  <2>2. Admitted' = Admitted \ {r} /\ r \in Admitted  BY <1>3, <1>6, <2>1 DEF Admitted, Streams, At
  <2>3. permits' = permits + 1 /\ active' = IF active > 0 THEN active - 1 ELSE 0  BY <1>6 DEF Effects, At
  <2>4. Cardinality(Admitted) > 0  BY <1>1, <2>2, FS_EmptySet
  <2> QED BY <1>1, <1>2, <2>2, <2>3, <2>4, FS_RemoveElement
<1>7. CASE ~ (At(r, "slot") /\ t.pc = "lock") /\ ~ At(r, "free")
  <2>1. (t.kind = "stream" /\ t.pc \notin {"new", "slot", "done"})
          <=> (th[r].kind = "stream" /\ th[r].pc \notin {"new", "slot", "done"})
    <3>1. CASE At(r, "new")  BY <1>7, <3>1 DEF Walk, At, Onward
    <3>2. CASE ~ At(r, "new")  BY <1>4, <1>7, <3>2 DEF Walk, At, Onward, OnCourse, Given, Over
    <3> QED BY <3>1, <3>2
  <2>2. Admitted' = Admitted  BY <1>3, <2>1 DEF Admitted, Streams
  <2>3. UNCHANGED <<permits, active>>  BY <1>7 DEF Effects, At
  <2> QED BY <1>1, <1>2, <2>2, <2>3
<1> QED BY <1>5, <1>6, <1>7

\* Slots stay accounted for, in a restart too.
LEMMA SlotInvStep == ASSUME WebInv, SlotInv, [WebNext]_webvars PROVE SlotInv'
<1>1. CASE UNCHANGED webvars  BY <1>1 DEF webvars, SlotInv, SlotsAccounted, Admitted, Streams
<1>2. ASSUME NEW r \in Requests, Handle(r) PROVE SlotInv'
  <2>1. PICK t : Walk(r, t) /\ Effects(r, t)  BY <1>2, Walks DEF WebInv
  <2> QED BY <2>1, SlotInvWalk
<1>3. CASE Restart
  <2>1. SlotInv' = (/\ IsFiniteSet(Admitted')
                    /\ permits' = MaxRuns - Cardinality(Admitted') /\ active' = Cardinality(Admitted'))
    BY DEF SlotInv, SlotsAccounted, Admitted
  <2>2. Admitted' = {}  BY <1>3, Restarts DEF Admitted, Streams
  <2>3. permits' = MaxRuns /\ active' = 0 /\ MaxRuns \in Nat  BY <1>3, WebAssumption DEF Restart
  <2> QED BY <2>1, <2>2, <2>3, FS_EmptySet
<1> QED BY <1>1, <1>2, <1>3 DEF WebNext

-----------------------------------------------------------------------------
(* Running jobs.                                                           *)
\* The key a stream is about to enter is its own job: nobody else has written
\* claims into its object.
JobInv ==
    /\ \A r \in Requests : At(r, "enter") /\ StreamsOnly(th[r].sess) => obj[th[r].uses].job = th[r].job
    /\ RunningJobsExact

\* Other than streams stay other than streams.
LEMMA StreamsOnlyBefore ==
  ASSUME WebInv, NEW r \in Requests, NEW t, Walk(r, t), NEW s, StreamsOnly(s)'
  PROVE  StreamsOnly(s)
<1> SUFFICES ASSUME NEW q \in Requests, th[q].sess = s, th[q].pc # "new"
             PROVE  th[q].kind \in {"stream", "cancel"}
  BY DEF StreamsOnly
<1>1. \A p \in Requests : th'[p] = IF p = r THEN t ELSE th[p]  BY OnlyOne DEF WebInv
<1>2. CASE q # r  BY <1>1, <1>2 DEF StreamsOnly
<1>3. CASE q = r
  <2>1. t.sess = s /\ t.pc # "new" /\ (th[r].kind = t.kind \/ t.kind = "get")
    BY <1>3 DEF Walk, At, Onward, Given, Over
  <2> QED BY <1>1, <1>3, <2>1 DEF StreamsOnly
<1> QED BY <1>2, <1>3

\* Two streams inside one session are one.
LEMMA OneInside ==
  ASSUME WebInv, NEW r \in Requests, NEW q \in Requests, th[r].sess = th[q].sess,
         th[r].kind = "stream", th[q].kind = "stream", th[r].pc \in Inside, th[q].pc \in Inside
  PROVE  r = q
BY DEF WebInv, SoundRequest

\* An object that is used is of the user's session, and there.
LEMMA UsesOwn ==
  ASSUME WebInv, NEW r \in Requests, th[r].pc \in UsingSteps
  PROVE  /\ th[r].uses \in ReplObjects /\ th[r].uses # NoReq
         /\ th[r].kind # "cancel" => BuiltFor(th[r].uses, th[r].sess)
BY DEF WebInv, SoundRequest, BuiltFor

\* At first no job runs.
LEMMA JobInvInit == WebInit => JobInv
BY DEF WebInit, JobInv, RunningJobsExact, At, Idle

\* An entry is made by the stream that runs the job, and removed by it.
LEMMA JobInvWalk ==
  ASSUME WebInv, JobInv, NEW r \in Requests, NEW t, Walk(r, t), Effects(r, t)
  PROVE  JobInv'
<1>0. WebShapes /\ Courses /\ DataShapes /\ SoundTables /\ SoundRequest(r)  BY DEF WebInv
<1>1. \A q \in Requests : th'[q] = IF q = r THEN t ELSE th[q]  BY OnlyOne DEF WebInv
<1>2. ASSUME NEW q \in Requests, th'[q].pc = "enter", NEW s, s = th'[q].sess, StreamsOnly(s)'
      PROVE  obj'[th'[q].uses].job = th'[q].job
  <2>1. CASE q = r
    <3>1. th[r].pc = "apply" /\ t.uses = th[r].uses /\ t.job = th[r].job
      BY <1>1, <1>2, <2>1 DEF Walk, At, Onward, Given, Over
    <3>2. obj' = [obj EXCEPT ![th[r].uses].job = th[r].job, ![th[r].uses].cancelled = FALSE]
      BY <3>1 DEF Effects, At
    <3>3. th[r].uses \in ReplObjects  BY <3>1, UsesOwn DEF UsingSteps
    <3> QED BY <1>0, <1>1, <2>1, <3>1, <3>2, <3>3 DEF DataShapes
  <2>2. CASE q # r
    <3>1. th'[q] = th[q] /\ th[q].pc = "enter" /\ th[q].sess = s  BY <1>1, <1>2, <2>2
    <3>2. StreamsOnly(s)  BY <1>2, StreamsOnlyBefore
    <3>3. obj[th[q].uses].job = th[q].job  BY <3>1, <3>2 DEF JobInv, At
    <3>4. th[q].kind = "stream"  BY <1>0, <3>1 DEF Courses, OnCourse
    <3>5. th[q].uses \in ReplObjects /\ BuiltFor(th[q].uses, s)
      BY <3>1, <3>4, UsesOwn DEF UsingSteps
    <3>6. obj'[th[q].uses].job = obj[th[q].uses].job
      <4>1. CASE At(r, "lookup") /\ t.pc = "register"
        <5>0. PICK o : o = Built(r)  OBVIOUS
        <5>1. o \in ReplObjects /\ Builder(o) = r /\ o[2] = (th[r].kind = "get")
          BY <5>0 DEF Built, Builder, ReplObjects
        <5>2. o # th[q].uses  BY <3>5, <4>1, <5>1 DEF BuiltFor, At, Unbuilt
        <5>3. obj' = [obj EXCEPT ![o] = [Blank EXCEPT !.conv = file[th[r].sess].conv]]
          BY <4>1, <5>0 DEF Effects, At
        <5> QED BY <1>0, <3>5, <5>1, <5>2, <5>3 DEF DataShapes
      <4>2. CASE At(r, "apply")
        <5>1. th[r].uses # th[q].uses
          <6> SUFFICES ASSUME th[r].uses = th[q].uses PROVE FALSE  OBVIOUS
          <6>1. th[r].kind \in {"stream", "chat"}  BY <1>0, <4>2 DEF Courses, OnCourse, At
          <6>2. th[r].sess = s  BY <3>5, <4>2, <6>1, UsesOwn DEF UsingSteps, At, BuiltFor
          <6>3. th[r].kind = "stream"  BY <3>2, <4>2, <6>1, <6>2 DEF StreamsOnly, At
          <6> QED BY <2>2, <3>1, <3>4, <4>2, <6>2, <6>3, OneInside DEF Inside, At
        <5> QED BY <1>0, <3>5, <4>2, <5>1 DEF Effects, DataShapes, At
      <4>3. CASE ~ At(r, "apply") /\ ~ (At(r, "lookup") /\ t.pc = "register")
        <5>1. \/ obj' = [obj EXCEPT ![th[r].uses].conv = @ \cup {r}]
              \/ obj' = [obj EXCEPT ![th[r].uses].cancelled = TRUE]
              \/ obj' = obj
          BY <4>3 DEF Effects, At
        <5> QED BY <1>0, <3>5, <5>1 DEF DataShapes
      <4> QED BY <4>1, <4>2, <4>3
    <3> QED BY <3>1, <3>3, <3>6
  <2> QED BY <2>1, <2>2
<1>3. ASSUME NEW j \in WebJobs, NEW o, o = contexts'[j], o # NoReq,
             NEW s, s = th'[Builder(o)].sess, StreamsOnly(s)'
      PROVE  \E q \in Requests : /\ th'[q].kind = "stream" /\ th'[q].job = j /\ th'[q].uses = o
                                 /\ th'[q].pc \in {"run", "save", "write", "final", "leave"}
  <2>1. StreamsOnly(s)  BY <1>3, StreamsOnlyBefore
  <2>2. CASE o = contexts[j]
    <3>1. PICK s0 : BuiltFor(o, s0)  BY <1>0, <1>3, <2>2 DEF SoundTables
    <3>2. th[Builder(o)].sess = s  BY <1>0, <1>3, <3>1, StaysBuilt DEF BuiltFor
    <3>3. PICK q \in Requests : /\ th[q].kind = "stream" /\ th[q].job = j /\ th[q].uses = o
                                /\ th[q].pc \in {"run", "save", "write", "final", "leave"}
      BY <1>3, <2>1, <2>2, <3>2 DEF JobInv, RunningJobsExact, Streams
    <3>4. CASE q # r  BY <1>1, <3>3, <3>4
    <3>5. CASE q = r
      <4>1. ~ At(r, "leave")
        <5> SUFFICES ASSUME At(r, "leave") PROVE FALSE  OBVIOUS
        <5>1. contexts' = [contexts EXCEPT ![j] = NoReq]  BY <3>3, <3>5 DEF Effects, At
        <5> QED BY <1>0, <1>3, <5>1 DEF DataShapes
      <4>2. /\ t.kind = "stream" /\ t.job = j
            /\ t.pc \in {"run", "save", "write", "final", "leave"}
        BY <3>3, <3>5, <4>1 DEF Walk, At, Onward, Over
      <4>3. t.uses = o  BY <3>3, <3>5, <4>2 DEF Walk, At
      <4> QED BY <1>1, <3>5, <4>2, <4>3
    <3> QED BY <3>4, <3>5
  <2>3. CASE o # contexts[j]
    <3>1. At(r, "enter") /\ j = obj[th[r].uses].job /\ o = th[r].uses
      BY <1>0, <1>3, <2>3 DEF Effects, DataShapes
    <3>2. th[r].kind = "stream" /\ BuiltFor(o, th[r].sess)
      BY <1>0, <3>1, UsesOwn DEF Courses, OnCourse, At, UsingSteps
    <3>3. th[r].sess = s  BY <1>0, <1>3, <3>2, StaysBuilt DEF BuiltFor
    <3>4. j = th[r].job  BY <2>1, <3>1, <3>3 DEF JobInv
    <3>5. t.kind = "stream" /\ t.job = j /\ t.uses = o /\ t.pc = "run"
      BY <3>1, <3>2, <3>4 DEF Walk, At, Onward
    <3> QED BY <1>1, <3>5
  <2> QED BY <2>2, <2>3
<1>4. (\A q \in Requests : At(q, "enter") /\ StreamsOnly(th[q].sess) => obj[th[q].uses].job = th[q].job)'
  BY <1>2 DEF At, StreamsOnly
<1>5. RunningJobsExact'  BY <1>3 DEF RunningJobsExact, StreamsOnly, Streams
<1> QED BY <1>4, <1>5 DEF JobInv

\* A restart leaves nobody running and no entry.
LEMMA JobInvStep == ASSUME WebInv, JobInv, [WebNext]_webvars PROVE JobInv'
<1>1. CASE UNCHANGED webvars
  BY <1>1 DEF webvars, JobInv, RunningJobsExact, StreamsOnly, Streams, At
<1>2. ASSUME NEW r \in Requests, Handle(r) PROVE JobInv'
  <2>1. PICK t : Walk(r, t) /\ Effects(r, t)  BY <1>2, Walks DEF WebInv
  <2> QED BY <2>1, JobInvWalk
<1>3. CASE Restart
  <2>1. \A q \in Requests : th'[q].pc # "enter"  BY <1>3, Restarts
  <2>2. RunningJobsExact'  BY <1>3 DEF Restart, RunningJobsExact
  <2> QED BY <2>1, <2>2 DEF JobInv, At
<1> QED BY <1>1, <1>2, <1>3 DEF WebNext

-----------------------------------------------------------------------------
(* Answers.                                                                *)
\* Requests of session s whose answer was sent.
Delivered(s) == {r \in Requests : th[r].sess = s /\ th[r].end = "final"}

\* Request r and session s: a stream inside works on the registered object,
\* which holds every answer that was sent, and its own once it has one.
SoundAnswer(r, s) ==
    /\ r \in file[s].open => th[r].pc = "write" /\ th[r].sess = s
    /\ th[r].sess = s /\ th[r].kind = "stream" =>
         /\ th[r].pc \in UsingSteps => repls[s] = th[r].uses
         /\ th[r].pc = "register" => repls[s] = NoReq /\ Delivered(s) \subseteq obj[Built(r)].conv
         /\ th[r].pc \in {"save", "write", "final"} => r \in obj[th[r].uses].conv
         /\ th[r].pc = "write" => Delivered(s) \cup {r} \subseteq th[r].snap
         /\ th[r].pc = "final" => r \in file[s].conv

\* The file of session s and the registered object hold every answer sent.
SoundFile(s) ==
    /\ ~ file[s].clash /\ file[s].open \subseteq Requests
    /\ file[s].open = {} => ~ file[s].torn /\ Delivered(s) \subseteq file[s].conv
    /\ repls[s] # NoReq => Delivered(s) \subseteq obj[repls[s]].conv

KeptInv == \A s \in WebSessions : StreamsOnly(s) /\ ~ crashed =>
    SoundFile(s) /\ \A r \in Requests : SoundAnswer(r, s)

\* At first no answer was sent.
LEMMA KeptInvInit == WebInit => KeptInv
<1> SUFFICES ASSUME WebInit, NEW s \in WebSessions PROVE SoundFile(s) /\ \A r \in Requests : SoundAnswer(r, s)
  BY DEF KeptInv
<1>1. Delivered(s) = {}  BY DEF WebInit, Delivered, Idle
<1> QED BY <1>1 DEF WebInit, SoundFile, SoundAnswer, Idle, UsingSteps

\* An object's conversation changes when it is built, and when a run on it is
\* answered.
LEMMA Conversations ==
  ASSUME WebInv, NEW r \in Requests, NEW t, Walk(r, t), Effects(r, t), NEW o \in ReplObjects
  PROVE  \/ At(r, "lookup") /\ t.pc = "register" /\ Builder(o) = r /\ o[2] = (th[r].kind = "get")
         \/ At(r, "run") /\ t.pc = "save" /\ o = th[r].uses /\ obj'[o].conv = obj[o].conv \cup {r}
         \/ obj'[o].conv = obj[o].conv
<1>0. DataShapes  BY DEF WebInv
<1>1. CASE At(r, "lookup") /\ t.pc = "register"
  <2>0. PICK p : p = Built(r)  OBVIOUS
  <2>1. p \in ReplObjects /\ Builder(p) = r /\ p[2] = (th[r].kind = "get")
    BY <2>0 DEF Built, Builder, ReplObjects
  <2>2. obj' = [obj EXCEPT ![p] = [Blank EXCEPT !.conv = file[th[r].sess].conv]]
    BY <1>1, <2>0 DEF Effects, At
  <2> QED BY <1>0, <1>1, <2>1, <2>2 DEF DataShapes
<1>2. CASE ~ (At(r, "lookup") /\ t.pc = "register")
  <2>1. \/ At(r, "run") /\ t.pc = "save" /\ obj' = [obj EXCEPT ![th[r].uses].conv = @ \cup {r}]
        \/ obj' = [obj EXCEPT ![th[r].uses].job = th[r].job, ![th[r].uses].cancelled = FALSE]
        \/ obj' = [obj EXCEPT ![th[r].uses].cancelled = TRUE]
        \/ obj' = obj
    BY <1>2 DEF Effects, At
  <2> QED BY <1>0, <2>1 DEF DataShapes
<1> QED BY <1>1, <1>2

\* A step of anybody else changes neither the memory of session s nor the
\* conversation of its objects.
LEMMA OutsideKeeps ==
  ASSUME WebInv, NEW r \in Requests, NEW t, Walk(r, t), Effects(r, t),
         NEW s \in WebSessions, StreamsOnly(s)',
         ~ (th[r].sess = s /\ th[r].kind = "stream" /\ th[r].pc \in Inside)
  PROVE  /\ file'[s] = file[s] /\ repls'[s] = repls[s] /\ Delivered(s)' \subseteq Delivered(s)
         /\ \A o : BuiltFor(o, s) => obj'[o].conv = obj[o].conv
         /\ \A q \in Requests : th[q].pc = "register" /\ q # r => obj'[Built(q)].conv = obj[Built(q)].conv
<1>0. WebShapes /\ Courses /\ DataShapes /\ SoundRequest(r)  BY DEF WebInv
<1>1. \A q \in Requests : th'[q] = IF q = r THEN t ELSE th[q]  BY OnlyOne DEF WebInv
<1>2. StreamsOnly(s)  BY StreamsOnlyBefore
<1>3. th[r].pc \in Inside \cup {"evict"} => th[r].sess # s
  BY <1>0, <1>2 DEF StreamsOnly, Inside, Courses, OnCourse
<1>4. file'[s] = file[s]
  <2>1. CASE th[r].pc \in {"save", "write"}
    BY <1>0, <1>3, <2>1 DEF Effects, DataShapes, At, Inside
  <2>2. CASE th[r].pc \notin {"save", "write"}  BY <2>2 DEF Effects, At
  <2> QED BY <2>1, <2>2
<1>5. repls'[s] = repls[s]
  <2>1. CASE th[r].pc \in {"evict", "register"}
    BY <1>0, <1>3, <2>1 DEF Effects, DataShapes, At, Inside
  <2>2. CASE th[r].pc \notin {"evict", "register"}  BY <2>2 DEF Effects, At
  <2> QED BY <2>1, <2>2
<1>6. Delivered(s)' \subseteq Delivered(s)
  <2>1. t.sess = s /\ t.end = "final" => th[r].sess = s /\ th[r].end = "final"
    <3>1. CASE th[r].pc = "new"  BY <1>0, <3>1 DEF Walk, At, SoundRequest
    <3>2. CASE th[r].pc # "new"  BY <1>3, <3>2 DEF Walk, At, Inside
    <3> QED BY <3>1, <3>2
  <2> QED BY <1>1, <2>1 DEF Delivered
<1>7. ASSUME NEW o, BuiltFor(o, s)  PROVE obj'[o].conv = obj[o].conv
  <2>1. o \in ReplObjects  BY <1>7 DEF BuiltFor
  <2>2. ~ (At(r, "lookup") /\ t.pc = "register" /\ Builder(o) = r /\ o[2] = (th[r].kind = "get"))
    BY <1>7 DEF BuiltFor, At, Unbuilt
  <2>3. ~ (At(r, "run") /\ o = th[r].uses)
    <3> SUFFICES ASSUME At(r, "run"), o = th[r].uses PROVE FALSE  OBVIOUS
    <3>1. th[r].sess = s  BY <1>0, <1>7, UsesOwn DEF At, UsingSteps, Courses, OnCourse, BuiltFor
    <3> QED BY <1>3, <3>1 DEF At, Inside
  <2> QED BY <2>1, <2>2, <2>3, Conversations
<1>8. ASSUME NEW q \in Requests, th[q].pc = "register", q # r  PROVE obj'[Built(q)].conv = obj[Built(q)].conv
  <2>1. PICK o : o = Built(q)  OBVIOUS
  <2>2. o \in ReplObjects /\ Builder(o) = q /\ o[2] = (th[q].kind = "get")
    BY <2>1 DEF Built, Builder, ReplObjects
  <2>3. ~ (At(r, "run") /\ o = th[r].uses)
    BY <1>0, <1>8, <2>2, UsesOwn DEF At, UsingSteps, Courses, OnCourse, BuiltFor, Unbuilt
  <2>4. obj'[o].conv = obj[o].conv  BY <1>8, <2>2, <2>3, Conversations
  <2> QED BY <2>1, <2>4
<1> QED BY <1>4, <1>5, <1>6, <1>7, <1>8

\* So the others do not disturb what is known of a session.
LEMMA OutsideSound ==
  ASSUME WebInv, NEW r \in Requests, NEW t, Walk(r, t), Effects(r, t),
         NEW s \in WebSessions, StreamsOnly(s)',
         ~ (th[r].sess = s /\ th[r].kind = "stream" /\ th[r].pc \in Inside),
         SoundFile(s), \A q \in Requests : SoundAnswer(q, s)
  PROVE  SoundFile(s)' /\ \A q \in Requests : SoundAnswer(q, s)'
<1>0. WebShapes /\ Courses /\ SoundTables  BY DEF WebInv
<1>1. \A q \in Requests : th'[q] = IF q = r THEN t ELSE th[q]  BY OnlyOne DEF WebInv
<1>2. /\ file'[s] = file[s] /\ repls'[s] = repls[s] /\ Delivered(s)' \subseteq Delivered(s)
      /\ \A o : BuiltFor(o, s) => obj'[o].conv = obj[o].conv
      /\ \A q \in Requests : th[q].pc = "register" /\ q # r => obj'[Built(q)].conv = obj[Built(q)].conv
  BY OutsideKeeps
<1>3. SoundFile(s)'  BY <1>0, <1>2 DEF SoundFile, SoundTables
<1>4. ASSUME NEW q \in Requests, q # r  PROVE SoundAnswer(q, s)'
  <2>1. th'[q] = th[q] /\ SoundAnswer(q, s)  BY <1>1, <1>4
  <2>2. Built(q)' = Built(q)  BY <2>1 DEF Built
  <2>3. th[q].pc \in UsingSteps /\ th[q].sess = s /\ th[q].kind = "stream" => obj'[th[q].uses].conv = obj[th[q].uses].conv
    BY <1>2, UsesOwn
  <2> QED BY <1>2, <1>4, <2>1, <2>2, <2>3 DEF SoundAnswer, UsingSteps
<1>5. SoundAnswer(r, s)'
  <2>1. r \notin file[s].open
    BY <1>0, StreamsOnlyBefore DEF SoundAnswer, Inside, Courses, OnCourse, StreamsOnly
  <2>2. t.sess = s /\ t.kind = "stream" => t.pc \notin UsingSteps \cup {"register"}
    <3>1. CASE th[r].pc = "new"  BY <3>1 DEF Walk, At, Onward, UsingSteps
    <3>2. CASE th[r].pc # "new"
      BY <1>0, <3>2 DEF Walk, At, Onward, UsingSteps, Inside, Courses, OnCourse, Given, Over
    <3> QED BY <3>1, <3>2
  <2> QED BY <1>1, <1>2, <2>1, <2>2 DEF SoundAnswer, UsingSteps
<1> QED BY <1>3, <1>4, <1>5

\* A step of the stream inside session s.
LEMMA InsideKeeps ==
  ASSUME WebInv, NEW r \in Requests, NEW t, Walk(r, t), Effects(r, t),
         NEW s \in WebSessions, StreamsOnly(s), StreamsOnly(s)',
         th[r].sess = s, th[r].kind = "stream", th[r].pc \in Inside,
         SoundFile(s), \A q \in Requests : SoundAnswer(q, s)
  PROVE  SoundFile(s)' /\ \A q \in Requests : SoundAnswer(q, s)'
<1>0. WebShapes /\ Courses /\ DataShapes /\ SoundTables /\ SoundRequest(r)  BY DEF WebInv
<1>1. \A q \in Requests : th'[q] = IF q = r THEN t ELSE th[q]  BY OnlyOne DEF WebInv
<1>2. /\ t.sess = s /\ t.kind = "stream"
      /\ Onward("stream", th[r].pc, t.pc)
  BY DEF Walk, At, Inside
<1>3. ASSUME NEW q \in Requests, q # r, th[q].sess = s, th[q].pc # "new"
      PROVE  th[q].pc \notin Inside /\ q \notin file[s].open
  <2>1. th[q].pc \notin Inside
    BY <1>0, <1>3, OneInside DEF Courses, OnCourse, Inside, StreamsOnly
  <2> QED BY <1>3, <2>1 DEF SoundAnswer, Inside
<1>4. \A q \in file[s].open : q = r /\ th[r].pc = "write"
  BY <1>3 DEF SoundAnswer, SoundFile
<1>5. Delivered(s)' \subseteq Delivered(s) \cup (IF th[r].pc = "final" THEN {r} ELSE {})
  BY <1>1 DEF Delivered, Walk, At, Inside
<1>6. ASSUME NEW q \in Requests, q # r  PROVE SoundAnswer(q, s)'
  <2>1. q \notin file'[s].open
    <3>1. file'[s].open \subseteq file[s].open \cup {r}
      <4>1. CASE th[r].pc = "save"  BY <1>0, <4>1 DEF Effects, At, DataShapes
      <4>2. CASE th[r].pc = "write"
        <5>1. PICK torn \in BOOLEAN : file' = [file EXCEPT ![s] =
                       [torn |-> torn, conv |-> IF torn THEN {} ELSE th[r].snap, open |-> @.open \ {r},
                        clash |-> @.clash /\ @.open \ {r} # {}]]
          BY <4>2 DEF Effects, At
        <5> QED BY <1>0, <5>1 DEF DataShapes
      <4>3. CASE th[r].pc \notin {"save", "write"}  BY <4>3 DEF Effects, At
      <4> QED BY <4>1, <4>2, <4>3
    <3> QED BY <1>4, <1>6, <3>1
  <2>2. ~ (th[q].sess = s /\ th[q].kind = "stream" /\ th[q].pc \in UsingSteps \cup {"register"})
    BY <1>0, <1>3, <1>6 DEF Courses, OnCourse, UsingSteps, Inside
  <2> QED BY <1>1, <1>6, <2>1, <2>2 DEF SoundAnswer, UsingSteps
<1>7. /\ th[r].pc \in UsingSteps => repls[s] = th[r].uses
      /\ th[r].pc \in {"save", "write", "final"} => r \in obj[th[r].uses].conv
      /\ repls[s] # NoReq => repls[s] \in ReplObjects /\ Delivered(s) \subseteq obj[repls[s]].conv
  BY <1>0 DEF SoundAnswer, SoundFile, SoundTables, BuiltFor
<1>8. CASE \/ th[r].pc \in {"apply", "enter", "leave"}
           \/ th[r].pc = "lookup" /\ t.pc # "register"
           \/ th[r].pc = "run" /\ t.pc # "save"
  <2>1. t.pc \in {"apply", "enter", "run", "leave", "free"}  BY <1>2, <1>8 DEF Onward, Given, Over
  <2>2. file'[s] = file[s] /\ repls'[s] = repls[s]  BY <1>8 DEF Effects, At
  <2>3. \A o \in ReplObjects : obj'[o].conv = obj[o].conv  BY <1>8, Conversations DEF At
  <2>4. t.pc \in UsingSteps => t.uses = repls[s]
    <3>1. CASE th[r].pc = "lookup"  BY <1>2, <2>1, <3>1 DEF Walk, At, UsingSteps, Onward, Given, Over
    <3>2. CASE th[r].pc \in {"apply", "enter"}
      <4>1. t.uses = th[r].uses  BY <1>2, <3>2 DEF Walk, At, Onward
      <4> QED BY <1>7, <3>2, <4>1 DEF UsingSteps
    <3>3. CASE th[r].pc \in {"run", "leave"}
      BY <1>2, <1>8, <3>3 DEF Onward, Over, UsingSteps
    <3> QED BY <1>8, <3>1, <3>2, <3>3
  <2>5. SoundFile(s)'  BY <1>5, <1>7, <1>8, <2>2, <2>3 DEF SoundFile
  <2>6. SoundAnswer(r, s)'  BY <1>1, <1>4, <1>8, <2>1, <2>2, <2>4 DEF SoundAnswer
  <2> QED BY <1>6, <2>5, <2>6
<1>9. CASE th[r].pc = "lookup" /\ t.pc = "register"
  <2>1. file'[s] = file[s] /\ repls'[s] = repls[s] /\ repls[s] = NoReq /\ ~ file[s].torn
    BY <1>9 DEF Effects, At
  <2>2. file[s].open = {} /\ Delivered(s) \subseteq file[s].conv
    <3>1. file[s].open = {}  BY <1>4, <1>9
    <3> QED BY <3>1 DEF SoundFile
  <2>3. PICK o : o = Built(r)  OBVIOUS
  <2>4. o \in ReplObjects  BY <2>3 DEF Built, ReplObjects
  <2>5. obj'[o].conv = file[s].conv
    <3>1. obj' = [obj EXCEPT ![o] = [Blank EXCEPT !.conv = file[s].conv]]  BY <1>9, <2>3 DEF Effects, At
    <3> QED BY <1>0, <2>4, <3>1 DEF DataShapes, Blank
  <2>6. Built(r)' = o  BY <1>1, <1>2, <2>3 DEF Built
  <2>7. SoundFile(s)'  BY <1>5, <1>9, <2>1, <2>2 DEF SoundFile
  <2>8. SoundAnswer(r, s)'
    BY <1>1, <1>4, <1>5, <1>9, <2>1, <2>2, <2>5, <2>6 DEF SoundAnswer, UsingSteps
  <2> QED BY <1>6, <2>7, <2>8
<1>10. CASE th[r].pc = "register"
  <2>1. t.pc = "apply"  BY <1>2, <1>10 DEF Onward, Given
  <2>2. PICK o : o = Built(r)  OBVIOUS
  <2>3. o \in ReplObjects  BY <2>2 DEF Built, ReplObjects
  <2>4. file'[s] = file[s] /\ repls'[s] = o  BY <1>0, <1>10, <2>2 DEF Effects, At, DataShapes
  <2>5. obj'[o].conv = obj[o].conv /\ Delivered(s) \subseteq obj[o].conv
    BY <1>10, <2>2, <2>3, Conversations DEF At, SoundAnswer
  <2>6. t.uses = o  BY <1>10, <2>1, <2>2 DEF Walk, At
  <2>7. SoundFile(s)'  BY <1>5, <1>10, <2>4, <2>5 DEF SoundFile
  <2>8. SoundAnswer(r, s)'  BY <1>1, <1>4, <1>10, <2>1, <2>4, <2>6 DEF SoundAnswer
  <2> QED BY <1>6, <2>7, <2>8
<1>11. CASE th[r].pc = "run" /\ t.pc = "save"
  <2>1. t.uses = th[r].uses /\ repls[s] = th[r].uses /\ th[r].uses \in ReplObjects /\ th[r].uses # NoReq
    BY <1>7, <1>11, UsesOwn DEF Walk, At, UsingSteps
  <2>2. file'[s] = file[s] /\ repls'[s] = repls[s]  BY <1>11 DEF Effects, At
  <2>3. obj'[th[r].uses].conv = obj[th[r].uses].conv \cup {r}
    <3>1. obj' = [obj EXCEPT ![th[r].uses].conv = @ \cup {r}]  BY <1>11 DEF Effects, At
    <3> QED BY <1>0, <2>1, <3>1 DEF DataShapes
  <2>4. SoundFile(s)'  BY <1>5, <1>7, <1>11, <2>1, <2>2, <2>3 DEF SoundFile
  <2>5. SoundAnswer(r, s)'  BY <1>1, <1>4, <1>11, <2>1, <2>2, <2>3 DEF SoundAnswer
  <2> QED BY <1>6, <2>4, <2>5
<1>12. CASE th[r].pc = "save"
  <2>1. t.pc = "write" /\ t.uses = th[r].uses /\ t.snap = obj[th[r].uses].conv
    BY <1>2, <1>12 DEF Onward, Walk, At
  <2>2. repls[s] = th[r].uses /\ th[r].uses \in ReplObjects /\ th[r].uses # NoReq
    BY <1>7, <1>12, UsesOwn DEF UsingSteps
  <2>3. repls'[s] = repls[s] /\ obj' = obj  BY <1>12 DEF Effects, At
  <2>4. file'[s].open = file[s].open \cup {r} /\ ~ file'[s].clash
    <3>1. file' = [file EXCEPT ![s] =
                  [torn |-> TRUE, conv |-> {}, open |-> @.open \cup {r}, clash |-> @.clash \/ @.open # {}]]
      BY <1>12 DEF Effects, At
    <3>2. file[s].open = {}  BY <1>4, <1>12
    <3>3. ~ file[s].clash  BY DEF SoundFile
    <3> QED BY <1>0, <3>1, <3>2, <3>3 DEF DataShapes
  <2>5. SoundFile(s)'  BY <1>5, <1>7, <1>12, <2>2, <2>3, <2>4 DEF SoundFile
  <2>6. SoundAnswer(r, s)'
    BY <1>1, <1>2, <1>5, <1>7, <1>12, <2>1, <2>2, <2>3, <2>4 DEF SoundAnswer
  <2> QED BY <1>6, <2>5, <2>6
<1>13. CASE th[r].pc = "write"
  <2>1. t.pc = "final" /\ t.uses = th[r].uses  BY <1>2, <1>13 DEF Onward, Walk, At
  <2>2. repls[s] = th[r].uses /\ th[r].uses \in ReplObjects /\ th[r].uses # NoReq
    BY <1>7, <1>13, UsesOwn DEF UsingSteps
  <2>3. repls'[s] = repls[s] /\ obj' = obj  BY <1>13 DEF Effects, At
  <2>4. file'[s] = [torn |-> FALSE, conv |-> th[r].snap, open |-> file[s].open \ {r}, clash |-> FALSE]
    <3>1. PICK torn \in IF file[s].clash THEN BOOLEAN ELSE {FALSE} :
              file' = [file EXCEPT ![s] =
                       [torn |-> torn, conv |-> IF torn THEN {} ELSE th[r].snap, open |-> @.open \ {r},
                        clash |-> @.clash /\ @.open \ {r} # {}]]
      BY <1>13 DEF Effects, At
    <3>2. ~ file[s].clash  BY DEF SoundFile
    <3> QED BY <1>0, <3>1, <3>2 DEF DataShapes
  <2>5. Delivered(s) \cup {r} \subseteq th[r].snap  BY <1>13 DEF SoundAnswer
  <2>6. SoundFile(s)'  BY <1>5, <1>7, <1>13, <2>2, <2>3, <2>4, <2>5 DEF SoundFile
  <2>7. SoundAnswer(r, s)'
    BY <1>1, <1>7, <1>13, <2>1, <2>2, <2>3, <2>4, <2>5 DEF SoundAnswer
  <2> QED BY <1>6, <2>6, <2>7
<1>14. CASE th[r].pc = "final"
  <2>1. t.pc = "leave"  BY <1>2, <1>14 DEF Onward, Over
  <2>2. repls[s] = th[r].uses /\ r \in file[s].conv  BY <1>7, <1>14 DEF UsingSteps, SoundAnswer
  <2>3. file'[s] = file[s] /\ repls'[s] = repls[s] /\ obj' = obj  BY <1>14 DEF Effects, At
  <2>4. SoundFile(s)'  BY <1>5, <1>7, <1>14, <2>2, <2>3 DEF SoundFile
  <2>5. SoundAnswer(r, s)'  BY <1>1, <1>4, <1>14, <2>1, <2>3 DEF SoundAnswer, UsingSteps
  <2> QED BY <1>6, <2>4, <2>5
<1> QED BY <1>8, <1>9, <1>10, <1>11, <1>12, <1>13, <1>14 DEF Inside

\* Whoever takes the step, what is known of a session of streams remains.
LEMMA KeptInvStep == ASSUME WebInv, KeptInv, [WebNext]_webvars PROVE KeptInv'
<1>1. CASE UNCHANGED webvars
  BY <1>1 DEF webvars, KeptInv, StreamsOnly, SoundFile, SoundAnswer, Delivered, Built
<1>2. CASE Restart  BY <1>2 DEF Restart, KeptInv
<1>3. ASSUME NEW r \in Requests, Handle(r) PROVE KeptInv'
  <2>1. PICK t : Walk(r, t) /\ Effects(r, t)  BY <1>3, Walks DEF WebInv
  <2>2. SUFFICES ASSUME NEW s \in WebSessions, StreamsOnly(s)', ~ crashed'
                 PROVE  SoundFile(s)' /\ \A q \in Requests : SoundAnswer(q, s)'
    BY DEF KeptInv
  <2>3. StreamsOnly(s) /\ ~ crashed  BY <2>1, <2>2, StreamsOnlyBefore DEF Effects
  <2>4. SoundFile(s) /\ \A q \in Requests : SoundAnswer(q, s)  BY <2>3 DEF KeptInv
  <2>5. CASE th[r].sess = s /\ th[r].kind = "stream" /\ th[r].pc \in Inside
    BY <2>1, <2>2, <2>3, <2>4, <2>5, InsideKeeps
  <2>6. CASE ~ (th[r].sess = s /\ th[r].kind = "stream" /\ th[r].pc \in Inside)
    BY <2>1, <2>2, <2>3, <2>4, <2>6, OutsideSound
  <2> QED BY <2>5, <2>6
<1> QED BY <1>1, <1>2, <1>3 DEF WebNext

\* The invariant holds the answers.
LEMMA KeptInvKeeps == KeptInv => AnswersKept
BY DEF KeptInv, SoundFile, Delivered, AnswersKept

-----------------------------------------------------------------------------
(* Cancellations.                                                          *)
\* What a step may do to a cancellation that has reached stream r.
Sticks(r) ==
    /\ th[r].pc \in {"enter", "run"} /\ obj[th[r].uses].cancelled /\ th'[r].pc \in {"enter", "run"}
    => \/ obj'[th[r].uses].cancelled
       \/ \E c \in Requests : th[c].kind = "chat" /\ At(c, "apply") /\ th'[c].pc = "run"

\* The object is not built again while it is used, and the claims are written
\* into it by a run of the same session: by the stream itself, which is past
\* that, or by a direct chat.
LEMMA CancelSticksStep ==
  ASSUME WebInv, [WebNext]_webvars, NEW q \in Streams
  PROVE  Sticks(q)
<1> SUFFICES ASSUME th[q].pc \in {"enter", "run"}, obj[th[q].uses].cancelled, th'[q].pc \in {"enter", "run"}
             PROVE  \/ obj'[th[q].uses].cancelled
                    \/ \E c \in Requests : th[c].kind = "chat" /\ At(c, "apply") /\ th'[c].pc = "run"
  BY DEF Sticks
<1>0. WebShapes /\ Courses /\ DataShapes  BY DEF WebInv
<1>1. q \in Requests /\ th[q].kind = "stream"  BY DEF Streams
<1>2. th[q].uses \in ReplObjects /\ BuiltFor(th[q].uses, th[q].sess)  BY <1>1, UsesOwn DEF UsingSteps
<1>3. CASE UNCHANGED webvars  BY <1>3 DEF webvars
<1>4. CASE Restart  BY <1>1, <1>4, Restarts
<1>5. ASSUME NEW r \in Requests, Handle(r)
      PROVE  \/ obj'[th[q].uses].cancelled
             \/ \E c \in Requests : th[c].kind = "chat" /\ At(c, "apply") /\ th'[c].pc = "run"
  <2>1. PICK t : Walk(r, t) /\ Effects(r, t)  BY <1>0, <1>5, Walks
  <2>2. CASE At(r, "lookup") /\ t.pc = "register"
    <3>1. PICK o : o = Built(r)  OBVIOUS
    <3>2. o \in ReplObjects /\ Builder(o) = r /\ o[2] = (th[r].kind = "get")
      BY <3>1 DEF Built, Builder, ReplObjects
    <3>3. o # th[q].uses  BY <1>2, <2>2, <3>2 DEF BuiltFor, At, Unbuilt
    <3>4. obj' = [obj EXCEPT ![o] = [Blank EXCEPT !.conv = file[th[r].sess].conv]]
      BY <2>1, <2>2, <3>1 DEF Effects, At
    <3> QED BY <1>0, <1>2, <3>2, <3>3, <3>4 DEF DataShapes
  <2>3. CASE At(r, "apply")
    <3>1. obj' = [obj EXCEPT ![th[r].uses].job = th[r].job, ![th[r].uses].cancelled = FALSE]
      BY <2>1, <2>3 DEF Effects, At
    <3>2. CASE th[r].uses # th[q].uses  BY <1>0, <1>2, <3>1, <3>2 DEF DataShapes
    <3>3. CASE th[r].uses = th[q].uses
      <4>1. th[r].kind \in {"stream", "chat"}  BY <1>0, <2>3 DEF Courses, OnCourse, At
      <4>2. th[r].sess = th[q].sess  BY <1>2, <2>3, <3>3, <4>1, UsesOwn DEF UsingSteps, At, BuiltFor
      <4>3. th[r].kind = "chat"  BY <1>1, <2>3, <4>1, <4>2, OneInside DEF Inside, At
      <4>4. th'[r] = t  BY <1>0, <2>1, OnlyOne
      <4>5. t.pc = "run"  BY <2>1, <2>3, <4>3 DEF Walk, At, Onward
      <4> QED BY <2>3, <4>3, <4>4, <4>5
    <3> QED BY <3>2, <3>3
  <2>4. CASE ~ At(r, "apply") /\ ~ (At(r, "lookup") /\ t.pc = "register")
    <3>1. \/ obj' = [obj EXCEPT ![th[r].uses].conv = @ \cup {r}]
          \/ obj' = [obj EXCEPT ![th[r].uses].cancelled = TRUE]
          \/ obj' = obj
      BY <2>1, <2>4 DEF Effects, At
    <3>2. CASE obj' = [obj EXCEPT ![th[r].uses].conv = @ \cup {r}]
      <4>1. DOMAIN obj[th[q].uses] = {"job", "cancelled", "conv"}  BY <1>0, <1>2 DEF DataShapes
      <4>2. obj'[th[q].uses] = IF th[r].uses = th[q].uses
                               THEN [obj[th[q].uses] EXCEPT !.conv = @ \cup {r}] ELSE obj[th[q].uses]
        BY <1>0, <1>2, <3>2 DEF DataShapes
      <4>3. obj'[th[q].uses].cancelled = obj[th[q].uses].cancelled  BY <4>1, <4>2
      <4> QED BY <4>3
    <3>3. CASE obj' = [obj EXCEPT ![th[r].uses].cancelled = TRUE]
      <4>1. CASE th[r].uses = th[q].uses
        <5>1. DOMAIN obj[th[q].uses] = {"job", "cancelled", "conv"}  BY <1>0, <1>2 DEF DataShapes
        <5>2. obj'[th[q].uses] = [obj[th[q].uses] EXCEPT !.cancelled = TRUE]
          BY <1>0, <1>2, <3>3, <4>1 DEF DataShapes
        <5> QED BY <5>1, <5>2
      <4>2. CASE th[r].uses # th[q].uses
        <5>1. obj'[th[q].uses] = obj[th[q].uses]  BY <1>0, <1>2, <3>3, <4>2 DEF DataShapes
        <5> QED BY <5>1
      <4> QED BY <4>1, <4>2
    <3> QED BY <3>1, <3>2, <3>3
  <2> QED BY <2>2, <2>3, <2>4
<1> QED BY <1>3, <1>4, <1>5 DEF WebNext

-----------------------------------------------------------------------------
\* Every run slot is free or with one stream that will give it back.
THEOREM SlotsAlwaysAccounted == WebSpec => []SlotsAccounted
<1>1. WebInv /\ SlotInv /\ [WebNext]_webvars => WebInv' /\ SlotInv'  BY WebInvStep, SlotInvStep
<1>2. SlotInv => SlotsAccounted  BY DEF SlotInv
<1> QED BY WebInvInit, SlotInvInit, <1>1, <1>2, PTL DEF WebSpec

\* A cancellation never finds a finished run in the table of running jobs.
THEOREM RunningJobs == WebSpec => []RunningJobsExact
<1>1. WebInv /\ JobInv /\ [WebNext]_webvars => WebInv' /\ JobInv'  BY WebInvStep, JobInvStep
<1>2. JobInv => RunningJobsExact  BY DEF JobInv
<1> QED BY WebInvInit, JobInvInit, <1>1, <1>2, PTL DEF WebSpec

\* An answer that was sent stays in the session file.
THEOREM AnswersStay == WebSpec => []AnswersKept
<1>1. WebInv /\ KeptInv /\ [WebNext]_webvars => WebInv' /\ KeptInv'  BY WebInvStep, KeptInvStep
<1> QED BY WebInvInit, KeptInvInit, KeptInvKeeps, <1>1, PTL DEF WebSpec

\* A cancellation that reached a run is not cleared.
THEOREM CancellationSticks == WebSpec => CancelSticks
<1> DEFINE Stick == \A r \in Streams : /\ th[r].pc \in {"enter", "run"} /\ obj[th[r].uses].cancelled
                         /\ th'[r].pc \in {"enter", "run"}
         => \/ obj'[th[r].uses].cancelled
            \/ \E c \in Requests : th[c].kind = "chat" /\ At(c, "apply") /\ th'[c].pc = "run"
<1>1. WebInv /\ [WebNext]_webvars => [Stick]_webvars  BY CancelSticksStep DEF Sticks
<1>2. WebInv /\ [WebNext]_webvars => WebInv'  BY WebInvStep
<1> QED BY WebInvInit, <1>1, <1>2, PTL DEF WebSpec, CancelSticks

(***************************************************************************)
(* A completion read as a stream: each call keeps the name and the pieces  *)
(* of the arguments that came under its index, and the calls that are      *)
(* handed out are those.                                                   *)
(***************************************************************************)
AskFields ==
    {"at", "provider", "direct", "request", "requests", "shown", "text", "sent", "entries", "uses"}

CallsBegun(a) == {i \in 1 .. ReplyCalls : a.sent[i] > 0}
EntryOf(i, n) == [named |-> {i}, arguments |-> [k \in 1 .. n |-> <<i, k>>]]
NothingBegun(a) == a.sent = NoAsk.sent /\ a.entries = NoAsk.entries

\* Each entry is of one call: it has its name and the pieces of it that came.
EntriesKept(a) ==
    /\ DOMAIN a = AskFields
    /\ a.sent \in [1 .. ReplyCalls -> 0 .. ReplyPieces]
    /\ a.entries = [i \in CallsBegun(a) |-> EntryOf(i, a.sent[i])]

AskInv ==
    /\ EntriesKept(ask)
    /\ ask.at \in {"idle", "chosen", "streaming", "whole", "answered", "failed"}
    /\ ask.direct \/ ask.at \notin {"streaming", "answered"} => NothingBegun(ask)
    /\ ask.at = "answered" /\ Wire(ask.provider) = "completions" /\ ~NothingBegun(ask) =>
         ask.uses = [k \in DOMAIN ask.entries |-> Parsed(ask.entries[k])]

\* Where nothing was begun there is no entry.
LEMMA NoneBegun ==
  ASSUME NEW a, DOMAIN a = AskFields, NothingBegun(a)
  PROVE  EntriesKept(a)
<1>1. a.sent = [i \in 1 .. ReplyCalls |-> 0]  BY DEF NothingBegun, NoAsk
<1>2. CallsBegun(a) = {}  BY <1>1 DEF CallsBegun
<1>3. a.entries = [i \in {} |-> 0]  BY DEF NothingBegun, NoAsk
<1>4. a.entries = [i \in CallsBegun(a) |-> EntryOf(i, a.sent[i])]  BY <1>2, <1>3
<1>5. a.sent \in [1 .. ReplyCalls -> 0 .. ReplyPieces]  BY <1>1, ProviderAssumption
<1> QED BY <1>4, <1>5 DEF EntriesKept

\* One more piece in its place.
LEMMA NextPiece ==
  ASSUME NEW i, NEW n \in Nat
  PROVE  Append([k \in 1 .. n |-> <<i, k>>], <<i, n + 1>>) = [k \in 1 .. n + 1 |-> <<i, k>>]
<1> DEFINE s == [k \in 1 .. n |-> <<i, k>>]
           t == Append(s, <<i, n + 1>>)
<1>1. s \in Seq({i} \X Nat) /\ Len(s) = n  OBVIOUS
<1>2. <<i, n + 1>> \in {i} \X Nat  OBVIOUS
<1>3. /\ t \in Seq({i} \X Nat) /\ Len(t) = n + 1
      /\ \A k \in 1 .. n : t[k] = s[k]
      /\ t[n + 1] = <<i, n + 1>>
  BY <1>1, <1>2, AppendProperties
<1>4. \A k \in 1 .. n + 1 : t[k] = <<i, k>>  BY <1>3
<1> HIDE DEF t
<1>5. t \in [1 .. n + 1 -> {i} \X Nat]  BY <1>3, LenProperties
<1>6. t = [k \in 1 .. n + 1 |-> <<i, k>>]  BY <1>4, <1>5
<1> QED BY <1>6 DEF t

\* The piece that comes goes to the entry of its own call.
LEMMA PieceComes ==
  ASSUME AskInv, NEW i \in 1 .. ReplyCalls, ReceiveCall(i)
  PROVE  EntriesKept(ask') /\ ask'.at = "streaming" /\ ~ask'.direct
<1> DEFINE n == ask.sent[i]
           old == IF i \in DOMAIN ask.entries THEN ask.entries[i] ELSE NoEntry
           new == [named |-> IF n = 0 THEN old.named \cup {i} ELSE old.named,
                   arguments |-> Append(old.arguments, <<i, n + 1>>)]
<1>1. ask' = [ask EXCEPT !.sent[i] = n + 1, !.entries = [c \in DOMAIN ask.entries \cup {i} |-> IF c = i THEN new ELSE ask.entries[c]]]
  BY DEF ReceiveCall, Entry
<1>2. /\ DOMAIN ask = AskFields /\ ask.sent \in [1 .. ReplyCalls -> 0 .. ReplyPieces]
      /\ n \in Nat /\ n < ReplyPieces /\ ReplyPieces \in Nat
      /\ ask.at = "streaming" /\ ~ask.direct
  BY ProviderAssumption DEF AskInv, EntriesKept, ReceiveCall
<1>6. ask.entries = [k \in CallsBegun(ask) |-> EntryOf(k, ask.sent[k])]  BY DEF AskInv, EntriesKept
<1>7. new = EntryOf(i, n + 1)
  <2>1. CASE n = 0
    <3>1. i \notin DOMAIN ask.entries  BY <1>6, <2>1 DEF CallsBegun
    <3>2. old = NoEntry  BY <3>1
    <3>3. old.named \cup {i} = {i} /\ old.arguments = [k \in 1 .. 0 |-> <<i, k>>]
      BY <3>2 DEF NoEntry
    <3>4. Append(old.arguments, <<i, 0 + 1>>) = [k \in 1 .. 0 + 1 |-> <<i, k>>]  BY <3>3, NextPiece
    <3> QED BY <2>1, <3>3, <3>4 DEF EntryOf
  <2>2. CASE n # 0
    <3>1. i \in CallsBegun(ask)  BY <1>2, <2>2 DEF CallsBegun
    <3>2. old = EntryOf(i, n)  BY <1>6, <3>1
    <3> HIDE DEF old
    <3>3. old.named = {i} /\ old.arguments = [k \in 1 .. n |-> <<i, k>>]  BY <3>2 DEF EntryOf
    <3>4. Append(old.arguments, <<i, n + 1>>) = [k \in 1 .. n + 1 |-> <<i, k>>]
      BY <1>2, <3>3, NextPiece
    <3> QED BY <2>2, <3>3, <3>4 DEF EntryOf
  <2> QED BY <2>1, <2>2
<1> HIDE DEF new, old
<1>3. /\ DOMAIN ask' = AskFields /\ ask'.at = ask.at /\ ask'.direct = ask.direct
      /\ ask'.sent = [ask.sent EXCEPT ![i] = n + 1]
      /\ ask'.entries = [c \in DOMAIN ask.entries \cup {i} |-> IF c = i THEN new ELSE ask.entries[c]]
  BY <1>1, <1>2 DEF AskFields
<1>4. n + 1 \in 0 .. ReplyPieces  BY <1>2
<1>5. /\ ask'.sent \in [1 .. ReplyCalls -> 0 .. ReplyPieces] /\ ask'.sent[i] = n + 1
      /\ \A k \in 1 .. ReplyCalls : k # i => ask'.sent[k] = ask.sent[k]
  BY <1>2, <1>3, <1>4
<1>8. CallsBegun(ask') = CallsBegun(ask) \cup {i}  BY <1>2, <1>5 DEF CallsBegun
<1>9. ask'.entries = [k \in CallsBegun(ask') |-> EntryOf(k, ask'.sent[k])]
  <2>1. ask'.entries = [k \in CallsBegun(ask') |-> IF k = i THEN new ELSE ask.entries[k]]
    BY <1>3, <1>6, <1>8
  <2>2. \A k \in CallsBegun(ask') : (IF k = i THEN new ELSE ask.entries[k]) = EntryOf(k, ask'.sent[k])
    <3> SUFFICES ASSUME NEW k \in CallsBegun(ask')
                 PROVE  (IF k = i THEN new ELSE ask.entries[k]) = EntryOf(k, ask'.sent[k])
      OBVIOUS
    <3>1. CASE k = i  BY <1>5, <1>7, <3>1
    <3>2. CASE k # i
      <4>1. k \in CallsBegun(ask) /\ ask'.sent[k] = ask.sent[k]  BY <1>5, <1>8, <3>2 DEF CallsBegun
      <4> QED BY <1>6, <3>2, <4>1
    <3> QED BY <3>1, <3>2
  <2> QED BY <2>1, <2>2
<1> QED BY <1>2, <1>3, <1>5, <1>9 DEF EntriesKept

\* What does not touch the pieces of a call leaves their entries.
LEMMA PiecesStay ==
  ASSUME NEW a, NEW b, EntriesKept(a), DOMAIN b = AskFields, b.sent = a.sent, b.entries = a.entries
  PROVE  EntriesKept(b) /\ (NothingBegun(a) <=> NothingBegun(b))
<1>1. CallsBegun(b) = CallsBegun(a)  BY DEF CallsBegun
<1> QED BY <1>1 DEF EntriesKept, NothingBegun

\* A step of the model's call keeps the entries in order.
LEMMA AskStep ==
  ASSUME AskInv, [ProviderNext]_providervars
  PROVE  AskInv'
<1>0. DOMAIN ask = AskFields /\ EntriesKept(ask)  BY DEF AskInv, EntriesKept
<1>d. DOMAIN NoAsk = AskFields  BY DEF NoAsk, AskFields
<1> DEFINE Kept == DOMAIN ask' = AskFields /\ ask'.sent = ask.sent /\ ask'.entries = ask.entries
           Begins == ask'.at \in {"chosen", "streaming", "whole", "failed"}
\* Nothing was begun, or the stream goes on, or it ends without an answer.
<1>k. ASSUME Kept, Begins, NothingBegun(ask) \/ (ask'.at = "streaming" /\ ask'.direct = ask.direct /\ ask.at = "streaming")
      PROVE  AskInv'
  <2>1. EntriesKept(ask') /\ (NothingBegun(ask) <=> NothingBegun(ask'))  BY <1>0, <1>k, PiecesStay
  <2>2. ask'.direct \/ ask'.at \notin {"streaming", "answered"} => NothingBegun(ask)
    BY <1>k DEF AskInv
  <2> QED BY <1>k, <2>1, <2>2 DEF AskInv
<1>n. ASSUME DOMAIN ask' = AskFields, NothingBegun(ask'), ask'.at \in {"idle", "chosen", "whole", "answered", "failed"}
      PROVE  AskInv'
  <2>1. EntriesKept(ask')  BY <1>n, NoneBegun
  <2> QED BY <1>n, <2>1 DEF AskInv
<1>e. ask.direct \/ ask.at \notin {"streaming", "answered"} => NothingBegun(ask)  BY DEF AskInv
<1>1. ASSUME ask' = ask  PROVE AskInv'  BY <1>1 DEF AskInv
<1>2. ASSUME NEW p \in ModelProviders, NEW typed \in BOOLEAN, Configure(p, typed)  PROVE AskInv'
  BY <1>1, <1>2 DEF Configure
<1>15. CASE SetApiKey \/ SetDefaultProvider \/ SaveConfig \/ StopEdit
  <2>1. ask' = ask  BY <1>15 DEF SetApiKey, SetDefaultProvider, SaveConfig, StopEdit
  <2> QED BY <1>1, <2>1
<1>16. CASE UNCHANGED providervars
  BY <1>1, <1>16 DEF providervars
<1>3. ASSUME NEW direct \in BOOLEAN, ChooseProvider(direct)  PROVE AskInv'
  <2>1. DOMAIN ask' = AskFields /\ ask'.at = "chosen" /\ NothingBegun(ask')
    BY <1>3, <1>d DEF ChooseProvider, AskFields, NothingBegun, NoAsk
  <2> QED BY <1>n, <2>1
<1>4. CASE NextAsk
  <2>1. DOMAIN ask' = AskFields /\ ask'.at = "idle" /\ NothingBegun(ask')
    BY <1>4, <1>d DEF NextAsk, AskFields, NothingBegun, NoAsk
  <2> QED BY <1>n, <2>1
<1>5. CASE RefuseWithoutKey
  <2>1. Kept /\ Begins /\ NothingBegun(ask)  BY <1>0, <1>5, <1>e DEF RefuseWithoutKey, AskFields
  <2> QED BY <1>k, <2>1
<1>6. ASSUME NEW history \in Turns, SendRequest(history)  PROVE AskInv'
  <2>1. Kept /\ Begins /\ NothingBegun(ask)  BY <1>0, <1>6, <1>e DEF SendRequest, AskFields
  <2> QED BY <1>k, <2>1
<1>7. CASE ReceiveText \/ ShowText
  <2>1. Kept /\ Begins /\ ask'.at = "streaming" /\ ask'.direct = ask.direct /\ ask.at = "streaming"
    BY <1>0, <1>7 DEF ReceiveText, ShowText, AskFields
  <2> QED BY <1>k, <2>1
<1>8. ASSUME NEW i \in 1 .. ReplyCalls, ReceiveCall(i)  PROVE AskInv'
  <2>1. EntriesKept(ask') /\ ask'.at = "streaming" /\ ~ask'.direct  BY <1>8, PieceComes
  <2> QED BY <2>1 DEF AskInv
<1>9. CASE BreakStream
  <2>1. CASE ask.direct
    <3>1. Kept /\ Begins /\ NothingBegun(ask)  BY <1>0, <1>9, <1>e, <2>1 DEF BreakStream, GiveUpDirect, AskFields
    <3> QED BY <1>k, <3>1
  <2>2. CASE ~ask.direct
    <3>1. ask' = [Dropped(ask) EXCEPT !.at = "whole", !.requests = @ + 1]  BY <1>9, <2>2 DEF BreakStream
    <3>2. /\ DOMAIN Dropped(ask) = AskFields /\ Dropped(ask).sent = NoAsk.sent
          /\ Dropped(ask).entries = NoAsk.entries
      BY <1>0 DEF Dropped, AskFields
    <3> HIDE DEF Dropped
    <3>3. DOMAIN ask' = AskFields /\ ask'.at = "whole" /\ NothingBegun(ask')
      BY <3>1, <3>2 DEF AskFields, NothingBegun
    <3> QED BY <1>n, <3>3
  <2> QED BY <2>1, <2>2
<1>10. ASSUME NEW whole \in BOOLEAN, EndStream(whole)  PROVE AskInv'
  <2>1. CASE ask.direct /\ ask.text = 0
    <3>1. Kept /\ Begins /\ NothingBegun(ask)  BY <1>0, <1>10, <1>e, <2>1 DEF EndStream, AskFields
    <3> QED BY <1>k, <3>1
  <2>2. CASE ask.direct /\ ask.text # 0
    <3>1. Kept /\ ask'.at = "answered" /\ NothingBegun(ask)  BY <1>0, <1>10, <1>e, <2>2 DEF EndStream, AskFields
    <3>2. NothingBegun(ask')  BY <1>0, <3>1, PiecesStay
    <3> QED BY <1>n, <3>1, <3>2
  <2>3. CASE ~ask.direct
    <3>1. ask' = [ask EXCEPT !.at = "answered", !.uses = ToolUses(whole)]  BY <1>10, <2>3 DEF EndStream
    <3>2. /\ Kept /\ ask'.at = "answered" /\ ask'.uses = ToolUses(whole) /\ ~ask'.direct
          /\ ask'.provider = ask.provider
      BY <1>0, <2>3, <3>1 DEF AskFields
    <3>3. EntriesKept(ask')  BY <1>0, <3>2, PiecesStay
    <3>4. Wire(ask.provider) = "completions" => ask'.uses = [k \in DOMAIN ask.entries |-> Parsed(ask.entries[k])]
      BY <3>2 DEF ToolUses
    <3> QED BY <3>2, <3>3, <3>4 DEF AskInv
  <2> QED BY <2>1, <2>2, <2>3
<1>11. ASSUME NEW calls \in SUBSET (1 .. ReplyCalls), NEW bad \in SUBSET calls, AnswerWhole(calls, bad)
       PROVE  AskInv'
  <2>1. Kept /\ ask'.at = "answered" /\ NothingBegun(ask)  BY <1>0, <1>11, <1>e DEF AnswerWhole, AskFields
  <2>2. NothingBegun(ask')  BY <1>0, <2>1, PiecesStay
  <2> QED BY <1>n, <2>1, <2>2
<1>12. CASE FailWhole
  <2>1. Kept /\ Begins /\ NothingBegun(ask)  BY <1>0, <1>12, <1>e DEF FailWhole, GiveUpDirect, AskFields
  <2> QED BY <1>k, <2>1
<1>13. ASSUME NEW calls \in SUBSET (1 .. ReplyCalls),
              AnswerMessage(calls) \/ \E bad \in SUBSET calls : AnswerCompletion(calls, bad) \/ AnswerResponse(calls, bad)
       PROVE  AskInv'
  <2>1. CASE AnswerMessage(calls)
    <3>1. AnswerWhole(calls, {})  BY <2>1 DEF AnswerMessage
    <3>2. {} \in SUBSET calls  OBVIOUS
    <3> QED BY <1>11, <3>1, <3>2
  <2>2. ASSUME NEW bad \in SUBSET calls, AnswerCompletion(calls, bad) \/ AnswerResponse(calls, bad)
        PROVE  AskInv'
    <3>1. AnswerWhole(calls, bad)  BY <2>2 DEF AnswerCompletion, AnswerResponse
    <3> QED BY <1>11, <3>1
  <2> QED BY <1>13, <2>1, <2>2
<1>14. CASE ProviderNext
  BY <1>14, <1>2, <1>3, <1>4, <1>5, <1>6, <1>7, <1>8, <1>9, <1>10, <1>12, <1>13, <1>15 DEF ProviderNext
<1> QED BY <1>14, <1>16

\* The calls of an answer, when the entries are in order.
LEMMA EntriesGiveCalls == AskInv => CallsWhole
<1> SUFFICES ASSUME AskInv, ask.at = "answered", Wire(ask.provider) = "completions",
                    ask.entries # NoAsk.entries
             PROVE  /\ DOMAIN ask.uses = CallsBegun(ask)
                    /\ \A i \in DOMAIN ask.uses :
                         ask.entries[i].named = {i} /\ (ask.uses[i] = "given" <=> ask.sent[i] = ReplyPieces)
  BY DEF CallsWhole, CallsBegun
<1>1. ask.uses = [k \in DOMAIN ask.entries |-> Parsed(ask.entries[k])]  BY DEF AskInv, NothingBegun
<1>2. ask.entries = [i \in CallsBegun(ask) |-> EntryOf(i, ask.sent[i])]  BY DEF AskInv, EntriesKept
<1>3. DOMAIN ask.uses = CallsBegun(ask)  BY <1>1, <1>2
<1>4. ASSUME NEW i \in CallsBegun(ask)
      PROVE  ask.entries[i].named = {i} /\ (ask.uses[i] = "given" <=> ask.sent[i] = ReplyPieces)
  <2> DEFINE n == ask.sent[i]
  <2>1. /\ ReplyCalls \in Nat /\ ReplyPieces \in Nat /\ ReplyPieces > 0 /\ i \in 1 .. ReplyCalls
        /\ n \in 1 .. ReplyPieces
    BY ProviderAssumption DEF AskInv, EntriesKept, CallsBegun
  <2>2. ask.entries[i] = EntryOf(i, n)  BY <1>2
  <2>3. ask.uses[i] = Parsed(EntryOf(i, n))  BY <1>1, <1>2, <2>2
  <2> HIDE DEF n
  <2>4. Parsed(EntryOf(i, n)) = "given" <=>
          \E l \in 1 .. ReplyCalls : [k \in 1 .. n |-> <<i, k>>] = [k \in 1 .. ReplyPieces |-> <<l, k>>]
    BY DEF Parsed, EntryOf
  <2>5. ASSUME NEW l \in 1 .. ReplyCalls, [k \in 1 .. n |-> <<i, k>>] = [k \in 1 .. ReplyPieces |-> <<l, k>>]
        PROVE  n = ReplyPieces
    <3>1. DOMAIN [k \in 1 .. n |-> <<i, k>>] = DOMAIN [k \in 1 .. ReplyPieces |-> <<l, k>>]  BY <2>5
    <3>2. 1 .. n = 1 .. ReplyPieces  BY <3>1
    <3> QED BY <2>1, <3>2
  <2>6. Parsed(EntryOf(i, n)) = "given" <=> n = ReplyPieces  BY <2>1, <2>4, <2>5
  <2> QED BY <2>2, <2>3, <2>6 DEF EntryOf, n
<1> QED BY <1>3, <1>4

\* A stream of completions gives the calls that were begun in it, each with its own name and
\* with its own arguments, in whichever order the pieces come and for any number of them.
THEOREM StreamedCalls == ProviderSpec => []CallsWhole
<1>1. ProviderInit => AskInv
  <2> SUFFICES ASSUME ProviderInit PROVE AskInv  OBVIOUS
  <2>1. DOMAIN ask = AskFields /\ NothingBegun(ask) /\ ask.at = "idle"
    BY DEF ProviderInit, NoAsk, AskFields, NothingBegun
  <2>2. EntriesKept(ask)  BY <2>1, NoneBegun
  <2> QED BY <2>1, <2>2 DEF AskInv
<1> QED BY <1>1, AskStep, EntriesGiveCalls, PTL DEF ProviderSpec

(***************************************************************************)
(* The chat that goes with a run: what a session that is opened again      *)
(* shows as an answer is the text of the run it stands for.                *)
(***************************************************************************)
RunFields ==
    {"at", "run", "provider", "listens", "open", "uses", "results", "errors", "flow", "speaks", "silent"}
ConversationFields == {"provider", "talk", "phase", "uses", "results"}

\* What a run that answers says in the conversation is its own.
OwnMessages ==
    {m \in [who : {"user", "answer", "calls"}, run : Nat, text : Nat, trace : Nat] :
       m.text = m.run /\ m.trace \in {0, m.run}}
OwnSession(s) == DOMAIN s = ConversationFields /\ s.talk \in Seq(OwnMessages)

\* The last message is the answer of the run.
AnswerIsLast(talk, n) ==
    /\ talk # <<>> /\ talk[Len(talk)].who = "answer"
    /\ talk[Len(talk)].run = n /\ talk[Len(talk)].text # 0

ReportInv ==
    /\ DOMAIN answering = RunFields /\ answering.run \in Nat
    /\ answering.at # "idle" => answering.run > 0
    /\ ~answering.silent =>
         /\ OwnSession(memory) /\ OwnSession(stored)
         /\ answering.at \in {"final", "save"} => AnswerIsLast(memory.talk, answering.run)

-----------------------------------------------------------------------------
\* Of a set of positions that has the last one, that is the greatest.
LEMMA LastIsGreatest ==
  ASSUME NEW n \in Nat, NEW S \in SUBSET (1 .. n), n \in S
  PROVE  Max(S) = n
<1>1. \A y \in S : n >= y  OBVIOUS
<1>2. \A x \in S : (\A y \in S : x >= y) => x = n  OBVIOUS
<1>3. Max(S) \in S /\ \A y \in S : Max(S) >= y  BY <1>1 DEF Max
<1> QED BY <1>2, <1>3

\* A message is of the run that says it.
LEMMA MessagesAreOwn ==
  ASSUME NEW who \in {"user", "answer", "calls"}, NEW n \in Nat
  PROVE  /\ Message(who, n) \in OwnMessages
         /\ Message(who, n).who = who /\ Message(who, n).run = n /\ Message(who, n).text = n
BY DEF Message, OwnMessages

\* What is kept beside the conversation does not change it.
LEMMA TelemetryKeeps ==
  ASSUME NEW s, OwnSession(s), NEW phase
  PROVE  OwnSession(Telemetry(s, phase)) /\ Telemetry(s, phase).talk = s.talk
BY DEF OwnSession, Telemetry, ConversationFields

\* A conversation of own messages in the place of another.
LEMMA TalkReplaced ==
  ASSUME NEW s, OwnSession(s), NEW talk \in Seq(OwnMessages)
  PROVE  OwnSession([s EXCEPT !.talk = talk]) /\ [s EXCEPT !.talk = talk].talk = talk
BY DEF OwnSession, ConversationFields

\* Whichever session is opened, its messages are its own.
LEMMA OpenedIsOwn ==
  ASSUME OwnSession(memory), OwnSession(stored)
  PROVE  /\ OwnSession(NoSession) /\ OwnSession([NoSession EXCEPT !.provider = answering.provider])
         /\ OwnSession(OpenedSession)
<1>1. DOMAIN NoSession = ConversationFields /\ NoSession.talk \in Seq(OwnMessages)
  BY DEF NoSession, ConversationFields
<1>2. OwnSession(NoSession)  BY <1>1 DEF OwnSession
<1>3. OwnSession([NoSession EXCEPT !.provider = answering.provider])
  BY <1>1 DEF OwnSession, ConversationFields
<1> QED BY <1>2, <1>3 DEF OpenedSession

\* The answer that is appended is the one that gets the text.
LEMMA AnswerAppended ==
  ASSUME NEW talk \in Seq(OwnMessages), NEW n \in Nat, n > 0
  PROVE  /\ Concluded(talk, n, "answer") = Append(talk, Message("answer", n))
         /\ Append(talk, Message("answer", n)) \in Seq(OwnMessages)
         /\ AnswerIsLast(Append(talk, Message("answer", n)), n)
<1> DEFINE m == Message("answer", n)  t == Append(talk, m)  said == {i \in DOMAIN t : t[i].who # "user"}
<1>1. m \in OwnMessages /\ m.who = "answer" /\ m.run = n /\ m.text = n /\ m = [m EXCEPT !.who = "answer", !.text = n]
  <2>1. "answer" \in {"user", "answer", "calls"}  OBVIOUS
  <2>2. m \in OwnMessages /\ m.who = "answer" /\ m.run = n /\ m.text = n  BY <2>1, MessagesAreOwn
  <2>3. DOMAIN m = {"who", "run", "text", "trace"} /\ m = [f \in DOMAIN m |-> m[f]]  BY DEF Message
  <2> HIDE DEF m
  <2>4. [m EXCEPT !.who = "answer"] = m  BY <2>2, <2>3
  <2>5. [m EXCEPT !.text = n] = m  BY <2>2, <2>3
  <2>6. m = [m EXCEPT !.who = "answer", !.text = n]  BY <2>4, <2>5
  <2> QED BY <2>2, <2>6
<1> HIDE DEF m
<1>2. /\ t \in Seq(OwnMessages) /\ Len(t) = Len(talk) + 1 /\ t[Len(t)] = m /\ Len(t) \in Nat
      /\ DOMAIN t = 1 .. Len(t) /\ t # <<>>
  BY <1>1, AppendProperties, LenProperties
<1> HIDE DEF t
<1>3. Len(t) \in said /\ said \in SUBSET (1 .. Len(t))  BY <1>1, <1>2
<1>4. Max(said) = Len(t)  BY <1>2, <1>3, LastIsGreatest
<1>5. ReplaceLastAnswer(t, n) = [t EXCEPT ![Len(t)].who = "answer", ![Len(t)].text = n]
  BY <1>3, <1>4 DEF ReplaceLastAnswer
<1>6. [t EXCEPT ![Len(t)].who = "answer", ![Len(t)].text = n] = [t EXCEPT ![Len(t)] = [m EXCEPT !.who = "answer", !.text = n]]
  BY <1>2, <1>3
<1>7. ReplaceLastAnswer(t, n) = t  BY <1>1, <1>2, <1>5, <1>6
<1>8. Concluded(talk, n, "answer") = t  BY <1>7 DEF Concluded, t, m
<1>9. AnswerIsLast(t, n)  BY <1>1, <1>2 DEF AnswerIsLast
<1> QED BY <1>2, <1>8, <1>9 DEF t, m

\* The trace of a run that has answered goes to its own answer.
LEMMA TraceIsOwn ==
  ASSUME NEW talk \in Seq(OwnMessages), answering.run \in Nat, AnswerIsLast(talk, answering.run)
  PROVE  Traced(talk) \in Seq(OwnMessages)
<1>1. CASE answering.uses + answering.errors = 0 \/ Spoken(talk) = {}
  BY <1>1 DEF Traced
<1>2. CASE ~(answering.uses + answering.errors = 0 \/ Spoken(talk) = {})
  <2> DEFINE n == Len(talk)
  <2>1. n \in Nat /\ n > 0 /\ DOMAIN talk = 1 .. n /\ talk \in [1 .. n -> OwnMessages]
    BY LenProperties, EmptySeq DEF AnswerIsLast
  <2>2. n \in Spoken(talk) /\ Spoken(talk) \in SUBSET (1 .. n)  BY <2>1 DEF Spoken, AnswerIsLast
  <2>3. Max(Spoken(talk)) = n  BY <2>1, <2>2, LastIsGreatest
  <2>4. Traced(talk) = [talk EXCEPT ![n] = [talk[n] EXCEPT !.trace = answering.run]]
    BY <1>2, <2>1, <2>3 DEF Traced
  <2>5. [talk[n] EXCEPT !.trace = answering.run] \in OwnMessages
    BY <2>1 DEF OwnMessages, AnswerIsLast
  <2>6. Traced(talk) \in [1 .. n -> OwnMessages]  BY <2>1, <2>4, <2>5
  <2> QED BY <2>1, <2>6
<1> QED BY <1>1, <1>2

\* The end of a run forgets what it did, and not which it was.
LEMMA EndedFields ==
  ASSUME DOMAIN answering = RunFields
  PROVE  /\ DOMAIN Ended = RunFields /\ Ended.run = answering.run /\ Ended.at = "idle"
         /\ Ended.silent = answering.silent
BY DEF Ended, RunFields

\* A step keeps the messages the own ones of their runs.
LEMMA ReportStep ==
  ASSUME ReportInv, [ReportNext]_reportvars
  PROVE  ReportInv'
<1>1. DOMAIN answering = RunFields /\ answering.run \in Nat /\ (answering.at # "idle" => answering.run > 0)
  BY DEF ReportInv
<1> DEFINE Kept(at) == DOMAIN answering' = RunFields /\ answering'.run = answering.run /\ answering'.at = at
                       /\ (answering.silent => answering'.silent)
\* The run goes on, or is over.
<1>2. ASSUME NEW at, Kept(at), at # "idle" => answering.at # "idle",
             ~answering.silent => /\ OwnSession(memory') /\ OwnSession(stored')
                                  /\ at \in {"final", "save"} => AnswerIsLast(memory'.talk, answering.run)
      PROVE  ReportInv'
  BY <1>1, <1>2 DEF ReportInv
<1>3. ASSUME UNCHANGED <<memory, stored>>, NEW at, Kept(at), at \in {"idle", answering.at} \/ (at \notin {"final", "save"} /\ answering.at # "idle")
      PROVE  ReportInv'
  BY <1>1, <1>3 DEF ReportInv
<1>4. ASSUME answering'.silent, DOMAIN answering' = RunFields, answering'.run = answering.run,
             answering'.at # "idle" => answering.at # "idle"
      PROVE  ReportInv'
  BY <1>1, <1>4 DEF ReportInv
<1>o. ASSUME ~answering.silent
      PROVE  /\ OwnSession(memory) /\ OwnSession(stored) /\ OwnSession(NoSession) /\ OwnSession(OpenedSession)
             /\ OwnSession([NoSession EXCEPT !.provider = answering.provider])
  BY <1>o, OpenedIsOwn DEF ReportInv
<1>e. DOMAIN Ended = RunFields /\ Ended.run = answering.run /\ Ended.at = "idle" /\ Ended.silent = answering.silent
  BY <1>1, EndedFields
<1>5. CASE SwitchProvider
  <2>1. Kept("idle") /\ UNCHANGED <<memory, stored>>  BY <1>1, <1>5 DEF SwitchProvider, Idle0, RunFields
  <2> QED BY <1>3, <2>1
<1>6. CASE ShowSession
  <2>1. Kept("idle") /\ memory' = OpenedSession /\ stored' = stored  BY <1>1, <1>6 DEF ShowSession, Idle0
  <2> QED BY <1>2, <1>o, <2>1
<1>7. CASE NewSession
  <2>1. /\ Kept("idle") /\ stored' = memory'
        /\ memory' \in {stored, [NoSession EXCEPT !.provider = answering.provider]}
    BY <1>1, <1>7 DEF NewSession, Idle0
  <2> QED BY <1>2, <1>o, <2>1
<1>8. CASE AnswerByTable
  <2> DEFINE n == answering.run + 1
             session == IF stored.provider = 0 THEN [NoSession EXCEPT !.provider = answering.provider] ELSE stored
             more == <<Message("user", n), Message("answer", n)>>
  <2>1. /\ DOMAIN answering' = RunFields /\ answering'.run = n /\ answering'.at = "idle"
        /\ answering'.silent = answering.silent /\ memory' = memory
        /\ stored' = [session EXCEPT !.talk = session.talk \o more, !.phase = "final", !.uses = 0, !.results = 0]
    BY <1>1, <1>8 DEF AnswerByTable, Idle0, RunFields
  <2>2. more \in Seq(OwnMessages)
    <3>1. Message("user", n) \in OwnMessages /\ Message("answer", n) \in OwnMessages
      BY <1>1, MessagesAreOwn
    <3> QED BY <3>1
  <2>3. ASSUME ~answering.silent PROVE OwnSession(stored')
    <3>1. OwnSession(session)  BY <1>o, <2>3
    <3> HIDE DEF session, more
    <3>2. session.talk \o more \in Seq(OwnMessages)  BY <2>2, <3>1, ConcatProperties DEF OwnSession
    <3> QED BY <2>1, <3>1, <3>2 DEF OwnSession, ConversationFields
  <2> QED BY <1>1, <1>o, <2>1, <2>3 DEF ReportInv
<1>9. CASE AskRun
  <2> DEFINE m == Message("user", answering.run + 1)
  <2>1. /\ DOMAIN answering' = RunFields /\ answering'.run = answering.run + 1 /\ answering'.at = "ingest"
        /\ answering'.silent = answering.silent /\ stored' = stored
        /\ memory' = Telemetry([OpenedSession EXCEPT !.talk = Append(OpenedSession.talk, m)], "ingest")
    BY <1>1, <1>9 DEF AskRun, RunFields
  <2>2. m \in OwnMessages  BY <1>1, MessagesAreOwn
  <2> HIDE DEF m
  <2>3. ASSUME ~answering.silent PROVE OwnSession(memory')
    <3>1. OwnSession(OpenedSession)  BY <1>o, <2>3
    <3>2. Append(OpenedSession.talk, m) \in Seq(OwnMessages)  BY <2>2, <3>1, AppendProperties DEF OwnSession
    <3>3. OwnSession([OpenedSession EXCEPT !.talk = Append(OpenedSession.talk, m)])
      BY <3>1, <3>2, TalkReplaced
    <3> QED BY <2>1, <3>3, TelemetryKeeps
  <2> QED BY <1>1, <1>o, <2>1, <2>3 DEF ReportInv
<1>10. CASE SendIngest
  <2>1. (Kept("idle") \/ Kept("running")) /\ answering.at = "ingest" /\ UNCHANGED <<memory, stored>>
    BY <1>1, <1>10, <1>e DEF SendIngest, RunFields
  <2> QED BY <1>3, <2>1
<1>11. CASE LineBreaks
  <2>1. Kept(answering.at) /\ UNCHANGED <<memory, stored>>  BY <1>1, <1>11 DEF LineBreaks, RunFields
  <2> QED BY <1>3, <2>1
<1>12. CASE CallTool \/ RefuseCall
  <2> DEFINE talk == WithCalls(memory.talk)
  <2>1. /\ Kept("running") /\ answering.at = "running" /\ stored' = stored
        /\ \E phase : memory' = NotedEvent([memory EXCEPT !.talk = talk], phase)
    BY <1>1, <1>12 DEF CallTool, RefuseCall, RunFields
  <2>2. ASSUME ~answering.silent PROVE OwnSession(memory')
    <3>1. OwnSession(memory)  BY <1>o, <2>2
    <3>2. Message("calls", answering.run) \in OwnMessages  BY <1>1, MessagesAreOwn
    <3>3. talk \in Seq(OwnMessages)  BY <3>1, <3>2, AppendProperties DEF OwnSession, WithCalls
    <3> HIDE DEF talk
    <3>4. OwnSession([memory EXCEPT !.talk = talk])  BY <3>1, <3>3, TalkReplaced
    <3>5. PICK phase : memory' = NotedEvent([memory EXCEPT !.talk = talk], phase)  BY <2>1
    <3> QED BY <3>4, <3>5, TelemetryKeeps DEF NotedEvent
  <2> QED BY <1>2, <1>o, <2>1, <2>2
<1>13. CASE ReportResult
  <2>1. /\ Kept("running") /\ answering.at = "running" /\ stored' = stored
        /\ memory' = NotedEvent(memory, "tool_result")
    BY <1>1, <1>13 DEF ReportResult, RunFields
  <2>2. ASSUME ~answering.silent PROVE OwnSession(memory')
    BY <1>o, <2>1, <2>2, TelemetryKeeps DEF NotedEvent
  <2> QED BY <1>2, <1>o, <2>1, <2>2
<1>14. CASE FirstText
  <2>1. /\ Kept("running") /\ answering.at = "running" /\ stored' = stored
        /\ memory' = Telemetry(memory, "stream")
    BY <1>1, <1>14 DEF FirstText, RunFields
  <2>2. ASSUME ~answering.silent PROVE OwnSession(memory')
    BY <1>o, <2>1, <2>2, TelemetryKeeps
  <2> QED BY <1>2, <1>o, <2>1, <2>2
<1>15. CASE AbortRun \/ RestartRuntime
  <2>1. /\ answering'.silent /\ DOMAIN answering' = RunFields /\ answering'.run = answering.run
        /\ answering'.at = "idle"
    BY <1>15, <1>e DEF AbortRun, RestartRuntime, RunFields
  <2> QED BY <1>4, <2>1
<1>16. ASSUME NEW how \in {"answer", "blank", "blocked", "turns"}, Conclude(how)  PROVE ReportInv'
  <2>1. /\ DOMAIN answering' = RunFields /\ answering'.run = answering.run /\ answering'.at = "final"
        /\ answering'.silent = (answering.silent \/ how # "answer") /\ answering.at = "running"
        /\ stored' = stored /\ memory' = [memory EXCEPT !.talk = Concluded(memory.talk, answering.run, how)]
    BY <1>1, <1>16 DEF Conclude, RunFields
  <2>2. CASE answering.silent \/ how # "answer"  BY <1>4, <2>1, <2>2
  <2>3. CASE ~(answering.silent \/ how # "answer")
    <3> DEFINE talk == Append(memory.talk, Message("answer", answering.run))
    <3>1. OwnSession(memory) /\ answering.run > 0  BY <1>1, <1>o, <2>1, <2>3
    <3>2. talk \in Seq(OwnMessages) /\ AnswerIsLast(talk, answering.run)
          /\ Concluded(memory.talk, answering.run, how) = talk
      BY <1>1, <2>3, <3>1, AnswerAppended DEF OwnSession
    <3> HIDE DEF talk
    <3>3. OwnSession(memory') /\ memory'.talk = talk  BY <2>1, <3>1, <3>2, TalkReplaced
    <3>4. Kept("final")  BY <2>1, <2>3
    <3> QED BY <1>2, <1>o, <2>1, <2>3, <3>2, <3>3, <3>4
  <2> QED BY <2>2, <2>3
<1>17. CASE AnswerWorkflowRun
  <2> DEFINE talk == Append(memory.talk, Message("answer", answering.run))
  <2>1. /\ Kept("final") /\ answering.at = "running" /\ stored' = stored
        /\ memory' = [memory EXCEPT !.talk = talk]
    BY <1>1, <1>17 DEF AnswerWorkflowRun, RunFields
  <2>2. ASSUME ~answering.silent PROVE OwnSession(memory') /\ AnswerIsLast(memory'.talk, answering.run)
    <3>1. OwnSession(memory) /\ answering.run > 0  BY <1>1, <1>o, <2>1, <2>2
    <3>2. talk \in Seq(OwnMessages) /\ AnswerIsLast(talk, answering.run)
      BY <1>1, <3>1, AnswerAppended DEF OwnSession
    <3> HIDE DEF talk
    <3>3. OwnSession(memory') /\ memory'.talk = talk  BY <2>1, <3>1, <3>2, TalkReplaced
    <3> QED BY <3>2, <3>3
  <2> QED BY <1>2, <1>o, <2>1, <2>2
<1>18. CASE SendFinalTelemetry
  <2>1. /\ Kept("idle") \/ Kept("save")
        /\ answering.at = "final" /\ stored' = stored /\ memory' = Telemetry(memory, "final")
    BY <1>1, <1>18, <1>e DEF SendFinalTelemetry, RunFields
  <2>2. ASSUME ~answering.silent PROVE OwnSession(memory') /\ AnswerIsLast(memory'.talk, answering.run)
    <3>1. OwnSession(memory) /\ AnswerIsLast(memory.talk, answering.run)  BY <2>1, <2>2 DEF ReportInv
    <3> QED BY <2>1, <3>1, TelemetryKeeps
  <2> QED BY <1>2, <1>o, <2>1, <2>2
<1>19. CASE SaveSession
  <2>1. /\ Kept("told") /\ answering.at = "save" /\ stored' = memory'
        /\ memory' = [memory EXCEPT !.talk = Traced(memory.talk)]
    BY <1>1, <1>19 DEF SaveSession, RunFields
  <2>2. ASSUME ~answering.silent PROVE OwnSession(memory')
    <3>1. OwnSession(memory) /\ AnswerIsLast(memory.talk, answering.run)  BY <2>1, <2>2 DEF ReportInv
    <3>2. Traced(memory.talk) \in Seq(OwnMessages)  BY <1>1, <3>1, TraceIsOwn DEF OwnSession
    <3> QED BY <2>1, <3>1, <3>2, TalkReplaced
  <2> QED BY <1>2, <2>1, <2>2
<1>20. CASE TellFinal
  <2>1. Kept("idle") /\ UNCHANGED <<memory, stored>>  BY <1>1, <1>20, <1>e DEF TellFinal
  <2> QED BY <1>3, <2>1
<1>21. CASE UNCHANGED reportvars
  <2>1. Kept(answering.at) /\ UNCHANGED <<memory, stored>>  BY <1>1, <1>21 DEF reportvars
  <2> QED BY <1>3, <2>1
<1> QED
  BY <1>5, <1>6, <1>7, <1>8, <1>9, <1>10, <1>11, <1>12, <1>13, <1>14, <1>15, <1>16, <1>17, <1>18, <1>19, <1>20, <1>21
  DEF ReportNext

\* Own messages give own answers.
LEMMA OwnMessagesGiveAnswers == ReportInv => AnswersAreOwn
<1> SUFFICES ASSUME ReportInv, ~answering.silent, NEW i \in ShownTalk
             PROVE  OpenedSession.talk[i].text = OpenedSession.talk[i].run
                    /\ OpenedSession.talk[i].trace \in {0, OpenedSession.talk[i].run}
  BY DEF AnswersAreOwn
<1>1. OwnSession(OpenedSession)  BY OpenedIsOwn DEF ReportInv
<1>2. i \in DOMAIN OpenedSession.talk  BY DEF ShownTalk
<1>3. OpenedSession.talk[i] \in OwnMessages  BY <1>1, <1>2 DEF OwnSession
<1> QED BY <1>3 DEF OwnMessages

\* As long as every run ended with an answer of its own, what the page is shown has the text and
\* the trace of the run that gave it, for any number of runs, calls and steps that are shown.
THEOREM OwnAnswers == ReportSpec => []AnswersAreOwn
<1>1. ReportInit => ReportInv
  <2> SUFFICES ASSUME ReportInit PROVE ReportInv  OBVIOUS
  <2>1. DOMAIN answering = RunFields /\ answering.run = 0 /\ answering.at = "idle"
    BY DEF ReportInit, RunFields
  <2>2. memory = NoSession /\ stored = NoSession /\ OwnSession(NoSession)
    BY DEF ReportInit, NoSession, OwnSession, ConversationFields
  <2> QED BY <2>1, <2>2 DEF ReportInv
<1> QED BY <1>1, ReportStep, OwnMessagesGiveAnswers, PTL DEF ReportSpec

-----------------------------------------------------------------------------
(* The lease of the scheduler *)

\* p admits jobs under a lease that has not run out.
Admits(p) == leaders[p].at = "scheduling" /\ leases.now < leaders[p].until

\* The key of whoever admits jobs is its own, and does not end before its time.
KeyOfAdmitting ==
    leases.backend # "off" =>
        \A p \in Schedulers : Admits(p) => leases.owner = p /\ leases.until >= leaders[p].until

LeaseInv == LeaseTypeOK /\ KeyOfAdmitting

-----------------------------------------------------------------------------
(* Type correctness.                                                       *)
Lease == [now : 0..MaxClock, backend : {"unset", "off", "memory", "redis"},
          owner : Schedulers \cup {NoOwner}, until : 0..(MaxClock + LeaseTime)]
Leader == [at : {"idle", "leading", "recovered", "scheduling", "stopped"},
           leads : BOOLEAN, until : 0..(MaxClock + LeaseTime)]

\* A key that p takes or extends now is of its type.
LEMMA HeldTypes ==
  ASSUME LeaseTypeOK, NEW p \in Schedulers
  PROVE  Held(p) \in Lease /\ leases.now + LeaseTime \in 0..(MaxClock + LeaseTime)
<1>1. leases \in Lease  BY DEF LeaseTypeOK, Lease
<1>2. leases.now \in 0..MaxClock  BY <1>1 DEF Lease
<1>3. leases.now + LeaseTime \in 0..(MaxClock + LeaseTime)  BY <1>2, LeaseAssumption
<1> QED BY <1>1, <1>3 DEF Held, Lease

\* Whatever is answered, a request leaves the key as it was or gives it to p,
\* and a request that is granted gives it to p.
LEMMA AcquireGives ==
  ASSUME NEW p \in Schedulers, NEW answered \in BOOLEAN, Acquire(p, answered)
  PROVE  /\ leases' = leases \/ (leases' = Held(p) /\ MayAcquire(p))
         /\ answered => leases' = Held(p)
BY DEF Acquire

\* An extension that is granted leaves the key with p, and one refused as it was.
LEMMA ExtendGives ==
  ASSUME NEW p \in Schedulers, NEW answered \in BOOLEAN, Extend(p, answered)
  PROVE  /\ leases' = leases \/ (leases' = Held(p) /\ MayExtend(p))
         /\ answered => leases' = Held(p)
BY DEF Extend

\* A release frees the key, or leaves it as it was.
LEMMA ReleaseGives ==
  ASSUME NEW p \in Schedulers, Release(p)
  PROVE  \/ leases' = leases
         \/ leases' = [leases EXCEPT !.owner = NoOwner, !.until = 0] /\ leases.owner = p
BY DEF Release, MayRelease

\* The variables are of their types at first.
LEMMA LeaseTypeInit == LeaseInit => LeaseTypeOK
BY LeaseAssumption DEF LeaseInit, LeaseTypeOK

\* Each step keeps the variables of their types.
LEMMA LeaseTypeStep ==
  ASSUME LeaseTypeOK, [LeaseNext]_leasevars
  PROVE  LeaseTypeOK'
<1>0. leases \in Lease /\ leaders \in [Schedulers -> Leader]  BY DEF LeaseTypeOK, Lease, Leader
<1> SUFFICES leases' \in Lease /\ leaders' \in [Schedulers -> Leader]  BY DEF LeaseTypeOK, Lease, Leader
<1>1. CASE UNCHANGED leasevars  BY <1>0, <1>1 DEF leasevars
<1>2. ASSUME NEW backend \in {"off", "memory", "redis"}, Deploy(backend)
      PROVE  leases' \in Lease /\ leaders' \in [Schedulers -> Leader]
  BY <1>0, <1>2 DEF Deploy, Lease
<1>3. CASE PassTime  BY <1>0, <1>3, LeaseAssumption DEF PassTime, Lease
<1>4. ASSUME NEW p \in Schedulers, EnsureLeader(p)
      PROVE  leases' \in Lease /\ leaders' \in [Schedulers -> Leader]
  <2>1. leases' = leases \/ leases' = Held(p)  BY <1>4, AcquireGives DEF EnsureLeader
  <2>2. leaders' \in [Schedulers -> Leader]  BY <1>0, <1>4 DEF EnsureLeader, Leader
  <2> QED BY <1>0, <2>1, <2>2, HeldTypes
<1>5. ASSUME NEW p \in Schedulers, RenewLeader(p)
      PROVE  leases' \in Lease /\ leaders' \in [Schedulers -> Leader]
  <2>1. leases' = leases \/ leases' = Held(p)  BY <1>5, ExtendGives DEF RenewLeader
  <2>2. leases.now \in 0..(MaxClock + LeaseTime) /\ leases.now + LeaseTime \in 0..(MaxClock + LeaseTime)
    <3>1. leases.now \in 0..MaxClock  BY <1>0 DEF Lease
    <3> QED BY <3>1, HeldTypes, LeaseAssumption
  <2>3. leaders' \in [Schedulers -> Leader]
    <3>1. PICK leader \in Leader : leaders' = [leaders EXCEPT ![p] = leader]
      <4>1. CASE leases.backend = "off"
        <5>1. leaders' = [leaders EXCEPT ![p] = [leaders[p] EXCEPT !.at = "scheduling", !.until = leases.now]]
          BY <1>0, <1>5, <4>1 DEF RenewLeader, Leader
        <5>2. [leaders[p] EXCEPT !.at = "scheduling", !.until = leases.now] \in Leader
          BY <1>0, <2>2 DEF Leader
        <5> QED BY <5>1, <5>2
      <4>2. CASE leases.backend # "off"
        <5>1. PICK answered \in BOOLEAN : leaders' = [leaders EXCEPT ![p] =
                IF answered THEN [at |-> "scheduling", leads |-> TRUE, until |-> leases.now + LeaseTime]
                            ELSE [@ EXCEPT !.at = "idle", !.leads = FALSE]]
          BY <1>5, <4>2 DEF RenewLeader
        <5>2. [at |-> "scheduling", leads |-> TRUE, until |-> leases.now + LeaseTime] \in Leader
          BY <2>2 DEF Leader
        <5>3. [leaders[p] EXCEPT !.at = "idle", !.leads = FALSE] \in Leader  BY <1>0 DEF Leader
        <5> QED BY <5>1, <5>2, <5>3
      <4> QED BY <4>1, <4>2
    <3> QED BY <1>0, <3>1
  <2> QED BY <1>0, <2>1, <2>3, HeldTypes
<1>6. ASSUME NEW p \in Schedulers, RecoverStalled(p) \/ StopScheduling(p) \/ BreakLoop(p) \/ CrashProcess(p)
      PROVE  leases' \in Lease /\ leaders' \in [Schedulers -> Leader]
  BY <1>0, <1>6 DEF RecoverStalled, StopScheduling, BreakLoop, CrashProcess, Leader
<1>7. ASSUME NEW p \in Schedulers, StopProcess(p)
      PROVE  leases' \in Lease /\ leaders' \in [Schedulers -> Leader]
  <2>1. leases' = leases \/ leases' = [leases EXCEPT !.owner = NoOwner, !.until = 0]
    BY <1>7, ReleaseGives DEF StopProcess
  <2>2. leaders' \in [Schedulers -> Leader]  BY <1>0, <1>7 DEF StopProcess, Leader
  <2>3. 0 \in 0..(MaxClock + LeaseTime)  BY LeaseAssumption
  <2>4. leases' \in Lease  BY <1>0, <2>1, <2>3 DEF Lease
  <2> QED BY <2>2, <2>4
<1> QED BY <1>1, <1>2, <1>3, <1>4, <1>5, <1>6, <1>7 DEF LeaseNext

-----------------------------------------------------------------------------
(* The key of the process that admits jobs.                                *)
\* Nobody admits jobs at first.
LEMMA KeyInit == LeaseInit => KeyOfAdmitting
BY DEF LeaseInit, KeyOfAdmitting, Admits

\* No step takes the key from a process that goes on admitting jobs.
LEMMA KeyStep ==
  ASSUME LeaseTypeOK, KeyOfAdmitting, [LeaseNext]_leasevars
  PROVE  KeyOfAdmitting'
<1>0. leases \in Lease /\ leaders \in [Schedulers -> Leader]  BY DEF LeaseTypeOK, Lease, Leader
<1> SUFFICES ASSUME leases'.backend # "off", NEW q \in Schedulers, Admits(q)'
             PROVE  leases'.owner = q /\ leases'.until >= leaders'[q].until
  BY DEF KeyOfAdmitting
<1>1. CASE UNCHANGED leasevars  BY <1>1 DEF leasevars, KeyOfAdmitting, Admits
\* Nobody has done anything before the backend is chosen, and nobody admits.
<1>2. ASSUME NEW backend \in {"off", "memory", "redis"}, Deploy(backend)
      PROVE  leases'.owner = q /\ leases'.until >= leaders'[q].until
  BY <1>0, <1>2 DEF Deploy, KeyOfAdmitting, Admits, Lease
<1>3. CASE PassTime
  BY <1>0, <1>3, LeaseAssumption DEF PassTime, KeyOfAdmitting, Admits, Lease, Leader
\* The key of q runs, so only its owner could take it, and not while it admits.
<1>4. ASSUME NEW p \in Schedulers, EnsureLeader(p)
      PROVE  leases'.owner = q /\ leases'.until >= leaders'[q].until
  <2>1. p # q /\ leaders'[q] = leaders[q]  BY <1>0, <1>4 DEF EnsureLeader, Admits, Leader
  <2>2. leases' = leases \/ (leases' = Held(p) /\ MayAcquire(p))
    BY <1>4, AcquireGives DEF EnsureLeader
  <2>3. leases'.now = leases.now /\ leases'.backend = leases.backend  BY <1>0, <2>2 DEF Held, Lease
  <2>4. leases.owner = q /\ leases.until >= leaders[q].until
    BY <2>1, <2>3 DEF KeyOfAdmitting, Admits
  <2>5. ~ MayAcquire(p)
    BY <1>0, <2>1, <2>3, <2>4, LeaseAssumption DEF MayAcquire, LeaseRuns, Admits, Lease, Leader
  <2> QED BY <2>1, <2>2, <2>4, <2>5
<1>5. ASSUME NEW p \in Schedulers, RenewLeader(p)
      PROVE  leases'.owner = q /\ leases'.until >= leaders'[q].until
  <2>1. PICK answered \in BOOLEAN :
          /\ Extend(p, answered)
          /\ leaders' = [leaders EXCEPT ![p] =
                IF answered THEN [at |-> "scheduling", leads |-> TRUE, until |-> leases.now + LeaseTime]
                            ELSE [@ EXCEPT !.at = "idle", !.leads = FALSE]]
    BY <1>5 DEF RenewLeader
  <2>2. /\ leases' = leases \/ (leases' = Held(p) /\ leases.owner = p)
        /\ answered => leases' = Held(p)
    BY <2>1, ExtendGives DEF MayExtend
  <2>3. leases'.now = leases.now /\ leases'.backend = leases.backend  BY <1>0, <2>2 DEF Held, Lease
  <2>4. CASE q = p
    <3>1. answered  BY <1>0, <2>1, <2>4 DEF Admits, Leader
    <3>2. leases'.owner = p /\ leases'.until = leases.now + LeaseTime  BY <1>0, <2>2, <3>1 DEF Held, Lease
    <3>3. leaders'[p].until = leases.now + LeaseTime  BY <1>0, <2>1, <3>1
    <3>4. leases.now + LeaseTime \in Nat  BY HeldTypes
    <3> QED BY <2>4, <3>2, <3>3, <3>4
  <2>5. CASE q # p
    <3>1. leaders'[q] = leaders[q]  BY <1>0, <2>1, <2>5
    <3>2. leases.owner = q /\ leases.until >= leaders[q].until
      BY <2>3, <3>1 DEF KeyOfAdmitting, Admits
    <3> QED BY <2>2, <2>5, <3>1, <3>2
  <2> QED BY <2>4, <2>5
\* The key stays as it is, and p does not admit.
<1>6. ASSUME NEW p \in Schedulers, RecoverStalled(p) \/ StopScheduling(p) \/ BreakLoop(p) \/ CrashProcess(p)
      PROVE  leases'.owner = q /\ leases'.until >= leaders'[q].until
  <2>1. leases' = leases /\ leaders'[q] = leaders[q]
    BY <1>0, <1>6 DEF RecoverStalled, StopScheduling, BreakLoop, CrashProcess, Admits, Leader
  <2> QED BY <2>1 DEF KeyOfAdmitting, Admits
\* A process returns only a key of its own.
<1>7. ASSUME NEW p \in Schedulers, StopProcess(p)
      PROVE  leases'.owner = q /\ leases'.until >= leaders'[q].until
  <2>1. p # q /\ leaders'[q] = leaders[q]  BY <1>0, <1>7 DEF StopProcess, Admits, Leader
  <2>2. \/ leases' = leases
        \/ leases' = [leases EXCEPT !.owner = NoOwner, !.until = 0] /\ leases.owner = p
    BY <1>7, ReleaseGives DEF StopProcess
  <2>3. leases'.now = leases.now /\ leases'.backend = leases.backend  BY <1>0, <2>2 DEF Lease
  <2>4. leases.owner = q /\ leases.until >= leaders[q].until
    BY <2>1, <2>3 DEF KeyOfAdmitting, Admits
  <2> QED BY <2>1, <2>2, <2>4
<1> QED BY <1>1, <1>2, <1>3, <1>4, <1>5, <1>6, <1>7 DEF LeaseNext

-----------------------------------------------------------------------------
\* The key of whoever admits jobs is its own, in every behaviour.
THEOREM LeaseInvariant == LeaseSpec => []LeaseInv
<1>1. LeaseInit => LeaseInv  BY LeaseTypeInit, KeyInit DEF LeaseInv
<1>2. LeaseInv /\ [LeaseNext]_leasevars => LeaseInv'  BY LeaseTypeStep, KeyStep DEF LeaseInv
<1> QED BY <1>1, <1>2, PTL DEF LeaseSpec

\* No two processes admit jobs at one time: the scheduler loop of one is over,
\* or its lease is, before another is given the key.
THEOREM OneLeader == LeaseSpec => []OneScheduler
<1>1. LeaseInv => OneScheduler  BY DEF LeaseInv, KeyOfAdmitting, Admits, OneScheduler
<1> QED BY <1>1, LeaseInvariant, PTL
=============================================================================
