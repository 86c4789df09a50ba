----------------------------- MODULE RoundRobin -----------------------------
(***************************************************************************)
(* The deficit round robin of the job service: the rotation of user keys,  *)
(* the set that says who is in it, the credits, and the scheduler's round. *)
(* AgentJobs has the same keys and queues and leaves the credits open;     *)
(* here the credits are exact, and locks, tokens and rows, which AgentJobs *)
(* has, are answers that may come out either way.                          *)
(***************************************************************************)
EXTENDS Naturals, Sequences, FiniteSets, SequencesExt, Ordering

CONSTANTS
    Users,         \* tenant and user: each has one queue
    Asks,          \* the jobs that may be created: user, session, estimated cost
    Quantum,       \* base_quantum
    MaxCredit,     \* max_credit
    Concurrency,   \* worker_concurrency
    MaxCreated,    \* bound on the jobs
    MaxTroubles    \* bound on the failures that queue a job again and the restarts

Nobody == "nobody"

ASSUME RobinAssumption ==
    /\ Quantum \in Nat \ {0} /\ MaxCredit \in Nat /\ Concurrency \in Nat /\ Nobody \notin Users
    /\ \A ask \in Asks : ask.user \in Users /\ ask.cost \in Nat \ {0}

VARIABLES
    rotation,   \* the keys in their order, the set of those that are listed,
                \* and the credit of each
    chatjobs,   \* the jobs: user, session, cost, and whether queued, active or ended
    waitlists,  \* user -> jobs in the order of their queue
    occupied,   \* _running_sessions
    hand,       \* what the scheduler has taken and how far it is with it
    tally,      \* requeues and restarts so far
    passed      \* user -> turns that others got while its first job waited, and
                \* the most entries that others had in the rotation meanwhile

robinvars == <<rotation, chatjobs, waitlists, occupied, hand, tally, passed>>

EmptyHand == [at |-> "none", user |-> Nobody, job |-> 0]
NoRotation == [keys |-> <<>>, listed |-> {}, credit |-> [u \in Users |-> 0]]

Sess(j) == <<chatjobs[j].user, chatjobs[j].chat>>
Mark(j, status) == chatjobs' = [chatjobs EXCEPT ![j].status = status]
QueuedNow(j) == chatjobs[j].status = "queued"

Trouble(kind) ==
    /\ tally.requeues + tally.restarts < MaxTroubles
    /\ tally' = [tally EXCEPT ![kind] = @ + 1]

\* A key enters at the end, unless the set says that it is there.
Ask(r, u) ==
    IF u \in r.listed THEN r ELSE [r EXCEPT !.keys = Append(@, u), !.listed = @ \cup {u}]

\* The same without a look at the set.
Reenter(r, u) == [r EXCEPT !.keys = Append(@, u), !.listed = @ \cup {u}]

Unlist(r, u) == [r EXCEPT !.listed = @ \ {u}]

-----------------------------------------------------------------------------
(* Jobs come and are cancelled.                                            *)
CreateRound(ask) ==
    /\ Len(chatjobs) < MaxCreated
    /\ chatjobs' = Append(chatjobs, [user |-> ask.user, chat |-> ask.chat, cost |-> ask.cost, status |-> "queued"])
    /\ waitlists' = [waitlists EXCEPT ![ask.user] = Append(@, Len(chatjobs) + 1)]
    /\ rotation' = Ask(rotation, ask.user)
    /\ UNCHANGED <<occupied, hand, tally>>

\* The key stays in the rotation; a session in which another job runs is no
\* longer taken for occupied.
CancelQueued(j) ==
    /\ QueuedNow(j) /\ Mark(j, "ended")
    /\ waitlists' = [waitlists EXCEPT ![chatjobs[j].user] = RemoveFirst(@, j)]
    /\ occupied' = occupied \ {Sess(j)}
    /\ UNCHANGED <<rotation, hand, tally>>

-----------------------------------------------------------------------------
(* One round of the scheduler, from the selection to the end of dispatch.  *)
\* A key with an empty queue leaves and loses its credit, one whose first job
\* is too dear or whose session is occupied goes to the end with more credit.
Visit(r) ==
    LET u == Head(r.keys)
        first == waitlists[u][1]
        credit == IF r.credit[u] + Quantum > MaxCredit THEN MaxCredit ELSE r.credit[u] + Quantum
        left == [r EXCEPT !.keys = Tail(@)]
        paid == [left EXCEPT !.credit[u] = credit]
    IN IF r.taken # Nobody THEN r
       ELSE IF waitlists[u] = <<>> THEN [Unlist(left, u) EXCEPT !.credit[u] = 0]
       ELSE IF credit < chatjobs[first].cost \/ Sess(first) \in occupied
            THEN [paid EXCEPT !.keys = Append(@, u)]
       ELSE [Unlist(paid, u) EXCEPT !.taken = u]

\* As many visits as there are entries at the start; the first key that may run
\* is taken.
Round ==
    LET start == [keys |-> rotation.keys, listed |-> rotation.listed, credit |-> rotation.credit, taken |-> Nobody]
        visited[n \in 0 .. Len(rotation.keys)] == IF n = 0 THEN start ELSE Visit(visited[n - 1])
    IN visited[Len(rotation.keys)]

SelectNext ==
    /\ hand = EmptyHand /\ Cardinality(occupied) < Concurrency
    /\ rotation' = [keys |-> Round.keys, listed |-> Round.listed, credit |-> Round.credit]
    /\ hand' = IF Round.taken = Nobody THEN EmptyHand
               ELSE [at |-> "taken", user |-> Round.taken, job |-> waitlists[Round.taken][1]]
    /\ UNCHANGED <<chatjobs, waitlists, occupied, tally>>

TakenHead == waitlists[hand.user] # <<>> /\ waitlists[hand.user][1] = hand.job
LayDown == hand' = EmptyHand

\* load_job raises: the key is not in the rotation any more.
LoadFails ==
    /\ hand.at = "taken" /\ LayDown
    /\ UNCHANGED <<rotation, chatjobs, waitlists, occupied, tally>>

CheckRow ==
    /\ hand.at = "taken" /\ QueuedNow(hand.job)
    /\ hand' = [hand EXCEPT !.at = "checked"]
    /\ UNCHANGED <<rotation, chatjobs, waitlists, occupied, tally>>

\* The job was cancelled in the meantime, or its row is ahead of it and is
\* believed.
DropStale ==
    /\ hand.at = "taken" /\ LayDown
    /\ \/ ~QueuedNow(hand.job) /\ UNCHANGED chatjobs
       \/ QueuedNow(hand.job) /\ \E status \in {"active", "ended"} : Mark(hand.job, status)
    /\ waitlists' = IF TakenHead THEN [waitlists EXCEPT ![hand.user] = Tail(@)] ELSE waitlists
    /\ LET r == Unlist(rotation, hand.user)
       IN rotation' = IF waitlists'[hand.user] # <<>> THEN Ask(r, hand.user) ELSE r
    /\ UNCHANGED <<occupied, tally>>

\* Mutant: the key that was refused is tried again first.
LockRefusedInFront ==
    /\ hand.at = "checked" /\ LayDown
    /\ rotation' = [rotation EXCEPT !.keys = <<hand.user>> \o @, !.listed = @ \cup {hand.user}]
    /\ UNCHANGED <<chatjobs, waitlists, occupied, tally>>

\* The lock of the session is held, or the job went away while it was asked for.
LockRefused ==
    /\ hand.at = "checked" /\ LayDown
    /\ rotation' = Reenter(rotation, hand.user)
    /\ UNCHANGED <<chatjobs, waitlists, occupied, tally>>

AdmissionLost ==
    /\ hand.at = "checked" /\ ~(TakenHead /\ QueuedNow(hand.job)) /\ LayDown
    /\ rotation' = Reenter(rotation, hand.user)
    /\ UNCHANGED <<chatjobs, waitlists, occupied, tally>>

Charged(credit, cost) == IF credit > cost THEN credit - cost ELSE 0

Admit ==
    /\ hand.at = "checked" /\ TakenHead /\ QueuedNow(hand.job)
    /\ waitlists' = [waitlists EXCEPT ![hand.user] = Tail(@)]
    /\ rotation' = [rotation EXCEPT !.credit[hand.user] = Charged(@, chatjobs[hand.job].cost)]
    /\ occupied' = occupied \cup {Sess(hand.job)}
    /\ Mark(hand.job, "active")
    /\ hand' = [hand EXCEPT !.at = "admitted"]
    /\ UNCHANGED tally

\* A key with more jobs enters without a look at the set, which a job that was
\* created during the dispatch has entered it into.
FinishDispatch ==
    /\ hand.at = "admitted" /\ LayDown
    /\ rotation' = IF waitlists[hand.user] # <<>> THEN Reenter(rotation, hand.user)
                   ELSE Unlist(rotation, hand.user)
    /\ UNCHANGED <<chatjobs, waitlists, occupied, tally>>

\* A dispatch that fails puts the job back in front, or ends it and leaves the
\* key where it is.  A job that was settled, swept or is being cancelled cannot
\* change its status, and the exception comes after it is in the queue.
FailDispatch ==
    /\ hand.at = "admitted" /\ LayDown
    /\ occupied' = occupied \ {Sess(hand.job)}
    /\ LET after(status) == IF chatjobs[hand.job].status = "active" THEN Mark(hand.job, status) ELSE UNCHANGED chatjobs
       IN \/ after("ended") /\ UNCHANGED <<rotation, waitlists, tally>>
          \/ /\ Trouble("requeues")
             /\ after("queued") \/ UNCHANGED chatjobs
             /\ waitlists' = [waitlists EXCEPT ![hand.user] = <<hand.job>> \o @]
             /\ rotation' = Ask(rotation, hand.user)

-----------------------------------------------------------------------------
(* What happens to admitted jobs meanwhile.                                *)
\* A job that is cancelled, or whose retry or sweep finds no attempt left, frees
\* its session at once, any other outcome leaves that to the end of the execution.
EndJob(j) ==
    /\ chatjobs[j].status = "active" /\ Mark(j, "ended")
    /\ occupied' \in {occupied, occupied \ {Sess(j)}}
    /\ UNCHANGED <<rotation, waitlists, hand, tally>>

\* The end of an execution frees the session without a look at its token: one
\* that was replaced does so too, when another job may run in the session.
LeaveSession(j) ==
    /\ chatjobs[j].status = "ended" \/ tally.requeues > 0
    /\ Sess(j) \in occupied /\ occupied' = occupied \ {Sess(j)}
    /\ UNCHANGED <<rotation, chatjobs, waitlists, hand, tally>>

\* A retry of the worker, or the sweep over leases that have run out.
RequeueJob(j) ==
    /\ chatjobs[j].status = "active" /\ Mark(j, "queued")
    /\ Trouble("requeues")
    /\ occupied' = occupied \ {Sess(j)}
    /\ LET u == chatjobs[j].user
       IN /\ waitlists' = [waitlists EXCEPT ![u] = IF Contains(@, j) THEN @ ELSE <<j>> \o @]
          /\ rotation' = Ask(rotation, u)
    /\ UNCHANGED hand

\* The queues come back in the order of creation, without credits; what was to
\* be cancelled ends.
RestartRobin ==
    /\ Trouble("restarts")
    /\ \E gone \in SUBSET {j \in DOMAIN chatjobs : chatjobs[j].status = "active"} :
         chatjobs' = [j \in DOMAIN chatjobs |->
                        IF j \in gone THEN [chatjobs[j] EXCEPT !.status = "ended"]
                        ELSE IF chatjobs[j].status = "active" THEN [chatjobs[j] EXCEPT !.status = "queued"]
                        ELSE chatjobs[j]]
    /\ LET restored == {j \in DOMAIN chatjobs : chatjobs'[j].status = "queued"}
           Of(u) == {j \in restored : chatjobs[j].user = u}
           firsts == {j \in restored : \A i \in Of(chatjobs[j].user) : j <= i}
       IN /\ waitlists' = [u \in Users |-> InOrder(Of(u))]
          /\ rotation' = [keys |-> Selected([j \in DOMAIN chatjobs |-> chatjobs[j].user], firsts),
                          listed |-> {u \in Users : Of(u) # {}}, credit |-> NoRotation.credit]
    /\ occupied' = {} /\ LayDown

-----------------------------------------------------------------------------
(* The history that the property needs.                                    *)
OthersEntries(u) == Cardinality({i \in DOMAIN rotation.keys : rotation.keys[i] # u})

\* Listed, and nothing but its turn or its credit keeps the first job back.
Waits(u) ==
    /\ Contains(rotation.keys, u) /\ waitlists[u] # <<>>
    /\ Sess(waitlists[u][1]) \notin occupied
    /\ chatjobs[waitlists[u][1]].cost <= MaxCredit

Takes(u) == hand.at = "none" /\ hand'.at = "taken" /\ hand'.user = u

\* The count starts again with another first job and with a turn of one's own.
Watch ==
    passed' = [u \in Users |->
        LET most == IF OthersEntries(u)' > passed[u].most THEN OthersEntries(u)' ELSE passed[u].most
            taken == \E v \in Users \ {u} : Takes(v)
        IN IF /\ Waits(u) /\ Waits(u)' /\ ~Takes(u)
              /\ waitlists'[u][1] = waitlists[u][1] /\ tally'.restarts = tally.restarts
           THEN [turns |-> passed[u].turns + IF taken THEN 1 ELSE 0, most |-> most]
           ELSE [turns |-> 0, most |-> OthersEntries(u)']]

-----------------------------------------------------------------------------
RobinInit ==
    /\ rotation = NoRotation /\ chatjobs = <<>> /\ waitlists = [u \in Users |-> <<>>]
    /\ occupied = {} /\ hand = EmptyHand /\ tally = [requeues |-> 0, restarts |-> 0]
    /\ passed = [u \in Users |-> [turns |-> 0, most |-> 0]]

RobinStep ==
    \/ \E ask \in Asks : CreateRound(ask)
    \/ \E j \in DOMAIN chatjobs : CancelQueued(j) \/ EndJob(j) \/ LeaveSession(j) \/ RequeueJob(j)
    \/ SelectNext \/ LoadFails \/ CheckRow \/ DropStale \/ LockRefused \/ AdmissionLost
    \/ Admit \/ FinishDispatch \/ FailDispatch \/ RestartRobin

RobinNext == RobinStep /\ Watch

RobinSpec == RobinInit /\ [][RobinNext]_robinvars

-----------------------------------------------------------------------------
RobinTypeOK ==
    LET ids == 1 .. MaxCreated
    IN /\ rotation.keys \in Seq(Users) /\ rotation.listed \subseteq Users
       /\ rotation.credit \in [Users -> 0 .. MaxCredit]
       /\ chatjobs \in Seq({ask @@ [status |-> s] : ask \in Asks, s \in {"queued", "active", "ended"}})
       /\ waitlists \in [Users -> Seq(ids)] /\ occupied \subseteq {<<ask.user, ask.chat>> : ask \in Asks}
       /\ hand \in [at : {"none", "taken", "checked", "admitted"}, user : Users \cup {Nobody}, job : {0} \cup ids]
       /\ tally \in [{"requeues", "restarts"} -> 0 .. MaxTroubles]
       /\ passed \in [Users -> [turns : Nat, most : Nat]]

\* The visits after which the credit reaches the cost of the first job.
Visits(u) == (chatjobs[waitlists[u][1]].cost + Quantum - 1) \div Quantum

\* While only its turn and its credit keep the first job of a user back, the
\* others get no more turns than they have entries in the rotation, as often as
\* the credit needs visits: whoever creates, cancels, fails, is retried or
\* refused meanwhile.
TurnsAreFair ==
    \A u \in Users : Waits(u) => passed[u].turns <= Visits(u) * passed[u].most
=============================================================================
