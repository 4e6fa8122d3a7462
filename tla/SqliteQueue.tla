----------------------------- MODULE SqliteQueue -----------------------------
(***************************************************************************)
(* Queues that share one database, src/src/queue/SqliteQueue.ts: the rows  *)
(* of queue_jobs with their leases, the requests in queue_control, and     *)
(* what each SqliteQueue holds in memory.  The order of jobs, slots,       *)
(* delays and the rate limiter are MailQueue's; here a pending job may     *)
(* start, and an attempt may end, at any time.                             *)
(*                                                                         *)
(* A statement of SQL is atomic.  A queue runs restoreJobs() without a     *)
(* pause, but the other queues run between its SELECT and each of its      *)
(* claims.  Queues are instances, in one process or in several; a name is  *)
(* used again for a new instance when the old one is gone.                 *)
(***************************************************************************)
EXTENDS Naturals, FiniteSets

CONSTANTS
  Queues,
  Nobody,      \* the owner of a row that nobody has claimed
  Gone,        \* the owner of a row whose queue died
  Jobs,
  MaxRetries,  \* options.maxRetries
  Mishaps,     \* what may happen: "crash": a process dies, "stall": it stands
               \* still for longer than a lease, "replace": MailTs.configure
               \* replaces the queue, "unreadable": a row cannot be decoded,
               \* "shutdown", and the requests of the command line: "cancel",
               \* "interrupt", "abort", "requeue", "clear"
  MaxMishaps   \* bounds how many of these happen

ASSUME SqliteQueueConstants ==
  /\ IsFiniteSet(Queues) /\ IsFiniteSet(Jobs)
  /\ Nobody \notin Queues /\ Gone \notin Queues \cup {Nobody}
  /\ MaxRetries \in Nat /\ MaxMishaps \in Nat

\* Definitions that are used nowhere below are variants of the definition that
\* follows them, each with a mistake that a property is meant to catch.

VARIABLES
  row,        \* the table queue_jobs
  request,    \* the table queue_control
  life,       \* the state of each queue
  stalled,    \* the queues whose process stands still
  held,       \* the jobs each queue has in memory
  todo,       \* the rows restoreJobs() has read and not yet tried to claim
  delivered,  \* how often the server accepted each job, up to 2
  mishaps,    \* how many mishaps there were
  overran     \* whether a queue has gone on without its leases

vars == <<row, request, life, stalled, held, todo, delivered, mishaps, overran>>

Active == {"pending", "scheduled", "running"}
Statuses == Active \cup {"absent", "success", "dead", "cancelled"}
Attempts == 0..(MaxRetries + 1 + MaxMishaps)
Reasons == {"none", "cancel", "interrupt", "abort"}

Row == [status : Statuses, attempts : Attempts,
        owner : Queues \cup {Nobody, Gone}, lapsed : BOOLEAN]
NoRow == [status |-> "absent", attempts |-> 0, owner |-> Nobody, lapsed |-> FALSE]

\* "sent": the server has accepted the attempt under way.
Job == [at : Active \cup {"nowhere"}, attempts : Attempts, reason : Reasons, sent : BOOLEAN]
NotHeld == [at |-> "nowhere", attempts |-> 0, reason |-> "none", sent |-> FALSE]
Waiting(at, n) == [NotHeld EXCEPT !.at = at, !.attempts = n]

\* What restoreJobs() read of a row.
Found == [job : Jobs, status : Active, attempts : Attempts]

\* "replaced": close() was called on a queue that MailTs.configure() gave up.
Lives == {"down", "open", "stopping", "replaced"}

\* A queue that neither stands still nor is in the loop of restoreJobs().
Ready(q) == life[q] # "down" /\ q \notin stalled /\ todo[q] = {}

Mishap(kind) == kind \in Mishaps /\ mishaps < MaxMishaps /\ mishaps' = mishaps + 1

-----------------------------------------------------------------------------
(* Statements.                                                             *)

UpdatedKeepingOwner(r, q, status, n) ==
  IF r.status = "absent" THEN r
  ELSE [r EXCEPT !.status = status, !.attempts = n, !.owner = q, !.lapsed = FALSE]

\* updateStatus(): the row is not there any more once the DLQ is cleared.
Updated(r, q, status, n) ==
  IF r.status = "absent" THEN r
  ELSE [r EXCEPT !.status = status, !.attempts = n,
                 !.owner = IF status \in Active THEN q ELSE Nobody, !.lapsed = FALSE]

\* The listeners of wireEvents(), which a closed queue does not run.
Saved(q, j, status, n) ==
  IF life[q] = "replaced" THEN row[j] ELSE Updated(row[j], q, status, n)

\* The condition of claim().
Claimable(r, q) == r.status \in Active /\ (r.owner \in {Nobody, q} \/ r.lapsed)

\* close(): what the queue still owns goes back to the pool.
Released(r, q) ==
  IF r.owner # q THEN r
  ELSE [r EXCEPT !.owner = Nobody, !.lapsed = FALSE,
                 !.status = IF @ = "running" THEN "pending" ELSE @]

\* What cancel(), interrupt() and abort() do to the queue's job j and to its
\* row for the request kind, and whether they return true.
HandledBy(q, j, kind) ==
  \/ kind = "cancel" /\ held[q][j].at \in Active
  \/ kind \in {"interrupt", "abort"} /\ held[q][j].at = "running"

Signalled(h, kind) == IF h.reason = "none" THEN [h EXCEPT !.reason = kind] ELSE h

JobAfter(q, j, kind) ==
  IF ~HandledBy(q, j, kind) THEN held[q][j]
  ELSE IF held[q][j].at = "running" THEN Signalled(held[q][j], kind) ELSE NotHeld

RowAfter(q, j, kind) ==
  IF HandledBy(q, j, kind) /\ held[q][j].at # "running"
  THEN Updated(row[j], q, "cancelled", held[q][j].attempts)
  ELSE row[j]

\* The lease of a row that the queue owns is renewed.
Renewed(r, q) == IF r.owner = q /\ r.status \in Active THEN [r EXCEPT !.lapsed = FALSE] ELSE r

UnownedNotLapsed(r) == r.status \in Active /\ r.owner = Nobody

\* The condition of the SELECT of restoreJobs().
Unowned(r) == r.status \in Active /\ (r.owner = Nobody \/ r.lapsed)

\* What it reads of the rows t.
Read(t) == {[job |-> j, status |-> t[j].status, attempts |-> t[j].attempts] :
              j \in {i \in Jobs : Unowned(t[i])}}

\* releaseDeadLocalOwners() finds dead owners when they were on this host.
Freed(r) == IF r.owner = Gone THEN [r EXCEPT !.owner = Nobody, !.lapsed = FALSE] ELSE r

-----------------------------------------------------------------------------
(* The steps of a queue.                                                   *)

\* The constructor.
Open(q, local) ==
  /\ life[q] = "down"
  /\ life' = [life EXCEPT ![q] = "open"]
  /\ row' = [j \in Jobs |-> IF local THEN Freed(row[j]) ELSE row[j]]
  /\ todo' = [todo EXCEPT ![q] = Read(row')]
  /\ UNCHANGED <<request, stalled, held, delivered, mishaps, overran>>

\* poll(): the queue renews its leases, does what it is asked to do, forgets
\* the requests that are old and reads the rows it may claim.
Poll(q, local, old) ==
  LET mine(j) == Renewed(RowAfter(q, j, request[j]), q)
  IN /\ Ready(q) /\ life[q] \in {"open", "stopping"}
     /\ row' = [j \in Jobs |-> IF local /\ life[q] = "open" THEN Freed(mine(j)) ELSE mine(j)]
     /\ held' = [held EXCEPT ![q] = [j \in Jobs |-> JobAfter(q, j, request[j])]]
     /\ request' = [j \in Jobs |-> IF j \in old \/ HandledBy(q, j, request[j])
                                   THEN "none" ELSE request[j]]
     /\ todo' = [todo EXCEPT ![q] = IF life[q] = "open" THEN Read(row') ELSE {}]
     /\ UNCHANGED <<life, stalled, delivered, mishaps, overran>>

\* The loop of restoreJobs(): the row is claimed as it is now and the job is
\* restored as it was read.
Restore(q, f) ==
  LET j == f.job
  IN /\ q \notin stalled /\ f \in todo[q]
     /\ todo' = [todo EXCEPT ![q] = @ \ {f}]
     /\ IF held[q][j].at # "nowhere" \/ ~Claimable(row[j], q)
        THEN UNCHANGED <<row, held, mishaps>>
        ELSE \/ \E at \in IF f.status = "scheduled" THEN {"scheduled", "pending"} ELSE {"pending"} :
                  /\ held' = [held EXCEPT ![q][j] = Waiting(at, f.attempts)]
                  /\ row' = [row EXCEPT ![j] = Updated(@, q, at, f.attempts)]
                  /\ UNCHANGED mishaps
             \/ /\ Mishap("unreadable")
                /\ row' = [row EXCEPT ![j].status = "dead", ![j].owner = Nobody, ![j].lapsed = FALSE]
                /\ UNCHANGED held
     /\ UNCHANGED <<request, life, stalled, delivered, overran>>

\* enqueue() of an id that is new to the database, with or without sendAt.
Enqueue(q, j) ==
  /\ Ready(q) /\ life[q] = "open"
  /\ row[j].status = "absent" /\ held[q][j].at = "nowhere"
  /\ \E at \in {"pending", "scheduled"} :
       /\ row' = [row EXCEPT ![j] = [NoRow EXCEPT !.status = at, !.owner = q]]
       /\ held' = [held EXCEPT ![q][j] = Waiting(at, 0)]
  /\ UNCHANGED <<request, life, stalled, todo, delivered, mishaps, overran>>

\* execute() up to its await; tick() also runs in the loop of restoreJobs().
Start(q, j) ==
  /\ life[q] \in {"open", "replaced"} /\ q \notin stalled
  /\ held[q][j].at = "pending"
  /\ LET n == held[q][j].attempts + 1
     IN  /\ held' = [held EXCEPT ![q][j] = Waiting("running", n)]
         /\ row' = [row EXCEPT ![j] = Saved(q, j, "running", n)]
  /\ UNCHANGED <<request, life, stalled, todo, delivered, mishaps, overran>>

\* The server accepts the message and its answer arrives; what a late or lost
\* answer does is MailQueue's JobTimeout and OrphanEnds.
Accept(q, j) ==
  /\ held[q][j].at = "running" /\ ~held[q][j].sent
  /\ held' = [held EXCEPT ![q][j].sent = TRUE]
  /\ delivered' = [delivered EXCEPT ![j] = IF @ < 2 THEN @ + 1 ELSE @]
  /\ UNCHANGED <<row, request, life, stalled, todo, mishaps, overran>>

\* The job leaves the queue's memory with a last status, or waits again.
Finish(q, j, status) ==
  /\ held' = [held EXCEPT ![q][j] = NotHeld]
  /\ row' = [row EXCEPT ![j] = Saved(q, j, status, held[q][j].attempts)]

WaitAgainUnsaved(q, j, at, n) ==
  /\ held' = [held EXCEPT ![q][j] = Waiting(at, n)]
  /\ row' = [row EXCEPT ![j] = IF at = "scheduled" THEN Saved(q, j, at, n) ELSE @]

WaitAgain(q, j, at, n) ==
  /\ held' = [held EXCEPT ![q][j] = Waiting(at, n)]
  /\ row' = [row EXCEPT ![j] = Saved(q, j, at, n)]

MayRetryLate(h) == h.attempts <= MaxRetries + 1

\* shouldRetry(), as far as it depends on the attempts.
MayRetry(h) == h.attempts <= MaxRetries

\* execute() from its await on.
SendEnds(q, j) ==
  LET h == held[q][j]
  IN /\ Ready(q) /\ h.at = "running"
     /\ CASE h.reason = "cancel" -> Finish(q, j, "cancelled")
          [] h.reason = "interrupt" -> WaitAgain(q, j, "pending", h.attempts - 1)
          [] h.reason = "none" /\ h.sent -> Finish(q, j, "success")
          [] OTHER ->
               \E retryable \in BOOLEAN :
                 IF (retryable \/ h.reason = "abort") /\ MayRetry(h)
                 THEN WaitAgain(q, j, "scheduled", h.attempts)
                 ELSE Finish(q, j, "dead")
     /\ UNCHANGED <<request, life, stalled, todo, delivered, mishaps, overran>>

\* promoteDue(), which a paused queue runs as well.
Promote(q, j) ==
  /\ Ready(q) /\ held[q][j].at = "scheduled"
  /\ WaitAgain(q, j, "pending", held[q][j].attempts)
  /\ UNCHANGED <<request, life, stalled, todo, delivered, mishaps, overran>>

\* shutdown(), keeping or cancelling what waits.
Shutdown(q) ==
  /\ Ready(q) /\ life[q] = "open" /\ Mishap("shutdown")
  /\ life' = [life EXCEPT ![q] = "stopping"]
  /\ \E kind \in {"none", "cancel"} :
       LET stops(j) == held[q][j].at # "running"
       IN  /\ held' = [held EXCEPT ![q] = [j \in Jobs |-> IF stops(j) THEN JobAfter(q, j, kind)
                                                          ELSE held[q][j]]]
           /\ row' = [j \in Jobs |-> RowAfter(q, j, kind)]
  /\ UNCHANGED <<request, stalled, todo, delivered, overran>>

\* shutdown() interrupts the attempts that go on when its time is over.
InterruptStragglers(q) ==
  /\ Ready(q) /\ life[q] = "stopping"
  /\ \E j \in Jobs : held[q][j].at = "running" /\ held[q][j].reason = "none"
  /\ held' = [held EXCEPT ![q] = [j \in Jobs |-> JobAfter(q, j, "interrupt")]]
  /\ UNCHANGED <<row, request, life, stalled, todo, delivered, mishaps, overran>>

\* shutdown() ends with close(); the queue starts nothing afterwards.
Close(q) ==
  /\ Ready(q) /\ life[q] = "stopping"
  /\ \A j \in Jobs : held[q][j].at # "running"
  /\ life' = [life EXCEPT ![q] = "down"]
  /\ row' = [j \in Jobs |-> Released(row[j], q)]
  /\ held' = [held EXCEPT ![q] = [j \in Jobs |-> NotHeld]]
  /\ UNCHANGED <<request, stalled, todo, delivered, mishaps, overran>>

\* configure({ queue }) calls close() only; the queue goes on in memory.
Replace(q) ==
  /\ Ready(q) /\ life[q] = "open" /\ Mishap("replace")
  /\ life' = [life EXCEPT ![q] = "replaced"]
  /\ overran' = TRUE
  /\ row' = [j \in Jobs |-> Released(row[j], q)]
  /\ UNCHANGED <<request, stalled, held, todo, delivered>>

\* A replaced queue has nothing left to do.
Vanish(q) ==
  /\ life[q] = "replaced" /\ \A j \in Jobs : held[q][j].at = "nowhere"
  /\ life' = [life EXCEPT ![q] = "down"]
  /\ UNCHANGED <<row, request, stalled, held, todo, delivered, mishaps, overran>>

-----------------------------------------------------------------------------
(* Processes, time and the command line.                                   *)

\* The process dies; its owner id is never used again.
Crash(q) ==
  /\ life[q] # "down" /\ Mishap("crash")
  /\ life' = [life EXCEPT ![q] = "down"]
  /\ stalled' = stalled \ {q}
  /\ row' = [j \in Jobs |-> IF row[j].owner = q THEN [row[j] EXCEPT !.owner = Gone] ELSE row[j]]
  /\ held' = [held EXCEPT ![q] = [j \in Jobs |-> NotHeld]]
  /\ todo' = [todo EXCEPT ![q] = {}]
  /\ UNCHANGED <<request, delivered, overran>>

Stall(q) ==
  /\ life[q] # "down" /\ q \notin stalled /\ Mishap("stall")
  /\ stalled' = stalled \cup {q}
  /\ UNCHANGED <<row, request, life, held, todo, delivered, overran>>

Wake(q) ==
  /\ q \in stalled
  /\ stalled' = stalled \ {q}
  /\ UNCHANGED <<row, request, life, held, todo, delivered, mishaps, overran>>

\* A queue that runs renews its leases long before they run out.
LeaseLapses(j) ==
  /\ row[j].status \in Active /\ ~row[j].lapsed
  /\ row[j].owner \in stalled \cup {Gone}
  /\ row' = [row EXCEPT ![j].lapsed = TRUE]
  /\ overran' = (overran \/ row[j].owner \in stalled)
  /\ UNCHANGED <<request, life, stalled, held, todo, delivered, mishaps>>

\* requestCancel(), requestInterrupt(), requestAbort().
Ask(j, kind) ==
  /\ request[j] # kind /\ Mishap(kind)
  /\ request' = [request EXCEPT ![j] = kind]
  /\ UNCHANGED <<row, life, stalled, held, todo, delivered, overran>>

\* requeueJob().
Requeue(j) ==
  /\ row[j].status = "dead" /\ Mishap("requeue")
  /\ row' = [row EXCEPT ![j] = [NoRow EXCEPT !.status = "pending"]]
  /\ UNCHANGED <<request, life, stalled, held, todo, delivered, overran>>

\* clearDlq().
ClearDlq ==
  /\ \E j \in Jobs : row[j].status = "dead"
  /\ Mishap("clear")
  /\ row' = [j \in Jobs |-> IF row[j].status = "dead" THEN NoRow ELSE row[j]]
  /\ UNCHANGED <<request, life, stalled, held, todo, delivered, overran>>

-----------------------------------------------------------------------------
Init ==
  /\ row = [j \in Jobs |-> NoRow]
  /\ request = [j \in Jobs |-> "none"]
  /\ life = [q \in Queues |-> "down"]
  /\ stalled = {}
  /\ held = [q \in Queues |-> [j \in Jobs |-> NotHeld]]
  /\ todo = [q \in Queues |-> {}]
  /\ delivered = [j \in Jobs |-> 0]
  /\ mishaps = 0
  /\ overran = FALSE

Next ==
  \/ \E q \in Queues, local \in BOOLEAN :
       Open(q, local) \/ \E old \in SUBSET Jobs : Poll(q, local, old)
  \/ \E q \in Queues : \/ \E f \in todo[q] : Restore(q, f)
                       \/ Shutdown(q) \/ InterruptStragglers(q) \/ Close(q)
                       \/ Replace(q) \/ Vanish(q) \/ Crash(q) \/ Stall(q) \/ Wake(q)
  \/ \E q \in Queues, j \in Jobs : \/ Enqueue(q, j) \/ Start(q, j) \/ Accept(q, j)
                                   \/ SendEnds(q, j) \/ Promote(q, j)
  \/ \E j \in Jobs : LeaseLapses(j) \/ Requeue(j)
  \/ \E j \in Jobs, kind \in Reasons \ {"none"} : Ask(j, kind)
  \/ ClearDlq

Spec == Init /\ [][Next]_vars

(***************************************************************************)
(* Timers, the interval of poll() and the loop of restoreJobs() run, an    *)
(* attempt ends (jobTimeout), a stalled process comes back, clocks go on,  *)
(* and an application that is down is started again.  Nothing obliges the  *)
(* server to accept, or anybody to enqueue, to shut down or to ask.        *)
(***************************************************************************)
Fairness ==
  /\ \A q \in Queues :
       /\ WF_vars(Open(q, FALSE)) /\ WF_vars(Poll(q, FALSE, {})) /\ WF_vars(\E f \in todo[q] : Restore(q, f))
       /\ WF_vars(InterruptStragglers(q)) /\ WF_vars(Close(q)) /\ WF_vars(Vanish(q))
       /\ WF_vars(Wake(q))
       /\ \A j \in Jobs : WF_vars(Start(q, j)) /\ WF_vars(SendEnds(q, j)) /\ WF_vars(Promote(q, j))
  /\ \A j \in Jobs : WF_vars(LeaseLapses(j))

FairSpec == Spec /\ Fairness

-----------------------------------------------------------------------------
(* Properties.                                                             *)

TypeOK ==
  /\ row \in [Jobs -> Row] /\ request \in [Jobs -> Reasons]
  /\ life \in [Queues -> Lives] /\ stalled \subseteq Queues
  /\ held \in [Queues -> [Jobs -> Job]] /\ todo \in [Queues -> SUBSET Found]
  /\ delivered \in [Jobs -> 0..2] /\ mishaps \in 0..MaxMishaps /\ overran \in BOOLEAN

\* As long as no queue outlives its leases, no two queues hold one job,
\* whatever crashes, restarts, shutdowns and requests come between a SELECT
\* and the claims that follow it.
OneHolder ==
  ~overran => \A j \in Jobs : Cardinality({q \in Queues : held[q][j].at # "nowhere"}) <= 1

\* As long as no queue outlives its leases, what a queue has in memory and
\* what the table says of its rows agree after every call and callback, so a
\* crash loses nothing that had happened.
MemoryMatchesRow ==
  ~overran =>
    \A q \in Queues, j \in Jobs :
      held[q][j].at # "nowhere" =>
        row[j] = [status |-> held[q][j].at, attempts |-> held[q][j].attempts,
                  owner |-> q, lapsed |-> FALSE]

\* A job has the attempts its policy allows, and one more at most for each crash,
\* shutdown or request that cut an attempt short; and the server accepts no message
\* twice as long as there was none.
AttemptsWithinPolicy ==
  /\ TypeOK
  /\ \A j \in Jobs : row[j].attempts <= MaxRetries + 1 + mishaps
  /\ \A q \in Queues, j \in Jobs : held[q][j].attempts <= MaxRetries + 1 + mishaps
  /\ mishaps = 0 => \A j \in Jobs : delivered[j] <= 1

\* A row that a queue owns, and whose lease it renews for ever, is a job that
\* it holds: no job is forgotten in the table, even after a stall.
OwnedRowsHeld ==
  \A j \in Jobs : row[j].owner \in Queues =>
    row[j].status \in Active /\ held[row[j].owner][j].at # "nowhere"

\* As long as no queue outlives its leases, a job that was sent, cancelled or
\* given up stays so; only requeueJob() and clearDlq() change a dead row.
FinalStaysFinal ==
  [][~overran' =>
       \A j \in Jobs :
         /\ row[j].status \in {"success", "cancelled"} => row'[j] = row[j]
         /\ row[j].status = "dead" =>
              row'[j] \in {row[j], NoRow, [NoRow EXCEPT !.status = "pending"]}]_vars

\* A job in the database is decided in the end, through crashes, stalls,
\* replaced and stopped queues, as long as some application runs; and for good.
EveryJobSettled ==
  FinalStaysFinal /\ \A j \in Jobs : row[j].status \in Active ~> row[j].status \notin Active
=============================================================================
