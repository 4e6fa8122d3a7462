------------------------------ MODULE MailQueue ------------------------------
(***************************************************************************)
(* The in-memory send queue, src/src/queue/MailQueue.ts, with the          *)
(* JobController that stops a running job, RetryPolicy's verdict on a      *)
(* failed attempt and DeadLetterQueue.add.                                 *)
(*                                                                         *)
(* The queue runs on one JavaScript thread.  A synchronous method runs to  *)
(* its end, so each is one step; what follows an `await' or a `.finally'   *)
(* is a microtask, and the microtasks of the queue run in the order they   *)
(* were queued (variable micro).  A timer callback is a macrotask: it runs *)
(* when no microtask is left.  The application may call the queue between  *)
(* any two of these steps, because its own microtasks and event listeners  *)
(* run there.  Time is abstract: a scheduled job may fall due at any time. *)
(***************************************************************************)
EXTENDS Naturals, Sequences, FiniteSets, SequencesExt, Sublists

CONSTANTS
  Jobs,          \* ids of the jobs the application may submit
  Priority,      \* the tier each job is submitted with
  Key,           \* the idempotency key each job is submitted with, or NoKey
  NoKey,
  Concurrency,   \* QueueOptions.concurrency
  MaxRetries,    \* QueueOptions.maxRetries
  Limit,         \* sends per rate-limit window; 0: no rate limit
  Calls,         \* the optional calls and events of this deployment
  MaxOrphans     \* bound: sends of one job that outlive their attempt

Tiers == {"critical", "high", "normal", "low"}

AllCalls == {"pause", "cancel", "interrupt", "abort", "timeout", "drain",
             "shutdown", "later"}

ASSUME QueueConstants ==
  /\ IsFiniteSet(Jobs)
  /\ Priority \in [Jobs -> Tiers]
  /\ NoKey \notin Jobs
  /\ Concurrency \in Nat \ {0}
  /\ MaxRetries \in Nat
  /\ Limit \in Nat
  /\ MaxOrphans \in Nat
  /\ Calls \subseteq AllCalls

\* Definitions that are used nowhere below are variants of the definition that
\* follows them, each with a mistake that a property is meant to catch.

VARIABLES
  q,           \* the fields of the MailQueue object, and of its jobs
  micro,       \* queued microtasks: execute() resumptions, finally() callbacks
  persisting,  \* dead jobs whose DLQ persist callback has not returned
  drain,       \* one caller's drain() promise
  shut,        \* the progress of one shutdown() call
  orphans,     \* per job, sends still running whose attempt is over
  delivered    \* per job, messages the mail server has accepted

vars == <<q, micro, persisting, drain, shut, orphans, delivered>>

-----------------------------------------------------------------------------
(* Types.                                                                  *)

Statuses == {"none", "pending", "scheduled", "running", "success", "dead",
             "cancelled"}
Terminal == {"success", "dead", "cancelled"}

\* A running job's JobController together with the outcome of its send:
\* "open" until sendWithTimeout's promise settles.
Reasons == {"none", "interrupt", "cancel", "abort"}
Outcomes == {"ok", "transient", "fatal"}
Controllers == [reason : Reasons, result : Outcomes \cup {"idle", "open"}]
Idle == [reason |-> "none", result |-> "idle"]
Fresh == [reason |-> "none", result |-> "open"]

Queue == [pending : [Tiers -> Seq(Jobs)], scheduled : Seq(Jobs),
          throttled : SUBSET Jobs, running : SUBSET Jobs,
          ctrl : [Jobs -> Controllers], status : [Jobs -> Statuses],
          attempts : [Jobs -> Nat], used : Nat, armed : BOOLEAN,
          paused : BOOLEAN, closed : BOOLEAN, sendFn : BOOLEAN]

Task == [task : {"resume", "finally"}, job : Jobs]
Resume(j) == [task |-> "resume", job |-> j]
Finally(j) == [task |-> "finally", job |-> j]

Modes == {"drain", "keep", "cancel"}
Phases == {"none", "draining", "drained", "stopping", "stopped", "stragglers",
           "finishing", "done"}

-----------------------------------------------------------------------------
(* Operations on the queue's fields.                                       *)

Push(f, j) == [f EXCEPT !.pending[Priority[j]] = Append(@, j),
                        !.status[j] = "pending"]
Unshift(f, j) == [f EXCEPT !.pending[Priority[j]] = <<j>> \o @,
                           !.status[j] = "pending"]
Schedule(f, j) == [f EXCEPT !.scheduled = Append(@, j),
                            !.status[j] = "scheduled", !.armed = TRUE]

\* nextPending() until it returns undefined: tier by tier, FIFO in a tier.
InOrder(f) == f.pending["critical"] \o f.pending["high"] \o
              f.pending["normal"] \o f.pending["low"]

\* No slot is free once the jobs of S have started too.
Full(f, S) == Cardinality(f.running \cup S) >= Concurrency

StartedOffByOne(f) ==
  LET line == InOrder(f)
      first(n) == {line[i] : i \in 1..n}
      stops(n) == n = Len(line) \/ Full(f, first(n)) \/ (Limit # 0 /\ f.used + n + 1 >= Limit)
      n == CHOOSE m \in 0..Len(line) : stops(m) /\ \A i \in 0..(m - 1) : ~stops(i)
  IN  SubSeq(line, 1, n)

\* The jobs that tick()'s loop starts before it stops: no job is left, no slot
\* is free, or the rate limit is spent.
Started(f) ==
  LET line == InOrder(f)
      first(n) == {line[i] : i \in 1..n}
      stops(n) == \/ n = Len(line)
                  \/ Full(f, first(n))
                  \/ Limit # 0 /\ f.used + n >= Limit
      n == CHOOSE m \in 0..Len(line) : stops(m) /\ \A i \in 0..(m - 1) : ~stops(i)
  IN  SubSeq(line, 1, n)

\* A job over the rate limit waits in `scheduled' and holds no slot, so once
\* the limit is spent the loop goes on to move there every job that is left.
Held(f) ==
  IF Full(f, ToSet(Started(f))) THEN <<>>
  ELSE SubSeq(InOrder(f), Len(Started(f)) + 1, Len(InOrder(f)))

Tick(f) ==
  LET started == ToSet(Started(f))
      held == ToSet(Held(f))
  IN  IF f.paused \/ ~f.sendFn
      THEN f
      ELSE [f EXCEPT
             !.pending = [t \in Tiers |-> Keep(@[t], Jobs \ (started \cup held))],
             !.scheduled = @ \o Held(f),
             !.throttled = @ \cup held,
             !.armed = @ \/ held # {},
             !.running = @ \cup started,
             !.used = IF Limit = 0 THEN @ ELSE @ + Len(Started(f)),
             !.ctrl = [j \in Jobs |-> IF j \in started THEN Fresh ELSE @[j]],
             !.attempts = [j \in Jobs |-> IF j \in started THEN @[j] + 1 ELSE @[j]],
             !.status = [j \in Jobs |-> IF j \in started THEN "running"
                                        ELSE IF j \in held THEN "scheduled"
                                        ELSE @[j]]]

PromotedNotRemoved(f, due) ==
  [f EXCEPT !.pending = [t \in Tiers |-> @[t] \o Keep(f.scheduled, {j \in due : Priority[j] = t})],
            !.status = [j \in Jobs |-> IF j \in due THEN "pending" ELSE @[j]]]

\* The loop of promoteDue() over the jobs that are due.
Promoted(f, due) ==
  LET list == Keep(f.scheduled, due)
      ofTier(t) == {j \in Jobs : Priority[j] = t}
      rest == Keep(f.scheduled, Jobs \ due)
  IN  [f EXCEPT
        !.pending = [t \in Tiers |->
                       Reverse(Keep(list, ofTier(t) \cap f.throttled)) \o @[t]
                         \o Keep(list, ofTier(t) \ f.throttled)],
        !.scheduled = rest,
        !.throttled = @ \ due,
        !.armed = rest # <<>>,
        !.status = [j \in Jobs |-> IF j \in due THEN "pending" ELSE @[j]]]

\* takeWaiting() or cancelAll()'s clearing, then markCancelled(), for S.
Cancelled(f, S) ==
  [f EXCEPT
    !.pending = [t \in Tiers |-> Keep(@[t], Jobs \ S)],
    !.scheduled = Keep(@, Jobs \ S),
    !.throttled = @ \ S,
    !.armed = IF S \cap ToSet(f.scheduled) = {} THEN @
              ELSE Keep(f.scheduled, Jobs \ S) # <<>>,
    !.status = [j \in Jobs |-> IF j \in S THEN "cancelled" ELSE @[j]]]

\* Throttled job i was put in `scheduled' before throttled job j.
AheadOf(i, j) == \E m, n \in DOMAIN q.scheduled :
                   m < n /\ q.scheduled[m] = i /\ q.scheduled[n] = j

PendingJobs(f) == UNION {ToSet(f.pending[t]) : t \in Tiers}
Waiting(f) == PendingJobs(f) \cup ToSet(f.scheduled)
IdleQueue(f) == Waiting(f) = {} /\ f.running = {}
Executing(f) == {j \in Jobs : f.ctrl[j] # Idle}
Open(f) == {j \in Jobs : f.ctrl[j].result = "open"}

\* JobController.trigger(): the first reason given to a job stays.  The abort
\* signal rejects the send if it is still open, and nothing otherwise.
Signalled(f, S, why) ==
  [f EXCEPT !.ctrl = [j \in Jobs |->
     IF j \in S /\ @[j] # Idle /\ @[j].reason = "none"
     THEN [reason |-> why,
           result |-> IF @[j].result = "open" THEN "transient" ELSE @[j].result]
     ELSE @[j]]]

\* A controller signalled before its send settled has already settled it.
Stopped(f, S) == {j \in S \cap Open(f) : f.ctrl[j].reason = "none"}

AtMost(n, bound) == IF n > bound THEN bound ELSE n

\* The sends of S go on after their attempt ended.
Orphaned(S) == [j \in Jobs |-> AtMost(orphans[j] + (IF j \in S THEN 1 ELSE 0),
                                      MaxOrphans)]

CheckDrainedIdleOnly ==
  /\ drain' = IF drain = "waiting" /\ IdleQueue(q') THEN "resolved" ELSE drain
  /\ shut' = [shut EXCEPT !.phase =
       CASE @ = "draining" /\ IdleQueue(q') -> "drained"
         [] @ = "stopping" /\ q'.running = {} -> "stopped"
         [] @ = "stragglers" /\ q'.running = {} -> "finishing"
         [] OTHER -> @]

\* checkDrained(), evaluated on the fields it finds: shutdown()'s waitUntil
\* listens to `_settled', drain()'s callers are resolved or rejected.
CheckDrained ==
  /\ drain' = CASE drain # "waiting" -> drain
                [] IdleQueue(q') -> "resolved"
                [] ~IdleQueue(q') /\ q'.paused /\ q'.running = {} -> "rejected"
                [] OTHER -> drain
  /\ shut' = [shut EXCEPT !.phase =
       CASE @ = "draining" /\ IdleQueue(q') -> "drained"
         [] @ = "stopping" /\ q'.running = {} -> "stopped"
         [] @ = "stragglers" /\ q'.running = {} -> "finishing"
         [] OTHER -> @]

-----------------------------------------------------------------------------
(* Calls of the application.                                               *)

SetSendFn ==
  /\ q' = Tick([q EXCEPT !.sendFn = TRUE])
  /\ UNCHANGED <<micro, persisting, drain, shut, orphans, delivered>>

\* enqueue(): a key seen before returns the existing job and changes nothing.
Enqueue(j, later) ==
  /\ ~q.closed
  /\ q.status[j] = "none"
  /\ Key[j] = NoKey \/ \A i \in Jobs : q.status[i] # "none" => Key[i] # Key[j]
  /\ later => "later" \in Calls
  /\ q' = IF later THEN Schedule(q, j) ELSE Tick(Push(q, j))
  /\ UNCHANGED <<micro, persisting, drain, shut, orphans, delivered>>

Pause ==
  /\ "pause" \in Calls
  /\ q' = [q EXCEPT !.paused = TRUE]
  /\ CheckDrained
  /\ UNCHANGED <<micro, persisting, orphans, delivered>>

UnpauseAfterClose ==
  /\ q' = Tick([q EXCEPT !.paused = FALSE])
  /\ UNCHANGED <<micro, persisting, drain, shut, orphans, delivered>>

\* resume().
Unpause ==
  /\ "pause" \in Calls
  /\ ~q.closed
  /\ q' = Tick([q EXCEPT !.paused = FALSE])
  /\ UNCHANGED <<micro, persisting, drain, shut, orphans, delivered>>

CancelWaiting(S) ==
  /\ q' = Cancelled(q, S)
  /\ CheckDrained
  /\ UNCHANGED <<micro, persisting, orphans, delivered>>

\* cancel(id) of a waiting job, or cancelAll().
Cancel ==
  /\ "cancel" \in Calls
  /\ Waiting(q) # {}
  /\ \E S \in {{j} : j \in Waiting(q)} \cup {Waiting(q)} : CancelWaiting(S)

\* The controllers of S are signalled; each open send rejects and queues the
\* resumption of its execute(), in the order the controllers were created.
Signal(S, why) ==
  /\ q' = Signalled(q, S, why)
  /\ \E order \in SetToSeqs(Stopped(q, S)) :
       micro' = micro \o [i \in DOMAIN order |-> Resume(order[i])]
  /\ orphans' = Orphaned(Stopped(q, S))

\* cancel(id), interrupt(id) and abort(id) of a job that has a controller.
Control(j, why) ==
  /\ why \in Calls
  /\ q.ctrl[j] # Idle
  /\ q.ctrl[j].reason = "none"
  /\ Signal({j}, why)
  /\ UNCHANGED <<persisting, drain, shut, delivered>>

Drain ==
  /\ "drain" \in Calls
  /\ drain # "waiting"
  /\ drain' = IF IdleQueue(q) THEN "resolved"
              ELSE IF q.paused THEN "rejected" ELSE "waiting"
  /\ UNCHANGED <<q, micro, persisting, shut, orphans, delivered>>

-----------------------------------------------------------------------------
(* Sends, and the microtasks and timers of an execution.                   *)

\* The send of the current attempt settles; "ok" when the server took the
\* message, and a failure reported by the transport means that it did not.
SendSettles(j, result) ==
  /\ q.ctrl[j].result = "open"
  /\ q' = [q EXCEPT !.ctrl[j].result = result]
  /\ micro' = Append(micro, Resume(j))
  /\ delivered' = IF result = "ok"
                  THEN [delivered EXCEPT ![j] = AtMost(@ + 1, 2)] ELSE delivered
  /\ UNCHANGED <<persisting, drain, shut, orphans>>

\* The jobTimeout timer rejects the attempt and leaves the send alone.
JobTimeout(j) ==
  /\ "timeout" \in Calls
  /\ micro = <<>>
  /\ q.ctrl[j].result = "open"
  /\ q' = [q EXCEPT !.ctrl[j].result = "transient"]
  /\ micro' = Append(micro, Resume(j))
  /\ orphans' = Orphaned({j})
  /\ UNCHANGED <<persisting, drain, shut, delivered>>

\* A send that outlived its attempt ends, having delivered the message or not.
OrphanEnds(j, accepted) ==
  /\ orphans[j] > 0
  /\ orphans' = [orphans EXCEPT ![j] = @ - 1]
  /\ delivered' = IF accepted
                  THEN [delivered EXCEPT ![j] = AtMost(@ + 1, 2)] ELSE delivered
  /\ UNCHANGED <<q, micro, persisting, drain, shut>>

\* What a resumed execute() makes of the attempt, by the controller's reason
\* first and the result of the send second.
Failed(c) == c.reason = "abort" \/ c.result # "ok"
GivesUpLate(f, j) == f.attempts[j] > MaxRetries + 1
GivesUp(f, j) == \/ f.attempts[j] > MaxRetries
                 \/ /\ f.ctrl[j].result = "fatal"
                    /\ f.ctrl[j].reason # "abort"

Resumed(f, j) ==
  LET c == f.ctrl[j]
      freed == [f EXCEPT !.ctrl[j] = Idle]
  IN  CASE c.reason = "cancel" -> Cancelled(freed, {j})
        [] c.reason = "interrupt" -> Unshift([freed EXCEPT !.attempts[j] = @ - 1], j)
        [] c.reason \notin {"cancel", "interrupt"} /\ ~Failed(c) ->
             [freed EXCEPT !.status[j] = "success"]
        [] OTHER -> IF GivesUp(f, j) THEN [freed EXCEPT !.status[j] = "dead"]
                    ELSE Schedule(freed, j)

\* execute() from its await on.  Only a dead job awaits again (dlq.add's
\* persist callback); otherwise execute() returns and its finally is queued.
ExecuteResumes ==
  /\ micro # <<>>
  /\ Head(micro).task = "resume"
  /\ LET j == Head(micro).job
     IN  /\ q' = Resumed(q, j)
         /\ IF q'.status[j] = "dead"
            THEN micro' = Tail(micro) /\ persisting' = persisting \cup {j}
            ELSE micro' = Append(Tail(micro), Finally(j)) /\ UNCHANGED persisting
  /\ UNCHANGED <<drain, shut, orphans, delivered>>

\* DeadLetterQueue.persist() returned or threw; its errors are swallowed.
Persisted(j) ==
  /\ j \in persisting
  /\ persisting' = persisting \ {j}
  /\ micro' = Append(micro, Finally(j))
  /\ UNCHANGED <<q, drain, shut, orphans, delivered>>

\* The .finally() of an execution.
ExecuteEnds ==
  /\ micro # <<>>
  /\ Head(micro).task = "finally"
  /\ q' = Tick([q EXCEPT !.running = @ \ {Head(micro).job}])
  /\ micro' = Tail(micro)
  /\ CheckDrained
  /\ UNCHANGED <<persisting, orphans, delivered>>

\* The schedule timer fires when one scheduled job or more is due.  The rate
\* limiter's waits never decrease, so of two throttled jobs the later is not due
\* before the earlier.
PromoteDue(due) ==
  /\ q.armed
  /\ micro = <<>>
  /\ due # {}
  /\ \A i, j \in q.throttled : AheadOf(i, j) /\ j \in due => i \in due
  /\ q' = Tick(Promoted(q, due))
  /\ UNCHANGED <<micro, persisting, drain, shut, orphans, delivered>>

\* A send recorded by the rate limiter leaves the window.
WindowSlides ==
  /\ q.used > 0
  /\ q' = [q EXCEPT !.used = @ - 1]
  /\ UNCHANGED <<micro, persisting, drain, shut, orphans, delivered>>

-----------------------------------------------------------------------------
(* shutdown(), called once.                                                *)

StopQueueUnpaused(mode) ==
  /\ q' = [q EXCEPT !.closed = TRUE]
  /\ UNCHANGED <<micro, persisting, drain, orphans, delivered>>

\* From `this.paused = true' to the wait for running jobs.
StopQueue(mode) ==
  /\ q' = LET stopped == [q EXCEPT !.paused = TRUE, !.closed = TRUE]
          IN  IF mode = "cancel" THEN Cancelled(stopped, Waiting(q)) ELSE stopped
  /\ drain' = IF mode = "cancel" /\ drain = "waiting" /\ q.running = {}
              THEN "resolved" ELSE drain
  /\ UNCHANGED <<micro, persisting, orphans, delivered>>

AwaitRunning(f) == IF f.running = {} THEN "stopped" ELSE "stopping"

Shutdown(mode, timed) ==
  /\ "shutdown" \in Calls
  /\ shut.phase = "none"
  /\ \/ /\ mode = "drain"
        /\ q' = IF q.closed THEN q ELSE Tick([q EXCEPT !.paused = FALSE])
        /\ shut' = [phase |-> IF IdleQueue(q') THEN "drained" ELSE "draining",
                    mode |-> mode, timed |-> timed]
        /\ UNCHANGED <<micro, persisting, drain, orphans, delivered>>
     \/ /\ mode # "drain"
        /\ StopQueue(mode)
        /\ shut' = [phase |-> AwaitRunning(q'), mode |-> mode, timed |-> timed]

ShutdownDrained ==
  /\ shut.phase = "drained"
  /\ StopQueue("drain")
  /\ shut' = [shut EXCEPT !.phase = AwaitRunning(q')]

ShutdownDeadlineRunning ==
  /\ micro = <<>>
  /\ \/ shut.phase = "stopping" /\ shut.timed
     \/ shut.phase = "stragglers"
  /\ shut' = [shut EXCEPT !.phase = IF @ = "stopping" THEN "stopped" ELSE "finishing"]
  /\ UNCHANGED <<q, micro, persisting, drain, orphans, delivered>>

\* timeoutMs elapses; the last wait always has a five-second limit.
ShutdownDeadline ==
  /\ micro = <<>>
  /\ \/ shut.phase \in {"draining", "stopping"} /\ shut.timed
     \/ shut.phase = "stragglers"
  /\ shut' = [shut EXCEPT !.phase = CASE @ = "draining" -> "drained"
                                      [] @ = "stopping" -> "stopped"
                                      [] @ = "stragglers" -> "finishing"]
  /\ UNCHANGED <<q, micro, persisting, drain, orphans, delivered>>

InterruptStragglers ==
  /\ shut.phase = "stopped"
  /\ q.running # {}
  /\ Signal(Jobs, "interrupt")
  /\ shut' = [shut EXCEPT !.phase = "stragglers"]
  /\ UNCHANGED <<persisting, drain, delivered>>

ShutdownEnds ==
  /\ \/ shut.phase = "finishing"
     \/ shut.phase = "stopped" /\ q.running = {}
  /\ shut' = [shut EXCEPT !.phase = "done"]
  /\ q' = [q EXCEPT !.armed = FALSE]
  /\ drain' = IF drain = "waiting" THEN "rejected" ELSE drain
  /\ UNCHANGED <<micro, persisting, orphans, delivered>>

-----------------------------------------------------------------------------
Init ==
  /\ q = [pending |-> [t \in Tiers |-> <<>>], scheduled |-> <<>>,
          throttled |-> {}, running |-> {}, ctrl |-> [j \in Jobs |-> Idle],
          status |-> [j \in Jobs |-> "none"], attempts |-> [j \in Jobs |-> 0],
          used |-> 0, armed |-> FALSE, paused |-> FALSE, closed |-> FALSE,
          sendFn |-> FALSE]
  /\ micro = <<>>
  /\ persisting = {}
  /\ drain = "none"
  /\ shut = [phase |-> "none", mode |-> "keep", timed |-> FALSE]
  /\ orphans = [j \in Jobs |-> 0]
  /\ delivered = [j \in Jobs |-> 0]

Next ==
  \/ SetSendFn
  \/ \E j \in Jobs, later \in BOOLEAN : Enqueue(j, later)
  \/ Pause
  \/ Unpause
  \/ Cancel
  \/ \E j \in Jobs, why \in {"cancel", "interrupt", "abort"} : Control(j, why)
  \/ Drain
  \/ \E j \in Jobs, result \in Outcomes : SendSettles(j, result)
  \/ \E j \in Jobs : JobTimeout(j)
  \/ \E j \in Jobs, accepted \in BOOLEAN : OrphanEnds(j, accepted)
  \/ ExecuteResumes
  \/ \E j \in Jobs : Persisted(j)
  \/ ExecuteEnds
  \/ \E due \in SUBSET ToSet(q.scheduled) : PromoteDue(due)
  \/ WindowSlides
  \/ \E mode \in Modes, timed \in BOOLEAN : Shutdown(mode, timed)
  \/ ShutdownDrained
  \/ ShutdownDeadline
  \/ InterruptStragglers
  \/ ShutdownEnds

Spec == Init /\ [][Next]_vars

(***************************************************************************)
(* Node runs every microtask that is queued and every timer that is due; a *)
(* send settles or times out (every reply wait of the SMTP client has a    *)
(* timer of its own); a DLQ persist callback returns.  Nothing obliges the *)
(* application to call the queue.                                          *)
(***************************************************************************)
Fairness ==
  /\ WF_vars(ExecuteResumes)
  /\ WF_vars(ExecuteEnds)
  /\ WF_vars(WindowSlides)
  /\ WF_vars(ShutdownDrained)
  /\ WF_vars(ShutdownDeadline)
  /\ WF_vars(InterruptStragglers)
  /\ WF_vars(ShutdownEnds)
  /\ \A j \in Jobs :
       /\ WF_vars((\E result \in Outcomes : SendSettles(j, result)) \/ JobTimeout(j))
       /\ WF_vars(Persisted(j))
       /\ WF_vars(\E due \in SUBSET ToSet(q.scheduled) :
                    j \in due /\ PromoteDue(due))

FairSpec == Spec /\ Fairness

-----------------------------------------------------------------------------
(* Properties.                                                             *)

\* Every variable has its type.
TypeOK ==
  /\ q \in Queue
  /\ micro \in Seq(Task)
  /\ persisting \subseteq Jobs
  /\ drain \in {"none", "waiting", "resolved", "rejected"}
  /\ shut \in [phase : Phases, mode : Modes, timed : BOOLEAN]
  /\ orphans \in [Jobs -> Nat]
  /\ delivered \in [Jobs -> Nat]

Occurrences(s, j) == Cardinality({i \in DOMAIN s : s[i] = j})

\* A submitted job is in exactly one place, and its status says which: once in
\* the tier of its priority, once in `scheduled', under a controller, or out of
\* the queue with a final status.  No path through execute(), promoteDue() and
\* the cancel calls loses a job or leaves it in two places (README: `never
\* drops it').
EveryJobInOnePlace ==
  \A j \in Jobs :
    /\ \A t \in Tiers : Occurrences(q.pending[t], j) =
         IF q.status[j] = "pending" /\ t = Priority[j] THEN 1 ELSE 0
    /\ Occurrences(q.scheduled, j) = IF q.status[j] = "scheduled" THEN 1 ELSE 0
    /\ (q.ctrl[j] # Idle) <=> (q.status[j] = "running")

\* Attempts stay within the retry policy: a job that may still be sent has a
\* retry left, and no job is attempted more than MaxRetries + 1 times, however
\* interrupts give attempts back.
AttemptsWithinPolicy ==
  \A j \in Jobs :
    /\ q.attempts[j] <= MaxRetries + 1
    /\ j \in Waiting(q) => q.attempts[j] <= MaxRetries
    /\ q.status[j] \in {"running", "success", "dead"} => q.attempts[j] > 0

\* Every job being sent is in runningJobs, the set that the concurrency limit,
\* drain() and shutdown() read, and that set never exceeds the limit.
ExecutingJobsTracked ==
  /\ Executing(q) \subseteq q.running
  /\ Cardinality(q.running) <= Concurrency

\* Whatever puts a job in `scheduled' or takes one out leaves the timer armed for
\* the rest, until shutdown() disarms it; and only scheduled jobs keep a throttle
\* mark, which would put a later retry at the front of its tier.
ScheduleTimerArmed ==
  /\ q.scheduled # <<>> /\ shut.phase # "done" => q.armed
  /\ q.throttled \subseteq ToSet(q.scheduled)

\* Once no microtask and no persist is left, a caller of drain() still waits only
\* while work remains that can go on, and never after shutdown() returned.
DrainNotForgotten ==
  drain = "waiting" =>
    /\ shut.phase # "done"
    /\ micro = <<>> /\ persisting = {} /\ shut.phase \in {"none", "draining"} =>
         ~IdleQueue(q) /\ (q.paused => q.running # {})

\* When shutdown() has returned nothing is being sent, and every submitted job is
\* either finished or still in the queue, where a restart would find it.
ShutdownLeavesNothingRunning ==
  shut.phase = "done" =>
    \A j \in Jobs : q.status[j] \in Terminal \cup {"none"} \/ j \in Waiting(q)

\* No job, timer or promise is forgotten between the application's calls, the timers
\* and the promise callbacks: what is being sent is counted, a scheduled job has its
\* timer, a drain() is settled once it can be, and a shutdown() that returned left no
\* send behind.
NothingForgotten ==
  TypeOK /\ ExecutingJobsTracked /\ ScheduleTimerArmed /\ DrainNotForgotten /\ ShutdownLeavesNothingRunning

\* The queue implements its contract: pending and scheduled jobs wait, a job
\* under a controller is being sent.
ContractPhase(j) == CASE q.status[j] \in {"pending", "scheduled"} -> "waiting"
                      [] q.status[j] = "running" -> "sending"
                      [] OTHER -> q.status[j]

Contract == INSTANCE MailQueueContract
              WITH phase <- [j \in Jobs |-> ContractPhase(j)],
                   tries <- q.attempts, accepting <- ~q.closed,
                   MaxParallel <- Concurrency, MaxTries <- MaxRetries + 1

\* Seen through that mapping, every step is a step of the contract or none: a
\* finished job stays finished, interrupts alone give attempts back, a closed
\* queue starts nothing.
KeepsContract == Contract!Spec

\* If a transport's failure means that the server did not take the message,
\* and no attempt is timed out, interrupted or aborted while its send goes on,
\* then no job is delivered twice.
DeliveredAtMostOnce == \A j \in Jobs : delivered[j] <= 1

\* Every submitted job is eventually sent, dead or cancelled, unless the queue
\* has no send function or is paused.
EveryJobDecided ==
  \A j \in Jobs : q.status[j] # "none" ~>
    q.status[j] \in Terminal \/ q.paused \/ ~q.sendFn

\* shutdown() with a timeout returns.
TimedShutdownReturns ==
  (shut.phase # "none" /\ shut.timed) ~> (shut.phase = "done")
=============================================================================
