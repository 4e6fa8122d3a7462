----------------------------- MODULE MailWorker -----------------------------
(***************************************************************************)
(* The bridge between an external queue (Redis, SQS, a table of jobs) and  *)
(* the send queue, src/src/queue/MailWorker.ts, composed with what         *)
(* MailQueue promises (MailQueueContract, which MailQueue implements).     *)
(*                                                                         *)
(* A step is one event with the microtasks up to the next await: a call of *)
(* the application, an answer of the driver, a timer, an event of the send *)
(* queue.  The consumer loop is a chain of promises of which one runs.     *)
(* The backend is the environment: it hands messages out, loses answers,   *)
(* and gives a message out again when its visibility timeout ends.         *)
(***************************************************************************)
EXTENDS Naturals, Sequences, FiniteSets, Functions, FiniteSetsExt

CONSTANTS
  Messages,     \* ids of the messages of the external queue
  KeyOf,        \* the idempotency key a message carries, or NoKey
  NoKey,
  Concurrency,  \* QueueOptions.concurrency
  Prefetch,     \* MailWorkerConfig.prefetch
  MaxTries,     \* QueueOptions.maxRetries + 1
  Drivers,      \* the drivers: whether release() is implemented, and the
                \* messages whose data makes enqueue() throw
  MaxJobs,      \* bound: jobs made
  MaxExpiries,  \* bound: messages given out again
  MaxFaults,    \* bound: calls of the driver that fail
  MaxCalls      \* bound: calls of the application that can be repeated

ASSUME MailWorkerConstants ==
  /\ IsFiniteSet(Messages) /\ DOMAIN KeyOf = Messages
  /\ Concurrency \in Nat \ {0} /\ Prefetch \in Nat /\ MaxTries \in Nat \ {0}
  /\ Drivers \subseteq [release : BOOLEAN, malformed : SUBSET Messages]
  /\ {MaxJobs, MaxExpiries, MaxFaults, MaxCalls} \subseteq Nat

VARIABLES
  phase, tries, accepting,  \* the send queue, as MailQueueContract sees it
  of,       \* the message each job was made from, by job id
  idMap,    \* idMap: job id -> message, not yet acked, nacked or released
  w,        \* the worker's other fields, its loop and the shutdown() under way
  backend,  \* what the external queue thinks of each message
  ops,      \* calls of the driver under way
  loose     \* messages the worker gave up on, for a reason outside its control

vars == <<phase, tries, accepting, of, idMap, w, backend, ops, loose>>
queueVars == <<phase, tries, accepting>>

JobIds == 1..MaxJobs

Queue == INSTANCE MailQueueContract WITH Jobs <- JobIds, MaxParallel <- Concurrency

\* Definitions that are used nowhere below are variants of the definition that
\* follows them, each with a mistake that a property is meant to catch.

-----------------------------------------------------------------------------
(* The worker's fields.  `loop' is where the running consumeLoop() stands: *)
(* at its `while' test, waiting in dequeue(), in sleep() or for a free     *)
(* slot, or handing back a message; `chained' loops wait for it to end.    *)

Stages == {"off", "test", "dequeue", "sleep", "slot", "release"}
Closing == {"no", "loop", "queue", "release", "done"}
Ops == [op : {"ack", "nack", "cancel", "release"}, msg : Messages]

TypeOK ==
  /\ phase \in [JobIds -> Queue!Phase] /\ tries \in [JobIds -> 0..MaxTries]
  /\ accepting \in BOOLEAN
  /\ of \in Seq(Messages) /\ Len(of) <= MaxJobs
  /\ DOMAIN idMap \subseteq DOMAIN of /\ Range(idMap) \subseteq Messages
  /\ w \in [consuming : BOOLEAN, paused : BOOLEAN, loop : Stages, chained : 0..MaxCalls,
            closing : Closing, driver : Drivers, calls : 0..MaxCalls,
            faults : 0..MaxFaults, expiries : 0..MaxExpiries]
  /\ backend \in [Messages -> {"ready", "out", "gone", "dead"}]
  /\ ops \subseteq Ops /\ loose \subseteq Messages

MaxHeld == Concurrency + Prefetch

Sending == Queue!In(phase, {"sending"})

\* The `while' loop ends, and the next loop of the chain begins.
LoopEnds(v) == IF v.chained = 0 THEN [v EXCEPT !.loop = "off"]
               ELSE [v EXCEPT !.loop = "test", !.chained = @ - 1]

WakeNobody(v) == v

\* wakeSlot(): ends a sleep() or the wait for a slot.
WakeSlot(v) == IF v.loop \in {"sleep", "slot"} THEN [v EXCEPT !.loop = "test"] ELSE v

\* startLoop(): a loop still winding down comes first.
StartLoop(v) ==
  IF v.consuming THEN v
  ELSE IF v.loop = "off" THEN [v EXCEPT !.consuming = TRUE, !.loop = "test"]
  ELSE [v EXCEPT !.consuming = TRUE, !.chained = @ + 1]

-----------------------------------------------------------------------------
(* Calls of the application.  It makes none once it has shut down.         *)

Call == w.closing = "no" /\ w.calls < MaxCalls

\* start() or resume(): the queue runs and the driver is polled.
Resume ==
  /\ Call
  /\ w' = [StartLoop(w) EXCEPT !.paused = FALSE, !.calls = @ + 1]
  /\ UNCHANGED <<queueVars, of, idMap, backend, ops, loose>>

Pause ==
  /\ Call
  /\ w' = [WakeSlot(w) EXCEPT !.consuming = FALSE, !.paused = TRUE, !.calls = @ + 1]
  /\ UNCHANGED <<queueVars, of, idMap, backend, ops, loose>>

\* shutdown(), up to the wait for the loop.
Shutdown ==
  /\ Call
  /\ w' = [WakeSlot(w) EXCEPT !.consuming = FALSE, !.closing = "loop", !.calls = @ + 1]
  /\ UNCHANGED <<queueVars, of, idMap, backend, ops, loose>>

\* The loop has ended: queue.shutdown({ pending: 'keep' }).
CloseQueue ==
  /\ w.closing = "loop" /\ w.loop = "off"
  /\ w' = [w EXCEPT !.closing = "queue"]
  /\ Queue!CancelWaiting({}) /\ ~accepting'
  /\ UNCHANGED <<of, idMap, backend, ops, loose>>

ReleaseWithoutWaiting ==
  /\ w.closing = "queue"
  /\ w' = [w EXCEPT !.closing = "release"]
  /\ idMap' = <<>>
  /\ IF w.driver.release
     THEN ops' = ops \cup [op : {"release"}, msg : Range(idMap)] /\ UNCHANGED loose
     ELSE loose' = loose \cup Range(idMap) /\ UNCHANGED ops
  /\ UNCHANGED <<queueVars, of, backend>>

\* queue.shutdown() has returned: what is still held goes back to the driver.
ReleaseHeld ==
  /\ w.closing = "queue" /\ Sending = {}
  /\ w' = [w EXCEPT !.closing = "release"]
  /\ idMap' = <<>>
  /\ IF w.driver.release
     THEN ops' = ops \cup [op : {"release"}, msg : Range(idMap)] /\ UNCHANGED loose
     ELSE loose' = loose \cup Range(idMap) /\ UNCHANGED ops
  /\ UNCHANGED <<queueVars, of, backend>>

\* The releases are answered: the connections close and shutdown() resolves.
ShutdownReturns ==
  /\ w.closing = "release" /\ \A o \in ops : o.op # "release"
  /\ w' = [w EXCEPT !.closing = "done"]
  /\ UNCHANGED <<queueVars, of, idMap, backend, ops, loose>>

-----------------------------------------------------------------------------
(* The consumer loop.                                                      *)

Test ==
  /\ w.loop = "test"
  /\ w' = IF ~w.consuming THEN LoopEnds(w)
          ELSE [w EXCEPT !.loop = IF Cardinality(DOMAIN idMap) >= MaxHeld THEN "slot"
                                  ELSE "dequeue"]
  /\ UNCHANGED <<queueVars, of, idMap, backend, ops, loose>>

\* dequeue() has thrown.
DequeueFails ==
  /\ w.loop = "dequeue" /\ w.faults < MaxFaults
  /\ w' = [w EXCEPT !.loop = "sleep", !.faults = @ + 1]
  /\ UNCHANGED <<queueVars, of, idMap, backend, ops, loose>>

\* dequeue() resolves null: nothing is ready.
DequeueEmpty ==
  /\ w.loop = "dequeue" /\ \A m \in Messages : backend[m] # "ready"
  /\ w' = IF w.consuming THEN [w EXCEPT !.loop = "sleep"] ELSE LoopEnds(w)
  /\ UNCHANGED <<queueVars, of, idMap, backend, ops, loose>>

\* dequeue() resolves message m.
Received(m) ==
  /\ w.loop = "dequeue" /\ backend[m] = "ready"
  /\ backend' = [backend EXCEPT ![m] = "out"]

DropLate(m) ==
  /\ ~w.consuming
  /\ w' = LoopEnds(w)
  /\ UNCHANGED <<queueVars, of, idMap, ops, loose>>

\* The loop was stopped while dequeue() was under way.
HandBack(m) ==
  /\ ~w.consuming
  /\ IF w.driver.release
     THEN /\ ops' = ops \cup {[op |-> "release", msg |-> m]}
          /\ w' = [w EXCEPT !.loop = "release"] /\ UNCHANGED loose
     ELSE loose' = loose \cup {m} /\ w' = LoopEnds(w) /\ UNCHANGED ops
  /\ UNCHANGED <<queueVars, of, idMap>>

\* enqueue() throws: the message is of no use, or the queue is closed.
Refuse(m) ==
  /\ w.consuming /\ (m \in w.driver.malformed \/ ~accepting)
  /\ w' = [w EXCEPT !.loop = "sleep"]
  /\ loose' = loose \cup {m}
  /\ UNCHANGED <<queueVars, of, idMap, ops>>

\* findIdempotent(): the job that has the message's key.
JobsOfKey(m) == {j \in DOMAIN of : KeyOf[m] # NoKey /\ KeyOf[of[j]] = KeyOf[m]}

\* enqueue() returns an existing job, which is held or has ended.
Duplicate(m) ==
  /\ w.consuming /\ accepting /\ m \notin w.driver.malformed
  /\ \E j \in JobsOfKey(m) : j \in DOMAIN idMap \/ phase[j] \in Queue!Final
  /\ ops' = ops \cup {[op |-> "ack", msg |-> m]}
  /\ w' = [w EXCEPT !.loop = "test"]
  /\ UNCHANGED <<queueVars, of, idMap, loose>>

\* enqueue() makes a job, which may start at once.
Accept(m) ==
  /\ w.consuming /\ accepting /\ m \notin w.driver.malformed
  /\ JobsOfKey(m) = {} /\ Len(of) < MaxJobs
  /\ UNCHANGED accepting /\ Queue!Submit(Len(of) + 1)
  /\ w.paused => Queue!In(phase', {"sending"}) = Sending
  /\ of' = Append(of, m)
  /\ idMap' = [j \in DOMAIN idMap \cup {Len(of) + 1} |->
                 IF j = Len(of) + 1 THEN m ELSE idMap[j]]
  /\ w' = [w EXCEPT !.loop = "test"]
  /\ UNCHANGED <<ops, loose>>

DequeueResolves(m) ==
  Received(m) /\ (HandBack(m) \/ Refuse(m) \/ Duplicate(m) \/ Accept(m))

\* The timer of sleep() fires.
SleepEnds ==
  /\ w.loop = "sleep"
  /\ w' = [w EXCEPT !.loop = "test"]
  /\ UNCHANGED <<queueVars, of, idMap, backend, ops, loose>>

-----------------------------------------------------------------------------
(* Events of the send queue.                                               *)

\* Waiting jobs start.
Start ==
  /\ ~w.paused /\ UNCHANGED accepting /\ Queue!Start
  /\ UNCHANGED <<of, idMap, w, backend, ops, loose>>

\* interrupt(jobId), or the end of the time shutdown() gives running jobs.
Interrupted(j) ==
  /\ Queue!GiveBack(j)
  /\ \/ Call /\ w' = [w EXCEPT !.calls = @ + 1]
     \/ w.closing = "queue" /\ UNCHANGED w
  /\ UNCHANGED <<of, idMap, backend, ops, loose>>

\* The call that tells the driver how a job ended.
Answer == [success |-> "ack", dead |-> "nack", cancelled |-> "cancel"]

\* settle(): the place is free before the driver has answered.
Settle(j, end) ==
  IF j \in DOMAIN idMap
  THEN /\ ops' = ops \cup {[op |-> Answer[end], msg |-> idMap[j]]}
       /\ idMap' = Restrict(idMap, DOMAIN idMap \ {j})
       /\ w' = WakeSlot(w)
  ELSE UNCHANGED <<ops, idMap, w>>

\* An attempt ends: `success', `dead', `cancelled', or a retry.
AttemptEnds(j) ==
  /\ Queue!Finish(j)
  /\ IF phase'[j] \in Queue!Final THEN Settle(j, phase'[j]) ELSE UNCHANGED <<ops, idMap, w>>
  /\ UNCHANGED <<of, backend, loose>>

\* cancel(jobId) of a job that waits.
CancelJob(j) ==
  /\ w.closing = "no" /\ phase[j] = "waiting" /\ Queue!CancelWaiting({j}) /\ accepting'
  /\ Settle(j, "cancelled")
  /\ UNCHANGED <<of, backend, loose>>

-----------------------------------------------------------------------------
(* The backend.                                                            *)

\* A call of the driver takes effect on a message that is out; acknowledging
\* removes the message wherever it is.
Effect(o) == CASE o.op = "nack"    -> IF backend[o.msg] = "gone" THEN "gone" ELSE "dead"
               [] o.op = "release" -> IF backend[o.msg] = "out" THEN "ready"
                                      ELSE backend[o.msg]
               [] OTHER            -> "gone"

AfterRelease(o) == IF o.op = "release" /\ w.loop = "release" THEN LoopEnds(w) ELSE w

DriverAnswers(o) ==
  /\ o \in ops /\ ops' = ops \ {o}
  /\ backend' = [backend EXCEPT ![o.msg] = Effect(o)]
  /\ w' = AfterRelease(o)
  /\ UNCHANGED <<queueVars, of, idMap, loose>>

\* The call rejects: fail() reports it, and the message stays out.
DriverFails(o) ==
  /\ o \in ops /\ ops' = ops \ {o} /\ w.faults < MaxFaults
  /\ w' = [AfterRelease(o) EXCEPT !.faults = @ + 1]
  /\ loose' = loose \cup {o.msg}
  /\ UNCHANGED <<queueVars, of, idMap, backend>>

\* The visibility timeout of a message ends: it may be given out again.
Expire(m) ==
  /\ backend[m] = "out" /\ w.expiries < MaxExpiries
  /\ backend' = [backend EXCEPT ![m] = "ready"]
  /\ w' = [w EXCEPT !.expiries = @ + 1]
  /\ UNCHANGED <<queueVars, of, idMap, ops, loose>>

-----------------------------------------------------------------------------
Init ==
  /\ Queue!Init
  /\ of = <<>> /\ idMap = <<>> /\ ops = {} /\ loose = {}
  /\ w \in [consuming : {FALSE}, paused : {FALSE}, loop : {"off"}, chained : {0},
            closing : {"no"}, driver : Drivers, calls : {0}, faults : {0}, expiries : {0}]
  /\ backend = [m \in Messages |-> "ready"]

Loop == Test \/ SleepEnds \/ DequeueFails \/ DequeueEmpty
        \/ \E m \in Messages : DequeueResolves(m)
Close == CloseQueue \/ ReleaseHeld \/ ShutdownReturns
Driver == \E o \in ops : DriverAnswers(o) \/ DriverFails(o)

Next ==
  \/ Resume \/ Pause \/ Shutdown
  \/ Loop \/ Close \/ Driver
  \/ Start
  \/ \E j \in JobIds : AttemptEnds(j) \/ Interrupted(j) \/ CancelJob(j)
  \/ \E m \in Messages : Expire(m)

Spec == Init /\ [][Next]_vars

\* The loop and shutdown() go on by themselves; the driver answers; the send
\* queue starts what it can and every attempt ends (queue_live).
Fairness ==
  /\ WF_vars(Loop) /\ WF_vars(Close) /\ WF_vars(Driver) /\ WF_vars(Start)
  /\ \A j \in JobIds : WF_vars(AttemptEnds(j))

FairSpec == Spec /\ Fairness

-----------------------------------------------------------------------------
(* Properties.                                                             *)

\* Backpressure: however often the worker is paused and resumed while a
\* dequeue() is under way, it never holds more than concurrency + prefetch
\* messages.
HoldsNoMore == Cardinality(DOMAIN idMap) <= MaxHeld

\* No message falls between the worker and the backend: one the backend counts
\* as handed out is held by a job that has not ended, or the driver is being
\* told of its fate, unless an answer of the driver was lost, the message was
\* refused, or the driver cannot take messages back.
NothingForgotten ==
  \A m \in Messages : backend[m] = "out" =>
    \/ m \in loose
    \/ \E o \in ops : o.msg = m
    \/ \E j \in DOMAIN idMap : idMap[j] = m /\ phase[j] \notin Queue!Final

\* Every message has its place: no more of them than the worker may hold, and
\* none that is in nobody's hands.
EachInItsPlace == TypeOK /\ HoldsNoMore /\ NothingForgotten

\* A message that is handed back at a shutdown is not being sent, and will not
\* be by this worker: whoever takes it next is the only one to send it.
HandedBackUnsent ==
  \A o \in ops : o.op = "release" /\ w.expiries = 0 =>
    \A j \in DOMAIN of : of[j] = o.msg => phase[j] = "waiting" /\ ~accepting

\* A message with an idempotency key is sent at most once, though its
\* acknowledgement fails and the backend gives it out again.
SentOncePerKey ==
  \A i, j \in DOMAIN of :
    i # j /\ phase[i] = "success" /\ phase[j] = "success" =>
      KeyOf[of[i]] = NoKey \/ KeyOf[of[i]] # KeyOf[of[j]]

\* Nobody sends what another one sends or has sent.
NeverSentTwice == HandedBackUnsent /\ SentOncePerKey

\* While the worker consumes, no ready message waits for ever: every wait of
\* the loop for a free place is ended by the job that frees one.
EveryMessageTaken ==
  <>[]w.consuming => \A m \in Messages : backend[m] = "ready" ~> backend[m] # "ready"

\* shutdown() returns.
ShutdownEnds == w.closing = "loop" ~> w.closing = "done"

\* Neither the messages nor the caller of shutdown() wait for ever.
NobodyWaitsForEver == EveryMessageTaken /\ ShutdownEnds
=============================================================================
