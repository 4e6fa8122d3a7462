-------------------------- MODULE MailWorkerProofs --------------------------
(***************************************************************************)
(* The worker forgets no message and sends none twice, for every set of    *)
(* messages and keys, every limit, every driver, and every number of       *)
(* calls, redeliveries and failures.                                       *)
(***************************************************************************)
EXTENDS MailWorker, FiniteSetTheorems, TLAPS

-----------------------------------------------------------------------------
(* The invariant.                                                          *)

Worker == [consuming : BOOLEAN, paused : BOOLEAN, loop : Stages, chained : 0..MaxCalls,
           closing : Closing, driver : Drivers, calls : 0..MaxCalls,
           faults : 0..MaxFaults, expiries : 0..MaxExpiries]

\* An attempt under way has been counted.
QueueSound ==
  /\ phase \in [JobIds -> Queue!Phase] /\ tries \in [JobIds -> 0..MaxTries]
  /\ accepting \in BOOLEAN
  /\ \A j \in JobIds : phase[j] = "sending" => tries[j] # 0

\* dequeue() is called only while there is a free place, each loop of the chain was
\* started by a call, and the queue is closed before anything goes back.
LoopSound ==
  /\ w \in Worker
  /\ w.chained <= w.calls
  /\ HoldsNoMore
  /\ w.loop = "dequeue" => Cardinality(DOMAIN idMap) < MaxHeld
  /\ w.closing \in {"queue", "release", "done"} => ~accepting

\* A job that is held has not ended, and no two jobs have one key.
JobsSound ==
  /\ of \in Seq(Messages) /\ Len(of) <= MaxJobs
  /\ DOMAIN idMap \subseteq DOMAIN of
  /\ \A j \in DOMAIN idMap : idMap[j] = of[j] /\ phase[j] \in {"waiting", "sending"}
  /\ \A i, j \in DOMAIN of : i # j => KeyOf[of[i]] = NoKey \/ KeyOf[of[i]] # KeyOf[of[j]]

\* Job j was kept when the queue closed, or is of a message that was not taken.
Unsent(j) == phase[j] = "waiting" /\ ~accepting

\* While no message is given out again, one has a single job, which is held or is told
\* of in one call of the driver; if the message is or may become ready, the job is unsent.
OneOfEach ==
  /\ \A i, j \in DOMAIN of : of[i] = of[j] => i = j
  /\ \A o, q \in ops : o.msg = q.msg => o = q
  /\ \A o \in ops : backend[o.msg] # "ready" /\ \A j \in DOMAIN idMap : of[j] # o.msg
  /\ \A o \in ops : o.op = "release" => \A j \in DOMAIN of : of[j] = o.msg => Unsent(j)
  /\ \A j \in DOMAIN of : backend[of[j]] = "ready" => Unsent(j) /\ j \notin DOMAIN idMap

DriverSound ==
  /\ backend \in [Messages -> {"ready", "out", "gone", "dead"}]
  /\ ops \subseteq Ops /\ loose \subseteq Messages
  /\ NothingForgotten
  /\ w.expiries = 0 => OneOfEach

IInv == QueueSound /\ LoopSound /\ JobsSound /\ DriverSound

LEMMA TypeCorrect == IInv => TypeOK
<1> SUFFICES ASSUME IInv PROVE TypeOK
  OBVIOUS
<1>1. Range(idMap) \subseteq Messages
  <2>1. \A j \in DOMAIN of : of[j] \in Messages
    BY DEF IInv, JobsSound
  <2> QED
    BY <2>1 DEF IInv, JobsSound, Range
<1> QED
  BY <1>1 DEF IInv, QueueSound, LoopSound, JobsSound, DriverSound, TypeOK, Worker

\* The invariant is true of a worker that was just made.
LEMMA Initially == Init => IInv
<1> SUFFICES ASSUME Init PROVE IInv
  OBVIOUS
<1> USE MailWorkerConstants
<1>1. QueueSound
  BY DEF Init, QueueSound, Queue!Init, Queue!Phase, Queue!Final
<1>2. DOMAIN idMap = {} /\ DOMAIN of = {} /\ Len(of) = 0 /\ of \in Seq(Messages)
  BY DEF Init
<1>3. MaxHeld \in Nat \ {0}
  BY DEF MaxHeld
<1>4. Cardinality(DOMAIN idMap) = 0
  BY <1>2, FS_EmptySet
<1>5. w \in Worker /\ w.chained = 0 /\ w.calls = 0 /\ w.loop = "off" /\ w.closing = "no"
  <2>1. w \in [consuming : {FALSE}, paused : {FALSE}, loop : {"off"}, chained : {0},
               closing : {"no"}, driver : Drivers, calls : {0}, faults : {0}, expiries : {0}]
    BY DEF Init
  <2>2. /\ w = [consuming |-> w.consuming, paused |-> w.paused, loop |-> w.loop,
                chained |-> w.chained, closing |-> w.closing, driver |-> w.driver,
                calls |-> w.calls, faults |-> w.faults, expiries |-> w.expiries]
        /\ w.consuming = FALSE /\ w.paused = FALSE /\ w.loop = "off" /\ w.chained = 0
        /\ w.closing = "no" /\ w.driver \in Drivers /\ w.calls = 0 /\ w.faults = 0
        /\ w.expiries = 0
    BY <2>1
  <2>3. 0 \in 0..MaxCalls /\ 0 \in 0..MaxFaults /\ 0 \in 0..MaxExpiries
    OBVIOUS
  <2>4. "off" \in Stages /\ "no" \in Closing
    BY DEF Stages, Closing
  <2> QED
    BY <2>2, <2>3, <2>4 DEF Worker
<1>6. LoopSound
  BY <1>3, <1>4, <1>5 DEF LoopSound, HoldsNoMore
<1>7. JobsSound
  BY <1>2 DEF JobsSound
<1>8. DriverSound
  BY <1>2 DEF Init, DriverSound, NothingForgotten, OneOfEach
<1> QED
  BY <1>1, <1>6, <1>7, <1>8 DEF IInv

-----------------------------------------------------------------------------
(* The loop.                                                               *)

LEMMA LoopEndsSound ==
  ASSUME NEW v \in Worker, v.chained <= v.calls
  PROVE  /\ LoopEnds(v) \in Worker /\ LoopEnds(v).chained <= LoopEnds(v).calls
         /\ LoopEnds(v).loop # "dequeue" /\ LoopEnds(v).closing = v.closing
         /\ LoopEnds(v).expiries = v.expiries /\ LoopEnds(v).faults = v.faults
<1> USE MailWorkerConstants
<1>1. CASE v.chained = 0
  <2> DEFINE x == [v EXCEPT !.loop = "off"]
  <2>1. x \in Worker /\ x.loop = "off" /\ x.chained = v.chained /\ x.calls = v.calls
        /\ x.closing = v.closing /\ x.expiries = v.expiries /\ x.faults = v.faults
    BY DEF Worker, Stages
  <2> QED
    BY <1>1, <2>1 DEF LoopEnds
<1>2. CASE v.chained # 0
  <2> DEFINE x == [v EXCEPT !.loop = "test", !.chained = v.chained - 1]
  <2>1. v.chained - 1 \in 0..MaxCalls /\ v.chained - 1 <= v.calls
    BY <1>2 DEF Worker
  <2>2. x \in Worker /\ x.loop = "test" /\ x.chained = v.chained - 1 /\ x.calls = v.calls
        /\ x.closing = v.closing /\ x.expiries = v.expiries /\ x.faults = v.faults
    BY <2>1 DEF Worker, Stages
  <2> QED
    BY <1>2, <2>1, <2>2 DEF LoopEnds
<1> QED
  BY <1>1, <1>2

LEMMA WakeSlotSound ==
  ASSUME NEW v \in Worker
  PROVE  /\ WakeSlot(v) \in Worker
         /\ WakeSlot(v).loop = "dequeue" => v.loop = "dequeue"
         /\ WakeSlot(v).chained = v.chained /\ WakeSlot(v).calls = v.calls
         /\ WakeSlot(v).closing = v.closing /\ WakeSlot(v).expiries = v.expiries
         /\ WakeSlot(v).faults = v.faults
<1> DEFINE x == [v EXCEPT !.loop = "test"]
<1>1. x \in Worker /\ x.loop = "test" /\ x.chained = v.chained /\ x.calls = v.calls
      /\ x.closing = v.closing /\ x.expiries = v.expiries /\ x.faults = v.faults
  BY DEF Worker, Stages
<1> QED
  BY <1>1 DEF WakeSlot

LEMMA StartLoopSound ==
  ASSUME NEW v \in Worker, v.chained <= v.calls, v.calls < MaxCalls
  PROVE  /\ StartLoop(v) \in Worker
         /\ StartLoop(v).loop = "dequeue" => v.loop = "dequeue"
         /\ StartLoop(v).chained <= v.calls + 1 /\ StartLoop(v).calls = v.calls
         /\ StartLoop(v).closing = v.closing /\ StartLoop(v).expiries = v.expiries
<1> USE MailWorkerConstants
<1>1. v.chained \in Nat /\ v.calls \in Nat
  BY DEF Worker
<1>2. CASE v.consuming
  BY <1>1, <1>2 DEF StartLoop
<1>3. CASE ~v.consuming /\ v.loop = "off"
  <2> DEFINE x == [v EXCEPT !.consuming = TRUE, !.loop = "test"]
  <2>1. x \in Worker /\ x.loop = "test" /\ x.chained = v.chained /\ x.calls = v.calls
        /\ x.closing = v.closing /\ x.expiries = v.expiries
    BY DEF Worker, Stages
  <2> QED
    BY <1>1, <1>3, <2>1 DEF StartLoop
<1>4. CASE ~v.consuming /\ v.loop # "off"
  <2> DEFINE x == [v EXCEPT !.consuming = TRUE, !.chained = v.chained + 1]
  <2>1. v.chained + 1 \in 0..MaxCalls
    BY <1>1
  <2>2. x \in Worker /\ x.loop = v.loop /\ x.chained = v.chained + 1 /\ x.calls = v.calls
        /\ x.closing = v.closing /\ x.expiries = v.expiries
    BY <2>1 DEF Worker
  <2> QED
    BY <1>1, <1>4, <2>2 DEF StartLoop
<1> QED
  BY <1>2, <1>3, <1>4

\* A step that leaves the jobs alone.
LEMMA NoJobStep ==
  ASSUME IInv, w' \in Worker, w'.chained <= w'.calls,
         w'.loop = "dequeue" => Cardinality(DOMAIN idMap) < MaxHeld,
         w'.closing \in {"queue", "release", "done"} => ~accepting,
         UNCHANGED <<queueVars, of, idMap>>, DriverSound'
  PROVE  IInv'
<1>1. UNCHANGED <<phase, tries, accepting, of, idMap>>
  BY DEF queueVars
<1>2. QueueSound' /\ JobsSound'
  BY <1>1 DEF IInv, QueueSound, JobsSound
<1>3. LoopSound'
  BY <1>1 DEF IInv, LoopSound, HoldsNoMore
<1> QED
  BY <1>2, <1>3 DEF IInv

\* A step of the loop, or a call, that touches nothing else.
LEMMA LoopStep ==
  ASSUME IInv, w' \in Worker, w'.chained <= w'.calls, w'.expiries = w.expiries,
         w'.loop = "dequeue" => Cardinality(DOMAIN idMap) < MaxHeld,
         w'.closing \in {"queue", "release", "done"} => ~accepting,
         UNCHANGED <<queueVars, of, idMap, backend, ops, loose>>
  PROVE  IInv'
<1>1. UNCHANGED <<phase, tries, accepting, of, idMap, backend, ops, loose>>
  BY DEF queueVars
<1>2. NothingForgotten'
  BY <1>1 DEF IInv, DriverSound, NothingForgotten
<1>3. DriverSound'
  BY <1>1, <1>2 DEF IInv, DriverSound, OneOfEach, Unsent
<1> QED
  BY <1>3, NoJobStep

LEMMA HeldFinite ==
  IInv => /\ DOMAIN of = 1..Len(of) /\ Len(of) \in Nat
          /\ IsFiniteSet(DOMAIN idMap) /\ Cardinality(DOMAIN idMap) \in Nat
<1> SUFFICES ASSUME IInv
             PROVE  /\ DOMAIN of = 1..Len(of) /\ Len(of) \in Nat
                    /\ IsFiniteSet(DOMAIN idMap) /\ Cardinality(DOMAIN idMap) \in Nat
  OBVIOUS
<1>1. DOMAIN of = 1..Len(of) /\ Len(of) \in Nat
  BY DEF IInv, JobsSound
<1>2. IsFiniteSet(DOMAIN of)
  BY <1>1, FS_Interval
<1>3. IsFiniteSet(DOMAIN idMap)
  BY <1>2, FS_Subset DEF IInv, JobsSound
<1> QED
  BY <1>1, <1>3, FS_CardinalityType

LEMMA WorkerFields ==
  IInv => /\ w \in Worker /\ w.chained <= w.calls /\ w.chained \in Nat /\ w.calls \in Nat
          /\ w.faults \in Nat
          /\ w.closing \in {"queue", "release", "done"} => ~accepting
          /\ w.loop = "dequeue" => Cardinality(DOMAIN idMap) < MaxHeld
BY DEF IInv, LoopSound, Worker

LEMMA ResumeStep == ASSUME IInv, Resume PROVE IInv'
<1> USE MailWorkerConstants
<1> DEFINE v == StartLoop(w)
<1>1. w.closing = "no" /\ w.calls < MaxCalls /\ w' = [v EXCEPT !.paused = FALSE, !.calls = v.calls + 1]
  BY DEF Resume, Call
<1>2. /\ v \in Worker /\ (v.loop = "dequeue" => w.loop = "dequeue")
      /\ v.chained <= w.calls + 1 /\ v.calls = w.calls
      /\ v.closing = w.closing /\ v.expiries = w.expiries
  BY <1>1, WorkerFields, StartLoopSound
<1> HIDE DEF v
<1>3. v.calls + 1 \in 0..MaxCalls
  BY <1>1, <1>2, WorkerFields
<1>4. /\ w' \in Worker /\ w'.calls = v.calls + 1 /\ w'.chained = v.chained /\ w'.loop = v.loop
      /\ w'.closing = v.closing /\ w'.expiries = v.expiries
  BY <1>1, <1>2, <1>3 DEF Worker
<1>5. UNCHANGED <<queueVars, of, idMap, backend, ops, loose>>
  BY DEF Resume
<1> QED
  BY <1>1, <1>2, <1>4, <1>5, WorkerFields, LoopStep

LEMMA PauseStep == ASSUME IInv, Pause PROVE IInv'
<1> USE MailWorkerConstants
<1> DEFINE v == WakeSlot(w)
<1>1. /\ w.closing = "no" /\ w.calls < MaxCalls
      /\ w' = [v EXCEPT !.consuming = FALSE, !.paused = TRUE, !.calls = v.calls + 1]
  BY DEF Pause, Call
<1>2. /\ v \in Worker /\ (v.loop = "dequeue" => w.loop = "dequeue")
      /\ v.chained = w.chained /\ v.calls = w.calls
      /\ v.closing = w.closing /\ v.expiries = w.expiries
  BY WorkerFields, WakeSlotSound
<1> HIDE DEF v
<1>3. v.calls + 1 \in 0..MaxCalls
  BY <1>1, <1>2, WorkerFields
<1>4. /\ w' \in Worker /\ w'.calls = v.calls + 1 /\ w'.chained = v.chained /\ w'.loop = v.loop
      /\ w'.closing = v.closing /\ w'.expiries = v.expiries
  BY <1>1, <1>2, <1>3 DEF Worker
<1>5. UNCHANGED <<queueVars, of, idMap, backend, ops, loose>>
  BY DEF Pause
<1> QED
  BY <1>1, <1>2, <1>4, <1>5, WorkerFields, LoopStep

LEMMA ShutdownStep == ASSUME IInv, Shutdown PROVE IInv'
<1> USE MailWorkerConstants
<1> DEFINE v == WakeSlot(w)
<1>1. /\ w.closing = "no" /\ w.calls < MaxCalls
      /\ w' = [v EXCEPT !.consuming = FALSE, !.closing = "loop", !.calls = v.calls + 1]
  BY DEF Shutdown, Call
<1>2. /\ v \in Worker /\ (v.loop = "dequeue" => w.loop = "dequeue")
      /\ v.chained = w.chained /\ v.calls = w.calls
      /\ v.closing = w.closing /\ v.expiries = w.expiries
  BY WorkerFields, WakeSlotSound
<1> HIDE DEF v
<1>3. v.calls + 1 \in 0..MaxCalls
  BY <1>1, <1>2, WorkerFields
<1>4. /\ w' \in Worker /\ w'.calls = v.calls + 1 /\ w'.chained = v.chained /\ w'.loop = v.loop
      /\ w'.closing = "loop" /\ w'.expiries = v.expiries
  BY <1>1, <1>2, <1>3 DEF Worker, Closing
<1>5. UNCHANGED <<queueVars, of, idMap, backend, ops, loose>>
  BY DEF Shutdown
<1> QED
  BY <1>1, <1>2, <1>4, <1>5, WorkerFields, LoopStep

\* The loop goes to another place, which is dequeue() only if there is a free one.
LEMMA MovedSound ==
  ASSUME NEW v \in Worker, NEW at \in Stages
  PROVE  LET x == [v EXCEPT !.loop = at]
         IN  /\ x \in Worker /\ x.loop = at /\ x.chained = v.chained /\ x.calls = v.calls
             /\ x.closing = v.closing /\ x.expiries = v.expiries /\ x.faults = v.faults
BY DEF Worker

LEMMA ShutdownReturnsStep == ASSUME IInv, ShutdownReturns PROVE IInv'
<1>1. w' = [w EXCEPT !.closing = "done"] /\ w.closing = "release"
      /\ UNCHANGED <<queueVars, of, idMap, backend, ops, loose>>
  BY DEF ShutdownReturns
<1>2. /\ w' \in Worker /\ w'.chained = w.chained /\ w'.calls = w.calls /\ w'.loop = w.loop
      /\ w'.closing = "done" /\ w'.expiries = w.expiries
  BY <1>1, WorkerFields DEF Worker, Closing
<1> QED
  BY <1>1, <1>2, WorkerFields, LoopStep

LEMMA TestStep == ASSUME IInv, Test PROVE IInv'
<1> USE MailWorkerConstants
<1>1. UNCHANGED <<queueVars, of, idMap, backend, ops, loose>>
  BY DEF Test
<1>2. CASE ~w.consuming
  <2>1. w' = LoopEnds(w)
    BY <1>2 DEF Test
  <2> QED
    BY <1>1, <2>1, WorkerFields, LoopEndsSound, LoopStep
<1>3. CASE w.consuming
  <2> DEFINE at == IF Cardinality(DOMAIN idMap) >= MaxHeld THEN "slot" ELSE "dequeue"
  <2>1. w' = [w EXCEPT !.loop = at]
    BY <1>3 DEF Test
  <2>2. at \in Stages
    BY DEF Stages
  <2>3. at = "dequeue" => Cardinality(DOMAIN idMap) < MaxHeld
    <3>1. MaxHeld \in Nat
      BY DEF MaxHeld
    <3>2. Cardinality(DOMAIN idMap) \in Nat
      BY HeldFinite
    <3> QED
      BY <3>1, <3>2
  <2> HIDE DEF at
  <2> QED
    BY <1>1, <2>1, <2>2, <2>3, WorkerFields, MovedSound, LoopStep
<1> QED
  BY <1>2, <1>3

LEMMA DequeueFailsStep == ASSUME IInv, DequeueFails PROVE IInv'
<1> USE MailWorkerConstants
<1> DEFINE x == [w EXCEPT !.loop = "sleep"]
<1>1. x \in Worker /\ x.loop = "sleep" /\ x.chained = w.chained /\ x.calls = w.calls
      /\ x.closing = w.closing /\ x.expiries = w.expiries /\ x.faults = w.faults
  BY WorkerFields, MovedSound DEF Stages
<1>2. w' = [x EXCEPT !.faults = x.faults + 1] /\ w.faults < MaxFaults
      /\ UNCHANGED <<queueVars, of, idMap, backend, ops, loose>>
  BY <1>1 DEF DequeueFails
<1> HIDE DEF x
<1>3. x.faults + 1 \in 0..MaxFaults
  BY <1>1, <1>2, WorkerFields
<1>4. w' \in Worker /\ w'.loop = x.loop /\ w'.chained = x.chained /\ w'.calls = x.calls
      /\ w'.closing = x.closing /\ w'.expiries = x.expiries
  BY <1>1, <1>2, <1>3 DEF Worker
<1> QED
  BY <1>1, <1>2, <1>4, WorkerFields, LoopStep

LEMMA DequeueEmptyStep == ASSUME IInv, DequeueEmpty PROVE IInv'
<1>1. UNCHANGED <<queueVars, of, idMap, backend, ops, loose>>
  BY DEF DequeueEmpty
<1>2. CASE w.consuming
  <2>1. w' = [w EXCEPT !.loop = "sleep"] /\ "sleep" \in Stages
    BY <1>2 DEF DequeueEmpty, Stages
  <2> QED
    BY <1>1, <2>1, WorkerFields, MovedSound, LoopStep
<1>3. CASE ~w.consuming
  <2>1. w' = LoopEnds(w)
    BY <1>3 DEF DequeueEmpty
  <2> QED
    BY <1>1, <2>1, WorkerFields, LoopEndsSound, LoopStep
<1> QED
  BY <1>2, <1>3

LEMMA SleepEndsStep == ASSUME IInv, SleepEnds PROVE IInv'
<1>1. UNCHANGED <<queueVars, of, idMap, backend, ops, loose>>
      /\ w' = [w EXCEPT !.loop = "test"] /\ "test" \in Stages
  BY DEF SleepEnds, Stages
<1> QED
  BY <1>1, WorkerFields, MovedSound, LoopStep

-----------------------------------------------------------------------------
(* A message comes out of dequeue().                                       *)

LEMMA ReceivedOut ==
  ASSUME IInv, NEW m \in Messages, Received(m)
  PROVE  /\ backend[m] = "ready" /\ backend'[m] = "out"
         /\ backend' \in [Messages -> {"ready", "out", "gone", "dead"}]
         /\ \A x \in Messages \ {m} : backend'[x] = backend[x]
         /\ \A j \in DOMAIN of : of[j] \in Messages
         /\ \A o \in ops : o.msg \in Messages
BY DEF Received, IInv, DriverSound, JobsSound, Ops

\* The message is not held: the driver is told of it, or it is given up.
LEMMA NotHeld ==
  ASSUME IInv, NEW m \in Messages, Received(m), UNCHANGED <<queueVars, of, idMap>>,
         w'.expiries = w.expiries,
         \/ ops' = ops /\ loose' = loose \cup {m}
         \/ \E r \in Ops : r.msg = m /\ ops' = ops \cup {r} /\ loose' = loose
  PROVE  DriverSound'
<1>1. UNCHANGED <<phase, tries, accepting, of, idMap>>
  BY DEF queueVars
<1>2. NothingForgotten'
  <2> SUFFICES ASSUME NEW x \in Messages, backend'[x] = "out"
               PROVE  \/ x \in loose'
                      \/ \E o \in ops' : o.msg = x
                      \/ \E j \in DOMAIN idMap : idMap[j] = x /\ phase[j] \notin Queue!Final
    BY <1>1 DEF NothingForgotten
  <2>1. CASE x = m
    BY <2>1
  <2>2. CASE x # m
    BY <2>2, ReceivedOut DEF IInv, DriverSound, NothingForgotten
  <2> QED
    BY <2>1, <2>2
<1>3. ASSUME w.expiries = 0, OneOfEach PROVE OneOfEach'
  <2>1. \A o \in ops' : o \in ops \/ o.msg = m
    OBVIOUS
  <2>2. \A o \in ops : o.msg # m
    BY <1>3, ReceivedOut DEF OneOfEach
  <2>3. \A o, q \in ops' : o.msg = q.msg => o = q
    BY <1>3, <2>2 DEF OneOfEach
  <2>4. \A j \in DOMAIN of : of[j] = m => Unsent(j) /\ j \notin DOMAIN idMap
    BY <1>3, ReceivedOut DEF OneOfEach
  <2>5. \A o \in ops' : backend'[o.msg] # "ready" /\ \A j \in DOMAIN idMap : of[j] # o.msg
    <3> SUFFICES ASSUME NEW o \in ops'
                 PROVE  backend'[o.msg] # "ready" /\ \A j \in DOMAIN idMap : of[j] # o.msg
      OBVIOUS
    <3>1. CASE o.msg = m
      BY <3>1, <2>4, ReceivedOut DEF IInv, JobsSound
    <3>2. CASE o.msg # m
      BY <1>3, <2>1, <3>2, ReceivedOut DEF OneOfEach
    <3> QED
      BY <3>1, <3>2
  <2>6. \A o \in ops' : o.op = "release" => \A j \in DOMAIN of : of[j] = o.msg => Unsent(j)
    BY <1>3, <2>1, <2>4 DEF OneOfEach
  <2>7. \A j \in DOMAIN of : backend'[of[j]] = "ready" => Unsent(j) /\ j \notin DOMAIN idMap
    BY <1>3, ReceivedOut DEF OneOfEach
  <2> QED
    BY <1>1, <1>3, <2>3, <2>5, <2>6, <2>7 DEF OneOfEach, Unsent
<1> QED
  BY <1>2, <1>3, ReceivedOut DEF IInv, DriverSound

LEMMA HandBackStep ==
  ASSUME IInv, NEW m \in Messages, Received(m), HandBack(m)
  PROVE  IInv'
<1> DEFINE r == [op |-> "release", msg |-> m]
<1>1. UNCHANGED <<queueVars, of, idMap>>
  BY DEF HandBack
<1>2. r \in Ops /\ r.msg = m
  BY DEF Ops
<1>3. CASE w.driver.release
  <2>1. ops' = ops \cup {r} /\ loose' = loose /\ w' = [w EXCEPT !.loop = "release"]
        /\ "release" \in Stages
    BY <1>3 DEF HandBack, Stages
  <2> HIDE DEF r
  <2>2. DriverSound'
    BY <1>1, <1>2, <2>1, WorkerFields, MovedSound, NotHeld
  <2> QED
    BY <1>1, <2>1, <2>2, WorkerFields, MovedSound, NoJobStep
<1>4. CASE ~w.driver.release
  <2>1. ops' = ops /\ loose' = loose \cup {m} /\ w' = LoopEnds(w)
    BY <1>4 DEF HandBack
  <2>2. DriverSound'
    BY <1>1, <2>1, WorkerFields, LoopEndsSound, NotHeld
  <2> QED
    BY <1>1, <2>1, <2>2, WorkerFields, LoopEndsSound, NoJobStep
<1> QED
  BY <1>3, <1>4

LEMMA RefuseStep ==
  ASSUME IInv, NEW m \in Messages, Received(m), Refuse(m)
  PROVE  IInv'
<1>1. UNCHANGED <<queueVars, of, idMap>> /\ ops' = ops /\ loose' = loose \cup {m}
      /\ w' = [w EXCEPT !.loop = "sleep"] /\ "sleep" \in Stages
  BY DEF Refuse, Stages
<1>2. DriverSound'
  BY <1>1, WorkerFields, MovedSound, NotHeld
<1> QED
  BY <1>1, <1>2, WorkerFields, MovedSound, NoJobStep

LEMMA DuplicateStep ==
  ASSUME IInv, NEW m \in Messages, Received(m), Duplicate(m)
  PROVE  IInv'
<1> DEFINE r == [op |-> "ack", msg |-> m]
<1>1. UNCHANGED <<queueVars, of, idMap>> /\ ops' = ops \cup {r} /\ loose' = loose
      /\ w' = [w EXCEPT !.loop = "test"] /\ "test" \in Stages
  BY DEF Duplicate, Stages
<1>2. r \in Ops /\ r.msg = m
  BY DEF Ops
<1> HIDE DEF r
<1>3. DriverSound'
  BY <1>1, <1>2, WorkerFields, MovedSound, NotHeld
<1> QED
  BY <1>1, <1>3, WorkerFields, MovedSound, NoJobStep

-----------------------------------------------------------------------------
(* The send queue starts, ends and gives back jobs.                        *)

\* Jobs start while the queue is open, and an attempt is counted when it starts.
LEMMA StartingSound ==
  ASSUME QueueSound, NEW p \in [JobIds -> Queue!Phase], NEW S \in SUBSET JobIds,
         \A j \in JobIds : p[j] = "sending" => phase[j] = "sending",
         Queue!Starting(p, S)
  PROVE  /\ QueueSound' /\ accepting /\ accepting'
         /\ \A j \in JobIds : \/ phase'[j] = p[j]
                              \/ p[j] = "waiting" /\ phase'[j] = "sending"
<1> USE MailWorkerConstants
<1>1. /\ S \subseteq Queue!In(p, {"waiting"}) /\ \A j \in S : tries[j] < MaxTries
      /\ phase' = [j \in JobIds |-> IF j \in S THEN "sending" ELSE p[j]]
      /\ tries' = [j \in JobIds |-> IF j \in S THEN tries[j] + 1 ELSE tries[j]]
      /\ accepting /\ accepting'
  BY DEF Queue!Starting
<1>2. \A j \in S : p[j] = "waiting"
  BY <1>1 DEF Queue!In
<1>3. \A j \in JobIds : tries[j] \in 0..MaxTries
  BY DEF QueueSound
<1>4. \A j \in S : tries[j] + 1 \in 1..MaxTries
  BY <1>1, <1>3
<1>5. tries' \in [JobIds -> 0..MaxTries]
  BY <1>1, <1>3, <1>4
<1>6. phase' \in [JobIds -> Queue!Phase]
  BY <1>1 DEF Queue!Phase
<1>7. \A j \in JobIds : phase'[j] = "sending" => tries'[j] # 0
  BY <1>1, <1>3, <1>4 DEF QueueSound
<1>8. accepting' \in BOOLEAN
  BY <1>1 DEF QueueSound, Queue!Starting
<1> QED
  BY <1>1, <1>2, <1>5, <1>6, <1>7, <1>8 DEF QueueSound

\* While the queue is open no job is unsent.
LEMMA OpenQueue ==
  ASSUME OneOfEach, accepting
  PROVE  /\ \A o \in ops : o.op = "release" => \A j \in DOMAIN of : of[j] # o.msg
         /\ \A j \in DOMAIN of : backend[of[j]] # "ready"
BY DEF OneOfEach, Unsent

LEMMA HeldJobs ==
  ASSUME IInv
  PROVE  /\ DOMAIN of \subseteq JobIds /\ DOMAIN idMap \subseteq DOMAIN of
         /\ \A j \in DOMAIN idMap : /\ idMap[j] = of[j] /\ of[j] \in Messages
                                    /\ phase[j] \in {"waiting", "sending"}
                                    /\ phase[j] \notin Queue!Final
<1>1. DOMAIN of \subseteq JobIds
  BY HeldFinite, MailWorkerConstants DEF IInv, JobsSound, JobIds
<1>2. \A j \in DOMAIN of : of[j] \in Messages
  BY DEF IInv, JobsSound
<1> QED
  BY <1>1, <1>2 DEF IInv, JobsSound, Queue!Final

LEMMA StartStep ==
  ASSUME IInv, Start
  PROVE  IInv'
<1>1. UNCHANGED <<of, idMap, w, backend, ops, loose>>
  BY DEF Start
<1>2. PICK S \in SUBSET JobIds : Queue!Starting(phase, S)
  BY DEF Start, Queue!Start
<1>3. /\ QueueSound' /\ accepting /\ accepting'
      /\ \A j \in JobIds : \/ phase'[j] = phase[j]
                           \/ phase[j] = "waiting" /\ phase'[j] = "sending"
  BY <1>2, StartingSound DEF IInv, QueueSound
<1>4. JobsSound'
  BY <1>1, <1>3, HeldJobs DEF IInv, JobsSound
<1>5. LoopSound'
  BY <1>1, <1>3 DEF IInv, LoopSound, HoldsNoMore
<1>6. NothingForgotten'
  BY <1>1, <1>3, HeldJobs DEF IInv, DriverSound, NothingForgotten, Queue!Final
<1>7. OneOfEach => OneOfEach'
  BY <1>1, <1>3, OpenQueue DEF OneOfEach
<1>8. DriverSound'
  BY <1>1, <1>6, <1>7 DEF IInv, DriverSound
<1> QED
  BY <1>3, <1>4, <1>5, <1>8 DEF IInv

\* A job that is held in another phase keeps everything else.
LEMMA PhaseStep ==
  ASSUME IInv, NEW j \in JobIds, NEW to \in {"waiting", "sending"}, phase[j] = "sending",
         phase' = [phase EXCEPT ![j] = to], QueueSound', accepting' = accepting,
         UNCHANGED <<of, idMap, backend, ops, loose>>,
         w' \in Worker, w'.chained <= w'.calls, w'.loop = w.loop, w'.closing = w.closing,
         w'.expiries = w.expiries
  PROVE  IInv'
<1>1. \A k \in JobIds : phase'[k] = IF k = j THEN to ELSE phase[k]
  BY DEF IInv, QueueSound
<1>2. JobsSound'
  BY <1>1, HeldJobs DEF IInv, JobsSound
<1>3. LoopSound'
  BY DEF IInv, LoopSound, HoldsNoMore
<1>4. NothingForgotten'
  BY <1>1, HeldJobs DEF IInv, DriverSound, NothingForgotten, Queue!Final
<1>5. \A k \in DOMAIN of : Unsent(k) => Unsent(k)'
  BY <1>1, HeldJobs DEF Unsent
<1>6. OneOfEach => OneOfEach'
  BY <1>5 DEF OneOfEach
<1>7. DriverSound'
  BY <1>4, <1>6 DEF IInv, DriverSound
<1> QED
  BY <1>2, <1>3, <1>7 DEF IInv

LEMMA InterruptedStep ==
  ASSUME IInv, NEW j \in JobIds, Interrupted(j)
  PROVE  IInv'
<1> USE MailWorkerConstants
<1>1. /\ phase[j] = "sending" /\ phase' = [phase EXCEPT ![j] = "waiting"]
      /\ tries' = [tries EXCEPT ![j] = tries[j] - 1] /\ accepting' = accepting
      /\ UNCHANGED <<of, idMap, backend, ops, loose>>
  BY DEF Interrupted, Queue!GiveBack
<1>2. tries[j] - 1 \in 0..MaxTries /\ tries \in [JobIds -> 0..MaxTries]
  BY <1>1 DEF IInv, QueueSound
<1>3. QueueSound'
  <2>1. tries' \in [JobIds -> 0..MaxTries]
    BY <1>1, <1>2
  <2>2. phase' \in [JobIds -> Queue!Phase]
    BY <1>1 DEF IInv, QueueSound, Queue!Phase
  <2>3. \A k \in JobIds : phase'[k] = "sending" => tries'[k] # 0
    BY <1>1, <1>2 DEF IInv, QueueSound
  <2> QED
    BY <1>1, <2>1, <2>2, <2>3 DEF IInv, QueueSound
<1>4. w' \in Worker /\ w'.chained <= w'.calls /\ w'.loop = w.loop /\ w'.closing = w.closing
      /\ w'.expiries = w.expiries
  <2>1. CASE w' = [w EXCEPT !.calls = w.calls + 1] /\ w.calls < MaxCalls
    <3>1. w.calls + 1 \in 0..MaxCalls /\ w.chained <= w.calls + 1
      BY <2>1, WorkerFields
    <3> QED
      BY <2>1, <3>1, WorkerFields DEF Worker
  <2>2. CASE w' = w
    BY <2>2, WorkerFields
  <2> QED
    BY <2>1, <2>2 DEF Interrupted, Call
<1> QED
  BY <1>1, <1>3, <1>4, PhaseStep

\* settle(): job j ends, which no message that may be given out again is waiting for.
LEMMA SettleStep ==
  ASSUME IInv, NEW j \in JobIds, NEW end \in Queue!Final, ~Unsent(j),
         phase' = [phase EXCEPT ![j] = end], tries' = tries, accepting' = accepting,
         Settle(j, end), UNCHANGED <<of, backend, loose>>
  PROVE  IInv'
<1> USE MailWorkerConstants
<1>1. \A k \in JobIds : phase'[k] = IF k = j THEN end ELSE phase[k]
  BY DEF IInv, QueueSound
<1>2. QueueSound'
  <2>1. phase' \in [JobIds -> Queue!Phase]
    BY DEF IInv, QueueSound, Queue!Phase
  <2>2. end # "sending"
    BY DEF Queue!Final
  <2> QED
    BY <1>1, <2>1, <2>2 DEF IInv, QueueSound
<1>3. \A k \in DOMAIN of : Unsent(k) => Unsent(k)'
  BY <1>1, HeldJobs DEF Unsent
<1>4. CASE j \notin DOMAIN idMap
  <2>1. UNCHANGED <<ops, idMap, w>>
    BY <1>4 DEF Settle
  <2>2. JobsSound'
    BY <1>1, <1>4, <2>1, HeldJobs DEF IInv, JobsSound
  <2>3. LoopSound'
    BY <2>1 DEF IInv, LoopSound, HoldsNoMore
  <2>4. NothingForgotten'
    BY <1>1, <1>4, <2>1, HeldJobs DEF IInv, DriverSound, NothingForgotten
  <2>5. OneOfEach => OneOfEach'
    BY <1>3, <2>1 DEF OneOfEach
  <2>6. DriverSound'
    BY <2>1, <2>4, <2>5 DEF IInv, DriverSound
  <2> QED
    BY <1>2, <2>2, <2>3, <2>6 DEF IInv
<1>5. CASE j \in DOMAIN idMap
  <2> DEFINE r == [op |-> Answer[end], msg |-> idMap[j]]
  <2>1. ops' = ops \cup {r} /\ idMap' = Restrict(idMap, DOMAIN idMap \ {j}) /\ w' = WakeSlot(w)
    BY <1>5 DEF Settle
  <2>2. Answer[end] \in {"ack", "nack", "cancel"}
    BY DEF Answer, Queue!Final
  <2>3. r \in Ops /\ r.msg = of[j] /\ r.op # "release"
    BY <1>5, <2>2, HeldJobs DEF Ops
  <2> HIDE DEF r
  <2>4. /\ DOMAIN idMap' = DOMAIN idMap \ {j}
        /\ \A k \in DOMAIN idMap \ {j} : idMap'[k] = idMap[k]
    BY <2>1 DEF Restrict
  <2>5. JobsSound'
    <3>1. \A k \in DOMAIN idMap' : idMap'[k] = of[k] /\ phase'[k] \in {"waiting", "sending"}
      BY <1>1, <2>4, HeldJobs
    <3> QED
      BY <2>4, <3>1 DEF IInv, JobsSound
  <2>6. Cardinality(DOMAIN idMap') <= Cardinality(DOMAIN idMap)
        /\ Cardinality(DOMAIN idMap') \in Nat
    BY <2>4, HeldFinite, FS_Subset, FS_CardinalityType
  <2>7. LoopSound'
    <3>1. MaxHeld \in Nat
      BY DEF MaxHeld
    <3>2. HoldsNoMore'
      BY <2>6, <3>1, HeldFinite DEF IInv, LoopSound, HoldsNoMore, MaxHeld
    <3>3. w'.loop = "dequeue" => Cardinality(DOMAIN idMap') < MaxHeld
      BY <2>1, <2>6, <3>1, HeldFinite, WorkerFields, WakeSlotSound
    <3> QED
      BY <2>1, <3>2, <3>3, WorkerFields, WakeSlotSound DEF LoopSound, MaxHeld
  <2>8. NothingForgotten'
    <3> SUFFICES ASSUME NEW x \in Messages, backend[x] = "out", x \notin loose,
                        \A o \in ops' : o.msg # x
                 PROVE  \E k \in DOMAIN idMap' : idMap'[k] = x /\ phase'[k] \notin Queue!Final
      BY DEF NothingForgotten
    <3>1. PICK k \in DOMAIN idMap : idMap[k] = x /\ phase[k] \notin Queue!Final
      BY <2>1 DEF IInv, DriverSound, NothingForgotten
    <3>2. k # j
      BY <2>1, <2>3, <3>1, HeldJobs
    <3> QED
      BY <1>1, <2>4, <3>1, <3>2, HeldJobs
  <2>9. ASSUME OneOfEach PROVE OneOfEach'
    <3>1. \A o \in ops : o.msg # of[j]
      BY <1>5, <2>9 DEF OneOfEach
    <3>2. backend[of[j]] # "ready"
      BY <1>5, <2>9, HeldJobs DEF OneOfEach
    <3>3. \A o, q \in ops' : o.msg = q.msg => o = q
      BY <2>1, <2>3, <2>9, <3>1 DEF OneOfEach
    <3>4. \A k \in DOMAIN idMap' : of[k] # of[j]
      BY <1>5, <2>4, <2>9, HeldJobs DEF OneOfEach
    <3>5. \A o \in ops' : backend'[o.msg] # "ready" /\ \A k \in DOMAIN idMap' : of[k] # o.msg
      BY <2>1, <2>3, <2>4, <2>9, <3>2, <3>4 DEF OneOfEach
    <3>6. \A o \in ops' : o.op = "release" => \A k \in DOMAIN of : of[k] = o.msg => Unsent(k)'
      BY <1>3, <2>1, <2>3, <2>9 DEF OneOfEach
    <3>7. \A k \in DOMAIN of : backend[of[k]] = "ready" => Unsent(k)' /\ k \notin DOMAIN idMap'
      BY <1>3, <2>4, <2>9 DEF OneOfEach
    <3> QED
      BY <2>9, <3>3, <3>5, <3>6, <3>7 DEF OneOfEach
  <2>10. w'.expiries = w.expiries /\ ops' \subseteq Ops
    BY <2>1, <2>3, WorkerFields, WakeSlotSound DEF IInv, DriverSound
  <2>11. DriverSound'
    BY <2>8, <2>9, <2>10 DEF IInv, DriverSound
  <2> QED
    BY <1>2, <2>5, <2>7, <2>11 DEF IInv
<1> QED
  BY <1>4, <1>5

LEMMA AttemptEndsStep ==
  ASSUME IInv, NEW j \in JobIds, AttemptEnds(j)
  PROVE  IInv'
<1>1. /\ phase[j] = "sending" /\ tries' = tries /\ accepting' = accepting
      /\ UNCHANGED <<of, backend, loose>>
  BY DEF AttemptEnds, Queue!Finish
<1>2. PICK end \in Queue!Final \cup {"waiting"} : phase' = [phase EXCEPT ![j] = end]
  BY DEF AttemptEnds, Queue!Finish
<1>3. phase'[j] = end
  BY <1>2 DEF IInv, QueueSound
<1>4. CASE end \in Queue!Final
  <2>1. Settle(j, end)
    BY <1>3, <1>4 DEF AttemptEnds
  <2>2. ~Unsent(j)
    BY <1>1 DEF Unsent
  <2> QED
    BY <1>1, <1>2, <1>4, <2>1, <2>2, SettleStep
<1>5. CASE end \notin Queue!Final
  <2>1. end = "waiting" /\ UNCHANGED <<ops, idMap, w>>
    BY <1>3, <1>5 DEF AttemptEnds
  <2>2. QueueSound'
    <3>1. phase' \in [JobIds -> Queue!Phase]
      BY <1>2, <2>1 DEF IInv, QueueSound, Queue!Phase
    <3>2. \A k \in JobIds : phase'[k] = "sending" => phase[k] = "sending"
      BY <1>2, <2>1 DEF IInv, QueueSound
    <3> QED
      BY <1>1, <3>1, <3>2 DEF IInv, QueueSound
  <2> QED
    BY <1>1, <1>2, <2>1, <2>2, WorkerFields, PhaseStep
<1> QED
  BY <1>4, <1>5

LEMMA CancelJobStep ==
  ASSUME IInv, NEW j \in JobIds, CancelJob(j)
  PROVE  IInv'
<1>1. /\ accepting' /\ accepting' \in {accepting, FALSE} /\ tries' = tries
      /\ phase' = [k \in JobIds |-> IF k \in {j} THEN "cancelled" ELSE phase[k]]
      /\ Settle(j, "cancelled") /\ UNCHANGED <<of, backend, loose>>
  BY DEF CancelJob, Queue!CancelWaiting
<1>2. accepting /\ accepting' = accepting
  BY <1>1 DEF IInv, QueueSound
<1>3. phase' = [phase EXCEPT ![j] = "cancelled"]
  BY <1>1 DEF IInv, QueueSound
<1>4. ~Unsent(j) /\ "cancelled" \in Queue!Final
  BY <1>2 DEF Unsent, Queue!Final
<1> QED
  BY <1>1, <1>2, <1>3, <1>4, SettleStep

-----------------------------------------------------------------------------
(* A message is accepted.                                                  *)

LEMMA AcceptStep ==
  ASSUME IInv, NEW m \in Messages, Received(m), Accept(m)
  PROVE  IInv'
<1> USE MailWorkerConstants
<1> DEFINE n == Len(of) + 1
           p == [phase EXCEPT ![n] = "waiting"]
<1>1. /\ accepting /\ JobsOfKey(m) = {} /\ Len(of) < MaxJobs
      /\ of' = Append(of, m) /\ w' = [w EXCEPT !.loop = "test"] /\ UNCHANGED <<ops, loose>>
      /\ idMap' = [j \in DOMAIN idMap \cup {n} |-> IF j = n THEN m ELSE idMap[j]]
      /\ phase[n] = "none" /\ \E S \in SUBSET JobIds : Queue!Starting(p, S)
      /\ w.loop = "dequeue"
  BY DEF Accept, Queue!Submit, Received
<1>2. n \in JobIds /\ Len(of) \in Nat /\ DOMAIN of = 1..Len(of) /\ n \notin DOMAIN of
  BY <1>1, HeldFinite DEF JobIds
<1>3. n \notin DOMAIN idMap
  BY <1>2, HeldJobs
<1>4. p \in [JobIds -> Queue!Phase] /\ p[n] = "waiting" /\ \A j \in JobIds \ {n} : p[j] = phase[j]
  BY <1>2 DEF IInv, QueueSound, Queue!Phase
<1>5. PICK S \in SUBSET JobIds : Queue!Starting(p, S)
  BY <1>1
<1>6. \A j \in JobIds : p[j] = "sending" => phase[j] = "sending"
  BY <1>4
<1> HIDE DEF p
<1>7. /\ QueueSound' /\ accepting'
      /\ \A j \in JobIds : \/ phase'[j] = p[j]
                           \/ p[j] = "waiting" /\ phase'[j] = "sending"
  BY <1>4, <1>5, <1>6, StartingSound DEF IInv
<1>8. /\ phase'[n] \in {"waiting", "sending"} /\ phase'[n] \notin Queue!Final
      /\ \A j \in DOMAIN idMap : phase'[j] \in {"waiting", "sending"}
  BY <1>2, <1>3, <1>4, <1>7, HeldJobs DEF Queue!Final
<1>9. /\ of' \in Seq(Messages) /\ Len(of') = n /\ DOMAIN of' = DOMAIN of \cup {n}
      /\ of'[n] = m /\ \A j \in DOMAIN of : of'[j] = of[j]
  BY <1>1, <1>2 DEF IInv, JobsSound
<1>10. /\ DOMAIN idMap' = DOMAIN idMap \cup {n} /\ idMap'[n] = m
       /\ \A j \in DOMAIN idMap : idMap'[j] = idMap[j]
  BY <1>1, <1>3
<1>11. JobsSound'
  <2>1. Len(of') <= MaxJobs
    BY <1>1, <1>2, <1>9
  <2>2. \A j \in DOMAIN idMap' : idMap'[j] = of'[j] /\ phase'[j] \in {"waiting", "sending"}
    BY <1>8, <1>9, <1>10, HeldJobs
  <2>3. \A j \in DOMAIN of : KeyOf[m] = NoKey \/ KeyOf[of[j]] # KeyOf[m]
    BY <1>1 DEF JobsOfKey
  <2>4. \A i, j \in DOMAIN of' :
          i # j => KeyOf[of'[i]] = NoKey \/ KeyOf[of'[i]] # KeyOf[of'[j]]
    <3> SUFFICES ASSUME NEW i \in DOMAIN of', NEW j \in DOMAIN of', i # j
                 PROVE  KeyOf[of'[i]] = NoKey \/ KeyOf[of'[i]] # KeyOf[of'[j]]
      OBVIOUS
    <3>1. CASE i \in DOMAIN of /\ j \in DOMAIN of
      BY <3>1, <1>9 DEF IInv, JobsSound
    <3>2. CASE i = n
      BY <3>2, <1>9, <2>3
    <3>3. CASE j = n
      BY <3>3, <1>9, <2>3
    <3> QED
      BY <3>1, <3>2, <3>3, <1>9
  <2>5. DOMAIN idMap' \subseteq DOMAIN of'
    BY <1>9, <1>10, HeldJobs
  <2> QED
    BY <1>9, <2>1, <2>2, <2>4, <2>5 DEF JobsSound
<1>12. LoopSound'
  <2>1. Cardinality(DOMAIN idMap') = Cardinality(DOMAIN idMap) + 1
    BY <1>3, <1>10, HeldFinite, FS_AddElement
  <2>2. MaxHeld \in Nat
    BY DEF MaxHeld
  <2>3. HoldsNoMore'
    BY <1>1, <2>1, <2>2, HeldFinite, WorkerFields DEF HoldsNoMore, MaxHeld
  <2>4. /\ w' \in Worker /\ w'.loop = "test" /\ w'.chained = w.chained /\ w'.calls = w.calls
        /\ w'.closing = w.closing
    BY <1>1, WorkerFields, MovedSound DEF Stages
  <2> QED
    BY <1>1, <2>3, <2>4, WorkerFields DEF LoopSound
<1>13. NothingForgotten'
  <2> SUFFICES ASSUME NEW x \in Messages, backend'[x] = "out"
               PROVE  \/ x \in loose
                      \/ \E o \in ops : o.msg = x
                      \/ \E k \in DOMAIN idMap' : idMap'[k] = x /\ phase'[k] \notin Queue!Final
    BY <1>1 DEF NothingForgotten
  <2>1. CASE x = m
    BY <2>1, <1>8, <1>10
  <2>2. CASE x # m
    BY <2>2, <1>8, <1>10, ReceivedOut DEF IInv, DriverSound, NothingForgotten, Queue!Final
  <2> QED
    BY <2>1, <2>2
<1>14. ASSUME OneOfEach PROVE OneOfEach'
  <2>1. \A j \in DOMAIN of : backend[of[j]] # "ready" /\ of[j] # m
    BY <1>1, <1>14, OpenQueue, ReceivedOut
  <2>2. \A o \in ops : o.msg # m /\ backend'[o.msg] # "ready"
    BY <1>14, ReceivedOut DEF OneOfEach
  <2>3. \A i, j \in DOMAIN of' : of'[i] = of'[j] => i = j
    BY <1>9, <1>14, <2>1 DEF OneOfEach
  <2>4. \A o \in ops : \A j \in DOMAIN idMap' : of'[j] # o.msg
    BY <1>9, <1>10, <1>14, <2>2, HeldJobs DEF OneOfEach
  <2>5. \A o \in ops : o.op = "release" => \A j \in DOMAIN of' : of'[j] # o.msg
    BY <1>1, <1>9, <1>14, <2>2, OpenQueue
  <2>6. \A j \in DOMAIN of' : backend'[of'[j]] # "ready"
    BY <1>9, <2>1, ReceivedOut
  <2> QED
    BY <1>1, <1>14, <2>2, <2>3, <2>4, <2>5, <2>6 DEF OneOfEach
<1>15. w'.expiries = w.expiries
  BY <1>1, WorkerFields, MovedSound DEF Stages
<1>16. DriverSound'
  BY <1>1, <1>13, <1>14, <1>15, ReceivedOut DEF IInv, DriverSound
<1> QED
  BY <1>7, <1>11, <1>12, <1>16 DEF IInv

LEMMA DequeueResolvesStep ==
  ASSUME IInv, NEW m \in Messages, DequeueResolves(m)
  PROVE  IInv'
BY HandBackStep, RefuseStep, DuplicateStep, AcceptStep DEF DequeueResolves

-----------------------------------------------------------------------------
(* The worker shuts down.                                                  *)

LEMMA CloseQueueStep ==
  ASSUME IInv, CloseQueue
  PROVE  IInv'
<1>1. /\ w' = [w EXCEPT !.closing = "queue"] /\ w.loop = "off" /\ ~accepting' /\ tries' = tries
      /\ phase' = [j \in JobIds |-> IF j \in {} THEN "cancelled" ELSE phase[j]]
      /\ UNCHANGED <<of, idMap, backend, ops, loose>> /\ accepting' \in {accepting, FALSE}
  BY DEF CloseQueue, Queue!CancelWaiting
<1>2. phase' = phase
  BY <1>1 DEF IInv, QueueSound
<1>3. /\ w' \in Worker /\ w'.chained = w.chained /\ w'.calls = w.calls /\ w'.loop = "off"
      /\ w'.closing = "queue" /\ w'.expiries = w.expiries
  BY <1>1, WorkerFields DEF Worker, Closing
<1>4. QueueSound' /\ JobsSound'
  <2>1. accepting' = FALSE
    BY <1>1 DEF IInv, QueueSound
  <2>2. UNCHANGED <<phase, tries, of, idMap>>
    BY <1>1, <1>2
  <2> QED
    BY <2>1, <2>2 DEF IInv, QueueSound, JobsSound
<1>5. LoopSound'
  BY <1>1, <1>3 DEF IInv, LoopSound, HoldsNoMore
<1>6. NothingForgotten'
  BY <1>1, <1>2 DEF IInv, DriverSound, NothingForgotten
<1>7. OneOfEach => OneOfEach'
  BY <1>1, <1>2 DEF OneOfEach, Unsent
<1>8. DriverSound'
  BY <1>1, <1>3, <1>6, <1>7 DEF IInv, DriverSound
<1> QED
  BY <1>4, <1>5, <1>8 DEF IInv

\* What is still held goes back, which no job of a closed, idle queue will be sent for.
LEMMA ReleaseHeldStep ==
  ASSUME IInv, ReleaseHeld
  PROVE  IInv'
<1> USE MailWorkerConstants
<1> DEFINE R == [op : {"release"}, msg : Range(idMap)]
<1>1. /\ w' = [w EXCEPT !.closing = "release"] /\ w.closing = "queue" /\ Sending = {}
      /\ idMap' = <<>> /\ UNCHANGED <<phase, tries, accepting, of, backend>>
  BY DEF ReleaseHeld, queueVars
<1>2. \/ w.driver.release /\ ops' = ops \cup R /\ loose' = loose
      \/ ops' = ops /\ loose' = loose \cup Range(idMap)
  BY DEF ReleaseHeld
<1>3. DOMAIN idMap' = {} /\ Cardinality(DOMAIN idMap') = 0
  BY <1>1, FS_EmptySet
<1>4. /\ w' \in Worker /\ w'.chained = w.chained /\ w'.calls = w.calls /\ w'.loop = w.loop
      /\ w'.closing = "release" /\ w'.expiries = w.expiries
  BY <1>1, WorkerFields DEF Worker, Closing
<1>5. \A x \in Range(idMap) : \E j \in DOMAIN idMap : x = of[j]
  BY HeldJobs DEF Range
<1>6. \A r \in R : r \in Ops /\ r = [op |-> "release", msg |-> r.msg] /\ r.msg \in Range(idMap)
  BY <1>5, HeldJobs DEF Ops
<1>7. \A j \in DOMAIN idMap : Unsent(j)
  BY <1>1, HeldJobs, WorkerFields DEF Unsent, Sending, Queue!In
<1>8. Range(idMap) \subseteq Messages
  BY <1>5, HeldJobs
<1>9. \A j \in DOMAIN idMap : idMap[j] \in Range(idMap)
  BY DEF Range
<1>10. \A x \in Range(idMap) : \E r \in R : r.msg = x
  <2> SUFFICES ASSUME NEW x \in Range(idMap)
               PROVE  \E r \in R : r.msg = x
    OBVIOUS
  <2> DEFINE r == [op |-> "release", msg |-> x]
  <2>1. r \in R /\ r.msg = x
    OBVIOUS
  <2> QED
    BY <2>1
<1> HIDE DEF R
<1>11. QueueSound' /\ JobsSound'
  BY <1>1, <1>3 DEF IInv, QueueSound, JobsSound
<1>12. LoopSound'
  <2>1. MaxHeld \in Nat \ {0}
    BY DEF MaxHeld
  <2> QED
    BY <1>1, <1>3, <1>4, <2>1, WorkerFields DEF LoopSound, HoldsNoMore, MaxHeld
<1>13. NothingForgotten'
  <2> SUFFICES ASSUME NEW x \in Messages, backend[x] = "out", x \notin loose'
               PROVE  \E o \in ops' : o.msg = x
    BY <1>1 DEF NothingForgotten
  <2>1. CASE \E o \in ops : o.msg = x
    BY <1>2, <2>1
  <2>2. CASE \E j \in DOMAIN idMap : idMap[j] = x
    BY <1>2, <1>9, <1>10, <2>2
  <2> QED
    BY <1>2, <2>1, <2>2 DEF IInv, DriverSound, NothingForgotten
<1>14. ASSUME OneOfEach PROVE OneOfEach'
  <2>1. \A o \in ops' : o \in ops \/ o \in R
    BY <1>2
  <2>2. \A o \in ops : \A r \in R : o.msg # r.msg
    BY <1>5, <1>6, <1>14 DEF OneOfEach
  <2>3. \A o, q \in ops' : o.msg = q.msg => o = q
    <3> SUFFICES ASSUME NEW o \in ops', NEW q \in ops', o.msg = q.msg
                 PROVE  o = q
      OBVIOUS
    <3>1. CASE o \in ops /\ q \in ops
      BY <1>14, <3>1 DEF OneOfEach
    <3>2. CASE o \in R /\ q \in R
      BY <1>6, <3>2
    <3> QED
      BY <2>1, <2>2, <3>1, <3>2
  <2>4. \A r \in R : backend[r.msg] # "ready"
    BY <1>5, <1>6, <1>14, HeldJobs DEF OneOfEach
  <2>5. \A o \in ops' : backend[o.msg] # "ready"
    BY <1>14, <2>1, <2>4 DEF OneOfEach
  <2>6. \A r \in R : \A j \in DOMAIN of : of[j] = r.msg => Unsent(j)
    BY <1>5, <1>6, <1>7, <1>14, HeldJobs DEF OneOfEach
  <2>7. \A o \in ops' : o.op = "release" => \A j \in DOMAIN of : of[j] = o.msg => Unsent(j)
    BY <1>14, <2>1, <2>6 DEF OneOfEach
  <2> QED
    BY <1>1, <1>3, <1>14, <2>3, <2>5, <2>7 DEF OneOfEach, Unsent
<1>15. ops' \subseteq Ops /\ loose' \subseteq Messages
  BY <1>2, <1>6, <1>8 DEF IInv, DriverSound
<1>16. DriverSound'
  BY <1>1, <1>4, <1>13, <1>14, <1>15 DEF IInv, DriverSound
<1> QED
  BY <1>11, <1>12, <1>16 DEF IInv

-----------------------------------------------------------------------------
(* The driver answers, and the backend gives messages out again.           *)

LEMMA AfterReleaseSound ==
  ASSUME IInv, NEW o \in ops
  PROVE  LET v == AfterRelease(o)
         IN  /\ v \in Worker /\ v.chained <= v.calls
             /\ v.loop = "dequeue" => Cardinality(DOMAIN idMap) < MaxHeld
             /\ v.closing = w.closing /\ v.expiries = w.expiries /\ v.faults = w.faults
<1>1. CASE o.op = "release" /\ w.loop = "release"
  BY <1>1, WorkerFields, LoopEndsSound DEF AfterRelease
<1>2. CASE ~(o.op = "release" /\ w.loop = "release")
  BY <1>2, WorkerFields DEF AfterRelease
<1> QED
  BY <1>1, <1>2

LEMMA DriverAnswersStep ==
  ASSUME IInv, NEW o \in ops, DriverAnswers(o)
  PROVE  IInv'
<1>1. /\ ops' = ops \ {o} /\ backend' = [backend EXCEPT ![o.msg] = Effect(o)]
      /\ w' = AfterRelease(o) /\ UNCHANGED <<queueVars, of, idMap, loose>>
      /\ UNCHANGED <<phase, tries, accepting>>
  BY DEF DriverAnswers, queueVars
<1>2. o \in Ops /\ o.msg \in Messages /\ o.op \in {"ack", "nack", "cancel", "release"}
  BY DEF IInv, DriverSound, Ops
<1>3. /\ Effect(o) \in {"ready", "gone", "dead"}
      /\ Effect(o) = "ready" => o.op = "release" \/ backend[o.msg] = "ready"
  BY <1>2 DEF Effect, IInv, DriverSound
<1>4. /\ backend' \in [Messages -> {"ready", "out", "gone", "dead"}]
      /\ backend'[o.msg] = Effect(o)
      /\ \A x \in Messages \ {o.msg} : backend'[x] = backend[x]
  BY <1>1, <1>2, <1>3 DEF IInv, DriverSound
<1>5. NothingForgotten'
  <2> SUFFICES ASSUME NEW x \in Messages, backend'[x] = "out"
               PROVE  \/ x \in loose
                      \/ \E q \in ops' : q.msg = x
                      \/ \E j \in DOMAIN idMap : idMap[j] = x /\ phase[j] \notin Queue!Final
    BY <1>1 DEF NothingForgotten
  <2>1. x # o.msg /\ backend[x] = "out"
    BY <1>3, <1>4
  <2>2. \A q \in ops : q.msg = x => q \in ops'
    BY <1>1, <2>1
  <2> QED
    BY <2>1, <2>2 DEF IInv, DriverSound, NothingForgotten
<1>6. ASSUME OneOfEach PROVE OneOfEach'
  <2>1. \A q \in ops' : q \in ops /\ q.msg # o.msg /\ q.msg \in Messages
    BY <1>1, <1>6 DEF OneOfEach, IInv, DriverSound, Ops
  <2>2. \A q \in ops' : backend'[q.msg] # "ready"
    BY <1>4, <1>6, <2>1 DEF OneOfEach
  <2>3. \A j \in DOMAIN of : of[j] \in Messages
    BY DEF IInv, JobsSound
  <2>4. \A j \in DOMAIN of : backend'[of[j]] = "ready" => Unsent(j) /\ j \notin DOMAIN idMap
    <3> SUFFICES ASSUME NEW j \in DOMAIN of, backend'[of[j]] = "ready"
                 PROVE  Unsent(j) /\ j \notin DOMAIN idMap
      OBVIOUS
    <3>1. CASE of[j] = o.msg
      BY <1>3, <1>4, <1>6, <3>1, HeldJobs DEF OneOfEach
    <3>2. CASE of[j] # o.msg
      BY <1>4, <1>6, <2>3, <3>2 DEF OneOfEach
    <3> QED
      BY <3>1, <3>2
  <2> QED
    BY <1>1, <1>6, <2>1, <2>2, <2>4 DEF OneOfEach, Unsent
<1>7. DriverSound'
  <2>1. w'.expiries = w.expiries
    BY <1>1, AfterReleaseSound
  <2> QED
    BY <1>1, <1>4, <1>5, <1>6, <2>1 DEF IInv, DriverSound
<1> QED
  BY <1>1, <1>7, WorkerFields, AfterReleaseSound, NoJobStep

LEMMA DriverFailsStep ==
  ASSUME IInv, NEW o \in ops, DriverFails(o)
  PROVE  IInv'
<1> USE MailWorkerConstants
<1> DEFINE v == AfterRelease(o)
<1>1. /\ v \in Worker /\ v.chained <= v.calls
      /\ v.loop = "dequeue" => Cardinality(DOMAIN idMap) < MaxHeld
      /\ v.closing = w.closing /\ v.expiries = w.expiries /\ v.faults = w.faults
  BY AfterReleaseSound
<1>2. /\ ops' = ops \ {o} /\ loose' = loose \cup {o.msg} /\ w.faults < MaxFaults
      /\ w' = [v EXCEPT !.faults = v.faults + 1]
      /\ UNCHANGED <<queueVars, of, idMap, backend>>
      /\ UNCHANGED <<phase, tries, accepting, of, idMap, backend>>
  BY DEF DriverFails, queueVars
<1> HIDE DEF v
<1>3. v.faults + 1 \in 0..MaxFaults
  BY <1>1, <1>2, WorkerFields
<1>4. /\ w' \in Worker /\ w'.loop = v.loop /\ w'.chained = v.chained /\ w'.calls = v.calls
      /\ w'.closing = v.closing /\ w'.expiries = v.expiries
  BY <1>1, <1>2, <1>3 DEF Worker
<1>5. o \in Ops /\ o.msg \in Messages
  BY DEF IInv, DriverSound, Ops
<1>6. NothingForgotten'
  <2> SUFFICES ASSUME NEW x \in Messages, backend[x] = "out", x \notin loose'
               PROVE  \/ \E q \in ops' : q.msg = x
                      \/ \E j \in DOMAIN idMap : idMap[j] = x /\ phase[j] \notin Queue!Final
    BY <1>2 DEF NothingForgotten
  <2>1. x # o.msg /\ x \notin loose
    BY <1>2
  <2>2. \A q \in ops : q.msg = x => q \in ops'
    BY <1>2, <2>1
  <2> QED
    BY <2>1, <2>2 DEF IInv, DriverSound, NothingForgotten
<1>7. OneOfEach => OneOfEach'
  BY <1>2 DEF OneOfEach, Unsent
<1>8. DriverSound'
  BY <1>1, <1>2, <1>4, <1>5, <1>6, <1>7 DEF IInv, DriverSound
<1> QED
  BY <1>1, <1>2, <1>4, <1>8, WorkerFields, NoJobStep

LEMMA ExpireStep ==
  ASSUME IInv, NEW m \in Messages, Expire(m)
  PROVE  IInv'
<1> USE MailWorkerConstants
<1>1. /\ backend' = [backend EXCEPT ![m] = "ready"] /\ w.expiries < MaxExpiries
      /\ w' = [w EXCEPT !.expiries = w.expiries + 1]
      /\ UNCHANGED <<queueVars, of, idMap, ops, loose>>
      /\ UNCHANGED <<phase, tries, accepting, of, idMap, ops, loose>>
  BY DEF Expire, queueVars
<1>2. w.expiries + 1 \in 0..MaxExpiries /\ w.expiries + 1 # 0
  BY <1>1, WorkerFields DEF Worker
<1>3. /\ w' \in Worker /\ w'.loop = w.loop /\ w'.chained = w.chained /\ w'.calls = w.calls
      /\ w'.closing = w.closing /\ w'.expiries = w.expiries + 1
  BY <1>1, <1>2, WorkerFields DEF Worker
<1>4. /\ backend' \in [Messages -> {"ready", "out", "gone", "dead"}]
      /\ \A x \in Messages : backend'[x] = "out" => backend[x] = "out"
  BY <1>1 DEF IInv, DriverSound
<1>5. NothingForgotten'
  BY <1>1, <1>4 DEF IInv, DriverSound, NothingForgotten
<1>6. DriverSound'
  BY <1>1, <1>2, <1>3, <1>4, <1>5 DEF IInv, DriverSound
<1> QED
  BY <1>1, <1>3, <1>6, WorkerFields, NoJobStep

-----------------------------------------------------------------------------
(* The theorems.                                                           *)

LEMMA OneStep == IInv /\ [Next]_vars => IInv'
<1> SUFFICES ASSUME IInv, [Next]_vars PROVE IInv'
  OBVIOUS
<1>1. CASE Resume \/ Pause \/ Shutdown
  BY <1>1, ResumeStep, PauseStep, ShutdownStep
<1>2. CASE Loop
  BY <1>2, TestStep, SleepEndsStep, DequeueFailsStep, DequeueEmptyStep, DequeueResolvesStep
     DEF Loop
<1>3. CASE Close
  BY <1>3, CloseQueueStep, ReleaseHeldStep, ShutdownReturnsStep DEF Close
<1>4. CASE Driver
  BY <1>4, DriverAnswersStep, DriverFailsStep DEF Driver
<1>5. CASE Start
  BY <1>5, StartStep
<1>6. CASE \E j \in JobIds : AttemptEnds(j) \/ Interrupted(j) \/ CancelJob(j)
  BY <1>6, AttemptEndsStep, InterruptedStep, CancelJobStep
<1>7. CASE \E m \in Messages : Expire(m)
  BY <1>7, ExpireStep
<1>8. CASE UNCHANGED vars
  <2>1. UNCHANGED <<phase, tries, accepting, of, idMap, w, backend, ops, loose>>
    BY <1>8 DEF vars
  <2> QED
    BY <2>1, WorkerFields, LoopStep DEF queueVars
<1> QED
  BY <1>1, <1>2, <1>3, <1>4, <1>5, <1>6, <1>7, <1>8 DEF Next

\* Every state of the worker satisfies the invariant.
THEOREM Invariance == Spec => []IInv
<1>1. Init => IInv
  BY Initially
<1>2. IInv /\ [Next]_vars => IInv'
  BY OneStep
<1> QED
  BY <1>1, <1>2, PTL DEF Spec

\* Between the external queue and the send queue no message is lost (MailWorker.ts): one
\* that was handed out is held, or the driver is being told of it, unless an answer was
\* lost or the driver cannot take it back; and no more are held than concurrency + prefetch.
THEOREM NoMessageForgotten == Spec => []EachInItsPlace
<1>1. IInv => EachInItsPlace
  BY TypeCorrect DEF EachInItsPlace, IInv, LoopSound, DriverSound
<1> QED
  BY <1>1, Invariance, PTL

\* A message that shutdown() gives back was not sent and will not be, and of the jobs with
\* one idempotency key at most one succeeds, however often a message is given out again.
THEOREM NothingSentTwice == Spec => []NeverSentTwice
<1>1. ASSUME IInv PROVE NeverSentTwice
  <2>1. HandedBackUnsent
    BY <1>1 DEF HandedBackUnsent, IInv, DriverSound, OneOfEach, Unsent
  <2>2. SentOncePerKey
    BY <1>1 DEF SentOncePerKey, IInv, JobsSound
  <2> QED
    BY <2>1, <2>2 DEF NeverSentTwice
<1> QED
  BY <1>1, Invariance, PTL
=============================================================================
