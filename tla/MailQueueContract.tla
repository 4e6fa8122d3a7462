-------------------------- MODULE MailQueueContract --------------------------
(***************************************************************************)
(* What the send queue promises its users (the class comment of            *)
(* src/src/queue/MailQueue.ts and src/src/types/queue.ts), without queues, *)
(* timers, microtasks or controllers: a job waits, is sent at most         *)
(* MaxTries times, never more than MaxParallel at once, and ends for good; *)
(* a closed queue accepts nothing and starts nothing.                      *)
(***************************************************************************)
EXTENDS Naturals, FiniteSets

CONSTANTS Jobs, MaxParallel, MaxTries

VARIABLES phase,      \* where each job stands
          tries,      \* attempts that count against the retry policy
          accepting   \* FALSE once the queue was shut down

vars == <<phase, tries, accepting>>

Final == {"success", "dead", "cancelled"}
Phase == {"none", "waiting", "sending"} \cup Final

In(p, where) == {j \in Jobs : p[j] \in where}

\* From the phases p, the jobs of S start an attempt.
Starting(p, S) ==
  /\ S \subseteq In(p, {"waiting"})
  /\ Cardinality(In(p, {"sending"}) \cup S) <= MaxParallel
  /\ \A j \in S : tries[j] < MaxTries
  /\ phase' = [j \in Jobs |-> IF j \in S THEN "sending" ELSE p[j]]
  /\ tries' = [j \in Jobs |-> IF j \in S THEN tries[j] + 1 ELSE tries[j]]
  /\ accepting /\ accepting'

\* A job is submitted, and it and others may start.
Submit(j) ==
  /\ phase[j] = "none"
  /\ \E S \in SUBSET Jobs : Starting([phase EXCEPT ![j] = "waiting"], S)

Start == \E S \in SUBSET Jobs : S # {} /\ Starting(phase, S)

\* An attempt ends; it goes back to waiting only while a try is left.
Finish(j) ==
  /\ phase[j] = "sending"
  /\ \E end \in Final \cup {"waiting"} :
       /\ end = "waiting" => tries[j] < MaxTries
       /\ phase' = [phase EXCEPT ![j] = end]
  /\ UNCHANGED <<tries, accepting>>

\* An interrupted attempt does not count.
GiveBack(j) ==
  /\ phase[j] = "sending"
  /\ phase' = [phase EXCEPT ![j] = "waiting"]
  /\ tries' = [tries EXCEPT ![j] = @ - 1]
  /\ UNCHANGED accepting

\* Waiting jobs are cancelled, and the queue may close in the same call.
CancelWaiting(S) ==
  /\ S \subseteq In(phase, {"waiting"})
  /\ phase' = [j \in Jobs |-> IF j \in S THEN "cancelled" ELSE phase[j]]
  /\ accepting' \in {accepting, FALSE}
  /\ UNCHANGED tries

Init ==
  /\ phase = [j \in Jobs |-> "none"]
  /\ tries = [j \in Jobs |-> 0]
  /\ accepting = TRUE

Next ==
  \/ \E j \in Jobs : Submit(j) \/ Finish(j) \/ GiveBack(j)
  \/ Start
  \/ \E S \in SUBSET Jobs : CancelWaiting(S)

Spec == Init /\ [][Next]_vars
=============================================================================
