---------------------------- MODULE StorageProofs ----------------------------
(***************************************************************************)
(* What is kept on disk: the queues' table and the trap server's file.     *)
(*                                                                         *)
(* The table: what holds of queues on one database for every set of queues *)
(* and jobs, every MaxRetries and every number of mishaps.                 *)
(*                                                                         *)
(* The trap: for every MaxMessages and any number of messages, clicks and  *)
(* kills, its file holds what it has and its page shows it.  TrapInv says  *)
(* of every moment where the page's next list comes from.                  *)
(***************************************************************************)
EXTENDS SqliteQueue, TrapAlone, Integers, FiniteSetTheorems, SequenceTheorems, TLAPS

-----------------------------------------------------------------------------
(* The inductive invariant.                                                *)

\* The types the proofs need; how large attempts get does not matter.
RowType == [status : Statuses, attempts : Int,
            owner : Queues \cup {Nobody, Gone}, lapsed : BOOLEAN]
JobType == [at : Active \cup {"nowhere"}, attempts : Int, reason : Reasons, sent : BOOLEAN]
FoundType == [job : Jobs, status : Active, attempts : Int]

Shape ==
  /\ row \in [Jobs -> RowType]
  /\ held \in [Queues -> [Jobs -> JobType]]
  /\ life \in [Queues -> Lives]
  /\ stalled \subseteq Queues
  /\ todo \in [Queues -> SUBSET FoundType]
  /\ request \in [Jobs -> Reasons]
  /\ overran \in BOOLEAN

\* Only an open queue restores jobs, and only a replaced one runs unsaved.
Working ==
  /\ \A q \in Queues : todo[q] # {} => life[q] = "open"
  /\ ~overran => \A q \in Queues : life[q] # "replaced"

\* A row with an owner is a job that its owner, which still saves, holds.
OwnedBy(q, j) == life[q] \in {"open", "stopping"} /\ held[q][j].at # "nowhere"
Owned ==
  \A j \in Jobs : row[j].owner \in Queues =>
    row[j].status \in Active /\ OwnedBy(row[j].owner, j)

\* What a queue holds is what the table says, with a lease that runs.
Matches(q, j) ==
  /\ row[j].status = held[q][j].at /\ row[j].attempts = held[q][j].attempts
  /\ row[j].owner = q /\ row[j].lapsed = FALSE
Matched ==
  ~overran => \A q \in Queues, j \in Jobs : held[q][j].at # "nowhere" => Matches(q, j)

Inv == Shape /\ Working /\ Owned /\ Matched

-----------------------------------------------------------------------------
(* The statements.                                                         *)

LEMMA UpdatedType ==
  ASSUME NEW r \in RowType, NEW q \in Queues, NEW s \in Statuses, NEW n \in Int
  PROVE  /\ Updated(r, q, s, n) \in RowType
         /\ r.status # "absent" =>
              /\ Updated(r, q, s, n).status = s /\ Updated(r, q, s, n).attempts = n
              /\ Updated(r, q, s, n).lapsed = FALSE
              /\ Updated(r, q, s, n).owner = IF s \in Active THEN q ELSE Nobody
         /\ r.status = "absent" => Updated(r, q, s, n) = r
BY DEF Updated, RowType

LEMMA SignalledType ==
  ASSUME NEW h \in JobType, NEW k \in Reasons
  PROVE  /\ Signalled(h, k) \in JobType
         /\ Signalled(h, k).at = h.at /\ Signalled(h, k).attempts = h.attempts
BY DEF Signalled, JobType

LEMMA NotHeldType == NotHeld \in JobType /\ NotHeld.at = "nowhere"
BY DEF NotHeld, JobType, Reasons

LEMMA WaitingType ==
  ASSUME NEW a \in Active \cup {"nowhere"}, NEW n \in Int
  PROVE  /\ Waiting(a, n) \in JobType
         /\ Waiting(a, n).at = a /\ Waiting(a, n).attempts = n
BY DEF Waiting, NotHeld, JobType, Reasons

\* What a request does to one job and its row.
LEMMA RequestStep ==
  ASSUME Shape, NEW q \in Queues, NEW j \in Jobs, NEW k \in Reasons
  PROVE  /\ JobAfter(q, j, k) \in JobType
         /\ RowAfter(q, j, k) \in RowType
         /\ \/ /\ RowAfter(q, j, k) = row[j]
               /\ JobAfter(q, j, k).at = held[q][j].at
               /\ JobAfter(q, j, k).attempts = held[q][j].attempts
            \/ /\ held[q][j].at # "nowhere"
               /\ JobAfter(q, j, k).at = "nowhere"
               /\ RowAfter(q, j, k) = Updated(row[j], q, "cancelled", held[q][j].attempts)
<1>1. row[j] \in RowType /\ held[q][j] \in JobType
  BY DEF Shape
<1>2. held[q][j].attempts \in Int /\ "cancelled" \in Statuses
  BY <1>1 DEF JobType, Statuses
<1>3. Updated(row[j], q, "cancelled", held[q][j].attempts) \in RowType
  BY <1>1, <1>2, UpdatedType
<1>4. CASE ~HandledBy(q, j, k)
  BY <1>1, <1>4 DEF JobAfter, RowAfter
<1>5. CASE HandledBy(q, j, k) /\ held[q][j].at = "running"
  <2>1. JobAfter(q, j, k) = Signalled(held[q][j], k) /\ RowAfter(q, j, k) = row[j]
    BY <1>5 DEF JobAfter, RowAfter
  <2> QED BY <2>1, <1>1, SignalledType
<1>6. CASE HandledBy(q, j, k) /\ held[q][j].at # "running"
  <2>1. JobAfter(q, j, k) = NotHeld
    BY <1>6 DEF JobAfter
  <2>2. RowAfter(q, j, k) = Updated(row[j], q, "cancelled", held[q][j].attempts)
    BY <1>6 DEF RowAfter
  <2>3. held[q][j].at # "nowhere"
    BY <1>6 DEF HandledBy, Active
  <2> QED BY <2>1, <2>2, <2>3, <1>3, NotHeldType
<1> QED BY <1>4, <1>5, <1>6

-----------------------------------------------------------------------------
(* Steps.                                                                  *)

\* Queue q changes its own jobs and the table: the ownership of the rows of the
\* others must be left alone, and so must what they match.
LEMMA QueueStep ==
  ASSUME Inv, NEW q \in Queues,
         \A p \in Queues \ {q} : held'[p] = held[p] /\ life'[p] = life[p],
         \A j \in Jobs : row'[j].owner = q =>
           /\ row'[j].status \in Active
           /\ life'[q] \in {"open", "stopping"} /\ held'[q][j].at # "nowhere",
         \A j \in Jobs : row'[j].owner \in Queues \ {q} =>
           row'[j].owner = row[j].owner /\ row'[j].status = row[j].status,
         ~overran' => ~overran,
         ~overran' => \A j \in Jobs : held'[q][j].at # "nowhere" => Matches(q, j)',
         ~overran' => \A p \in Queues \ {q}, j \in Jobs :
           held[p][j].at # "nowhere" => row'[j] = row[j]
  PROVE  Owned' /\ Matched'
<1>1. Owned'
  <2> SUFFICES ASSUME NEW j \in Jobs, row'[j].owner \in Queues
               PROVE  row'[j].status \in Active /\ OwnedBy(row[j].owner, j)'
    BY DEF Owned
  <2>1. CASE row'[j].owner = q
    BY <2>1 DEF OwnedBy
  <2>2. CASE row'[j].owner # q
    <3>1. row'[j].owner = row[j].owner /\ row'[j].status = row[j].status
      BY <2>2
    <3>2. row[j].status \in Active /\ OwnedBy(row[j].owner, j)
      BY <3>1 DEF Inv, Owned
    <3> QED BY <3>1, <3>2, <2>2 DEF OwnedBy
  <2> QED BY <2>1, <2>2
<1>2. Matched'
  <2> SUFFICES ASSUME ~overran', NEW p \in Queues, NEW j \in Jobs, held'[p][j].at # "nowhere"
               PROVE  Matches(p, j)'
    BY DEF Matched
  <2>1. CASE p = q
    BY <2>1
  <2>2. CASE p # q
    <3>1. held'[p][j] = held[p][j] /\ row'[j] = row[j]
      BY <2>2
    <3>2. Matches(p, j)
      BY <3>1 DEF Inv, Matched
    <3> QED BY <3>1, <3>2 DEF Matches
  <2> QED BY <2>1, <2>2
<1> QED BY <1>1, <1>2

\* Queue q changes one job to h and its row to r.
LEMMA JobStep ==
  ASSUME Inv, NEW q \in Queues, NEW j \in Jobs, NEW h \in JobType, NEW r \in RowType,
         held' = [held EXCEPT ![q][j] = h],
         row' = [row EXCEPT ![j] = r],
         life' = life, overran' = overran,
         r.owner = q => r.status \in Active /\ life[q] \in {"open", "stopping"} /\ h.at # "nowhere",
         r.owner \in Queues \ {q} => r.owner = row[j].owner /\ r.status = row[j].status,
         ~overran => (h.at # "nowhere" =>
           r.status = h.at /\ r.attempts = h.attempts /\ r.owner = q /\ r.lapsed = FALSE),
         ~overran => \A p \in Queues \ {q} : held[p][j].at # "nowhere" => r = row[j]
  PROVE  /\ held' \in [Queues -> [Jobs -> JobType]] /\ row' \in [Jobs -> RowType]
         /\ Owned' /\ Matched'
<1>1. held \in [Queues -> [Jobs -> JobType]] /\ row \in [Jobs -> RowType]
  BY DEF Inv, Shape
<1>2. held' \in [Queues -> [Jobs -> JobType]] /\ row' \in [Jobs -> RowType]
  BY <1>1
<1>3. /\ \A p \in Queues \ {q} : held'[p] = held[p] /\ life'[p] = life[p]
      /\ held'[q][j] = h /\ \A i \in Jobs \ {j} : held'[q][i] = held[q][i]
      /\ row'[j] = r /\ \A i \in Jobs \ {j} : row'[i] = row[i]
  BY <1>1
<1>4. \A i \in Jobs : row'[i].owner = q =>
        row'[i].status \in Active /\ life'[q] \in {"open", "stopping"} /\ held'[q][i].at # "nowhere"
  BY <1>3 DEF Inv, Owned, OwnedBy
<1>5. \A i \in Jobs : row'[i].owner \in Queues \ {q} =>
        row'[i].owner = row[i].owner /\ row'[i].status = row[i].status
  BY <1>3
<1>6. ~overran' => \A i \in Jobs : held'[q][i].at # "nowhere" => Matches(q, i)'
  BY <1>3 DEF Inv, Matched, Matches
<1>7. ~overran' => \A p \in Queues \ {q}, i \in Jobs : held[p][i].at # "nowhere" => row'[i] = row[i]
  BY <1>3
<1>8. ~overran' => ~overran
  OBVIOUS
<1>9. Owned' /\ Matched'
  BY <1>3, <1>4, <1>5, <1>6, <1>7, <1>8, QueueStep
<1> QED BY <1>2, <1>9

\* Queue q goes on with a job it holds and saves its new status.
LEMMA SavedStep ==
  ASSUME Inv, NEW q \in Queues, NEW j \in Jobs, NEW h \in JobType,
         NEW s \in Statuses, NEW n \in Int,
         life[q] # "down", held[q][j].at # "nowhere",
         \/ s \in Active /\ h.at = s /\ h.attempts = n
         \/ s \notin Active /\ h.at = "nowhere",
         held' = [held EXCEPT ![q][j] = h],
         row' = [row EXCEPT ![j] = Saved(q, j, s, n)],
         life' = life, overran' = overran
  PROVE  /\ held' \in [Queues -> [Jobs -> JobType]] /\ row' \in [Jobs -> RowType]
         /\ Owned' /\ Matched'
<1> DEFINE r == Saved(q, j, s, n)
           u == Updated(row[j], q, s, n)
<1>1. row[j] \in RowType /\ life[q] \in Lives
  BY DEF Inv, Shape
<1>2. r = IF life[q] = "replaced" THEN row[j] ELSE u
  BY DEF Saved
<1>3. row' = [row EXCEPT ![j] = r]
  OBVIOUS
<1>u. /\ u \in RowType
      /\ row[j].status # "absent" =>
           /\ u.status = s /\ u.attempts = n /\ u.lapsed = FALSE
           /\ u.owner = IF s \in Active THEN q ELSE Nobody
      /\ row[j].status = "absent" => u = row[j]
  BY <1>1 DEF Updated, RowType
<1> HIDE DEF r, u
<1>4. life[q] = "replaced" => overran
  BY DEF Inv, Working
<1>5. ~overran => row[j].status # "absent"
        /\ \A p \in Queues \ {q} : ~(held[p][j].at # "nowhere")
  <2>1. ~overran => Matches(q, j) /\ \A p \in Queues \ {q} : held[p][j].at # "nowhere" => Matches(p, j)
    BY DEF Inv, Matched
  <2>2. held[q][j].at \in Active \cup {"nowhere"}
    BY DEF Inv, Shape, JobType
  <2> QED BY <2>1, <2>2 DEF Matches, Active
<1>6. row[j].owner \in Queues => row[j].status \in Active /\ life[row[j].owner] \in {"open", "stopping"}
  BY DEF Inv, Owned, OwnedBy
<1>7. r \in RowType
  BY <1>1, <1>2, <1>u
<1>8. \/ r = row[j] /\ overran /\ r.owner # q
      \/ /\ life[q] \in {"open", "stopping"} /\ row[j].status # "absent"
         /\ r.status = s /\ r.attempts = n /\ r.lapsed = FALSE
         /\ r.owner = IF s \in Active THEN q ELSE Nobody
  <2>1. CASE life[q] = "replaced"
    BY <2>1, <1>2, <1>4, <1>6
  <2>2. CASE life[q] # "replaced" /\ row[j].status = "absent"
    BY <2>2, <1>2, <1>u, <1>5, <1>6 DEF Active
  <2>3. CASE life[q] # "replaced" /\ row[j].status # "absent"
    BY <2>3, <1>1, <1>2, <1>u DEF Lives
  <2> QED BY <2>1, <2>2, <2>3
<1>9. Nobody \notin Queues
  BY SqliteQueueConstants DEF SqliteQueueConstants
<1>10. /\ r.owner = q => r.status \in Active /\ life[q] \in {"open", "stopping"} /\ h.at # "nowhere"
       /\ r.owner \in Queues \ {q} => r.owner = row[j].owner /\ r.status = row[j].status
       /\ ~overran => (h.at # "nowhere" =>
            r.status = h.at /\ r.attempts = h.attempts /\ r.owner = q /\ r.lapsed = FALSE)
       /\ ~overran => \A p \in Queues \ {q} : held[p][j].at # "nowhere" => r = row[j]
  <2>1. CASE r = row[j] /\ overran /\ r.owner # q
    BY <2>1
  <2>2. CASE /\ life[q] \in {"open", "stopping"}
             /\ r.status = s /\ r.attempts = n /\ r.lapsed = FALSE
             /\ r.owner = IF s \in Active THEN q ELSE Nobody
    <3>1. CASE s \in Active /\ h.at = s /\ h.attempts = n
      BY <3>1, <2>2, <1>5 DEF Active
    <3>2. CASE s \notin Active /\ h.at = "nowhere"
      BY <3>2, <2>2, <1>5, <1>9
    <3> QED BY <3>1, <3>2
  <2> QED BY <2>1, <2>2, <1>8
<1> HIDE DEF Inv
<1> QED BY <1>3, <1>7, <1>10, JobStep, ZenonT(60)

-----------------------------------------------------------------------------
(* Actions on one job.                                                     *)

LEMMA StartKept ==
  ASSUME Inv, NEW q \in Queues, NEW j \in Jobs, Start(q, j)
  PROVE  Inv'
<1> DEFINE n == held[q][j].attempts + 1
           h == Waiting("running", n)
<1>1. held[q][j] \in JobType
  BY DEF Inv, Shape
<1>2. n \in Int /\ "running" \in Active /\ "running" \in Statuses
  BY <1>1 DEF JobType, Active, Statuses
<1>3. h \in JobType /\ h.at = "running" /\ h.attempts = n
  BY <1>2, WaitingType
<1>4. /\ held' = [held EXCEPT ![q][j] = h]
      /\ row' = [row EXCEPT ![j] = Saved(q, j, "running", n)]
      /\ life[q] # "down" /\ held[q][j].at # "nowhere"
      /\ UNCHANGED <<request, life, stalled, todo, overran>>
  BY DEF Start
<1> HIDE DEF n, h
<1>5. /\ held' \in [Queues -> [Jobs -> JobType]] /\ row' \in [Jobs -> RowType]
      /\ Owned' /\ Matched'
  BY <1>2, <1>3, <1>4, SavedStep
<1> QED BY <1>4, <1>5 DEF Inv, Shape, Working

LEMMA WaitAgainKept ==
  ASSUME Inv, NEW q \in Queues, NEW j \in Jobs, NEW a \in Active, NEW n \in Int,
         life[q] # "down", held[q][j].at # "nowhere",
         WaitAgain(q, j, a, n), UNCHANGED <<request, life, stalled, todo, overran>>
  PROVE  Inv'
<1> DEFINE h == Waiting(a, n)
<1>1. h \in JobType /\ h.at = a /\ h.attempts = n /\ a \in Statuses
  BY WaitingType DEF Statuses
<1>2. /\ held' = [held EXCEPT ![q][j] = h]
      /\ row' = [row EXCEPT ![j] = Saved(q, j, a, n)]
  BY DEF WaitAgain
<1> HIDE DEF h
<1>3. /\ held' \in [Queues -> [Jobs -> JobType]] /\ row' \in [Jobs -> RowType]
      /\ Owned' /\ Matched'
  BY <1>1, <1>2, SavedStep
<1> QED BY <1>3 DEF Inv, Shape, Working

LEMMA FinishKept ==
  ASSUME Inv, NEW q \in Queues, NEW j \in Jobs, NEW s \in {"success", "dead", "cancelled"},
         life[q] # "down", held[q][j].at # "nowhere",
         Finish(q, j, s), UNCHANGED <<request, life, stalled, todo, overran>>
  PROVE  Inv'
<1> DEFINE n == held[q][j].attempts
<1>1. NotHeld \in JobType /\ NotHeld.at = "nowhere"
  BY NotHeldType
<1>2. n \in Int /\ s \in Statuses /\ s \notin Active
  <2>1. held[q][j] \in JobType
    BY DEF Inv, Shape
  <2> QED BY <2>1 DEF JobType, Statuses, Active
<1>3. /\ held' = [held EXCEPT ![q][j] = NotHeld]
      /\ row' = [row EXCEPT ![j] = Saved(q, j, s, n)]
  BY DEF Finish
<1> HIDE DEF n
<1>4. /\ held' \in [Queues -> [Jobs -> JobType]] /\ row' \in [Jobs -> RowType]
      /\ Owned' /\ Matched'
  BY <1>1, <1>2, <1>3, SavedStep
<1> QED BY <1>4 DEF Inv, Shape, Working

LEMMA SendEndsKept ==
  ASSUME Inv, NEW q \in Queues, NEW j \in Jobs, SendEnds(q, j)
  PROVE  Inv'
<1> DEFINE n == held[q][j].attempts
<1>1. n \in Int /\ n - 1 \in Int
  <2>1. held[q][j] \in JobType
    BY DEF Inv, Shape
  <2> QED BY <2>1 DEF JobType
<1>2. /\ life[q] # "down" /\ held[q][j].at # "nowhere"
      /\ UNCHANGED <<request, life, stalled, todo, overran>>
  BY DEF SendEnds, Ready
<1>3. \/ Finish(q, j, "cancelled") \/ Finish(q, j, "success") \/ Finish(q, j, "dead")
      \/ WaitAgain(q, j, "pending", n - 1) \/ WaitAgain(q, j, "scheduled", n)
  BY DEF SendEnds
<1>4. "pending" \in Active /\ "scheduled" \in Active
  BY DEF Active
<1> HIDE DEF n
<1> QED BY <1>1, <1>2, <1>3, <1>4, FinishKept, WaitAgainKept

LEMMA PromoteKept ==
  ASSUME Inv, NEW q \in Queues, NEW j \in Jobs, Promote(q, j)
  PROVE  Inv'
<1>1. held[q][j].attempts \in Int
  <2>1. held[q][j] \in JobType
    BY DEF Inv, Shape
  <2> QED BY <2>1 DEF JobType
<1>2. /\ life[q] # "down" /\ held[q][j].at # "nowhere"
      /\ WaitAgain(q, j, "pending", held[q][j].attempts)
      /\ UNCHANGED <<request, life, stalled, todo, overran>>
  BY DEF Promote, Ready
<1>3. "pending" \in Active
  BY DEF Active
<1> QED BY <1>1, <1>2, <1>3, WaitAgainKept

LEMMA RestoreKept ==
  ASSUME Inv, NEW q \in Queues, NEW f \in todo[q], Restore(q, f)
  PROVE  Inv'
<1> DEFINE j == f.job
<1>1. f \in FoundType /\ life[q] = "open" /\ Nobody \notin Queues
  BY SqliteQueueConstants DEF Inv, Shape, Working, SqliteQueueConstants
<1>2. j \in Jobs /\ f.attempts \in Int
  BY <1>1 DEF FoundType
<1>3. row[j] \in RowType /\ held[q][j] \in JobType
  BY <1>2 DEF Inv, Shape
<1>4. /\ UNCHANGED <<request, life, stalled, overran>>
      /\ todo' = [todo EXCEPT ![q] = @ \ {f}]
  BY DEF Restore
<1>5. todo' \in [Queues -> SUBSET FoundType] /\ \A p \in Queues : todo'[p] \subseteq todo[p]
  BY <1>4 DEF Inv, Shape
<1>6. SUFFICES /\ held' \in [Queues -> [Jobs -> JobType]] /\ row' \in [Jobs -> RowType]
               /\ Owned' /\ Matched'
  BY <1>4, <1>5 DEF Inv, Shape, Working
<1>7. CASE UNCHANGED <<row, held>>
  BY <1>4, <1>7 DEF Inv, Shape, Owned, OwnedBy, Matched, Matches
<1>8. CASE held[q][j].at = "nowhere" /\ Claimable(row[j], q) /\ ~UNCHANGED <<row, held>>
  <2>1. ~overran => \A p \in Queues \ {q} : ~(held[p][j].at # "nowhere")
    BY <1>1, <1>2, <1>8 DEF Inv, Matched, Matches, Claimable
  <2>2. row[j].status \in Active
    BY <1>8 DEF Claimable
  <2>3. \/ \E at \in {"pending", "scheduled"} :
             /\ held' = [held EXCEPT ![q][j] = Waiting(at, f.attempts)]
             /\ row' = [row EXCEPT ![j] = Updated(@, q, at, f.attempts)]
        \/ /\ row' = [row EXCEPT ![j].status = "dead", ![j].owner = Nobody, ![j].lapsed = FALSE]
           /\ held' = held
    BY <1>8 DEF Restore
  <2>4. ASSUME NEW at \in {"pending", "scheduled"},
               held' = [held EXCEPT ![q][j] = Waiting(at, f.attempts)],
               row' = [row EXCEPT ![j] = Updated(@, q, at, f.attempts)]
        PROVE  /\ held' \in [Queues -> [Jobs -> JobType]] /\ row' \in [Jobs -> RowType]
               /\ Owned' /\ Matched'
    <3> DEFINE h == Waiting(at, f.attempts)
               r == Updated(row[j], q, at, f.attempts)
    <3>1. at \in Active /\ at \in Statuses /\ row[j].status # "absent"
      BY <2>2 DEF Active, Statuses
    <3>2. h \in JobType /\ h.at = at /\ h.attempts = f.attempts
      BY <3>1, <1>2, WaitingType
    <3>3. /\ r \in RowType /\ r.status = at /\ r.attempts = f.attempts
          /\ r.lapsed = FALSE /\ r.owner = q
      BY <3>1, <1>2, <1>3 DEF Updated, RowType
    <3>4. held' = [held EXCEPT ![q][j] = h] /\ row' = [row EXCEPT ![j] = r]
      BY <2>4, <1>2, <1>3 DEF Inv, Shape
    <3> HIDE DEF h, r, j, Inv
    <3>5. /\ r.owner = q => r.status \in Active /\ life[q] \in {"open", "stopping"} /\ h.at # "nowhere"
          /\ r.owner \in Queues \ {q} => r.owner = row[j].owner /\ r.status = row[j].status
          /\ ~overran => (h.at # "nowhere" =>
               r.status = h.at /\ r.attempts = h.attempts /\ r.owner = q /\ r.lapsed = FALSE)
          /\ ~overran => \A p \in Queues \ {q} : held[p][j].at # "nowhere" => r = row[j]
      BY <3>1, <3>2, <3>3, <2>1, <1>1
    <3> QED BY <3>2, <3>3, <3>4, <3>5, <1>2, <1>4, JobStep
  <2>5. ASSUME row' = [row EXCEPT ![j].status = "dead", ![j].owner = Nobody, ![j].lapsed = FALSE],
               held' = held
        PROVE  /\ held' \in [Queues -> [Jobs -> JobType]] /\ row' \in [Jobs -> RowType]
               /\ Owned' /\ Matched'
    <3> DEFINE h == held[q][j]
               r == [row[j] EXCEPT !.status = "dead", !.owner = Nobody, !.lapsed = FALSE]
    <3>1. r \in RowType /\ r.owner = Nobody
      BY <1>3 DEF RowType, Statuses
    <3>2. h \in JobType /\ h.at = "nowhere"
      BY <1>3, <1>8
    <3>3. held' = [held EXCEPT ![q][j] = h] /\ row' = [row EXCEPT ![j] = r]
      BY <2>5, <1>2, <1>3 DEF Inv, Shape
    <3> HIDE DEF h, r, j, Inv
    <3>4. /\ r.owner = q => r.status \in Active /\ life[q] \in {"open", "stopping"} /\ h.at # "nowhere"
          /\ r.owner \in Queues \ {q} => r.owner = row[j].owner /\ r.status = row[j].status
          /\ ~overran => (h.at # "nowhere" =>
               r.status = h.at /\ r.attempts = h.attempts /\ r.owner = q /\ r.lapsed = FALSE)
          /\ ~overran => \A p \in Queues \ {q} : held[p][j].at # "nowhere" => r = row[j]
      BY <3>1, <3>2, <2>1, <1>1
    <3> QED BY <3>1, <3>2, <3>3, <3>4, <1>2, <1>4, JobStep
  <2> QED BY <2>3, <2>4, <2>5
<1> QED BY <1>7, <1>8 DEF Restore

LEMMA EnqueueKept ==
  ASSUME Inv, NEW q \in Queues, NEW j \in Jobs, Enqueue(q, j)
  PROVE  Inv'
<1>1. PICK at \in {"pending", "scheduled"} :
        /\ row' = [row EXCEPT ![j] = [NoRow EXCEPT !.status = at, !.owner = q]]
        /\ held' = [held EXCEPT ![q][j] = Waiting(at, 0)]
  BY DEF Enqueue
<1> DEFINE h == Waiting(at, 0)
           r == [NoRow EXCEPT !.status = at, !.owner = q]
<1>2. /\ life[q] = "open" /\ row[j].status = "absent"
      /\ UNCHANGED <<request, life, stalled, todo, overran>>
  BY DEF Enqueue
<1>3. at \in Active
  BY DEF Active
<1>4. h \in JobType /\ h.at = at /\ h.attempts = 0
  BY <1>3, WaitingType
<1>5. /\ r \in RowType /\ r.status = at /\ r.attempts = 0
      /\ r.lapsed = FALSE /\ r.owner = q
  <2>1. NoRow \in RowType /\ NoRow.attempts = 0 /\ NoRow.lapsed = FALSE
    BY DEF NoRow, RowType, Statuses
  <2> QED BY <2>1, <1>3 DEF RowType, Statuses
<1>6. ~overran => \A p \in Queues \ {q} : ~(held[p][j].at # "nowhere")
  <2> SUFFICES ASSUME ~overran, NEW p \in Queues, held[p][j].at # "nowhere" PROVE FALSE
    OBVIOUS
  <2>1. held[p][j] \in JobType /\ Matches(p, j)
    BY DEF Inv, Shape, Matched
  <2> QED BY <2>1, <1>2 DEF JobType, Matches, Active
<1>7. held' = [held EXCEPT ![q][j] = h] /\ row' = [row EXCEPT ![j] = r]
  BY <1>1
<1>8. /\ held' \in [Queues -> [Jobs -> JobType]] /\ row' \in [Jobs -> RowType]
      /\ Owned' /\ Matched'
  <2> HIDE DEF h, r, Inv
  <2>1. /\ r.owner = q => r.status \in Active /\ life[q] \in {"open", "stopping"} /\ h.at # "nowhere"
        /\ r.owner \in Queues \ {q} => r.owner = row[j].owner /\ r.status = row[j].status
        /\ ~overran => (h.at # "nowhere" =>
             r.status = h.at /\ r.attempts = h.attempts /\ r.owner = q /\ r.lapsed = FALSE)
        /\ ~overran => \A p \in Queues \ {q} : held[p][j].at # "nowhere" => r = row[j]
    BY <1>2, <1>3, <1>4, <1>5, <1>6
  <2> QED BY <2>1, <1>2, <1>4, <1>5, <1>7, JobStep
<1> QED BY <1>2, <1>8 DEF Inv, Shape, Working

LEMMA AcceptKept ==
  ASSUME Inv, NEW q \in Queues, NEW j \in Jobs, Accept(q, j)
  PROVE  Inv'
<1> DEFINE h == [held[q][j] EXCEPT !.sent = TRUE]
           r == row[j]
<1>1. r \in RowType /\ held[q][j] \in JobType
  BY DEF Inv, Shape
<1>2. h \in JobType /\ h.at = held[q][j].at /\ h.attempts = held[q][j].attempts
      /\ held[q][j].at = "running"
  BY <1>1 DEF JobType, Accept
<1>3. held' = [held EXCEPT ![q][j] = h] /\ row' = [row EXCEPT ![j] = r]
      /\ UNCHANGED <<request, life, stalled, todo, overran>>
  BY DEF Accept, Inv, Shape
<1>4. /\ r.owner = q => r.status \in Active /\ life[q] \in {"open", "stopping"}
      /\ ~overran => r.status = held[q][j].at /\ r.attempts = held[q][j].attempts
                     /\ r.owner = q /\ r.lapsed = FALSE
  BY <1>2 DEF Inv, Owned, OwnedBy, Matched, Matches
<1>5. /\ held' \in [Queues -> [Jobs -> JobType]] /\ row' \in [Jobs -> RowType]
      /\ Owned' /\ Matched'
  <2>1. r = row[j]
    OBVIOUS
  <2> HIDE DEF h, r, Inv
  <2>2. /\ r.owner = q => r.status \in Active /\ life[q] \in {"open", "stopping"} /\ h.at # "nowhere"
        /\ r.owner \in Queues \ {q} => r.owner = row[j].owner /\ r.status = row[j].status
        /\ ~overran => (h.at # "nowhere" =>
             r.status = h.at /\ r.attempts = h.attempts /\ r.owner = q /\ r.lapsed = FALSE)
        /\ ~overran => \A p \in Queues \ {q} : held[p][j].at # "nowhere" => r = row[j]
    BY <2>1, <1>2, <1>4
  <2> QED BY <2>2, <1>1, <1>2, <1>3, JobStep
<1> QED BY <1>3, <1>5 DEF Inv, Shape, Working

-----------------------------------------------------------------------------
(* Actions on all the jobs of a queue.                                     *)

\* Row r2 is row r with its lease renewed by q, or freed of a dead owner, or
\* both.
Tended(q, r, r2) ==
  /\ r2 \in RowType /\ r2.status = r.status /\ r2.attempts = r.attempts
  /\ r2.owner = r.owner \/ (r.owner = Gone /\ r2.owner = Nobody)
  /\ r.owner \notin {q, Gone} => r2 = r
  /\ r.lapsed = FALSE => r2.lapsed = FALSE

LEMMA TendedRows ==
  ASSUME NEW q \in Queues, NEW r \in RowType
  PROVE  /\ Tended(q, r, r) /\ Tended(q, r, Freed(r))
         /\ Tended(q, r, Renewed(r, q)) /\ Tended(q, r, Freed(Renewed(r, q)))
<1>1. q # Gone /\ q # Nobody /\ Gone # Nobody
  BY SqliteQueueConstants DEF SqliteQueueConstants
<1>2. Renewed(r, q) \in RowType /\ Renewed(r, q).owner = r.owner
      /\ Renewed(r, q).status = r.status /\ Renewed(r, q).attempts = r.attempts
      /\ (r.lapsed = FALSE => Renewed(r, q).lapsed = FALSE)
      /\ (r.owner # q => Renewed(r, q) = r)
  BY DEF Renewed, RowType
<1>3. ASSUME NEW x \in RowType
      PROVE  /\ Freed(x) \in RowType /\ Freed(x).status = x.status /\ Freed(x).attempts = x.attempts
             /\ (x.owner # Gone => Freed(x) = x)
             /\ (x.owner = Gone => Freed(x).owner = Nobody /\ Freed(x).lapsed = FALSE)
  BY DEF Freed, RowType
<1>4. Tended(q, r, r)
  BY DEF Tended
<1>5. Tended(q, r, Freed(r))
  BY <1>3 DEF Tended
<1>6. Tended(q, r, Renewed(r, q))
  BY <1>2 DEF Tended
<1>7. Tended(q, r, Freed(Renewed(r, q)))
  <2> DEFINE x == Renewed(r, q)
  <2>1. x \in RowType /\ x.owner = r.owner /\ x.status = r.status /\ x.attempts = r.attempts
        /\ (r.lapsed = FALSE => x.lapsed = FALSE) /\ (r.owner # q => x = r)
    BY <1>2
  <2> HIDE DEF x
  <2>2. Tended(q, r, Freed(x))
    BY <1>3, <2>1 DEF Tended
  <2> QED BY <2>2 DEF x
<1> QED BY <1>4, <1>5, <1>6, <1>7

\* Queue q tends the table and does what it is asked to: a job goes on as it
\* was, or it leaves the queue and its row says that it is cancelled.
LEMMA RequestsStep ==
  ASSUME Inv, NEW q \in Queues,
         \A p \in Queues \ {q} : held'[p] = held[p] /\ life'[p] = life[p],
         life'[q] \in {"open", "stopping"}, overran' = overran,
         \A j \in Jobs :
           \/ /\ held'[q][j].at = held[q][j].at /\ held'[q][j].attempts = held[q][j].attempts
              /\ Tended(q, row[j], row'[j])
           \/ /\ held'[q][j].at = "nowhere" /\ held[q][j].at # "nowhere"
              /\ Tended(q, Updated(row[j], q, "cancelled", held[q][j].attempts), row'[j])
  PROVE  Owned' /\ Matched'
<1>1. q # Gone /\ q # Nobody /\ Gone # Nobody /\ Gone \notin Queues /\ Nobody \notin Queues
  BY SqliteQueueConstants DEF SqliteQueueConstants
<1>2. ASSUME NEW j \in Jobs
      PROVE  /\ row'[j].owner = q => row'[j].status \in Active /\ held'[q][j].at # "nowhere"
             /\ row'[j].owner \in Queues \ {q} =>
                  row'[j].owner = row[j].owner /\ row'[j].status = row[j].status
             /\ ~overran => (held'[q][j].at # "nowhere" => Matches(q, j)')
             /\ ~overran => \A p \in Queues \ {q} : held[p][j].at # "nowhere" => row'[j] = row[j]
  <2>1. row[j] \in RowType /\ held[q][j] \in JobType
    BY DEF Inv, Shape
  <2>2. row[j].owner \in Queues => row[j].status \in Active /\ held[row[j].owner][j].at # "nowhere"
    BY DEF Inv, Owned, OwnedBy
  <2>3. ~overran => \A p \in Queues : held[p][j].at # "nowhere" => Matches(p, j)
    BY DEF Inv, Matched
  <2>4. CASE /\ held'[q][j].at = held[q][j].at /\ held'[q][j].attempts = held[q][j].attempts
             /\ Tended(q, row[j], row'[j])
    <3>1. /\ row'[j].owner = q => row'[j].status \in Active /\ held'[q][j].at # "nowhere"
          /\ row'[j].owner \in Queues \ {q} =>
               row'[j].owner = row[j].owner /\ row'[j].status = row[j].status
      BY <1>1, <2>2, <2>4 DEF Tended
    <3>2. ~overran => (held'[q][j].at # "nowhere" => Matches(q, j)')
      BY <1>1, <2>3, <2>4 DEF Tended, Matches
    <3>3. ~overran => \A p \in Queues \ {q} : held[p][j].at # "nowhere" => row'[j] = row[j]
      BY <1>1, <2>3, <2>4 DEF Tended, Matches
    <3> QED BY <3>1, <3>2, <3>3
  <2>5. CASE /\ held'[q][j].at = "nowhere" /\ held[q][j].at # "nowhere"
             /\ Tended(q, Updated(row[j], q, "cancelled", held[q][j].attempts), row'[j])
    <3> DEFINE u == Updated(row[j], q, "cancelled", held[q][j].attempts)
    <3>1. \/ u.owner = Nobody
          \/ u = row[j] /\ row[j].status = "absent"
      BY <2>1 DEF Updated, RowType, Active
    <3>2. Tended(q, u, row'[j])
      BY <2>5
    <3> HIDE DEF u
    <3>3. row'[j].owner \notin Queues
      BY <1>1, <2>2, <3>1, <3>2 DEF Tended, Active
    <3>4. ~overran => \A p \in Queues \ {q} : ~(held[p][j].at # "nowhere")
      BY <2>3, <2>5 DEF Matches
    <3> QED BY <3>3, <3>4, <2>5
  <2> QED BY <2>4, <2>5
<1> HIDE DEF Inv
<1> QED BY <1>2, QueueStep

LEMMA ReadType ==
  ASSUME NEW t \in [Jobs -> RowType]
  PROVE  Read(t) \subseteq FoundType
<1> SUFFICES ASSUME NEW i \in Jobs, Unowned(t[i])
             PROVE  [job |-> i, status |-> t[i].status, attempts |-> t[i].attempts] \in FoundType
  BY DEF Read
<1>1. t[i] \in RowType /\ t[i].status \in Active
  BY DEF Unowned
<1> QED BY <1>1 DEF RowType, FoundType

LEMMA OpenKept ==
  ASSUME Inv, NEW q \in Queues, NEW local \in BOOLEAN, Open(q, local)
  PROVE  Inv'
<1>1. /\ life[q] = "down" /\ life' = [life EXCEPT ![q] = "open"]
      /\ row' = [j \in Jobs |-> IF local THEN Freed(row[j]) ELSE row[j]]
      /\ todo' = [todo EXCEPT ![q] = Read(row')]
      /\ UNCHANGED <<request, stalled, held, overran>>
  BY DEF Open
<1>2. \A j \in Jobs : row[j] \in RowType
  BY DEF Inv, Shape
<1>3. \A j \in Jobs : Tended(q, row[j], row'[j])
  BY <1>1, <1>2, TendedRows
<1>4. row' \in [Jobs -> RowType]
  BY <1>1, <1>3 DEF Tended
<1>5. life' \in [Queues -> Lives] /\ life'[q] = "open" /\ todo' \in [Queues -> SUBSET FoundType]
  BY <1>1, <1>4, ReadType DEF Inv, Shape, Lives
<1>6. /\ \A p \in Queues \ {q} : held'[p] = held[p] /\ life'[p] = life[p] /\ todo'[p] = todo[p]
      /\ \A j \in Jobs : held'[q][j].at = held[q][j].at /\ held'[q][j].attempts = held[q][j].attempts
  BY <1>1 DEF Inv, Shape
<1>7. Owned' /\ Matched'
  <2>1. life'[q] \in {"open", "stopping"} /\ overran' = overran
    BY <1>1, <1>5
  <2> HIDE DEF Inv
  <2> QED BY <2>1, <1>3, <1>6, RequestsStep
<1>8. Shape'
  BY <1>1, <1>4, <1>5 DEF Inv, Shape
<1>9. Working'
  BY <1>1, <1>5, <1>6 DEF Inv, Working
<1> QED BY <1>7, <1>8, <1>9 DEF Inv

LEMMA PollKept ==
  ASSUME Inv, NEW q \in Queues, NEW local \in BOOLEAN, NEW old \in SUBSET Jobs, Poll(q, local, old)
  PROVE  Inv'
<1> DEFINE a(j) == JobAfter(q, j, request[j])
           m(j) == RowAfter(q, j, request[j])
           n(j) == Renewed(m(j), q)
<1>1. /\ life[q] \in {"open", "stopping"}
      /\ row' = [j \in Jobs |-> IF local /\ life[q] = "open" THEN Freed(n(j)) ELSE n(j)]
      /\ held' = [held EXCEPT ![q] = [j \in Jobs |-> a(j)]]
      /\ request' = [j \in Jobs |-> IF j \in old \/ HandledBy(q, j, request[j])
                                    THEN "none" ELSE request[j]]
      /\ todo' = [todo EXCEPT ![q] = IF life[q] = "open" THEN Read(row') ELSE {}]
      /\ UNCHANGED <<life, stalled, overran>>
  BY DEF Poll
<1>2. \A j \in Jobs : request[j] \in Reasons
  BY DEF Inv, Shape
<1>3. \A j \in Jobs :
        /\ a(j) \in JobType /\ m(j) \in RowType
        /\ \/ /\ m(j) = row[j]
              /\ a(j).at = held[q][j].at /\ a(j).attempts = held[q][j].attempts
           \/ /\ held[q][j].at # "nowhere" /\ a(j).at = "nowhere"
              /\ m(j) = Updated(row[j], q, "cancelled", held[q][j].attempts)
  BY <1>2, RequestStep DEF Inv
<1> HIDE DEF a, m
<1>4. \A j \in Jobs : Tended(q, m(j), row'[j])
  <2>1. ASSUME NEW j \in Jobs PROVE Tended(q, m(j), Freed(n(j))) /\ Tended(q, m(j), n(j))
    BY <1>3, TendedRows
  <2> HIDE DEF n
  <2> QED BY <1>1, <2>1
<1>5. row' \in [Jobs -> RowType]
  <2>1. row' = [j \in Jobs |-> row'[j]]
    BY <1>1
  <2> QED BY <2>1, <1>4 DEF Tended
<1>6. held' \in [Queues -> [Jobs -> JobType]]
  BY <1>1, <1>3 DEF Inv, Shape
<1>7. todo' \in [Queues -> SUBSET FoundType] /\ request' \in [Jobs -> Reasons]
  BY <1>1, <1>2, <1>5, ReadType DEF Inv, Shape, Reasons
<1>8. /\ \A p \in Queues \ {q} : held'[p] = held[p] /\ life'[p] = life[p] /\ todo'[p] = todo[p]
      /\ \A j \in Jobs : held'[q][j] = a(j)
      /\ todo'[q] # {} => life[q] = "open"
  BY <1>1 DEF Inv, Shape
<1>9. \A j \in Jobs :
        \/ /\ held'[q][j].at = held[q][j].at /\ held'[q][j].attempts = held[q][j].attempts
           /\ Tended(q, row[j], row'[j])
        \/ /\ held'[q][j].at = "nowhere" /\ held[q][j].at # "nowhere"
           /\ Tended(q, Updated(row[j], q, "cancelled", held[q][j].attempts), row'[j])
  BY <1>3, <1>4, <1>8
<1>10. Owned' /\ Matched'
  <2>1. life'[q] \in {"open", "stopping"} /\ overran' = overran
    BY <1>1
  <2> HIDE DEF Inv
  <2> QED BY <2>1, <1>8, <1>9, RequestsStep
<1>11. Shape'
  BY <1>1, <1>5, <1>6, <1>7 DEF Inv, Shape
<1>12. Working'
  BY <1>1, <1>8 DEF Inv, Working
<1> QED BY <1>10, <1>11, <1>12 DEF Inv

LEMMA ShutdownKept ==
  ASSUME Inv, NEW q \in Queues, Shutdown(q)
  PROVE  Inv'
<1>1. /\ life[q] = "open" /\ todo[q] = {} /\ life' = [life EXCEPT ![q] = "stopping"]
      /\ UNCHANGED <<request, stalled, todo, overran>>
  BY DEF Shutdown, Ready
<1>2. PICK kind \in {"none", "cancel"} :
        /\ held' = [held EXCEPT ![q] = [j \in Jobs |-> IF held[q][j].at # "running"
                                                       THEN JobAfter(q, j, kind) ELSE held[q][j]]]
        /\ row' = [j \in Jobs |-> RowAfter(q, j, kind)]
  BY DEF Shutdown
<1>3. \A j \in Jobs : row[j] \in RowType /\ held[q][j] \in JobType
  BY DEF Inv, Shape
<1> DEFINE a(j) == JobAfter(q, j, kind)
           m(j) == RowAfter(q, j, kind)
<1>4. \A j \in Jobs :
        /\ a(j) \in JobType /\ m(j) \in RowType
        /\ \/ /\ m(j) = row[j]
              /\ a(j).at = held[q][j].at /\ a(j).attempts = held[q][j].attempts
           \/ /\ held[q][j].at # "nowhere" /\ a(j).at = "nowhere"
              /\ m(j) = Updated(row[j], q, "cancelled", held[q][j].attempts)
  <2>1. kind \in Reasons
    BY DEF Reasons
  <2> QED BY <2>1, RequestStep DEF Inv
<1>5. \A j \in Jobs : held[q][j].at = "running" => m(j) = row[j]
  BY DEF RowAfter
<1> HIDE DEF a, m
<1>6. /\ \A p \in Queues \ {q} : held'[p] = held[p] /\ life'[p] = life[p]
      /\ \A j \in Jobs : row'[j] = m(j)
                         /\ held'[q][j] = IF held[q][j].at # "running" THEN a(j) ELSE held[q][j]
  BY <1>1, <1>2 DEF Inv, Shape, a, m
<1>7. row' \in [Jobs -> RowType] /\ held' \in [Queues -> [Jobs -> JobType]]
  <2>1. row' = [j \in Jobs |-> m(j)]
    BY <1>2 DEF m
  <2>2. held' = [held EXCEPT ![q] = [j \in Jobs |-> IF held[q][j].at # "running"
                                                    THEN a(j) ELSE held[q][j]]]
    BY <1>2 DEF a
  <2> QED BY <2>1, <2>2, <1>3, <1>4 DEF Inv, Shape
<1>8. \A j \in Jobs :
        \/ /\ held'[q][j].at = held[q][j].at /\ held'[q][j].attempts = held[q][j].attempts
           /\ Tended(q, row[j], row'[j])
        \/ /\ held'[q][j].at = "nowhere" /\ held[q][j].at # "nowhere"
           /\ Tended(q, Updated(row[j], q, "cancelled", held[q][j].attempts), row'[j])
  <2>1. \A j \in Jobs : Tended(q, m(j), m(j))
    BY <1>4, TendedRows
  <2> QED BY <2>1, <1>4, <1>5, <1>6
<1>9. life'[q] = "stopping" /\ life' \in [Queues -> Lives]
  BY <1>1 DEF Inv, Shape, Lives
<1>10. Owned' /\ Matched'
  <2>1. life'[q] \in {"open", "stopping"} /\ overran' = overran
    BY <1>1, <1>9
  <2> HIDE DEF Inv
  <2> QED BY <2>1, <1>6, <1>8, RequestsStep
<1>11. Shape'
  BY <1>1, <1>7, <1>9 DEF Inv, Shape
<1>12. Working'
  BY <1>1, <1>6, <1>9 DEF Inv, Working
<1> QED BY <1>10, <1>11, <1>12 DEF Inv

LEMMA InterruptStragglersKept ==
  ASSUME Inv, NEW q \in Queues, InterruptStragglers(q)
  PROVE  Inv'
<1> DEFINE a(j) == JobAfter(q, j, "interrupt")
<1>1. /\ life[q] = "stopping"
      /\ held' = [held EXCEPT ![q] = [j \in Jobs |-> a(j)]]
      /\ UNCHANGED <<row, request, life, stalled, todo, overran>>
  BY DEF InterruptStragglers
<1>2. \A j \in Jobs : row[j] \in RowType /\ held[q][j] \in JobType
  BY DEF Inv, Shape
<1>3. \A j \in Jobs :
        a(j) \in JobType /\ a(j).at = held[q][j].at /\ a(j).attempts = held[q][j].attempts
  <2> SUFFICES ASSUME NEW j \in Jobs
               PROVE  a(j) \in JobType /\ a(j).at = held[q][j].at
                      /\ a(j).attempts = held[q][j].attempts
    OBVIOUS
  <2>1. a(j) = IF HandledBy(q, j, "interrupt") THEN Signalled(held[q][j], "interrupt")
               ELSE held[q][j]
    BY DEF JobAfter, HandledBy
  <2>2. "interrupt" \in Reasons
    BY DEF Reasons
  <2> HIDE DEF a
  <2> QED BY <2>1, <2>2, <1>2, SignalledType
<1> HIDE DEF a
<1>4. /\ \A p \in Queues \ {q} : held'[p] = held[p] /\ life'[p] = life[p]
      /\ \A j \in Jobs : held'[q][j] = a(j)
      /\ held' \in [Queues -> [Jobs -> JobType]]
  BY <1>1, <1>3 DEF Inv, Shape
<1>5. \A j \in Jobs :
           /\ held'[q][j].at = held[q][j].at /\ held'[q][j].attempts = held[q][j].attempts
           /\ Tended(q, row[j], row'[j])
  BY <1>1, <1>2, <1>3, <1>4, TendedRows
<1>6. Owned' /\ Matched'
  <2>1. life'[q] \in {"open", "stopping"} /\ overran' = overran
    BY <1>1
  <2> HIDE DEF Inv
  <2> QED BY <2>1, <1>4, <1>5, RequestsStep
<1> QED BY <1>1, <1>4, <1>6 DEF Inv, Shape, Working

-----------------------------------------------------------------------------
(* Actions that end a queue.                                               *)

\* The rows of q get another owner, who is not a queue, and q holds nothing any
\* more, or it has overrun its leases.
LEMMA DroppedStep ==
  ASSUME Inv, NEW q \in Queues,
         \A p \in Queues \ {q} : held'[p] = held[p] /\ life'[p] = life[p],
         \A j \in Jobs : IF row[j].owner = q THEN row'[j].owner \notin Queues ELSE row'[j] = row[j],
         ~overran' => ~overran /\ \A j \in Jobs : held'[q][j].at = "nowhere"
  PROVE  Owned' /\ Matched'
<1>1. ~overran => \A p \in Queues \ {q}, j \in Jobs : held[p][j].at # "nowhere" => row[j].owner # q
  BY DEF Inv, Matched, Matches
<1>2. \A j \in Jobs : row'[j].owner # q
  BY DEF Inv
<1>3. /\ \A j \in Jobs : row'[j].owner = q =>
           /\ row'[j].status \in Active
           /\ life'[q] \in {"open", "stopping"} /\ held'[q][j].at # "nowhere"
      /\ \A j \in Jobs : row'[j].owner \in Queues \ {q} =>
           row'[j].owner = row[j].owner /\ row'[j].status = row[j].status
      /\ ~overran' => ~overran
      /\ ~overran' => \A j \in Jobs : held'[q][j].at # "nowhere" => Matches(q, j)'
      /\ ~overran' => \A p \in Queues \ {q}, j \in Jobs :
           held[p][j].at # "nowhere" => row'[j] = row[j]
  BY <1>1, <1>2
<1> HIDE DEF Inv
<1> QED BY <1>3, QueueStep

LEMMA ReleasedRows ==
  ASSUME Inv, NEW q \in Queues, row' = [j \in Jobs |-> Released(row[j], q)]
  PROVE  /\ row' \in [Jobs -> RowType]
         /\ \A j \in Jobs : IF row[j].owner = q THEN row'[j].owner \notin Queues
                            ELSE row'[j] = row[j]
<1> SUFFICES ASSUME NEW j \in Jobs
             PROVE  /\ Released(row[j], q) \in RowType
                    /\ IF row[j].owner = q THEN Released(row[j], q).owner = Nobody
                       ELSE Released(row[j], q) = row[j]
  BY SqliteQueueConstants DEF SqliteQueueConstants
<1>1. row[j] \in RowType
  BY DEF Inv, Shape
<1> QED BY <1>1 DEF Released, RowType, Statuses, Active

LEMMA CloseKept ==
  ASSUME Inv, NEW q \in Queues, Close(q)
  PROVE  Inv'
<1>1. /\ todo[q] = {} /\ life' = [life EXCEPT ![q] = "down"]
      /\ row' = [j \in Jobs |-> Released(row[j], q)]
      /\ held' = [held EXCEPT ![q] = [j \in Jobs |-> NotHeld]]
      /\ UNCHANGED <<request, stalled, todo, overran>>
  BY DEF Close, Ready
<1>2. /\ held' \in [Queues -> [Jobs -> JobType]] /\ life' \in [Queues -> Lives]
      /\ life'[q] = "down" /\ \A j \in Jobs : held'[q][j].at = "nowhere"
      /\ \A p \in Queues \ {q} : held'[p] = held[p] /\ life'[p] = life[p]
  BY <1>1, NotHeldType DEF Inv, Shape, Lives
<1>3. /\ row' \in [Jobs -> RowType]
      /\ \A j \in Jobs : IF row[j].owner = q THEN row'[j].owner \notin Queues ELSE row'[j] = row[j]
  BY <1>1, ReleasedRows
<1>4. Owned' /\ Matched'
  BY <1>1, <1>2, <1>3, DroppedStep
<1>5. Shape' /\ Working'
  BY <1>1, <1>2, <1>3 DEF Inv, Shape, Working
<1> QED BY <1>4, <1>5 DEF Inv

LEMMA ReplaceKept ==
  ASSUME Inv, NEW q \in Queues, Replace(q)
  PROVE  Inv'
<1>1. /\ todo[q] = {} /\ life' = [life EXCEPT ![q] = "replaced"] /\ overran' = TRUE
      /\ row' = [j \in Jobs |-> Released(row[j], q)]
      /\ UNCHANGED <<request, stalled, held, todo>>
  BY DEF Replace, Ready
<1>2. /\ life' \in [Queues -> Lives]
      /\ \A p \in Queues \ {q} : held'[p] = held[p] /\ life'[p] = life[p]
  BY <1>1 DEF Inv, Shape, Lives
<1>3. /\ row' \in [Jobs -> RowType]
      /\ \A j \in Jobs : IF row[j].owner = q THEN row'[j].owner \notin Queues ELSE row'[j] = row[j]
  BY <1>1, ReleasedRows
<1>4. Owned' /\ Matched'
  BY <1>1, <1>2, <1>3, DroppedStep
<1>5. Shape' /\ Working'
  BY <1>1, <1>2, <1>3 DEF Inv, Shape, Working
<1> QED BY <1>4, <1>5 DEF Inv

LEMMA CrashKept ==
  ASSUME Inv, NEW q \in Queues, Crash(q)
  PROVE  Inv'
<1>1. /\ life' = [life EXCEPT ![q] = "down"] /\ stalled' = stalled \ {q}
      /\ row' = [j \in Jobs |-> IF row[j].owner = q THEN [row[j] EXCEPT !.owner = Gone] ELSE row[j]]
      /\ held' = [held EXCEPT ![q] = [j \in Jobs |-> NotHeld]]
      /\ todo' = [todo EXCEPT ![q] = {}]
      /\ UNCHANGED <<request, overran>>
  BY DEF Crash
<1>2. /\ held' \in [Queues -> [Jobs -> JobType]] /\ life' \in [Queues -> Lives]
      /\ todo' \in [Queues -> SUBSET FoundType] /\ todo'[q] = {}
      /\ life'[q] = "down" /\ \A j \in Jobs : held'[q][j].at = "nowhere"
      /\ \A p \in Queues \ {q} : held'[p] = held[p] /\ life'[p] = life[p] /\ todo'[p] = todo[p]
  BY <1>1, NotHeldType DEF Inv, Shape, Lives
<1>3. ASSUME NEW j \in Jobs
      PROVE  /\ row'[j] \in RowType
             /\ IF row[j].owner = q THEN row'[j].owner \notin Queues ELSE row'[j] = row[j]
  <2>1. row[j] \in RowType /\ Gone \notin Queues
    BY SqliteQueueConstants DEF Inv, Shape, SqliteQueueConstants
  <2> QED BY <1>1, <2>1 DEF RowType
<1>4. row' \in [Jobs -> RowType]
  BY <1>1, <1>3
<1>5. Owned' /\ Matched'
  BY <1>1, <1>2, <1>3, DroppedStep
<1>6. Shape' /\ Working'
  BY <1>1, <1>2, <1>4 DEF Inv, Shape, Working
<1> QED BY <1>5, <1>6 DEF Inv

LEMMA VanishKept ==
  ASSUME Inv, NEW q \in Queues, Vanish(q)
  PROVE  Inv'
<1>1. /\ life[q] = "replaced" /\ life' = [life EXCEPT ![q] = "down"]
      /\ UNCHANGED <<row, request, stalled, held, todo, overran>>
  BY DEF Vanish
<1>2. life' \in [Queues -> Lives] /\ life'[q] = "down" /\ \A p \in Queues \ {q} : life'[p] = life[p]
  BY <1>1 DEF Inv, Shape, Lives
<1>3. Owned'
  BY <1>1, <1>2 DEF Inv, Owned, OwnedBy
<1>4. Shape' /\ Working' /\ Matched'
  BY <1>1, <1>2 DEF Inv, Shape, Working, Matched, Matches
<1> QED BY <1>3, <1>4 DEF Inv

-----------------------------------------------------------------------------
(* Actions of processes, time and the command line.                        *)

LEMMA StallsKept ==
  ASSUME Inv, NEW q \in Queues, Stall(q) \/ Wake(q)
  PROVE  Inv'
BY DEF Stall, Wake, Inv, Shape, Working, Owned, OwnedBy, Matched, Matches

LEMMA AskKept ==
  ASSUME Inv, NEW j \in Jobs, NEW kind \in Reasons \ {"none"}, Ask(j, kind)
  PROVE  Inv'
BY DEF Ask, Inv, Shape, Working, Owned, OwnedBy, Matched, Matches

LEMMA LeaseLapsesKept ==
  ASSUME Inv, NEW j \in Jobs, LeaseLapses(j)
  PROVE  Inv'
<1>1. /\ row[j].owner \in stalled \cup {Gone}
      /\ row' = [row EXCEPT ![j].lapsed = TRUE]
      /\ overran' = (overran \/ row[j].owner \in stalled)
      /\ UNCHANGED <<request, life, stalled, held, todo>>
  BY DEF LeaseLapses
<1>2. row[j] \in RowType /\ overran \in BOOLEAN /\ Gone \notin Queues
  BY SqliteQueueConstants DEF Inv, Shape, SqliteQueueConstants
<1>3. /\ row'[j] = [row[j] EXCEPT !.lapsed = TRUE]
      /\ \A i \in Jobs \ {j} : row'[i] = row[i]
      /\ row' \in [Jobs -> RowType]
  <2>1. [row[j] EXCEPT !.lapsed = TRUE] \in RowType
    BY <1>2 DEF RowType
  <2> QED BY <1>1, <2>1 DEF Inv, Shape
<1>4. row'[j].owner = row[j].owner /\ row'[j].status = row[j].status
  BY <1>2, <1>3 DEF RowType
<1>5. Owned'
  BY <1>1, <1>3, <1>4 DEF Inv, Owned, OwnedBy
<1>6. ~overran' => ~overran /\ \A q \in Queues : held[q][j].at = "nowhere"
  <2> SUFFICES ASSUME ~overran'
               PROVE  ~overran /\ \A q \in Queues : ~(held[q][j].at # "nowhere")
    OBVIOUS
  <2>1. ~overran /\ row[j].owner \notin stalled
    BY <1>1
  <2>2. row[j].owner \notin Queues
    BY <2>1, <1>1, <1>2
  <2> QED BY <2>1, <2>2 DEF Inv, Matched, Matches
<1>7. Matched'
  BY <1>1, <1>3, <1>6 DEF Inv, Matched, Matches
<1>8. overran' \in BOOLEAN /\ (overran => overran')
  BY <1>1
<1>9. Shape' /\ Working'
  BY <1>1, <1>3, <1>8 DEF Inv, Shape, Working
<1> QED BY <1>5, <1>7, <1>9 DEF Inv

\* The command line changes rows that are dead, which nobody holds.
LEMMA DeadRowsStep ==
  ASSUME Inv, UNCHANGED <<request, life, stalled, held, todo, overran>>,
         row' \in [Jobs -> RowType],
         \A j \in Jobs : row'[j] # row[j] => row[j].status = "dead" /\ row'[j].owner = Nobody
  PROVE  Inv'
<1>1. Nobody \notin Queues
  BY SqliteQueueConstants DEF SqliteQueueConstants
<1>2. Owned'
  <2> SUFFICES ASSUME NEW j \in Jobs, row'[j].owner \in Queues
               PROVE  row'[j].status \in Active /\ OwnedBy(row[j].owner, j)'
    BY DEF Owned
  <2>1. row'[j] = row[j]
    BY <1>1
  <2> QED BY <2>1 DEF Inv, Owned, OwnedBy
<1>3. ~overran => \A q \in Queues, j \in Jobs : held[q][j].at # "nowhere" => row[j].status # "dead"
  <2> SUFFICES ASSUME ~overran, NEW q \in Queues, NEW j \in Jobs, held[q][j].at # "nowhere"
               PROVE  row[j].status # "dead"
    OBVIOUS
  <2>1. held[q][j] \in JobType /\ Matches(q, j)
    BY DEF Inv, Shape, Matched
  <2> QED BY <2>1 DEF JobType, Matches, Active
<1>4. Matched'
  <2> SUFFICES ASSUME ~overran, NEW q \in Queues, NEW j \in Jobs, held[q][j].at # "nowhere"
               PROVE  Matches(q, j)'
    BY DEF Matched
  <2>1. row'[j] = row[j] /\ Matches(q, j)
    BY <1>3 DEF Inv, Matched
  <2> QED BY <2>1 DEF Matches
<1> QED BY <1>2, <1>4 DEF Inv, Shape, Working

LEMMA CommandLineKept ==
  ASSUME Inv, ClearDlq \/ \E j \in Jobs : Requeue(j)
  PROVE  Inv'
<1>1. NoRow \in RowType /\ NoRow.owner = Nobody
  BY DEF NoRow, RowType, Statuses
<1>2. CASE ClearDlq
  <2>1. /\ UNCHANGED <<request, life, stalled, held, todo, overran>>
        /\ row' = [j \in Jobs |-> IF row[j].status = "dead" THEN NoRow ELSE row[j]]
    BY <1>2 DEF ClearDlq
  <2>2. /\ row' \in [Jobs -> RowType]
        /\ \A j \in Jobs : row'[j] # row[j] => row[j].status = "dead" /\ row'[j].owner = Nobody
    BY <2>1, <1>1 DEF Inv, Shape
  <2> QED BY <2>1, <2>2, DeadRowsStep
<1>3. ASSUME NEW j \in Jobs, Requeue(j) PROVE Inv'
  <2> DEFINE r == [NoRow EXCEPT !.status = "pending"]
  <2>1. /\ UNCHANGED <<request, life, stalled, held, todo, overran>>
        /\ row' = [row EXCEPT ![j] = r] /\ row[j].status = "dead"
    BY <1>3 DEF Requeue
  <2>2. r \in RowType /\ r.owner = Nobody
    BY <1>1 DEF RowType, Statuses, Active
  <2> HIDE DEF r
  <2>3. /\ row' \in [Jobs -> RowType]
        /\ \A i \in Jobs : row'[i] # row[i] => row[i].status = "dead" /\ row'[i].owner = Nobody
    BY <2>1, <2>2 DEF Inv, Shape
  <2> QED BY <2>1, <2>3, DeadRowsStep
<1> QED BY <1>2, <1>3

-----------------------------------------------------------------------------
(* The theorems.                                                           *)

LEMMA InitInv == Init => Inv
<1> SUFFICES ASSUME Init PROVE Inv
  OBVIOUS
<1>1. NoRow \in RowType /\ NoRow.owner = Nobody /\ Nobody \notin Queues
  BY SqliteQueueConstants DEF NoRow, RowType, Statuses, SqliteQueueConstants
<1>2. Shape
  <2>1. row \in [Jobs -> RowType] /\ held \in [Queues -> [Jobs -> JobType]]
    BY <1>1, NotHeldType DEF Init
  <2>2. /\ life \in [Queues -> Lives] /\ stalled \subseteq Queues
        /\ todo \in [Queues -> SUBSET FoundType]
        /\ request \in [Jobs -> Reasons] /\ overran \in BOOLEAN
    BY DEF Init, Lives, Reasons
  <2> QED BY <2>1, <2>2 DEF Shape
<1>3. Working
  BY DEF Init, Working
<1>4. Owned
  BY <1>1 DEF Init, Owned
<1>5. Matched
  BY NotHeldType DEF Init, Matched
<1> QED BY <1>2, <1>3, <1>4, <1>5 DEF Inv

LEMMA Step == Inv /\ [Next]_vars => Inv'
<1> SUFFICES ASSUME Inv, [Next]_vars PROVE Inv'
  OBVIOUS
<1>1. ASSUME NEW q \in Queues, NEW local \in BOOLEAN, Open(q, local) PROVE Inv'
  BY <1>1, OpenKept
<1>2. ASSUME NEW q \in Queues, NEW local \in BOOLEAN, NEW old \in SUBSET Jobs, Poll(q, local, old)
      PROVE  Inv'
  BY <1>2, PollKept
<1>3. ASSUME NEW q \in Queues, NEW f \in todo[q], Restore(q, f) PROVE Inv'
  BY <1>3, RestoreKept
<1>4. ASSUME NEW q \in Queues, Shutdown(q) PROVE Inv'
  BY <1>4, ShutdownKept
<1>5. ASSUME NEW q \in Queues, InterruptStragglers(q) PROVE Inv'
  BY <1>5, InterruptStragglersKept
<1>6. ASSUME NEW q \in Queues, Close(q) PROVE Inv'
  BY <1>6, CloseKept
<1>7. ASSUME NEW q \in Queues, Replace(q) PROVE Inv'
  BY <1>7, ReplaceKept
<1>8. ASSUME NEW q \in Queues, Vanish(q) PROVE Inv'
  BY <1>8, VanishKept
<1>9. ASSUME NEW q \in Queues, Crash(q) PROVE Inv'
  BY <1>9, CrashKept
<1>10. ASSUME NEW q \in Queues, Stall(q) \/ Wake(q) PROVE Inv'
  BY <1>10, StallsKept
<1>11. ASSUME NEW q \in Queues, NEW j \in Jobs, Enqueue(q, j) PROVE Inv'
  BY <1>11, EnqueueKept
<1>12. ASSUME NEW q \in Queues, NEW j \in Jobs, Start(q, j) PROVE Inv'
  BY <1>12, StartKept
<1>13. ASSUME NEW q \in Queues, NEW j \in Jobs, Accept(q, j) PROVE Inv'
  BY <1>13, AcceptKept
<1>14. ASSUME NEW q \in Queues, NEW j \in Jobs, SendEnds(q, j) PROVE Inv'
  BY <1>14, SendEndsKept
<1>15. ASSUME NEW q \in Queues, NEW j \in Jobs, Promote(q, j) PROVE Inv'
  BY <1>15, PromoteKept
<1>16. ASSUME NEW j \in Jobs, LeaseLapses(j) PROVE Inv'
  BY <1>16, LeaseLapsesKept
<1>17. ASSUME NEW j \in Jobs, NEW kind \in Reasons \ {"none"}, Ask(j, kind) PROVE Inv'
  BY <1>17, AskKept
<1>18. CASE ClearDlq \/ \E j \in Jobs : Requeue(j)
  BY <1>18, CommandLineKept
<1>19. CASE UNCHANGED vars
  BY <1>19 DEF vars, Inv, Shape, Working, Owned, OwnedBy, Matched, Matches
<1> HIDE DEF Inv
<1> QED
  BY <1>1, <1>2, <1>3, <1>4, <1>5, <1>6, <1>7, <1>8, <1>9, <1>10, <1>11, <1>12, <1>13, <1>14,
     <1>15, <1>16, <1>17, <1>18, <1>19 DEF Next

LEMMA InvAlways == Spec => []Inv
BY InitInv, Step, PTL DEF Spec

\* No queue ever owns, and renews for ever the lease of, a row whose job it
\* does not hold: through stalls, lapsed leases, stolen rows, cancelled and
\* cleared ones and replaced queues, close() and updateStatus() give up every
\* row that leaves a queue's memory.
THEOREM NoRowForgotten == Spec => []OwnedRowsHeld
<1>1. Inv => OwnedRowsHeld
  BY DEF Inv, Owned, OwnedBy, OwnedRowsHeld
<1> QED BY <1>1, InvAlways, PTL

\* As long as no queue outlives its leases, the rows of the table are an exact
\* image of the jobs in memory after every call, callback, poll and crash.
THEOREM TableMatchesMemory == Spec => []MemoryMatchesRow
<1>1. Inv => MemoryMatchesRow
  <2> SUFFICES ASSUME Inv, ~overran, NEW q \in Queues, NEW j \in Jobs, held[q][j].at # "nowhere"
               PROVE  row[j] = [status |-> held[q][j].at, attempts |-> held[q][j].attempts,
                                owner |-> q, lapsed |-> FALSE]
    BY DEF MemoryMatchesRow
  <2>1. Matches(q, j) /\ row[j] \in RowType
    BY DEF Inv, Matched, Shape
  <2>2. row[j] = [status |-> row[j].status, attempts |-> row[j].attempts,
                  owner |-> row[j].owner, lapsed |-> row[j].lapsed]
    BY <2>1 DEF RowType
  <2> QED BY <2>1, <2>2 DEF Matches
<1> QED BY <1>1, InvAlways, PTL

\* As long as no queue outlives its leases, one queue at most holds a job,
\* however many queues share the database and whatever runs between a SELECT
\* and its claims: it is the owner of the job's row.
THEOREM OneHolderAlways == Spec => []OneHolder
<1>1. Inv => OneHolder
  <2> SUFFICES ASSUME Inv, ~overran, NEW j \in Jobs
               PROVE  Cardinality({q \in Queues : held[q][j].at # "nowhere"}) <= 1
    BY DEF OneHolder
  <2> DEFINE holders == {q \in Queues : held[q][j].at # "nowhere"}
  <2>1. \A p \in holders : p = row[j].owner
    BY DEF Inv, Matched, Matches
  <2> HIDE DEF holders
  <2>2. holders = {} \/ holders = {row[j].owner}
    BY <2>1
  <2>3. Cardinality(holders) = 0 \/ Cardinality(holders) = 1
    BY <2>2, FS_EmptySet, FS_Singleton
  <2>4. Cardinality(holders) <= 1
    BY <2>3
  <2> QED BY <2>4 DEF holders
<1> QED BY <1>1, InvAlways, PTL

-----------------------------------------------------------------------------
(* Attempts, deliveries and last statuses: the invariant.                  *)

\* A queue that runs works on the row r, which may be an attempt ahead.
Worked(r, l, s) == r.owner \in Queues \ s /\ l[r.owner] = "open" /\ ~r.lapsed

\* With m mishaps so far: a row or a job that waits has an attempt left.
RowCounted(r, l, s, m) ==
  /\ r.attempts \in Nat /\ r.attempts <= MaxRetries + 1 + m
  /\ r.status \in Active /\ (r.status = "running" => ~Worked(r, l, s)) =>
       r.attempts <= MaxRetries + m

JobCounted(h, m) ==
  /\ h.attempts \in Nat
  /\ h.at = "running" => h.attempts > 0 /\ h.attempts <= MaxRetries + 1 + m
  /\ h.at # "running" => h.attempts <= MaxRetries + m /\ ~h.sent

Counted ==
  /\ mishaps \in 0..MaxMishaps /\ delivered \in [Jobs -> 0..2]
  /\ \A j \in Jobs : RowCounted(row[j], life, stalled, mishaps)
  /\ \A q \in Queues, j \in Jobs : JobCounted(held[q][j], mishaps)
  /\ \A q \in Queues : \A f \in todo[q] : f.attempts \in Nat /\ f.attempts <= MaxRetries + mishaps

\* Where nothing happens, nothing is restored, and a message that may still be sent
\* has not been delivered.
Unsent(j) == \/ row[j].status = "absent"
             \/ row[j].owner \in Queues /\ ~held[row[j].owner][j].sent
Calm ==
  mishaps = 0 =>
    /\ stalled = {} /\ ~overran
    /\ \A q \in Queues : life[q] \in {"down", "open"} /\ todo[q] = {}
    /\ \A j \in Jobs : request[j] = "none"
    /\ \A q \in Queues, j \in Jobs : held[q][j].reason = "none"
    /\ \A j \in Jobs : /\ row[j].status \in Active => row[j].owner \in Queues /\ ~row[j].lapsed
                       /\ delivered[j] <= 1
                       /\ Unsent(j) => delivered[j] = 0

\* A row that is decided has no owner.
Free(r) == r.owner # Nobody => r.status \in Active

Policy == Counted /\ Calm /\ \A j \in Jobs : Free(row[j])

\* What may become of a row r that is decided.
Settles(r, r2) ==
  /\ r.status \in {"success", "cancelled"} => r2 = r
  /\ r.status = "dead" => r2 \in {r, NoRow, [NoRow EXCEPT !.status = "pending"]}

\* The step keeps the invariant, and what is decided.
PolicyStep ==
  /\ Policy'
  /\ ~overran' => \A j \in Jobs : Settles(row[j], row'[j])

LEMMA BoundTypes ==
  ASSUME Counted
  PROVE  MaxRetries \in Nat /\ MaxMishaps \in Nat /\ mishaps \in Nat
BY SqliteQueueConstants DEF Counted, SqliteQueueConstants

LEMMA UndecidedSettles ==
  ASSUME NEW r, NEW r2, r2 = r \/ r.status \in Active \cup {"absent"}
  PROVE  Settles(r, r2)
BY DEF Settles, Active

\* A mishap adds to what each job may have.
LEMMA MishapStep ==
  ASSUME Counted, \E kind \in Mishaps : Mishap(kind), delivered' = delivered,
         \A j \in Jobs : /\ row'[j].attempts \in Nat
                         /\ row'[j].attempts <= MaxRetries + 1 + mishaps
                         /\ Free(row'[j]),
         \A q \in Queues, j \in Jobs : JobCounted(held'[q][j], mishaps),
         \A q \in Queues : todo'[q] \subseteq todo[q],
         ~overran' => \A j \in Jobs : Settles(row[j], row'[j])
  PROVE  PolicyStep
<1>1. mishaps' = mishaps + 1 /\ mishaps < MaxMishaps
  BY DEF Mishap
<1>2. MaxRetries \in Nat /\ MaxMishaps \in Nat /\ mishaps \in Nat
  BY BoundTypes
<1>3. \A j \in Jobs : RowCounted(row'[j], life', stalled', mishaps')
  BY <1>1, <1>2 DEF RowCounted
<1>4. \A q \in Queues, j \in Jobs : JobCounted(held'[q][j], mishaps')
  <2> SUFFICES ASSUME NEW q \in Queues, NEW j \in Jobs, NEW h, JobCounted(h, mishaps)
               PROVE  JobCounted(h, mishaps')
    OBVIOUS
  <2> QED BY <1>1, <1>2 DEF JobCounted
<1>5. \A q \in Queues : \A f \in todo'[q] : f.attempts \in Nat /\ f.attempts <= MaxRetries + mishaps'
  <2> SUFFICES ASSUME NEW q \in Queues, NEW f \in todo'[q]
               PROVE  f.attempts \in Nat /\ f.attempts <= MaxRetries + mishaps'
    OBVIOUS
  <2>1. f.attempts \in Nat /\ f.attempts <= MaxRetries + mishaps
    BY DEF Counted
  <2> QED BY <2>1, <1>1, <1>2
<1>6. mishaps' \in 0..MaxMishaps /\ mishaps' # 0
  BY <1>1, <1>2
<1>7. Counted'
  BY <1>3, <1>4, <1>5, <1>6 DEF Counted
<1>8. Calm'
  BY <1>6 DEF Calm
<1> QED BY <1>7, <1>8 DEF PolicyStep, Policy

\* Where a mishap has happened, a step without one has only attempts to answer for.
LEMMA LaterStep ==
  ASSUME Counted, mishaps # 0, UNCHANGED <<mishaps, delivered>>,
         \A j \in Jobs : RowCounted(row'[j], life', stalled', mishaps) /\ Free(row'[j]),
         \A q \in Queues, j \in Jobs : JobCounted(held'[q][j], mishaps),
         \A q \in Queues : todo'[q] \subseteq todo[q],
         ~overran' => \A j \in Jobs : Settles(row[j], row'[j])
  PROVE  PolicyStep
<1>1. Counted'
  BY DEF Counted
<1>2. Calm'
  BY DEF Calm
<1> QED BY <1>1, <1>2 DEF PolicyStep, Policy

\* A row that goes on as it was, with a lease that is no worse.
LEMMA RowKept ==
  ASSUME NEW r, NEW r2, NEW l, NEW l2, NEW s, NEW s2, NEW m, RowCounted(r, l, s, m),
         r2.attempts = r.attempts, r2.status = r.status,
         Worked(r, l, s) => Worked(r2, l2, s2)
  PROVE  RowCounted(r2, l2, s2, m)
BY DEF RowCounted

-----------------------------------------------------------------------------
(* The steps of one job.                                                   *)

\* What is asked of the job and its row where nothing has happened.
CalmJob(q, h, r, n) ==
  /\ h.reason = "none"
  /\ r.owner \in Queues => r.owner = q
  /\ r.status \in Active => r.owner = q /\ ~r.lapsed
  /\ n <= 1
  /\ r.status = "absent" \/ (r.owner = q /\ ~h.sent) => n = 0

LEMMA OneJobStep ==
  ASSUME Inv, Policy, NEW q \in Queues, NEW j \in Jobs, NEW h, NEW r,
         held' = [held EXCEPT ![q][j] = h], row' = [row EXCEPT ![j] = r],
         UNCHANGED <<request, life, stalled, mishaps, overran>>,
         \A p \in Queues : todo'[p] \subseteq todo[p],
         delivered' \in [Jobs -> 0..2],
         \A i \in Jobs \ {j} : delivered'[i] = delivered[i],
         RowCounted(r, life, stalled, mishaps), JobCounted(h, mishaps), Free(r),
         ~overran => r = row[j] \/ row[j].status \in Active \cup {"absent"},
         mishaps = 0 => CalmJob(q, h, r, delivered'[j])
  PROVE  PolicyStep
<1>1. /\ row \in [Jobs -> RowType] /\ held \in [Queues -> [Jobs -> JobType]]
  BY DEF Inv, Shape
<1>2. /\ row'[j] = r /\ \A i \in Jobs \ {j} : row'[i] = row[i]
      /\ held'[q][j] = h
      /\ \A p \in Queues, i \in Jobs : ~(p = q /\ i = j) => held'[p][i] = held[p][i]
  BY <1>1
<1>3. Counted'
  <2>1. \A i \in Jobs : RowCounted(row'[i], life, stalled, mishaps)
    BY <1>2 DEF Policy, Counted
  <2>2. \A p \in Queues, i \in Jobs : JobCounted(held'[p][i], mishaps)
    <3> SUFFICES ASSUME NEW p \in Queues, NEW i \in Jobs PROVE JobCounted(held'[p][i], mishaps)
      OBVIOUS
    <3>1. JobCounted(held[p][i], mishaps)
      BY DEF Policy, Counted
    <3> QED BY <1>2, <3>1
  <2> QED BY <2>1, <2>2 DEF Policy, Counted
<1>4. \A i \in Jobs : Free(row'[i])
  BY <1>2 DEF Policy
<1>5. Calm'
  <2> SUFFICES ASSUME mishaps = 0 PROVE Calm'
    BY DEF Calm
  <2>1. /\ stalled' = {} /\ ~overran'
        /\ \A p \in Queues : life'[p] \in {"down", "open"} /\ todo'[p] = {}
        /\ \A i \in Jobs : request'[i] = "none"
    BY DEF Policy, Calm
  <2>2. \A p \in Queues, i \in Jobs : held'[p][i].reason = "none"
    <3> SUFFICES ASSUME NEW p \in Queues, NEW i \in Jobs PROVE held'[p][i].reason = "none"
      OBVIOUS
    <3>1. held[p][i].reason = "none" /\ h.reason = "none"
      BY DEF Policy, Calm, CalmJob
    <3> QED BY <1>2, <3>1
  <2>3. ASSUME NEW i \in Jobs
        PROVE  /\ row'[i].status \in Active => row'[i].owner \in Queues /\ ~row'[i].lapsed
               /\ delivered'[i] <= 1
               /\ Unsent(i)' => delivered'[i] = 0
    <3>1. CASE i = j
      BY <1>2, <3>1 DEF CalmJob, Unsent
    <3>2. CASE i # j
      <4>1. row'[i] = row[i] /\ delivered'[i] = delivered[i]
        BY <1>2, <3>2
      <4>2. \A p \in Queues : held'[p][i] = held[p][i]
        BY <1>2, <3>2
      <4>3. Unsent(i)' => Unsent(i)
        BY <4>1, <4>2 DEF Unsent
      <4> QED BY <4>1, <4>3 DEF Policy, Calm
    <3> QED BY <3>1, <3>2
  <2> QED BY <2>1, <2>2, <2>3 DEF Calm
<1>6. ~overran' => \A i \in Jobs : Settles(row[i], row'[i])
  <2> SUFFICES ASSUME ~overran, NEW i \in Jobs PROVE Settles(row[i], row'[i])
    OBVIOUS
  <2>1. row'[i] = row[i] \/ row[i].status \in Active \cup {"absent"}
    BY <1>2
  <2> QED BY <2>1, UndecidedSettles
<1> QED BY <1>3, <1>4, <1>5, <1>6 DEF PolicyStep, Policy
\* What updateStatus() leaves of a row; the status s is one that is saved.
LEMMA SavedRow ==
  ASSUME Inv, Policy, NEW q \in Queues, NEW j \in Jobs, NEW r,
         NEW s \in Statuses \ {"absent"}, NEW n \in Nat,
         life[q] # "down", held[q][j].at # "nowhere",
         n <= MaxRetries + 1 + mishaps,
         s \in Active => \/ n <= MaxRetries + mishaps
                         \/ s = "running" /\ life[q] \in {"open", "replaced"} /\ q \notin stalled,
         r = Saved(q, j, s, n)
  PROVE  /\ RowCounted(r, life, stalled, mishaps) /\ Free(r)
         /\ ~overran => row[j].status \in Active
         /\ mishaps = 0 => /\ row[j].owner = q /\ r.status = s /\ ~r.lapsed
                           /\ r.owner = IF s \in Active THEN q ELSE Nobody
<1>1. row[j] \in RowType /\ held[q][j].at \in Active
  BY DEF Inv, Shape, JobType
<1>2. ~overran => row[j].owner = q /\ row[j].status \in Active /\ life[q] # "replaced"
  BY <1>1 DEF Inv, Working, Matched, Matches
<1>3. mishaps = 0 => ~overran
  BY DEF Policy, Calm
<1>4. RowCounted(row[j], life, stalled, mishaps) /\ Free(row[j])
  BY DEF Policy, Counted
<1>5. Nobody \notin Queues
  BY SqliteQueueConstants DEF SqliteQueueConstants
<1>6. CASE life[q] = "replaced" \/ row[j].status = "absent"
  <2>1. r = row[j]
    BY <1>6 DEF Saved, Updated
  <2>2. overran
    BY <1>2, <1>6 DEF Active
  <2> QED BY <2>1, <2>2, <1>3, <1>4
<1>7. CASE life[q] # "replaced" /\ row[j].status # "absent"
  <2>1. /\ r.status = s /\ r.attempts = n /\ ~r.lapsed
        /\ r.owner = IF s \in Active THEN q ELSE Nobody
    BY <1>1, <1>7 DEF Saved, Updated, RowType
  <2>2. s = "running" /\ life[q] \in {"open", "replaced"} /\ q \notin stalled
          => Worked(r, life, stalled)
    BY <2>1, <1>7 DEF Worked, Active
  <2>3. RowCounted(r, life, stalled, mishaps)
    BY <2>1, <2>2 DEF RowCounted
  <2>4. Free(r)
    BY <2>1, <1>5 DEF Free
  <2> QED BY <2>1, <2>3, <2>4, <1>2, <1>3
<1> QED BY <1>6, <1>7

\* Queue q saves what has become of its job.
LEMMA SavedPolicy ==
  ASSUME Inv, Policy, NEW q \in Queues, NEW j \in Jobs, NEW h,
         NEW s \in Statuses \ {"absent"}, NEW n \in Nat,
         life[q] # "down", held[q][j].at # "nowhere",
         n <= MaxRetries + 1 + mishaps,
         s \in Active => \/ n <= MaxRetries + mishaps
                         \/ s = "running" /\ life[q] \in {"open", "replaced"} /\ q \notin stalled,
         held' = [held EXCEPT ![q][j] = h], row' = [row EXCEPT ![j] = Saved(q, j, s, n)],
         UNCHANGED <<request, life, stalled, todo, delivered, mishaps, overran>>,
         JobCounted(h, mishaps),
         mishaps = 0 => h.reason = "none" /\ (s \in Active => ~held[q][j].sent)
  PROVE  PolicyStep
<1> DEFINE r == Saved(q, j, s, n)
<1>1. row' = [row EXCEPT ![j] = r]
  OBVIOUS
<1>2. /\ RowCounted(r, life, stalled, mishaps) /\ Free(r)
      /\ ~overran => row[j].status \in Active
      /\ mishaps = 0 => /\ row[j].owner = q /\ r.status = s /\ ~r.lapsed
                        /\ r.owner = IF s \in Active THEN q ELSE Nobody
  BY SavedRow
<1> HIDE DEF r
<1>3. Nobody \notin Queues
  BY SqliteQueueConstants DEF SqliteQueueConstants
<1>4. mishaps = 0 => CalmJob(q, h, r, delivered'[j])
  <2> SUFFICES ASSUME mishaps = 0 PROVE CalmJob(q, h, r, delivered[j])
    OBVIOUS
  <2>1. delivered[j] <= 1 /\ (Unsent(j) => delivered[j] = 0)
    BY DEF Policy, Calm
  <2>2. s \in Active => delivered[j] = 0
    BY <2>1, <1>2 DEF Unsent
  <2> QED BY <2>1, <2>2, <1>2, <1>3 DEF CalmJob
<1>5. delivered' \in [Jobs -> 0..2] /\ \A p \in Queues : todo'[p] \subseteq todo[p]
  BY DEF Policy, Counted
<1>6. ~overran => r = row[j] \/ row[j].status \in Active \cup {"absent"}
  BY <1>2
<1> HIDE DEF Inv, Policy
<1> QED BY <1>1, <1>2, <1>4, <1>5, <1>6, OneJobStep

\* A job as it waits or starts.
LEMMA WaitingCounted ==
  ASSUME NEW a \in Active, NEW n \in Nat, NEW m \in Nat,
         IF a = "running" THEN n > 0 /\ n <= MaxRetries + 1 + m ELSE n <= MaxRetries + m
  PROVE  JobCounted(Waiting(a, n), m) /\ Waiting(a, n).reason = "none" /\ ~Waiting(a, n).sent
BY DEF JobCounted, Waiting, NotHeld

LEMMA NotHeldCounted ==
  ASSUME NEW m \in Nat
  PROVE  JobCounted(NotHeld, m) /\ NotHeld.reason = "none"
BY SqliteQueueConstants DEF JobCounted, NotHeld, SqliteQueueConstants

LEMMA StartPolicy ==
  ASSUME Inv, Policy, NEW q \in Queues, NEW j \in Jobs, Start(q, j)
  PROVE  PolicyStep
<1> DEFINE n == held[q][j].attempts + 1
           h == Waiting("running", n)
<1>1. /\ MaxRetries \in Nat /\ mishaps \in Nat
      /\ JobCounted(held[q][j], mishaps)
  BY BoundTypes DEF Policy, Counted
<1>2. /\ life[q] \in {"open", "replaced"} /\ q \notin stalled /\ held[q][j].at = "pending"
      /\ held' = [held EXCEPT ![q][j] = h]
      /\ row' = [row EXCEPT ![j] = Saved(q, j, "running", n)]
      /\ UNCHANGED <<request, life, stalled, todo, delivered, mishaps, overran>>
  BY DEF Start
<1>3. n \in Nat /\ n > 0 /\ n <= MaxRetries + 1 + mishaps /\ ~held[q][j].sent
  BY <1>1, <1>2 DEF JobCounted
<1>4. "running" \in Active /\ "running" \in Statuses \ {"absent"}
  BY DEF Active, Statuses
<1> HIDE DEF n
<1>5. JobCounted(h, mishaps) /\ h.reason = "none"
  BY <1>1, <1>3, <1>4, WaitingCounted
<1> HIDE DEF h, Inv, Policy
<1> QED BY <1>2, <1>3, <1>4, <1>5, SavedPolicy

LEMMA WaitAgainPolicy ==
  ASSUME Inv, Policy, NEW q \in Queues, NEW j \in Jobs,
         NEW a \in {"pending", "scheduled"}, NEW n \in Nat, n <= MaxRetries + mishaps,
         life[q] # "down", held[q][j].at # "nowhere",
         mishaps = 0 => ~held[q][j].sent,
         WaitAgain(q, j, a, n), UNCHANGED <<request, life, stalled, todo, delivered, mishaps, overran>>
  PROVE  PolicyStep
<1> DEFINE h == Waiting(a, n)
<1>1. MaxRetries \in Nat /\ mishaps \in Nat
  BY BoundTypes DEF Policy
<1>2. n <= MaxRetries + 1 + mishaps
  BY <1>1
<1>3. a \in Active /\ a \in Statuses \ {"absent"} /\ a # "running"
  BY DEF Active, Statuses
<1>4. JobCounted(h, mishaps) /\ h.reason = "none"
  BY <1>1, <1>3, WaitingCounted
<1>5. held' = [held EXCEPT ![q][j] = h] /\ row' = [row EXCEPT ![j] = Saved(q, j, a, n)]
  BY DEF WaitAgain
<1> HIDE DEF h, Inv, Policy
<1> QED BY <1>2, <1>3, <1>4, <1>5, SavedPolicy

LEMMA FinishPolicy ==
  ASSUME Inv, Policy, NEW q \in Queues, NEW j \in Jobs, NEW s \in {"success", "dead", "cancelled"},
         life[q] # "down", held[q][j].at # "nowhere",
         Finish(q, j, s), UNCHANGED <<request, life, stalled, todo, delivered, mishaps, overran>>
  PROVE  PolicyStep
<1> DEFINE n == held[q][j].attempts
<1>1. MaxRetries \in Nat /\ mishaps \in Nat /\ JobCounted(held[q][j], mishaps)
  BY BoundTypes DEF Policy, Counted
<1>2. n \in Nat /\ n <= MaxRetries + 1 + mishaps
  BY <1>1 DEF JobCounted
<1>3. s \notin Active /\ s \in Statuses \ {"absent"}
  BY DEF Active, Statuses
<1>4. JobCounted(NotHeld, mishaps) /\ NotHeld.reason = "none"
  BY <1>1, NotHeldCounted
<1>5. held' = [held EXCEPT ![q][j] = NotHeld] /\ row' = [row EXCEPT ![j] = Saved(q, j, s, n)]
  BY DEF Finish
<1> HIDE DEF n, Inv, Policy
<1> QED BY <1>2, <1>3, <1>4, <1>5, SavedPolicy

LEMMA SendEndsPolicy ==
  ASSUME Inv, Policy, NEW q \in Queues, NEW j \in Jobs, SendEnds(q, j)
  PROVE  PolicyStep
<1> DEFINE h == held[q][j]
<1>1. MaxRetries \in Nat /\ mishaps \in Nat /\ JobCounted(h, mishaps)
  BY BoundTypes DEF Policy, Counted
<1>2. /\ life[q] # "down" /\ h.at = "running"
      /\ UNCHANGED <<request, life, stalled, todo, delivered, mishaps, overran>>
  BY DEF SendEnds, Ready
<1>3. mishaps = 0 => h.reason = "none"
  BY DEF Policy, Calm
<1>4. h.attempts \in Nat /\ h.attempts > 0 /\ h.attempts <= MaxRetries + 1 + mishaps
  BY <1>1, <1>2 DEF JobCounted
<1>5. \/ Finish(q, j, "cancelled") \/ Finish(q, j, "success") \/ Finish(q, j, "dead")
      \/ h.reason = "interrupt" /\ WaitAgain(q, j, "pending", h.attempts - 1)
      \/ /\ WaitAgain(q, j, "scheduled", h.attempts) /\ MayRetry(h)
         /\ ~(h.reason = "none" /\ h.sent)
  BY DEF SendEnds
<1>6. CASE Finish(q, j, "cancelled") \/ Finish(q, j, "success") \/ Finish(q, j, "dead")
  <2> HIDE DEF Inv, Policy
  <2> QED BY <1>2, <1>6, FinishPolicy
<1>7. CASE h.reason = "interrupt" /\ WaitAgain(q, j, "pending", h.attempts - 1)
  <2>1. h.attempts - 1 \in Nat /\ h.attempts - 1 <= MaxRetries + mishaps
    BY <1>1, <1>4
  <2>2. mishaps # 0
    BY <1>3, <1>7
  <2> HIDE DEF Inv, Policy
  <2> QED BY <2>1, <2>2, <1>2, <1>7, WaitAgainPolicy
<1>8. CASE /\ WaitAgain(q, j, "scheduled", h.attempts) /\ MayRetry(h)
           /\ ~(h.reason = "none" /\ h.sent)
  <2>1. h.attempts <= MaxRetries + mishaps
    BY <1>1, <1>4, <1>8 DEF MayRetry
  <2>2. mishaps = 0 => ~h.sent
    BY <1>3, <1>8
  <2> HIDE DEF Inv, Policy
  <2> QED BY <2>1, <2>2, <1>2, <1>4, <1>8, WaitAgainPolicy
<1> QED BY <1>5, <1>6, <1>7, <1>8

LEMMA PromotePolicy ==
  ASSUME Inv, Policy, NEW q \in Queues, NEW j \in Jobs, Promote(q, j)
  PROVE  PolicyStep
<1> DEFINE h == held[q][j]
<1>1. JobCounted(h, mishaps)
  BY DEF Policy, Counted
<1>2. /\ life[q] # "down" /\ h.at = "scheduled" /\ WaitAgain(q, j, "pending", h.attempts)
      /\ UNCHANGED <<request, life, stalled, todo, delivered, mishaps, overran>>
  BY DEF Promote, Ready
<1>3. h.attempts \in Nat /\ h.attempts <= MaxRetries + mishaps /\ ~h.sent
  BY <1>1, <1>2 DEF JobCounted
<1> HIDE DEF Inv, Policy
<1> QED BY <1>2, <1>3, WaitAgainPolicy

LEMMA EnqueuePolicy ==
  ASSUME Inv, Policy, NEW q \in Queues, NEW j \in Jobs, Enqueue(q, j)
  PROVE  PolicyStep
<1>1. PICK at \in {"pending", "scheduled"} :
        /\ row' = [row EXCEPT ![j] = [NoRow EXCEPT !.status = at, !.owner = q]]
        /\ held' = [held EXCEPT ![q][j] = Waiting(at, 0)]
  BY DEF Enqueue
<1> DEFINE h == Waiting(at, 0)
           r == [NoRow EXCEPT !.status = at, !.owner = q]
<1>2. /\ row[j].status = "absent"
      /\ UNCHANGED <<request, life, stalled, todo, delivered, mishaps, overran>>
  BY DEF Enqueue
<1>3. MaxRetries \in Nat /\ mishaps \in Nat
  BY BoundTypes DEF Policy
<1>4. JobCounted(h, mishaps) /\ h.reason = "none"
  BY <1>3, WaitingCounted DEF Active
<1>5. r.status = at /\ r.attempts = 0 /\ ~r.lapsed /\ r.owner = q
  BY DEF NoRow
<1>6. held' = [held EXCEPT ![q][j] = h] /\ row' = [row EXCEPT ![j] = r]
  BY <1>1
<1> HIDE DEF h, r
<1>7. RowCounted(r, life, stalled, mishaps) /\ Free(r)
  BY <1>3, <1>5 DEF RowCounted, Free, Active
<1>8. delivered' \in [Jobs -> 0..2] /\ \A p \in Queues : todo'[p] \subseteq todo[p]
  BY <1>2 DEF Policy, Counted
<1>9. mishaps = 0 => CalmJob(q, h, r, delivered'[j])
  <2>1. mishaps = 0 => delivered[j] = 0
    BY <1>2 DEF Policy, Calm, Unsent
  <2> QED BY <2>1, <1>2, <1>4, <1>5 DEF CalmJob
<1> HIDE DEF Inv, Policy
<1> QED BY <1>2, <1>4, <1>6, <1>7, <1>8, <1>9, OneJobStep

LEMMA AcceptPolicy ==
  ASSUME Inv, Policy, NEW q \in Queues, NEW j \in Jobs, Accept(q, j)
  PROVE  PolicyStep
<1> DEFINE h == [held[q][j] EXCEPT !.sent = TRUE]
           r == row[j]
<1>1. r \in RowType /\ held[q][j] \in JobType
  BY DEF Inv, Shape
<1>2. held[q][j].at = "running" /\ ~held[q][j].sent
      /\ UNCHANGED <<row, request, life, stalled, todo, mishaps, overran>>
      /\ delivered' = [delivered EXCEPT ![j] = IF delivered[j] < 2 THEN delivered[j] + 1 ELSE delivered[j]]
  BY DEF Accept
<1>3. /\ h.at = "running" /\ h.attempts = held[q][j].attempts
      /\ h.reason = held[q][j].reason /\ h.sent
  BY <1>1, <1>2 DEF JobType
<1>4. held' = [held EXCEPT ![q][j] = h] /\ row' = [row EXCEPT ![j] = r]
  BY <1>2 DEF Accept, Inv, Shape
<1>5. RowCounted(r, life, stalled, mishaps) /\ Free(r) /\ JobCounted(held[q][j], mishaps)
  BY DEF Policy, Counted
<1>6. JobCounted(h, mishaps)
  BY <1>2, <1>3, <1>5 DEF JobCounted
<1>7. delivered \in [Jobs -> 0..2]
  BY DEF Policy, Counted
<1>8. delivered' \in [Jobs -> 0..2] /\ (\A i \in Jobs \ {j} : delivered'[i] = delivered[i])
      /\ (delivered[j] = 0 => delivered'[j] = 1)
  <2>1. (IF delivered[j] < 2 THEN delivered[j] + 1 ELSE delivered[j]) \in 0..2
    BY <1>7
  <2> QED BY <2>1, <1>2, <1>7
<1>9. mishaps = 0 => CalmJob(q, h, r, delivered'[j])
  <2> SUFFICES ASSUME mishaps = 0 PROVE CalmJob(q, h, r, delivered'[j])
    OBVIOUS
  <2>1. /\ ~overran /\ held[q][j].reason = "none"
        /\ r.status \in Active => ~r.lapsed
        /\ Unsent(j) => delivered[j] = 0
    BY DEF Policy, Calm
  <2>2. r.owner = q /\ r.status = "running"
    BY <2>1, <1>2 DEF Inv, Matched, Matches
  <2>3. delivered'[j] = 1
    BY <2>1, <2>2, <1>2, <1>8 DEF Unsent
  <2> QED BY <2>1, <2>2, <2>3, <1>3 DEF CalmJob, Active
<1>10. ~overran => r = row[j] \/ row[j].status \in Active \cup {"absent"}
  OBVIOUS
<1>11. \A p \in Queues : todo'[p] \subseteq todo[p]
  BY <1>2
<1> HIDE DEF h, r, Inv, Policy
<1> QED BY <1>2, <1>4, <1>5, <1>6, <1>8, <1>9, <1>10, <1>11, OneJobStep

LEMMA RestorePolicy ==
  ASSUME Inv, Policy, NEW q \in Queues, NEW f \in todo[q], Restore(q, f)
  PROVE  PolicyStep
<1> DEFINE j == f.job
<1>1. /\ j \in Jobs /\ row[j] \in RowType
      /\ f.attempts \in Nat /\ f.attempts <= MaxRetries + mishaps
      /\ MaxRetries \in Nat /\ mishaps \in Nat
  <2>1. f \in FoundType
    BY DEF Inv, Shape
  <2>2. j \in Jobs
    BY <2>1 DEF FoundType
  <2> QED BY <2>2, BoundTypes DEF Inv, Shape, Policy, Counted
<1>2. mishaps # 0
  BY DEF Policy, Calm
<1>3. /\ UNCHANGED <<request, life, stalled, delivered, overran>>
      /\ \A p \in Queues : todo'[p] \subseteq todo[p]
  BY DEF Restore, Inv, Shape
<1>4. /\ \A i \in Jobs : RowCounted(row[i], life, stalled, mishaps) /\ Free(row[i])
      /\ \A p \in Queues, i \in Jobs : JobCounted(held[p][i], mishaps)
  BY DEF Policy, Counted
<1>5. CASE UNCHANGED <<row, held, mishaps>>
  <2>1. \A i \in Jobs : Settles(row[i], row'[i])
    BY <1>5, UndecidedSettles
  <2> HIDE DEF Inv
  <2> QED BY <2>1, <1>2, <1>3, <1>4, <1>5, LaterStep DEF Policy
<1>6. ASSUME Claimable(row[j], q), UNCHANGED mishaps, NEW at \in {"scheduled", "pending"},
             held' = [held EXCEPT ![q][j] = Waiting(at, f.attempts)],
             row' = [row EXCEPT ![j] = Updated(@, q, at, f.attempts)]
      PROVE  PolicyStep
  <2> DEFINE h == Waiting(at, f.attempts)
             r == Updated(row[j], q, at, f.attempts)
  <2>1. row[j].status \in Active
    BY <1>6 DEF Claimable
  <2>2. r.status = at /\ r.attempts = f.attempts /\ r.owner = q
    BY <2>1, <1>1 DEF Updated, RowType, Active
  <2>3. JobCounted(h, mishaps)
    BY <1>1, WaitingCounted DEF Active
  <2>4. held' = [held EXCEPT ![q][j] = h] /\ row' = [row EXCEPT ![j] = r]
    BY <1>6, <1>1 DEF Inv, Shape
  <2> HIDE DEF h, r
  <2>5. RowCounted(r, life, stalled, mishaps) /\ Free(r)
    BY <2>2, <1>1 DEF RowCounted, Free, Active
  <2>6. delivered' \in [Jobs -> 0..2]
    BY <1>3 DEF Policy, Counted
  <2> HIDE DEF j, Inv, Policy
  <2> QED BY <2>1, <2>3, <2>4, <2>5, <2>6, <1>1, <1>2, <1>3, <1>6, OneJobStep
<1>7. ASSUME Claimable(row[j], q), Mishap("unreadable"), held' = held,
             row' = [row EXCEPT ![j].status = "dead", ![j].owner = Nobody, ![j].lapsed = FALSE]
      PROVE  PolicyStep
  <2> DEFINE r == [row[j] EXCEPT !.status = "dead", !.owner = Nobody, !.lapsed = FALSE]
  <2>1. row[j].status \in Active
    BY <1>7 DEF Claimable
  <2>2. r.owner = Nobody /\ r.attempts = row[j].attempts
    BY <1>1 DEF RowType
  <2>3. row' = [row EXCEPT ![j] = r]
    BY <1>7, <1>1 DEF Inv, Shape
  <2> HIDE DEF r
  <2>4. ASSUME NEW i \in Jobs
        PROVE  /\ row'[i].attempts = row[i].attempts
               /\ Free(row'[i]) /\ Settles(row[i], row'[i])
    <3>1. CASE i = j
      <4>1. row'[i] = r
        BY <3>1, <2>3 DEF Inv, Shape
      <4> QED BY <4>1, <3>1, <2>1, <2>2, UndecidedSettles DEF Free
    <3>2. CASE i # j
      <4>1. row'[i] = row[i]
        BY <3>2, <2>3 DEF Inv, Shape
      <4> QED BY <4>1, <1>4, UndecidedSettles
    <3> QED BY <3>1, <3>2
  <2>5. \A i \in Jobs : row'[i].attempts \in Nat /\ row'[i].attempts <= MaxRetries + 1 + mishaps
    BY <2>4, <1>4 DEF RowCounted
  <2>6. \E kind \in Mishaps : Mishap(kind)
    BY <1>7 DEF Mishap
  <2> HIDE DEF j, Inv
  <2> QED BY <2>4, <2>5, <2>6, <1>3, <1>4, <1>7, MishapStep DEF Policy
<1> HIDE DEF Inv, Policy
<1>8. \/ UNCHANGED <<row, held, mishaps>>
      \/ /\ Claimable(row[j], q)
         /\ \/ UNCHANGED mishaps /\ \E at \in {"scheduled", "pending"} :
                  /\ held' = [held EXCEPT ![q][j] = Waiting(at, f.attempts)]
                  /\ row' = [row EXCEPT ![j] = Updated(@, q, at, f.attempts)]
            \/ /\ Mishap("unreadable") /\ held' = held
               /\ row' = [row EXCEPT ![j].status = "dead", ![j].owner = Nobody, ![j].lapsed = FALSE]
  BY DEF Restore
<1> QED BY <1>5, <1>6, <1>7, <1>8

-----------------------------------------------------------------------------
(* The steps of all the jobs of a queue.                                   *)

\* A request leaves a job and its row as the policy allows them.
LEMMA RequestCounted ==
  ASSUME Inv, Policy, NEW q \in Queues, NEW j \in Jobs, NEW k \in Reasons
  PROVE  /\ JobCounted(JobAfter(q, j, k), mishaps)
         /\ RowCounted(RowAfter(q, j, k), life, stalled, mishaps)
         /\ Free(RowAfter(q, j, k))
         /\ ~overran => RowAfter(q, j, k) = row[j] \/ row[j].status \in Active
         /\ k = "none" => JobAfter(q, j, k) = held[q][j] /\ RowAfter(q, j, k) = row[j]
<1>1. row[j] \in RowType /\ held[q][j] \in JobType
  BY DEF Inv, Shape
<1>2. /\ MaxRetries \in Nat /\ mishaps \in Nat /\ JobCounted(held[q][j], mishaps)
      /\ RowCounted(row[j], life, stalled, mishaps) /\ Free(row[j])
  BY BoundTypes DEF Policy, Counted
<1>3. CASE ~HandledBy(q, j, k)
  <2>1. JobAfter(q, j, k) = held[q][j] /\ RowAfter(q, j, k) = row[j]
    BY <1>3 DEF JobAfter, RowAfter
  <2> QED BY <2>1, <1>2
<1>4. CASE HandledBy(q, j, k) /\ held[q][j].at = "running"
  <2> DEFINE h == Signalled(held[q][j], k)
  <2>1. JobAfter(q, j, k) = h /\ RowAfter(q, j, k) = row[j] /\ k # "none"
    BY <1>4 DEF JobAfter, RowAfter, HandledBy
  <2>2. h.at = "running" /\ h.attempts = held[q][j].attempts
    BY <1>1, <1>4, SignalledType
  <2> HIDE DEF h
  <2>3. JobCounted(h, mishaps)
    BY <2>2, <1>2, <1>4 DEF JobCounted
  <2> QED BY <2>1, <2>3, <1>2
<1>5. CASE HandledBy(q, j, k) /\ held[q][j].at # "running"
  <2> DEFINE n == held[q][j].attempts
             r == Updated(row[j], q, "cancelled", n)
  <2>1. JobAfter(q, j, k) = NotHeld /\ RowAfter(q, j, k) = r /\ k # "none"
    BY <1>5 DEF JobAfter, RowAfter, HandledBy
  <2>2. n \in Nat /\ n <= MaxRetries + mishaps /\ n <= MaxRetries + 1 + mishaps
    BY <1>2, <1>5 DEF JobCounted
  <2>3. r = row[j] \/ (r.status = "cancelled" /\ r.attempts = n /\ r.owner = Nobody)
    BY <1>1 DEF Updated, RowType, Active
  <2> HIDE DEF n, r
  <2>4. RowCounted(r, life, stalled, mishaps) /\ Free(r)
    BY <2>2, <2>3, <1>2 DEF RowCounted, Free, Active
  <2>5. ~overran => row[j].status \in Active
    BY <1>1, <1>5 DEF Inv, Matched, Matches, HandledBy, JobType, Active
  <2> QED BY <2>1, <2>4, <2>5, <1>2, NotHeldCounted
<1> QED BY <1>3, <1>4, <1>5

\* Tending a row changes nothing in what is counted.
LEMMA TendedCounted ==
  ASSUME NEW q \in Queues, NEW r \in RowType, NEW r2, Tended(q, r, r2), Free(r),
         NEW l, NEW l2, \A p \in Queues : l[p] = "open" => l2[p] = "open",
         NEW s, NEW m, RowCounted(r, l, s, m)
  PROVE  RowCounted(r2, l2, s, m) /\ Free(r2) /\ (r2 = r \/ r.status \in Active)
<1>1. Gone \notin Queues /\ Nobody \notin Queues /\ Gone # Nobody
  BY SqliteQueueConstants DEF SqliteQueueConstants
<1>2. Worked(r, l, s) => Worked(r2, l2, s)
  BY <1>1 DEF Tended, Worked, RowType
<1>3. RowCounted(r2, l2, s, m)
  BY <1>2, RowKept DEF Tended
<1>4. Free(r2) /\ (r2 = r \/ r.status \in Active)
  BY <1>1 DEF Tended, Free
<1> QED BY <1>3, <1>4

\* What a queue reads of the table has an attempt left.
LEMMA ReadCounted ==
  ASSUME NEW t, NEW l, NEW s, NEW m,
         \A j \in Jobs : RowCounted(t[j], l, s, m),
         NEW f \in Read(t)
  PROVE  f.attempts \in Nat /\ f.attempts <= MaxRetries + m
<1>1. PICK i \in Jobs :
        /\ Unowned(t[i])
        /\ f = [job |-> i, status |-> t[i].status, attempts |-> t[i].attempts]
  BY DEF Read
<1>2. t[i].status \in Active /\ ~Worked(t[i], l, s)
  BY <1>1, SqliteQueueConstants DEF Unowned, Worked, SqliteQueueConstants
<1>3. t[i].attempts \in Nat /\ t[i].attempts <= MaxRetries + m
  BY <1>2 DEF RowCounted
<1> QED BY <1>1, <1>3

\* Queue q has made u of the table, as it was asked to, and tends it and reads it.
LEMMA TableStep ==
  ASSUME Inv, Policy, NEW q \in Queues, NEW u \in [Jobs -> RowType],
         UNCHANGED <<stalled, delivered, mishaps, overran>>,
         \A p \in Queues : life[p] = "open" => life'[p] = "open",
         \A j \in Jobs : /\ RowCounted(u[j], life, stalled, mishaps) /\ Free(u[j])
                         /\ ~overran => u[j] = row[j] \/ row[j].status \in Active
                         /\ Tended(q, u[j], row'[j]),
         \A p \in Queues, j \in Jobs : JobCounted(held'[p][j], mishaps),
         \A p \in Queues : todo'[p] \subseteq todo[p] \cup Read(row'),
         mishaps = 0 => /\ \A p \in Queues : life'[p] \in {"down", "open"}
                        /\ \A j \in Jobs : request'[j] = "none" /\ u[j] = row[j]
                        /\ \A p \in Queues, j \in Jobs : held'[p][j] = held[p][j]
  PROVE  PolicyStep
<1>0. Gone \notin Queues /\ Nobody \notin Queues
  BY SqliteQueueConstants DEF SqliteQueueConstants
<1>1. \A j \in Jobs : /\ RowCounted(row'[j], life', stalled, mishaps) /\ Free(row'[j])
                      /\ row'[j] = u[j] \/ u[j].status \in Active
  <2> SUFFICES ASSUME NEW j \in Jobs
               PROVE  /\ RowCounted(row'[j], life', stalled, mishaps) /\ Free(row'[j])
                      /\ row'[j] = u[j] \/ u[j].status \in Active
    OBVIOUS
  <2>1. /\ u[j] \in RowType /\ Tended(q, u[j], row'[j]) /\ Free(u[j])
        /\ RowCounted(u[j], life, stalled, mishaps)
    OBVIOUS
  <2> HIDE DEF Inv, Policy
  <2> QED BY <2>1, TendedCounted
<1>2. \A p \in Queues : \A f \in todo'[p] : f.attempts \in Nat /\ f.attempts <= MaxRetries + mishaps
  <2> SUFFICES ASSUME NEW p \in Queues, NEW f \in todo'[p]
               PROVE  f.attempts \in Nat /\ f.attempts <= MaxRetries + mishaps
    OBVIOUS
  <2>1. CASE f \in todo[p]
    BY <2>1 DEF Policy, Counted
  <2>2. CASE f \in Read(row')
    <3> HIDE DEF Inv, Policy
    <3> QED BY <2>2, <1>1, ReadCounted
  <2> QED BY <2>1, <2>2
<1>3. Counted'
  BY <1>1, <1>2 DEF Policy, Counted
<1>4. Calm'
  <2> SUFFICES ASSUME mishaps = 0 PROVE Calm'
    BY DEF Calm
  <2>1. /\ stalled' = {} /\ ~overran'
        /\ \A p \in Queues : todo[p] = {}
        /\ \A p \in Queues, j \in Jobs : held'[p][j] = held[p][j] /\ held[p][j].reason = "none"
    BY DEF Policy, Calm
  <2>2. ASSUME NEW j \in Jobs
        PROVE  /\ row'[j].status = row[j].status
               /\ row[j].owner \in Queues => row'[j].owner = row[j].owner
               /\ row'[j].owner \in Queues => row'[j].owner = row[j].owner
               /\ row'[j].status \in Active => row'[j].owner \in Queues /\ ~row'[j].lapsed
    <3>1. Tended(q, row[j], row'[j]) /\ row[j] \in RowType /\ Free(row[j])
      BY DEF Inv, Shape, Policy
    <3>2. row[j].status \in Active => row[j].owner \in Queues /\ ~row[j].lapsed
      BY DEF Policy, Calm
    <3> HIDE DEF Inv, Policy
    <3> QED BY <3>1, <3>2, <1>0 DEF Tended, RowType
  <2>3. \A p \in Queues : todo'[p] = {}
    <3>1. Read(row') = {}
      BY <2>2, <1>0 DEF Read, Unowned
    <3> QED BY <3>1, <2>1
  <2>4. ASSUME NEW j \in Jobs
        PROVE  delivered'[j] <= 1 /\ (Unsent(j)' => delivered'[j] = 0)
    <3>1. delivered[j] <= 1 /\ (Unsent(j) => delivered[j] = 0)
      BY DEF Policy, Calm
    <3>2. Unsent(j)' => Unsent(j)
      BY <2>1, <2>2 DEF Unsent
    <3> QED BY <3>1, <3>2
  <2> QED BY <2>1, <2>2, <2>3, <2>4 DEF Calm
<1>5. ~overran => \A j \in Jobs : Settles(row[j], row'[j])
  <2> SUFFICES ASSUME ~overran, NEW j \in Jobs PROVE Settles(row[j], row'[j])
    OBVIOUS
  <2>1. row'[j] = row[j] \/ row[j].status \in Active
    BY <1>1
  <2> QED BY <2>1, UndecidedSettles
<1> QED BY <1>1, <1>3, <1>4, <1>5 DEF PolicyStep, Policy

LEMMA OpenPolicy ==
  ASSUME Inv, Policy, NEW q \in Queues, NEW local \in BOOLEAN, Open(q, local)
  PROVE  PolicyStep
<1>1. /\ life[q] = "down" /\ life' = [life EXCEPT ![q] = "open"]
      /\ row' = [j \in Jobs |-> IF local THEN Freed(row[j]) ELSE row[j]]
      /\ todo' = [todo EXCEPT ![q] = Read(row')]
      /\ UNCHANGED <<request, stalled, held, delivered, mishaps, overran>>
  BY DEF Open
<1>2. row \in [Jobs -> RowType] /\ life \in [Queues -> Lives] /\ todo \in [Queues -> SUBSET FoundType]
  BY DEF Inv, Shape
<1>3. \A j \in Jobs : Tended(q, row[j], row'[j])
  BY <1>1, <1>2, TendedRows
<1>4. \A p \in Queues : life[p] = "open" => life'[p] = "open"
  BY <1>1, <1>2
<1>5. \A p \in Queues : todo'[p] \subseteq todo[p] \cup Read(row')
  BY <1>1, <1>2
<1>6. /\ \A j \in Jobs : RowCounted(row[j], life, stalled, mishaps) /\ Free(row[j])
      /\ \A p \in Queues, j \in Jobs : JobCounted(held[p][j], mishaps)
  BY DEF Policy, Counted
<1>7. mishaps = 0 => /\ \A p \in Queues : life'[p] \in {"down", "open"}
                     /\ \A j \in Jobs : request[j] = "none"
  BY <1>1, <1>2 DEF Policy, Calm
<1> HIDE DEF Inv, Policy
<1> QED BY <1>1, <1>2, <1>3, <1>4, <1>5, <1>6, <1>7, TableStep

LEMMA PollPolicy ==
  ASSUME Inv, Policy, NEW q \in Queues, NEW local \in BOOLEAN, NEW old \in SUBSET Jobs, Poll(q, local, old)
  PROVE  PolicyStep
<1> DEFINE a(j) == JobAfter(q, j, request[j])
           m(j) == RowAfter(q, j, request[j])
           n(j) == Renewed(m(j), q)
           u == [j \in Jobs |-> m(j)]
<1>1. /\ row' = [j \in Jobs |-> IF local /\ life[q] = "open" THEN Freed(n(j)) ELSE n(j)]
      /\ held' = [held EXCEPT ![q] = [j \in Jobs |-> a(j)]]
      /\ request' = [j \in Jobs |-> IF j \in old \/ HandledBy(q, j, request[j])
                                    THEN "none" ELSE request[j]]
      /\ todo' = [todo EXCEPT ![q] = IF life[q] = "open" THEN Read(row') ELSE {}]
      /\ UNCHANGED <<life, stalled, delivered, mishaps, overran>>
  BY DEF Poll
<1>2. /\ \A j \in Jobs : request[j] \in Reasons
      /\ held \in [Queues -> [Jobs -> JobType]] /\ todo \in [Queues -> SUBSET FoundType]
  BY DEF Inv, Shape
<1>3. \A j \in Jobs :
        /\ m(j) \in RowType
        /\ JobCounted(a(j), mishaps)
        /\ RowCounted(m(j), life, stalled, mishaps) /\ Free(m(j))
        /\ ~overran => m(j) = row[j] \/ row[j].status \in Active
        /\ request[j] = "none" => a(j) = held[q][j] /\ m(j) = row[j]
  <2> SUFFICES ASSUME NEW j \in Jobs
               PROVE  /\ m(j) \in RowType
                      /\ JobCounted(a(j), mishaps)
                      /\ RowCounted(m(j), life, stalled, mishaps) /\ Free(m(j))
                      /\ ~overran => m(j) = row[j] \/ row[j].status \in Active
                      /\ request[j] = "none" => a(j) = held[q][j] /\ m(j) = row[j]
    OBVIOUS
  <2>1. m(j) \in RowType
    BY <1>2, RequestStep DEF Inv
  <2> HIDE DEF Inv, Policy
  <2> QED BY <2>1, <1>2, RequestCounted
<1> HIDE DEF a, m
<1>4. \A j \in Jobs : Tended(q, m(j), row'[j])
  <2>1. ASSUME NEW j \in Jobs PROVE Tended(q, m(j), Freed(n(j))) /\ Tended(q, m(j), n(j))
    BY <1>3, TendedRows
  <2> HIDE DEF n
  <2> QED BY <1>1, <2>1
<1>5. u \in [Jobs -> RowType] /\ \A j \in Jobs : u[j] = m(j)
  BY <1>3
<1> HIDE DEF n, u
<1>6. \A p \in Queues, j \in Jobs : held'[p][j] = IF p = q THEN a(j) ELSE held[p][j]
  BY <1>1, <1>2
<1>7. \A p \in Queues, j \in Jobs : JobCounted(held'[p][j], mishaps)
  BY <1>3, <1>6 DEF Policy, Counted
<1>8. \A p \in Queues : todo'[p] \subseteq todo[p] \cup Read(row')
  BY <1>1, <1>2
<1>9. mishaps = 0 => /\ \A p \in Queues : life'[p] \in {"down", "open"}
                     /\ \A j \in Jobs : request'[j] = "none" /\ u[j] = row[j]
                     /\ \A p \in Queues, j \in Jobs : held'[p][j] = held[p][j]
  <2> SUFFICES ASSUME mishaps = 0
               PROVE  /\ \A p \in Queues : life[p] \in {"down", "open"}
                      /\ \A j \in Jobs : request'[j] = "none" /\ u[j] = row[j]
                      /\ \A p \in Queues, j \in Jobs : held'[p][j] = held[p][j]
    BY <1>1
  <2>1. \A j \in Jobs : request[j] = "none"
    BY DEF Policy, Calm
  <2>2. \A p \in Queues : life[p] \in {"down", "open"}
    BY DEF Policy, Calm
  <2> HIDE DEF Inv, Policy
  <2> QED BY <2>1, <2>2, <1>1, <1>3, <1>5, <1>6
<1> HIDE DEF Inv, Policy
<1> QED BY <1>1, <1>3, <1>4, <1>5, <1>7, <1>8, <1>9, TableStep

LEMMA ShutdownPolicy ==
  ASSUME Inv, Policy, NEW q \in Queues, Shutdown(q)
  PROVE  PolicyStep
<1>1. Mishap("shutdown") /\ UNCHANGED <<request, stalled, todo, delivered, overran>>
  BY DEF Shutdown
<1>2. PICK kind \in {"none", "cancel"} :
        /\ held' = [held EXCEPT ![q] = [j \in Jobs |-> IF held[q][j].at # "running"
                                                       THEN JobAfter(q, j, kind) ELSE held[q][j]]]
        /\ row' = [j \in Jobs |-> RowAfter(q, j, kind)]
  BY DEF Shutdown
<1> DEFINE a(j) == JobAfter(q, j, kind)
<1>3. \A j \in Jobs :
        /\ JobCounted(a(j), mishaps)
        /\ RowCounted(row'[j], life, stalled, mishaps) /\ Free(row'[j])
        /\ ~overran => row'[j] = row[j] \/ row[j].status \in Active
  <2>1. kind \in Reasons
    BY DEF Reasons
  <2> HIDE DEF Inv, Policy
  <2> QED BY <1>2, <2>1, RequestCounted
<1>4. \A p \in Queues, j \in Jobs :
        held'[p][j] = IF p = q /\ held[q][j].at # "running" THEN a(j) ELSE held[p][j]
  BY <1>2 DEF Inv, Shape
<1> HIDE DEF a
<1>5. \A p \in Queues, j \in Jobs : JobCounted(held'[p][j], mishaps)
  BY <1>3, <1>4 DEF Policy, Counted
<1>6. \A j \in Jobs : row'[j].attempts \in Nat /\ row'[j].attempts <= MaxRetries + 1 + mishaps
  BY <1>3 DEF RowCounted
<1>7. ~overran' => \A j \in Jobs : Settles(row[j], row'[j])
  BY <1>1, <1>3, UndecidedSettles
<1>8. (\E k \in Mishaps : Mishap(k)) /\ Counted
  BY <1>1 DEF Mishap, Policy
<1> HIDE DEF Inv, Policy
<1> QED BY <1>1, <1>3, <1>5, <1>6, <1>7, <1>8, MishapStep

\* A mishap that leaves the jobs of the queues alone, or makes them forget them,
\* and leaves the attempts of the rows alone or forgets them.
LEMMA PlainMishap ==
  ASSUME Inv, Policy, \E kind \in Mishaps : Mishap(kind), delivered' = delivered,
         \A j \in Jobs : /\ row'[j].attempts \in {row[j].attempts, 0} /\ Free(row'[j])
                         /\ Settles(row[j], row'[j]),
         \A q \in Queues, j \in Jobs : held'[q][j] \in {held[q][j], NotHeld},
         \A q \in Queues : todo'[q] \subseteq todo[q]
  PROVE  PolicyStep
<1>1. Counted /\ MaxRetries \in Nat /\ mishaps \in Nat
  BY BoundTypes DEF Policy
<1>2. \A j \in Jobs : row'[j].attempts \in Nat /\ row'[j].attempts <= MaxRetries + 1 + mishaps
  BY <1>1 DEF Counted, RowCounted
<1>3. \A q \in Queues, j \in Jobs : JobCounted(held'[q][j], mishaps)
  BY <1>1, NotHeldCounted DEF Counted
<1> HIDE DEF Inv, Policy
<1> QED BY <1>1, <1>2, <1>3, MishapStep

LEMMA ReleasedPolicy ==
  ASSUME NEW r \in RowType, NEW q \in Queues, Free(r)
  PROVE  LET r2 == Released(r, q)
         IN  /\ r2.attempts = r.attempts /\ Free(r2) /\ Settles(r, r2)
             /\ IF r.owner = q THEN r.status \in Active /\ r2.owner = Nobody
                               ELSE r2 = r
<1> DEFINE r2 == Released(r, q)
<1>1. CASE r.owner = q
  <2>1. r.status \in Active
    BY <1>1, SqliteQueueConstants DEF Free, SqliteQueueConstants
  <2>2. r2.owner = Nobody /\ r2.attempts = r.attempts
    BY <1>1 DEF Released, RowType
  <2> QED BY <2>1, <2>2, <1>1, UndecidedSettles DEF Free
<1>2. CASE r.owner # q
  <2>1. r2 = r
    BY <1>2 DEF Released
  <2> QED BY <2>1, <1>2, UndecidedSettles
<1> QED BY <1>1, <1>2

LEMMA ReplacePolicy ==
  ASSUME Inv, Policy, NEW q \in Queues, Replace(q)
  PROVE  PolicyStep
<1>1. /\ Mishap("replace") /\ row' = [j \in Jobs |-> Released(row[j], q)]
      /\ UNCHANGED <<request, stalled, held, todo, delivered>>
  BY DEF Replace
<1>2. \A j \in Jobs : row[j] \in RowType /\ Free(row[j])
  BY DEF Inv, Shape, Policy
<1>3. \A j \in Jobs : row'[j].attempts = row[j].attempts /\ Free(row'[j]) /\ Settles(row[j], row'[j])
  BY <1>1, <1>2, ReleasedPolicy
<1>4. \E k \in Mishaps : Mishap(k)
  BY <1>1 DEF Mishap
<1> HIDE DEF Inv, Policy
<1> QED BY <1>1, <1>3, <1>4, PlainMishap

LEMMA CrashPolicy ==
  ASSUME Inv, Policy, NEW q \in Queues, Crash(q)
  PROVE  PolicyStep
<1>1. /\ Mishap("crash")
      /\ row' = [j \in Jobs |-> IF row[j].owner = q THEN [row[j] EXCEPT !.owner = Gone] ELSE row[j]]
      /\ held' = [held EXCEPT ![q] = [j \in Jobs |-> NotHeld]]
      /\ todo' = [todo EXCEPT ![q] = {}]
      /\ UNCHANGED <<request, delivered, overran>>
  BY DEF Crash
<1>2. ASSUME NEW j \in Jobs
      PROVE  row'[j].attempts = row[j].attempts /\ Free(row'[j]) /\ Settles(row[j], row'[j])
  <2>1. row[j] \in RowType /\ Free(row[j])
    BY DEF Inv, Shape, Policy
  <2>2. CASE row[j].owner = q
    <3>1. row[j].status \in Active
      BY <2>1, <2>2, SqliteQueueConstants DEF Free, SqliteQueueConstants
    <3>2. row'[j].attempts = row[j].attempts /\ row'[j].status = row[j].status
      BY <1>1, <2>1, <2>2 DEF RowType
    <3> QED BY <3>1, <3>2, UndecidedSettles DEF Free
  <2>3. CASE row[j].owner # q
    <3>1. row'[j] = row[j]
      BY <1>1, <2>3
    <3> QED BY <3>1, <2>1, UndecidedSettles
  <2> QED BY <2>2, <2>3
<1>3. /\ \A p \in Queues, j \in Jobs : held'[p][j] \in {held[p][j], NotHeld}
      /\ \A p \in Queues : todo'[p] \subseteq todo[p]
  BY <1>1 DEF Inv, Shape
<1>4. \E k \in Mishaps : Mishap(k)
  BY <1>1 DEF Mishap
<1> HIDE DEF Inv, Policy
<1> QED BY <1>1, <1>2, <1>3, <1>4, PlainMishap

LEMMA StallOrAskPolicy ==
  ASSUME Inv, Policy,
         (\E q \in Queues : Stall(q)) \/ (\E j \in Jobs, kind \in Reasons \ {"none"} : Ask(j, kind))
  PROVE  PolicyStep
<1>1. /\ \E k \in Mishaps : Mishap(k)
      /\ UNCHANGED <<row, held, todo, delivered>>
  BY DEF Stall, Ask, Mishap
<1>2. \A j \in Jobs : Free(row[j]) /\ Settles(row[j], row'[j])
  BY <1>1, UndecidedSettles DEF Policy
<1> HIDE DEF Inv, Policy
<1> QED BY <1>1, <1>2, PlainMishap

LEMMA CommandLinePolicy ==
  ASSUME Inv, Policy, ClearDlq \/ \E j \in Jobs : Requeue(j)
  PROVE  PolicyStep
<1> DEFINE again == [NoRow EXCEPT !.status = "pending"]
<1>1. /\ \E k \in Mishaps : Mishap(k)
      /\ UNCHANGED <<held, todo, delivered>>
      /\ \A j \in Jobs : row'[j] = row[j] \/ (row[j].status = "dead" /\ row'[j] \in {NoRow, again})
  BY DEF ClearDlq, Requeue, Mishap, Inv, Shape
<1>2. NoRow.attempts = 0 /\ NoRow.owner = Nobody /\ again.attempts = 0 /\ again.owner = Nobody
  BY DEF NoRow
<1>3. ASSUME NEW j \in Jobs
      PROVE  /\ row'[j].attempts \in {row[j].attempts, 0} /\ Free(row'[j])
             /\ Settles(row[j], row'[j])
  <2>1. CASE row'[j] = row[j]
    BY <2>1, UndecidedSettles DEF Policy
  <2>2. CASE row[j].status = "dead" /\ row'[j] \in {NoRow, again}
    <3>1. Settles(row[j], row'[j])
      BY <2>2 DEF Settles
    <3> HIDE DEF again
    <3> QED BY <3>1, <2>2, <1>2 DEF Free
  <2> QED BY <2>1, <2>2, <1>1
<1> HIDE DEF again, Inv, Policy
<1> QED BY <1>1, <1>3, PlainMishap

LEMMA InterruptStragglersPolicy ==
  ASSUME Inv, Policy, NEW q \in Queues, InterruptStragglers(q)
  PROVE  PolicyStep
<1>1. /\ life[q] = "stopping"
      /\ held' = [held EXCEPT ![q] = [j \in Jobs |-> JobAfter(q, j, "interrupt")]]
      /\ UNCHANGED <<row, request, life, stalled, todo, delivered, mishaps, overran>>
  BY DEF InterruptStragglers
<1>2. mishaps # 0
  BY <1>1 DEF Policy, Calm
<1>3. \A j \in Jobs : JobCounted(JobAfter(q, j, "interrupt"), mishaps)
  BY RequestCounted DEF Reasons
<1>4. \A p \in Queues, j \in Jobs : JobCounted(held'[p][j], mishaps)
  BY <1>1, <1>3 DEF Inv, Shape, Policy, Counted
<1>5. \A j \in Jobs : RowCounted(row[j], life, stalled, mishaps) /\ Free(row[j]) /\ Settles(row[j], row'[j])
  BY <1>1, UndecidedSettles DEF Policy, Counted
<1> HIDE DEF Inv
<1> QED BY <1>1, <1>2, <1>4, <1>5, LaterStep DEF Policy

LEMMA ClosePolicy ==
  ASSUME Inv, Policy, NEW q \in Queues, Close(q)
  PROVE  PolicyStep
<1>1. /\ life[q] = "stopping" /\ life' = [life EXCEPT ![q] = "down"]
      /\ row' = [j \in Jobs |-> Released(row[j], q)]
      /\ held' = [held EXCEPT ![q] = [j \in Jobs |-> NotHeld]]
      /\ UNCHANGED <<request, stalled, todo, delivered, mishaps, overran>>
  BY DEF Close
<1>2. mishaps # 0 /\ MaxRetries \in Nat /\ mishaps \in Nat
  BY <1>1, BoundTypes DEF Policy, Calm
<1>3. \A p \in Queues : life[p] = "open" => life'[p] = "open"
  BY <1>1 DEF Inv, Shape
<1>4. ASSUME NEW j \in Jobs
      PROVE  /\ RowCounted(row'[j], life', stalled, mishaps)
             /\ Free(row'[j]) /\ Settles(row[j], row'[j])
  <2>1. row[j] \in RowType /\ Free(row[j]) /\ RowCounted(row[j], life, stalled, mishaps)
    BY DEF Inv, Shape, Policy, Counted
  <2>2. /\ row'[j].attempts = row[j].attempts /\ Free(row'[j]) /\ Settles(row[j], row'[j])
        /\ IF row[j].owner = q THEN row[j].status \in Active ELSE row'[j] = row[j]
    BY <1>1, <2>1, ReleasedPolicy
  <2>3. CASE row[j].owner = q
    <3>1. row[j].attempts \in Nat /\ row[j].attempts <= MaxRetries + mishaps
      BY <1>1, <2>1, <2>2, <2>3 DEF RowCounted, Worked
    <3> QED BY <3>1, <2>2, <1>2 DEF RowCounted
  <2>4. CASE row[j].owner # q
    <3>1. Worked(row[j], life, stalled) => Worked(row'[j], life', stalled)
      BY <2>2, <2>4, <1>3 DEF Worked
    <3> QED BY <3>1, <2>1, <2>2, <2>4, RowKept
  <2> QED BY <2>3, <2>4
<1>5. \A p \in Queues, j \in Jobs : JobCounted(held'[p][j], mishaps)
  BY <1>1, <1>2, NotHeldCounted DEF Inv, Shape, Policy, Counted
<1> HIDE DEF Inv
<1> QED BY <1>1, <1>2, <1>4, <1>5, LaterStep DEF Policy

LEMMA VanishOrWakePolicy ==
  ASSUME Inv, Policy, NEW q \in Queues, Vanish(q) \/ Wake(q)
  PROVE  PolicyStep
<1>1. UNCHANGED <<row, request, held, todo, delivered, mishaps, overran>>
  BY DEF Vanish, Wake
<1>2. mishaps # 0
  BY DEF Vanish, Wake, Policy, Calm
<1>3. stalled' \subseteq stalled /\ \A p \in Queues : life[p] = "open" => life'[p] = "open"
  BY DEF Vanish, Wake, Inv, Shape
<1>4. ASSUME NEW j \in Jobs
      PROVE  /\ RowCounted(row'[j], life', stalled', mishaps)
             /\ Free(row'[j]) /\ Settles(row[j], row'[j])
  <2>1. RowCounted(row[j], life, stalled, mishaps) /\ Free(row[j])
    BY DEF Policy, Counted
  <2>2. Worked(row[j], life, stalled) => Worked(row[j], life', stalled')
    BY <1>3 DEF Worked
  <2> QED BY <1>1, <2>1, <2>2, RowKept, UndecidedSettles
<1>5. \A p \in Queues, j \in Jobs : JobCounted(held'[p][j], mishaps)
  BY <1>1 DEF Policy, Counted
<1> HIDE DEF Inv
<1> QED BY <1>1, <1>2, <1>4, <1>5, LaterStep DEF Policy

LEMMA LeaseLapsesPolicy ==
  ASSUME Inv, Policy, NEW j \in Jobs, LeaseLapses(j)
  PROVE  PolicyStep
<1>1. /\ row[j].status \in Active /\ row[j].owner \in stalled \cup {Gone}
      /\ row' = [row EXCEPT ![j].lapsed = TRUE]
      /\ UNCHANGED <<request, life, stalled, held, todo, delivered, mishaps>>
      /\ ~overran' => ~overran
  BY DEF LeaseLapses
<1>2. row \in [Jobs -> RowType] /\ Gone \notin Queues
  BY SqliteQueueConstants DEF Inv, Shape, SqliteQueueConstants
<1>3. mishaps # 0
  BY <1>1, <1>2 DEF Policy, Calm
<1>4. /\ \A i \in Jobs \ {j} : row'[i] = row[i]
      /\ row'[j].status = row[j].status /\ row'[j].attempts = row[j].attempts
  BY <1>1, <1>2 DEF RowType
<1>5. ASSUME NEW i \in Jobs
      PROVE  /\ RowCounted(row'[i], life, stalled, mishaps)
             /\ Free(row'[i]) /\ Settles(row[i], row'[i])
  <2>1. RowCounted(row[i], life, stalled, mishaps) /\ Free(row[i])
    BY DEF Policy, Counted
  <2>2. CASE i = j
    <3>1. ~Worked(row[j], life, stalled)
      BY <1>1, <1>2 DEF Worked
    <3>2. RowCounted(row'[j], life, stalled, mishaps)
      BY <3>1, <2>1, <2>2, <1>4, RowKept
    <3> QED BY <3>2, <2>2, <1>1, <1>4, UndecidedSettles DEF Free
  <2>3. CASE i # j
    BY <2>1, <2>3, <1>4, UndecidedSettles
  <2> QED BY <2>2, <2>3
<1>6. \A p \in Queues, i \in Jobs : JobCounted(held'[p][i], mishaps)
  BY <1>1 DEF Policy, Counted
<1> HIDE DEF Inv
<1> QED BY <1>1, <1>3, <1>5, <1>6, LaterStep DEF Policy

-----------------------------------------------------------------------------
(* Attempts, deliveries and last statuses: the theorems.                   *)

LEMMA InitPolicy == Init => Policy
<1> SUFFICES ASSUME Init PROVE Policy
  OBVIOUS
<1>1. MaxRetries \in Nat /\ MaxMishaps \in Nat /\ mishaps = 0
  BY SqliteQueueConstants DEF Init, SqliteQueueConstants
<1>2. NoRow.attempts = 0 /\ NoRow.status = "absent" /\ NoRow.owner = Nobody
  BY DEF NoRow
<1>3. \A j \in Jobs : RowCounted(row[j], life, stalled, mishaps) /\ Free(row[j])
  BY <1>1, <1>2 DEF Init, RowCounted, Free, Active
<1>4. \A q \in Queues, j \in Jobs : JobCounted(held[q][j], mishaps) /\ held[q][j].reason = "none"
  BY <1>1, NotHeldCounted DEF Init
<1>5. Counted
  <2>1. delivered \in [Jobs -> 0..2]
    BY DEF Init
  <2>2. \A q \in Queues : todo[q] = {}
    BY DEF Init
  <2>3. mishaps \in 0..MaxMishaps
    BY <1>1
  <2> QED BY <2>1, <2>2, <2>3, <1>3, <1>4 DEF Counted
<1>6. Calm
  BY <1>2, <1>4 DEF Init, Calm, Active
<1> QED BY <1>3, <1>5, <1>6 DEF Policy

LEMMA NextPolicy == Inv /\ Policy /\ [Next]_vars => PolicyStep
<1> SUFFICES ASSUME Inv, Policy, [Next]_vars PROVE PolicyStep
  OBVIOUS
<1>1. ASSUME NEW q \in Queues, NEW local \in BOOLEAN, Open(q, local) PROVE PolicyStep
  BY <1>1, OpenPolicy
<1>2. ASSUME NEW q \in Queues, NEW local \in BOOLEAN, NEW old \in SUBSET Jobs, Poll(q, local, old)
      PROVE  PolicyStep
  BY <1>2, PollPolicy
<1>3. ASSUME NEW q \in Queues, NEW f \in todo[q], Restore(q, f) PROVE PolicyStep
  BY <1>3, RestorePolicy
<1>4. ASSUME NEW q \in Queues, Shutdown(q) PROVE PolicyStep
  BY <1>4, ShutdownPolicy
<1>5. ASSUME NEW q \in Queues, InterruptStragglers(q) PROVE PolicyStep
  BY <1>5, InterruptStragglersPolicy
<1>6. ASSUME NEW q \in Queues, Close(q) PROVE PolicyStep
  BY <1>6, ClosePolicy
<1>7. ASSUME NEW q \in Queues, Replace(q) PROVE PolicyStep
  BY <1>7, ReplacePolicy
<1>8. ASSUME NEW q \in Queues, Vanish(q) \/ Wake(q) PROVE PolicyStep
  BY <1>8, VanishOrWakePolicy
<1>9. ASSUME NEW q \in Queues, Crash(q) PROVE PolicyStep
  BY <1>9, CrashPolicy
<1>10. CASE (\E q \in Queues : Stall(q)) \/ (\E j \in Jobs, kind \in Reasons \ {"none"} : Ask(j, kind))
  BY <1>10, StallOrAskPolicy
<1>11. ASSUME NEW q \in Queues, NEW j \in Jobs, Enqueue(q, j) PROVE PolicyStep
  BY <1>11, EnqueuePolicy
<1>12. ASSUME NEW q \in Queues, NEW j \in Jobs, Start(q, j) PROVE PolicyStep
  BY <1>12, StartPolicy
<1>13. ASSUME NEW q \in Queues, NEW j \in Jobs, Accept(q, j) PROVE PolicyStep
  BY <1>13, AcceptPolicy
<1>14. ASSUME NEW q \in Queues, NEW j \in Jobs, SendEnds(q, j) PROVE PolicyStep
  BY <1>14, SendEndsPolicy
<1>15. ASSUME NEW q \in Queues, NEW j \in Jobs, Promote(q, j) PROVE PolicyStep
  BY <1>15, PromotePolicy
<1>16. ASSUME NEW j \in Jobs, LeaseLapses(j) PROVE PolicyStep
  BY <1>16, LeaseLapsesPolicy
<1>17. CASE ClearDlq \/ \E j \in Jobs : Requeue(j)
  BY <1>17, CommandLinePolicy
<1>18. CASE UNCHANGED vars
  <2>1. UNCHANGED <<row, request, life, stalled, held, todo, delivered, mishaps, overran>>
    BY <1>18 DEF vars
  <2>2. Policy'
    BY <2>1 DEF Policy, Counted, RowCounted, JobCounted, Worked, Calm, Unsent, Free
  <2>3. \A j \in Jobs : Settles(row[j], row'[j])
    BY <2>1, UndecidedSettles
  <2> QED BY <2>2, <2>3 DEF PolicyStep
<1> HIDE DEF Inv, Policy, PolicyStep
<1> QED
  BY <1>1, <1>2, <1>3, <1>4, <1>5, <1>6, <1>7, <1>8, <1>9, <1>10, <1>11, <1>12, <1>13, <1>14,
     <1>15, <1>16, <1>17, <1>18 DEF Next

LEMMA PolicyAlways == Spec => [](Inv /\ Policy)
<1>1. Init => Inv /\ Policy
  BY InitInv, InitPolicy
<1>2. Inv /\ Policy /\ [Next]_vars => (Inv /\ Policy)'
  BY Step, NextPolicy DEF PolicyStep
<1> QED BY <1>1, <1>2, PTL DEF Spec

LEMMA TypesFollow == Inv /\ Policy => TypeOK
<1> SUFFICES ASSUME Inv, Policy PROVE TypeOK
  OBVIOUS
<1>1. /\ MaxRetries \in Nat /\ MaxMishaps \in Nat /\ mishaps \in Nat /\ mishaps <= MaxMishaps
      /\ mishaps \in 0..MaxMishaps /\ delivered \in [Jobs -> 0..2]
  BY BoundTypes DEF Policy, Counted
<1>2. \A n \in Nat : n <= MaxRetries + 1 + mishaps \/ n <= MaxRetries + mishaps => n \in Attempts
  BY <1>1 DEF Attempts
<1>3. row \in [Jobs -> Row]
  <2> SUFFICES ASSUME NEW j \in Jobs PROVE row[j] \in Row
    BY DEF Inv, Shape
  <2>1. row[j] \in RowType /\ RowCounted(row[j], life, stalled, mishaps)
    BY DEF Inv, Shape, Policy, Counted
  <2>2. row[j].attempts \in Attempts
    BY <2>1, <1>2 DEF RowCounted
  <2> QED BY <2>1, <2>2 DEF RowType, Row
<1>4. held \in [Queues -> [Jobs -> Job]]
  <2> SUFFICES ASSUME NEW q \in Queues, NEW j \in Jobs PROVE held[q][j] \in Job
    BY DEF Inv, Shape
  <2>1. held[q][j] \in JobType /\ JobCounted(held[q][j], mishaps)
    BY DEF Inv, Shape, Policy, Counted
  <2>2. held[q][j].attempts \in Attempts
    BY <2>1, <1>2 DEF JobCounted
  <2> QED BY <2>1, <2>2 DEF JobType, Job
<1>5. todo \in [Queues -> SUBSET Found]
  <2> SUFFICES ASSUME NEW q \in Queues, NEW f \in todo[q] PROVE f \in Found
    BY DEF Inv, Shape
  <2>1. f \in FoundType /\ f.attempts \in Nat /\ f.attempts <= MaxRetries + mishaps
    BY DEF Inv, Shape, Policy, Counted
  <2>2. f.attempts \in Attempts
    BY <2>1, <1>2
  <2> QED BY <2>1, <2>2 DEF FoundType, Found
<1> QED BY <1>1, <1>3, <1>4, <1>5 DEF TypeOK, Inv, Shape

\* No job gets more attempts than maxRetries allows and one for each crash,
\* shutdown or request that cut an attempt short, whichever queues restored it
\* and however often; and where nothing of the kind happens, the server accepts
\* no message twice.
THEOREM AttemptsAlwaysWithinPolicy == Spec => []AttemptsWithinPolicy
<1>1. Inv /\ Policy => AttemptsWithinPolicy
  <2> SUFFICES ASSUME Inv, Policy PROVE AttemptsWithinPolicy
    OBVIOUS
  <2>1. TypeOK
    BY TypesFollow
  <2>2. MaxRetries \in Nat /\ mishaps \in Nat
    BY BoundTypes DEF Policy
  <2>3. \A j \in Jobs : row[j].attempts <= MaxRetries + 1 + mishaps
    BY DEF Policy, Counted, RowCounted
  <2>4. \A q \in Queues, j \in Jobs : held[q][j].attempts <= MaxRetries + 1 + mishaps
    <3> SUFFICES ASSUME NEW q \in Queues, NEW j \in Jobs
                 PROVE  held[q][j].attempts <= MaxRetries + 1 + mishaps
      OBVIOUS
    <3>1. JobCounted(held[q][j], mishaps)
      BY DEF Policy, Counted
    <3> QED BY <3>1, <2>2 DEF JobCounted
  <2>5. mishaps = 0 => \A j \in Jobs : delivered[j] <= 1
    BY DEF Policy, Calm
  <2> QED BY <2>1, <2>3, <2>4, <2>5 DEF AttemptsWithinPolicy
<1> QED BY <1>1, PolicyAlways, PTL

\* As long as no queue outlives its leases, nothing a queue restores, polls or
\* saves late brings back a job that was sent, cancelled or given up; only
\* requeueJob() and clearDlq() change a dead row.
THEOREM DecidedForGood == Spec => FinalStaysFinal
<1>1. Inv /\ Policy /\ [Next]_vars =>
        [~overran' =>
           \A j \in Jobs :
             /\ row[j].status \in {"success", "cancelled"} => row'[j] = row[j]
             /\ row[j].status = "dead" =>
                  row'[j] \in {row[j], NoRow, [NoRow EXCEPT !.status = "pending"]}]_vars
  BY NextPolicy DEF PolicyStep, Settles
<1> QED BY <1>1, PolicyAlways, PTL DEF FinalStaysFinal, Spec

-----------------------------------------------------------------------------
(* The trap server: its invariant.                                         *)

\* What is kept, and what is under way.
Message == [id : Nat, read : BOOLEAN, msg : Contents]
Line == [msg : Message, state : {"whole", "torn", "corrupt"}]
File == [exists : BOOLEAN, lines : Seq(Line)]
Entry == [id : Nat, read : BOOLEAN]
Call == [what : {"list", "message", "delete", "clear"}, id : Nat,
         state : {"asked", "answered", "not found"}, list : Seq(Entry)]
Kinds == {"open", "message", "deleted", "cleared", "shutdown", "error"}

StoreTypes ==
  trap \in [up : {"running", "closing", "closed", "down"}, mem : Seq(Message), file : File,
            sse : BOOLEAN, count : Nat]
PageTypes ==
  page \in [list : Seq(Entry), current : Nat,
            stream : {"none", "connecting", "live", "off", "disconnected"}]
WireTypes ==
  /\ calls \in Seq(Call)
  /\ events \in Seq(Kinds)
TrapTypes == StoreTypes /\ PageTypes /\ WireTypes

\* The store: it never holds more than it may, and its file says the same.
Intact(file) == \A i \in DOMAIN file.lines : file.lines[i].state # "corrupt"
Kept ==
  /\ Len(trap.mem) <= MaxMessages
  /\ Running /\ Intact(trap.file) => Load(trap.file) = trap.mem

\* Requests are answered in their order.
InOrder(cs) == \A i, k \in DOMAIN cs : i < k /\ cs[k].state # "asked" => cs[i].state # "asked"

\* The stream: what it carries besides reasons to ask for the list ends it, and a page that
\* takes it for live, or will, is to hear of its end.
Farewell == {"shutdown", "error"}
Carries(kinds) == \E i \in DOMAIN events : events[i] \in kinds
Streaming ==
  /\ trap.sse => Accepting
  /\ page.stream = "live" \/ events # <<>> => trap.sse \/ Carries(Farewell)

\* A request that is the list's or will be followed by one.
Renews(c) == \/ c.what = "list" /\ c.state = "asked"
             \/ c.what \in {"delete", "clear"}
             \/ c.what = "message" /\ c.state = "answered"
\* The list the page has or has been answered is the server's, and what was answered
\* after it changes nothing.
UpTo(i, list, cs, mem) ==
  /\ IF i = 0 THEN list = Listing(mem)
     ELSE cs[i].what = "list" /\ cs[i].state # "asked" /\ cs[i].list = Listing(mem)
  /\ \A k \in (i + 1)..Len(cs) :
       cs[k].state # "asked" => cs[k].what = "message" /\ WithId(mem, cs[k].id) = {}
Current(list, cs, mem) == \E i \in 0..Len(cs) : UpTo(i, list, cs, mem)
Due(cs) == \E i \in DOMAIN cs : Renews(cs[i])
Following ==
  page.stream = "live" /\ ~Carries(Farewell) =>
    Carries(Reloads) \/ Due(calls) \/ Current(page.list, calls, trap.mem)

TrapInv == TrapTypes /\ Kept /\ InOrder(calls) /\ Streaming /\ Following
-----------------------------------------------------------------------------
(* Sets of numbers: there is a least member.                               *)

LEMMA LeastNumber ==
  ASSUME NEW n \in Nat, NEW A \in SUBSET (0..n), A # {}
  PROVE  \E a \in A : \A i \in 0..(a - 1) : i \notin A
<1> DEFINE D == 0..n
           T == {0..a : a \in A}
<1>1. IsFiniteSet(D)
  <2>1. 0 \in Int /\ n \in Int
    OBVIOUS
  <2> QED
    BY <2>1, FS_Interval
<1>2. IsWellFoundedOn(StrictSubsetOrdering(D), SUBSET D)
  BY <1>1, FS_StrictSubsetOrderingWellFounded, FS_FiniteSubsetsOfFinite
<1>3. T \subseteq SUBSET D /\ T # {}
  <2>1. \A a \in A : 0..a \subseteq D
    OBVIOUS
  <2> QED
    BY <2>1
<1> HIDE DEF T, D
<1>4. PICK I \in T : \A J \in T : <<J, I>> \notin StrictSubsetOrdering(D)
  BY <1>2, <1>3, WFMin
<1>5. PICK a \in A : I = 0..a
  BY DEF T
<1> SUFFICES ASSUME NEW i \in 0..(a - 1), i \in A PROVE FALSE
  OBVIOUS
<1>6. 0..i \in T /\ 0..i \subseteq 0..a /\ 0..i # 0..a
  BY DEF T, D
<1>7. <<0..i, I>> \in StrictSubsetOrdering(D)
  BY <1>3, <1>5, <1>6 DEF StrictSubsetOrdering
<1> QED
  BY <1>4, <1>6, <1>7

-----------------------------------------------------------------------------
(* Loading a file.                                                         *)

\* What f has after each of the first n lines.
Loading(f, n, lines) ==
  f = [k \in 0..n |-> IF k = 0 THEN <<>> ELSE LoadLine(f[k - 1], lines[k])]

LEMMA LoadingExists ==
  ASSUME NEW lines, NEW n \in Nat
  PROVE  \E f : Loading(f, n, lines)
<1> DEFINE A == {j \in 0..n : ~ \E f : Loading(f, j, lines)}
<1> SUFFICES ASSUME A # {} PROVE FALSE
  OBVIOUS
<1>1. PICK a \in A : \A i \in 0..(a - 1) : i \notin A
  <2>1. A \in SUBSET (0..n)
    OBVIOUS
  <2> HIDE DEF A
  <2> QED
    BY <2>1, LeastNumber
<1>2. CASE a = 0
  <2>1. Loading([k \in 0..0 |-> <<>>], 0, lines)
    BY DEF Loading
  <2> QED
    BY <1>2, <2>1
<1>3. CASE a # 0
  <2>1. a - 1 \in 0..n /\ a - 1 \in 0..(a - 1) /\ a \in Nat
    BY <1>3
  <2>2. PICK g : Loading(g, a - 1, lines)
    BY <1>1, <2>1
  <2> DEFINE h == [k \in 0..a |-> IF k = 0 THEN <<>> ELSE LoadLine(g[k - 1], lines[k])]
  <2>3. \A k \in 0..(a - 1) : h[k] = g[k]
    BY <2>1, <2>2 DEF Loading
  <2>4. \A k \in 0..a : h[k] = IF k = 0 THEN <<>> ELSE LoadLine(h[k - 1], lines[k])
    <3> SUFFICES ASSUME NEW k \in 0..a, k # 0 PROVE h[k] = LoadLine(h[k - 1], lines[k])
      OBVIOUS
    <3>1. k - 1 \in 0..(a - 1)
      BY <2>1
    <3> QED
      BY <2>3, <3>1
  <2>5. Loading(h, a, lines)
    BY <2>4 DEF Loading
  <2> QED
    BY <2>5
<1> QED
  BY <1>2, <1>3

LEMMA LoadIsLoading ==
  ASSUME NEW file, Len(file.lines) \in Nat
  PROVE  \E f : Loading(f, Len(file.lines), file.lines) /\ Load(file) = f[Len(file.lines)]
<1> DEFINE n == Len(file.lines)
           f == CHOOSE f : Loading(f, n, file.lines)
<1>1. Loading(f, n, file.lines)
  BY LoadingExists
<1>2. Load(file) = f[n]
  BY DEF Load, Loading
<1> QED
  BY <1>1, <1>2

\* The lines that two files have in common are loaded alike.
LEMMA LoadingsAgree ==
  ASSUME NEW n \in Nat, NEW k \in Nat, NEW c \in 0..n, c <= k, NEW f, NEW g, NEW lines, NEW others,
         Loading(f, n, lines), Loading(g, k, others), \A i \in 1..c : lines[i] = others[i]
  PROVE  f[c] = g[c]
<1> DEFINE A == {j \in 0..c : f[j] # g[j]}
<1> SUFFICES ASSUME A # {} PROVE FALSE
  OBVIOUS
<1>1. PICK a \in A : \A i \in 0..(a - 1) : i \notin A
  <2>1. A \in SUBSET (0..c) /\ c \in Nat
    OBVIOUS
  <2> HIDE DEF A
  <2> QED
    BY <2>1, LeastNumber
<1>2. a \in 0..n /\ a \in 0..k
  OBVIOUS
<1>3. CASE a = 0
  BY <1>2, <1>3 DEF Loading
<1>4. CASE a # 0
  <2>1. a - 1 \in 0..(a - 1) /\ a - 1 \in 0..c /\ a \in 1..c
    BY <1>4
  <2>2. f[a - 1] = g[a - 1]
    BY <1>1, <2>1
  <2>3. f[a] = LoadLine(f[a - 1], lines[a]) /\ g[a] = LoadLine(g[a - 1], others[a])
    BY <1>2, <1>4 DEF Loading
  <2> QED
    BY <2>1, <2>2, <2>3
<1> QED
  BY <1>3, <1>4

\* add() keeps the limit.
LEMMA AddHolds ==
  ASSUME NEW S, NEW mem \in Seq(S), Len(mem) <= MaxMessages, NEW e \in S
  PROVE  Add(mem, e) \in Seq(S) /\ Len(Add(mem, e)) <= MaxMessages
<1>1. MaxMessages \in Nat \ {0}
  BY TrapConstants
<1>2. /\ Append(mem, e) \in Seq(S) /\ Len(Append(mem, e)) = Len(mem) + 1 /\ Append(mem, e) # <<>>
      /\ Len(mem) \in Nat
  BY AppendProperties, LenProperties
<1>3. Tail(Append(mem, e)) \in Seq(S) /\ Len(Tail(Append(mem, e))) = Len(mem)
  BY <1>2, HeadTailProperties
<1> QED
  BY <1>1, <1>2, <1>3 DEF Add

LEMMA LoadHolds ==
  ASSUME NEW file \in File
  PROVE  Load(file) \in Seq(Message) /\ Len(Load(file)) <= MaxMessages
<1> DEFINE n == Len(file.lines)
<1>1. n \in Nat /\ \A i \in 1..n : file.lines[i] \in Line
  BY LenProperties, ElementOfSeq DEF File
<1>2. PICK f : Loading(f, n, file.lines) /\ Load(file) = f[n]
  BY <1>1, LoadIsLoading
<1> HIDE DEF n
<1> DEFINE Fine(s) == s \in Seq(Message) /\ Len(s) <= MaxMessages
           A == {j \in 0..n : ~Fine(f[j])}
<1>3. A = {}
  <2> SUFFICES ASSUME A # {} PROVE FALSE
    OBVIOUS
  <2>1. PICK a \in A : \A i \in 0..(a - 1) : i \notin A
    <3>1. A \in SUBSET (0..n)
      OBVIOUS
    <3> HIDE DEF A
    <3> QED
      BY <1>1, <3>1, LeastNumber
  <2>2. CASE a = 0
    <3>1. f[a] = <<>>
      BY <1>1, <1>2, <2>2 DEF Loading
    <3>2. Fine(<<>>)
      BY TrapConstants
    <3> QED
      BY <3>1, <3>2
  <2>3. CASE a # 0
    <3>1. a - 1 \in 0..(a - 1) /\ a - 1 \in 0..n /\ a \in 1..n
      BY <1>1, <2>3
    <3>2. f[a] = LoadLine(f[a - 1], file.lines[a])
      BY <1>1, <1>2, <2>3 DEF Loading
    <3>3. Fine(f[a - 1])
      BY <2>1, <3>1
    <3>4. file.lines[a].msg \in Message
      BY <1>1, <3>1 DEF Line
    <3>5. Fine(Add(f[a - 1], file.lines[a].msg))
      BY <3>3, <3>4, AddHolds
    <3> QED
      BY <3>2, <3>3, <3>5 DEF LoadLine
  <2> QED
    BY <2>2, <2>3
<1>4. Fine(f[n])
  BY <1>1, <1>3
<1> QED
  BY <1>2, <1>4

LEMMA LoadNothing ==
  ASSUME NEW file, file.lines = <<>>
  PROVE  Load(file) = <<>>
<1>1. PICK f : Loading(f, 0, file.lines) /\ Load(file) = f[0]
  BY LoadIsLoading
<1> QED
  BY <1>1 DEF Loading

\* A line that is appended is loaded last.
LEMMA LoadAppended ==
  ASSUME NEW file \in File, NEW l \in Line, NEW longer, longer.lines = Append(file.lines, l)
  PROVE  Load(longer) = LoadLine(Load(file), l)
<1> DEFINE n == Len(file.lines)
<1>1. /\ n \in Nat /\ Len(longer.lines) = n + 1 /\ longer.lines[n + 1] = l
      /\ \A i \in 1..n : file.lines[i] = longer.lines[i]
  BY LenProperties, AppendProperties DEF File
<1>2. PICK f : Loading(f, n, file.lines) /\ Load(file) = f[n]
  BY <1>1, LoadIsLoading
<1> DEFINE k == n + 1
<1>3. PICK g : Loading(g, k, longer.lines) /\ Load(longer) = g[k]
  <2>1. Len(longer.lines) \in Nat
    BY <1>1
  <2> QED
    BY <1>1, <2>1, LoadIsLoading
<1>4. n \in Nat /\ k \in Nat /\ n \in 0..n /\ n <= k /\ k \in 0..k /\ k # 0 /\ k - 1 = n
  BY <1>1
<1> HIDE DEF n, k
<1>5. f[n] = g[n]
  <2>1. /\ Loading(f, n, file.lines) /\ Loading(g, k, longer.lines)
        /\ \A i \in 1..n : file.lines[i] = longer.lines[i]
    BY <1>1, <1>2, <1>3
  <2> QED
    BY ONLY <1>4, <2>1, LoadingsAgree
<1>6. g[k] = LoadLine(g[n], longer.lines[k])
  BY <1>3, <1>4 DEF Loading
<1> QED
  BY <1>1, <1>2, <1>3, <1>5, <1>6 DEF k

\* What is rewritten from memory is loaded as it was.
LEMMA LoadRewritten ==
  ASSUME NEW mem \in Seq(Message), Len(mem) <= MaxMessages
  PROVE  Load(Rewrite(mem)) = mem
<1> DEFINE n == Len(mem)
           lines == Rewrite(mem).lines
<1>1. /\ n \in Nat /\ DOMAIN mem = 1..n /\ MaxMessages \in Nat
      /\ Len(lines) = n /\ \A i \in 1..n : lines[i] = Whole(mem[i])
  BY LenProperties, TrapConstants DEF Rewrite
<1>2. PICK f : Loading(f, n, lines) /\ Load(Rewrite(mem)) = f[n]
  BY <1>1, LoadIsLoading
<1> HIDE DEF n, lines
<1> DEFINE A == {j \in 0..n : f[j] # SubSeq(mem, 1, j)}
<1>3. A = {}
  <2> SUFFICES ASSUME A # {} PROVE FALSE
    OBVIOUS
  <2>1. PICK a \in A : \A i \in 0..(a - 1) : i \notin A
    <3>1. A \in SUBSET (0..n)
      OBVIOUS
    <3> HIDE DEF A
    <3> QED
      BY <1>1, <3>1, LeastNumber
  <2>2. CASE a = 0
    <3>1. f[a] = <<>>
      BY <1>1, <1>2, <2>2 DEF Loading
    <3>2. SubSeq(mem, 1, 0) = <<>>
      BY SubSeqEmpty
    <3> QED
      BY <2>2, <3>1, <3>2
  <2>3. CASE a # 0
    <3>1. a - 1 \in 0..(a - 1) /\ a - 1 \in 0..n /\ a \in 1..n /\ a \in Nat
      BY <1>1, <2>3
    <3>2. f[a] = LoadLine(f[a - 1], lines[a])
      BY <1>1, <1>2, <2>3 DEF Loading
    <3>3. f[a - 1] = SubSeq(mem, 1, a - 1)
      BY <2>1, <3>1
    <3>4. lines[a] = Whole(mem[a]) /\ mem[a] \in Message
      BY <1>1, <3>1, ElementOfSeq DEF n
    <3>5. /\ SubSeq(mem, 1, a - 1) \in Seq(Message) /\ Len(SubSeq(mem, 1, a - 1)) = a - 1
          /\ SubSeq(mem, 1, a) = SubSeq(mem, 1, a - 1) \o <<mem[a]>>
      <4>1. \A i \in 1..(a - 1) : mem[i] \in Message
        BY <3>1, ElementOfSeq DEF n
      <4>2. a - 1 \in Int /\ 1 \in Int /\ (1 <= a - 1 => (a - 1) - 1 + 1 = a - 1) /\ (~(1 <= a - 1) => a - 1 = 0)
        BY <3>1
      <4>3. SubSeq(mem, 1, a - 1) \in Seq(Message) /\ Len(SubSeq(mem, 1, a - 1)) = a - 1
        BY <4>1, <4>2, SubSeqProperties
      <4>4. 1 \in 1..Len(mem) /\ a \in 1..Len(mem)
        BY <1>1, <3>1 DEF n
      <4> QED
        BY <4>3, <4>4, SubSeqRecursiveSecond
    <3>6. Append(SubSeq(mem, 1, a - 1), mem[a]) = SubSeq(mem, 1, a)
      BY <3>4, <3>5, AppendIsConcat
    <3>7. Len(Append(SubSeq(mem, 1, a - 1), mem[a])) = a
      BY <3>1, <3>4, <3>5, AppendProperties
    <3>8. ~(a > MaxMessages)
      BY <1>1, <3>1 DEF n
    <3>9. LoadLine(f[a - 1], lines[a]) = SubSeq(mem, 1, a)
      BY <3>3, <3>4, <3>6, <3>7, <3>8 DEF LoadLine, Add, Whole
    <3> QED
      BY <3>2, <3>9
  <2> QED
    BY <2>2, <2>3
<1>4. SubSeq(mem, 1, n) = mem
  BY SubSeqFull DEF n
<1>5. f[n] = SubSeq(mem, 1, n)
  <2>1. n \in 0..n
    BY <1>1
  <2> HIDE DEF A
  <2>2. n \notin A
    BY <1>3
  <2> QED
    BY <2>1, <2>2 DEF A
<1> QED
  BY <1>2, <1>4, <1>5

-----------------------------------------------------------------------------
(* The store's operations.                                                 *)

\* MarkRead works on the server's messages and on the page's list alike.
LEMMA MarkReadHolds ==
  ASSUME NEW S \in {Message, Entry}, NEW mem \in Seq(S), NEW id
  PROVE  MarkRead(mem, id) \in Seq(S) /\ Len(MarkRead(mem, id)) = Len(mem)
<1>1. Len(mem) \in Nat /\ DOMAIN mem = 1..Len(mem) /\ \A i \in 1..Len(mem) : mem[i] \in S
  BY LenProperties, ElementOfSeq
<1>2. \A i \in 1..Len(mem) : [mem[i] EXCEPT !.read = TRUE] \in S
  BY <1>1 DEF Message, Entry
<1>3. MarkRead(mem, id) \in [1..Len(mem) -> S]
  BY <1>1, <1>2 DEF MarkRead
<1> QED
  BY <1>1, <1>3

LEMMA MarkReadAgain ==
  ASSUME NEW S \in {Message, Entry}, NEW mem \in Seq(S), NEW id,
         \A i \in WithId(mem, id) : mem[i].read
  PROVE  MarkRead(mem, id) = mem
<1>1. Len(mem) \in Nat /\ DOMAIN mem = 1..Len(mem) /\ \A i \in 1..Len(mem) : mem[i] \in S
  BY LenProperties, ElementOfSeq
<1>2. mem = [i \in 1..Len(mem) |-> mem[i]]
  BY <1>1
<1>3. ASSUME NEW i \in 1..Len(mem), mem[i].id = id
      PROVE  [mem[i] EXCEPT !.read = TRUE] = mem[i]
  <2>1. mem[i] \in S /\ mem[i].read
    BY <1>1, <1>3 DEF WithId
  <2>2. mem[i].read = TRUE
    BY <2>1 DEF Message, Entry
  <2> QED
    BY <2>1, <2>2 DEF Message, Entry
<1> QED
  BY <1>1, <1>2, <1>3 DEF MarkRead

LEMMA WithoutHolds ==
  ASSUME NEW S, NEW mem \in Seq(S), NEW id
  PROVE  Without(mem, id) \in Seq(S) /\ Len(Without(mem, id)) <= Len(mem)
<1> DEFINE at == WithId(mem, id)
           n == Len(mem)
<1>1. n \in Nat /\ DOMAIN mem = 1..n /\ \A i \in 1..n : mem[i] \in S
  BY LenProperties, ElementOfSeq
<1>2. CASE at = {}
  BY <1>1, <1>2 DEF Without
<1>3. CASE at # {}
  <2>1. at \subseteq 0..n
    BY <1>1 DEF WithId
  <2>2. \E i \in at : \A k \in at : i <= k
    <3> HIDE DEF at
    <3>1. PICK i \in at : \A k \in 0..(i - 1) : k \notin at
      BY <1>1, <1>3, <2>1, LeastNumber
    <3>2. \A k \in at : i <= k
      BY <1>1, <2>1, <3>1
    <3> QED
      BY <3>2
  <2> DEFINE first == CHOOSE i \in at : \A k \in at : i <= k
  <2>3. first \in 1..n
    <3>1. first \in at
      BY <2>2
    <3> QED
      BY <1>1, <3>1 DEF WithId
  <2>4. Without(mem, id) = SubSeq(mem, 1, first - 1) \o SubSeq(mem, first + 1, n)
    BY <1>3 DEF Without, RemoveAt
  <2> HIDE DEF first
  <2>5. SubSeq(mem, 1, first - 1) \in Seq(S) /\ Len(SubSeq(mem, 1, first - 1)) = first - 1
    <3>1. \A i \in 1..(first - 1) : mem[i] \in S
      BY <1>1, <2>3
    <3>2. first - 1 \in Int /\ (1 <= first - 1 => (first - 1) - 1 + 1 = first - 1) /\ (~(1 <= first - 1) => first - 1 = 0)
      BY <1>1, <2>3
    <3> QED
      BY <3>1, <3>2, SubSeqProperties
  <2>6. SubSeq(mem, first + 1, n) \in Seq(S) /\ Len(SubSeq(mem, first + 1, n)) = n - first
    <3>1. \A i \in (first + 1)..n : mem[i] \in S
      BY <1>1, <2>3
    <3> HIDE DEF n
    <3>2. /\ first + 1 \in Int /\ n \in Int
          /\ (IF first + 1 <= n THEN n - (first + 1) + 1 ELSE 0) = n - first
      BY <1>1, <2>3
    <3> QED
      BY <3>1, <3>2, SubSeqProperties
  <2>7. (first - 1) + (n - first) <= n
    BY <1>1, <2>3
  <2> QED
    BY <2>4, <2>5, <2>6, <2>7, ConcatProperties
<1> QED
  BY <1>2, <1>3

LEMMA ListingHolds ==
  ASSUME NEW mem \in Seq(Message)
  PROVE  /\ Listing(mem) \in Seq(Entry)
         /\ \A id : WithId(mem, id) = {} => WithId(Listing(mem), id) = {}
<1> DEFINE n == Len(mem)
           entries == [i \in DOMAIN mem |-> [id |-> mem[i].id, read |-> mem[i].read]]
<1>1. n \in Nat /\ DOMAIN mem = 1..n /\ \A i \in 1..n : mem[i] \in Message
  BY LenProperties, ElementOfSeq
<1>2. entries \in [1..n -> Entry] /\ entries \in Seq(Entry) /\ Len(entries) = n
  <2>1. entries \in [1..n -> Entry]
    BY <1>1 DEF Message, Entry
  <2> QED
    BY <1>1, <2>1
<1>3. Listing(mem) = [i \in 1..n |-> entries[(n - i) + 1]]
  BY <1>2 DEF Listing, Reverse
<1>4. \A i \in 1..n : (n - i) + 1 \in 1..n
  BY <1>1
<1>5. Listing(mem) \in [1..n -> Entry]
  BY <1>2, <1>3, <1>4
<1>6. ASSUME NEW id, WithId(mem, id) = {}, NEW i \in WithId(Listing(mem), id)
      PROVE  FALSE
  <2>1. i \in 1..n /\ Listing(mem)[i].id = id
    BY <1>5 DEF WithId
  <2>2. (n - i) + 1 \in DOMAIN mem /\ mem[(n - i) + 1].id = id
    BY <1>1, <1>3, <1>4, <2>1
  <2> QED
    BY <1>6, <2>2 DEF WithId
<1> QED
  BY <1>1, <1>5, <1>6

-----------------------------------------------------------------------------
(* The file.                                                               *)

LEMMA WholeHolds ==
  ASSUME NEW e \in Message
  PROVE  Whole(e) \in Line
BY DEF Whole, Line

LEMMA LastHolds ==
  ASSUME NEW S, NEW s \in Seq(S), s # <<>>
  PROVE  /\ Last(s) \in S /\ Last(s) = s[Len(s)] /\ Len(s) \in 1..Len(s)
         /\ Front(s) \in Seq(S) /\ Len(Front(s)) = Len(s) - 1
<1>1. Len(s) \in Nat \ {0} /\ \A i \in 1..Len(s) : s[i] \in S
  BY EmptySeq, ElementOfSeq
<1> DEFINE n == Len(s) - 1
<1>2. n \in Nat /\ n \in Int /\ 1 \in Int /\ \A i \in 1..n : s[i] \in S
  BY <1>1
<1>3. SubSeq(s, 1, n) \in Seq(S) /\ Len(SubSeq(s, 1, n)) = n
  <2> HIDE DEF n
  <2>1. (IF 1 <= n THEN n - 1 + 1 ELSE 0) = n
    BY <1>2
  <2> QED
    BY <1>2, <2>1, SubSeqProperties
<1> QED
  BY <1>1, <1>3 DEF Last, Front

LEMMA AppendToHolds ==
  ASSUME NEW file \in File, NEW e \in Message
  PROVE  /\ AppendTo(file, e) \in File /\ AppendTo(file, e).lines # <<>>
         /\ Intact(AppendTo(file, e)) =>
              /\ Intact(file)
              /\ Load(AppendTo(file, e)) = Add(Load(file), e)
<1>1. file.lines \in Seq(Line) /\ Whole(e) \in Line /\ [msg |-> e, state |-> "corrupt"] \in Line
  BY WholeHolds DEF File, Line
<1> DEFINE longer == AppendTo(file, e)
<1>2. CASE Torn(file)
  <2> DEFINE rest == Front(file.lines)
             l == [msg |-> e, state |-> "corrupt"]
  <2>1. file.lines # <<>> /\ longer = [exists |-> TRUE, lines |-> Append(rest, l)]
    BY <1>2 DEF Torn, AppendTo
  <2>2. rest \in Seq(Line)
    BY <1>1, <2>1, LastHolds
  <2> HIDE DEF rest, l
  <2>3. /\ Append(rest, l) \in Seq(Line) /\ Append(rest, l) # <<>> /\ Len(rest) \in Nat
        /\ Len(Append(rest, l)) = Len(rest) + 1 /\ Append(rest, l)[Len(rest) + 1] = l
    BY <1>1, <2>2, AppendProperties, LenProperties DEF l
  <2>4. ~Intact(longer)
    <3>1. Len(rest) + 1 \in DOMAIN longer.lines
      BY <2>1, <2>3, LenProperties
    <3> QED
      BY <2>1, <2>3, <3>1 DEF Intact, l
  <2> QED
    BY <2>1, <2>3, <2>4 DEF File
<1>3. CASE ~Torn(file)
  <2>1. longer = [exists |-> TRUE, lines |-> Append(file.lines, Whole(e))]
    BY <1>3 DEF AppendTo
  <2>2. /\ Append(file.lines, Whole(e)) \in Seq(Line) /\ Append(file.lines, Whole(e)) # <<>>
        /\ Len(Append(file.lines, Whole(e))) = Len(file.lines) + 1 /\ Len(file.lines) \in Nat
        /\ \A i \in 1..Len(file.lines) : Append(file.lines, Whole(e))[i] = file.lines[i]
    BY <1>1, AppendProperties, LenProperties
  <2>3. longer \in File /\ longer.lines # <<>>
    BY <2>1, <2>2 DEF File
  <2>4. Intact(longer) => Intact(file)
    <3>1. DOMAIN file.lines = 1..Len(file.lines) /\ DOMAIN longer.lines = 1..(Len(file.lines) + 1)
      BY <1>1, <2>1, <2>2, LenProperties
    <3> QED
      BY <2>1, <2>2, <3>1 DEF Intact
  <2>5. Load(longer) = LoadLine(Load(file), Whole(e))
    <3>1. longer.lines = Append(file.lines, Whole(e))
      BY <2>1
    <3> QED
      BY <1>1, <3>1, LoadAppended
  <2>6. LoadLine(Load(file), Whole(e)) = Add(Load(file), e)
    BY DEF LoadLine, Whole
  <2> QED
    BY <2>3, <2>4, <2>5, <2>6
<1> QED
  BY <1>2, <1>3

LEMMA RewriteHolds ==
  ASSUME NEW mem \in Seq(Message)
  PROVE  Rewrite(mem) \in File
<1>1. Len(mem) \in Nat /\ DOMAIN mem = 1..Len(mem) /\ \A i \in 1..Len(mem) : Whole(mem[i]) \in Line
  BY LenProperties, ElementOfSeq, WholeHolds
<1>2. [i \in DOMAIN mem |-> Whole(mem[i])] \in [1..Len(mem) -> Line]
  BY <1>1
<1>3. [i \in DOMAIN mem |-> Whole(mem[i])] \in Seq(Line)
  BY <1>1, <1>2
<1> QED
  BY <1>3 DEF Rewrite, File

\* What is left of it when the process is killed.
LEMMA UptoHolds ==
  ASSUME NEW file \in File, NEW k \in 0..Len(file.lines)
  PROVE  SubSeq(file.lines, 1, k) \in Seq(Line) /\ Upto(file, k) \in File
<1>1. file.lines \in Seq(Line)
  BY DEF File
<1>2. Len(file.lines) \in Nat /\ \A i \in 1..Len(file.lines) : file.lines[i] \in Line
  BY <1>1, LenProperties, ElementOfSeq
<1>3. k \in Int /\ 1 \in Int /\ \A i \in 1..k : file.lines[i] \in Line
  BY <1>2
<1>4. SubSeq(file.lines, 1, k) \in Seq(Line)
  BY <1>3, SubSeqProperties
<1> QED
  BY <1>4 DEF Upto, File

LEMMA PartlyHolds ==
  ASSUME NEW file \in File, trap.file \in File, NEW f \in Partly(file)
  PROVE  f \in File
<1>1. file.lines \in Seq(Line)
  BY DEF File
<1>2. Len(file.lines) \in Nat /\ \A i \in 1..Len(file.lines) : file.lines[i] \in Line
  BY <1>1, LenProperties, ElementOfSeq
<1>3. ASSUME NEW k \in 1..Len(file.lines) PROVE TornAt(file, k) \in File
  <2>1. k - 1 \in 0..Len(file.lines) /\ file.lines[k] \in Line
    BY <1>2
  <2>2. SubSeq(file.lines, 1, k - 1) \in Seq(Line)
    BY <2>1, UptoHolds
  <2>3. [msg |-> file.lines[k].msg, state |-> "torn"] \in Line
    BY <2>1 DEF Line
  <2>4. Append(SubSeq(file.lines, 1, k - 1), [msg |-> file.lines[k].msg, state |-> "torn"]) \in Seq(Line)
    BY <2>2, <2>3, AppendProperties
  <2> QED
    BY <2>4 DEF TornAt, File
<1>4. CASE Appends(file)
  <2>1. Len(file.lines) \in 1..Len(file.lines)
    BY <1>1, <1>2, <1>4, EmptySeq DEF Appends
  <2> QED
    BY <2>1, <1>3, <1>4 DEF Partly
<1>5. CASE ~Appends(file)
  BY <1>3, <1>5, UptoHolds DEF Partly
<1> QED
  BY <1>4, <1>5

-----------------------------------------------------------------------------
(* Requests.                                                               *)

\* The request that is answered next: those before it are answered, those after it
\* are not.
LEMMA RequestHolds ==
  ASSUME NEW what, Asked(what), calls \in Seq(Call), InOrder(calls)
  PROVE  /\ Request \in 1..Len(calls) /\ Len(calls) \in Nat
         /\ calls[Request].state = "asked" /\ calls[Request].what = what
         /\ calls[Request] \in Call
         /\ \A k \in 1..Len(calls) : calls[k].state = "asked" <=> Request <= k
<1> DEFINE n == Len(calls)
           Turn(i) == calls[i].state = "asked" /\ \A k \in 1..(i - 1) : calls[k].state # "asked"
<1>1. n \in Nat /\ DOMAIN calls = 1..n /\ \A i \in 1..n : calls[i] \in Call
  BY LenProperties, ElementOfSeq
<1>2. PICK i \in 1..n : Turn(i) /\ calls[i].what = what
  BY <1>1 DEF Asked
<1>3. Request \in 1..n /\ Turn(Request)
  BY <1>1, <1>2 DEF Request
<1>4. Request = i
  <2>1. ~(i < Request)
    <3> SUFFICES ASSUME i < Request PROVE FALSE
      OBVIOUS
    <3>1. i \in 1..(Request - 1)
      BY <1>1, <1>3
    <3> QED
      BY <1>2, <1>3, <3>1
  <2>2. ~(Request < i)
    <3> SUFFICES ASSUME Request < i PROVE FALSE
      OBVIOUS
    <3>1. Request \in 1..(i - 1)
      BY <1>1, <1>3
    <3> QED
      BY <1>2, <1>3, <3>1
  <2> QED
    BY <1>1, <1>3, <2>1, <2>2
<1>5. ASSUME NEW k \in 1..n
      PROVE  calls[k].state = "asked" <=> Request <= k
  <2>1. CASE k < Request
    <3>1. k \in 1..(Request - 1) /\ ~(Request <= k)
      BY <1>1, <1>3, <2>1
    <3> QED
      BY <1>3, <3>1
  <2>2. CASE Request < k
    <3>1. calls[k].state = "asked"
      BY <1>1, <1>3, <2>2 DEF InOrder
    <3> QED
      BY <1>1, <1>3, <2>2, <3>1
  <2>3. CASE Request = k
    BY <1>3, <2>3
  <2> QED
    BY <1>1, <1>3, <2>1, <2>2, <2>3
<1> QED
  BY <1>1, <1>2, <1>3, <1>4, <1>5

LEMMA FunctionIsList ==
  ASSUME NEW S, NEW n \in Nat, NEW f \in [1..n -> S]
  PROVE  f \in Seq(S) /\ Len(f) = n
OBVIOUS

LEMMA AnswerKeepsOrder ==
  ASSUME NEW cs \in Seq(Call), NEW r \in 1..Len(cs),
         \A k \in 1..Len(cs) : cs[k].state = "asked" <=> r <= k,
         NEW next \in Seq(Call), Len(next) = Len(cs), next[r].state # "asked",
         \A k \in 1..Len(cs) : k # r => next[k] = cs[k]
  PROVE  InOrder(next)
<1> DEFINE n == Len(cs)
<1>1. n \in Nat /\ DOMAIN cs = 1..n /\ DOMAIN next = 1..n
  BY LenProperties
<1> SUFFICES ASSUME NEW i \in 1..n, NEW k \in 1..n, i < k, next[k].state # "asked"
             PROVE  next[i].state # "asked"
  BY <1>1 DEF InOrder
<1>2. k = r \/ cs[k].state # "asked"
  OBVIOUS
<1>3. i # r /\ ~(r <= i)
  BY <1>1, <1>2
<1> QED
  BY <1>3

LEMMA AnswerHolds ==
  ASSUME NEW what, Asked(what), calls \in Seq(Call), InOrder(calls),
         NEW outcome \in {"answered", "not found"}, NEW entries \in Seq(Entry), Answer(outcome, entries)
  PROVE  /\ calls' \in Seq(Call) /\ InOrder(calls') /\ Len(calls') = Len(calls)
         /\ calls'[Request].state = outcome /\ calls'[Request].what = what
         /\ calls'[Request].list = entries /\ calls'[Request].id = calls[Request].id
         /\ \A k \in 1..Len(calls) : k # Request => calls'[k] = calls[k]
<1> DEFINE call == [[calls[Request] EXCEPT !.state = outcome] EXCEPT !.list = entries]
<1>1. /\ Request \in 1..Len(calls) /\ calls[Request].what = what /\ calls[Request] \in Call
      /\ \A k \in 1..Len(calls) : calls[k].state = "asked" <=> Request <= k
  BY RequestHolds
<1>2. /\ call \in Call /\ call.state = outcome /\ call.what = what /\ call.list = entries
      /\ call.id = calls[Request].id
  BY <1>1 DEF Call
<1>3. calls' = [calls EXCEPT ![Request] = call]
  <2>1. calls' = [[calls EXCEPT ![Request].state = outcome] EXCEPT ![Request].list = entries]
    BY DEF Answer
  <2>2. DOMAIN calls = 1..Len(calls) /\ calls = [k \in 1..Len(calls) |-> calls[k]]
    BY LenProperties
  <2> QED
    BY <1>1, <2>1, <2>2
<1> HIDE DEF call
<1>4. /\ calls' \in Seq(Call) /\ Len(calls') = Len(calls)
      /\ \A k \in 1..Len(calls) : calls'[k] = IF k = Request THEN call ELSE calls[k]
  <2>1. /\ Len(calls) \in Nat /\ calls \in [1..Len(calls) -> Call] /\ Request \in 1..Len(calls)
        /\ call \in Call
    BY <1>1, <1>2, LenProperties
  <2>2. calls' \in [1..Len(calls) -> Call]
    BY <1>3, <2>1
  <2>3. \A k \in 1..Len(calls) : calls'[k] = IF k = Request THEN call ELSE calls[k]
    BY <1>3, <2>1
  <2>4. calls' \in Seq(Call) /\ Len(calls') = Len(calls)
    BY <2>1, <2>2, FunctionIsList
  <2> QED
    BY <2>3, <2>4
<1>5. calls'[Request] = call /\ \A k \in 1..Len(calls) : k # Request => calls'[k] = calls[k]
  BY <1>1, <1>4
<1>6. InOrder(calls')
  <2>1. calls'[Request].state # "asked"
    BY <1>2, <1>5
  <2> QED
    BY <1>1, <1>4, <1>5, <2>1, AnswerKeepsOrder
<1> QED
  BY <1>2, <1>4, <1>5, <1>6

\* What is asked comes last.
LEMMA AskHolds ==
  ASSUME NEW cs \in Seq(Call), NEW what \in {"list", "message", "delete", "clear"}, NEW id \in Nat
  PROVE  /\ AskFor(cs, what, id) \in Seq(Call)
         /\ InOrder(cs) => InOrder(AskFor(cs, what, id))
         /\ Due(cs) \/ what = "list" => Due(AskFor(cs, what, id))
         /\ \A list, mem : Current(list, cs, mem) => Current(list, AskFor(cs, what, id), mem)
<1> DEFINE n == Len(cs)
           c == [what |-> what, id |-> id, state |-> "asked", list |-> <<>>]
           more == Append(cs, c)
<1>1. c \in Call
  <2>1. <<>> \in Seq(Entry)
    OBVIOUS
  <2> QED
    BY <2>1 DEF Call
<1>2. AskFor(cs, what, id) = more
  BY DEF AskFor
<1>3. /\ n \in Nat /\ DOMAIN cs = 1..n /\ DOMAIN more = 1..(n + 1) /\ Len(more) = n + 1
      /\ more \in Seq(Call) /\ more[n + 1] = c /\ \A i \in 1..n : more[i] = cs[i]
  <2> HIDE DEF c
  <2>1. /\ more \in Seq(Call) /\ Len(more) = n + 1 /\ more[n + 1] = c /\ \A i \in 1..n : more[i] = cs[i]
    BY <1>1, AppendProperties
  <2> QED
    BY <2>1, LenProperties
<1>4. c.state = "asked" /\ c.what = what
  OBVIOUS
<1> HIDE DEF c, more, n
<1>5. ASSUME InOrder(cs) PROVE InOrder(more)
  <2> SUFFICES ASSUME NEW i \in 1..(n + 1), NEW k \in 1..(n + 1), i < k, more[k].state # "asked"
               PROVE  more[i].state # "asked"
    BY <1>3 DEF InOrder
  <2>1. k \in 1..n /\ i \in 1..n
    BY <1>3, <1>4
  <2> QED
    BY <1>3, <1>5, <2>1 DEF InOrder
<1>6. ASSUME Due(cs) \/ what = "list" PROVE Due(more)
  <2>1. CASE what = "list"
    <3>1. n + 1 \in DOMAIN more /\ Renews(more[n + 1])
      BY <1>3, <1>4, <2>1 DEF Renews
    <3> QED
      BY <3>1 DEF Due
  <2>2. CASE Due(cs)
    <3>1. PICK i \in 1..n : Renews(cs[i])
      BY <1>3, <2>2 DEF Due
    <3>2. i \in DOMAIN more /\ more[i] = cs[i]
      BY <1>3
    <3> QED
      BY <3>1, <3>2 DEF Due
  <2> QED
    BY <1>6, <2>1, <2>2
<1>7. ASSUME NEW list, NEW mem, Current(list, cs, mem) PROVE Current(list, more, mem)
  <2>1. PICK i \in 0..n : UpTo(i, list, cs, mem)
    BY <1>7 DEF Current, n
  <2>2. UpTo(i, list, more, mem)
    <3>1. IF i = 0 THEN list = Listing(mem)
          ELSE more[i].what = "list" /\ more[i].state # "asked" /\ more[i].list = Listing(mem)
      BY <1>3, <2>1 DEF UpTo
    <3>2. ASSUME NEW k \in (i + 1)..(n + 1), more[k].state # "asked"
          PROVE  more[k].what = "message" /\ WithId(mem, more[k].id) = {}
      <4>1. k \in (i + 1)..n /\ k \in 1..n
        BY <1>3, <1>4, <3>2
      <4> QED
        BY <1>3, <2>1, <3>2, <4>1 DEF UpTo, n
    <3> QED
      BY <1>3, <3>1, <3>2 DEF UpTo
  <2> QED
    BY <1>3, <2>2 DEF Current
<1> QED
  BY <1>2, <1>3, <1>5, <1>6, <1>7

LEMMA ReloadedHolds ==
  ASSUME NEW cs \in Seq(Call)
  PROVE  /\ Reloaded(cs) \in Seq(Call)
         /\ InOrder(cs) => InOrder(Reloaded(cs))
         /\ Due(cs) \/ Accepting => Due(Reloaded(cs))
         /\ \A list, mem : Current(list, cs, mem) => Current(list, Reloaded(cs), mem)
<1>1. 0 \in Nat
  OBVIOUS
<1> QED
  BY <1>1, AskHolds DEF Reloaded

\* The oldest answer is taken.
LEMMA TakenHolds ==
  ASSUME NEW cs \in Seq(Call), cs # <<>>
  PROVE  /\ Head(cs) \in Call /\ Tail(cs) \in Seq(Call)
         /\ InOrder(cs) => InOrder(Tail(cs))
         /\ Due(cs) /\ ~Renews(Head(cs)) => Due(Tail(cs))
<1> DEFINE n == Len(cs)
<1>1. /\ n \in Nat \ {0} /\ DOMAIN cs = 1..n /\ Head(cs) = cs[1] /\ cs[1] \in Call
      /\ Tail(cs) \in Seq(Call) /\ Len(Tail(cs)) = n - 1 /\ DOMAIN Tail(cs) = 1..(n - 1)
      /\ \A i \in 1..(n - 1) : Tail(cs)[i] = cs[i + 1]
  <2>1. n \in Nat \ {0} /\ DOMAIN cs = 1..n
    BY EmptySeq, LenProperties
  <2>2. /\ Tail(cs) \in Seq(Call) /\ Len(Tail(cs)) = n - 1
        /\ \A i \in 1..(n - 1) : Tail(cs)[i] = cs[i + 1]
    BY HeadTailProperties
  <2>3. DOMAIN Tail(cs) = 1..(n - 1)
    BY <2>2, LenProperties
  <2>4. Head(cs) = cs[1] /\ cs[1] \in Call
    BY <2>1, ElementOfSeq
  <2> QED
    BY <2>1, <2>2, <2>3, <2>4
<1> HIDE DEF n
<1>2. ASSUME InOrder(cs) PROVE InOrder(Tail(cs))
  <2> SUFFICES ASSUME NEW i \in 1..(n - 1), NEW k \in 1..(n - 1), i < k, Tail(cs)[k].state # "asked"
               PROVE  Tail(cs)[i].state # "asked"
    BY <1>1 DEF InOrder
  <2>1. i + 1 \in 1..n /\ k + 1 \in 1..n /\ i + 1 < k + 1
    BY <1>1
  <2> QED
    BY <1>1, <1>2, <2>1 DEF InOrder
<1>3. ASSUME Due(cs), ~Renews(Head(cs)) PROVE Due(Tail(cs))
  <2>1. PICK i \in 1..n : Renews(cs[i])
    BY <1>1, <1>3 DEF Due
  <2>2. i - 1 \in 1..(n - 1) /\ (i - 1) + 1 = i
    BY <1>1, <1>3, <2>1
  <2>3. i - 1 \in DOMAIN Tail(cs) /\ Renews(Tail(cs)[i - 1])
    BY <1>1, <2>1, <2>2
  <2> QED
    BY <2>3 DEF Due
<1> QED
  BY <1>1, <1>2, <1>3

\* A list that was answered becomes the page's, and the answer that a message is gone
\* leaves a list as it is that does not have it.
LEMMA TakenCurrent ==
  ASSUME NEW cs \in Seq(Call), cs # <<>>, Head(cs).state # "asked",
         NEW mem \in Seq(Message), NEW list, Current(list, cs, mem)
  PROVE  /\ Head(cs).what = "list" => Current(Head(cs).list, Tail(cs), mem)
         /\ Head(cs).what = "message" => Current(MarkRead(list, Head(cs).id), Tail(cs), mem)
<1> DEFINE n == Len(cs)
           next == IF Head(cs).what = "list" THEN Head(cs).list ELSE MarkRead(list, Head(cs).id)
<1>1. /\ n \in Nat \ {0} /\ Head(cs) = cs[1] /\ Len(Tail(cs)) = n - 1
      /\ \A i \in 1..(n - 1) : Tail(cs)[i] = cs[i + 1]
  BY EmptySeq, HeadTailProperties
<1>2. PICK i \in 0..n : UpTo(i, list, cs, mem)
  BY DEF Current
<1>3. ASSUME NEW j \in 0..(n - 1), i <= j + 1,
             IF j = 0 THEN next = Listing(mem)
             ELSE Tail(cs)[j].what = "list" /\ Tail(cs)[j].state # "asked" /\ Tail(cs)[j].list = Listing(mem)
      PROVE  Current(next, Tail(cs), mem)
  <2> HIDE DEF n, next
  <2>1. ASSUME NEW k \in (j + 1)..(n - 1), Tail(cs)[k].state # "asked"
        PROVE  Tail(cs)[k].what = "message" /\ WithId(mem, Tail(cs)[k].id) = {}
    <3>1. k + 1 \in (i + 1)..n /\ k \in 1..(n - 1)
      BY <1>1, <1>3
    <3> QED
      BY <1>1, <1>2, <2>1, <3>1 DEF UpTo, n
  <2>2. UpTo(j, next, Tail(cs), mem)
    BY <1>1, <1>3, <2>1 DEF UpTo
  <2> QED
    BY <1>1, <2>2 DEF Current
<1>4. Head(cs).what \in {"list", "message"} => Current(next, Tail(cs), mem)
  <2> SUFFICES ASSUME Head(cs).what \in {"list", "message"} PROVE Current(next, Tail(cs), mem)
    OBVIOUS
  <2> HIDE DEF n
  <2>1. CASE i = 0
    <3>1. 1 \in (i + 1)..n
      BY <1>1, <2>1
    <3>2. list = Listing(mem) /\ cs[1].what = "message" /\ WithId(mem, cs[1].id) = {}
      BY <1>1, <1>2, <2>1, <3>1 DEF UpTo, n
    <3>3. Listing(mem) \in Seq(Entry) /\ WithId(Listing(mem), cs[1].id) = {}
      BY <3>2, ListingHolds
    <3>4. MarkRead(Listing(mem), cs[1].id) = Listing(mem)
      BY <3>3, MarkReadAgain
    <3>5. next = Listing(mem)
      BY <1>1, <3>2, <3>4
    <3>6. 0 \in 0..(n - 1) /\ i <= 0 + 1
      BY <1>1, <2>1
    <3> HIDE DEF next
    <3> QED
      BY <1>3, <3>5, <3>6
  <2>2. CASE i = 1
    <3>1. next = Listing(mem)
      BY <1>1, <1>2, <2>2 DEF UpTo
    <3>2. 0 \in 0..(n - 1) /\ i <= 0 + 1
      BY <1>1, <2>2
    <3> HIDE DEF next
    <3> QED
      BY <1>3, <3>1, <3>2
  <2>3. CASE i > 1
    <3>1. i - 1 \in 0..(n - 1) /\ i - 1 \in 1..(n - 1) /\ i - 1 # 0 /\ (i - 1) + 1 = i /\ i <= (i - 1) + 1
      BY <1>1, <2>3
    <3>2. /\ Tail(cs)[i - 1].what = "list" /\ Tail(cs)[i - 1].state # "asked"
          /\ Tail(cs)[i - 1].list = Listing(mem)
      BY <1>1, <1>2, <2>3, <3>1 DEF UpTo
    <3> HIDE DEF next
    <3> QED
      BY <1>3, <3>1, <3>2
  <2> QED
    BY <2>1, <2>2, <2>3
<1> QED
  BY <1>4

-----------------------------------------------------------------------------
(* What one step does to the parts of the invariant.                       *)

LEMMA BroadcastHolds ==
  ASSUME NEW event \in Kinds, events \in Seq(Kinds), Broadcast(event)
  PROVE  /\ events' \in Seq(Kinds)
         /\ \A kinds : Carries(kinds) => Carries(kinds)'
         /\ \A kinds : trap.sse /\ event \in kinds => Carries(kinds)'
<1>1. CASE ~trap.sse
  <2>1. events' = events
    BY <1>1 DEF Broadcast
  <2> QED
    BY <1>1, <2>1 DEF Carries
<1>2. CASE trap.sse
  <2>1. events' = Append(events, event)
    BY <1>2 DEF Broadcast
  <2>2. /\ events' \in Seq(Kinds) /\ Len(events') = Len(events) + 1 /\ events'[Len(events) + 1] = event
        /\ \A i \in 1..Len(events) : events'[i] = events[i]
    BY <2>1, AppendProperties
  <2>3. Len(events) \in Nat /\ DOMAIN events = 1..Len(events) /\ DOMAIN events' = 1..(Len(events) + 1)
    BY <2>2, LenProperties
  <2>4. ASSUME NEW kinds, Carries(kinds) PROVE Carries(kinds)'
    <3>1. PICK i \in 1..Len(events) : events[i] \in kinds
      BY <2>3, <2>4 DEF Carries
    <3>2. i \in DOMAIN events' /\ events'[i] \in kinds
      BY <2>2, <2>3, <3>1
    <3> QED
      BY <3>2 DEF Carries
  <2>5. ASSUME NEW kinds, event \in kinds PROVE Carries(kinds)'
    <3>1. Len(events) + 1 \in DOMAIN events' /\ events'[Len(events) + 1] \in kinds
      BY <2>2, <2>3, <2>5
    <3> QED
      BY <3>1 DEF Carries
  <2> QED
    BY <2>2, <2>4, <2>5
<1> QED
  BY <1>1, <1>2

\* A change the page is told of, and the end of its stream.
LEMMA ToldHolds ==
  ASSUME NEW event \in Reloads \ {"open"}, events \in Seq(Kinds), Broadcast(event)
  PROVE  /\ events' \in Seq(Kinds) /\ (Carries(Farewell) => Carries(Farewell)')
         /\ trap.sse => Carries(Reloads)'
         /\ ~trap.sse => events' = events
<1>1. event \in Kinds /\ event \in Reloads
  BY DEF Kinds, Reloads
<1>2. events' \in Seq(Kinds) /\ (Carries(Farewell) => Carries(Farewell)') /\ (trap.sse => Carries(Reloads)')
  BY <1>1, BroadcastHolds
<1> QED
  BY <1>2 DEF Broadcast

LEMMA EndTold ==
  ASSUME NEW event \in Farewell, events \in Seq(Kinds), Broadcast(event)
  PROVE  /\ events' \in Seq(Kinds) /\ (Carries(Farewell) => Carries(Farewell)')
         /\ trap.sse => Carries(Farewell)'
         /\ ~trap.sse => events' = events
<1>1. event \in Kinds
  BY DEF Kinds, Farewell
<1>2. events' \in Seq(Kinds) /\ (Carries(Farewell) => Carries(Farewell)') /\ (trap.sse => Carries(Farewell)')
  BY <1>1, BroadcastHolds
<1> QED
  BY <1>2 DEF Broadcast

LEMMA KeptSame ==
  ASSUME Kept, trap'.mem = trap.mem, trap'.file = trap.file, Running' => Running
  PROVE  Kept'
BY DEF Kept

\* A page that is told the end of its stream, or that has none, need not follow.
LEMMA FollowingEnds ==
  ASSUME page'.stream = "live" => Carries(Farewell)'
  PROVE  Following'
BY DEF Following

-----------------------------------------------------------------------------
(* Requests that are served.                                               *)

LEMMA ServeListKeeps ==
  ASSUME TrapInv, ServeList
  PROVE  TrapInv'
<1>1. Asked("list") /\ Answer("answered", Listing(trap.mem)) /\ UNCHANGED <<trap, page, events>>
  BY DEF ServeList
<1>2. calls \in Seq(Call) /\ InOrder(calls) /\ trap.mem \in Seq(Message)
  BY DEF TrapInv, TrapTypes, WireTypes, StoreTypes
<1>3. Listing(trap.mem) \in Seq(Entry)
  BY <1>2, ListingHolds
<1>4. /\ calls' \in Seq(Call) /\ InOrder(calls') /\ Len(calls') = Len(calls)
      /\ calls'[Request].state = "answered" /\ calls'[Request].what = "list"
      /\ calls'[Request].list = Listing(trap.mem)
      /\ \A k \in 1..Len(calls) : k # Request => calls'[k] = calls[k]
  BY <1>1, <1>2, <1>3, AnswerHolds
<1>5. /\ Request \in 1..Len(calls) /\ Len(calls) \in Nat
      /\ \A k \in 1..Len(calls) : calls[k].state = "asked" <=> Request <= k
  BY <1>1, <1>2, RequestHolds
<1>6. TrapTypes'
  BY <1>1, <1>4 DEF TrapInv, TrapTypes, StoreTypes, PageTypes, WireTypes
<1>7. Kept'
  BY <1>1, KeptSame DEF TrapInv, Running
<1>8. Streaming'
  BY <1>1 DEF TrapInv, Streaming, Carries, Accepting
<1>9. Current(page.list, calls', trap.mem)
  <2>1. ASSUME NEW k \in (Request + 1)..Len(calls) PROVE calls'[k].state = "asked"
    <3>1. k \in 1..Len(calls) /\ k # Request /\ Request <= k
      BY <1>5
    <3> QED
      BY <1>4, <1>5, <3>1
  <2>2. Request # 0 /\ Request \in 0..Len(calls)
    BY <1>5
  <2>3. UpTo(Request, page.list, calls', trap.mem)
    BY <1>4, <2>1, <2>2 DEF UpTo
  <2> QED
    BY <1>4, <2>2, <2>3 DEF Current
<1>10. Following'
  BY <1>1, <1>9 DEF Following
<1> QED
  BY <1>4, <1>6, <1>7, <1>8, <1>10 DEF TrapInv

\* A request for a message that is gone.
LEMMA UnknownKeeps ==
  ASSUME TrapInv, NEW what \in {"message", "delete"}, Unknown(what)
  PROVE  TrapInv'
<1>1. /\ Asked(what) /\ WithId(trap.mem, calls[Request].id) = {} /\ Answer("not found", <<>>)
      /\ UNCHANGED <<trap, page, events>>
  BY DEF Unknown
<1>2. calls \in Seq(Call) /\ InOrder(calls)
  BY DEF TrapInv, TrapTypes, WireTypes
<1>3. <<>> \in Seq(Entry)
  OBVIOUS
<1>4. /\ calls' \in Seq(Call) /\ InOrder(calls') /\ Len(calls') = Len(calls)
      /\ calls'[Request].state = "not found" /\ calls'[Request].what = what
      /\ calls'[Request].id = calls[Request].id
      /\ \A k \in 1..Len(calls) : k # Request => calls'[k] = calls[k]
  BY <1>1, <1>2, <1>3, AnswerHolds
<1>5. /\ Request \in 1..Len(calls) /\ Len(calls) \in Nat
      /\ calls[Request].state = "asked" /\ calls[Request].what = what
      /\ \A k \in 1..Len(calls) : calls[k].state = "asked" <=> Request <= k
      /\ DOMAIN calls = 1..Len(calls) /\ DOMAIN calls' = 1..Len(calls)
  BY <1>1, <1>2, <1>4, RequestHolds, LenProperties
<1>6. TrapTypes'
  BY <1>1, <1>4 DEF TrapInv, TrapTypes, StoreTypes, PageTypes, WireTypes
<1>7. Kept'
  BY <1>1, KeptSame DEF TrapInv, Running
<1>8. Streaming'
  BY <1>1 DEF TrapInv, Streaming, Carries, Accepting
<1>9. ASSUME Due(calls) PROVE Due(calls')
  <2>1. PICK i \in 1..Len(calls) : Renews(calls[i])
    BY <1>5, <1>9 DEF Due
  <2>2. Renews(calls'[i])
    BY <1>4, <1>5, <2>1 DEF Renews
  <2> QED
    BY <1>5, <2>2 DEF Due
<1>10. ASSUME Current(page.list, calls, trap.mem) PROVE Current(page.list, calls', trap.mem) \/ Due(calls')
  <2>1. CASE what = "delete"
    <3>1. Renews(calls'[Request])
      BY <1>4, <2>1 DEF Renews
    <3> QED
      BY <1>5, <3>1 DEF Due
  <2>2. CASE what = "message"
    <3>1. PICK i \in 0..Len(calls) : UpTo(i, page.list, calls, trap.mem)
      BY <1>10 DEF Current
    <3>2. ASSUME i # 0 PROVE i \in 1..Len(calls) /\ calls'[i] = calls[i]
      <4>1. i \in 1..Len(calls) /\ calls[i].state # "asked"
        BY <1>5, <3>1, <3>2 DEF UpTo
      <4>2. i # Request
        BY <1>5, <4>1
      <4> QED
        BY <1>4, <4>1, <4>2
    <3>3. ASSUME NEW k \in (i + 1)..Len(calls), calls'[k].state # "asked"
          PROVE  calls'[k].what = "message" /\ WithId(trap.mem, calls'[k].id) = {}
      <4>1. k \in 1..Len(calls)
        OBVIOUS
      <4>2. CASE k = Request
        BY <1>1, <1>4, <2>2, <4>2
      <4>3. CASE k # Request
        <5>1. calls'[k] = calls[k]
          BY <1>4, <4>1, <4>3
        <5> QED
          BY <3>1, <3>3, <5>1 DEF UpTo
      <4> QED
        BY <4>2, <4>3
    <3>4. UpTo(i, page.list, calls', trap.mem)
      BY <1>4, <3>1, <3>2, <3>3 DEF UpTo
    <3> QED
      BY <1>4, <3>4 DEF Current
  <2> QED
    BY <2>1, <2>2
<1>11. Following'
  BY <1>1, <1>9, <1>10 DEF TrapInv, Following, Carries
<1> QED
  BY <1>4, <1>6, <1>7, <1>8, <1>11 DEF TrapInv

\* What is asked to be changed is answered, and the list will be asked for.
LEMMA ChangeIsDue ==
  ASSUME NEW what \in {"message", "delete", "clear"}, Asked(what), calls \in Seq(Call), InOrder(calls),
         Answer("answered", <<>>)
  PROVE  calls' \in Seq(Call) /\ InOrder(calls') /\ Due(calls')
<1>1. <<>> \in Seq(Entry)
  OBVIOUS
<1>2. /\ calls' \in Seq(Call) /\ InOrder(calls') /\ Len(calls') = Len(calls)
      /\ calls'[Request].state = "answered" /\ calls'[Request].what = what
  BY <1>1, AnswerHolds
<1>3. Request \in 1..Len(calls)
  BY RequestHolds
<1>4. Request \in DOMAIN calls'
  BY <1>2, <1>3, LenProperties
<1>5. Renews(calls'[Request])
  BY <1>2 DEF Renews
<1> QED
  BY <1>2, <1>4, <1>5 DEF Due

\* A change of the store that the page is told of, or that ends with a list.
LEMMA ChangeKeeps ==
  ASSUME TrapInv, StoreTypes', page' = page, trap'.up = trap.up, trap'.sse = trap.sse,
         Len(trap'.mem) <= MaxMessages,
         Running /\ Intact(trap'.file) => Load(trap'.file) = trap'.mem,
         calls' \in Seq(Call), InOrder(calls'),
         events' \in Seq(Kinds), Carries(Farewell) => Carries(Farewell)',
         trap.sse => Due(calls') \/ Carries(Reloads)', ~trap.sse => events' = events
  PROVE  TrapInv'
<1>3. TrapTypes'
  BY DEF TrapInv, TrapTypes, PageTypes, WireTypes
<1>4. Kept'
  BY DEF Kept, Running
<1>5. Streaming'
  BY DEF TrapInv, Streaming, Accepting
<1>6. Following'
  <2> SUFFICES ASSUME page.stream = "live", ~Carries(Farewell)' PROVE Carries(Reloads)' \/ Due(calls')
    BY DEF Following
  <2>1. trap.sse
    BY DEF TrapInv, Streaming
  <2> QED
    BY <2>1
<1> QED
  BY <1>3, <1>4, <1>5, <1>6 DEF TrapInv

\* The process dies: no stream is left, and a page that had one is told.
LEMMA DiedKeeps ==
  ASSUME TrapInv, NEW file \in File, Died(file)
  PROVE  TrapInv'
<1>1. /\ trap' = [trap EXCEPT !.up = "down", !.mem = <<>>, !.file = file, !.sse = FALSE]
      /\ calls' = <<>> /\ Broadcast("error")
      /\ page' = IF page.stream = "connecting" THEN [page EXCEPT !.stream = "disconnected"] ELSE page
  BY DEF Died, Broadcast
<1>2. /\ <<>> \in Seq(Message) /\ <<>> \in Seq(Call) /\ Len(<<>>) = 0 /\ DOMAIN <<>> = {} /\ "error" \in Kinds
      /\ MaxMessages \in Nat
  BY TrapConstants DEF Kinds
<1>3. /\ events' \in Seq(Kinds) /\ (Carries(Farewell) => Carries(Farewell)')
      /\ (trap.sse => Carries(Farewell)') /\ (~trap.sse => events' = events)
  <2>1. "error" \in Farewell /\ events \in Seq(Kinds)
    BY DEF TrapInv, TrapTypes, WireTypes, Farewell
  <2> QED
    BY <1>1, <2>1, EndTold
<1>4. /\ StoreTypes' /\ trap'.up = "down" /\ trap'.mem = <<>> /\ trap'.sse = FALSE
  BY <1>1, <1>2 DEF TrapInv, TrapTypes, StoreTypes
<1>5. PageTypes' /\ (page'.stream = "live" => page.stream = "live")
  BY <1>1 DEF TrapInv, TrapTypes, PageTypes
<1>6. TrapTypes' /\ InOrder(calls')
  BY <1>1, <1>2, <1>3, <1>4, <1>5 DEF TrapTypes, WireTypes, InOrder
<1>7. Kept'
  BY <1>2, <1>4 DEF Kept, Running
<1>8. page'.stream = "live" \/ events' # <<>> => Carries(Farewell)'
  BY <1>3, <1>5 DEF TrapInv, Streaming
<1>9. Streaming' /\ Following'
  BY <1>4, <1>8, FollowingEnds DEF Streaming
<1> QED
  BY <1>6, <1>7, <1>9 DEF TrapInv

LEMMA KilledKeeps ==
  ASSUME TrapInv, NEW file \in File, Killed(file)
  PROVE  TrapInv'
<1>1. PICK f \in Partly(file) : Died(f)
  BY DEF Killed
<1>2. f \in File
  BY PartlyHolds DEF TrapInv, TrapTypes, StoreTypes
<1> QED
  BY <1>1, <1>2, DiedKeeps

LEMMA StoreChanged ==
  ASSUME StoreTypes, NEW mem \in Seq(Message), NEW file \in File,
         trap' = [trap EXCEPT !.mem = mem, !.file = file]
  PROVE  StoreTypes' /\ trap'.mem = mem /\ trap'.file = file /\ trap'.up = trap.up /\ trap'.sse = trap.sse
BY DEF StoreTypes

LEMMA ServeMessageKeeps ==
  ASSUME TrapInv, ServeMessage
  PROVE  TrapInv'
<1> DEFINE id == calls[Request].id
           file == Opened(trap.mem, id)
           mem == MarkRead(trap.mem, id)
<1>1. /\ StoreTypes /\ trap.mem \in Seq(Message) /\ Len(trap.mem) <= MaxMessages /\ trap.file \in File
      /\ calls \in Seq(Call) /\ InOrder(calls) /\ Kept
  BY DEF TrapInv, TrapTypes, StoreTypes, WireTypes, Kept
<1>2. mem \in Seq(Message) /\ Len(mem) <= MaxMessages
  BY <1>1, MarkReadHolds
<1>3. file \in File /\ (Running /\ Intact(file) => Load(file) = mem)
  <2>1. CASE \E i \in WithId(trap.mem, id) : ~trap.mem[i].read
    <3>1. file = Rewrite(mem)
      BY <2>1 DEF Opened
    <3> HIDE DEF file, mem
    <3> QED
      BY <1>2, <3>1, RewriteHolds, LoadRewritten
  <2>2. CASE \A i \in WithId(trap.mem, id) : trap.mem[i].read
    <3>1. file = trap.file
      BY <2>2 DEF Opened
    <3>2. mem = trap.mem
      BY <1>1, <2>2, MarkReadAgain
    <3> QED
      BY <1>1, <3>1, <3>2 DEF Kept
  <2> QED
    BY <2>1, <2>2
<1>4. CASE Unknown("message")
  BY <1>4, UnknownKeeps
<1>5. CASE /\ Asked("message") /\ trap' = [trap EXCEPT !.mem = MarkRead(@, id), !.file = file]
           /\ Answer("answered", <<>>) /\ UNCHANGED <<page, events>>
  <2>1. trap' = [trap EXCEPT !.mem = mem, !.file = file]
    BY <1>5
  <2>2. StoreTypes' /\ trap'.mem = mem /\ trap'.file = file /\ trap'.up = trap.up /\ trap'.sse = trap.sse
    <3> HIDE DEF mem, file
    <3> QED
      BY <1>1, <1>2, <1>3, <2>1, StoreChanged
  <2>3. calls' \in Seq(Call) /\ InOrder(calls') /\ Due(calls')
    BY <1>1, <1>5, ChangeIsDue
  <2>4. page' = page /\ events' = events /\ events' \in Seq(Kinds) /\ (Carries(Farewell) => Carries(Farewell)')
    BY <1>5 DEF TrapInv, TrapTypes, WireTypes, Carries
  <2> HIDE DEF mem, file
  <2>5. Len(trap'.mem) <= MaxMessages /\ (Running /\ Intact(trap'.file) => Load(trap'.file) = trap'.mem)
    BY <1>2, <1>3, <2>2
  <2> QED
    BY <2>2, <2>3, <2>4, <2>5, ChangeKeeps
<1>6. CASE Killed(file)
  <2> HIDE DEF file
  <2> QED
    BY <1>3, <1>6, KilledKeeps
<1>7. \/ Unknown("message")
      \/ /\ Asked("message") /\ trap' = [trap EXCEPT !.mem = MarkRead(@, id), !.file = file]
         /\ Answer("answered", <<>>) /\ UNCHANGED <<page, events>>
      \/ Killed(file)
  BY Zenon DEF ServeMessage
<1> QED
  BY <1>4, <1>5, <1>6, <1>7, Zenon

LEMMA ServeDeleteKeeps ==
  ASSUME TrapInv, ServeDelete
  PROVE  TrapInv'
<1> DEFINE id == calls[Request].id
           mem == Without(trap.mem, id)
           file == Rewrite(mem)
<1>1. /\ StoreTypes /\ trap.mem \in Seq(Message) /\ Len(trap.mem) <= MaxMessages
      /\ calls \in Seq(Call) /\ InOrder(calls) /\ MaxMessages \in Nat
  BY TrapConstants DEF TrapInv, TrapTypes, StoreTypes, WireTypes, Kept
<1>2. mem \in Seq(Message) /\ Len(mem) <= MaxMessages
  <2>1. mem \in Seq(Message) /\ Len(mem) <= Len(trap.mem)
    BY <1>1, WithoutHolds
  <2> HIDE DEF mem
  <2>2. Len(mem) \in Nat /\ Len(trap.mem) \in Nat
    BY <1>1, <2>1, LenProperties
  <2> QED
    BY <1>1, <2>1, <2>2
<1>3. file \in File /\ Load(file) = mem
  <2> HIDE DEF mem
  <2> QED
    BY <1>2, RewriteHolds, LoadRewritten
<1>4. CASE Unknown("delete")
  BY <1>4, UnknownKeeps
<1>5. CASE /\ Asked("delete") /\ trap' = [trap EXCEPT !.mem = Without(@, id), !.file = file]
           /\ Broadcast("deleted") /\ Answer("answered", <<>>) /\ UNCHANGED page
  <2>1. trap' = [trap EXCEPT !.mem = mem, !.file = file]
    BY <1>5
  <2>2. StoreTypes' /\ trap'.mem = mem /\ trap'.file = file /\ trap'.up = trap.up /\ trap'.sse = trap.sse
    <3> HIDE DEF mem, file
    <3> QED
      BY <1>1, <1>2, <1>3, <2>1, StoreChanged
  <2>3. calls' \in Seq(Call) /\ InOrder(calls')
    BY <1>1, <1>5, ChangeIsDue
  <2>4. /\ page' = page /\ events' \in Seq(Kinds) /\ (Carries(Farewell) => Carries(Farewell)')
        /\ (trap.sse => Carries(Reloads)') /\ (~trap.sse => events' = events)
    <3>1. Broadcast("deleted") /\ events \in Seq(Kinds) /\ "deleted" \in Reloads \ {"open"}
      BY <1>5 DEF TrapInv, TrapTypes, WireTypes, Reloads
    <3> QED
      BY <1>5, <3>1, ToldHolds
  <2> HIDE DEF mem, file
  <2>5. Len(trap'.mem) <= MaxMessages /\ (Running /\ Intact(trap'.file) => Load(trap'.file) = trap'.mem)
    BY <1>2, <1>3, <2>2
  <2> QED
    BY <2>2, <2>3, <2>4, <2>5, ChangeKeeps
<1>6. CASE Killed(file)
  <2> HIDE DEF file
  <2> QED
    BY <1>3, <1>6, KilledKeeps
<1>7. \/ Unknown("delete")
      \/ /\ Asked("delete") /\ trap' = [trap EXCEPT !.mem = Without(@, id), !.file = file]
         /\ Broadcast("deleted") /\ Answer("answered", <<>>) /\ UNCHANGED page
      \/ Killed(file)
  BY Zenon DEF ServeDelete
<1> QED
  BY <1>4, <1>5, <1>6, <1>7, Zenon

LEMMA NoFileHolds == NoFile \in File /\ Load(NoFile) = <<>>
<1>1. <<>> \in Seq(Line)
  OBVIOUS
<1> QED
  BY <1>1, LoadNothing DEF NoFile, File

LEMMA ServeClearKeeps ==
  ASSUME TrapInv, ServeClear
  PROVE  TrapInv'
<1>1. StoreTypes /\ calls \in Seq(Call) /\ InOrder(calls) /\ Asked("clear")
  BY DEF TrapInv, TrapTypes, WireTypes, ServeClear
<1>2. <<>> \in Seq(Message) /\ Len(<<>>) <= MaxMessages
  BY TrapConstants
<1>3. Rewrite(<<>>) \in File /\ Load(Rewrite(<<>>)) = <<>>
  BY <1>2, RewriteHolds, LoadRewritten
<1>4. CASE /\ trap' = [trap EXCEPT !.mem = <<>>, !.file = Rewrite(<<>>)]
           /\ Broadcast("cleared") /\ Answer("answered", <<>>) /\ UNCHANGED page
  <2>1. /\ StoreTypes' /\ trap'.mem = <<>> /\ trap'.file = Rewrite(<<>>)
        /\ trap'.up = trap.up /\ trap'.sse = trap.sse
    BY <1>1, <1>2, <1>3, <1>4, StoreChanged
  <2>2. calls' \in Seq(Call) /\ InOrder(calls')
    BY <1>1, <1>4, ChangeIsDue
  <2>3. /\ page' = page /\ events' \in Seq(Kinds) /\ (Carries(Farewell) => Carries(Farewell)')
        /\ (trap.sse => Carries(Reloads)') /\ (~trap.sse => events' = events)
    <3>1. Broadcast("cleared") /\ events \in Seq(Kinds) /\ "cleared" \in Reloads \ {"open"}
      BY <1>4 DEF TrapInv, TrapTypes, WireTypes, Reloads
    <3> QED
      BY <1>4, <3>1, ToldHolds
  <2>4. Len(trap'.mem) <= MaxMessages /\ (Running /\ Intact(trap'.file) => Load(trap'.file) = trap'.mem)
    BY <1>2, <1>3, <2>1
  <2> QED
    BY <2>1, <2>2, <2>3, <2>4, ChangeKeeps
<1>5. CASE Killed(Rewrite(<<>>))
  BY <1>3, <1>5, KilledKeeps
<1>6. CASE Died(NoFile)
  BY <1>6, NoFileHolds, DiedKeeps
<1> QED
  BY <1>4, <1>5, <1>6 DEF ServeClear

LEMMA ServeEventsKeeps ==
  ASSUME TrapInv, ServeEvents
  PROVE  TrapInv'
<1>1. /\ Accepting /\ page.stream = "connecting" /\ trap' = [trap EXCEPT !.sse = TRUE]
      /\ events' = <<"open">> /\ UNCHANGED <<page, calls>>
  BY DEF ServeEvents
<1>2. events' \in Seq(Kinds)
  BY <1>1 DEF Kinds
<1>3. /\ StoreTypes' /\ trap'.sse = TRUE /\ trap'.up = trap.up /\ trap'.mem = trap.mem /\ trap'.file = trap.file
  BY <1>1 DEF TrapInv, TrapTypes, StoreTypes
<1>4. TrapTypes' /\ InOrder(calls')
  BY <1>1, <1>2, <1>3 DEF TrapInv, TrapTypes, PageTypes, WireTypes
<1>5. Kept'
  BY <1>3, KeptSame DEF TrapInv, Running
<1>6. Streaming'
  BY <1>1, <1>3 DEF Streaming, Accepting
<1>7. Following'
  BY <1>1 DEF Following
<1> QED
  BY <1>4, <1>5, <1>6, <1>7 DEF TrapInv

-----------------------------------------------------------------------------
(* The page and the process.                                               *)

\* What the page does besides taking an answer or an event.
LEMMA AskingKeeps ==
  ASSUME TrapInv, UNCHANGED <<trap, events>>, PageTypes', page'.list = page.list,
         page'.stream = "live" => page.stream = "live",
         calls' \in Seq(Call), InOrder(calls'), Due(calls) => Due(calls'),
         Current(page.list, calls, trap.mem) => Current(page.list, calls', trap.mem)
  PROVE  TrapInv'
<1>1. TrapTypes'
  BY DEF TrapInv, TrapTypes, StoreTypes, WireTypes
<1>2. Kept'
  BY KeptSame DEF TrapInv, Running
<1>3. Streaming'
  BY DEF TrapInv, Streaming, Carries, Accepting
<1>4. Following'
  BY DEF TrapInv, Following, Carries
<1> QED
  BY <1>1, <1>2, <1>3, <1>4 DEF TrapInv

LEMMA ConnectHolds ==
  ASSUME PageTypes
  PROVE  /\ ConnectSSE(page) \in [list : Seq(Entry), current : Nat,
                                  stream : {"none", "connecting", "live", "off", "disconnected"}]
         /\ ConnectSSE(page).list = page.list /\ ConnectSSE(page).stream # "live"
BY DEF PageTypes, ConnectSSE

LEMMA UserKeeps ==
  ASSUME TrapInv, OpenPage \/ Refresh \/ Reconnect
  PROVE  TrapInv'
<1>1. /\ UNCHANGED <<trap, events>> /\ page' \in {page, ConnectSSE(page)} /\ calls' \in {calls, Reloaded(calls)}
  BY DEF OpenPage, Refresh, Reconnect
<1>2. PageTypes /\ calls \in Seq(Call) /\ InOrder(calls)
  BY DEF TrapInv, TrapTypes, WireTypes
<1>3. PageTypes' /\ page'.list = page.list /\ (page'.stream = "live" => page.stream = "live")
  BY <1>1, <1>2, ConnectHolds DEF PageTypes
<1>4. /\ calls' \in Seq(Call) /\ InOrder(calls') /\ (Due(calls) => Due(calls'))
      /\ Current(page.list, calls, trap.mem) => Current(page.list, calls', trap.mem)
  BY <1>1, <1>2, ReloadedHolds
<1> QED
  BY <1>1, <1>3, <1>4, AskingKeeps

LEMMA ClickKeeps ==
  ASSUME TrapInv, NEW what \in {"message", "delete", "clear"}, NEW id \in Nat, Click(what, id)
  PROVE  TrapInv'
<1>1. /\ UNCHANGED <<trap, events>> /\ calls' = AskFor(calls, what, id)
      /\ page' = IF what = "message" THEN [page EXCEPT !.current = id] ELSE page
  BY DEF Click
<1>2. PageTypes /\ calls \in Seq(Call) /\ InOrder(calls)
  BY DEF TrapInv, TrapTypes, WireTypes
<1>3. PageTypes' /\ page'.list = page.list /\ page'.stream = page.stream
  BY <1>1, <1>2 DEF PageTypes
<1>4. /\ calls' \in Seq(Call) /\ InOrder(calls') /\ (Due(calls) => Due(calls'))
      /\ Current(page.list, calls, trap.mem) => Current(page.list, calls', trap.mem)
  <2>1. what \in {"list", "message", "delete", "clear"}
    OBVIOUS
  <2> QED
    BY <1>1, <1>2, <2>1, AskHolds
<1> QED
  BY <1>1, <1>3, <1>4, AskingKeeps

LEMMA ClicksKeep ==
  ASSUME TrapInv, OpenMsg \/ DeleteMsg \/ ClearAll
  PROVE  TrapInv'
<1>1. page.list \in Seq(Entry) /\ page.current \in Nat
  BY DEF TrapInv, TrapTypes, PageTypes
<1>2. CASE OpenMsg
  <2>1. PICK i \in DOMAIN page.list : Click("message", page.list[i].id)
    BY <1>2 DEF OpenMsg
  <2>2. page.list[i].id \in Nat
    <3>1. page.list[i] \in Entry
      BY <1>1, LenProperties, ElementOfSeq
    <3> QED
      BY <3>1 DEF Entry
  <2>3. "message" \in {"message", "delete", "clear"}
    OBVIOUS
  <2> QED
    BY <2>1, <2>2, <2>3, ClickKeeps
<1>3. CASE DeleteMsg
  <2>1. Click("delete", page.current) /\ "delete" \in {"message", "delete", "clear"}
    BY <1>3 DEF DeleteMsg
  <2> QED
    BY <1>1, <2>1, ClickKeeps
<1>4. CASE ClearAll
  <2>1. Click("clear", 0) /\ 0 \in Nat /\ "clear" \in {"message", "delete", "clear"}
    BY <1>4 DEF ClearAll
  <2> QED
    BY <2>1, ClickKeeps
<1> QED
  BY <1>2, <1>3, <1>4

\* The server ends the streams, told of it or not.
LEMMA EndingKeeps ==
  ASSUME TrapInv, NEW event \in Farewell, Broadcast(event), calls' = calls,
         PageTypes', page'.stream = "live" => page.stream = "live",
         StoreTypes', trap'.mem = trap.mem, trap'.file = trap.file, Running,
         trap'.sse => trap.sse /\ Accepting'
  PROVE  TrapInv'
<1>1. /\ events' \in Seq(Kinds) /\ (Carries(Farewell) => Carries(Farewell)')
      /\ (trap.sse => Carries(Farewell)') /\ (~trap.sse => events' = events)
  BY EndTold DEF TrapInv, TrapTypes, WireTypes
<1>2. TrapTypes' /\ InOrder(calls')
  BY <1>1 DEF TrapInv, TrapTypes, WireTypes
<1>3. Kept'
  BY KeptSame DEF TrapInv
<1>4. page'.stream = "live" \/ events' # <<>> => Carries(Farewell)'
  BY <1>1 DEF TrapInv, Streaming
<1>5. Streaming' /\ Following'
  BY <1>4, FollowingEnds DEF Streaming
<1> QED
  BY <1>2, <1>3, <1>5 DEF TrapInv

LEMMA StopKeeps ==
  ASSUME TrapInv, Stop \/ EndStreams
  PROVE  TrapInv'
<1>1. StoreTypes /\ PageTypes
  BY DEF TrapInv, TrapTypes
<1>2. "shutdown" \in Farewell /\ "error" \in Farewell
  BY DEF Farewell
<1>3. CASE Stop
  <2>1. /\ trap.up = "running" /\ trap' = [trap EXCEPT !.up = "closing"] /\ Broadcast("shutdown")
        /\ UNCHANGED <<page, calls>>
    BY <1>3 DEF Stop
  <2>2. StoreTypes' /\ trap'.up = "closing" /\ trap'.mem = trap.mem /\ trap'.file = trap.file /\ trap'.sse = trap.sse
    BY <1>1, <2>1 DEF StoreTypes
  <2>3. PageTypes' /\ page'.stream = page.stream /\ Running /\ Accepting'
    BY <1>1, <2>1, <2>2 DEF PageTypes, Running, Accepting
  <2>4. Broadcast("shutdown") /\ calls' = calls
    BY <2>1
  <2> QED
    BY <1>2, <2>2, <2>3, <2>4, EndingKeeps
<1>4. CASE EndStreams
  <2>1. /\ trap.up = "closing" /\ trap' = [trap EXCEPT !.up = "closed", !.sse = FALSE] /\ Broadcast("error")
        /\ page' = IF page.stream = "connecting" /\ ~trap.sse THEN [page EXCEPT !.stream = "disconnected"] ELSE page
        /\ UNCHANGED calls
    BY <1>4 DEF EndStreams
  <2>2. StoreTypes' /\ trap'.mem = trap.mem /\ trap'.file = trap.file /\ trap'.sse = FALSE
    BY <1>1, <2>1 DEF StoreTypes
  <2>3. PageTypes' /\ (page'.stream = "live" => page.stream = "live") /\ Running
    BY <1>1, <2>1 DEF PageTypes, Running
  <2>4. Broadcast("error") /\ calls' = calls
    BY <2>1
  <2> QED
    BY <1>2, <2>2, <2>3, <2>4, EndingKeeps
<1> QED
  BY <1>3, <1>4

LEMMA PageLeaves ==
  ASSUME NEW p \in [list : Seq(Entry), current : Nat,
                    stream : {"none", "connecting", "live", "off", "disconnected"}],
         NEW list \in Seq(Entry)
  PROVE  /\ [p EXCEPT !.list = list, !.current = 0]
            \in [list : Seq(Entry), current : Nat,
                stream : {"none", "connecting", "live", "off", "disconnected"}]
         /\ [p EXCEPT !.list = list, !.current = 0].stream = p.stream
OBVIOUS

LEMMA PageSteps ==
  ASSUME NEW p \in [list : Seq(Entry), current : Nat,
                    stream : {"none", "connecting", "live", "off", "disconnected"}],
         NEW call \in Call
  PROVE  /\ AfterAnswer(p, call) \in [list : Seq(Entry), current : Nat,
                                      stream : {"none", "connecting", "live", "off", "disconnected"}]
         /\ AfterAnswer(p, call).stream = p.stream
         /\ call.what = "list" => AfterAnswer(p, call).list = call.list
         /\ call.what = "message" => AfterAnswer(p, call).list = MarkRead(p.list, call.id)
<1> DEFINE Pages == [list : Seq(Entry), current : Nat,
                     stream : {"none", "connecting", "live", "off", "disconnected"}]
<1>1. /\ p.list \in Seq(Entry) /\ call.list \in Seq(Entry)
      /\ call.what \in {"list", "message", "delete", "clear"}
  BY DEF Call
<1>2. ASSUME NEW q \in Pages
      PROVE  Render(q) \in Pages /\ Render(q).stream = q.stream /\ Render(q).list = q.list
  BY DEF Render
<1>3. CASE call.what = "list"
  <2> DEFINE q == [p EXCEPT !.list = call.list]
  <2>1. q \in Pages /\ q.stream = p.stream /\ q.list = call.list /\ AfterAnswer(p, call) = Render(q)
    BY <1>1, <1>3 DEF AfterAnswer
  <2> HIDE DEF q
  <2> QED
    BY <1>2, <1>3, <2>1
<1>4. CASE call.what = "message"
  <2> DEFINE list == MarkRead(p.list, call.id)
             q == [p EXCEPT !.list = list]
  <2>1. list \in Seq(Entry)
    BY <1>1, MarkReadHolds
  <2>2. AfterAnswer(p, call) = Render(q)
    BY <1>4 DEF AfterAnswer
  <2> HIDE DEF list
  <2>3. q \in Pages /\ q.stream = p.stream /\ q.list = list
    BY <2>1
  <2> HIDE DEF q
  <2> QED
    BY <1>2, <1>4, <2>2, <2>3 DEF list
<1>5. CASE call.what = "delete"
  <2> DEFINE list == Without(p.list, p.current)
  <2>1. list \in Seq(Entry)
    BY <1>1, WithoutHolds
  <2>2. AfterAnswer(p, call) = [p EXCEPT !.list = list, !.current = 0]
    BY <1>5 DEF AfterAnswer
  <2> HIDE DEF list
  <2>3. AfterAnswer(p, call) \in Pages /\ AfterAnswer(p, call).stream = p.stream
    BY <2>1, <2>2, PageLeaves
  <2> QED
    BY <1>5, <2>3
<1>6. CASE call.what = "clear"
  <2>1. AfterAnswer(p, call) = [p EXCEPT !.list = <<>>, !.current = 0] /\ <<>> \in Seq(Entry)
    BY <1>6 DEF AfterAnswer
  <2>2. AfterAnswer(p, call) \in Pages /\ AfterAnswer(p, call).stream = p.stream
    BY <2>1, PageLeaves
  <2> QED
    BY <1>6, <2>2
<1> QED
  BY <1>1, <1>3, <1>4, <1>5, <1>6

LEMMA PageAnsweredKeeps ==
  ASSUME TrapInv, PageAnswered
  PROVE  TrapInv'
<1> DEFINE first == Head(calls)
           Again == ~(first.what = "list" \/ (first.what = "message" /\ first.state = "not found"))
<1>1. /\ calls # <<>> /\ first.state # "asked" /\ page' = AfterAnswer(page, first) /\ UNCHANGED <<trap, events>>
      /\ calls' = IF Again THEN Reloaded(Tail(calls)) ELSE Tail(calls)
  BY DEF PageAnswered
<1>2. calls \in Seq(Call) /\ InOrder(calls) /\ PageTypes /\ trap.mem \in Seq(Message)
  BY DEF TrapInv, TrapTypes, StoreTypes, WireTypes
<1>3. /\ first \in Call /\ Tail(calls) \in Seq(Call) /\ InOrder(Tail(calls))
      /\ Due(calls) /\ ~Renews(first) => Due(Tail(calls))
  BY <1>1, <1>2, TakenHolds
<1>4. /\ Reloaded(Tail(calls)) \in Seq(Call) /\ InOrder(Reloaded(Tail(calls)))
      /\ Due(Tail(calls)) \/ Accepting => Due(Reloaded(Tail(calls)))
  BY <1>3, ReloadedHolds
<1>5. calls' \in Seq(Call) /\ InOrder(calls') /\ (Due(Tail(calls)) => Due(calls')) /\ (Again /\ Accepting => Due(calls'))
  BY <1>1, <1>3, <1>4
<1>6. PageTypes' /\ page'.stream = page.stream
  BY <1>1, <1>2, <1>3, PageSteps DEF PageTypes
<1>7. TrapTypes'
  BY <1>1, <1>5, <1>6 DEF TrapInv, TrapTypes, StoreTypes, WireTypes
<1>8. Kept'
  BY <1>1, KeptSame DEF TrapInv, Running
<1>9. Streaming'
  BY <1>1, <1>6 DEF TrapInv, Streaming, Carries, Accepting
<1>10. ~Again => (Current(page.list, calls, trap.mem) => Current(page'.list, calls', trap.mem))
  <2> SUFFICES ASSUME ~Again, Current(page.list, calls, trap.mem)
               PROVE  Current(page'.list, calls', trap.mem)
    OBVIOUS
  <2>1. /\ first.what = "list" => Current(first.list, Tail(calls), trap.mem)
        /\ first.what = "message" => Current(MarkRead(page.list, first.id), Tail(calls), trap.mem)
    BY <1>1, <1>2, TakenCurrent
  <2>2. /\ first.what = "list" => page'.list = first.list
        /\ first.what = "message" => page'.list = MarkRead(page.list, first.id)
    BY <1>1, <1>2, <1>3, PageSteps DEF PageTypes
  <2> QED
    BY <1>1, <2>1, <2>2
<1>11. Renews(first) => Again
  BY <1>1 DEF Renews
<1>12. Following'
  <2> SUFFICES ASSUME page.stream = "live", ~Carries(Farewell)
               PROVE  Carries(Reloads) \/ Due(calls') \/ Current(page'.list, calls', trap.mem)
    BY <1>1, <1>6 DEF Following, Carries
  <2>1. Accepting
    BY DEF TrapInv, Streaming
  <2>2. Carries(Reloads) \/ Due(calls) \/ Current(page.list, calls, trap.mem)
    BY DEF TrapInv, Following
  <2> HIDE DEF first, Again
  <2> QED
    BY <1>3, <1>5, <1>10, <1>11, <2>1, <2>2
<1> QED
  BY <1>5, <1>7, <1>8, <1>9, <1>12 DEF TrapInv

LEMMA PageEventKeeps ==
  ASSUME TrapInv, PageEvent
  PROVE  TrapInv'
<1> DEFINE event == Head(events)
           over == event \in {"shutdown", "error"}
<1>1. /\ events # <<>> /\ page' = [page EXCEPT !.stream = StreamAfter(event)]
      /\ calls' = IF event \in Reloads THEN Reloaded(calls) ELSE calls
      /\ events' = IF over THEN <<>> ELSE Tail(events)
      /\ trap' = IF over THEN [trap EXCEPT !.sse = FALSE] ELSE trap
  BY DEF PageEvent
<1>2. StoreTypes /\ PageTypes /\ calls \in Seq(Call) /\ InOrder(calls) /\ events \in Seq(Kinds)
  BY DEF TrapInv, TrapTypes, WireTypes
<1>3. /\ event \in Kinds /\ Tail(events) \in Seq(Kinds)
      /\ \A i \in 1..(Len(events) - 1) : Tail(events)[i] = events[i + 1]
      /\ Len(events) \in Nat \ {0} /\ DOMAIN events = 1..Len(events) /\ events[1] = event
      /\ DOMAIN Tail(events) = 1..(Len(events) - 1)
  <2>1. Len(events) \in Nat \ {0} /\ DOMAIN events = 1..Len(events)
    BY <1>1, <1>2, EmptySeq, LenProperties
  <2>2. /\ Tail(events) \in Seq(Kinds) /\ Len(Tail(events)) = Len(events) - 1
        /\ \A i \in 1..(Len(events) - 1) : Tail(events)[i] = events[i + 1]
    BY <1>1, <1>2, HeadTailProperties
  <2>3. DOMAIN Tail(events) = 1..(Len(events) - 1)
    BY <2>2, LenProperties
  <2>4. event = events[1] /\ events[1] \in Kinds
    BY <1>2, <2>1, ElementOfSeq
  <2> QED
    BY <2>1, <2>2, <2>3, <2>4
<1> HIDE DEF event
<1>4. StreamAfter(event) \in {"none", "connecting", "live", "off", "disconnected"}
  BY <1>2 DEF PageTypes, StreamAfter
<1>5. PageTypes' /\ page'.stream = StreamAfter(event) /\ page'.list = page.list
  BY <1>1, <1>2, <1>4 DEF PageTypes
<1>6. /\ StoreTypes' /\ trap'.up = trap.up /\ trap'.mem = trap.mem /\ trap'.file = trap.file
      /\ trap'.sse = IF over THEN FALSE ELSE trap.sse
  BY <1>1, <1>2 DEF StoreTypes
<1>7. calls' \in Seq(Call) /\ InOrder(calls') /\ (event \in Reloads /\ Accepting => Due(calls'))
  BY <1>1, <1>2, ReloadedHolds
<1>8. events' \in Seq(Kinds)
  <2>1. <<>> \in Seq(Kinds)
    OBVIOUS
  <2> QED
    BY <1>1, <1>3, <2>1
<1>9. TrapTypes' /\ Kept'
  BY <1>5, <1>6, <1>7, <1>8, KeptSame DEF TrapInv, TrapTypes, WireTypes, Running
<1>10. CASE over
  <2>1. page'.stream # "live"
    BY <1>5, <1>10, <1>2 DEF StreamAfter, PageTypes
  <2>2. events' = <<>> /\ trap'.sse = FALSE
    BY <1>1, <1>6, <1>10
  <2>3. Streaming' /\ Following'
    BY <2>1, <2>2 DEF Streaming, Following
  <2> QED
    BY <1>7, <1>9, <2>3 DEF TrapInv
<1>11. CASE ~over
  <2>1. event \in Reloads /\ event \notin Farewell
    BY <1>3, <1>11 DEF Kinds, Reloads, Farewell
  <2>2. events' = Tail(events) /\ trap'.sse = trap.sse
    BY <1>1, <1>6, <1>11
  <2>3. Carries(Farewell) => Carries(Farewell)'
    <3> SUFFICES ASSUME Carries(Farewell) PROVE Carries(Farewell)'
      OBVIOUS
    <3>1. PICK i \in 1..Len(events) : events[i] \in Farewell
      BY <1>3 DEF Carries
    <3>2. i - 1 \in 1..(Len(events) - 1) /\ (i - 1) + 1 = i
      BY <1>3, <2>1, <3>1
    <3>3. i - 1 \in DOMAIN events' /\ events'[i - 1] \in Farewell
      BY <1>3, <2>2, <3>1, <3>2
    <3> QED
      BY <3>3 DEF Carries
  <2>4. trap.sse \/ Carries(Farewell)
    BY <1>1 DEF TrapInv, Streaming
  <2>5. Streaming'
    BY <1>6, <2>2, <2>3, <2>4 DEF TrapInv, Streaming, Accepting
  <2>6. Following'
    <3> SUFFICES ASSUME ~Carries(Farewell)' PROVE Due(calls')
      BY DEF Following
    <3>1. Accepting
      BY <2>3, <2>4 DEF TrapInv, Streaming
    <3> QED
      BY <1>7, <2>1, <3>1
  <2> QED
    BY <1>7, <1>9, <2>5, <2>6 DEF TrapInv
<1> QED
  BY <1>10, <1>11

LEMMA EndedKeeps ==
  ASSUME TrapInv, Ended \/ Started
  PROVE  TrapInv'
<1>1. /\ UNCHANGED <<page, calls, events>>
      /\ trap.up \in {"closed", "down"} /\ trap'.sse = trap.sse
      /\ StoreTypes' /\ Len(trap'.mem) <= MaxMessages
      /\ Running' => Load(trap'.file) = trap'.mem
  <2>1. StoreTypes /\ trap.file \in File
    BY DEF TrapInv, TrapTypes, StoreTypes
  <2>2. <<>> \in Seq(Message) /\ Len(<<>>) <= MaxMessages
    BY TrapConstants
  <2>3. CASE Ended
    <3>1. /\ trap.up = "closed" /\ trap' = [trap EXCEPT !.up = "down", !.mem = <<>>]
          /\ UNCHANGED <<page, calls, events>>
      BY <2>3 DEF Ended, Stopped
    <3>2. StoreTypes' /\ trap'.up = "down" /\ trap'.mem = <<>> /\ trap'.sse = trap.sse
      BY <2>1, <2>2, <3>1 DEF StoreTypes
    <3> QED
      BY <2>2, <3>1, <3>2 DEF Running
  <2>4. CASE Started
    <3> DEFINE mem == Load(trap.file)
    <3>1. /\ trap.up = "down" /\ trap' = [trap EXCEPT !.up = "running", !.mem = mem]
          /\ UNCHANGED <<page, calls, events>>
      BY <2>4 DEF Started
    <3>2. mem \in Seq(Message) /\ Len(mem) <= MaxMessages
      BY <2>1, LoadHolds
    <3> HIDE DEF mem
    <3>3. StoreTypes' /\ trap'.mem = mem /\ trap'.file = trap.file /\ trap'.sse = trap.sse
      BY <2>1, <3>1, <3>2 DEF StoreTypes
    <3> QED
      BY <3>1, <3>2, <3>3 DEF mem
  <2> QED
    BY <2>3, <2>4
<1>2. ~trap.sse /\ ~trap'.sse
  BY <1>1 DEF TrapInv, Streaming, Accepting
<1>3. page'.stream = "live" \/ events' # <<>> => Carries(Farewell)'
  BY <1>1, <1>2 DEF TrapInv, Streaming, Carries
<1>4. Streaming' /\ Following'
  BY <1>2, <1>3, FollowingEnds DEF Streaming
<1>5. Kept'
  BY <1>1 DEF Kept
<1>6. TrapTypes' /\ InOrder(calls')
  BY <1>1 DEF TrapInv, TrapTypes, PageTypes, WireTypes
<1> QED
  BY <1>4, <1>5, <1>6 DEF TrapInv

LEMMA ReceiveKeeps ==
  ASSUME TrapInv, Receive
  PROVE  TrapInv'
<1>1. /\ StoreTypes /\ trap.mem \in Seq(Message) /\ Len(trap.mem) <= MaxMessages /\ trap.file \in File
      /\ trap.count \in Nat /\ calls \in Seq(Call) /\ InOrder(calls) /\ events \in Seq(Kinds) /\ Kept
  BY DEF TrapInv, TrapTypes, StoreTypes, WireTypes, Kept
<1>2. PICK content \in Contents : Capture(NewMessage(content)) \/ Killed(AppendTo(trap.file, NewMessage(content)))
  BY DEF Receive
<1>3. NewMessage(content) \in Message
  BY <1>1 DEF Message, NewMessage
<1> DEFINE e == NewMessage(content)
           mem == Add(trap.mem, e)
           file == AppendTo(trap.file, e)
<1> HIDE DEF e
<1>4. mem \in Seq(Message) /\ Len(mem) <= MaxMessages
  BY <1>1, <1>3, AddHolds DEF e
<1>5. file \in File /\ (Intact(file) => Intact(trap.file) /\ Load(file) = Add(Load(trap.file), e))
  BY <1>1, <1>3, AppendToHolds DEF e
<1>6. CASE Capture(e)
  <2>1. /\ trap' = [trap EXCEPT !.mem = mem, !.file = file, !.count = trap.count + 1]
        /\ Broadcast("message") /\ UNCHANGED <<page, calls>>
    BY <1>6 DEF Capture, Stored
  <2>2. Running /\ Intact(file) => Load(file) = mem
    BY <1>1, <1>5 DEF Kept
  <2> HIDE DEF mem, file
  <2> DEFINE count == trap.count + 1
  <2>3. count \in Nat
    BY <1>1
  <2> HIDE DEF count
  <2>4. trap' = [trap EXCEPT !.mem = mem, !.file = file, !.count = count]
    BY <2>1 DEF count
  <2>5. /\ StoreTypes' /\ trap'.mem = mem /\ trap'.file = file /\ trap'.up = trap.up /\ trap'.sse = trap.sse
    BY <1>1, <1>4, <1>5, <2>3, <2>4 DEF StoreTypes
  <2>6. /\ events' \in Seq(Kinds) /\ (Carries(Farewell) => Carries(Farewell)')
        /\ (trap.sse => Carries(Reloads)') /\ (~trap.sse => events' = events)
    <3>1. Broadcast("message") /\ "message" \in Reloads \ {"open"}
      BY <2>1 DEF Reloads
    <3> QED
      BY <1>1, <3>1, ToldHolds
  <2>7. page' = page /\ calls' = calls
    BY <2>1
  <2>8. Len(trap'.mem) <= MaxMessages /\ (Running /\ Intact(trap'.file) => Load(trap'.file) = trap'.mem)
    BY <1>4, <2>2, <2>5
  <2> QED
    BY <1>1, <2>5, <2>6, <2>7, <2>8, ChangeKeeps
<1>7. CASE Killed(file)
  <2> HIDE DEF file
  <2> QED
    BY <1>5, <1>7, KilledKeeps
<1> QED
  BY <1>2, <1>6, <1>7 DEF e

LEMMA UnchangedKeeps ==
  ASSUME TrapInv, UNCHANGED <<trap, page, calls, events>>
  PROVE  TrapInv'
BY DEF TrapInv, TrapTypes, StoreTypes, PageTypes, WireTypes, Kept, Running, InOrder, Streaming,
       Carries, Accepting, Following

LEMMA TrapInitHolds ==
  ASSUME TrapStart
  PROVE  TrapInv
<1>1. NoFile \in File /\ Load(NoFile) = <<>>
  BY NoFileHolds
<1>2. /\ trap = [up |-> "running", mem |-> <<>>, file |-> NoFile, sse |-> FALSE, count |-> 0]
      /\ page = [list |-> <<>>, current |-> 0, stream |-> "none"] /\ calls = <<>> /\ events = <<>>
  BY <1>1 DEF TrapStart, TrapInit
<1>3. /\ <<>> \in Seq(Message) /\ <<>> \in Seq(Entry) /\ <<>> \in Seq(Call) /\ <<>> \in Seq(Kinds)
      /\ Len(<<>>) <= MaxMessages /\ DOMAIN <<>> = {}
  BY TrapConstants
<1>4. TrapTypes
  BY <1>1, <1>2, <1>3 DEF TrapTypes, StoreTypes, PageTypes, WireTypes
<1>5. Kept /\ InOrder(calls)
  BY <1>1, <1>2, <1>3 DEF Kept, InOrder
<1>6. Streaming /\ Following
  BY <1>2 DEF Streaming, Following
<1> QED
  BY <1>4, <1>5, <1>6 DEF TrapInv

LEMMA TrapStep ==
  ASSUME TrapInv, [TrapNext]_trapVars
  PROVE  TrapInv'
<1>1. CASE Receive
  BY <1>1, ReceiveKeeps
<1>2. CASE Serve
  BY <1>2, ServeListKeeps, ServeMessageKeeps, ServeDeleteKeeps, ServeClearKeeps, ServeEventsKeeps DEF Serve
<1>3. CASE User
  BY <1>3, UserKeeps, ClicksKeep, StopKeeps DEF User
<1>4. CASE Page
  BY <1>4, PageAnsweredKeeps, PageEventKeeps DEF Page
<1>5. CASE EndStreams
  BY <1>5, StopKeeps
<1>6. CASE Kill
  <2>1. Died(trap.file) /\ trap.file \in File
    BY <1>6 DEF Kill, TrapInv, TrapTypes, StoreTypes
  <2> QED
    BY <2>1, DiedKeeps
<1>7. CASE Ended \/ Started
  BY <1>7, EndedKeeps
<1>8. CASE OfTest \/ UNCHANGED trapVars
  <2>1. UNCHANGED <<trap, page, calls, events>>
    BY <1>8 DEF OfTest, Wait, DeadlinePasses, Check, trapVars
  <2> QED
    BY <2>1, UnchangedKeeps
<1> QED
  BY <1>1, <1>2, <1>3, <1>4, <1>5, <1>6, <1>7, <1>8 DEF TrapNext, Acting

LEMMA TrapInvHolds == TrapSpec => []TrapInv
<1>1. TrapStart => TrapInv
  BY TrapInitHolds
<1>2. TrapInv /\ [TrapNext]_trapVars => TrapInv'
  BY TrapStep
<1> QED
  BY <1>1, <1>2, PTL DEF TrapSpec

\* A restart brings back what the trap server had, its marks and its deletions with it.
THEOREM StoreComesBack == TrapSpec => []StoreSurvivesRestart
<1>1. TrapInv => StoreSurvivesRestart
  BY DEF TrapInv, Kept, StoreSurvivesRestart, Running, Intact
<1> QED
  BY <1>1, TrapInvHolds, PTL

\* A page whose stream is live shows what the trap server has, once nothing is under way.
THEOREM PageFollows == TrapSpec => []PageInStep
<1>1. TrapInv => PageInStep
  <2> SUFFICES ASSUME TrapInv, page.stream = "live", calls = <<>>, events = <<>>
               PROVE  InStep
    BY DEF PageInStep
  <2>1. ~Carries(Farewell) /\ ~Carries(Reloads) /\ ~Due(calls)
    BY DEF Carries, Due
  <2>2. Current(page.list, calls, trap.mem)
    BY <2>1 DEF TrapInv, Following
  <2>3. UpTo(0, page.list, calls, trap.mem)
    BY <2>2 DEF Current
  <2> QED
    BY <2>3 DEF UpTo, InStep
<1> QED
  BY <1>1, TrapInvHolds, PTL
=============================================================================
