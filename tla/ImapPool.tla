------------------------------ MODULE ImapPool ------------------------------
(***************************************************************************)
(* The pool of IMAP sessions per account, src/src/imap/ImapPool.ts.        *)
(*                                                                         *)
(* A step is a synchronous stretch of code: a call of use(), close() or    *)
(* closeAll() up to its await, a timer, or the end of what was awaited.    *)
(* The name of a slot is used again once its session has closed.           *)
(***************************************************************************)
EXTENDS Naturals, Sequences, FiniteSets, SequencesExt

CONSTANTS
  Callers,        \* calls of use() under way at once
  Accounts,       \* account keys
  Key,            \* the account of each caller
  Slots,
  NoSlot,
  MaxSessions,    \* maxSessions
  MaxPerAccount,  \* maxPerAccount
  MaxClosing      \* bound: nothing more is closed while so many sessions close

\* What the constants must satisfy; ImapPromises assumes it.
ConstantsFit ==
  /\ IsFiniteSet(Callers) /\ IsFiniteSet(Slots)
  /\ Key \in [Callers -> Accounts]
  /\ NoSlot \notin Slots
  /\ MaxSessions \in Nat \ {0}
  /\ MaxPerAccount \in Nat \ {0}
  /\ MaxClosing \in Nat
  /\ Cardinality(Slots) >= 2 * MaxSessions + MaxClosing
  /\ "all" \notin Accounts

\* Definitions that are used nowhere below are variants of the definition that
\* follows them, each with a mistake that a property is meant to catch.

VARIABLES
  pool,     \* the fields of ImapPool and of its slots
  settling  \* calls of close(), by account, and of closeAll() that await settle()

vars == <<pool, settling>>

\* order: the open slots, least recently used first; open: the slots that have
\* a session; closing: those of pendingCloses; holds: the slot lent to a call;
\* doomed (not in the code): slots that close() or closeAll() found.
Pool == [slots : [Accounts -> Seq(Slots)], order : Seq(Slots),
         busy : SUBSET Slots, retired : SUBSET Slots, timers : SUBSET Slots,
         open : SUBSET Slots, closing : SUBSET Slots, doomed : SUBSET Slots,
         waiting : Seq(Callers), holds : [Callers -> Slots \cup {NoSlot}],
         closed : BOOLEAN]

Without(list, e) ==
  IF e \in ToSet(list) THEN RemoveAt(list, CHOOSE i \in DOMAIN list : list[i] = e) ELSE list

-----------------------------------------------------------------------------
(* Operations on the pool.                                                 *)

\* The slots of a list that can be lent as they are, and the first of them.
Idle(f, list) == {i \in DOMAIN list : list[i] \notin f.busy \cup f.retired}
FirstIdle(f, list) == list[CHOOSE i \in Idle(f, list) : \A j \in Idle(f, list) : i <= j]

\* remove(): the slot leaves the pool and its session, if it has one, closes.
Removed(f, s) ==
  [f EXCEPT !.slots = [k \in Accounts |-> Without(@[k], s)],
            !.order = Without(@, s),
            !.timers = @ \ {s}, !.retired = @ \ {s}, !.open = @ \ {s},
            !.closing = IF s \in f.open THEN @ \cup {s} ELSE @,
            !.doomed = IF s \in f.open \cup f.closing THEN @ ELSE @ \ {s}]

\* A new session of k keeps both limits, with another account's idle session
\* closed if need be.
CanOpen(f, k) ==
  /\ Len(f.slots[k]) < MaxPerAccount
  /\ Len(f.order) < MaxSessions \/ Idle(f, f.order) # {}

CanTake(f, k) == Idle(f, f.slots[k]) # {} \/ CanOpen(f, k)

\* The least recently used idle session makes room for another account's.
WithRoom(f) ==
  IF Len(f.order) < MaxSessions THEN f ELSE Removed(f, FirstIdle(f, f.order))

\* tryTake() for caller p, when it finds a slot.
Taken(f, p) ==
  LET k == Key[p]
      idle == FirstIdle(f, f.slots[k])
      room == WithRoom(f)
      new == CHOOSE s \in Slots : s \notin ToSet(room.order) \cup room.closing
  IN  IF Idle(f, f.slots[k]) # {}
      THEN [f EXCEPT !.busy = @ \cup {idle}, !.timers = @ \ {idle}, !.holds[p] = idle]
      ELSE [room EXCEPT !.slots[k] = Append(@, new), !.order = Append(@, new),
                        !.busy = @ \cup {new}, !.doomed = @ \ {new}, !.holds[p] = new]

Served(f, p) ==
  IF CanTake(f, Key[p]) THEN Taken([f EXCEPT !.waiting = Without(@, p)], p) ELSE f

\* pump(): the waiters in order, past those that cannot be served.
Pumped(f) ==
  LET after[i \in 0..Len(f.waiting)] ==
        IF i = 0 THEN f ELSE Served(after[i - 1], f.waiting[i])
  IN  after[Len(f.waiting)]

\* retire()
Retired(f, s) ==
  IF s \in f.busy THEN [f EXCEPT !.retired = @ \cup {s}] ELSE Pumped(Removed(f, s))

RetiredAll(f, list) ==
  LET after[i \in 0..Len(list)] == IF i = 0 THEN f ELSE Retired(after[i - 1], list[i])
  IN  after[Len(list)]

\* The waiters of other accounts: rejectWaiters() of close(k).
Others(list, k) ==
  LET rest[i \in 0..Len(list)] ==
        IF i = 0 THEN <<>>
        ELSE IF Key[list[i]] = k THEN rest[i - 1] ELSE Append(rest[i - 1], list[i])
  IN  rest[Len(list)]

\* release() of the slot of p; auth: its login failed.
Released(f, p, auth) ==
  LET s == f.holds[p]
      freed == [f EXCEPT !.holds[p] = NoSlot, !.busy = @ \ {s},
                         !.order = Append(Without(@, s), s)]
  IN  Pumped(IF auth \/ s \notin f.open \/ s \in f.retired
             THEN Removed(freed, s)
             ELSE [freed EXCEPT !.timers = @ \cup {s}])

\* Steps that may close sessions wait while more than MaxClosing close.
ClosingBounded == Cardinality(pool.closing) <= MaxClosing

-----------------------------------------------------------------------------
(* Callers.                                                                *)

IsOut(p) == pool.holds[p] = NoSlot /\ p \notin ToSet(pool.waiting)

\* use() up to its first await.
Use(p) ==
  /\ ClosingBounded
  /\ IsOut(p)
  /\ ~pool.closed
  /\ pool' = IF pool.waiting = <<>> /\ CanTake(pool, Key[p]) THEN Taken(pool, p)
             ELSE [pool EXCEPT !.waiting = Append(@, p)]
  /\ UNCHANGED settling

\* The config of a new session is resolved; the callback runs.
Opened(p) ==
  /\ pool.holds[p] # NoSlot
  /\ pool.holds[p] \notin pool.open
  /\ pool' = [pool EXCEPT !.open = @ \cup {pool.holds[p]}]
  /\ UNCHANGED settling

OpenFailsUnreleased(p) ==
  /\ ClosingBounded
  /\ pool.holds[p] # NoSlot
  /\ pool.holds[p] \notin pool.open
  /\ pool' = [pool EXCEPT !.holds[p] = NoSlot]
  /\ UNCHANGED settling

\* The config of a new session cannot be resolved.
OpenFails(p) ==
  /\ ClosingBounded
  /\ pool.holds[p] # NoSlot
  /\ pool.holds[p] \notin pool.open
  /\ pool' = Released(pool, p, FALSE)
  /\ UNCHANGED settling

\* The callback ends: with a failed login, or otherwise.
UseEnds(p, auth) ==
  /\ ClosingBounded
  /\ pool.holds[p] \in pool.open
  /\ pool' = Released(pool, p, auth)
  /\ UNCHANGED settling

\* acquireTimeoutMs passes.
WaitExpires(p) ==
  /\ p \in ToSet(pool.waiting)
  /\ pool' = [pool EXCEPT !.waiting = Without(@, p)]
  /\ UNCHANGED settling

-----------------------------------------------------------------------------
(* Sessions, close() and closeAll().                                       *)

IdleExpires(s) ==
  /\ ClosingBounded
  /\ s \in pool.timers
  /\ pool' = Retired(pool, s)
  /\ UNCHANGED settling

\* The close() of a session ends.
SessionCloses(s) ==
  /\ s \in pool.closing
  /\ pool' = [pool EXCEPT !.closing = @ \ {s}, !.doomed = @ \ {s}]
  /\ UNCHANGED settling

Close(k) ==
  /\ ClosingBounded
  /\ k \notin settling
  /\ pool' = RetiredAll([pool EXCEPT !.waiting = Others(@, k),
                                     !.doomed = @ \cup ToSet(pool.slots[k])],
                        pool.slots[k])
  /\ settling' = settling \cup {k}

CloseAll ==
  /\ ClosingBounded
  /\ ~pool.closed
  /\ pool' = RetiredAll([pool EXCEPT !.closed = TRUE, !.waiting = <<>>,
                                     !.doomed = @ \cup ToSet(pool.order)],
                        pool.order)
  /\ settling' = settling \cup {"all"}

SettlesWhenIdle(call) ==
  /\ call \in settling
  /\ pool.closing = {}
  /\ settling' = settling \ {call}
  /\ UNCHANGED pool

\* settle() finds no retired slot busy and no session closing.
Settles(call) ==
  /\ call \in settling
  /\ pool.retired \cap pool.busy = {}
  /\ pool.closing = {}
  /\ settling' = settling \ {call}
  /\ UNCHANGED pool

-----------------------------------------------------------------------------
Init ==
  /\ pool = [slots |-> [k \in Accounts |-> <<>>], order |-> <<>>,
             busy |-> {}, retired |-> {}, timers |-> {}, open |-> {}, closing |-> {},
             doomed |-> {}, waiting |-> <<>>, holds |-> [p \in Callers |-> NoSlot],
             closed |-> FALSE]
  /\ settling = {}

Next ==
  \/ \E p \in Callers : Use(p) \/ Opened(p) \/ OpenFails(p) \/ WaitExpires(p)
  \/ \E p \in Callers, auth \in BOOLEAN : UseEnds(p, auth)
  \/ \E s \in Slots : IdleExpires(s) \/ SessionCloses(s)
  \/ \E k \in Accounts : Close(k)
  \/ CloseAll
  \/ \E call \in Accounts \cup {"all"} : Settles(call)

Spec == Init /\ [][Next]_vars

-----------------------------------------------------------------------------
(* Properties.                                                             *)

TypeOK == pool \in Pool /\ settling \subseteq Accounts \cup {"all"}

\* The sessions of an account and those of all accounts keep their limits,
\* through evictions, failed logins and closes in every order (ImapPool's
\* "Up to `maxPerAccount` sessions per key and `maxSessions` in total").
LimitsKept ==
  /\ Len(pool.order) <= MaxSessions
  /\ \A k \in Accounts : Len(pool.slots[k]) <= MaxPerAccount
  /\ \A s \in Slots : s \in ToSet(pool.order) <=> \E k \in Accounts : s \in ToSet(pool.slots[k])

\* A callback has a session of its own account to itself, and nothing - neither
\* an eviction, an idle timer nor close() - closes the session before it ends.
LentExclusively ==
  \A p \in Callers :
    LET s == pool.holds[p]
    IN  s # NoSlot =>
          /\ s \in ToSet(pool.slots[Key[p]]) \cap pool.busy
          /\ s \notin pool.timers \cup pool.closing
          /\ \A r \in Callers \ {p} : pool.holds[r] # s

\* A session in the pool is lent or has an idle timer.
LentOrTimed ==
  \A s \in ToSet(pool.order) :
    (\E p \in Callers : pool.holds[p] = s) <=> s \notin pool.timers

\* A slot that a call of use() gets is none that close() or closeAll() found.
FoundNotLent ==
  \A p \in Callers :
    pool'.holds[p] \notin {NoSlot, pool.holds[p]} => pool'.holds[p] \notin pool'.doomed

\* A call that returns from settle() leaves nothing of what it found open, and
\* closeAll() leaves nothing at all.
SettledWhenClosed ==
  /\ settling' \subseteq settling /\ settling' # settling => pool.doomed = {}
  /\ "all" \in settling \ settling' =>
       pool.order = <<>> /\ pool.waiting = <<>> /\ \A p \in Callers : pool.holds[p] = NoSlot
=============================================================================
