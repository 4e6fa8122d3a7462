------------------------------ MODULE SmtpPool ------------------------------
(***************************************************************************)
(* The pool of SMTP connections, src/src/smtp/SmtpPool.ts, with what its   *)
(* callers (SmtpTransport.send and MailTs) do to a leased client and the   *)
(* events a client (SmtpClient) emits.                                     *)
(*                                                                         *)
(* A step is a synchronous stretch of code.  The gaps are the awaits of    *)
(* acquire() and dispatchWaiting(), where connections open, fail, break    *)
(* and close, and callers abort.  A name in Clients is used again for a    *)
(* new connection, and one in Callers for a new call of acquire(), once    *)
(* nothing refers to the old one.                                          *)
(***************************************************************************)
EXTENDS Naturals, Sequences, FiniteSets, SequencesExt

CONSTANTS
  Callers,         \* calls of acquire() under way at once
  Nobody,
  Clients,         \* connections that exist at once
  NoClient,
  MaxConnections,  \* pool.maxConnections
  MaxMessages,     \* pool.maxMessages
  Faults           \* what may go wrong: "connect": a connection attempt fails,
                   \* "error": a socket error, "close": the server closes a
                   \* connection, "abort": a caller's signal fires

ASSUME PoolConstants ==
  /\ IsFiniteSet(Callers) /\ IsFiniteSet(Clients)
  /\ Nobody \notin Callers
  /\ NoClient \notin Clients
  /\ MaxConnections \in Nat \ {0}
  /\ MaxMessages \in Nat \ {0}
  /\ Faults \subseteq {"connect", "error", "close", "abort"}
  /\ Cardinality(Clients) >= MaxConnections + Cardinality(Callers)

\* Definitions that are used nowhere below are variants of the definition that
\* follows them, each with a mistake that a property is meant to catch.

VARIABLES
  pool,   \* the fields of SmtpPool, its clients and its callers
  phase   \* the progress of drain()

vars == <<pool, phase>>

\* Calls of acquire(): not called or rejected, awaiting connect(), awaiting a
\* slot, or sending with a client.
CallStates == {"out", "connecting", "waiting", "sending"}

\* A message is accepted, refused, or the connection is unusable.
Ends == {"accepted", "refused", "broken"}

\* "broken": not ready, its close event is due; "none": no such connection.
ClientStates == {"none", "connecting", "ready", "broken", "quitting"}

\* What a waiting slot resolves: the promise of a caller's own acquire(), or
\* the acquire() that dispatchWaiting() awaits for a caller.
Slot == [caller : Callers, via : {"acquire", "dispatch"}]

Pool == [entries : Seq(Clients), inUse : SUBSET Clients, timers : SUBSET Clients,
         waiting : Seq(Slot), closing : BOOLEAN,
         state : [Clients -> ClientStates], sent : [Clients -> 0..MaxMessages],
         promised : [Clients -> Callers \cup {Nobody}],
         call : [Callers -> CallStates], holds : [Callers -> Clients \cup {NoClient}],
         stranded : BOOLEAN]  \* history: the last connection is gone and nobody was woken

Entries(s) == ToSet(s.entries)
Held(s, c) == \E p \in Callers : s.holds[p] = c
SlotsOf(s, p) == {i \in DOMAIN s.waiting : s.waiting[i].caller = p}

\* Client c, which nobody holds, is about to be handed to a caller: a microtask.
Handing(s, c) == s.promised[c] # Nobody /\ s.state[c] # "connecting"

\* A connection in use that no caller has or will get.
Leaked(c) == c \in pool.inUse /\ ~Held(pool, c) /\ pool.promised[c] = Nobody

\* Timers and events of sockets come only when no microtask is due.
Quiet == \A c \in Clients : ~Handing(pool, c)

Unused(s) == {c \in Clients : /\ s.state[c] = "none" /\ c \notin Entries(s)
                              /\ s.promised[c] = Nobody /\ ~Held(s, c)}

-----------------------------------------------------------------------------
(* Operations on the pool.                                                 *)

\* The list without its element e, if it has one: findIndex() and splice().
Without(list, e) ==
  IF e \in ToSet(list) THEN RemoveAt(list, CHOOSE i \in DOMAIN list : list[i] = e) ELSE list

\* What becomes of a client that is not ready any more and not in the list:
\* nobody needs to know of it once it has no holder.
Fate(s, c) == IF Held(s, c) \/ s.promised[c] # Nobody THEN "broken" ELSE "none"

Lost(s, c) == [s EXCEPT !.state[c] = IF c \in Entries(s) THEN "broken" ELSE Fate(s, c)]

RemovedKeepingTimer(s, c) ==
  [s EXCEPT !.entries = Without(@, c), !.inUse = @ \ {c},
            !.state[c] = IF @ = "quitting" THEN @ ELSE Fate(s, c)]

\* removeClient(), for a client that will be closed; drain() still awaits the
\* quit() of a client that it closes.
Removed(s, c) ==
  [s EXCEPT !.entries = Without(@, c), !.inUse = @ \ {c}, !.timers = @ \ {c},
            !.state[c] = IF @ = "quitting" THEN @ ELSE Fate(s, c)]

\* The connection that is given up without dispatchWaiting() was the last one.
Strands(s) == [s EXCEPT !.stranded = s.entries = <<>>]

\* The promise of p's acquire() resolves with c.
Leased(s, p, c) == [s EXCEPT !.call[p] = "sending", !.holds[p] = c]

Full(s) == Len(s.entries) >= MaxConnections

\* The ready connections that are not in use, and the first of them.
Idle(s) == {i \in DOMAIN s.entries : s.entries[i] \notin s.inUse /\ s.state[s.entries[i]] = "ready"}
FirstIdle(s) == s.entries[CHOOSE i \in Idle(s) : \A j \in Idle(s) : i <= j]

\* acquire(), as called by p or by dispatchWaiting() for p, up to its await.
Acquired(s, p, via) ==
  LET idle == FirstIdle(s)
      own(where) == IF via = "acquire" THEN [s.call EXCEPT ![p] = where] ELSE s.call
  IN  IF Idle(s) # {}
      THEN LET lent == [s EXCEPT !.inUse = @ \cup {idle}, !.timers = @ \ {idle}]
           IN  IF via = "acquire" THEN Leased(lent, p, idle)
               ELSE [lent EXCEPT !.promised[idle] = p]
      ELSE IF ~Full(s)
      THEN LET new == CHOOSE c \in Unused(s) : TRUE
           IN  [s EXCEPT !.entries = Append(@, new), !.inUse = @ \cup {new},
                         !.state[new] = "connecting", !.sent[new] = 0,
                         !.promised[new] = p, !.call = own("connecting"), !.stranded = FALSE]
      ELSE [s EXCEPT !.waiting = Append(@, [caller |-> p, via |-> via]),
                     !.call = own("waiting")]

\* dispatchWaiting(), up to its await.
Dispatched(s) ==
  IF s.waiting = <<>> \/ s.closing THEN s
  ELSE Acquired([s EXCEPT !.waiting = Tail(@)], Head(s.waiting).caller, "dispatch")

Retired(s, c) == s.sent[c] >= MaxMessages

\* The last part of release(): c serves the head of the queue or goes idle.
LentUnmarked(s, c) ==
  LET slot == Head(s.waiting)
      served == [s EXCEPT !.waiting = Tail(@), !.inUse = @ \ {c}]
  IN  IF s.waiting = <<>>
      THEN [s EXCEPT !.inUse = @ \ {c}, !.timers = @ \cup {c}]
      ELSE IF slot.via = "acquire" THEN Leased(served, slot.caller, c)
      ELSE [served EXCEPT !.promised[c] = slot.caller]

Lent(s, c) ==
  LET slot == Head(s.waiting)
      served == [s EXCEPT !.waiting = Tail(@)]
  IN  IF s.waiting = <<>>
      THEN [s EXCEPT !.inUse = @ \ {c}, !.timers = @ \cup {c}]
      ELSE IF slot.via = "acquire" THEN Leased(served, slot.caller, c)
      ELSE [served EXCEPT !.promised[c] = slot.caller]

ReleasedUnserved(s, c) ==
  IF c \notin Entries(s) THEN Lost(s, c)
  ELSE IF s.state[c] # "ready" \/ Retired(s, c) THEN Removed(s, c)
  ELSE Lent(s, c)

\* release(c), when no caller holds c any more.
Released(s, c) ==
  IF c \notin Entries(s) THEN Dispatched(Lost(s, c))
  ELSE IF s.state[c] # "ready" \/ Retired(s, c) THEN Dispatched(Removed(s, c))
  ELSE Lent(s, c)

\* The promise that dispatchWaiting() or acquire() awaited for p resolves with
\* c.  If p has been rejected meanwhile, nobody takes c.
Delivered(s, c) ==
  LET p == s.promised[c]
      settled == [s EXCEPT !.promised[c] = Nobody]
  IN  IF s.call[p] \in {"connecting", "waiting"} THEN Leased(settled, p, c) ELSE settled

\* It rejects.
Rejected(s, p) ==
  IF s.call[p] \in {"connecting", "waiting"} THEN [s EXCEPT !.call[p] = "out"] ELSE s

-----------------------------------------------------------------------------
(* Callers.                                                                *)

Acquire(p) ==
  /\ ~pool.closing
  /\ pool.call[p] = "out"
  /\ SlotsOf(pool, p) = {} /\ \A c \in Clients : pool.promised[c] # p
  /\ pool' = Acquired(pool, p, "acquire")
  /\ UNCHANGED phase

\* The send of p ends: the server accepted the message, or refused it and the
\* client was reset, or the connection is unusable; then p calls release().
SendEnds(p, end) ==
  LET c == pool.holds[p]
      free == [pool EXCEPT !.call[p] = "out", !.holds[p] = NoClient]
  IN  /\ pool.call[p] = "sending"
      /\ end # "broken" => pool.state[c] = "ready"
      /\ pool' = Released(CASE end = "accepted" -> [free EXCEPT !.sent[c] = @ + 1]
                            [] end = "broken" -> Lost(free, c)
                            [] end = "refused" -> free, c)
      /\ UNCHANGED phase

\* The caller's signal fires: a waiting acquire() rejects and takes its own
\* slot, if it still has one, out of the queue; a sending caller destroys its
\* client.  While acquire() awaits connect() the signal has no listener.
Abort(p) ==
  /\ "abort" \in Faults
  /\ \/ /\ pool.call[p] = "waiting"
        /\ pool' = [pool EXCEPT
                     !.call[p] = "out",
                     !.waiting = Without(@, [caller |-> p, via |-> "acquire"])]
     \/ /\ pool.call[p] = "sending"
        /\ pool.state[pool.holds[p]] = "ready"
        /\ pool' = [pool EXCEPT !.state[pool.holds[p]] = "broken"]
  /\ UNCHANGED phase

-----------------------------------------------------------------------------
(* Clients.                                                                *)

ConnectSucceeds(c) ==
  /\ Quiet
  /\ pool.state[c] = "connecting"
  /\ pool' = Delivered([pool EXCEPT !.state[c] = "ready"], c)
  /\ UNCHANGED phase

\* connect() rejects: refused, timed out, or greeting, TLS or login failed; or
\* the server closes the connection, and the close event comes first.
ConnectFails(c, closed) ==
  /\ "connect" \in Faults
  /\ Quiet
  /\ pool.state[c] = "connecting"
  /\ LET p == pool.promised[c]
         gone == Removed([pool EXCEPT !.promised[c] = Nobody], c)
     IN  pool' = Rejected(IF closed THEN Dispatched(gone) ELSE Strands(gone), p)
  /\ UNCHANGED phase

\* dispatchWaiting() resumes with the client it acquired.
HandOver(c) ==
  /\ Handing(pool, c)
  /\ pool' = Delivered(pool, c)
  /\ UNCHANGED phase

\* A reply that cannot be parsed: the socket is destroyed.
Breaks(c) ==
  /\ "error" \in Faults
  /\ Quiet
  /\ pool.state[c] = "ready"
  /\ pool' = [pool EXCEPT !.state[c] = "broken"]
  /\ UNCHANGED phase

\* The quit() of a client that drain() closes ends.
Quits(c) ==
  /\ Quiet
  /\ pool.state[c] = "quitting"
  /\ pool' = Lost(pool, c)
  /\ UNCHANGED phase

\* Its socket was destroyed or silent for socketTimeout, or the server closes it.
MayClose(c) ==
  \/ pool.state[c] = "broken"
  \/ Leaked(c)
  \/ "close" \in Faults /\ pool.state[c] \in {"ready", "quitting"}

\* The close event of a client in the pool, onClientClose().
Closes(c) ==
  /\ Quiet
  /\ c \in Entries(pool)
  /\ MayClose(c)
  /\ pool' = Dispatched(Removed(pool, c))
  /\ UNCHANGED phase

\* The error event; the close event that follows finds no entry.
SocketError(c) ==
  /\ "error" \in Faults
  /\ Quiet
  /\ c \in Entries(pool)
  /\ pool.state[c] = "ready"
  /\ pool' = Strands(Removed(pool, c))
  /\ UNCHANGED phase

\* The idle timer fires: removeClient() and quit().
IdleExpires(c) ==
  /\ Quiet
  /\ c \in pool.timers
  /\ pool' = Strands(Removed(pool, c))
  /\ UNCHANGED phase

-----------------------------------------------------------------------------
(* drain().                                                                *)

Drain ==
  /\ ~pool.closing
  /\ pool' = [pool EXCEPT
       !.closing = TRUE,
       !.waiting = <<>>,
       !.call = [p \in Callers |-> IF @[p] = "waiting" /\ SlotsOf(pool, p) # {}
                                   THEN "out" ELSE @[p]],
       !.state = [c \in Clients |-> IF c \in Entries(pool) \ pool.inUse /\ @[c] = "ready"
                                    THEN "quitting" ELSE @[c]]]
  /\ phase' = "draining"

\* The idle clients have quit, and the poll finds no client in use; those that
\* were released meanwhile quit as well.
DrainEnds ==
  /\ phase = "draining"
  /\ \A c \in Clients : pool.state[c] # "quitting"
  /\ pool.inUse = {}
  /\ pool' = [pool EXCEPT
       !.entries = <<>>, !.timers = {},
       !.state = [c \in Clients |-> IF c \in Entries(pool) THEN "none" ELSE @[c]]]
  /\ phase' = "drained"

-----------------------------------------------------------------------------
Init ==
  /\ pool = [entries |-> <<>>, inUse |-> {}, timers |-> {}, waiting |-> <<>>,
             closing |-> FALSE, state |-> [c \in Clients |-> "none"],
             sent |-> [c \in Clients |-> 0],
             promised |-> [c \in Clients |-> Nobody],
             call |-> [p \in Callers |-> "out"],
             holds |-> [p \in Callers |-> NoClient], stranded |-> FALSE]
  /\ phase = "open"

Next ==
  \/ \E p \in Callers : Acquire(p) \/ Abort(p)
  \/ \E p \in Callers, end \in Ends : SendEnds(p, end)
  \/ \E c \in Clients : \/ ConnectSucceeds(c) \/ HandOver(c) \/ Breaks(c)
                        \/ Quits(c) \/ Closes(c) \/ SocketError(c) \/ IdleExpires(c)
  \/ \E c \in Clients, closed \in BOOLEAN : ConnectFails(c, closed)
  \/ Drain
  \/ DrainEnds

Spec == Init /\ [][Next]_vars

(***************************************************************************)
(* A connection attempt, a reply and a silent socket have timers, so       *)
(* connect(), quit() and a send end and a connection that nobody uses      *)
(* closes; promises resolve, and events of a destroyed socket and idle     *)
(* timers come.  Nothing obliges a caller to acquire, abort or drain.      *)
(***************************************************************************)
Fairness ==
  /\ \A p \in Callers : WF_vars(\E end \in Ends : SendEnds(p, end))
  /\ \A c \in Clients :
       /\ WF_vars(ConnectSucceeds(c) \/ \E closed \in BOOLEAN : ConnectFails(c, closed))
       /\ WF_vars(HandOver(c))
       /\ WF_vars(Quits(c))
       /\ WF_vars((pool.state[c] = "broken" \/ Leaked(c)) /\ Closes(c))
       /\ WF_vars(IdleExpires(c))
  /\ WF_vars(DrainEnds)

FairSpec == Spec /\ Fairness

-----------------------------------------------------------------------------
(* Properties.                                                             *)

TypeOK == pool \in Pool /\ phase \in {"open", "draining", "drained"}

\* A connection is lent to one caller at a time, is marked in use while it is
\* lent, and nobody is about to get it meanwhile: two sends never share one
\* SMTP session, whatever releases, hand-overs and aborts come between.
LeasesExclusive ==
  \A p \in Callers :
    LET c == pool.holds[p]
    IN  c # NoClient =>
          /\ \A r \in Callers \ {p} : pool.holds[r] # c
          /\ pool.promised[c] = Nobody
          /\ c \in Entries(pool) => c \in pool.inUse

\* The pool never holds more than MaxConnections connections, nor one twice.
SizeBounded ==
  /\ Len(pool.entries) <= MaxConnections
  /\ \A i, j \in DOMAIN pool.entries : pool.entries[i] = pool.entries[j] => i = j

\* The idle connections are those with an idle timer: none is left open for
\* ever, and no timer closes a connection that has been lent again.
IdleTimersExact == pool.timers = Entries(pool) \ pool.inUse

\* Nobody waits while a ready connection is idle, and a waiting call has exactly
\* one thing that will settle it: its own slot, or a slot or a connection of a
\* dispatchWaiting() made for it.
EveryWaiterTracked ==
  /\ pool.waiting # <<>> =>
       \A c \in Entries(pool) : c \in pool.inUse \/ pool.state[c] # "ready"
  /\ \A p \in Callers :
       pool.call[p] \in {"waiting", "connecting"} =>
         Cardinality(SlotsOf(pool, p)) + Cardinality({c \in Clients : pool.promised[c] = p}) = 1

\* After drain() nobody waits, nothing is being connected, and a caller that
\* still sends has a connection the pool had given up.
DrainLeavesNothing ==
  phase = "drained" =>
    /\ pool.inUse = {} /\ pool.waiting = <<>>
    /\ \A p \in Callers : pool.call[p] \in {"out", "sending"}
    /\ \A c \in Clients : pool.state[c] \in {"none", "broken"}

\* The pool's lists agree with each other and with its callers, through faults at
\* every await: its size, its idle timers, its waiting calls, and the end of drain().
PoolInOrder == TypeOK /\ SizeBounded /\ IdleTimersExact /\ EveryWaiterTracked /\ DrainLeavesNothing

\* A waiting call is served or rejected in the end, whatever was lent, broken, closed
\* or aborted in front of it, unless the last connection of the pool could not be
\* opened, had a socket error or was idle for too long: that wakes nobody.
\* drain() returns, also when an aborted call has left a connection in use that
\* nobody will release: the silent socket closes.
EveryCallReturns ==
  /\ \A p \in Callers : pool.call[p] = "waiting" ~> (pool.call[p] # "waiting" \/ pool.stranded)
  /\ phase = "draining" ~> phase = "drained"
=============================================================================
