--------------------------- MODULE MailboxWatcher ---------------------------
(***************************************************************************)
(* The mailbox watcher, src/src/imap/MailboxWatcher.ts, on the command     *)
(* lock and the IDLE loop of src/src/imap/ImapClient.ts: connecting and    *)
(* reconnecting, new mail found by UID and reported once, polling, and     *)
(* stop() at any point.                                                    *)
(*                                                                         *)
(* A step is one event with the microtasks up to the next await.  The      *)
(* server carries a command out and answers it in two steps, and tells of  *)
(* new mail (EXISTS) at any moment a mailbox is selected.  A connection is *)
(* a number, used again once it is closed.                                 *)
(***************************************************************************)
EXTENDS Naturals, Sequences, SequencesExt

CONSTANTS
  Idles,       \* the servers: does one offer IDLE?
  MaxMail,     \* bound: messages
  MaxFaults,   \* bound: drops and refusals
  MaxMailboxes \* bound: mailboxes made anew under the name, each with its UIDVALIDITY

ConstantsFit ==
  /\ Idles \subseteq BOOLEAN
  /\ MaxMail \in Nat /\ MaxFaults \in Nat /\ MaxMailboxes \in Nat \ {0}

\* Definitions that are used nowhere below are variants of the definition that
\* follows them, each with a mistake that a property is meant to catch.

VARIABLES
  w,        \* the fields of MailboxWatcher, and the stop() under way
  loops,    \* the calls of open(): 0 that of start(), the others of reconnect()
  conn,     \* the connections
  mail,     \* the mailbox at the server
  reported, \* how often each message of the mailbox was in a `new' event
  missed,   \* the last notice of new mail was not followed by a search
  faults

vars == <<w, loops, conn, mail, reported, missed, faults>>

Loops == 0..MaxFaults + 1
Conns == 1..MaxFaults + 2
Uids == 1..MaxMail
Boxes == 1..MaxMailboxes

-----------------------------------------------------------------------------
(* Types.                                                                  *)

Commands == {"idle", "search", "noop", "logout"}

\* queue: the command under way and those behind it in the client's lock;
\* head: "wait" for its answer, "served", or for IDLE "idling" and "done" (DONE
\* is sent).  told: the mail the server told of; seen: the UIDNEXT it answered.
TypeOK ==
  /\ w \in [idle : Idles, stopped : BOOLEAN, client : {0} \cup Conns, stopIdle : {0} \cup Conns,
            connecting : {0} \cup Conns, checking : {0} \cup Conns, recheck : BOOLEAN,
            uidNext : 0..MaxMail + 1, box : 0..MaxMailboxes, since : 0..MaxMail + 1,
            stop : {"no", "idle", "close", "done"}, closing : {0} \cup Conns]
  /\ loops \in [Loops -> [at : {"off", "sleep", "opening"}, via : {0} \cup Conns]]
  /\ conn \in [Conns -> [at : {"none", "dial", "login", "closing", "examine", "examined", "open"},
                         queue : Seq(Commands), head : {"wait", "served", "idling", "done"},
                         poll : BOOLEAN, ended : BOOLEAN, told : 0..MaxMail + 1,
                         seen : 0..MaxMail + 1]]
  /\ mail \in [next : 1..MaxMail + 1, box : Boxes]
  /\ reported \in [Uids -> Nat]
  /\ missed \in BOOLEAN /\ faults \in 0..MaxFaults

NoConn == [at |-> "none", queue |-> <<>>, head |-> "wait", poll |-> FALSE, ended |-> FALSE,
           told |-> 0, seen |-> 0]

Larger(a, b) == IF a > b THEN a ELSE b

Fault == faults < MaxFaults /\ faults' = faults + 1
NoFault == UNCHANGED faults

-----------------------------------------------------------------------------
(* The lock of a client, and its IDLE loop.  An operator of this and the   *)
(* next section changes the records v (the watcher) and k (a connection).  *)

\* A command is queued; IDLE yields to it.
Queued(k, command) ==
  [k EXCEPT !.queue = Append(@, command), !.head = IF @ = "idling" THEN "done" ELSE @]

\* The command under way is over; an IDLE loop that was ended does not enter again.
Popped(k) ==
  LET rest == Tail(k.queue)
      turns == {i \in DOMAIN rest : rest[i] = "idle"}
  IN  [k EXCEPT !.head = "wait",
                !.queue = IF k.ended /\ turns # {} THEN RemoveAt(rest, CHOOSE i \in turns : TRUE)
                          ELSE rest]

IdleEndedAsleep(k) == [k EXCEPT !.ended = TRUE]

IdleEnded(k) ==
  [k EXCEPT !.ended = TRUE, !.head = IF @ = "idling" THEN "done" ELSE @]

-----------------------------------------------------------------------------
(* scheduleCheck() and checkNew().                                         *)

\* checkNew() searches on the connection of the moment.
CheckWanted(v) == v.client # 0 /\ ~v.stopped

CheckDropped(v, ks) ==
  IF v.checking # 0 \/ ~CheckWanted(v) THEN [v |-> v, ks |-> ks]
  ELSE [v |-> [v EXCEPT !.checking = v.client],
        ks |-> [ks EXCEPT ![v.client] = Queued(@, "search")]]

\* A check that is under way is run once more.
ScheduleCheck(v, ks) ==
  IF v.checking # 0 THEN [v |-> [v EXCEPT !.recheck = TRUE], ks |-> ks]
  ELSE IF ~CheckWanted(v) THEN [v |-> v, ks |-> ks]
  ELSE [v |-> [v EXCEPT !.checking = v.client],
        ks |-> [ks EXCEPT ![v.client] = Queued(@, "search")]]

\* The check is over, well or not.
CheckOver(v, ks) ==
  LET u == [v EXCEPT !.checking = 0]
  IN  IF u.recheck /\ ~u.stopped THEN ScheduleCheck([u EXCEPT !.recheck = FALSE], ks)
      ELSE [v |-> u, ks |-> ks]

-----------------------------------------------------------------------------
(* open(), called by start() and by reconnect().                           *)

FreeLoop == CHOOSE l \in Loops \ {0} : /\ loops[l].at = "off"
                                       /\ \A m \in Loops \ {0} : loops[m].at = "off" => l <= m
FreeConn == CHOOSE c \in Conns : /\ conn[c].at = "none" /\ c # w.closing
                                 /\ \A d \in Conns : conn[d].at = "none" /\ d # w.closing => c <= d

Open(l) ==
  /\ conn' = [conn EXCEPT ![FreeConn] = [NoConn EXCEPT !.at = "dial"]]
  /\ w' = [w EXCEPT !.connecting = FreeConn]
  /\ loops' = [loops EXCEPT ![l] = [at |-> "opening", via |-> FreeConn]]

Start ==
  /\ w.stop = "no" /\ loops[0].at = "off" /\ w.box = 0
  /\ \A c \in Conns : conn[c].at = "none"
  /\ Open(0)
  /\ UNCHANGED <<mail, reported, missed, faults>>

\* open() on connection c throws: start() rejects, reconnect() tries again.
Failing(ls, c, v) ==
  [l \in Loops |-> IF ls[l].at = "opening" /\ ls[l].via = c
                   THEN [at |-> IF l = 0 \/ v.stopped THEN "off" ELSE "sleep", via |-> 0]
                   ELSE ls[l]]

Returning(ls, c) ==
  [l \in Loops |-> IF ls[l].at = "opening" /\ ls[l].via = c THEN [at |-> "off", via |-> 0]
                   ELSE ls[l]]

\* The socket is there, so that destroy() has an effect.
Attach(c) ==
  /\ conn[c].at = "dial"
  /\ conn' = [conn EXCEPT ![c].at = "login"]
  /\ UNCHANGED <<w, loops, mail, reported, missed, faults>>

\* connect() returned; a watcher that was stopped meanwhile closes the connection.
LoggedIn(c) ==
  /\ conn[c].at = "login"
  /\ w' = [w EXCEPT !.connecting = 0]
  /\ IF w.stopped
     THEN /\ conn' = [conn EXCEPT ![c] = [Queued(@, "logout") EXCEPT !.at = "closing"]]
          /\ loops' = Returning(loops, c)
     ELSE /\ conn' = [conn EXCEPT ![c].at = "examine"] /\ UNCHANGED loops
  /\ UNCHANGED <<mail, reported, missed, faults>>

\* connect() throws; the watcher gives up on an error of authentication.
ConnectFails(c) ==
  /\ conn[c].at \in {"dial", "login"}
  /\ \E auth \in BOOLEAN :
       LET gone == [w EXCEPT !.connecting = 0, !.stopped = @ \/ (auth /\ loops[0].via # c)]
       IN  w' = gone /\ loops' = Failing(loops, c, gone) /\ (auth => conn[c].at = "login")
  /\ conn' = [conn EXCEPT ![c] = NoConn]
  /\ Fault
  /\ UNCHANGED <<mail, reported, missed>>

ServeExamine(c) ==
  /\ conn[c].at = "examine"
  /\ conn' = [conn EXCEPT ![c].at = "examined", ![c].told = mail.next, ![c].seen = mail.next]
  /\ UNCHANGED <<w, loops, mail, reported, missed, faults>>

KeepsUidNext(v, c) ==
  [v EXCEPT !.box = mail.box, !.client = c,
            !.uidNext = IF @ = 0 THEN conn[c].seen ELSE @,
            !.since = IF v.box # mail.box THEN conn[c].seen ELSE @]

\* The mailbox is another one now: what was seen says nothing any more.
Adopted(v, c) ==
  LET anew == v.box # 0 /\ v.box # mail.box
  IN  [v EXCEPT !.box = mail.box, !.client = c,
                !.uidNext = IF anew \/ @ = 0 THEN conn[c].seen ELSE @,
                !.since = IF v.box # mail.box THEN conn[c].seen ELSE @]

\* The answer of EXAMINE: the listeners, the catch-up, and IDLE or the poll timer.
Examined(c) ==
  /\ conn[c].at = "examined"
  /\ LET anew == w.box # 0 /\ w.box # mail.box
         from == IF anew THEN conn[c].seen ELSE w.uidNext
         v == Adopted(w, c)
         ks == [conn EXCEPT ![c].at = "open", ![c].poll = ~w.idle]
         r == IF from # 0 /\ from < conn[c].seen THEN ScheduleCheck(v, ks) ELSE [v |-> v, ks |-> ks]
     IN  /\ w' = r.v
         /\ conn' = IF w.idle THEN [r.ks EXCEPT ![c] = Queued(@, "idle")] ELSE r.ks
         /\ loops' = IF w.idle THEN loops ELSE Returning(loops, c)
         /\ reported' = IF anew THEN [u \in Uids |-> 0] ELSE reported
  /\ UNCHANGED <<mail, missed, faults>>

-----------------------------------------------------------------------------
(* The close of a connection, and reconnect().                             *)

\* onDropped(): whichever connection closed, the watcher has none now.
Dropped(v) == [v EXCEPT !.client = 0, !.stopIdle = 0]

Unpolled(ks, v) == [k \in Conns |-> IF k = v.client THEN [ks[k] EXCEPT !.poll = FALSE] ELSE ks[k]]

\* The `close' event of c: the listener of open(), if it is there, then what
\* was waiting on c fails.
Closes(c) ==
  LET heard == conn[c].at = "open"
      v == IF heard THEN Dropped(w) ELSE w
      ks == [Unpolled(conn, IF heard THEN w ELSE [w EXCEPT !.client = 0]) EXCEPT ![c] = NoConn]
      r == IF v.checking = c THEN CheckOver(v, ks) ELSE [v |-> v, ks |-> ks]
      ls == Failing(loops, c, v)
  IN  /\ w' = r.v /\ conn' = r.ks
      /\ loops' = IF heard /\ ~v.stopped THEN [ls EXCEPT ![FreeLoop] = [at |-> "sleep", via |-> 0]]
                  ELSE ls

Drop(c) ==
  /\ conn[c].at \in {"closing", "examine", "examined", "open"}
  /\ Closes(c) /\ Fault
  /\ UNCHANGED <<mail, reported, missed>>

\* The delay of reconnect() is over.
Wake(l) ==
  /\ loops[l].at = "sleep"
  /\ IF w.stopped THEN loops' = [loops EXCEPT ![l].at = "off"] /\ UNCHANGED <<w, conn>>
     ELSE Open(l)
  /\ UNCHANGED <<mail, reported, missed, faults>>

-----------------------------------------------------------------------------
(* Commands, and notices of the server.                                    *)

Executing(c, command) == conn[c].queue # <<>> /\ Head(conn[c].queue) = command

\* "+": idle() returns to open(), and IDLE yields to what is queued behind it.
IdleEntered(c) ==
  /\ Executing(c, "idle") /\ conn[c].head = "wait"
  /\ conn' = [conn EXCEPT ![c].head = IF conn[c].ended \/ Len(conn[c].queue) > 1 THEN "done"
                                      ELSE "idling"]
  /\ loops' = Returning(loops, c)
  /\ w' = IF \E l \in Loops : loops[l].via = c THEN [w EXCEPT !.stopIdle = c] ELSE w
  /\ UNCHANGED <<mail, reported, missed, faults>>

Renew(c) ==
  /\ Executing(c, "idle") /\ conn[c].head = "idling"
  /\ conn' = [conn EXCEPT ![c].head = "done"]
  /\ UNCHANGED <<w, loops, mail, reported, missed, faults>>

\* DONE is answered; the loop enters IDLE again, behind the commands that wait.
IdleDone(c) ==
  /\ Executing(c, "idle") /\ conn[c].head = "done"
  /\ conn' = [conn EXCEPT ![c] = LET k == Popped(@) IN IF k.ended THEN k ELSE Queued(k, "idle")]
  /\ UNCHANGED <<w, loops, mail, reported, missed, faults>>

\* The server carries out SEARCH, NOOP or LOGOUT.
Serve(c) ==
  /\ conn[c].queue # <<>> /\ Head(conn[c].queue) # "idle" /\ conn[c].head = "wait"
  /\ conn' = [conn EXCEPT ![c].head = "served", ![c].seen = mail.next]
  /\ UNCHANGED <<w, loops, mail, reported, missed, faults>>

\* The UIDs found at or above uidNext are reported.
SearchAnswered(c) ==
  /\ Executing(c, "search") /\ conn[c].head = "served"
  /\ LET from == Larger(w.uidNext, 1)
         r == CheckOver([w EXCEPT !.uidNext = Larger(@, conn[c].seen)],
                        [conn EXCEPT ![c] = Popped(@)])
     IN  /\ w' = r.v /\ conn' = r.ks
         /\ reported' = [u \in Uids |-> reported[u] + IF from <= u /\ u < conn[c].seen THEN 1 ELSE 0]
  /\ missed' = FALSE
  /\ UNCHANGED <<loops, mail, faults>>

\* A search that is refused is an `error' event, and not made again.
SearchRefused(c) ==
  /\ Executing(c, "search") /\ conn[c].head = "wait" /\ Fault
  /\ LET r == CheckOver(w, [conn EXCEPT ![c] = Popped(@)])
     IN  w' = r.v /\ conn' = r.ks /\ missed' = (r.v.checking = 0)
  /\ UNCHANGED <<loops, mail, reported>>

Poll(c) ==
  /\ conn[c].poll /\ ~Contains(conn[c].queue, "noop")
  /\ conn' = [conn EXCEPT ![c] = Queued(@, "noop")]
  /\ UNCHANGED <<w, loops, mail, reported, missed, faults>>

PollAnswered(c) ==
  /\ Executing(c, "noop") /\ conn[c].head = "served"
  /\ LET r == ScheduleCheck(w, [conn EXCEPT ![c] = Popped(@)]) IN w' = r.v /\ conn' = r.ks
  /\ UNCHANGED <<loops, mail, reported, missed, faults>>

\* LOGOUT is answered or its timer ends, and the socket is destroyed.
LoggedOut(c) ==
  /\ Executing(c, "logout") /\ conn[c].head = "served"
  /\ Closes(c)
  /\ UNCHANGED <<mail, reported, missed, faults>>

\* EXISTS; until open() has the answer of EXAMINE nobody listens.
Tell(c) ==
  /\ conn[c].at \in {"examined", "open"} /\ conn[c].told < mail.next
  /\ LET ks == [conn EXCEPT ![c].told = mail.next]
         r == IF conn[c].at = "open" THEN ScheduleCheck(w, ks) ELSE [v |-> w, ks |-> ks]
     IN  w' = r.v /\ conn' = r.ks
  /\ missed' = (missed \/ conn[c].at # "open")
  /\ UNCHANGED <<loops, mail, reported, faults>>

Arrive ==
  /\ mail.next <= MaxMail
  /\ mail' = [mail EXCEPT !.next = @ + 1]
  /\ UNCHANGED <<w, loops, conn, reported, missed, faults>>

\* The mailbox is made anew, empty or not, while nobody is connected.
Recreate ==
  /\ mail.box < MaxMailboxes /\ w.box # 0 /\ \A c \in Conns : conn[c].at = "none"
  /\ \E next \in {1, mail.next} : mail' = [next |-> next, box |-> mail.box + 1]
  /\ UNCHANGED <<w, loops, conn, reported, missed, faults>>

-----------------------------------------------------------------------------
(* stop().                                                                 *)

\* Up to the first await: a connection that is being opened is destroyed if it
\* has a socket, and IDLE is ended.
Stop ==
  /\ w.stop = "no" /\ (w.box # 0 \/ loops[0].at = "opening")
  /\ w' = [w EXCEPT !.stopped = TRUE, !.stop = "idle", !.closing = w.stopIdle, !.stopIdle = 0,
                    !.connecting = IF @ # 0 /\ conn[@].at = "login" THEN 0 ELSE @]
  /\ conn' = [c \in Conns |->
                IF c = w.connecting /\ conn[c].at = "login" THEN NoConn
                ELSE IF c = w.stopIdle THEN [IdleEnded(conn[c]) EXCEPT !.poll = FALSE]
                ELSE IF c = w.client THEN [conn[c] EXCEPT !.poll = FALSE]
                ELSE conn[c]]
  /\ loops' = [l \in Loops |-> IF loops[l].via # 0 /\ loops[l].via = w.connecting
                                  /\ conn[w.connecting].at = "login"
                               THEN [at |-> "off", via |-> 0] ELSE loops[l]]
  /\ UNCHANGED <<mail, reported, missed, faults>>

\* The IDLE loop has ended; the client of the moment is closed.
StopCloses ==
  /\ w.stop = "idle"
  /\ w.closing # 0 => ~Contains(conn[w.closing].queue, "idle")
  /\ w' = [w EXCEPT !.stop = "close", !.closing = w.client]
  /\ conn' = IF w.client = 0 THEN conn ELSE [conn EXCEPT ![w.client] = Queued(@, "logout")]
  /\ UNCHANGED <<loops, mail, reported, missed, faults>>

StopReturns ==
  /\ w.stop = "close" /\ (w.closing # 0 => conn[w.closing].at = "none")
  /\ w' = [w EXCEPT !.stop = "done", !.client = 0, !.closing = 0]
  /\ UNCHANGED <<loops, conn, mail, reported, missed, faults>>

-----------------------------------------------------------------------------
Init ==
  /\ \E idle \in Idles :
       w = [idle |-> idle, stopped |-> FALSE, client |-> 0, stopIdle |-> 0, connecting |-> 0,
            checking |-> 0, recheck |-> FALSE, uidNext |-> 0, box |-> 0, since |-> 0,
            stop |-> "no", closing |-> 0]
  /\ loops = [l \in Loops |-> [at |-> "off", via |-> 0]]
  /\ conn = [c \in Conns |-> NoConn]
  /\ mail = [next |-> 1, box |-> 1]
  /\ reported = [u \in Uids |-> 0]
  /\ missed = FALSE /\ faults = 0

Opening(c) == Attach(c) \/ LoggedIn(c) \/ ServeExamine(c) \/ Examined(c)
Command(c) == IdleEntered(c) \/ IdleDone(c) \/ Serve(c) \/ SearchAnswered(c)
              \/ PollAnswered(c) \/ LoggedOut(c)
Stopping == StopCloses \/ StopReturns

Next ==
  \/ Start \/ Stop \/ Stopping \/ Arrive \/ Recreate
  \/ \E l \in Loops : Wake(l)
  \/ \E c \in Conns : \/ Opening(c) \/ Command(c) \/ Tell(c) \/ Poll(c) \/ Renew(c)
                      \/ ConnectFails(c) \/ SearchRefused(c) \/ Drop(c)

Spec == Init /\ [][Next]_vars

\* The event loop runs what is ready and timers fire; the server answers, and
\* tells of new mail while a mailbox is selected.
Fairness ==
  /\ WF_vars(Stopping)
  /\ \A l \in Loops : WF_vars(Wake(l))
  /\ \A c \in Conns : WF_vars(Opening(c) \/ Command(c)) /\ WF_vars(Tell(c)) /\ WF_vars(Poll(c))

FairSpec == Spec /\ Fairness

-----------------------------------------------------------------------------
(* Properties.                                                             *)

\* The messages reported are those from the start of the watch up to uidNext,
\* each once (see WatcherPromises).
SeenOnce ==
  \A u \in Uids :
    reported[u] = IF w.since <= u /\ u < w.uidNext THEN 1 ELSE 0
=============================================================================
