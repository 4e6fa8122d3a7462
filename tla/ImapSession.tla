---------------------------- MODULE ImapSession -----------------------------
(***************************************************************************)
(* The reconnecting IMAP session, src/src/imap/ImapSession.ts, on the      *)
(* client it drives, src/src/imap/ImapClient.ts: the session lock, the     *)
(* mailbox each operation finds selected, connecting with STARTTLS and     *)
(* login, retries, keep-alive, commands that are served but whose answer   *)
(* is lost, and close().                                                   *)
(*                                                                         *)
(* A step is one event with the microtasks up to the next await.  Each     *)
(* task makes one call of the session; the calls run one at a time, in the *)
(* order of the session lock.  A client is one connection; the session     *)
(* makes a new one for each attempt to connect.  The server serves a       *)
(* command and answers it in two steps, and the connection may fail before *)
(* and after each.                                                         *)
(***************************************************************************)
EXTENDS Naturals, Sequences, FiniteSets

CONSTANTS
  Boxes,       \* the mailboxes
  Null,        \* no mailbox
  Tasks,       \* bound: calls made, numbered in the order they are made
  MaxClients,  \* bound: connections at a time
  MaxFaults,   \* bound: failures of the network and refusals of the server
  MaxProbes,   \* bound: keep-alive probes
  MaxCalls,    \* bound: calls of connect()
  Configs      \* the configurations (see Config)

Kinds == {"read", "write", "openReadOnly", "append", "move", "noop"}

Request == [kind : Kinds \ {"noop"}, box : Boxes]

\* secure: TLS from the start; insist: resolveRequireTLS(); starttls and move:
\* capabilities of the server; oauth: a token provider is configured; calls: the
\* calls made of the session.
Config == [secure : BOOLEAN, insist : BOOLEAN, starttls : BOOLEAN, move : BOOLEAN,
           oauth : BOOLEAN, retries : Nat, keepAlive : BOOLEAN, calls : SUBSET Request]

\* A move has another mailbox to go to.
ASSUME ImapSessionConstants ==
  /\ Null \notin Boxes /\ Null \notin [box : Boxes, ro : BOOLEAN]
  /\ \A box \in Boxes : Boxes \ {box} # {}
  /\ Boxes # {}
  /\ Tasks \in Nat /\ MaxClients \in Nat /\ MaxFaults \in Nat /\ MaxProbes \in Nat /\ MaxCalls \in Nat
  /\ Configs \subseteq Config

\* Definitions that are used nowhere below are variants of the definition that
\* follows them, each with a mistake that a property is meant to catch.

VARIABLES
  s,       \* the fields of ImapSession, and the close() under way
  op,      \* the call of each task, and the keep-alive probe
  cl,      \* the clients, by number
  server,  \* what the server has selected on each connection, and its mail
  faults

vars == <<s, op, cl, server, faults>>

Clients == 1..MaxClients
Probe == 0
Ops == 0..Tasks

-----------------------------------------------------------------------------
(* Types.                                                                  *)

Commands == {"select", "examine", "fetch", "store", "append", "noop", "move",
             "copy", "delete", "expunge"}

\* Where connect() of a client awaits; "ready" once it has returned.
Steps == {"new", "greeting", "preauth", "caps", "starttls", "upgrade", "login",
          "ready", "failed"}

Selection == {Null} \cup [box : Boxes, ro : BOOLEAN]

TypeOK ==
  /\ s \in [cfg : Configs, client : 0..MaxClients, dialing : 0..MaxClients,
            attempt : Nat, backoff : BOOLEAN, current : Selection,
            closed : BOOLEAN, late : BOOLEAN, keepAlive : BOOLEAN, line : Seq(Ops),
            probes : 0..MaxProbes, calls : 0..MaxCalls]
  /\ op \in [Ops -> [kind : Kinds, box : Boxes \cup {Null},
                     stage : {"new", "queued", "connecting", "running", "ok", "failed"},
                     via : 0..MaxClients, todo : Seq(Commands),
                     wire : {"idle", "sent", "served", "refused"}]]
  /\ cl \in [Clients -> [net : {"none", "open", "dead", "gone"}, step : Steps,
                         tls : BOOLEAN, tried : BOOLEAN, selected : Selection,
                         logout : {"no", "queued", "sent"}]]
  /\ server.selected \in [Clients -> Selection]
  /\ server.copies \subseteq Boxes /\ server.deleted \subseteq Boxes
  /\ server.appended \in [Ops -> Nat]
  /\ faults \in 0..MaxFaults

NewClient == [net |-> "none", step |-> "new", tls |-> FALSE, tried |-> FALSE,
              selected |-> Null, logout |-> "no"]
NoCall == [kind |-> "noop", box |-> Null, stage |-> "new", via |-> 0, todo |-> <<>>,
           wire |-> "idle"]

\* isConnected of the session's client.
Connected(c) == c # 0 /\ cl[c].net = "open" /\ cl[c].step = "ready" /\ cl[c].logout # "sent"

OnlyBackingOff == s.backoff

\* this.connecting: an attempt, or the delay before the next one, is under way.
Connecting == s.dialing # 0 \/ s.backoff

Fault == faults < MaxFaults /\ faults' = faults + 1

-----------------------------------------------------------------------------
(* The commands of a call.                                                 *)

\* move() without MOVE, removing the message before it is copied.
CommandsRemovingFirst(kind) ==
  CASE kind = "move" -> <<"delete", "expunge", "copy">>
    [] kind = "read" -> <<"fetch">>
    [] OTHER -> <<>>

\* What a call sends once its mailbox is selected.
CommandsOf(kind) ==
  CASE kind = "read"   -> <<"fetch">>
    [] kind = "write"  -> <<"store">>
    [] kind = "append" -> <<"append">>
    [] kind = "noop"   -> <<"noop">>
    [] kind = "move"   -> IF s.cfg.move THEN <<"move">> ELSE <<"copy", "delete", "expunge">>
    [] OTHER           -> <<>>

\* withMailbox() and withWritable(): is a SELECT needed first?
NeedsSelect(kind, box, c) ==
  \/ s.current = Null \/ cl[c].selected = Null
  \/ s.current.box # box
  \/ kind \in {"write", "move"} /\ s.current.ro

Opening(kind, needed) ==
  CASE kind = "openReadOnly"              -> <<"examine">>
    [] kind \in {"read", "write", "move"} -> IF needed THEN <<"select">> ELSE <<>>
    [] OTHER                              -> <<>>

\* The call of t runs fn(client) on client c.
Begun(t, c, needed) ==
  [op[t] EXCEPT !.stage = "running", !.via = c,
                !.todo = Opening(op[t].kind, needed) \o CommandsOf(op[t].kind)]

Ended(t, how) == [op[t] EXCEPT !.stage = how, !.wire = "idle", !.todo = <<>>, !.via = 0]

-----------------------------------------------------------------------------
(* Calls of the session, and its lock.                                     *)

Call(t, request) ==
  /\ op[t].stage = "new" /\ \A u \in 1..t-1 : op[u].stage # "new"
  /\ op' = [op EXCEPT ![t] = [NoCall EXCEPT !.kind = request.kind, !.box = request.box,
                                             !.stage = "queued"]]
  /\ s' = [s EXCEPT !.line = Append(@, t)]
  /\ UNCHANGED <<cl, server, faults>>

\* The keep-alive timer fires on an idle connection.
KeepAlive ==
  /\ s.keepAlive /\ s.probes < MaxProbes /\ Connected(s.client)
  /\ op[Probe].stage \in {"new", "ok", "failed"}
  /\ op' = [op EXCEPT ![Probe] = [NoCall EXCEPT !.stage = "queued"]]
  /\ s' = [s EXCEPT !.line = Append(@, Probe), !.probes = @ + 1]
  /\ UNCHANGED <<cl, server, faults>>

\* Numbers of clients that nothing refers to any more are used again.
Unused == {c \in Clients : /\ cl[c].net \in {"none", "gone"} /\ c # s.client
                           /\ \A t \in Ops : op[t].stage = "running" => op[t].via # c}

\* Attempt n of ensureClient() of the session v: a new client dials.
Dial(v, n) ==
  \E c \in Unused :
    /\ \A d \in Unused : c <= d
    /\ cl' = [cl EXCEPT ![c] = [NewClient EXCEPT !.net = "open", !.step = "greeting",
                                                 !.tls = s.cfg.secure]]
    /\ s' = [v EXCEPT !.dialing = c, !.attempt = n, !.backoff = FALSE]

\* connect(), outside the lock: a closed session is open again.
Connect ==
  /\ s.calls < MaxCalls
  /\ LET v == [s EXCEPT !.closed = FALSE, !.calls = @ + 1]
     IN  IF Connected(s.client) \/ Connecting THEN s' = v /\ UNCHANGED cl ELSE Dial(v, 0)
  /\ UNCHANGED <<op, server, faults>>

First(t) == s.line # <<>> /\ Head(s.line) = t

\* locked(): ensureClient(), then the operation.
EnterClosed(t) ==
  /\ First(t) /\ op[t].stage = "queued" /\ s.closed
  /\ op' = [op EXCEPT ![t] = Ended(t, "failed")]
  /\ s' = [s EXCEPT !.line = Tail(@)]
  /\ UNCHANGED <<cl, server, faults>>

Enter(t) ==
  /\ First(t) /\ op[t].stage = "queued" /\ ~s.closed /\ Connected(s.client)
  /\ op' = [op EXCEPT ![t] = Begun(t, s.client, NeedsSelect(op[t].kind, op[t].box, s.client))]
  /\ UNCHANGED <<s, cl, server, faults>>

EnterConnecting(t) ==
  /\ First(t) /\ op[t].stage = "queued" /\ ~s.closed /\ ~Connected(s.client)
  /\ op' = [op EXCEPT ![t].stage = "connecting"]
  /\ IF Connecting THEN UNCHANGED <<s, cl>> ELSE Dial(s, 0)
  /\ UNCHANGED <<server, faults>>

-----------------------------------------------------------------------------
(* ImapClient.connect(), one step per answer of the server.                *)

\* Log in, but over a plain connection upgrade first, or refuse to log in.
AfterCaps(cfg) ==
  CASE cfg.secure                     -> "login"
    [] ~cfg.secure /\ cfg.starttls    -> "starttls"
    [] ~cfg.secure /\ ~cfg.starttls   -> IF cfg.insist THEN "failed" ELSE "login"

AfterStep(step) ==
  CASE step = "greeting" -> {"caps", "preauth"}
    [] step = "preauth"  -> {"ready"}
    [] step = "caps"     -> {AfterCaps(s.cfg)}
    [] step = "starttls" -> {"upgrade"}
    [] step = "upgrade"  -> {"login"}
    [] step = "login"    -> {"ready"}

\* ensureClient()'s attempt is over; the call that waits for it goes on or fails.
Waiting == {t \in Ops : op[t].stage = "connecting"}

ConnectStep(c) ==
  /\ s.dialing = c
  /\ \E next \in AfterStep(cl[c].step) \ {"ready", "failed"} :
       cl' = [cl EXCEPT ![c].step = next, ![c].tls = @ \/ cl[c].step = "upgrade"]
  /\ UNCHANGED <<s, op, server, faults>>

ConnectDone(c) ==
  /\ s.dialing = c /\ "ready" \in AfterStep(cl[c].step)
  /\ cl' = [cl EXCEPT ![c].step = "ready"]
  /\ s' = [s EXCEPT !.client = c, !.dialing = 0, !.current = Null,
                    !.keepAlive = s.cfg.keepAlive]
  /\ op' = [t \in Ops |-> IF t \in Waiting THEN Begun(t, c, TRUE) ELSE op[t]]
  /\ UNCHANGED <<server, faults>>

\* connect() throws: the socket is destroyed, and the session tries again after
\* an error of the connection, up to its limit.
AttemptFails(c, retryable) ==
  /\ cl' = [cl EXCEPT ![c] = NewClient]
  /\ IF retryable /\ s.attempt < s.cfg.retries
     THEN s' = [s EXCEPT !.dialing = 0, !.backoff = TRUE] /\ UNCHANGED op
     ELSE /\ s' = [s EXCEPT !.dialing = 0,
                            !.line = IF Waiting = {} THEN @ ELSE Tail(@)]
          /\ op' = [t \in Ops |-> IF t \in Waiting THEN Ended(t, "failed") ELSE op[t]]

\* The connection fails or times out, the TLS handshake fails, or the server
\* closes with BYE.
ConnectLost(c) ==
  /\ s.dialing = c /\ Fault
  /\ AttemptFails(c, cl[c].step # "upgrade")
  /\ UNCHANGED server

\* The policy or a NO of the server refuses; a rejected OAuth token is fetched
\* anew once.
ConnectRefused(c) ==
  /\ s.dialing = c
  /\ \/ AfterStep(cl[c].step) = {"failed"} /\ AttemptFails(c, FALSE) /\ UNCHANGED faults
     \/ /\ cl[c].step \in {"caps", "preauth", "starttls", "login"} /\ Fault
        /\ IF cl[c].step = "login" /\ s.cfg.oauth /\ ~cl[c].tried
           THEN cl' = [cl EXCEPT ![c].tried = TRUE] /\ UNCHANGED <<s, op>>
           ELSE AttemptFails(c, FALSE)
  /\ UNCHANGED server

BackoffEnds ==
  /\ s.backoff /\ Dial(s, s.attempt + 1)
  /\ UNCHANGED <<op, server, faults>>

-----------------------------------------------------------------------------
(* The commands of the running call.                                       *)

Running(t) == op[t].stage = "running"
Command(t) == Head(op[t].todo)

\* The call settles, and the lock goes to the next one.
Settle(t, how) ==
  /\ op' = [op EXCEPT ![t] = Ended(t, how)]
  /\ s' = [s EXCEPT !.line = Tail(@)]

LostInTheLock(t) == op' = [op EXCEPT ![t] = Ended(t, "failed")] /\ UNCHANGED s

\* A call whose connection went away is not retried.
Lost(t) == Settle(t, "failed")

\* exec(): the command is written, once a LOGOUT before it in the client's
\* queue has ended, if the socket is still open.
Send(t) ==
  /\ Running(t) /\ op[t].wire = "idle" /\ op[t].todo # <<>>
  /\ LET c == op[t].via
     IN  \/ /\ cl[c].net = "open" /\ cl[c].logout = "no"
            /\ op' = [op EXCEPT ![t].wire = "sent"]
            /\ cl' = [cl EXCEPT ![c].selected = IF Command(t) \in {"select", "examine"}
                                                THEN Null ELSE @]
            /\ UNCHANGED s
         \/ cl[c].net # "open" /\ Lost(t) /\ UNCHANGED cl
  /\ UNCHANGED <<server, faults>>

OtherBox(box) == CHOOSE b \in Boxes : b # box

\* What a command does at the server, for the mailbox of call t.
Served(t) ==
  LET c == op[t].via
      box == op[t].box
      there == box \in server.copies
  IN  CASE Command(t) = "select"  -> [server EXCEPT !.selected[c] = [box |-> box, ro |-> FALSE]]
        [] Command(t) = "examine" -> [server EXCEPT !.selected[c] = [box |-> box, ro |-> TRUE]]
        [] Command(t) = "append"  -> [server EXCEPT !.appended[t] = @ + 1]
        [] Command(t) = "copy" /\ there ->
             [server EXCEPT !.copies = @ \cup {OtherBox(box)}, !.deleted = @ \ {OtherBox(box)}]
        [] Command(t) = "move" /\ there ->
             [server EXCEPT !.copies = {OtherBox(box)}, !.deleted = {}]
        [] Command(t) = "delete" /\ there -> [server EXCEPT !.deleted = @ \cup {box}]
        [] Command(t) = "expunge" -> [server EXCEPT !.copies = @ \ (server.deleted \cap {box}),
                                                    !.deleted = @ \ {box}]
        [] OTHER -> server

\* The server carries a command out, or refuses it; a SELECT it refuses leaves
\* no mailbox selected.
Serve(t) ==
  /\ Running(t) /\ op[t].wire = "sent" /\ cl[op[t].via].net = "open"
  /\ \/ /\ op' = [op EXCEPT ![t].wire = "served"]
        /\ server' = Served(t) /\ UNCHANGED faults
     \/ /\ op' = [op EXCEPT ![t].wire = "refused"] /\ Fault
        /\ server' = [server EXCEPT !.selected[op[t].via] =
                        IF Command(t) \in {"select", "examine"} THEN Null ELSE @]
  /\ UNCHANGED <<s, cl>>

\* The tagged OK arrives.
Done(t) ==
  /\ Running(t) /\ op[t].wire = "served" /\ cl[op[t].via].net = "open"
  /\ LET opened == [box |-> op[t].box, ro |-> Command(t) = "examine"]
         v == IF Command(t) \in {"select", "examine"} THEN [s EXCEPT !.current = opened] ELSE s
     IN  /\ cl' = [cl EXCEPT ![op[t].via].selected =
                     IF Command(t) \in {"select", "examine"} THEN opened ELSE @]
         /\ IF Len(op[t].todo) = 1
            THEN /\ op' = [op EXCEPT ![t] = Ended(t, "ok")]
                 /\ s' = [v EXCEPT !.line = Tail(@)]
            ELSE /\ op' = [op EXCEPT ![t].todo = Tail(@), ![t].wire = "idle"]
                 /\ s' = v
  /\ UNCHANGED <<server, faults>>

\* A tagged NO arrives.
Refused(t) ==
  /\ Running(t) /\ op[t].wire = "refused" /\ cl[op[t].via].net = "open"
  /\ Settle(t, "failed")
  /\ UNCHANGED <<cl, server, faults>>

\* The command's timer: the socket is destroyed, its `close' event is to come.
TimesOut(t) ==
  /\ Running(t) /\ op[t].wire \in {"sent", "served"} /\ cl[op[t].via].net = "open"
  /\ Fault
  /\ cl' = [cl EXCEPT ![op[t].via].net = "dead"]
  /\ Lost(t)
  /\ UNCHANGED server

\* The `close' event of a client: onClosed(), and the session's listener.
SocketCloses(c) ==
  /\ cl[c].step = "ready"
  /\ \/ cl[c].net = "dead" /\ UNCHANGED faults
     \/ cl[c].net = "open" /\ Fault
  /\ cl' = [cl EXCEPT ![c] = IF s.client = c THEN [NewClient EXCEPT !.net = "gone"]
                             ELSE NewClient]
  /\ LET v == IF s.client = c THEN [s EXCEPT !.current = Null] ELSE s
         hit == {t \in Ops : Running(t) /\ op[t].via = c /\ op[t].wire # "idle"}
     IN  IF hit = {} THEN s' = v /\ UNCHANGED op
         ELSE /\ op' = [t \in Ops |-> IF t \in hit THEN Ended(t, "failed") ELSE op[t]]
              /\ s' = [v EXCEPT !.line = Tail(@)]
  /\ server' = [server EXCEPT !.selected[c] = Null]

-----------------------------------------------------------------------------
(* close().                                                                *)

Close ==
  /\ ~s.closed
  /\ s' = [s EXCEPT !.closed = TRUE, !.keepAlive = FALSE, !.client = 0, !.current = Null,
                    !.late = Connecting]
  /\ cl' = [c \in Clients |-> IF c = s.client /\ cl[c].net = "open"
                              THEN [cl[c] EXCEPT !.logout = "queued"] ELSE cl[c]]
  /\ UNCHANGED <<op, server, faults>>

\* ImapClient.close(): LOGOUT waits for the command under way.
Logout(c) ==
  /\ cl[c].net = "open" /\ cl[c].logout = "queued"
  /\ \A t \in Ops : Running(t) /\ op[t].via = c => op[t].wire = "idle"
  /\ cl' = [cl EXCEPT ![c].logout = "sent"]
  /\ UNCHANGED <<s, op, server, faults>>

\* The LOGOUT is answered, or its five seconds are over: the socket is destroyed.
LoggedOut(c) ==
  /\ cl[c].net = "open" /\ cl[c].logout = "sent"
  /\ cl' = [cl EXCEPT ![c].net = "dead"]
  /\ UNCHANGED <<s, op, server, faults>>

-----------------------------------------------------------------------------
Init ==
  /\ s \in [cfg : Configs, client : {0}, dialing : {0}, attempt : {0}, backoff : {FALSE},
            current : {Null}, closed : {FALSE}, late : {FALSE}, keepAlive : {FALSE},
            line : {<<>>}, probes : {0}, calls : {0}]
  /\ op = [t \in Ops |-> NoCall]
  /\ cl = [c \in Clients |-> NewClient]
  /\ server = [selected |-> [c \in Clients |-> Null], copies |-> {CHOOSE b \in Boxes : TRUE},
               deleted |-> {}, appended |-> [t \in Ops |-> 0]]
  /\ faults = 0

Session(t) == Enter(t) \/ EnterClosed(t) \/ EnterConnecting(t)
Exchange(t) == Send(t) \/ Serve(t) \/ Done(t) \/ Refused(t)
Attempt(c) == ConnectStep(c) \/ ConnectDone(c) \/ ConnectRefused(c)
Leave(c) == Logout(c) \/ LoggedOut(c)
Dying(c) == Leave(c) \/ (cl[c].net = "dead" /\ SocketCloses(c))

Next ==
  \/ \E t \in 1..Tasks, request \in s.cfg.calls : Call(t, request)
  \/ KeepAlive \/ Connect \/ Close \/ BackoffEnds
  \/ \E t \in Ops : Session(t) \/ Exchange(t) \/ TimesOut(t)
  \/ \E c \in Clients : Attempt(c) \/ ConnectLost(c) \/ SocketCloses(c) \/ Leave(c)

Spec == Init /\ [][Next]_vars

\* Two waits of connect() have no timer: the handshake after STARTTLS, and the token
\* that the application provides.
Untimed(c) == s.dialing = c /\ (cl[c].step = "upgrade" \/ (cl[c].step = "login" /\ s.cfg.oauth))

\* The event loop runs what is ready; the server answers, or the timers of
\* connect(), of a command and of LOGOUT end the wait.  One call runs at a time,
\* and one client connects at a time.  Of what is Untimed nothing is assumed.
Fairness ==
  /\ WF_vars(\E t \in Ops : Session(t) \/ Exchange(t))
  /\ WF_vars(BackoffEnds \/ \E c \in Clients : ~Untimed(c) /\ Attempt(c))
  /\ \A c \in Clients : WF_vars(Dying(c))

FairSpec == Spec /\ Fairness

-----------------------------------------------------------------------------
(* Properties.                                                             *)

\* The session lock: whatever other calls, reconnects, refusals and closes come
\* between, a command for the messages of a mailbox reaches the server while
\* that mailbox is the one selected, and a command that changes messages while
\* it is selected read-write.
OnItsMailbox ==
  \A t \in Ops : Running(t) /\ op[t].wire = "sent" /\ cl[op[t].via].net = "open" =>
    LET at == server.selected[op[t].via]
    IN  /\ Command(t) \in {"fetch", "store", "move", "copy", "delete", "expunge"} =>
             at # Null /\ at.box = op[t].box
        /\ Command(t) \in {"store", "move", "delete", "expunge"} => ~at.ro

\* move() never loses the message, wherever it is cut off; an APPEND is carried
\* out at most once, and a call that reports success was carried out.
NothingLostOrRepeated ==
  /\ server.copies # {}
  /\ \A t \in 1..Tasks : /\ server.appended[t] <= 1
                       /\ op[t].kind = "append" /\ op[t].stage = "ok" => server.appended[t] = 1

\* The commands of a call do what was asked, where it was asked, as often as it
\* was asked.
ActsAsAsked == OnItsMailbox /\ NothingLostOrRepeated

\* requireTLS: the client does not log in on a connection that is not encrypted.
LoginEncrypted ==
  \A c \in Clients : cl[c].step = "login" /\ s.cfg.insist => cl[c].tls

\* A session keeps at most one connection: besides its client and the one it is
\* connecting, only a client that is logging out is open, and after close()
\* there is none unless an attempt to connect was under way.
OneConnection ==
  \A c \in Clients : cl[c].net = "open" =>
    \/ c = s.dialing
    \/ c = s.client /\ (s.closed => s.late)
    \/ cl[c].logout # "no"

\* The option reconnect.retries bounds how often one call tries to connect again.
TriedWithinLimit == s.attempt <= s.cfg.retries

\* The connections of a session: how many there are, how often one is tried and
\* what is said on them.
ConnectionKept == TypeOK /\ LoginEncrypted /\ OneConnection /\ TriedWithinLimit

\* Every call settles: no lost answer, refused login or close() blocks the lock, for as
\* long as no handshake and no token provider is silent for ever.
EveryCallSettles ==
  []<>(\A c \in Clients : ~Untimed(c)) =>
    \A t \in 1..Tasks : op[t].stage = "queued" ~> op[t].stage \in {"ok", "failed"}
=============================================================================
