----------------------------- MODULE ImapProofs -----------------------------
(***************************************************************************)
(* The reconnecting session and the mailbox watcher.                       *)
(*                                                                         *)
(* The session: for every number of calls, mailboxes, connections and      *)
(* faults, each command meets its mailbox, and one connection is kept.     *)
(*                                                                         *)
(* The watcher: for every number of messages, mailboxes made anew and      *)
(* faults, each new message is reported once.  Each operation on the       *)
(* watcher, its calls of open() and its connections keeps Good.            *)
(***************************************************************************)
EXTENDS ImapSession, WatcherPromises, FiniteSetTheorems, SequenceTheorems, TLAPS

-----------------------------------------------------------------------------
(* The invariant of the session.                                           *)

SessionType ==
  [cfg : Configs, client : 0..MaxClients, dialing : 0..MaxClients, attempt : Nat,
   backoff : BOOLEAN, current : Selection, closed : BOOLEAN, late : BOOLEAN,
   keepAlive : BOOLEAN, line : Seq(Ops), probes : 0..MaxProbes, calls : 0..MaxCalls]
Stages == {"new", "queued", "connecting", "running", "ok", "failed"}
OpType == [kind : Kinds, box : Boxes \cup {Null}, stage : Stages, via : 0..MaxClients,
           todo : Seq(Commands), wire : {"idle", "sent", "served", "refused"}]
ClientType == [net : {"none", "open", "dead", "gone"}, step : Steps, tls : BOOLEAN,
               tried : BOOLEAN, selected : Selection, logout : {"no", "queued", "sent"}]
ServerType == [selected : [Clients -> Selection], copies : SUBSET Boxes,
               deleted : SUBSET Boxes, appended : [Ops -> Nat]]

Types ==
  /\ s \in SessionType /\ op \in [Ops -> OpType] /\ cl \in [Clients -> ClientType]
  /\ server \in ServerType /\ faults \in 0..MaxFaults

\* What is left to do of a call.
Plans(kind) ==
  CASE kind = "read"         -> {<<"select", "fetch">>, <<"fetch">>}
    [] kind = "write"        -> {<<"select", "store">>, <<"store">>}
    [] kind = "openReadOnly" -> {<<"examine">>}
    [] kind = "append"       -> {<<"append">>}
    [] kind = "noop"         -> {<<"noop">>}
    [] kind = "move"         -> {<<"select", "move">>, <<"move">>,
                                 <<"select", "copy", "delete", "expunge">>,
                                 <<"copy", "delete", "expunge">>, <<"delete", "expunge">>,
                                 <<"expunge">>}

Opens == {"select", "examine"}
OnMessages == {"fetch", "store", "move", "copy", "delete", "expunge"}
Dialling == {"greeting", "preauth", "caps", "starttls", "upgrade", "login"}

\* Only the first call of the line goes on.
Locked == \A t \in Ops : op[t].stage \in {"connecting", "running"} => First(t)

\* A client k of number c, of the session v: the one that connects, or one that is the
\* session's, logs out or is gone.
ClientSound(c, k, v) ==
  IF c = v.dialing
  THEN /\ k.net = "open" /\ k.step \in Dialling /\ k.logout = "no" /\ k.selected = Null
       /\ v.cfg.secure => k.tls
       /\ k.step = "login" /\ v.cfg.insist => k.tls
  ELSE /\ k.step \in {"new", "ready"}
       /\ k.net = "open" => k.step = "ready" /\ (c = v.client \/ k.logout # "no")
       /\ c = v.client => k.logout = "no"

\* A session v connects only while it has no open client, and as often as it may.
SessionSound(v, ks) ==
  /\ v.attempt <= v.cfg.retries /\ (v.backoff => v.attempt < v.cfg.retries)
  /\ v.client # 0 => v.client # v.dialing
  /\ v.backoff => v.dialing = 0
  /\ v.closed /\ ~v.late => v.client = 0 /\ v.dialing = 0 /\ ~v.backoff
  /\ (v.dialing # 0 \/ v.backoff) /\ v.client # 0 => ks[v.client].net # "open"

Connections == SessionSound(s, cl) /\ \A c \in Clients : ClientSound(c, cl[c], s)

\* What a client knows to be selected is, and the session knows it too.
Known(k, at) == k.net = "open" /\ k.selected # Null => at = k.selected
Agreed(v, ks) ==
  v.client # 0 /\ v.current # Null /\ ks[v.client].selected # Null
    => ks[v.client].selected = v.current

Selections == Agreed(s, cl) /\ \A c \in Clients : Known(cl[c], server.selected[c])

\* A call o that runs on client k, where the server has selected at, meets its mailbox.
RunSound(o, k, at) ==
  /\ o.todo \in Plans(o.kind)
  /\ k.net = "open" =>
       /\ Head(o.todo) \in OnMessages =>
            at # Null /\ at.box = o.box /\ (o.kind \in {"write", "move"} => ~at.ro)
       /\ Head(o.todo) \in Opens /\ o.wire # "idle" => k.selected = Null
       /\ Head(o.todo) \in Opens /\ o.wire = "served" =>
            at = [box |-> o.box, ro |-> Head(o.todo) = "examine"]

\* A session v that has another client than that of the call selected nothing on it yet.
Elsewhere(o, v, ks) == v.client # 0 /\ v.client # o.via => ks[v.client].selected = Null

\* The message is where it was, or the copy is made.
Copied(o) == \/ o.todo \in {<<"delete", "expunge">>, <<"expunge">>}
             \/ o.todo = <<"copy", "delete", "expunge">> /\ o.wire = "served"
MoveSound(o, copies) ==
  o.kind = "move" /\ Copied(o) => o.box \notin copies \/ OtherBox(o.box) \in copies

\* A call o that runs in the session v, with the clients ks, at the server srv.
RunsIn(o, v, ks, srv) ==
  /\ o.via \in Clients /\ o.via # v.dialing
  /\ Elsewhere(o, v, ks)
  /\ RunSound(o, ks[o.via], srv.selected[o.via])
  /\ MoveSound(o, srv.copies)

Runs == \A t \in Ops : Running(t) => RunsIn(op[t], s, cl, server)

\* A call o of task t that was appended n times.
CallSound(t, o, n) ==
  /\ t = Probe => o.kind = "noop"
  /\ o.kind # "noop" => o.box \in Boxes
  /\ o.stage = "new" => o.kind = "noop"
  /\ o.stage # "running" => o.wire = "idle"
  /\ n <= 1
  /\ \/ o.kind # "append" \/ o.stage \in {"queued", "connecting"}
     \/ o.stage = "running" /\ o.wire \in {"idle", "sent"}
     => n = 0
  /\ o.kind = "append" /\ (o.stage = "ok" \/ (o.stage = "running" /\ o.wire = "served"))
     => n = 1

Calls == \A t \in Ops : CallSound(t, op[t], server.appended[t])

Inv == /\ Types /\ Locked /\ Connections /\ Selections /\ Runs /\ Calls
       /\ server.copies # {}

-----------------------------------------------------------------------------
(* What is left to do of a call.                                           *)

LEMMA PlanFacts ==
  ASSUME NEW kind \in Kinds, NEW p \in Plans(kind)
  PROVE  /\ p # <<>> /\ p \in Seq(Commands) /\ Len(p) \in Nat \ {0} /\ Head(p) \in Commands
         /\ Head(p) \in Opens \cup OnMessages \cup {"append", "noop"}
         /\ Head(p) \in {"store", "move", "copy", "delete", "expunge"} => kind \in {"write", "move"}
         /\ Head(p) = "examine" => kind = "openReadOnly"
         /\ Head(p) = "append" <=> kind = "append"
         /\ Head(p) = "noop" <=> kind = "noop"
         /\ Head(p) \in {"move", "copy", "delete", "expunge"} => kind = "move"
         /\ kind \in {"append", "noop", "openReadOnly"} => Len(p) = 1
         /\ Len(p) # 1 => Tail(p) \in Plans(kind) /\ Head(Tail(p)) \in OnMessages
<1>1. CASE kind = "read"
  <2>1. Plans(kind) = {<<"select", "fetch">>, <<"fetch">>}
    BY <1>1 DEF Plans
  <2>2. CASE p = <<"select", "fetch">>
    <3>1. Len(p) = 2 /\ Head(p) = "select" /\ p # <<>> /\ p \in Seq(Commands)
      BY <2>2 DEF Commands
    <3>2. Tail(p) = <<"fetch">> /\ Head(Tail(p)) = "fetch"
      BY <2>2
    <3> QED BY <3>1, <3>2, <2>1, <1>1 DEF Commands, Opens, OnMessages
  <2>3. CASE p = <<"fetch">>
    <3>1. Len(p) = 1 /\ Head(p) = "fetch" /\ p # <<>> /\ p \in Seq(Commands)
      BY <2>3 DEF Commands
    <3> QED BY <3>1, <1>1 DEF Commands, Opens, OnMessages
  <2> QED BY <2>1, <2>2, <2>3
<1>2. CASE kind = "write"
  <2>1. Plans(kind) = {<<"select", "store">>, <<"store">>}
    BY <1>2 DEF Plans
  <2>2. CASE p = <<"select", "store">>
    <3>1. Len(p) = 2 /\ Head(p) = "select" /\ p # <<>> /\ p \in Seq(Commands)
      BY <2>2 DEF Commands
    <3>2. Tail(p) = <<"store">> /\ Head(Tail(p)) = "store"
      BY <2>2
    <3> QED BY <3>1, <3>2, <2>1, <1>2 DEF Commands, Opens, OnMessages
  <2>3. CASE p = <<"store">>
    <3>1. Len(p) = 1 /\ Head(p) = "store" /\ p # <<>> /\ p \in Seq(Commands)
      BY <2>3 DEF Commands
    <3> QED BY <3>1, <1>2 DEF Commands, Opens, OnMessages
  <2> QED BY <2>1, <2>2, <2>3
<1>3. CASE kind = "move"
  <2>1. Plans(kind) = {<<"select", "move">>, <<"move">>, <<"select", "copy", "delete", "expunge">>,
                          <<"copy", "delete", "expunge">>, <<"delete", "expunge">>, <<"expunge">>}
    BY <1>3 DEF Plans
  <2>2. CASE p = <<"select", "move">>
    <3>1. Len(p) = 2 /\ Head(p) = "select" /\ p # <<>> /\ p \in Seq(Commands)
      BY <2>2 DEF Commands
    <3>2. Tail(p) = <<"move">> /\ Head(Tail(p)) = "move"
      BY <2>2
    <3> QED BY <3>1, <3>2, <2>1, <1>3 DEF Commands, Opens, OnMessages
  <2>3. CASE p = <<"move">>
    <3>1. Len(p) = 1 /\ Head(p) = "move" /\ p # <<>> /\ p \in Seq(Commands)
      BY <2>3 DEF Commands
    <3> QED BY <3>1, <1>3 DEF Commands, Opens, OnMessages
  <2>4. CASE p = <<"select", "copy", "delete", "expunge">>
    <3>1. Len(p) = 4 /\ Head(p) = "select" /\ p # <<>> /\ p \in Seq(Commands)
      BY <2>4 DEF Commands
    <3>2. Tail(p) = <<"copy", "delete", "expunge">> /\ Head(Tail(p)) = "copy"
      BY <2>4
    <3> QED BY <3>1, <3>2, <2>1, <1>3 DEF Commands, Opens, OnMessages
  <2>5. CASE p = <<"copy", "delete", "expunge">>
    <3>1. Len(p) = 3 /\ Head(p) = "copy" /\ p # <<>> /\ p \in Seq(Commands)
      BY <2>5 DEF Commands
    <3>2. Tail(p) = <<"delete", "expunge">> /\ Head(Tail(p)) = "delete"
      BY <2>5
    <3> QED BY <3>1, <3>2, <2>1, <1>3 DEF Commands, Opens, OnMessages
  <2>6. CASE p = <<"delete", "expunge">>
    <3>1. Len(p) = 2 /\ Head(p) = "delete" /\ p # <<>> /\ p \in Seq(Commands)
      BY <2>6 DEF Commands
    <3>2. Tail(p) = <<"expunge">> /\ Head(Tail(p)) = "expunge"
      BY <2>6
    <3> QED BY <3>1, <3>2, <2>1, <1>3 DEF Commands, Opens, OnMessages
  <2>7. CASE p = <<"expunge">>
    <3>1. Len(p) = 1 /\ Head(p) = "expunge" /\ p # <<>> /\ p \in Seq(Commands)
      BY <2>7 DEF Commands
    <3> QED BY <3>1, <1>3 DEF Commands, Opens, OnMessages
  <2> QED BY <2>1, <2>2, <2>3, <2>4, <2>5, <2>6, <2>7
<1>4. CASE kind \in {"openReadOnly", "append", "noop"}
  <2>1. \/ kind = "openReadOnly" /\ p = <<"examine">>
        \/ kind = "append" /\ p = <<"append">>
        \/ kind = "noop" /\ p = <<"noop">>
    BY <1>4 DEF Plans
  <2>2. CASE kind = "openReadOnly" /\ p = <<"examine">>
    <3>1. Len(p) = 1 /\ Head(p) = "examine" /\ p # <<>> /\ p \in Seq(Commands)
      BY <2>2 DEF Commands
    <3> QED BY <3>1, <2>2 DEF Commands, Opens, OnMessages
  <2>3. CASE kind = "append" /\ p = <<"append">>
    <3>1. Len(p) = 1 /\ Head(p) = "append" /\ p # <<>> /\ p \in Seq(Commands)
      BY <2>3 DEF Commands
    <3> QED BY <3>1, <2>3 DEF Commands, Opens, OnMessages
  <2>4. CASE kind = "noop" /\ p = <<"noop">>
    <3>1. Len(p) = 1 /\ Head(p) = "noop" /\ p # <<>> /\ p \in Seq(Commands)
      BY <2>4 DEF Commands
    <3> QED BY <3>1, <2>4 DEF Commands, Opens, OnMessages
  <2> QED BY <2>1, <2>2, <2>3, <2>4
<1> QED BY <1>1, <1>2, <1>3, <1>4 DEF Kinds

\* A plan that opens the mailbox first.
LEMMA TwoJoined ==
  ASSUME NEW a, NEW b
  PROVE  <<a>> \o <<b>> = <<a, b>>
<1>1. <<a>> \in Seq({a, b}) /\ <<b>> \in Seq({a, b}) /\ <<a, b>> \in Seq({a, b})
  OBVIOUS
<1>2. <<a>> \o <<b>> \in Seq({a, b}) /\ Len(<<a>> \o <<b>>) = 2 /\ Len(<<a, b>>) = 2
  BY <1>1
<1>3. \A i \in 1..2 : (<<a>> \o <<b>>)[i] = <<a, b>>[i]
  BY <1>1
<1> QED BY <1>1, <1>2, <1>3, SeqEqual

LEMMA FourJoined ==
  ASSUME NEW a, NEW b, NEW c, NEW d
  PROVE  <<a>> \o <<b, c, d>> = <<a, b, c, d>>
<1> DEFINE S == {a, b, c, d}
<1>1. <<a>> \in Seq(S) /\ <<b, c, d>> \in Seq(S) /\ <<a, b, c, d>> \in Seq(S)
  OBVIOUS
<1>2. /\ <<a>> \o <<b, c, d>> \in Seq(S) /\ Len(<<a>> \o <<b, c, d>>) = 4
      /\ Len(<<a, b, c, d>>) = 4
  BY <1>1
<1>3. \A i \in 1..4 : (<<a>> \o <<b, c, d>>)[i] = <<a, b, c, d>>[i]
  BY <1>1
<1> QED BY <1>1, <1>2, <1>3, SeqEqual

LEMMA MovePlans ==
  /\ <<"select">> \o <<"move">> = <<"select", "move">>
  /\ <<"select">> \o <<"copy", "delete", "expunge">> = <<"select", "copy", "delete", "expunge">>
  /\ <<>> \o <<"move">> = <<"move">>
  /\ <<>> \o <<"copy", "delete", "expunge">> = <<"copy", "delete", "expunge">>
<1>1. <<>> \o <<"move">> = <<"move">>
  OBVIOUS
<1>2. <<>> \o <<"copy", "delete", "expunge">> = <<"copy", "delete", "expunge">>
  OBVIOUS
<1> QED BY <1>1, <1>2, TwoJoined, FourJoined, Zenon

LEMMA MoveFirst ==
  ASSUME NEW p, p \in {<<"select", "move">>, <<"select", "copy", "delete", "expunge">>,
                       <<"move">>, <<"copy", "delete", "expunge">>}
  PROVE  /\ p \in Plans("move")
         /\ p \in {<<"select", "move">>, <<"select", "copy", "delete", "expunge">>} =>
              Head(p) \notin OnMessages
         /\ p \notin {<<"delete", "expunge">>, <<"expunge">>}
<1>1. CASE p = <<"select", "move">>
  <2>1. Head(p) = "select" /\ Len(p) = 2
    BY <1>1
  <2>2. p \in Plans("move")
    BY <1>1, Zenon DEF Plans
  <2> QED BY <2>1, <2>2 DEF OnMessages
<1>2. CASE p = <<"select", "copy", "delete", "expunge">>
  <2>1. Head(p) = "select" /\ Len(p) = 4
    BY <1>2
  <2>2. p \in Plans("move")
    BY <1>2, Zenon DEF Plans
  <2> QED BY <2>1, <2>2 DEF OnMessages
<1>3. CASE p = <<"move">>
  <2>1. Head(p) = "move" /\ Len(p) = 1
    BY <1>3
  <2>2. p \in Plans("move")
    BY <1>3, Zenon DEF Plans
  <2> QED BY <2>1, <2>2
<1>4. CASE p = <<"copy", "delete", "expunge">>
  <2>1. Head(p) = "copy" /\ Len(p) = 3
    BY <1>4
  <2>2. p \in Plans("move")
    BY <1>4, Zenon DEF Plans
  <2> QED BY <2>1, <2>2
<1> QED BY <1>1, <1>2, <1>3, <1>4

\* What a call that begins has to do.
LEMMA BegunPlan ==
  ASSUME NEW kind \in Kinds, NEW needed \in BOOLEAN
  PROVE  LET p == Opening(kind, needed) \o CommandsOf(kind)
         IN  /\ p \in Plans(kind)
             /\ needed => Head(p) \notin OnMessages
             /\ p \notin {<<"delete", "expunge">>, <<"expunge">>}
<1> DEFINE p == Opening(kind, needed) \o CommandsOf(kind)
<1>1. CASE kind = "read"
  <2>1. p = (IF needed THEN <<"select">> ELSE <<>>) \o <<"fetch">>
    BY <1>1 DEF Opening, CommandsOf
  <2> HIDE DEF p
  <2>2. p = IF needed THEN <<"select", "fetch">> ELSE <<"fetch">>
    <3>1. <<>> \o <<"fetch">> = <<"fetch">>
      OBVIOUS
    <3> QED BY <2>1, <3>1, TwoJoined, Zenon
  <2>3. p \in Plans(kind)
    BY <2>2, <1>1 DEF Plans
  <2>4. p \notin {<<"delete", "expunge">>, <<"expunge">>} /\ (needed => Head(p) \notin OnMessages)
    BY <2>2 DEF OnMessages
  <2> QED BY <2>3, <2>4 DEF p
<1>2. CASE kind = "write"
  <2>1. p = (IF needed THEN <<"select">> ELSE <<>>) \o <<"store">>
    BY <1>2 DEF Opening, CommandsOf
  <2> HIDE DEF p
  <2>2. p = IF needed THEN <<"select", "store">> ELSE <<"store">>
    <3>1. <<>> \o <<"store">> = <<"store">>
      OBVIOUS
    <3> QED BY <2>1, <3>1, TwoJoined, Zenon
  <2>3. p \in Plans(kind)
    BY <2>2, <1>2 DEF Plans
  <2>4. p \notin {<<"delete", "expunge">>, <<"expunge">>} /\ (needed => Head(p) \notin OnMessages)
    BY <2>2 DEF OnMessages
  <2> QED BY <2>3, <2>4 DEF p
<1>3. CASE kind = "move"
  <2>1. Opening(kind, needed) = IF needed THEN <<"select">> ELSE <<>>
    BY <1>3 DEF Opening
  <2>2. CommandsOf(kind) = IF s.cfg.move THEN <<"move">> ELSE <<"copy", "delete", "expunge">>
    BY <1>3 DEF CommandsOf
  <2> HIDE DEF p
  <2>3. CASE needed
    <3>1. p \in {<<"select", "move">>, <<"select", "copy", "delete", "expunge">>}
      BY <2>1, <2>2, <2>3, MovePlans, Zenon DEF p
    <3> QED BY <3>1, <1>3, MoveFirst, Zenon DEF p
  <2>4. CASE ~needed
    <3>1. p \in {<<"move">>, <<"copy", "delete", "expunge">>}
      BY <2>1, <2>2, <2>4, MovePlans, Zenon DEF p
    <3> QED BY <3>1, <2>4, <1>3, MoveFirst, Zenon DEF p
  <2> QED BY <2>3, <2>4
<1>4. CASE kind = "openReadOnly"
  <2>1. p = <<"examine">> \o <<>>
    BY <1>4 DEF Opening, CommandsOf
  <2> HIDE DEF p
  <2>2. p = <<"examine">>
    BY <2>1
  <2>3. p \in Plans(kind)
    BY <2>2, <1>4 DEF Plans
  <2>4. p \notin {<<"delete", "expunge">>, <<"expunge">>} /\ Head(p) \notin OnMessages
    BY <2>2 DEF OnMessages
  <2> QED BY <2>3, <2>4 DEF p
<1>5. CASE kind \in {"append", "noop"}
  <2>1. p = <<>> \o <<kind>>
    BY <1>5 DEF Opening, CommandsOf
  <2> HIDE DEF p
  <2>2. p = <<kind>>
    BY <2>1
  <2>3. p \in Plans(kind)
    BY <2>2, <1>5 DEF Plans
  <2>4. p \notin {<<"delete", "expunge">>, <<"expunge">>} /\ Head(p) \notin OnMessages
    BY <2>2, <1>5 DEF OnMessages
  <2> QED BY <2>3, <2>4 DEF p
<1> HIDE DEF p
<1>6. kind \in {"read", "write", "move", "openReadOnly", "append", "noop"}
  BY DEF Kinds
<1> QED BY <1>1, <1>2, <1>3, <1>4, <1>5, <1>6

-----------------------------------------------------------------------------
(* Calls.                                                                  *)

\* A call that has settled.
LEMMA EndedFacts ==
  ASSUME op \in [Ops -> OpType], NEW t \in Ops, NEW how \in {"ok", "failed"},
         NEW o, o = Ended(t, how)
  PROVE  /\ o \in OpType /\ o.stage = how /\ o.kind = op[t].kind /\ o.box = op[t].box
         /\ o.wire = "idle"
<1>1. op[t] \in OpType /\ <<>> \in Seq(Commands) /\ 0 \in 0..MaxClients
  BY ImapSessionConstants
<1> QED BY <1>1 DEF Ended, OpType, Stages

LEMMA FailedSound ==
  ASSUME op \in [Ops -> OpType], NEW t \in Ops, CallSound(t, op[t], server.appended[t])
  PROVE  /\ Ended(t, "failed") \in OpType /\ Ended(t, "failed").stage = "failed"
         /\ CallSound(t, Ended(t, "failed"), server.appended[t])
<1> DEFINE o == Ended(t, "failed")
<1>1. /\ o \in OpType /\ o.stage = "failed" /\ o.kind = op[t].kind /\ o.box = op[t].box
      /\ o.wire = "idle"
  BY EndedFacts
<1> HIDE DEF o
<1>2. CallSound(t, o, server.appended[t])
  BY <1>1 DEF CallSound
<1> QED BY <1>1, <1>2 DEF o

\* A call that begins on client c.
LEMMA BegunFacts ==
  ASSUME op \in [Ops -> OpType], NEW t \in Ops, NEW c \in Clients, NEW needed \in BOOLEAN,
         CallSound(t, op[t], server.appended[t]), op[t].stage \in {"queued", "connecting"},
         NEW o, o = Begun(t, c, needed)
  PROVE  /\ o \in OpType /\ o.stage = "running" /\ o.via = c /\ o.kind = op[t].kind
         /\ o.box = op[t].box /\ o.wire = "idle"
         /\ CallSound(t, o, server.appended[t])
         /\ o.todo \in Plans(o.kind) /\ ~Copied(o)
         /\ needed => Head(o.todo) \notin OnMessages
<1> DEFINE p == Opening(op[t].kind, needed) \o CommandsOf(op[t].kind)
<1>1. op[t] \in OpType /\ op[t].kind \in Kinds /\ c \in 0..MaxClients /\ op[t].wire = "idle"
  BY ImapSessionConstants DEF OpType, Clients, CallSound
<1>2. /\ p \in Plans(op[t].kind) /\ (needed => Head(p) \notin OnMessages)
      /\ p \notin {<<"delete", "expunge">>, <<"expunge">>}
  BY <1>1, BegunPlan
<1>3. p \in Seq(Commands)
  BY <1>1, <1>2, PlanFacts
<1>4. o = [op[t] EXCEPT !.stage = "running", !.via = c, !.todo = p]
  BY DEF Begun
<1> HIDE DEF p
<1>5. /\ o \in OpType /\ o.stage = "running" /\ o.via = c /\ o.kind = op[t].kind
      /\ o.box = op[t].box /\ o.wire = "idle" /\ o.todo = p
  BY <1>1, <1>3, <1>4 DEF OpType, Stages
<1>6. CallSound(t, o, server.appended[t])
  BY <1>5 DEF CallSound
<1>7. ~Copied(o)
  BY <1>2, <1>5 DEF Copied
<1> QED BY <1>2, <1>5, <1>6, <1>7
-----------------------------------------------------------------------------
(* The lock.                                                               *)

\* No call goes on.
Idle == \A t \in Ops : op[t].stage \notin {"connecting", "running"}

LEMMA OneGoesOn ==
  ASSUME Locked, NEW t \in Ops, First(t)
  PROVE  \A u \in Ops : op[u].stage \in {"connecting", "running"} => u = t
BY DEF Locked, First

LEMMA IdleSound ==
  ASSUME Idle'
  PROVE  Locked' /\ Runs'
BY DEF Idle, Locked, Runs, Running

LEMMA LineFacts ==
  ASSUME NEW line \in Seq(Ops), NEW t \in Ops
  PROVE  /\ Append(line, t) \in Seq(Ops)
         /\ line # <<>> => Tail(line) \in Seq(Ops) /\ Head(line) \in Ops
         /\ Append(line, t) # <<>>
         /\ line # <<>> => Head(Append(line, t)) = Head(line)
<1>1. Append(line, t) \in Seq(Ops) /\ Append(line, t) # <<>>
  BY AppendProperties
<1>2. ASSUME line # <<>>
      PROVE  /\ Tail(line) \in Seq(Ops) /\ Head(line) \in Ops
             /\ Head(Append(line, t)) = Head(line)
  BY <1>2
<1> QED BY <1>1, <1>2

\* The fields of the session that its connections depend on.
Steady(v) ==
  /\ v.cfg = s.cfg /\ v.client = s.client /\ v.dialing = s.dialing /\ v.attempt = s.attempt
  /\ v.backoff = s.backoff /\ v.current = s.current /\ v.late = s.late

LEMMA SteadyConnections ==
  ASSUME Connections, Selections, NEW v, Steady(v), v.closed \in {s.closed, FALSE},
         s'.cfg = v.cfg, s'.client = v.client, s'.dialing = v.dialing, s'.attempt = v.attempt,
         s'.backoff = v.backoff, s'.current = v.current, s'.late = v.late,
         s'.closed = v.closed, cl' = cl, server'.selected = server.selected
  PROVE  Connections' /\ Selections'
<1>1. SessionSound(s', cl')
  BY DEF Connections, Steady, SessionSound
<1>2. \A c \in Clients : ClientSound(c, cl'[c], s')
  BY DEF Connections, Steady, ClientSound
<1>3. Agreed(s', cl')
  BY DEF Selections, Steady, Agreed
<1>4. \A c \in Clients : Known(cl'[c], server'.selected[c])
  BY DEF Selections
<1> QED BY <1>1, <1>2, <1>3, <1>4 DEF Connections, Selections

\* A call settles and the lock is free.
LEMMA SettleStep ==
  ASSUME Inv, NEW t \in Ops, First(t), NEW how \in {"ok", "failed"},
         how = "ok" /\ op[t].kind = "append" => server.appended[t] = 1,
         op' = [op EXCEPT ![t] = Ended(t, how)],
         NEW v \in SessionType, v.line = s.line, s' = [v EXCEPT !.line = Tail(s.line)],
         server' \in ServerType, server'.appended = server.appended,
         server'.copies = server.copies, cl' \in [Clients -> ClientType],
         faults' \in 0..MaxFaults, Connections', Selections'
  PROVE  Inv'
<1>1. op \in [Ops -> OpType] /\ Locked /\ Calls /\ server.copies # {} /\ s.line \in Seq(Ops)
  BY DEF Inv, Types, SessionType
<1> DEFINE o == Ended(t, how)
<1>2. /\ o \in OpType /\ o.stage = how /\ o.kind = op[t].kind /\ o.box = op[t].box
      /\ o.wire = "idle"
  BY <1>1, EndedFacts
<1>3. op' = [op EXCEPT ![t] = o]
  OBVIOUS
<1> HIDE DEF o
<1>4. op' \in [Ops -> OpType] /\ op'[t] = o /\ \A u \in Ops : u # t => op'[u] = op[u]
  BY <1>1, <1>2, <1>3
<1>5. Idle'
  BY <1>1, <1>2, <1>4, OneGoesOn DEF Idle
<1>6. CallSound(t, o, server.appended[t])
  BY <1>1, <1>2 DEF Calls, CallSound
<1>7. Calls'
  BY <1>1, <1>4, <1>6 DEF Calls
<1>8. s' \in SessionType
  <2>1. Tail(s.line) \in Seq(Ops)
    BY <1>1, LineFacts DEF First
  <2> QED BY <2>1 DEF SessionType
<1> QED BY <1>1, <1>4, <1>5, <1>7, <1>8, IdleSound DEF Inv, Types

-----------------------------------------------------------------------------
(* Calls are made, and begin.                                              *)

LEMMA QueuedStep ==
  ASSUME Inv, NEW t \in Ops, op[t].stage \notin {"connecting", "running"},
         NEW o \in OpType, o.stage = "queued", CallSound(t, o, server.appended[t]),
         op' = [op EXCEPT ![t] = o], Steady(s'), s'.closed = s.closed,
         s' \in SessionType, s'.line = Append(s.line, t), UNCHANGED <<cl, server, faults>>
  PROVE  Inv'
<1>1. /\ op \in [Ops -> OpType] /\ Locked /\ Calls /\ server.copies # {} /\ s.line \in Seq(Ops)
      /\ Connections /\ Selections /\ Runs
  BY DEF Inv, Types, SessionType
<1>2. op' \in [Ops -> OpType] /\ op'[t] = o /\ \A u \in Ops : u # t => op'[u] = op[u]
  BY <1>1
<1>3. Locked'
  <2>1. s.line # <<>> => s'.line # <<>> /\ Head(s'.line) = Head(s.line)
    BY <1>1, LineFacts
  <2> QED BY <1>1, <1>2, <2>1 DEF Locked, First
<1>4. Runs'
  BY <1>1, <1>2 DEF Runs, Running, RunsIn, Elsewhere, Steady
<1>5. Calls'
  BY <1>1, <1>2 DEF Calls
<1>6. Connections' /\ Selections'
  BY <1>1, SteadyConnections
<1> QED BY <1>1, <1>2, <1>3, <1>4, <1>5, <1>6 DEF Inv, Types

LEMMA CallStep ==
  ASSUME Inv, NEW t \in 1..Tasks, NEW request \in s.cfg.calls, Call(t, request)
  PROVE  Inv'
<1>1. t \in Ops /\ t # Probe
  BY ImapSessionConstants DEF Ops, Probe
<1>2. /\ request.kind \in Kinds \ {"noop"} /\ request.box \in Boxes /\ s \in SessionType
      /\ CallSound(t, op[t], server.appended[t])
  BY <1>1, ImapSessionConstants DEF Inv, Types, SessionType, Config, Request, Calls
<1> DEFINE o == [NoCall EXCEPT !.kind = request.kind, !.box = request.box, !.stage = "queued"]
<1>3. op' = [op EXCEPT ![t] = o] /\ op[t].stage = "new"
  BY DEF Call
<1> HIDE DEF o
<1>5. /\ o \in OpType /\ o.kind = request.kind /\ o.box = request.box /\ o.stage = "queued"
      /\ o.wire = "idle"
  <2>1. o = [NoCall EXCEPT !.kind = request.kind, !.box = request.box, !.stage = "queued"]
    BY DEF o
  <2>2. request.kind \in Kinds /\ request.box \in Boxes \cup {Null}
    BY <1>2
  <2> DEFINE kind == request.kind
             box == request.box
  <2>3. /\ kind \in Kinds /\ box \in Boxes \cup {Null}
        /\ o = [NoCall EXCEPT !.kind = kind, !.box = box, !.stage = "queued"]
    BY <2>1, <2>2
  <2> HIDE DEF kind, box
  <2>4. NoCall \in OpType /\ NoCall.wire = "idle"
    <3>1. 0 \in 0..MaxClients /\ <<>> \in Seq(Commands)
      BY ImapSessionConstants
    <3> QED BY <3>1 DEF NoCall, OpType, Kinds, Stages
  <2>5. o \in OpType /\ o.kind = kind /\ o.box = box /\ o.stage = "queued" /\ o.wire = "idle"
    BY <2>3, <2>4 DEF OpType, Stages
  <2> QED BY <2>5 DEF kind, box
<1>6. CallSound(t, o, server.appended[t])
  <2>1. op[t].kind = "noop" /\ server.appended[t] = 0
    BY <1>2, <1>3 DEF CallSound
  <2> QED BY <1>1, <1>2, <1>5, <2>1 DEF CallSound
<1>7. s' = [s EXCEPT !.line = Append(s.line, t)] /\ UNCHANGED <<cl, server, faults>>
  BY DEF Call
<1>8. s' \in SessionType /\ s'.line = Append(s.line, t) /\ Steady(s') /\ s'.closed = s.closed
  <2>1. Append(s.line, t) \in Seq(Ops)
    BY <1>1, <1>2, LineFacts DEF SessionType
  <2> QED BY <1>2, <1>7, <2>1 DEF SessionType, Steady
<1> QED BY <1>1, <1>3, <1>5, <1>6, <1>7, <1>8, QueuedStep

LEMMA KeepAliveStep ==
  ASSUME Inv, KeepAlive
  PROVE  Inv'
<1> DEFINE t == Probe
           o == [NoCall EXCEPT !.stage = "queued"]
<1>1. t \in Ops /\ t = 0
  BY ImapSessionConstants DEF Ops, Probe
<1>2. s \in SessionType /\ CallSound(t, op[t], server.appended[t])
  BY <1>1 DEF Inv, Types, Calls
<1>3. /\ op' = [op EXCEPT ![t] = o] /\ op[t].stage \in {"new", "ok", "failed"}
      /\ s' = [s EXCEPT !.line = Append(s.line, t), !.probes = s.probes + 1]
      /\ s.probes < MaxProbes /\ UNCHANGED <<cl, server, faults>>
  BY DEF KeepAlive
<1>4. o = [kind |-> "noop", box |-> Null, stage |-> "queued", via |-> 0,
           todo |-> <<>>, wire |-> "idle"]
  BY DEF NoCall
<1> HIDE DEF o, t
<1>5. o \in OpType /\ o.stage = "queued"
  <2>1. 0 \in 0..MaxClients /\ <<>> \in Seq(Commands)
    BY ImapSessionConstants
  <2> QED BY <1>4, <2>1 DEF OpType, Stages, Kinds
<1>6. CallSound(t, o, server.appended[t])
  <2>1. op[t].kind = "noop" /\ server.appended[t] = 0
    BY <1>1, <1>2 DEF CallSound, Probe
  <2> QED BY <1>4, <2>1 DEF CallSound
<1>7. s' \in SessionType /\ s'.line = Append(s.line, t) /\ Steady(s') /\ s'.closed = s.closed
  <2>1. Append(s.line, t) \in Seq(Ops) /\ s.probes + 1 \in 0..MaxProbes
    BY <1>1, <1>2, <1>3, LineFacts, ImapSessionConstants DEF SessionType
  <2> QED BY <1>2, <1>3, <2>1 DEF SessionType, Steady
<1> QED BY <1>1, <1>3, <1>5, <1>6, <1>7, QueuedStep

-----------------------------------------------------------------------------
(* A client dials.                                                         *)

LEMMA CfgFacts ==
  ASSUME NEW v \in SessionType
  PROVE  v.cfg \in Config /\ v.cfg.retries \in Nat /\ v.attempt \in Nat
BY ImapSessionConstants DEF SessionType, Config

\* The client of the session is open only if it is connected.
LEMMA Unconnected ==
  ASSUME Inv, s.dialing = 0, ~Connected(s.client)
  PROVE  s.client # 0 => cl[s.client].net # "open"
<1> SUFFICES ASSUME s.client # 0, cl[s.client].net = "open"
             PROVE  FALSE
  OBVIOUS
<1>1. s.client \in Clients
  BY ImapSessionConstants DEF Inv, Types, SessionType, Clients
<1>2. ClientSound(s.client, cl[s.client], s)
  BY <1>1 DEF Inv, Connections
<1> QED BY <1>2 DEF ClientSound, Connected

LEMMA DialFacts ==
  ASSUME Inv, NEW v \in SessionType, v.cfg = s.cfg, v.client = s.client, v.line = s.line,
         v.current = s.current, ~(v.closed /\ ~v.late), s.dialing = 0,
         s.client # 0 => cl[s.client].net # "open",
         NEW n \in Nat, n <= s.cfg.retries, Dial(v, n), server' = server
  PROVE  /\ s' \in SessionType /\ cl' \in [Clients -> ClientType] /\ s'.line = s.line
         /\ Connections' /\ Selections'
         /\ \A t \in Ops : Running(t) => RunsIn(op[t], s', cl', server')
<1>1. /\ op \in [Ops -> OpType] /\ cl \in [Clients -> ClientType] /\ Connections /\ Selections
      /\ Runs /\ s \in SessionType /\ s.cfg \in Config
  BY CfgFacts DEF Inv, Types
<1> DEFINE k == [NewClient EXCEPT !.net = "open", !.step = "greeting", !.tls = s.cfg.secure]
<1>2. PICK c \in Unused : /\ cl' = [cl EXCEPT ![c] = k]
                          /\ s' = [v EXCEPT !.dialing = c, !.attempt = n, !.backoff = FALSE]
  BY DEF Dial
<1>3. /\ k \in ClientType /\ k.net = "open" /\ k.step = "greeting" /\ k.tls = s.cfg.secure
      /\ k.selected = Null /\ k.logout = "no"
  <2>1. s.cfg.secure \in BOOLEAN /\ Null \in Selection
    BY <1>1 DEF Config, Selection
  <2> QED BY <2>1 DEF NewClient, ClientType, Steps
<1> HIDE DEF k
<1>4. /\ c \in Clients /\ c # s.client /\ c # 0 /\ c \in 0..MaxClients
      /\ \A t \in Ops : Running(t) => op[t].via # c
  BY ImapSessionConstants DEF Unused, Clients, Running
<1>5. /\ cl' \in [Clients -> ClientType] /\ cl'[c] = k
      /\ \A d \in Clients : d # c => cl'[d] = cl[d]
  BY <1>1, <1>2, <1>3, <1>4
<1>6. /\ s' \in SessionType /\ s'.dialing = c /\ s'.attempt = n /\ s'.backoff = FALSE
      /\ s'.cfg = s.cfg /\ s'.client = s.client /\ s'.line = s.line /\ s'.current = s.current
      /\ s'.closed = v.closed /\ s'.late = v.late
  BY <1>2, <1>4 DEF SessionType
<1>7. s.client # 0 => s.client \in Clients
  BY <1>1, ImapSessionConstants DEF SessionType, Clients
<1>8. Connections'
  <2>1. SessionSound(s', cl')
    BY <1>4, <1>5, <1>6, <1>7 DEF SessionSound
  <2>2. ASSUME NEW d \in Clients
        PROVE  ClientSound(d, cl'[d], s')
    <3>1. CASE d = c
      BY <3>1, <1>3, <1>5, <1>6 DEF ClientSound, Dialling
    <3>2. CASE d # c
      <4>1. ClientSound(d, cl[d], s) /\ d # 0
        BY <1>1, ImapSessionConstants DEF Connections, Clients
      <4> QED BY <3>2, <4>1, <1>5, <1>6 DEF ClientSound
    <3> QED BY <3>1, <3>2
  <2> QED BY <2>1, <2>2 DEF Connections
<1>9. Selections'
  <2>1. Agreed(s', cl')
    BY <1>1, <1>4, <1>5, <1>6, <1>7 DEF Selections, Agreed
  <2>2. \A d \in Clients : Known(cl'[d], server'.selected[d])
    BY <1>1, <1>3, <1>5 DEF Selections, Known
  <2> QED BY <2>1, <2>2 DEF Selections
<1>10. ASSUME NEW t \in Ops, Running(t)
       PROVE  RunsIn(op[t], s', cl', server')
  <2>1. RunsIn(op[t], s, cl, server) /\ op[t].via # c
    BY <1>1, <1>4, <1>10 DEF Runs
  <2>2. Elsewhere(op[t], s', cl')
    BY <2>1, <1>4, <1>5, <1>6, <1>7 DEF RunsIn, Elsewhere
  <2> QED BY <2>1, <2>2, <1>5, <1>6 DEF RunsIn
<1> QED BY <1>5, <1>6, <1>8, <1>9, <1>10

LEMMA ConnectStepSound ==
  ASSUME Inv, Connect
  PROVE  Inv'
<1>1. /\ s \in SessionType /\ Locked /\ Connections /\ Selections /\ Runs /\ Calls
      /\ server.copies # {} /\ Types
  BY DEF Inv, Types
<1>2. UNCHANGED <<op, server, faults>> /\ s.calls < MaxCalls
  BY DEF Connect
<1> DEFINE v == [s EXCEPT !.closed = FALSE, !.calls = s.calls + 1]
<1>3. IF Connected(s.client) \/ Connecting THEN s' = v /\ UNCHANGED cl ELSE Dial(v, 0)
  BY DEF Connect
<1>4. v \in SessionType /\ v.line = s.line /\ Steady(v) /\ v.closed = FALSE
  <2>1. s.calls + 1 \in 0..MaxCalls
    BY <1>1, <1>2, ImapSessionConstants DEF SessionType
  <2> QED BY <1>1, <2>1 DEF SessionType, Steady
<1> HIDE DEF v
<1>5. /\ s' \in SessionType /\ cl' \in [Clients -> ClientType] /\ s'.line = s.line
      /\ Connections' /\ Selections'
      /\ \A t \in Ops : Running(t) => RunsIn(op[t], s', cl', server')
  <2>1. CASE Connected(s.client) \/ Connecting
    <3>1. s' = v /\ cl' = cl
      BY <2>1, <1>3
    <3>2. Connections' /\ Selections'
      BY <1>1, <1>2, <1>4, <3>1, SteadyConnections
    <3>3. \A t \in Ops : Running(t) => RunsIn(op[t], s', cl', server')
      BY <1>1, <1>2, <1>4, <3>1 DEF Runs, RunsIn, Elsewhere, Steady
    <3> QED BY <1>1, <1>4, <3>1, <3>2, <3>3 DEF Types
  <2>2. CASE ~(Connected(s.client) \/ Connecting)
    <3>1. Dial(v, 0) /\ s.dialing = 0 /\ ~Connected(s.client)
      BY <2>2, <1>3 DEF Connecting
    <3>2. 0 \in Nat /\ 0 <= s.cfg.retries
      BY <1>1, CfgFacts
    <3>3. s.client # 0 => cl[s.client].net # "open"
      BY <3>1, Unconnected
    <3> QED BY <1>2, <1>4, <3>1, <3>2, <3>3, DialFacts DEF Steady
  <2> QED BY <2>1, <2>2
<1>6. Locked' /\ Calls' /\ server'.copies # {}
  BY <1>1, <1>2, <1>5 DEF Locked, First, Calls
<1>7. Runs'
  BY <1>2, <1>5 DEF Runs, Running
<1> QED BY <1>1, <1>2, <1>5, <1>6, <1>7 DEF Inv, Types

\* The first call of the line goes on.
LEMMA GoesOnStep ==
  ASSUME Inv, NEW t \in Ops, First(t), NEW o \in OpType, op' = [op EXCEPT ![t] = o],
         s' \in SessionType, s'.line = s.line, cl' \in [Clients -> ClientType],
         server' \in ServerType, server'.copies # {}, faults' \in 0..MaxFaults,
         Connections', Selections', CallSound(t, o, server'.appended[t]),
         \A u \in Ops : u # t => server'.appended[u] = server.appended[u],
         o.stage = "running" => RunsIn(o, s', cl', server')
  PROVE  Inv'
<1>1. op \in [Ops -> OpType] /\ Locked /\ Calls
  BY DEF Inv, Types
<1>2. op' \in [Ops -> OpType] /\ op'[t] = o /\ \A u \in Ops : u # t => op'[u] = op[u]
  BY <1>1
<1>3. \A u \in Ops : u # t => op'[u].stage \notin {"connecting", "running"}
  BY <1>1, <1>2, OneGoesOn
<1>4. Locked'
  BY <1>3 DEF Locked, First
<1>5. Runs'
  BY <1>2, <1>3 DEF Runs, Running
<1>6. Calls'
  BY <1>1, <1>2 DEF Calls
<1> QED BY <1>2, <1>4, <1>5, <1>6 DEF Inv, Types

LEMMA BackoffEndsStep ==
  ASSUME Inv, BackoffEnds
  PROVE  Inv'
<1>1. /\ s \in SessionType /\ Locked /\ Connections /\ Selections /\ Runs /\ Calls
      /\ server.copies # {} /\ Types
  BY DEF Inv, Types
<1>2. s.backoff /\ Dial(s, s.attempt + 1) /\ UNCHANGED <<op, server, faults>>
  BY DEF BackoffEnds
<1>3. /\ s.dialing = 0 /\ ~(s.closed /\ ~s.late) /\ s.attempt < s.cfg.retries
      /\ s.client # 0 => cl[s.client].net # "open"
  BY <1>1, <1>2 DEF Connections, SessionSound
<1>4. s.attempt + 1 \in Nat /\ s.attempt + 1 <= s.cfg.retries
  BY <1>1, <1>3, CfgFacts
<1>5. /\ s' \in SessionType /\ cl' \in [Clients -> ClientType] /\ s'.line = s.line
      /\ Connections' /\ Selections'
      /\ \A t \in Ops : Running(t) => RunsIn(op[t], s', cl', server')
  BY <1>1, <1>2, <1>3, <1>4, DialFacts
<1>6. Locked' /\ Calls' /\ server'.copies # {}
  BY <1>1, <1>2, <1>5 DEF Locked, First, Calls
<1>7. Runs'
  BY <1>2, <1>5 DEF Runs, Running
<1> QED BY <1>1, <1>2, <1>5, <1>6, <1>7 DEF Inv, Types

LEMMA EnterConnectingStep ==
  ASSUME Inv, NEW t \in Ops, EnterConnecting(t)
  PROVE  Inv'
<1>1. /\ s \in SessionType /\ Connections /\ Selections /\ Types /\ server.copies # {}
      /\ op[t] \in OpType /\ CallSound(t, op[t], server.appended[t])
  BY DEF Inv, Types, Calls
<1>2. /\ First(t) /\ op[t].stage = "queued" /\ ~s.closed /\ ~Connected(s.client)
      /\ op' = [op EXCEPT ![t].stage = "connecting"] /\ UNCHANGED <<server, faults>>
      /\ IF Connecting THEN UNCHANGED <<s, cl>> ELSE Dial(s, 0)
  BY DEF EnterConnecting
<1> DEFINE o == [op[t] EXCEPT !.stage = "connecting"]
<1>3. /\ o \in OpType /\ o.stage = "connecting" /\ o.kind = op[t].kind /\ o.box = op[t].box
      /\ o.wire = op[t].wire
  BY <1>1 DEF OpType, Stages
<1>4. op' = [op EXCEPT ![t] = o]
  BY <1>2
<1> HIDE DEF o
<1>5. CallSound(t, o, server.appended[t])
  BY <1>1, <1>2, <1>3 DEF CallSound
<1>6. /\ s' \in SessionType /\ cl' \in [Clients -> ClientType] /\ s'.line = s.line
      /\ Connections' /\ Selections'
  <2>1. CASE Connecting
    <3>1. s' = s /\ cl' = cl /\ server' = server
      BY <2>1, <1>2
    <3> QED BY <1>1, <3>1, SteadyConnections DEF Types, Steady
  <2>2. CASE ~Connecting
    <3>1. Dial(s, 0) /\ s.dialing = 0
      BY <2>2, <1>2 DEF Connecting
    <3>2. 0 \in Nat /\ 0 <= s.cfg.retries
      BY <1>1, CfgFacts
    <3>3. s.client # 0 => cl[s.client].net # "open"
      BY <3>1, <1>2, Unconnected
    <3> QED BY <1>1, <1>2, <3>1, <3>2, <3>3, DialFacts
  <2> QED BY <2>1, <2>2
<1>7. server' \in ServerType /\ faults' \in 0..MaxFaults /\ server' = server
  BY <1>1, <1>2 DEF Types
<1> QED BY <1>1, <1>2, <1>3, <1>4, <1>5, <1>6, <1>7, GoesOnStep

LEMMA EnterClosedStep ==
  ASSUME Inv, NEW t \in Ops, EnterClosed(t)
  PROVE  Inv'
<1>1. Types /\ Connections /\ Selections
  BY DEF Inv
<1>2. /\ First(t) /\ op' = [op EXCEPT ![t] = Ended(t, "failed")]
      /\ s' = [s EXCEPT !.line = Tail(s.line)] /\ UNCHANGED <<cl, server, faults>>
  BY DEF EnterClosed
<1>3. s \in SessionType /\ s.line = s.line
  BY <1>1 DEF Types
<1>4. Connections' /\ Selections'
  <2>1. Steady(s) /\ s.closed \in {s.closed, FALSE}
    BY DEF Steady
  <2>2. /\ s'.cfg = s.cfg /\ s'.client = s.client /\ s'.dialing = s.dialing
        /\ s'.attempt = s.attempt /\ s'.backoff = s.backoff /\ s'.current = s.current
        /\ s'.late = s.late /\ s'.closed = s.closed
    BY <1>2, <1>3 DEF SessionType
  <2> QED BY <1>1, <1>2, <2>1, <2>2, SteadyConnections
<1> QED BY <1>1, <1>2, <1>3, <1>4, SettleStep DEF Types

LEMMA EnterStep ==
  ASSUME Inv, NEW t \in Ops, Enter(t)
  PROVE  Inv'
<1>1. /\ s \in SessionType /\ Connections /\ Selections /\ Types /\ server.copies # {}
      /\ op \in [Ops -> OpType] /\ CallSound(t, op[t], server.appended[t])
  BY DEF Inv, Types, Calls
<1>2. /\ First(t) /\ op[t].stage = "queued" /\ Connected(s.client)
      /\ op' = [op EXCEPT ![t] = Begun(t, s.client, NeedsSelect(op[t].kind, op[t].box, s.client))]
      /\ UNCHANGED <<s, cl, server, faults>>
  BY DEF Enter
<1> DEFINE c == s.client
           needed == NeedsSelect(op[t].kind, op[t].box, c)
           o == Begun(t, c, needed)
<1>3. c \in Clients /\ c # 0
  BY <1>1, <1>2, ImapSessionConstants DEF SessionType, Clients, Connected
<1>4. needed \in BOOLEAN
  BY DEF NeedsSelect
<1>5. ~needed => /\ s.current # Null /\ cl[c].selected # Null /\ s.current.box = op[t].box
                 /\ op[t].kind \in {"write", "move"} => ~s.current.ro
  BY DEF NeedsSelect
<1>6. op' = [op EXCEPT ![t] = o]
  BY <1>2
<1> HIDE DEF needed, o
<1>7. /\ o \in OpType /\ o.stage = "running" /\ o.via = c /\ o.kind = op[t].kind
      /\ o.box = op[t].box /\ o.wire = "idle" /\ CallSound(t, o, server.appended[t])
      /\ o.todo \in Plans(o.kind) /\ ~Copied(o) /\ (needed => Head(o.todo) \notin OnMessages)
  BY <1>1, <1>2, <1>3, <1>4, BegunFacts DEF o
<1> HIDE DEF c
<1>8. RunsIn(o, s, cl, server)
  <2>1. c # s.dialing /\ Elsewhere(o, s, cl)
    BY <1>1, <1>3, <1>7 DEF Connections, SessionSound, Elsewhere, c
  <2>2. ~needed /\ cl[c].net = "open" =>
           server.selected[c] = cl[c].selected /\ cl[c].selected = s.current
    BY <1>1, <1>3, <1>5 DEF Selections, Known, Agreed, c
  <2>3. RunSound(o, cl[c], server.selected[c])
    BY <1>5, <1>7, <2>2 DEF RunSound
  <2> QED BY <1>3, <1>7, <2>1, <2>3 DEF RunsIn, MoveSound
<1>9. Connections' /\ Selections'
  BY <1>1, <1>2, SteadyConnections DEF Steady
<1> QED BY <1>1, <1>2, <1>6, <1>7, <1>8, <1>9, GoesOnStep DEF Types

-----------------------------------------------------------------------------
(* A client connects.                                                      *)

\* The calls that run have nothing to do with the client that connects.
LEMMA RunsBeside ==
  ASSUME Inv, NEW c \in Clients, s.dialing = c,
         \A d \in Clients : d # c => cl'[d] = cl[d],
         s'.client = s.client, s'.dialing \in {c, 0}, server' = server
  PROVE  \A t \in Ops : Running(t) => RunsIn(op[t], s', cl', server')
<1> SUFFICES ASSUME NEW t \in Ops, Running(t)
             PROVE  RunsIn(op[t], s', cl', server')
  OBVIOUS
<1>1. /\ RunsIn(op[t], s, cl, server) /\ s.client \in 0..MaxClients
      /\ s.client # 0 => s.client # c
  BY DEF Inv, Types, Runs, Connections, SessionSound, SessionType
<1>2. s.client # 0 => s.client \in Clients /\ 0 \notin Clients
  BY <1>1, ImapSessionConstants DEF Clients
<1>3. op[t].via # c /\ op[t].via \in Clients /\ 0 \notin Clients
  BY <1>1, ImapSessionConstants DEF RunsIn, Clients
<1>4. Elsewhere(op[t], s', cl')
  BY <1>1, <1>2 DEF RunsIn, Elsewhere
<1> QED BY <1>1, <1>3, <1>4 DEF RunsIn

\* The client that connects becomes k.
LEMMA ClientStep ==
  ASSUME Inv, NEW c \in Clients, s.dialing = c, NEW k \in ClientType, ClientSound(c, k, s),
         cl' = [cl EXCEPT ![c] = k], UNCHANGED <<s, op, server>>, faults' \in 0..MaxFaults
  PROVE  Inv'
<1>1. /\ s \in SessionType /\ Locked /\ Connections /\ Selections /\ Runs /\ Calls
      /\ server.copies # {} /\ Types /\ cl \in [Clients -> ClientType]
  BY DEF Inv, Types
<1>2. /\ cl' \in [Clients -> ClientType] /\ cl'[c] = k
      /\ \A d \in Clients : d # c => cl'[d] = cl[d]
  BY <1>1
<1>3. s.client # 0 => s.client \in Clients /\ s.client # c
  BY <1>1, ImapSessionConstants DEF SessionType, Clients, Connections, SessionSound
<1>4. Connections'
  <2>1. SessionSound(s', cl')
    BY <1>1, <1>2, <1>3 DEF Connections, SessionSound
  <2>2. \A d \in Clients : ClientSound(d, cl'[d], s')
    BY <1>1, <1>2 DEF Connections
  <2> QED BY <2>1, <2>2 DEF Connections
<1>5. Selections'
  <2>1. Agreed(s', cl')
    BY <1>1, <1>2, <1>3 DEF Selections, Agreed
  <2>2. \A d \in Clients : Known(cl'[d], server'.selected[d])
    BY <1>1, <1>2 DEF Selections, Known, ClientSound
  <2> QED BY <2>1, <2>2 DEF Selections
<1>6. Runs'
  <2>1. \A t \in Ops : Running(t) => RunsIn(op[t], s', cl', server')
    BY <1>2, RunsBeside
  <2> QED BY <2>1 DEF Runs, Running
<1>7. Locked' /\ Calls' /\ server'.copies # {}
  BY <1>1 DEF Locked, First, Calls
<1> QED BY <1>1, <1>2, <1>4, <1>5, <1>6, <1>7 DEF Inv, Types

LEMMA ConnectStepStep ==
  ASSUME Inv, NEW c \in Clients, ConnectStep(c)
  PROVE  Inv'
<1>1. /\ s \in SessionType /\ Locked /\ Connections /\ Selections /\ Runs /\ Calls
      /\ server.copies # {} /\ Types /\ cl \in [Clients -> ClientType]
      /\ ClientSound(c, cl[c], s) /\ cl[c] \in ClientType /\ s.cfg \in Config
  BY CfgFacts DEF Inv, Types, Connections
<1>2. s.dialing = c /\ UNCHANGED <<s, op, server, faults>>
  BY DEF ConnectStep
<1>3. PICK next \in AfterStep(cl[c].step) \ {"ready", "failed"} :
        cl' = [cl EXCEPT ![c].step = next, ![c].tls = @ \/ cl[c].step = "upgrade"]
  BY DEF ConnectStep
<1> DEFINE k == [cl[c] EXCEPT !.step = next, !.tls = cl[c].tls \/ cl[c].step = "upgrade"]
<1>4. cl' = [cl EXCEPT ![c] = k]
  BY <1>1, <1>3
<1>5. /\ next \in Dialling
      /\ next = "login" /\ s.cfg.insist => cl[c].tls \/ cl[c].step = "upgrade"
  <2>1. cl[c].step \in Dialling /\ (s.cfg.secure => cl[c].tls)
    BY <1>1, <1>2 DEF ClientSound
  <2>2. CASE cl[c].step = "caps"
    <3>1. next = AfterCaps(s.cfg) /\ next # "failed"
      BY <2>2, <1>3 DEF AfterStep
    <3>2. CASE s.cfg.secure
      BY <3>1, <3>2, <2>1 DEF AfterCaps, Dialling
    <3>3. CASE ~s.cfg.secure /\ s.cfg.starttls
      BY <3>1, <3>3, <2>1 DEF AfterCaps, Dialling
    <3>4. CASE ~s.cfg.secure /\ ~s.cfg.starttls
      BY <3>1, <3>4, <2>1 DEF AfterCaps, Dialling
    <3> QED BY <3>2, <3>3, <3>4
  <2>3. CASE cl[c].step # "caps"
    BY <2>1, <2>3, <1>3 DEF AfterStep, Dialling
  <2> QED BY <2>2, <2>3
<1>6. /\ k \in ClientType /\ k.step = next /\ k.tls = (cl[c].tls \/ cl[c].step = "upgrade")
      /\ k.net = cl[c].net /\ k.selected = cl[c].selected /\ k.logout = cl[c].logout
  <2>1. next \in Steps /\ cl[c].tls \in BOOLEAN
    BY <1>1, <1>5 DEF Dialling, Steps, ClientType
  <2> QED BY <1>1, <2>1 DEF ClientType
<1> HIDE DEF k
<1>7. ClientSound(c, k, s)
  BY <1>1, <1>2, <1>5, <1>6 DEF ClientSound
<1> QED BY <1>1, <1>2, <1>4, <1>6, <1>7, ClientStep DEF Types

\* Connected: the call that waits begins on the new client.
LEMMA ConnectDoneStep ==
  ASSUME Inv, NEW c \in Clients, ConnectDone(c)
  PROVE  Inv'
<1>1. /\ s \in SessionType /\ Locked /\ Connections /\ Selections /\ Runs /\ Calls
      /\ server.copies # {} /\ Types /\ cl \in [Clients -> ClientType]
      /\ op \in [Ops -> OpType] /\ ClientSound(c, cl[c], s) /\ cl[c] \in ClientType
      /\ s.cfg \in Config
  BY CfgFacts DEF Inv, Types, Connections
<1>2. /\ s.dialing = c /\ UNCHANGED <<server, faults>>
      /\ cl' = [cl EXCEPT ![c].step = "ready"]
      /\ s' = [s EXCEPT !.client = c, !.dialing = 0, !.current = Null,
                        !.keepAlive = s.cfg.keepAlive]
      /\ op' = [t \in Ops |-> IF t \in Waiting THEN Begun(t, c, TRUE) ELSE op[t]]
  BY DEF ConnectDone
<1>3. c # 0 /\ c \in 0..MaxClients /\ 0 \notin Clients /\ 0 \in 0..MaxClients
  BY ImapSessionConstants DEF Clients
<1> DEFINE k == [cl[c] EXCEPT !.step = "ready"]
<1>4. /\ k \in ClientType /\ k.step = "ready" /\ k.net = "open" /\ k.logout = "no"
      /\ k.selected = Null /\ cl' = [cl EXCEPT ![c] = k]
  BY <1>1, <1>2, <1>3 DEF ClientType, Steps, ClientSound
<1> HIDE DEF k
<1>5. /\ cl' \in [Clients -> ClientType] /\ cl'[c] = k
      /\ \A d \in Clients : d # c => cl'[d] = cl[d]
  BY <1>1, <1>4
<1>6. /\ s' \in SessionType /\ s'.client = c /\ s'.dialing = 0 /\ s'.current = Null
      /\ s'.cfg = s.cfg /\ s'.attempt = s.attempt /\ s'.backoff = s.backoff
      /\ s'.closed = s.closed /\ s'.late = s.late /\ s'.line = s.line
  <2>1. Null \in Selection /\ s.cfg.keepAlive \in BOOLEAN
    BY <1>1 DEF Selection, Config
  <2> QED BY <1>1, <1>2, <1>3, <2>1 DEF SessionType
<1>7. Connections'
  <2>1. SessionSound(s', cl')
    BY <1>1, <1>2, <1>3, <1>6 DEF Connections, SessionSound
  <2>2. ASSUME NEW d \in Clients
        PROVE  ClientSound(d, cl'[d], s')
    <3>1. CASE d = c
      BY <3>1, <1>3, <1>4, <1>5, <1>6 DEF ClientSound
    <3>2. CASE d # c
      <4>1. ClientSound(d, cl[d], s) /\ d # 0
        BY <1>1, <1>3 DEF Connections
      <4>2. d = s.client => cl[d].net # "open"
        BY <4>1, <1>1, <1>2, <1>3 DEF Connections, SessionSound
      <4> QED BY <3>2, <4>1, <4>2, <1>2, <1>5, <1>6 DEF ClientSound
    <3> QED BY <3>1, <3>2
  <2> QED BY <2>1, <2>2 DEF Connections
<1>8. Selections'
  <2>1. Agreed(s', cl')
    BY <1>6 DEF Agreed
  <2>2. \A d \in Clients : Known(cl'[d], server'.selected[d])
    BY <1>1, <1>2, <1>4, <1>5 DEF Selections, Known
  <2> QED BY <2>1, <2>2 DEF Selections
<1>9. ASSUME NEW t \in Ops
      PROVE  /\ op'[t] \in OpType /\ CallSound(t, op'[t], server.appended[t])
             /\ op'[t].stage \in {"connecting", "running"} =>
                  op[t].stage \in {"connecting", "running"}
             /\ op'[t].stage = "running" => RunsIn(op'[t], s', cl', server')
  <2>1. op[t] \in OpType /\ CallSound(t, op[t], server.appended[t])
    BY <1>1 DEF Calls
  <2>2. CASE t \in Waiting
    <3> DEFINE needed == TRUE
               o == Begun(t, c, needed)
    <3>1. op'[t] = o /\ op[t].stage \in {"queued", "connecting"}
      BY <2>2, <1>2 DEF Waiting
    <3>4. needed /\ needed \in BOOLEAN
      OBVIOUS
    <3> HIDE DEF needed, o
    <3>2. /\ o \in OpType /\ o.stage = "running" /\ o.via = c /\ o.wire = "idle"
          /\ CallSound(t, o, server.appended[t]) /\ o.todo \in Plans(o.kind) /\ ~Copied(o)
          /\ Head(o.todo) \notin OnMessages
      <4>1. op \in [Ops -> OpType] /\ needed \in BOOLEAN
        BY <1>1, <3>4
      <4>2. /\ o \in OpType /\ o.stage = "running" /\ o.via = c /\ o.wire = "idle"
            /\ CallSound(t, o, server.appended[t]) /\ o.todo \in Plans(o.kind) /\ ~Copied(o)
            /\ (needed => Head(o.todo) \notin OnMessages)
        BY <4>1, <2>1, <3>1, BegunFacts DEF o
      <4> QED BY <4>2, <3>4
    <3>3. RunsIn(o, s', cl', server')
      BY <1>3, <1>4, <1>5, <1>6, <3>2 DEF RunsIn, Elsewhere, RunSound, MoveSound
    <3>5. op[t].stage = "connecting"
      BY <2>2 DEF Waiting
    <3> QED BY <3>1, <3>2, <3>3, <3>5
  <2>3. CASE t \notin Waiting
    <3>1. op'[t] = op[t]
      BY <2>3, <1>2
    <3>2. ASSUME Running(t)
          PROVE  RunsIn(op[t], s', cl', server')
      <4>1. RunsIn(op[t], s, cl, server)
        BY <3>2, <1>1 DEF Runs
      <4>2. op[t].via \in Clients /\ op[t].via # c
        BY <4>1, <1>2 DEF RunsIn
      <4>3. Elsewhere(op[t], s', cl')
        BY <1>4, <1>5, <1>6 DEF Elsewhere
      <4> QED BY <4>1, <4>2, <4>3, <1>2, <1>3, <1>5, <1>6 DEF RunsIn
    <3> QED BY <2>1, <3>1, <3>2 DEF Running
  <2> QED BY <2>2, <2>3
<1>10. op' \in [Ops -> OpType]
  BY <1>2, <1>9
<1>11. Locked'
  BY <1>1, <1>6, <1>9 DEF Locked, First
<1>12. Runs' /\ Calls'
  BY <1>2, <1>9 DEF Runs, Running, Calls
<1> QED BY <1>1, <1>2, <1>5, <1>6, <1>7, <1>8, <1>10, <1>11, <1>12 DEF Inv, Types

\* The attempt of client c is over, and c is no client any more.
LEMMA AttemptOver ==
  ASSUME Inv, NEW c \in Clients, s.dialing = c, cl' = [cl EXCEPT ![c] = NewClient],
         server' = server, s'.cfg = s.cfg, s'.client = s.client, s'.dialing = 0,
         s'.attempt = s.attempt, s'.current = s.current, s'.closed = s.closed,
         s'.late = s.late, s'.backoff => s.attempt < s.cfg.retries
  PROVE  cl' \in [Clients -> ClientType] /\ Connections' /\ Selections'
<1>1. /\ s \in SessionType /\ Connections /\ Selections /\ cl \in [Clients -> ClientType]
      /\ 0 \notin Clients
  BY ImapSessionConstants DEF Inv, Types, Clients
<1> DEFINE k == NewClient
<1>2. /\ k \in ClientType /\ k.net = "none" /\ k.step = "new" /\ k.logout = "no"
      /\ k.selected = Null
  BY DEF NewClient, ClientType, Steps, Selection
<1> HIDE DEF k
<1>3. cl' = [cl EXCEPT ![c] = k]
  BY DEF k
<1>4. /\ cl' \in [Clients -> ClientType] /\ cl'[c] = k
      /\ \A d \in Clients : d # c => cl'[d] = cl[d]
  BY <1>1, <1>2, <1>3
<1>5. s.client # 0 => s.client \in Clients /\ s.client # c
  BY <1>1, ImapSessionConstants DEF SessionType, Clients, Connections, SessionSound
<1>6. Connections'
  <2>1. SessionSound(s', cl')
    BY <1>1, <1>4, <1>5 DEF Connections, SessionSound
  <2>2. ASSUME NEW d \in Clients
        PROVE  ClientSound(d, cl'[d], s')
    <3>1. CASE d = c
      BY <3>1, <1>1, <1>2, <1>4 DEF ClientSound
    <3>2. CASE d # c
      BY <3>2, <1>1, <1>4 DEF Connections, ClientSound
    <3> QED BY <3>1, <3>2
  <2> QED BY <2>1, <2>2 DEF Connections
<1>7. Selections'
  <2>1. Agreed(s', cl')
    BY <1>1, <1>4, <1>5 DEF Selections, Agreed
  <2>2. \A d \in Clients : Known(cl'[d], server'.selected[d])
    BY <1>1, <1>2, <1>4 DEF Selections, Known
  <2> QED BY <2>1, <2>2 DEF Selections
<1> QED BY <1>4, <1>6, <1>7

LEMMA AttemptFailsStep ==
  ASSUME Inv, NEW c \in Clients, s.dialing = c, NEW retryable \in BOOLEAN,
         AttemptFails(c, retryable), server' = server, faults' \in 0..MaxFaults
  PROVE  Inv'
<1>1. /\ s \in SessionType /\ Locked /\ Connections /\ Calls /\ Types /\ server.copies # {}
      /\ op \in [Ops -> OpType] /\ c # 0 /\ 0 \in 0..MaxClients
  BY ImapSessionConstants DEF Inv, Types, Clients
<1>2. cl' = [cl EXCEPT ![c] = NewClient]
  BY DEF AttemptFails
<1>3. ~s.backoff
  BY <1>1 DEF Connections, SessionSound
<1>4. CASE (retryable /\ s.attempt < s.cfg.retries) \/ Waiting = {}
  <2>1. /\ op' = op
        /\ \/ s' = [s EXCEPT !.dialing = 0, !.backoff = TRUE] /\ s.attempt < s.cfg.retries
           \/ s' = [s EXCEPT !.dialing = 0]
    <3>1. CASE retryable /\ s.attempt < s.cfg.retries
      BY <3>1 DEF AttemptFails
    <3>2. CASE ~(retryable /\ s.attempt < s.cfg.retries) /\ Waiting = {}
      <4>1. /\ s' = [s EXCEPT !.dialing = 0, !.line = s.line]
            /\ op' = [t \in Ops |-> op[t]]
        BY <3>2 DEF AttemptFails
      <4>2. [s EXCEPT !.dialing = 0, !.line = s.line] = [s EXCEPT !.dialing = 0]
        BY <1>1 DEF SessionType
      <4>3. [t \in Ops |-> op[t]] = op
        BY <1>1
      <4> QED BY <4>1, <4>2, <4>3
    <3> QED BY <3>1, <3>2, <1>4
  <2>2. /\ s' \in SessionType /\ s'.cfg = s.cfg /\ s'.client = s.client /\ s'.dialing = 0
        /\ s'.attempt = s.attempt /\ s'.current = s.current /\ s'.closed = s.closed
        /\ s'.late = s.late /\ s'.line = s.line
        /\ s'.backoff => s.attempt < s.cfg.retries
    BY <1>1, <1>3, <2>1 DEF SessionType
  <2>3. cl' \in [Clients -> ClientType] /\ Connections' /\ Selections'
    BY <1>2, <2>2, AttemptOver
  <2>4. Runs'
    <3>1. \A d \in Clients : d # c => cl'[d] = cl[d]
      BY <1>1, <1>2 DEF Types
    <3>2. \A t \in Ops : Running(t) => RunsIn(op[t], s', cl', server')
      BY <2>2, <3>1, RunsBeside
    <3> QED BY <2>1, <3>2 DEF Runs, Running
  <2>5. Locked' /\ Calls' /\ server'.copies # {}
    BY <1>1, <2>1, <2>2 DEF Locked, First, Calls
  <2> QED BY <1>1, <2>1, <2>2, <2>3, <2>4, <2>5 DEF Inv, Types
<1>5. CASE ~(retryable /\ s.attempt < s.cfg.retries) /\ Waiting # {}
  <2>1. /\ s' = [s EXCEPT !.dialing = 0, !.line = Tail(s.line)]
        /\ op' = [t \in Ops |-> IF t \in Waiting THEN Ended(t, "failed") ELSE op[t]]
    BY <1>5 DEF AttemptFails
  <2>2. PICK t \in Ops : t \in Waiting
    BY <1>5 DEF Waiting
  <2>3. First(t)
    BY <1>1, <2>2 DEF Locked, Waiting
  <2>4. \A u \in Ops : u \in Waiting <=> u = t
    BY <1>1, <2>2, <2>3, OneGoesOn DEF Waiting
  <2>5. op' = [op EXCEPT ![t] = Ended(t, "failed")]
    BY <1>1, <2>1, <2>4
  <2> DEFINE v == [s EXCEPT !.dialing = 0]
  <2>6. v \in SessionType /\ v.line = s.line /\ s' = [v EXCEPT !.line = Tail(s.line)]
    BY <1>1, <2>1 DEF SessionType
  <2>7. /\ s'.cfg = s.cfg /\ s'.client = s.client /\ s'.dialing = 0
        /\ s'.attempt = s.attempt /\ s'.current = s.current /\ s'.closed = s.closed
        /\ s'.late = s.late /\ s'.backoff = s.backoff
    BY <1>1, <2>1 DEF SessionType
  <2> HIDE DEF v
  <2>8. cl' \in [Clients -> ClientType] /\ Connections' /\ Selections'
    BY <1>2, <1>3, <2>7, AttemptOver
  <2> QED BY <1>1, <2>3, <2>5, <2>6, <2>8, SettleStep DEF Types
<1> QED BY <1>4, <1>5

LEMMA ConnectLostStep ==
  ASSUME Inv, NEW c \in Clients, ConnectLost(c)
  PROVE  Inv'
<1>1. s.dialing = c /\ server' = server /\ faults < MaxFaults /\ faults' = faults + 1
  BY DEF ConnectLost, Fault
<1>2. faults' \in 0..MaxFaults
  BY <1>1, ImapSessionConstants DEF Inv, Types
<1> DEFINE retryable == cl[c].step # "upgrade"
<1>3. AttemptFails(c, retryable) /\ retryable \in BOOLEAN
  BY DEF ConnectLost
<1> HIDE DEF retryable
<1> QED BY <1>1, <1>2, <1>3, AttemptFailsStep

LEMMA ConnectRefusedStep ==
  ASSUME Inv, NEW c \in Clients, ConnectRefused(c)
  PROVE  Inv'
<1>1. /\ cl \in [Clients -> ClientType] /\ faults \in 0..MaxFaults
      /\ ClientSound(c, cl[c], s)
  BY DEF Inv, Types, Connections
<1>2. /\ s.dialing = c /\ server' = server
      /\ \/ faults' = faults
         \/ faults < MaxFaults /\ faults' = faults + 1
  BY DEF ConnectRefused, Fault
<1>3. faults' \in 0..MaxFaults
  BY <1>1, <1>2, ImapSessionConstants
<1>4. CASE AttemptFails(c, FALSE)
  <2> DEFINE retryable == FALSE
  <2>1. AttemptFails(c, retryable) /\ retryable \in BOOLEAN
    BY <1>4
  <2> HIDE DEF retryable
  <2> QED BY <1>2, <1>3, <2>1, AttemptFailsStep
<1>5. CASE cl' = [cl EXCEPT ![c].tried = TRUE] /\ UNCHANGED <<s, op>>
  <2> DEFINE k == [cl[c] EXCEPT !.tried = TRUE]
  <2>1. cl' = [cl EXCEPT ![c] = k] /\ k \in ClientType
    BY <1>1, <1>5 DEF ClientType
  <2>2. ClientSound(c, k, s)
    <3>1. /\ k.net = cl[c].net /\ k.step = cl[c].step /\ k.tls = cl[c].tls
          /\ k.selected = cl[c].selected /\ k.logout = cl[c].logout
      BY <1>1 DEF ClientType
    <3> HIDE DEF k
    <3> QED BY <1>1, <3>1 DEF ClientSound
  <2> HIDE DEF k
  <2> QED BY <1>2, <1>3, <1>5, <2>1, <2>2, ClientStep
<1> QED BY <1>4, <1>5 DEF ConnectRefused

-----------------------------------------------------------------------------
(* The commands of the running call.                                       *)

\* What holds of the call that runs.
LEMMA RunFacts ==
  ASSUME Inv, NEW t \in Ops, Running(t)
  PROVE  /\ First(t) /\ op[t] \in OpType /\ op \in [Ops -> OpType]
         /\ RunsIn(op[t], s, cl, server) /\ CallSound(t, op[t], server.appended[t])
         /\ op[t].todo \in Plans(op[t].kind) /\ op[t].kind \in Kinds
         /\ op[t].via \in Clients /\ op[t].via # s.dialing /\ cl[op[t].via] \in ClientType
         /\ s \in SessionType /\ cl \in [Clients -> ClientType] /\ server \in ServerType
         /\ faults \in 0..MaxFaults /\ Connections /\ Selections /\ server.copies # {}
<1>1. First(t) /\ op[t] \in OpType /\ RunsIn(op[t], s, cl, server)
  BY DEF Inv, Types, Locked, Runs, Running
<1> QED BY <1>1 DEF Inv, Types, Calls, RunsIn, RunSound, OpType

\* The call loses its connection.
LEMMA LostStep ==
  ASSUME Inv, NEW t \in Ops, Running(t), Lost(t), cl' \in [Clients -> ClientType],
         server' = server, faults' \in 0..MaxFaults, NEW c \in Clients, c # s.dialing,
         \/ cl' = cl
         \/ /\ \A d \in Clients : d # c => cl'[d] = cl[d]
            /\ cl'[c] = [cl[c] EXCEPT !.net = "dead"]
  PROVE  Inv'
<1>1. /\ First(t) /\ s \in SessionType /\ Connections /\ Selections /\ cl[c] \in ClientType
      /\ server \in ServerType
  BY RunFacts DEF Inv, Types
<1>2. op' = [op EXCEPT ![t] = Ended(t, "failed")] /\ s' = [s EXCEPT !.line = Tail(s.line)]
  BY DEF Lost, Settle
<1>3. /\ s'.cfg = s.cfg /\ s'.client = s.client /\ s'.dialing = s.dialing
      /\ s'.attempt = s.attempt /\ s'.backoff = s.backoff /\ s'.current = s.current
      /\ s'.late = s.late /\ s'.closed = s.closed
  BY <1>1, <1>2 DEF SessionType
<1>4. \A d \in Clients :
        /\ cl'[d].step = cl[d].step /\ cl'[d].tls = cl[d].tls /\ cl'[d].logout = cl[d].logout
        /\ cl'[d].selected = cl[d].selected /\ (cl'[d].net = "open" => cl[d].net = "open")
        /\ d = s.dialing => cl'[d] = cl[d]
  BY <1>1 DEF ClientType
<1>5. Connections'
  <2>1. s.client # 0 => s.client \in Clients
    BY <1>1, ImapSessionConstants DEF SessionType, Clients
  <2>2. SessionSound(s', cl')
    BY <1>1, <1>3, <1>4, <2>1 DEF Connections, SessionSound
  <2>3. \A d \in Clients : ClientSound(d, cl'[d], s')
    BY <1>1, <1>3, <1>4 DEF Connections, ClientSound
  <2> QED BY <2>2, <2>3 DEF Connections
<1>6. Selections'
  <2>1. s.client # 0 => s.client \in Clients
    BY <1>1, ImapSessionConstants DEF SessionType, Clients
  <2>2. Agreed(s', cl')
    BY <1>1, <1>3, <1>4, <2>1 DEF Selections, Agreed
  <2>3. \A d \in Clients : Known(cl'[d], server'.selected[d])
    BY <1>1, <1>4 DEF Selections, Known
  <2> QED BY <2>2, <2>3 DEF Selections
<1> QED BY <1>1, <1>2, <1>5, <1>6, SettleStep

LEMMA RefusedStep ==
  ASSUME Inv, NEW t \in Ops, Refused(t)
  PROVE  Inv'
<1>1. Running(t) /\ Lost(t) /\ UNCHANGED <<cl, server, faults>>
  BY DEF Refused, Lost
<1> QED BY <1>1, RunFacts, LostStep

LEMMA TimesOutStep ==
  ASSUME Inv, NEW t \in Ops, TimesOut(t)
  PROVE  Inv'
<1>1. /\ Running(t) /\ Lost(t) /\ server' = server /\ faults < MaxFaults /\ faults' = faults + 1
      /\ cl' = [cl EXCEPT ![op[t].via].net = "dead"]
  BY DEF TimesOut, Fault
<1> DEFINE c == op[t].via
           k == [cl[c] EXCEPT !.net = "dead"]
<1>2. /\ c \in Clients /\ c # s.dialing /\ cl[c] \in ClientType /\ faults \in 0..MaxFaults
      /\ cl \in [Clients -> ClientType]
  BY <1>1, RunFacts
<1>3. cl' = [cl EXCEPT ![c] = k] /\ k \in ClientType
  BY <1>1, <1>2 DEF ClientType
<1> HIDE DEF c
<1>4. /\ cl' \in [Clients -> ClientType] /\ cl'[c] = k
      /\ \A d \in Clients : d # c => cl'[d] = cl[d]
  BY <1>2, <1>3
<1>5. faults' \in 0..MaxFaults
  BY <1>1, <1>2, ImapSessionConstants
<1> QED BY <1>1, <1>2, <1>4, <1>5, LostStep

LEMMA SendStep ==
  ASSUME Inv, NEW t \in Ops, Send(t)
  PROVE  Inv'
<1>1. /\ Running(t) /\ op[t].wire = "idle" /\ UNCHANGED <<server, faults>>
  BY DEF Send
<1> DEFINE c == op[t].via
           q == op[t]
<1>2. /\ First(t) /\ q \in OpType /\ op \in [Ops -> OpType] /\ RunsIn(q, s, cl, server)
      /\ CallSound(t, q, server.appended[t]) /\ c \in Clients /\ c # s.dialing /\ q.via = c
      /\ cl[c] \in ClientType /\ s \in SessionType /\ cl \in [Clients -> ClientType]
      /\ server \in ServerType /\ faults \in 0..MaxFaults /\ Connections /\ Selections
      /\ server.copies # {} /\ q.stage = "running" /\ q.wire = "idle" /\ Command(t) = Head(q.todo)
  BY <1>1, RunFacts DEF Running, Command
<1>3. CASE /\ cl[c].net = "open" /\ op' = [op EXCEPT ![t].wire = "sent"]
           /\ cl' = [cl EXCEPT ![c].selected = IF Command(t) \in {"select", "examine"}
                                               THEN Null ELSE @]
           /\ UNCHANGED s
  <2> DEFINE k == [cl[c] EXCEPT !.selected = IF Head(q.todo) \in Opens THEN Null
                                             ELSE cl[c].selected]
             o == [q EXCEPT !.wire = "sent"]
  <2>1. cl' = [cl EXCEPT ![c] = k] /\ op' = [op EXCEPT ![t] = o]
    BY <1>2, <1>3 DEF Opens
  <2>2. /\ k \in ClientType /\ k.net = cl[c].net /\ k.step = cl[c].step /\ k.tls = cl[c].tls
        /\ k.logout = cl[c].logout /\ k.selected \in {Null, cl[c].selected}
        /\ Head(q.todo) \in Opens => k.selected = Null
    BY <1>2 DEF ClientType, Selection
  <2>3. /\ o \in OpType /\ o.stage = q.stage /\ o.kind = q.kind /\ o.box = q.box
        /\ o.via = q.via /\ o.todo = q.todo /\ o.wire = "sent"
    BY <1>2 DEF OpType
  <2> HIDE DEF k, o, q, c
  <2>4. /\ cl' \in [Clients -> ClientType] /\ cl'[c] = k
        /\ \A d \in Clients : d # c => cl'[d] = cl[d]
    BY <1>2, <2>1, <2>2
  <2>5. s.client # 0 => s.client \in Clients
    BY <1>2, ImapSessionConstants DEF SessionType, Clients
  <2>6. Connections'
    <3>1. SessionSound(s', cl')
      BY <1>2, <1>3, <2>2, <2>4, <2>5 DEF Connections, SessionSound
    <3>2. \A d \in Clients : ClientSound(d, cl'[d], s')
      BY <1>2, <1>3, <2>2, <2>4 DEF Connections, ClientSound
    <3> QED BY <3>1, <3>2 DEF Connections
  <2>7. Selections'
    <3>1. Agreed(s', cl')
      BY <1>2, <1>3, <2>2, <2>4, <2>5 DEF Selections, Agreed
    <3>2. \A d \in Clients : Known(cl'[d], server'.selected[d])
      BY <1>1, <1>2, <2>2, <2>4 DEF Selections, Known
    <3> QED BY <3>1, <3>2 DEF Selections
  <2>8. CallSound(t, o, server.appended[t])
    BY <1>2, <2>3 DEF CallSound
  <2>9. RunsIn(o, s', cl', server')
    <3>1. Elsewhere(o, s', cl')
      BY <1>2, <1>3, <2>3, <2>4, <2>5 DEF RunsIn, Elsewhere
    <3>2. RunSound(o, k, server.selected[c])
      BY <1>2, <2>2, <2>3 DEF RunsIn, RunSound
    <3>3. MoveSound(o, server.copies)
      <4>1. MoveSound(q, server.copies)
        BY <1>2 DEF RunsIn
      <4>2. Copied(o) => Copied(q)
        BY <2>3 DEF Copied
      <4> QED BY <4>1, <4>2, <2>3 DEF MoveSound
    <3>4. o.via = c /\ c \in Clients /\ c # s'.dialing
      BY <1>2, <1>3, <2>3
    <3>5. cl'[c] = k /\ server' = server
      BY <1>1, <2>4
    <3> QED BY <3>1, <3>2, <3>3, <3>4, <3>5 DEF RunsIn
  <2>10. /\ s' \in SessionType /\ s'.line = s.line /\ server' = server
         /\ server' \in ServerType /\ server'.copies # {} /\ faults' \in 0..MaxFaults
    BY <1>1, <1>2, <1>3
  <2>11. First(t) /\ o \in OpType /\ op' = [op EXCEPT ![t] = o]
    BY <1>2, <2>1, <2>3
  <2> QED BY <2>4, <2>6, <2>7, <2>8, <2>9, <2>10, <2>11, GoesOnStep
<1>4. CASE Lost(t) /\ UNCHANGED cl
  BY <1>1, <1>2, <1>4, LostStep
<1> QED BY <1>3, <1>4 DEF Send

\* Where a move stands, by its next command.
LEMMA MoveFacts ==
  ASSUME NEW p \in Plans("move")
  PROVE  /\ Head(p) = "expunge" => p = <<"expunge">>
         /\ Head(p) = "delete" => p = <<"delete", "expunge">>
         /\ Head(p) = "copy" => p = <<"copy", "delete", "expunge">>
         /\ p = <<"expunge">> => Head(p) = "expunge"
         /\ p = <<"delete", "expunge">> => Head(p) = "delete"
         /\ p = <<"copy", "delete", "expunge">> => Head(p) = "copy"
         /\ Len(p) # 1 /\ Tail(p) \in {<<"delete", "expunge">>, <<"expunge">>} =>
              Head(p) \in {"copy", "delete"}
<1>1. Head(<<"expunge">>) = "expunge" /\ Head(<<"delete", "expunge">>) = "delete"
  OBVIOUS
<1>2. CASE p = <<"select", "move">>
  <2>1. Head(p) = "select" /\ Len(p) = 2 /\ Tail(p) = <<"move">>
    BY <1>2
  <2>2. Head(Tail(p)) = "move"
    BY <1>2
  <2>3. Tail(p) # <<"expunge">> /\ Tail(p) # <<"delete", "expunge">>
    BY <1>1, <2>2
  <2> QED BY <2>1, <2>3
<1>3. CASE p = <<"move">>
  <2>1. Head(p) = "move" /\ Len(p) = 1
    BY <1>3
  <2> QED BY <2>1
<1>4. CASE p = <<"select", "copy", "delete", "expunge">>
  <2>1. Head(p) = "select" /\ Len(p) = 4 /\ Tail(p) = <<"copy", "delete", "expunge">>
    BY <1>4
  <2>2. Head(Tail(p)) = "copy"
    BY <1>4
  <2>3. Tail(p) # <<"expunge">> /\ Tail(p) # <<"delete", "expunge">>
    BY <1>1, <2>2
  <2> QED BY <2>1, <2>3
<1>5. CASE p = <<"copy", "delete", "expunge">>
  <2>1. Head(p) = "copy"
    BY <1>5
  <2> QED BY <2>1, <1>5
<1>6. CASE p = <<"delete", "expunge">>
  <2>1. Head(p) = "delete"
    BY <1>6
  <2> QED BY <2>1, <1>6
<1>7. CASE p = <<"expunge">>
  <2>1. Head(p) = "expunge" /\ Len(p) = 1
    BY <1>7
  <2> QED BY <2>1, <1>7
<1>8. p \in {<<"select", "move">>, <<"move">>, <<"select", "copy", "delete", "expunge">>,
             <<"copy", "delete", "expunge">>, <<"delete", "expunge">>, <<"expunge">>}
  BY DEF Plans
<1> QED BY <1>2, <1>3, <1>4, <1>5, <1>6, <1>7, <1>8

\* The mailbox a message moves to is another one.
LEMMA OtherBoxFacts ==
  ASSUME NEW box \in Boxes
  PROVE  OtherBox(box) \in Boxes /\ OtherBox(box) # box
<1>1. \E b \in Boxes : b # box
  BY ImapSessionConstants
<1> QED BY <1>1 DEF OtherBox

\* The server srv after it carried out command cmd of the call q of task t.
ServedSound(t, q, cmd, srv) ==
  /\ srv \in ServerType /\ srv.copies # {}
  /\ \A d \in Clients : d # q.via => srv.selected[d] = server.selected[d]
  /\ srv.selected[q.via] = IF cmd \in Opens THEN [box |-> q.box, ro |-> cmd = "examine"]
                           ELSE server.selected[q.via]
  /\ \A u \in Ops : u # t => srv.appended[u] = server.appended[u]
  /\ srv.appended[t] = IF cmd = "append" THEN server.appended[t] + 1 ELSE server.appended[t]
  /\ cmd \in {"copy", "delete", "expunge"} =>
       q.box \notin srv.copies \/ OtherBox(q.box) \in srv.copies

LEMMA ServedFacts ==
  ASSUME NEW t \in Ops, op[t] \in OpType, server \in ServerType, server.copies # {},
         op[t].via \in Clients, op[t].todo \in Plans(op[t].kind), op[t].wire = "sent",
         CallSound(t, op[t], server.appended[t]), MoveSound(op[t], server.copies)
  PROVE  ServedSound(t, op[t], Command(t), Served(t))
<1> DEFINE q == op[t]
           c == q.via
           cmd == Command(t)
           box == q.box
           there == box \in server.copies
<1>1. /\ cmd \in Commands /\ cmd \in Opens \cup OnMessages \cup {"append", "noop"}
      /\ cmd = "noop" <=> q.kind = "noop"
      /\ cmd \in {"move", "copy", "delete", "expunge"} => q.kind = "move"
      /\ q.kind \in Kinds
  BY PlanFacts DEF Command, OpType
<1>2. /\ server.selected \in [Clients -> Selection] /\ server.copies \subseteq Boxes
      /\ server.deleted \subseteq Boxes /\ server.appended \in [Ops -> Nat]
  BY DEF ServerType
<1>3. cmd # "noop" => /\ box \in Boxes /\ OtherBox(box) \in Boxes /\ OtherBox(box) # box
                      /\ [box |-> box, ro |-> FALSE] \in Selection
                      /\ [box |-> box, ro |-> TRUE] \in Selection
  BY <1>1, OtherBoxFacts DEF CallSound, Selection
<1>4. cmd \in {"delete", "expunge"} => ~there \/ OtherBox(box) \in server.copies
  <2> SUFFICES ASSUME cmd \in {"delete", "expunge"}
               PROVE  ~there \/ OtherBox(box) \in server.copies
    OBVIOUS
  <2>1. q.kind = "move" /\ q.todo \in Plans("move") /\ Head(q.todo) \in {"delete", "expunge"}
    BY <1>1 DEF Command
  <2>2. Copied(q)
    BY <2>1, MoveFacts DEF Copied
  <2> QED BY <2>1, <2>2 DEF MoveSound
<1>5. CASE cmd = "select"
  <2>1. Served(t) = [server EXCEPT !.selected[c] = [box |-> box, ro |-> FALSE]]
    BY <1>5 DEF Served
  <2> DEFINE srv == [server EXCEPT !.selected[c] = [box |-> box, ro |-> FALSE]]
  <2> HIDE DEF cmd
  <2>2. ServedSound(t, q, cmd, srv)
    BY <1>2, <1>3, <1>5 DEF ServedSound, ServerType, Opens
  <2> QED BY <2>1, <2>2 DEF cmd
<1>6. CASE cmd = "examine"
  <2>1. Served(t) = [server EXCEPT !.selected[c] = [box |-> box, ro |-> TRUE]]
    BY <1>6 DEF Served
  <2> DEFINE srv == [server EXCEPT !.selected[c] = [box |-> box, ro |-> TRUE]]
  <2> HIDE DEF cmd
  <2>2. ServedSound(t, q, cmd, srv)
    BY <1>2, <1>3, <1>6 DEF ServedSound, ServerType, Opens
  <2> QED BY <2>1, <2>2 DEF cmd
<1>7. CASE cmd = "append"
  <2>1. Served(t) = [server EXCEPT !.appended[t] = server.appended[t] + 1]
    BY <1>7 DEF Served
  <2> DEFINE srv == [server EXCEPT !.appended[t] = server.appended[t] + 1]
  <2> HIDE DEF cmd
  <2>2. ServedSound(t, q, cmd, srv)
    BY <1>2, <1>3, <1>7 DEF ServedSound, ServerType, Opens
  <2> QED BY <2>1, <2>2 DEF cmd
<1>8. CASE cmd = "copy" /\ there
  <2>1. Served(t) = [server EXCEPT !.copies = server.copies \cup {OtherBox(box)},
                                   !.deleted = server.deleted \ {OtherBox(box)}]
    BY <1>8 DEF Served
  <2> DEFINE srv == [server EXCEPT !.copies = server.copies \cup {OtherBox(box)},
                                   !.deleted = server.deleted \ {OtherBox(box)}]
  <2> HIDE DEF cmd
  <2>2. ServedSound(t, q, cmd, srv)
    BY <1>2, <1>3, <1>8 DEF ServedSound, ServerType, Opens
  <2> QED BY <2>1, <2>2 DEF cmd
<1>9. CASE cmd = "move" /\ there
  <2>1. Served(t) = [server EXCEPT !.copies = {OtherBox(box)}, !.deleted = {}]
    BY <1>9 DEF Served
  <2> DEFINE srv == [server EXCEPT !.copies = {OtherBox(box)}, !.deleted = {}]
  <2> HIDE DEF cmd
  <2>2. ServedSound(t, q, cmd, srv)
    BY <1>2, <1>3, <1>9 DEF ServedSound, ServerType, Opens
  <2> QED BY <2>1, <2>2 DEF cmd
<1>10. CASE cmd = "delete" /\ there
  <2>1. Served(t) = [server EXCEPT !.deleted = server.deleted \cup {box}]
    BY <1>10 DEF Served
  <2> DEFINE srv == [server EXCEPT !.deleted = server.deleted \cup {box}]
  <2> HIDE DEF cmd
  <2>2. ServedSound(t, q, cmd, srv)
    BY <1>2, <1>3, <1>4, <1>10 DEF ServedSound, ServerType, Opens
  <2> QED BY <2>1, <2>2 DEF cmd
<1>11. CASE cmd = "expunge"
  <2>1. Served(t) = [server EXCEPT !.copies = server.copies \ (server.deleted \cap {box}),
                                   !.deleted = server.deleted \ {box}]
    BY <1>11 DEF Served
  <2> DEFINE srv == [server EXCEPT !.copies = server.copies \ (server.deleted \cap {box}),
                                   !.deleted = server.deleted \ {box}]
  <2> HIDE DEF cmd
  <2>2. /\ srv \in ServerType /\ srv.selected = server.selected
        /\ srv.appended = server.appended
        /\ srv.copies = server.copies \ (server.deleted \cap {box})
    BY <1>2 DEF ServerType
  <2> HIDE DEF srv
  <2>3. srv.copies # {} /\ (box \notin srv.copies \/ OtherBox(box) \in srv.copies)
    BY <1>3, <1>4, <1>11, <2>2
  <2>4. ServedSound(t, q, cmd, srv)
    BY <1>11, <2>2, <2>3 DEF ServedSound, Opens
  <2> QED BY <2>1, <2>4 DEF cmd, srv
<1>12. CASE /\ cmd \notin {"select", "examine", "append", "expunge"}
            /\ ~(cmd \in {"copy", "move", "delete"} /\ there)
  <2>1. Served(t) = server
    BY <1>12 DEF Served
  <2> HIDE DEF cmd
  <2>2. ServedSound(t, q, cmd, server)
    BY <1>2, <1>12 DEF ServedSound, Opens
  <2> QED BY <2>1, <2>2 DEF cmd
<1> QED BY <1>5, <1>6, <1>7, <1>8, <1>9, <1>10, <1>11, <1>12

LEMMA ServeStep ==
  ASSUME Inv, NEW t \in Ops, Serve(t)
  PROVE  Inv'
<1> DEFINE q == op[t]
           c == q.via
           cmd == Command(t)
<1>1. Running(t) /\ q.wire = "sent" /\ cl[c].net = "open" /\ UNCHANGED <<s, cl>>
  BY DEF Serve
<1>2. /\ First(t) /\ q \in OpType /\ op \in [Ops -> OpType] /\ RunsIn(q, s, cl, server)
      /\ CallSound(t, q, server.appended[t]) /\ c \in Clients /\ c # s.dialing /\ q.via = c
      /\ s \in SessionType /\ cl \in [Clients -> ClientType] /\ q.todo \in Plans(q.kind)
      /\ server \in ServerType /\ faults \in 0..MaxFaults /\ Connections /\ Selections
      /\ server.copies # {} /\ q.stage = "running" /\ q.kind \in Kinds
  BY <1>1, RunFacts DEF Running
<1>3. /\ cmd = Head(q.todo) /\ (cmd \in Opens => cl[c].selected = Null)
      /\ cmd \in OnMessages => cmd \notin Opens
      /\ cmd = "append" <=> q.kind = "append"
  BY <1>1, <1>2, PlanFacts DEF Command, RunsIn, RunSound, Opens, OnMessages
<1>4. ASSUME NEW wire \in {"served", "refused"}, op' = [op EXCEPT ![t].wire = wire],
             server' \in ServerType, server'.copies # {}, faults' \in 0..MaxFaults,
             \A d \in Clients : d # c => server'.selected[d] = server.selected[d],
             \A u \in Ops : u # t => server'.appended[u] = server.appended[u],
             cmd \notin Opens => server'.selected[c] = server.selected[c],
             wire = "served" => ServedSound(t, q, cmd, server'),
             wire = "refused" => /\ server'.appended = server.appended
                                 /\ server'.copies = server.copies
      PROVE  Inv'
  <2> DEFINE o == [q EXCEPT !.wire = wire]
  <2>1. op' = [op EXCEPT ![t] = o]
    BY <1>2, <1>4
  <2>2. /\ o \in OpType /\ o.stage = "running" /\ o.kind = q.kind /\ o.box = q.box
        /\ o.via = c /\ o.todo = q.todo /\ o.wire = wire
    BY <1>2, <1>4 DEF OpType
  <2> HIDE DEF o, cmd, q, c
  <2>3. Connections'
    BY <1>1, <1>2 DEF Connections
  <2>4. Selections'
    <3>1. \A d \in Clients : Known(cl[d], server'.selected[d])
      BY <1>2, <1>3, <1>4 DEF Selections, Known
    <3> QED BY <1>1, <1>2, <3>1 DEF Selections
  <2>5. CallSound(t, o, server'.appended[t])
    <3>1. CASE wire = "served"
      <4>1. server'.appended[t] = IF cmd = "append" THEN server.appended[t] + 1
                                  ELSE server.appended[t]
        BY <3>1, <1>4 DEF ServedSound
      <4> QED BY <3>1, <4>1, <1>1, <1>2, <1>3, <2>2 DEF CallSound
    <3>2. CASE wire = "refused"
      BY <3>2, <1>1, <1>2, <1>4, <2>2 DEF CallSound
    <3> QED BY <3>1, <3>2, <1>4
  <2>6. RunSound(o, cl[c], server'.selected[c])
    <3>1. cmd \in Opens /\ wire = "served" =>
            server'.selected[c] = [box |-> o.box, ro |-> cmd = "examine"]
      BY <1>2, <1>4, <2>2 DEF ServedSound
    <3>2. cmd \in OnMessages =>
            /\ server'.selected[c] # Null /\ server'.selected[c].box = o.box
            /\ o.kind \in {"write", "move"} => ~server'.selected[c].ro
      BY <1>1, <1>2, <1>3, <1>4, <2>2 DEF RunsIn, RunSound
    <3> QED BY <1>2, <1>3, <2>2, <3>1, <3>2 DEF RunSound
  <2>7. MoveSound(o, server'.copies)
    <3> SUFFICES ASSUME o.kind = "move", Copied(o)
                 PROVE  o.box \notin server'.copies \/ OtherBox(o.box) \in server'.copies
      BY DEF MoveSound
    <3>1. cmd \in {"copy", "delete", "expunge"} /\ q.todo \in Plans("move")
      BY <1>2, <1>3, <2>2, MoveFacts DEF Copied
    <3>2. CASE wire = "served"
      BY <3>1, <3>2, <1>4, <2>2 DEF ServedSound
    <3>3. CASE wire = "refused"
      <4>1. Copied(q)
        BY <3>3, <2>2 DEF Copied
      <4> QED BY <3>3, <4>1, <1>2, <1>4, <2>2 DEF RunsIn, MoveSound
    <3> QED BY <3>2, <3>3, <1>4
  <2>8. RunsIn(o, s', cl', server')
    BY <1>1, <1>2, <2>2, <2>6, <2>7 DEF RunsIn, Elsewhere
  <2>9. s' \in SessionType /\ s'.line = s.line /\ cl' \in [Clients -> ClientType]
    BY <1>1, <1>2
  <2> QED BY <1>2, <1>4, <2>1, <2>2, <2>3, <2>4, <2>5, <2>8, <2>9, GoesOnStep
<1>5. CASE op' = [op EXCEPT ![t].wire = "served"] /\ server' = Served(t) /\ UNCHANGED faults
  <2>1. ServedSound(t, q, cmd, server')
    BY <1>1, <1>2, <1>5, ServedFacts DEF RunsIn
  <2> QED BY <1>2, <1>4, <1>5, <2>1 DEF ServedSound
<1>6. CASE /\ op' = [op EXCEPT ![t].wire = "refused"] /\ Fault
           /\ server' = [server EXCEPT !.selected[c] =
                           IF cmd \in {"select", "examine"} THEN Null ELSE @]
  <2> DEFINE at == IF cmd \in Opens THEN Null ELSE server.selected[c]
  <2>1. at \in Selection /\ (cmd \notin Opens => at = server.selected[c])
    BY <1>2 DEF Selection, ServerType
  <2>2. server' = [server EXCEPT !.selected[c] = at]
    BY <1>6 DEF Opens
  <2> HIDE DEF at, cmd
  <2>3. /\ server' \in ServerType /\ server'.selected[c] = at
        /\ server'.copies = server.copies /\ server'.appended = server.appended
        /\ \A d \in Clients : d # c => server'.selected[d] = server.selected[d]
    BY <1>2, <2>1, <2>2 DEF ServerType
  <2>4. faults' \in 0..MaxFaults
    BY <1>2, <1>6, ImapSessionConstants DEF Fault
  <2> QED BY <1>2, <1>4, <1>6, <2>1, <2>3, <2>4
<1> QED BY <1>5, <1>6 DEF Serve

LEMMA DoneStep ==
  ASSUME Inv, NEW t \in Ops, Done(t)
  PROVE  Inv'
<1> DEFINE q == op[t]
           c == q.via
           cmd == Command(t)
           opened == [box |-> q.box, ro |-> cmd = "examine"]
           v == IF cmd \in Opens THEN [s EXCEPT !.current = opened] ELSE s
           k == [cl[c] EXCEPT !.selected = IF cmd \in Opens THEN opened ELSE cl[c].selected]
           o == [q EXCEPT !.todo = Tail(q.todo), !.wire = "idle"]
<1>1. Running(t) /\ q.wire = "served" /\ cl[c].net = "open" /\ UNCHANGED <<server, faults>>
  BY DEF Done
<1>2. /\ First(t) /\ q \in OpType /\ op \in [Ops -> OpType] /\ RunsIn(q, s, cl, server)
      /\ CallSound(t, q, server.appended[t]) /\ c \in Clients /\ c # s.dialing /\ q.via = c
      /\ s \in SessionType /\ cl \in [Clients -> ClientType] /\ q.todo \in Plans(q.kind)
      /\ server \in ServerType /\ faults \in 0..MaxFaults /\ Connections /\ Selections
      /\ server.copies # {} /\ q.stage = "running" /\ q.kind \in Kinds
      /\ cl[c] \in ClientType
  BY <1>1, RunFacts DEF Running
<1>3. /\ cmd = Head(q.todo) /\ cmd \in Opens \cup OnMessages \cup {"append", "noop"}
      /\ cmd = "noop" <=> q.kind = "noop"
      /\ cmd = "append" <=> q.kind = "append"
      /\ Len(q.todo) # 1 => /\ Tail(q.todo) \in Plans(q.kind)
                            /\ Head(Tail(q.todo)) \in OnMessages
                            /\ q.kind \notin {"append", "noop", "openReadOnly"}
      /\ cmd = "examine" => q.kind = "openReadOnly"
      /\ OnMessages \cap Opens = {} /\ "append" \notin Opens /\ "noop" \notin Opens
  <2>1. cmd = Head(q.todo)
    BY DEF Command
  <2>2. OnMessages \cap Opens = {} /\ "append" \notin Opens /\ "noop" \notin Opens
    BY DEF Opens, OnMessages
  <2>3. q.kind \in Kinds /\ q.todo \in Plans(q.kind)
    BY <1>2
  <2> HIDE DEF q, cmd
  <2>4. /\ Head(q.todo) \in Opens \cup OnMessages \cup {"append", "noop"}
        /\ Head(q.todo) = "noop" <=> q.kind = "noop"
        /\ Head(q.todo) = "append" <=> q.kind = "append"
        /\ Head(q.todo) = "examine" => q.kind = "openReadOnly"
    BY <2>3, PlanFacts
  <2>5. /\ q.kind \in {"append", "noop", "openReadOnly"} => Len(q.todo) = 1
        /\ Len(q.todo) # 1 => /\ Tail(q.todo) \in Plans(q.kind)
                              /\ Head(Tail(q.todo)) \in OnMessages
    BY <2>3, PlanFacts
  <2> QED BY <2>1, <2>2, <2>4, <2>5
<1>4. cmd \in Opens => /\ opened \in Selection /\ opened # Null /\ server.selected[c] = opened
  <2>1. ASSUME cmd \in Opens
        PROVE  q.box \in Boxes
    BY <2>1, <1>2, <1>3 DEF CallSound
  <2>2. cmd \in Opens => opened \in [box : Boxes, ro : BOOLEAN]
    BY <2>1
  <2>3. cmd \in Opens => server.selected[c] = opened
    BY <1>1, <1>2, <1>3 DEF RunsIn, RunSound
  <2> QED BY <2>2, <2>3, ImapSessionConstants DEF Selection
<1>5. opened.box = q.box /\ opened.ro = (cmd = "examine")
  OBVIOUS
<1>6. cl' = [cl EXCEPT ![c] = k]
  BY <1>2 DEF Done, Opens
<1>7. \/ /\ Len(q.todo) = 1 /\ op' = [op EXCEPT ![t] = Ended(t, "ok")]
         /\ s' = [v EXCEPT !.line = Tail(v.line)]
      \/ /\ Len(q.todo) # 1 /\ op' = [op EXCEPT ![t].todo = Tail(@), ![t].wire = "idle"]
         /\ s' = v
  BY DEF Done, Opens
<1> HIDE DEF cmd, opened
<1>8. /\ v \in SessionType /\ v.line = s.line /\ v.cfg = s.cfg /\ v.client = s.client
      /\ v.dialing = s.dialing /\ v.attempt = s.attempt /\ v.backoff = s.backoff
      /\ v.closed = s.closed /\ v.late = s.late
      /\ v.current = IF cmd \in Opens THEN opened ELSE s.current
  BY <1>2, <1>4 DEF SessionType
<1>9. /\ k \in ClientType /\ k.net = cl[c].net /\ k.step = cl[c].step /\ k.tls = cl[c].tls
      /\ k.logout = cl[c].logout
      /\ k.selected = IF cmd \in Opens THEN opened ELSE cl[c].selected
  BY <1>2, <1>4 DEF ClientType
<1> HIDE DEF v, k
<1>10. /\ s'.cfg = s.cfg /\ s'.client = s.client /\ s'.dialing = s.dialing
       /\ s'.attempt = s.attempt /\ s'.backoff = s.backoff /\ s'.closed = s.closed
       /\ s'.late = s.late /\ s'.current = v.current
  BY <1>7, <1>8 DEF SessionType
<1> HIDE DEF q, c
<1>11. /\ cl' \in [Clients -> ClientType] /\ cl'[c] = k
       /\ \A d \in Clients : d # c => cl'[d] = cl[d]
  BY <1>2, <1>6, <1>9
<1>12. s.client # 0 => s.client \in Clients
  BY <1>2, ImapSessionConstants DEF SessionType, Clients
<1>13. Connections'
  <2>1. SessionSound(s', cl')
    BY <1>2, <1>9, <1>10, <1>11, <1>12 DEF Connections, SessionSound
  <2>2. \A d \in Clients : ClientSound(d, cl'[d], s')
    BY <1>2, <1>9, <1>10, <1>11 DEF Connections, ClientSound
  <2> QED BY <2>1, <2>2 DEF Connections
<1>14. Selections'
  <2>1. Agreed(s', cl')
    <3>1. CASE s.client = c
      BY <3>1, <1>2, <1>8, <1>9, <1>10, <1>11 DEF Selections, Agreed
    <3>2. CASE s.client # c
      BY <3>2, <1>2, <1>8, <1>10, <1>11, <1>12 DEF RunsIn, Elsewhere, Selections, Agreed
    <3> QED BY <3>1, <3>2
  <2>2. \A d \in Clients : Known(cl'[d], server'.selected[d])
    BY <1>1, <1>2, <1>4, <1>9, <1>11 DEF Selections, Known
  <2> QED BY <2>1, <2>2 DEF Selections
<1>15. CASE Len(q.todo) = 1
  <2>1. op' = [op EXCEPT ![t] = Ended(t, "ok")] /\ s' = [v EXCEPT !.line = Tail(s.line)]
    BY <1>7, <1>8, <1>15 DEF q
  <2>2. op[t].kind = "append" => server.appended[t] = 1
    BY <1>1, <1>2 DEF CallSound, q
  <2> DEFINE how == "ok"
  <2>3. how \in {"ok", "failed"} /\ op' = [op EXCEPT ![t] = Ended(t, how)]
    BY <2>1
  <2> HIDE DEF how
  <2> QED BY <1>1, <1>2, <1>8, <1>11, <1>13, <1>14, <2>1, <2>2, <2>3, SettleStep
<1>16. CASE Len(q.todo) # 1
  <2>1. op' = [op EXCEPT ![t] = o] /\ s' = v
    BY <1>2, <1>7, <1>16 DEF q
  <2>2. /\ o \in OpType /\ o.stage = "running" /\ o.kind = q.kind /\ o.box = q.box
        /\ o.via = c /\ o.todo = Tail(q.todo) /\ o.wire = "idle"
    <3>1. Tail(q.todo) \in Seq(Commands)
      BY <1>2, <1>3, <1>16, PlanFacts
    <3> QED BY <1>2, <3>1 DEF OpType
  <2> HIDE DEF o
  <2>3. CallSound(t, o, server.appended[t])
    BY <1>2, <1>3, <1>16, <2>2 DEF CallSound
  <2>4. RunSound(o, k, server.selected[c])
    <3>1. Head(o.todo) \in OnMessages /\ o.todo \in Plans(o.kind)
      BY <1>3, <1>16, <2>2
    <3>2. /\ server.selected[c] # Null /\ server.selected[c].box = o.box
          /\ o.kind \in {"write", "move"} => ~server.selected[c].ro
      <4>1. CASE cmd \in Opens
        BY <4>1, <1>3, <1>4, <1>5, <1>16, <2>2
      <4>2. CASE cmd \notin Opens
        <5>1. cmd \in OnMessages
          BY <4>2, <1>3, <1>16
        <5> QED BY <5>1, <1>1, <1>2, <1>3, <2>2 DEF RunsIn, RunSound
      <4> QED BY <4>1, <4>2
    <3> QED BY <1>3, <2>2, <3>1, <3>2 DEF RunSound
  <2>5. MoveSound(o, server.copies)
    <3> SUFFICES ASSUME o.kind = "move", Copied(o)
                 PROVE  o.box \notin server.copies \/ OtherBox(o.box) \in server.copies
      BY DEF MoveSound
    <3>1. q.todo \in Plans("move") /\ Tail(q.todo) \in {<<"delete", "expunge">>, <<"expunge">>}
      BY <1>2, <2>2 DEF Copied
    <3>2. Copied(q)
      BY <3>1, <1>1, <1>3, <1>16, MoveFacts DEF Copied
    <3> QED BY <3>2, <1>2, <2>2 DEF RunsIn, MoveSound
  <2>6. Elsewhere(o, s', cl')
    BY <1>2, <1>10, <1>11, <1>12, <2>2 DEF RunsIn, Elsewhere
  <2>7. RunsIn(o, s', cl', server')
    BY <1>1, <1>2, <1>10, <1>11, <2>2, <2>4, <2>5, <2>6 DEF RunsIn
  <2> QED BY <1>1, <1>2, <1>8, <1>11, <1>13, <1>14, <2>1, <2>2, <2>3, <2>7, GoesOnStep
<1> QED BY <1>15, <1>16

-----------------------------------------------------------------------------
(* Connections end.                                                        *)

\* A client that is logging out goes on to do so.
LEMMA LeaveStep ==
  ASSUME Inv, NEW c \in Clients, cl[c].logout # "no", NEW k \in ClientType,
         k.step = cl[c].step, k.logout = "sent", k.selected = cl[c].selected,
         k.net = "open" => cl[c].net = "open", cl' = [cl EXCEPT ![c] = k],
         UNCHANGED <<s, op, server, faults>>
  PROVE  Inv'
<1>1. /\ s \in SessionType /\ Locked /\ Connections /\ Selections /\ Runs /\ Calls
      /\ server.copies # {} /\ Types /\ cl \in [Clients -> ClientType]
      /\ ClientSound(c, cl[c], s)
  BY DEF Inv, Types, Connections
<1>2. /\ cl' \in [Clients -> ClientType] /\ cl'[c] = k
      /\ \A d \in Clients : d # c => cl'[d] = cl[d]
  BY <1>1
<1>3. c # s.dialing /\ c # s.client
  BY <1>1 DEF ClientSound
<1>4. s.client # 0 => s.client \in Clients
  BY <1>1, ImapSessionConstants DEF SessionType, Clients
<1>5. Connections'
  <2>1. SessionSound(s', cl')
    BY <1>1, <1>2, <1>3, <1>4 DEF Connections, SessionSound
  <2>2. ClientSound(c, k, s)
    BY <1>1, <1>3 DEF ClientSound
  <2>3. \A d \in Clients : ClientSound(d, cl'[d], s')
    BY <1>1, <1>2, <2>2 DEF Connections
  <2> QED BY <2>1, <2>3 DEF Connections
<1>6. Selections'
  <2>1. Agreed(s', cl')
    BY <1>1, <1>2, <1>3, <1>4 DEF Selections, Agreed
  <2>2. \A d \in Clients : Known(cl'[d], server'.selected[d])
    BY <1>1, <1>2 DEF Selections, Known
  <2> QED BY <2>1, <2>2 DEF Selections
<1>7. ASSUME NEW t \in Ops, Running(t)
      PROVE  RunsIn(op[t], s', cl', server')
  <2>1. RunsIn(op[t], s, cl, server)
    BY <1>1, <1>7 DEF Runs
  <2>2. Elsewhere(op[t], s', cl')
    BY <2>1, <1>2, <1>3, <1>4 DEF RunsIn, Elsewhere
  <2>3. RunSound(op[t], cl'[op[t].via], server'.selected[op[t].via])
    BY <2>1, <1>2 DEF RunsIn, RunSound
  <2> QED BY <2>1, <2>2, <2>3 DEF RunsIn
<1>8. Runs'
  BY <1>7 DEF Runs, Running
<1>9. Locked' /\ Calls' /\ server'.copies # {}
  BY <1>1 DEF Locked, First, Calls
<1> QED BY <1>1, <1>2, <1>5, <1>6, <1>8, <1>9 DEF Inv, Types

LEMMA LogoutStep ==
  ASSUME Inv, NEW c \in Clients, Logout(c)
  PROVE  Inv'
<1>1. /\ cl[c] \in ClientType /\ cl[c].logout = "queued" /\ UNCHANGED <<s, op, server, faults>>
      /\ cl' = [cl EXCEPT ![c].logout = "sent"] /\ cl \in [Clients -> ClientType]
  BY DEF Logout, Inv, Types
<1> DEFINE k == [cl[c] EXCEPT !.logout = "sent"]
<1>2. /\ cl' = [cl EXCEPT ![c] = k] /\ k \in ClientType /\ k.step = cl[c].step
      /\ k.logout = "sent" /\ k.selected = cl[c].selected /\ k.net = cl[c].net
  BY <1>1 DEF ClientType
<1> HIDE DEF k
<1> QED BY <1>1, <1>2, LeaveStep

LEMMA LoggedOutStep ==
  ASSUME Inv, NEW c \in Clients, LoggedOut(c)
  PROVE  Inv'
<1>1. /\ cl[c] \in ClientType /\ cl[c].logout = "sent" /\ UNCHANGED <<s, op, server, faults>>
      /\ cl' = [cl EXCEPT ![c].net = "dead"] /\ cl \in [Clients -> ClientType]
  BY DEF LoggedOut, Inv, Types
<1> DEFINE k == [cl[c] EXCEPT !.net = "dead"]
<1>2. /\ cl' = [cl EXCEPT ![c] = k] /\ k \in ClientType /\ k.step = cl[c].step
      /\ k.logout = "sent" /\ k.selected = cl[c].selected /\ k.net = "dead"
  BY <1>1 DEF ClientType
<1> HIDE DEF k
<1> QED BY <1>1, <1>2, LeaveStep

LEMMA CloseStep ==
  ASSUME Inv, Close
  PROVE  Inv'
<1>1. /\ s \in SessionType /\ Locked /\ Connections /\ Selections /\ Runs /\ Calls
      /\ server.copies # {} /\ Types /\ cl \in [Clients -> ClientType]
      /\ 0 \notin Clients /\ 0 \in 0..MaxClients
  BY ImapSessionConstants DEF Inv, Types, Clients
<1>2. /\ UNCHANGED <<op, server, faults>>
      /\ s' = [s EXCEPT !.closed = TRUE, !.keepAlive = FALSE, !.client = 0, !.current = Null,
                        !.late = Connecting]
      /\ cl' = [c \in Clients |-> IF c = s.client /\ cl[c].net = "open"
                                  THEN [cl[c] EXCEPT !.logout = "queued"] ELSE cl[c]]
  BY DEF Close
<1>3. Connecting \in BOOLEAN /\ (Connecting <=> s.dialing # 0 \/ s.backoff)
  BY <1>1 DEF Connecting, SessionType
<1> DEFINE late == Connecting
<1>4. s' = [s EXCEPT !.closed = TRUE, !.keepAlive = FALSE, !.client = 0, !.current = Null,
                     !.late = late]
  BY <1>2
<1>5. late \in BOOLEAN /\ (late <=> s.dialing # 0 \/ s.backoff)
  BY <1>3
<1> HIDE DEF late
<1>6. /\ s' \in SessionType /\ s'.client = 0 /\ s'.current = Null /\ s'.cfg = s.cfg
      /\ s'.dialing = s.dialing /\ s'.attempt = s.attempt /\ s'.backoff = s.backoff
      /\ s'.late = late /\ s'.line = s.line
  <2>1. Null \in Selection
    BY DEF Selection
  <2> QED BY <1>1, <1>4, <1>5, <2>1 DEF SessionType
<1>7. ASSUME NEW c \in Clients
      PROVE  /\ cl'[c] \in ClientType /\ cl'[c].net = cl[c].net /\ cl'[c].step = cl[c].step
             /\ cl'[c].tls = cl[c].tls /\ cl'[c].selected = cl[c].selected
             /\ cl'[c].logout = IF c = s.client /\ cl[c].net = "open" THEN "queued"
                                ELSE cl[c].logout
  <2>1. cl'[c] = IF c = s.client /\ cl[c].net = "open"
                 THEN [cl[c] EXCEPT !.logout = "queued"] ELSE cl[c]
    BY <1>2
  <2>2. cl[c] \in ClientType
    BY <1>1
  <2>3. CASE c = s.client /\ cl[c].net = "open"
    <3>1. cl'[c] = [cl[c] EXCEPT !.logout = "queued"]
      BY <2>1, <2>3
    <3> QED BY <2>2, <2>3, <3>1 DEF ClientType
  <2>4. CASE ~(c = s.client /\ cl[c].net = "open")
    BY <2>1, <2>2, <2>4
  <2> QED BY <2>3, <2>4
<1>8. cl' \in [Clients -> ClientType]
  BY <1>2, <1>7
<1>9. Connections'
  <2>1. SessionSound(s', cl')
    BY <1>1, <1>5, <1>6 DEF Connections, SessionSound
  <2>2. ASSUME NEW c \in Clients
        PROVE  ClientSound(c, cl'[c], s')
    <3>1. ClientSound(c, cl[c], s) /\ c # 0
      BY <1>1 DEF Connections
    <3>2. c = s.dialing => c # s.client
      BY <1>1 DEF Connections, SessionSound
    <3> QED BY <3>1, <3>2, <1>6, <1>7 DEF ClientSound
  <2> QED BY <2>1, <2>2 DEF Connections
<1>10. Selections'
  <2>1. Agreed(s', cl')
    BY <1>6 DEF Agreed
  <2>2. \A d \in Clients : Known(cl'[d], server'.selected[d])
    BY <1>1, <1>2, <1>7 DEF Selections, Known
  <2> QED BY <2>1, <2>2 DEF Selections
<1>11. ASSUME NEW t \in Ops, Running(t)
       PROVE  RunsIn(op[t], s', cl', server')
  <2>1. RunsIn(op[t], s, cl, server)
    BY <1>1, <1>11 DEF Runs
  <2>2. RunSound(op[t], cl'[op[t].via], server'.selected[op[t].via])
    BY <2>1, <1>2, <1>7 DEF RunsIn, RunSound
  <2> QED BY <2>1, <2>2, <1>2, <1>6 DEF RunsIn, Elsewhere
<1>12. Runs'
  BY <1>2, <1>11 DEF Runs, Running
<1>13. Locked' /\ Calls' /\ server'.copies # {}
  BY <1>1, <1>2, <1>6 DEF Locked, First, Calls
<1> QED BY <1>1, <1>2, <1>6, <1>8, <1>9, <1>10, <1>12, <1>13 DEF Inv, Types

LEMMA SocketClosesStep ==
  ASSUME Inv, NEW c \in Clients, SocketCloses(c)
  PROVE  Inv'
<1> DEFINE k == IF s.client = c THEN [NewClient EXCEPT !.net = "gone"] ELSE NewClient
           v == IF s.client = c THEN [s EXCEPT !.current = Null] ELSE s
           hit == {t \in Ops : Running(t) /\ op[t].via = c /\ op[t].wire # "idle"}
<1>1. /\ s \in SessionType /\ Locked /\ Connections /\ Selections /\ Runs /\ Calls
      /\ server.copies # {} /\ Types /\ cl \in [Clients -> ClientType]
      /\ op \in [Ops -> OpType] /\ server \in ServerType /\ faults \in 0..MaxFaults
      /\ ClientSound(c, cl[c], s)
  BY DEF Inv, Types, Connections
<1>2. /\ cl[c].step = "ready" /\ cl' = [cl EXCEPT ![c] = k]
      /\ server' = [server EXCEPT !.selected[c] = Null]
      /\ IF hit = {} THEN s' = v /\ UNCHANGED op
         ELSE /\ op' = [t \in Ops |-> IF t \in hit THEN Ended(t, "failed") ELSE op[t]]
              /\ s' = [v EXCEPT !.line = Tail(v.line)]
      /\ \/ faults' = faults
         \/ faults < MaxFaults /\ faults' = faults + 1
  BY DEF SocketCloses, Fault
<1>3. c # s.dialing
  BY <1>1, <1>2 DEF ClientSound, Dialling
<1>4. /\ k \in ClientType /\ k.net \in {"none", "gone"} /\ k.step = "new" /\ k.logout = "no"
      /\ k.selected = Null
  BY DEF NewClient, ClientType, Steps, Selection
<1>5. /\ v \in SessionType /\ v.line = s.line /\ v.cfg = s.cfg /\ v.client = s.client
      /\ v.dialing = s.dialing /\ v.attempt = s.attempt /\ v.backoff = s.backoff
      /\ v.closed = s.closed /\ v.late = s.late
      /\ v.current = IF s.client = c THEN Null ELSE s.current
  BY <1>1 DEF SessionType, Selection
<1>6. /\ server' \in ServerType /\ server'.selected[c] = Null
      /\ server'.copies = server.copies /\ server'.appended = server.appended
      /\ \A d \in Clients : d # c => server'.selected[d] = server.selected[d]
  BY <1>1, <1>2 DEF ServerType, Selection
<1>7. faults' \in 0..MaxFaults
  BY <1>1, <1>2, ImapSessionConstants
<1> HIDE DEF k, v
<1>8. /\ cl' \in [Clients -> ClientType] /\ cl'[c] = k
      /\ \A d \in Clients : d # c => cl'[d] = cl[d]
  BY <1>1, <1>2, <1>4
<1>9. /\ s'.cfg = s.cfg /\ s'.client = s.client /\ s'.dialing = s.dialing
      /\ s'.attempt = s.attempt /\ s'.backoff = s.backoff /\ s'.closed = s.closed
      /\ s'.late = s.late /\ s'.current = v.current
  BY <1>2, <1>5 DEF SessionType
<1>10. s.client # 0 => s.client \in Clients
  BY <1>1, ImapSessionConstants DEF SessionType, Clients
<1>11. Connections'
  <2>1. SessionSound(s', cl')
    <3>1. (s.client # 0 /\ cl[s.client].net # "open") => cl'[s.client].net # "open"
      BY <1>4, <1>8, <1>10
    <3> QED BY <3>1, <1>1, <1>9 DEF Connections, SessionSound
  <2>2. ASSUME NEW d \in Clients
        PROVE  ClientSound(d, cl'[d], s')
    <3>1. CASE d = c
      BY <3>1, <1>3, <1>4, <1>8, <1>9 DEF ClientSound
    <3>2. CASE d # c
      BY <3>2, <1>1, <1>8, <1>9 DEF Connections, ClientSound
    <3> QED BY <3>1, <3>2
  <2> QED BY <2>1, <2>2 DEF Connections
<1>12. Selections'
  <2>1. Agreed(s', cl')
    BY <1>1, <1>4, <1>5, <1>8, <1>9, <1>10 DEF Selections, Agreed
  <2>2. \A d \in Clients : Known(cl'[d], server'.selected[d])
    BY <1>1, <1>4, <1>6, <1>8 DEF Selections, Known
  <2> QED BY <2>1, <2>2 DEF Selections
<1>13. CASE hit = {}
  <2>1. s' = v /\ op' = op
    BY <1>2, <1>13
  <2>2. ASSUME NEW t \in Ops, Running(t)
        PROVE  RunsIn(op[t], s', cl', server')
    <3>1. RunsIn(op[t], s, cl, server)
      BY <2>2, <1>1 DEF Runs
    <3>2. Elsewhere(op[t], s', cl')
      BY <3>1, <1>4, <1>8, <1>9, <1>10 DEF RunsIn, Elsewhere
    <3>3. RunSound(op[t], cl'[op[t].via], server'.selected[op[t].via])
      <4>1. CASE op[t].via = c
        BY <4>1, <3>1, <1>4, <1>8 DEF RunsIn, RunSound
      <4>2. CASE op[t].via # c
        BY <4>2, <3>1, <1>6, <1>8 DEF RunsIn, RunSound
      <4> QED BY <4>1, <4>2
    <3> QED BY <3>1, <3>2, <3>3, <1>6, <1>9 DEF RunsIn
  <2>3. Runs'
    BY <2>1, <2>2 DEF Runs, Running
  <2>4. Locked' /\ Calls' /\ server'.copies # {}
    BY <1>1, <1>5, <1>6, <2>1 DEF Locked, First, Calls
  <2> QED BY <1>1, <1>5, <1>6, <1>7, <1>8, <1>11, <1>12, <2>1, <2>3, <2>4 DEF Inv, Types
<1>14. CASE hit # {}
  <2>1. PICK t \in Ops : t \in hit
    BY <1>14
  <2>2. First(t)
    BY <1>1, <2>1 DEF Locked, Running
  <2>3. \A u \in Ops : u \in hit <=> u = t
    BY <1>1, <2>1, <2>2, OneGoesOn DEF Running
  <2>4. op' = [op EXCEPT ![t] = Ended(t, "failed")]
    BY <1>1, <1>2, <1>14, <2>3
  <2>5. s' = [v EXCEPT !.line = Tail(s.line)]
    BY <1>2, <1>5, <1>14
  <2> HIDE DEF hit
  <2> QED BY <1>5, <1>6, <1>7, <1>8, <1>11, <1>12, <2>2, <2>4, <2>5, SettleStep
<1> QED BY <1>13, <1>14

-----------------------------------------------------------------------------
(* The session keeps its invariant.                                        *)

LEMMA InitInv ==
  ASSUME Init
  PROVE  Inv
<1>1. /\ s.client = 0 /\ s.dialing = 0 /\ s.attempt = 0 /\ s.backoff = FALSE /\ s.current = Null
      /\ s.closed = FALSE /\ s.late = FALSE /\ s.line = <<>> /\ s.cfg \in Configs
      /\ op = [t \in Ops |-> NoCall] /\ cl = [c \in Clients |-> NewClient] /\ faults = 0
      /\ server = [selected |-> [c \in Clients |-> Null], copies |-> {CHOOSE b \in Boxes : TRUE},
                   deleted |-> {}, appended |-> [t \in Ops |-> 0]]
  BY DEF Init
<1>2. 0 \in 0..MaxClients /\ 0 \in 0..MaxProbes /\ 0 \in 0..MaxCalls /\ 0 \in 0..MaxFaults
      /\ <<>> \in Seq(Ops) /\ <<>> \in Seq(Commands) /\ 0 \in Nat
  BY ImapSessionConstants
<1>3. Null \in Selection
  BY DEF Selection
<1>4. s \in SessionType
  BY <1>2, <1>3 DEF Init, SessionType
<1>5. /\ NoCall \in OpType /\ NoCall.stage = "new" /\ NoCall.kind = "noop"
      /\ NoCall.wire = "idle"
  BY <1>2 DEF NoCall, OpType, Kinds, Stages
<1>6. /\ NewClient \in ClientType /\ NewClient.net = "none" /\ NewClient.step = "new"
      /\ NewClient.logout = "no" /\ NewClient.selected = Null
  BY <1>3 DEF NewClient, ClientType, Steps
<1>7. server \in ServerType /\ server.copies # {} /\ \A t \in Ops : server.appended[t] = 0
  <2>1. (CHOOSE b \in Boxes : TRUE) \in Boxes
    BY ImapSessionConstants
  <2> QED BY <1>1, <1>2, <1>3, <2>1 DEF ServerType
<1>8. /\ op \in [Ops -> OpType] /\ cl \in [Clients -> ClientType]
      /\ \A t \in Ops : op[t] = NoCall
      /\ \A c \in Clients : cl[c] = NewClient /\ c # 0
  BY <1>1, <1>5, <1>6, ImapSessionConstants DEF Clients
<1>9. Types
  BY <1>1, <1>2, <1>4, <1>7, <1>8 DEF Types
<1>10. Locked /\ Runs
  BY <1>5, <1>8 DEF Locked, Runs, Running
<1>11. Connections
  <2>1. s.cfg.retries \in Nat
    BY <1>4, CfgFacts
  <2>2. SessionSound(s, cl)
    BY <1>1, <2>1 DEF SessionSound
  <2>3. \A c \in Clients : ClientSound(c, cl[c], s)
    BY <1>1, <1>6, <1>8 DEF ClientSound
  <2> QED BY <2>2, <2>3 DEF Connections
<1>12. Selections
  BY <1>1, <1>6, <1>8 DEF Selections, Agreed, Known
<1>13. Calls
  BY <1>5, <1>7, <1>8 DEF Calls, CallSound
<1> QED BY <1>7, <1>9, <1>10, <1>11, <1>12, <1>13 DEF Inv

LEMMA InvStep ==
  ASSUME Inv, [Next]_vars
  PROVE  Inv'
<1>1. CASE \E t \in 1..Tasks, request \in s.cfg.calls : Call(t, request)
  BY <1>1, CallStep
<1>2. CASE KeepAlive
  BY <1>2, KeepAliveStep
<1>3. CASE Connect
  BY <1>3, ConnectStepSound
<1>4. CASE Close
  BY <1>4, CloseStep
<1>5. CASE BackoffEnds
  BY <1>5, BackoffEndsStep
<1>6. ASSUME NEW t \in Ops, Session(t) \/ Exchange(t) \/ TimesOut(t)
      PROVE  Inv'
  <2>1. CASE Session(t)
    BY <2>1, EnterStep, EnterClosedStep, EnterConnectingStep DEF Session
  <2>2. CASE Exchange(t)
    BY <2>2, SendStep, ServeStep, DoneStep, RefusedStep DEF Exchange
  <2>3. CASE TimesOut(t)
    BY <2>3, TimesOutStep
  <2> QED BY <1>6, <2>1, <2>2, <2>3
<1>7. ASSUME NEW c \in Clients, Attempt(c) \/ ConnectLost(c) \/ SocketCloses(c) \/ Leave(c)
      PROVE  Inv'
  <2>1. CASE Attempt(c)
    BY <2>1, ConnectStepStep, ConnectDoneStep, ConnectRefusedStep DEF Attempt
  <2>2. CASE ConnectLost(c)
    BY <2>2, ConnectLostStep
  <2>3. CASE SocketCloses(c)
    BY <2>3, SocketClosesStep
  <2>4. CASE Leave(c)
    BY <2>4, LogoutStep, LoggedOutStep DEF Leave
  <2> QED BY <1>7, <2>1, <2>2, <2>3, <2>4
<1>8. CASE UNCHANGED vars
  BY <1>8 DEF vars, Inv, Types, Locked, First, Connections, Selections, Runs, Running, Calls
<1> QED BY <1>1, <1>2, <1>3, <1>4, <1>5, <1>6, <1>7, <1>8 DEF Next

-----------------------------------------------------------------------------
(* What the session promises.                                              *)

LEMMA InvTyped ==
  ASSUME Inv
  PROVE  TypeOK
BY DEF Inv, Types, TypeOK, SessionType, OpType, Stages, ClientType, ServerType

LEMMA InvActs ==
  ASSUME Inv
  PROVE  ActsAsAsked
<1>1. OnItsMailbox
  <2> SUFFICES ASSUME NEW t \in Ops, Running(t), op[t].wire = "sent",
                      cl[op[t].via].net = "open"
               PROVE  LET at == server.selected[op[t].via]
                      IN  /\ Command(t) \in OnMessages => at # Null /\ at.box = op[t].box
                          /\ Command(t) \in {"store", "move", "delete", "expunge"} => ~at.ro
    BY DEF OnItsMailbox, OnMessages
  <2>1. /\ RunSound(op[t], cl[op[t].via], server.selected[op[t].via])
        /\ op[t].todo \in Plans(op[t].kind) /\ op[t].kind \in Kinds
    BY RunFacts DEF RunsIn
  <2>2. /\ Command(t) = Head(op[t].todo)
        /\ Command(t) \in {"store", "move", "delete", "expunge"} =>
             Command(t) \in OnMessages /\ op[t].kind \in {"write", "move"}
    BY <2>1, PlanFacts DEF Command, OnMessages
  <2> QED BY <2>1, <2>2 DEF RunSound
<1>2. NothingLostOrRepeated
  <2>1. \A t \in 1..Tasks : t \in Ops
    BY ImapSessionConstants DEF Ops
  <2>2. \A t \in Ops : CallSound(t, op[t], server.appended[t])
    BY DEF Inv, Calls
  <2>3. \A t \in 1..Tasks :
          /\ server.appended[t] <= 1
          /\ op[t].kind = "append" /\ op[t].stage = "ok" => server.appended[t] = 1
    BY <2>1, <2>2 DEF CallSound
  <2> QED BY <2>3 DEF NothingLostOrRepeated, Inv
<1> QED BY <1>1, <1>2 DEF ActsAsAsked

LEMMA InvKept ==
  ASSUME Inv
  PROVE  ConnectionKept
<1>1. SessionSound(s, cl) /\ \A c \in Clients : ClientSound(c, cl[c], s)
  BY DEF Inv, Connections
<1>2. LoginEncrypted
  BY <1>1 DEF LoginEncrypted, ClientSound
<1>3. OneConnection
  <2>1. \A c \in Clients : c # 0
    BY ImapSessionConstants DEF Clients
  <2>2. s.closed \in BOOLEAN /\ s.late \in BOOLEAN
    BY DEF Inv, Types, SessionType
  <2> QED BY <1>1, <2>1, <2>2 DEF OneConnection, ClientSound, SessionSound
<1>4. TriedWithinLimit
  BY <1>1 DEF TriedWithinLimit, SessionSound
<1> QED BY <1>2, <1>3, <1>4, InvTyped DEF ConnectionKept

THEOREM InvAlways == Spec => []Inv
BY InitInv, InvStep, PTL DEF Spec

\* Whatever other calls, reconnects, timeouts, refusals and closes come between, a command
\* reaches the server while its own mailbox is selected, and read-write if it changes
\* messages; a move loses no message and an APPEND is carried out once, or reported as failed:
\* locked(), withMailbox(), withWritable() and move().
THEOREM CommandsActAsAsked == Spec => []ActsAsAsked
BY InvAlways, InvActs, PTL

\* A session logs in over TLS only where it insists on it, keeps one connection besides those
\* that log out, none after close(), and tries again as often as it may: ensureClient(),
\* ImapClient.connect() and close().
THEOREM OneConnectionKept == Spec => []ConnectionKept
BY InvAlways, InvKept, PTL

-----------------------------------------------------------------------------
(* The invariant of the watcher.                                           *)

Watcher ==
  [idle : Idles, stopped : BOOLEAN, client : {0} \cup Watch!Conns, stopIdle : {0} \cup Watch!Conns,
   connecting : {0} \cup Watch!Conns, checking : {0} \cup Watch!Conns, recheck : BOOLEAN,
   uidNext : 0..MaxMail + 1, box : 0..MaxMailboxes, since : 0..MaxMail + 1,
   stop : {"no", "idle", "close", "done"}, closing : {0} \cup Watch!Conns]
OpenCall == [at : {"off", "sleep", "opening"}, via : {0} \cup Watch!Conns]
Connection == [at : {"none", "dial", "login", "closing", "examine", "examined", "open"},
               queue : Seq(Watch!Commands), head : {"wait", "served", "idling", "done"},
               poll : BOOLEAN, ended : BOOLEAN, told : 0..MaxMail + 1, seen : 0..MaxMail + 1]

Used(ks) == {c \in Watch!Conns : ks[c].at # "none"}
Asleep(ls) == {l \in Watch!Loops : ls[l].at = "sleep"}

\* The watch has a mailbox, and its start a UID, before anything is searched.
WatchKnown(v, ks) ==
  /\ v.box = 0 => v.uidNext = 0 /\ v.since = 0
  /\ v.box # 0 => 1 <= v.since /\ v.since <= v.uidNext
  /\ v.client # 0 => v.box # 0
  /\ \A c \in Watch!Conns :
       /\ ks[c].at = "open" \/ "search" \in Watch!ToSet(ks[c].queue) => v.box # 0
       /\ ks[c].at = "examined" => 1 <= ks[c].seen

\* Only a watcher that was stopped logs out.
Stops(v, ks) ==
  /\ v.stop # "no" => v.stopped
  /\ v.closing # 0 => v.stop # "no"
  /\ \A c \in Watch!Conns : "logout" \in Watch!ToSet(ks[c].queue) => v.stopped

\* A call of open() has a connection of its own.
WatchOpens(ls, ks) ==
  /\ ls[0].at # "sleep"
  /\ \A l \in Watch!Loops : /\ ls[l].at = "opening" <=> ls[l].via # 0
                            /\ ls[l].via # 0 => ks[ls[l].via].at # "none"
                            /\ \A m \in Watch!Loops \ {l} : ls[l].via # 0 => ls[m].via # ls[l].via

\* Each connection and each call that sleeps, but for one, has cost a fault.
Few(v, ls, ks, f) ==
  /\ \A l \in Watch!Loops \ {0} : ls[l].at # "off" => l <= f /\ v.box # 0
  /\ Cardinality(Used(ks)) + Cardinality(Asleep(ls)) <= f + 1

WatchTypes(v, ls, ks, f) ==
  /\ v \in Watcher /\ ls \in [Watch!Loops -> OpenCall] /\ ks \in [Watch!Conns -> Connection]
  /\ f \in 0..MaxDrops

Good(v, ls, ks, f) ==
  /\ WatchTypes(v, ls, ks, f) /\ WatchKnown(v, ks) /\ Stops(v, ks) /\ WatchOpens(ls, ks)
  /\ Few(v, ls, ks, f)

Counted(v, r) ==
  \A u \in Watch!Uids : r[u] = IF v.since <= u /\ u < v.uidNext THEN 1 ELSE 0

WatchInv ==
  /\ Good(w, loops, conn, drops)
  /\ mail \in [next : 1..MaxMail + 1, box : Watch!Boxes]
  /\ reported \in [Watch!Uids -> Nat] /\ Counted(w, reported)
  /\ missed \in BOOLEAN

\* What an operation may do to the watcher and its connections; none is opened
\* or lost, and searches are queued by one that has a client.
Follows(v, ks, u, kt) ==
  /\ u \in Watcher /\ kt \in [Watch!Conns -> Connection]
  /\ v.stopped => u.stopped
  /\ u.stop # "no" => u.stopped
  /\ u.closing # 0 => u.stop # "no"
  /\ u.client # 0 => v.client # 0
  /\ u.box = v.box /\ u.since = v.since
  /\ v.uidNext <= u.uidNext /\ (v.box = 0 => u.uidNext = v.uidNext)
  /\ \A c \in Watch!Conns :
       /\ kt[c].at = "none" <=> ks[c].at = "none"
       /\ kt[c].at = "open" => ks[c].at = "open"
       /\ kt[c].at = "examined" => 1 <= kt[c].seen
       /\ "search" \in Watch!ToSet(kt[c].queue) => "search" \in Watch!ToSet(ks[c].queue) \/ v.client # 0
       /\ "logout" \in Watch!ToSet(kt[c].queue) => "logout" \in Watch!ToSet(ks[c].queue) \/ u.stopped

-----------------------------------------------------------------------------
(* Sets of numbers.                                                        *)

LEMMA LeastMember ==
  ASSUME NEW n \in Nat, NEW A \in SUBSET (0..n), A # {}
  PROVE  \E m \in A : \A i \in 0..(m - 1) : i \notin A
<1> DEFINE D == 0..n
           T == {0..m : m \in A}
<1>1. IsFiniteSet(D)
  <2>1. 0 \in Int /\ n \in Int
    OBVIOUS
  <2> QED
    BY <2>1, FS_Interval
<1>2. IsWellFoundedOn(StrictSubsetOrdering(D), SUBSET D)
  BY <1>1, FS_StrictSubsetOrderingWellFounded, FS_FiniteSubsetsOfFinite
<1>3. T \subseteq SUBSET D /\ T # {}
  <2>1. \A m \in A : 0..m \subseteq D
    OBVIOUS
  <2> QED
    BY <2>1
<1> HIDE DEF T, D
<1>4. PICK I \in T : \A J \in T : <<J, I>> \notin StrictSubsetOrdering(D)
  BY <1>2, <1>3, WFMin
<1>5. PICK m \in A : I = 0..m
  BY DEF T
<1> SUFFICES ASSUME NEW i \in 0..(m - 1), i \in A PROVE FALSE
  OBVIOUS
<1>6. 0..i \in T /\ 0..i \subseteq 0..m /\ 0..i # 0..m
  BY DEF T, D
<1>7. <<0..i, I>> \in StrictSubsetOrdering(D)
  BY <1>3, <1>5, <1>6 DEF StrictSubsetOrdering
<1> QED
  BY <1>4, <1>6, <1>7

LEMMA Bounds ==
  /\ MaxMail \in Nat /\ MaxDrops \in Nat /\ MaxMailboxes \in Nat \ {0}
  /\ Watch!Conns = 1..MaxDrops + 2 /\ Watch!Loops = 0..MaxDrops + 1 /\ 0 \notin Watch!Conns
  /\ 0 \in Watch!Loops
  /\ IsFiniteSet(Watch!Conns) /\ Cardinality(Watch!Conns) = MaxDrops + 2 /\ IsFiniteSet(Watch!Loops)
<1>1. MaxMail \in Nat /\ MaxDrops \in Nat /\ MaxMailboxes \in Nat \ {0}
  BY WatchConstantsFit DEF Watch!ConstantsFit
<1>2. 1 \in Int /\ 0 \in Int /\ MaxDrops + 2 \in Int /\ MaxDrops + 1 \in Int
  BY <1>1
<1>3. IsFiniteSet(1..MaxDrops + 2) /\ Cardinality(1..MaxDrops + 2) = MaxDrops + 2
  BY <1>1, <1>2, FS_Interval
<1>4. IsFiniteSet(0..MaxDrops + 1)
  BY <1>1, <1>2, FS_Interval
<1> QED
  BY <1>1, <1>3, <1>4 DEF Watch!Conns, Watch!Loops

\* The sets that are counted.
LEMMA Counts ==
  ASSUME NEW ls, NEW ks
  PROVE  /\ IsFiniteSet(Used(ks)) /\ Cardinality(Used(ks)) \in Nat
         /\ IsFiniteSet(Asleep(ls)) /\ Cardinality(Asleep(ls)) \in Nat
<1>1. Used(ks) \subseteq Watch!Conns /\ Asleep(ls) \subseteq Watch!Loops
  BY DEF Used, Asleep
<1> QED
  BY <1>1, Bounds, FS_Subset, FS_CardinalityType

\* Fewer calls sleep.
LEMMA SleepFewer ==
  ASSUME NEW ls, NEW lt, Asleep(lt) \subseteq Asleep(ls)
  PROVE  Cardinality(Asleep(lt)) <= Cardinality(Asleep(ls))
BY Counts, FS_Subset

-----------------------------------------------------------------------------
(* The queue of a connection.                                              *)

LEMMA ConnectionFields ==
  ASSUME NEW k \in Connection
  PROVE  /\ k.queue \in Seq(Watch!Commands) /\ k.head \in {"wait", "served", "idling", "done"}
         /\ k.at \in {"none", "dial", "login", "closing", "examine", "examined", "open"}
         /\ k.poll \in BOOLEAN /\ k.ended \in BOOLEAN
         /\ k.told \in 0..MaxMail + 1 /\ k.seen \in 0..MaxMail + 1
BY DEF Connection

LEMMA NoConnFields ==
  /\ Watch!NoConn \in Connection /\ Watch!NoConn.at = "none" /\ Watch!ToSet(Watch!NoConn.queue) = {}
BY Bounds DEF Watch!NoConn, Connection, Watch!ToSet, Watch!Commands

LEMMA QueuedFields ==
  ASSUME NEW k \in Connection, NEW command \in Watch!Commands
  PROVE  LET q == Watch!Queued(k, command)
         IN  /\ q \in Connection /\ q.at = k.at /\ q.seen = k.seen
             /\ Watch!ToSet(q.queue) = Watch!ToSet(k.queue) \cup {command}
<1> DEFINE q == Watch!Queued(k, command)
           l == Append(k.queue, command)
<1>1. k.queue \in Seq(Watch!Commands)
  BY ConnectionFields
<1>2. /\ l \in Seq(Watch!Commands) /\ DOMAIN l = 1..(Len(k.queue) + 1)
      /\ l[Len(k.queue) + 1] = command /\ DOMAIN k.queue = 1..Len(k.queue)
      /\ Len(k.queue) \in Nat
      /\ \A i \in 1..Len(k.queue) : l[i] = k.queue[i]
  BY <1>1
<1> HIDE DEF l
<1>3. Watch!ToSet(l) = Watch!ToSet(k.queue) \cup {command}
  BY <1>2 DEF Watch!ToSet
<1>4. q.queue = l /\ q.at = k.at /\ q.seen = k.seen
  BY DEF Watch!Queued, Connection, l
<1>5. q \in Connection
  BY <1>2 DEF Watch!Queued, Connection, l
<1> QED
  BY <1>3, <1>4, <1>5

LEMMA PoppedFields ==
  ASSUME NEW k \in Connection, k.queue # <<>>
  PROVE  LET q == Watch!Popped(k)
         IN  /\ q \in Connection /\ q.at = k.at /\ q.seen = k.seen
             /\ Watch!ToSet(q.queue) \subseteq Watch!ToSet(k.queue)
<1> DEFINE q == Watch!Popped(k)
           rest == Tail(k.queue)
           turns == {i \in DOMAIN rest : rest[i] = "idle"}
           at == CHOOSE i \in turns : TRUE
           l == IF k.ended /\ turns # {} THEN Watch!RemoveAt(rest, at) ELSE rest
<1>1. k.queue \in Seq(Watch!Commands)
  BY ConnectionFields
<1>2. /\ rest \in Seq(Watch!Commands) /\ Len(rest) \in Nat /\ DOMAIN rest = 1..Len(rest)
      /\ Watch!ToSet(rest) \subseteq Watch!ToSet(k.queue)
  <2>1. /\ rest \in Seq(Watch!Commands) /\ Len(rest) = Len(k.queue) - 1
        /\ \A i \in 1..Len(rest) : rest[i] = k.queue[i + 1]
    BY <1>1, HeadTailProperties
  <2> HIDE DEF rest
  <2>2. Len(rest) \in Nat /\ DOMAIN rest = 1..Len(rest) /\ DOMAIN k.queue = 1..(Len(rest) + 1)
    BY <1>1, <2>1
  <2> QED
    BY <2>1, <2>2 DEF Watch!ToSet
<1>3. l \in Seq(Watch!Commands) /\ Watch!ToSet(l) \subseteq Watch!ToSet(rest)
  <2>1. CASE ~(k.ended /\ turns # {})
    BY <1>2, <2>1
  <2>2. CASE k.ended /\ turns # {}
    <3> DEFINE a == SubSeq(rest, 1, at - 1)
               b == SubSeq(rest, at + 1, Len(rest))
    <3>1. at \in 1..Len(rest) /\ l = a \o b
      BY <1>2, <2>2 DEF Watch!RemoveAt
    <3> HIDE DEF at, rest, l
    <3>2. \A i \in 1..(at - 1) : rest[i] \in Watch!ToSet(rest)
      BY <1>2, <3>1 DEF Watch!ToSet
    <3>3. \A i \in (at + 1)..Len(rest) : rest[i] \in Watch!ToSet(rest)
      BY <1>2, <3>1 DEF Watch!ToSet
    <3>4. 1 \in Int /\ at - 1 \in Int /\ at + 1 \in Int /\ Len(rest) \in Int
      BY <1>2, <3>1
    <3>5. a \in Seq(Watch!ToSet(rest))
      BY <3>2, <3>4, SubSeqProperties
    <3>6. b \in Seq(Watch!ToSet(rest))
      BY <3>3, <3>4, SubSeqProperties
    <3> HIDE DEF a, b
    <3>7. l \in Seq(Watch!ToSet(rest))
      BY <3>1, <3>5, <3>6, ConcatProperties
    <3>8. Watch!ToSet(l) \subseteq Watch!ToSet(rest)
      BY <3>7 DEF Watch!ToSet
    <3>9. Watch!ToSet(rest) \subseteq Watch!Commands
      BY <1>2 DEF Watch!ToSet
    <3>10. l \in Seq(Watch!Commands)
      BY <3>7, <3>9
    <3> QED
      BY <3>8, <3>10
  <2> QED
    BY <2>1, <2>2
<1>4. q.queue = l /\ q.at = k.at /\ q.seen = k.seen
  BY DEF Watch!Popped, Connection
<1> HIDE DEF l
<1>5. q = [k EXCEPT !.head = "wait", !.queue = l]
  BY DEF Watch!Popped, l
<1>6. q \in Connection
  BY <1>3, <1>5 DEF Connection
<1> QED
  BY <1>2, <1>3, <1>4, <1>6

-----------------------------------------------------------------------------
(* The operations keep Good.                                               *)

LEMMA WatcherFields ==
  ASSUME NEW v \in Watcher
  PROVE  /\ v.idle \in Idles /\ v.stopped \in BOOLEAN /\ v.recheck \in BOOLEAN
         /\ v.client \in {0} \cup Watch!Conns /\ v.stopIdle \in {0} \cup Watch!Conns
         /\ v.connecting \in {0} \cup Watch!Conns /\ v.checking \in {0} \cup Watch!Conns
         /\ v.closing \in {0} \cup Watch!Conns
         /\ v.uidNext \in 0..MaxMail + 1 /\ v.since \in 0..MaxMail + 1
         /\ v.box \in 0..MaxMailboxes /\ v.stop \in {"no", "idle", "close", "done"}
BY DEF Watcher

LEMMA OpenCallFields ==
  ASSUME NEW k \in OpenCall
  PROVE  k.at \in {"off", "sleep", "opening"} /\ k.via \in {0} \cup Watch!Conns
BY DEF OpenCall

LEMMA Numbers ==
  ASSUME NEW v \in Watcher
  PROVE  v.uidNext \in Nat /\ v.since \in Nat /\ v.box \in Nat
BY Bounds, WatcherFields

LEMMA Kept ==
  ASSUME NEW v, NEW ls, NEW ks, NEW f, Good(v, ls, ks, f),
         NEW u, NEW kt, Follows(v, ks, u, kt)
  PROVE  Good(u, ls, kt, f)
<1>1. /\ WatchTypes(v, ls, ks, f) /\ WatchKnown(v, ks) /\ Stops(v, ks) /\ WatchOpens(ls, ks)
      /\ Few(v, ls, ks, f)
  BY DEF Good
<1>2. WatchTypes(u, ls, kt, f)
  BY <1>1 DEF WatchTypes, Follows
<1>3. WatchKnown(u, kt)
  <2>1. v \in Watcher /\ u \in Watcher
    BY <1>1, <1>2 DEF WatchTypes
  <2>2. /\ v.uidNext \in Nat /\ u.uidNext \in Nat /\ v.since \in Nat
        /\ u.box = v.box /\ u.since = v.since /\ v.uidNext <= u.uidNext
        /\ v.box = 0 => u.uidNext = v.uidNext
    BY <2>1, Numbers DEF Follows
  <2>3. /\ u.box = 0 => u.uidNext = 0 /\ u.since = 0
        /\ u.box # 0 => 1 <= u.since /\ u.since <= u.uidNext
    BY <1>1, <2>2 DEF WatchKnown
  <2>4. u.client # 0 => u.box # 0
    BY <1>1 DEF WatchKnown, Follows
  <2>5. ASSUME NEW c \in Watch!Conns
        PROVE  /\ kt[c].at = "open" \/ "search" \in Watch!ToSet(kt[c].queue) => u.box # 0
               /\ kt[c].at = "examined" => 1 <= kt[c].seen
    BY <1>1 DEF WatchKnown, Follows
  <2> QED
    BY <2>3, <2>4, <2>5 DEF WatchKnown
<1>4. Stops(u, kt)
  BY <1>1 DEF Stops, Follows
<1>5. WatchOpens(ls, kt)
  <2>1. \A l \in Watch!Loops : ls[l].via \in {0} \cup Watch!Conns
    BY <1>1, OpenCallFields DEF WatchTypes
  <2> QED
    BY <1>1, <2>1 DEF WatchOpens, Follows
<1>6. Few(u, ls, kt, f)
  <2>1. Used(kt) = Used(ks)
    BY DEF Used, Follows
  <2> QED
    BY <1>1, <2>1 DEF Few, Follows
<1> QED
  BY <1>2, <1>3, <1>4, <1>5, <1>6 DEF Good

LEMMA FollowsSelf ==
  ASSUME NEW v, NEW ls, NEW ks, NEW f, Good(v, ls, ks, f)
  PROVE  Follows(v, ks, v, ks)
<1>1. WatchTypes(v, ls, ks, f) /\ WatchKnown(v, ks) /\ Stops(v, ks)
  BY DEF Good
<1>2. v.uidNext \in Nat /\ v \in Watcher /\ ks \in [Watch!Conns -> Connection]
  BY <1>1, Numbers DEF WatchTypes
<1>3. v.uidNext <= v.uidNext
  BY <1>2
<1> QED
  BY <1>1, <1>2, <1>3 DEF Follows, WatchKnown, Stops

\* A connection goes on.
LEMMA WatchConnectionKept ==
  ASSUME NEW v, NEW ls, NEW ks, NEW f, Good(v, ls, ks, f), NEW c \in Watch!Conns, NEW k \in Connection,
         k.at = "none" <=> ks[c].at = "none",
         k.at = "open" => ks[c].at = "open",
         k.at = "examined" => 1 <= k.seen,
         "search" \in Watch!ToSet(k.queue) => "search" \in Watch!ToSet(ks[c].queue) \/ v.client # 0,
         "logout" \in Watch!ToSet(k.queue) => "logout" \in Watch!ToSet(ks[c].queue) \/ v.stopped
  PROVE  Follows(v, ks, v, [ks EXCEPT ![c] = k]) /\ Good(v, ls, [ks EXCEPT ![c] = k], f)
<1> DEFINE kt == [ks EXCEPT ![c] = k]
<1>1. Follows(v, ks, v, ks)
  BY FollowsSelf
<1>2. ks \in [Watch!Conns -> Connection]
  BY DEF Good, WatchTypes
<1>3. kt \in [Watch!Conns -> Connection] /\ kt[c] = k /\ \A d \in Watch!Conns \ {c} : kt[d] = ks[d]
  BY <1>2
<1> HIDE DEF kt
<1>4. Follows(v, ks, v, kt)
  BY <1>1, <1>3 DEF Follows
<1>5. Good(v, ls, kt, f)
  BY <1>4, Kept
<1> QED
  BY <1>4, <1>5 DEF kt

\* checkNew(), when it searches.
LEMMA SearchKept ==
  ASSUME NEW v, NEW ls, NEW ks, NEW f, Good(v, ls, ks, f), v.client # 0
  PROVE  LET u == [v EXCEPT !.checking = v.client]
             kt == [ks EXCEPT ![v.client] = Watch!Queued(@, "search")]
         IN  /\ Good(u, ls, kt, f) /\ u.uidNext = v.uidNext /\ u.since = v.since
             /\ u.stopped = v.stopped
             /\ u.box = v.box
<1> DEFINE u == [v EXCEPT !.checking = v.client]
           kt == [ks EXCEPT ![v.client] = Watch!Queued(@, "search")]
<1>1. v \in Watcher /\ ks \in [Watch!Conns -> Connection] /\ v.client \in Watch!Conns
  BY WatcherFields DEF Good, WatchTypes
<1>2. /\ u \in Watcher /\ u.stopped = v.stopped /\ u.stop = v.stop /\ u.closing = v.closing
      /\ u.client = v.client /\ u.box = v.box /\ u.since = v.since /\ u.uidNext = v.uidNext
  BY <1>1 DEF Watcher
<1> DEFINE k == Watch!Queued(ks[v.client], "search")
<1>3. /\ k \in Connection /\ k.at = ks[v.client].at /\ k.seen = ks[v.client].seen
      /\ Watch!ToSet(k.queue) = Watch!ToSet(ks[v.client].queue) \cup {"search"}
  BY <1>1, QueuedFields DEF Watch!Commands
<1>4. kt = [ks EXCEPT ![v.client] = k]
  BY <1>1
<1>5. ks[v.client].at = "examined" => 1 <= ks[v.client].seen
  BY <1>1 DEF Good, WatchKnown
<1> HIDE DEF k, kt
<1>6. "logout" \in Watch!ToSet(k.queue) => "logout" \in Watch!ToSet(ks[v.client].queue)
  BY <1>3
<1>7. Good(v, ls, kt, f)
  BY <1>1, <1>3, <1>4, <1>5, <1>6, WatchConnectionKept
<1>8. Follows(v, kt, v, kt)
  BY <1>7, FollowsSelf
<1>9. Follows(v, kt, u, kt)
  BY <1>2, <1>8 DEF Follows
<1>10. Good(u, ls, kt, f)
  BY <1>7, <1>9, Kept
<1> QED
  BY <1>2, <1>10 DEF kt

LEMMA ScheduleKept ==
  ASSUME NEW v, NEW ls, NEW ks, NEW f, Good(v, ls, ks, f)
  PROVE  LET r == Watch!ScheduleCheck(v, ks)
         IN  /\ Good(r.v, ls, r.ks, f)
             /\ r.v.uidNext = v.uidNext /\ r.v.since = v.since /\ r.v.stopped = v.stopped
             /\ r.v.box = v.box
<1> DEFINE r == Watch!ScheduleCheck(v, ks)
<1>1. v \in Watcher /\ Follows(v, ks, v, ks)
  BY FollowsSelf DEF Good, WatchTypes
<1>2. CASE v.checking # 0
  <2> DEFINE u == [v EXCEPT !.recheck = TRUE]
  <2>1. r.v = u /\ r.ks = ks
    BY <1>2 DEF Watch!ScheduleCheck
  <2>2. /\ u \in Watcher /\ u.stopped = v.stopped /\ u.stop = v.stop /\ u.closing = v.closing
        /\ u.client = v.client /\ u.box = v.box /\ u.since = v.since /\ u.uidNext = v.uidNext
    BY <1>1 DEF Watcher
  <2>3. Follows(v, ks, u, ks)
    BY <1>1, <2>2 DEF Follows
  <2>4. Good(u, ls, ks, f)
    BY <2>3, Kept
  <2> QED
    BY <2>1, <2>2, <2>4
<1>3. CASE v.checking = 0 /\ ~Watch!CheckWanted(v)
  BY <1>3 DEF Watch!ScheduleCheck
<1>4. CASE v.checking = 0 /\ Watch!CheckWanted(v)
  <2>1. v.client # 0
    BY <1>4 DEF Watch!CheckWanted
  <2>2. /\ r.v = [v EXCEPT !.checking = v.client]
        /\ r.ks = [ks EXCEPT ![v.client] = Watch!Queued(@, "search")]
    BY <1>4 DEF Watch!ScheduleCheck
  <2> QED
    BY <2>1, <2>2, SearchKept
<1> QED
  BY <1>2, <1>3, <1>4

LEMMA CheckOverKept ==
  ASSUME NEW v, NEW ls, NEW ks, NEW f, Good(v, ls, ks, f)
  PROVE  LET r == Watch!CheckOver(v, ks)
         IN  /\ Good(r.v, ls, r.ks, f)
             /\ r.v.uidNext = v.uidNext /\ r.v.since = v.since /\ r.v.stopped = v.stopped
             /\ r.v.box = v.box
<1> DEFINE r == Watch!CheckOver(v, ks)
           u == [v EXCEPT !.checking = 0]
           x == [u EXCEPT !.recheck = FALSE]
<1>1. v \in Watcher /\ Follows(v, ks, v, ks)
  BY FollowsSelf DEF Good, WatchTypes
<1>2. /\ u \in Watcher /\ u.stopped = v.stopped /\ u.stop = v.stop /\ u.closing = v.closing
      /\ u.client = v.client /\ u.box = v.box /\ u.since = v.since /\ u.uidNext = v.uidNext
  BY <1>1 DEF Watcher
<1>3. /\ x \in Watcher /\ x.stopped = v.stopped /\ x.stop = v.stop /\ x.closing = v.closing
      /\ x.client = v.client /\ x.box = v.box /\ x.since = v.since /\ x.uidNext = v.uidNext
  BY <1>1 DEF Watcher
<1>4. CASE u.recheck /\ ~u.stopped
  <2>1. r = Watch!ScheduleCheck(x, ks)
    BY <1>4 DEF Watch!CheckOver
  <2> HIDE DEF x
  <2>2. Follows(v, ks, x, ks)
    BY <1>1, <1>3 DEF Follows
  <2>3. Good(x, ls, ks, f)
    BY <2>2, Kept
  <2> QED
    BY <1>3, <2>1, <2>3, ScheduleKept
<1>5. CASE ~(u.recheck /\ ~u.stopped)
  <2>1. r.v = u /\ r.ks = ks
    BY <1>5 DEF Watch!CheckOver
  <2> HIDE DEF u
  <2>2. Follows(v, ks, u, ks)
    BY <1>1, <1>2 DEF Follows
  <2>3. Good(u, ls, ks, f)
    BY <2>2, Kept
  <2> QED
    BY <1>2, <2>1, <2>3
<1> QED
  BY <1>4, <1>5

\* Some calls of open() return, or their turn passes.
LEMMA FewerCalls ==
  ASSUME NEW v, NEW ls, NEW ks, NEW f, Good(v, ls, ks, f), NEW lt,
         lt \in [Watch!Loops -> OpenCall],
         \A l \in Watch!Loops : lt[l] = ls[l] \/ lt[l] = [at |-> "off", via |-> 0]
  PROVE  Good(v, lt, ks, f)
<1>1. /\ WatchTypes(v, ls, ks, f) /\ WatchKnown(v, ks) /\ Stops(v, ks) /\ WatchOpens(ls, ks)
      /\ Few(v, ls, ks, f)
  BY DEF Good
<1>2. WatchTypes(v, lt, ks, f)
  BY <1>1 DEF WatchTypes
<1>3. WatchOpens(lt, ks)
  BY <1>1, Bounds DEF WatchOpens
<1>4. Few(v, lt, ks, f)
  <2>1. Cardinality(Asleep(lt)) <= Cardinality(Asleep(ls))
    <3>1. Asleep(lt) \subseteq Asleep(ls)
      BY DEF Asleep
    <3> QED
      BY <3>1, SleepFewer
  <2>2. f \in Nat
    BY <1>1, Bounds DEF WatchTypes
  <2>3. Cardinality(Used(ks)) + Cardinality(Asleep(lt)) <= f + 1
    BY <1>1, <2>1, <2>2, Counts DEF Few
  <2> QED
    BY <1>1, <2>3 DEF Few
<1> QED
  BY <1>1, <1>2, <1>3, <1>4 DEF Good

LEMMA ReturningKept ==
  ASSUME NEW v, NEW ls, NEW ks, NEW f, Good(v, ls, ks, f), NEW c \in Watch!Conns
  PROVE  Good(v, Watch!Returning(ls, c), ks, f)
<1> DEFINE lt == Watch!Returning(ls, c)
<1>1. ls \in [Watch!Loops -> OpenCall]
  BY DEF Good, WatchTypes
<1>2. [at |-> "off", via |-> 0] \in OpenCall
  BY DEF OpenCall
<1>3. \A l \in Watch!Loops : lt[l] = ls[l] \/ lt[l] = [at |-> "off", via |-> 0]
  BY DEF Watch!Returning
<1>4. lt \in [Watch!Loops -> OpenCall]
  BY <1>1, <1>2 DEF Watch!Returning
<1> HIDE DEF lt
<1>5. Good(v, lt, ks, f)
  BY <1>3, <1>4, FewerCalls
<1> QED
  BY <1>5 DEF lt


-----------------------------------------------------------------------------
(* Connections come and go.                                                *)

LEMMA Added ==
  ASSUME NEW S, IsFiniteSet(S), NEW x
  PROVE  /\ IsFiniteSet(S \cup {x}) /\ Cardinality(S \cup {x}) \in Nat
         /\ Cardinality(S \cup {x}) <= Cardinality(S) + 1
<1>1. IsFiniteSet(S \cup {x})
      /\ Cardinality(S \cup {x}) = IF x \in S THEN Cardinality(S) ELSE Cardinality(S) + 1
  BY FS_AddElement
<1>2. Cardinality(S) \in Nat
  BY FS_CardinalityType
<1> QED
  BY <1>1, <1>2

\* Connection c is gone; a call of open() that had it sleeps or returns.
LEMMA Gone ==
  ASSUME NEW v, NEW ls, NEW ks, NEW f, Good(v, ls, ks, f), NEW c \in Watch!Conns,
         NEW lt \in [Watch!Loops -> OpenCall],
         \A l \in Watch!Loops : /\ ls[l].via # c => lt[l] = ls[l]
                                /\ ls[l].via = c => lt[l].via = 0 /\ lt[l].at # "opening"
                                /\ ls[l].via = c /\ l = 0 => lt[l].at # "sleep"
  PROVE  Good(v, lt, [ks EXCEPT ![c] = Watch!NoConn], f)
<1> DEFINE kt == [ks EXCEPT ![c] = Watch!NoConn]
<1>1. /\ WatchTypes(v, ls, ks, f) /\ WatchKnown(v, ks) /\ Stops(v, ks) /\ WatchOpens(ls, ks)
      /\ Few(v, ls, ks, f)
  BY DEF Good
<1>2. kt \in [Watch!Conns -> Connection] /\ kt[c] = Watch!NoConn /\ \A d \in Watch!Conns \ {c} : kt[d] = ks[d]
  BY <1>1, NoConnFields DEF WatchTypes
<1> HIDE DEF kt
<1>3. WatchTypes(v, lt, kt, f)
  BY <1>1, <1>2 DEF WatchTypes
<1>4. WatchKnown(v, kt) /\ Stops(v, kt)
  <2>1. /\ kt[c].at = "none" /\ Watch!ToSet(kt[c].queue) = {}
        /\ \A d \in Watch!Conns \ {c} : kt[d] = ks[d]
    BY <1>2, NoConnFields
  <2> QED
    BY <1>1, <2>1 DEF WatchKnown, Stops
<1>5. WatchOpens(lt, kt)
  <2>1. \A l \in Watch!Loops : ls[l].via \in {0} \cup Watch!Conns
    BY <1>1, OpenCallFields DEF WatchTypes
  <2>2. lt[0].at # "sleep"
    BY <1>1, Bounds DEF WatchOpens
  <2>3. \A l \in Watch!Loops : lt[l].via # 0 => lt[l] = ls[l] /\ ls[l].via # c
    OBVIOUS
  <2>4. ASSUME NEW l \in Watch!Loops
        PROVE  /\ lt[l].at = "opening" <=> lt[l].via # 0
               /\ lt[l].via # 0 => kt[lt[l].via].at # "none"
               /\ \A m \in Watch!Loops \ {l} : lt[l].via # 0 => lt[m].via # lt[l].via
    BY <1>1, <1>2, <2>1, <2>3 DEF WatchOpens
  <2> QED
    BY <2>2, <2>4 DEF WatchOpens
<1>6. Few(v, lt, kt, f)
  <2>1. \A l \in Watch!Loops \ {0} : lt[l].at # "off" => l <= f /\ v.box # 0
    <3> SUFFICES ASSUME NEW l \in Watch!Loops \ {0}, lt[l].at # "off" PROVE ls[l].at # "off"
      BY <1>1 DEF Few
    <3> QED
      BY <1>1, Bounds DEF WatchOpens
  <2>2. CASE ks[c].at # "none"
    <3>1. Cardinality(Used(kt)) = Cardinality(Used(ks)) - 1
      <4>1. Used(kt) = Used(ks) \ {c} /\ c \in Used(ks)
        BY <1>2, <2>2, NoConnFields DEF Used
      <4> QED
        BY <4>1, Counts, FS_RemoveElement
    <3>2. Cardinality(Asleep(lt)) <= Cardinality(Asleep(ls)) + 1
      <4>1. CASE \E l \in Watch!Loops : ls[l].via = c
        <5>1. PICK l \in Watch!Loops : ls[l].via = c
          BY <4>1
        <5>2. \A m \in Watch!Loops \ {l} : ls[m].via # c
          BY <1>1, <5>1, Bounds DEF WatchOpens
        <5>3. Asleep(lt) \subseteq Asleep(ls) \cup {l}
          BY <5>2 DEF Asleep
        <5>4. /\ IsFiniteSet(Asleep(ls) \cup {l}) /\ Cardinality(Asleep(ls) \cup {l}) \in Nat
              /\ Cardinality(Asleep(ls) \cup {l}) <= Cardinality(Asleep(ls)) + 1
          BY Counts, Added
        <5>5. Cardinality(Asleep(lt)) <= Cardinality(Asleep(ls) \cup {l})
          BY <5>3, <5>4, FS_Subset
        <5> QED
          BY <5>4, <5>5, Counts
      <4>2. CASE \A l \in Watch!Loops : ls[l].via # c
        <5>1. Asleep(lt) \subseteq Asleep(ls)
          BY <4>2 DEF Asleep
        <5> QED
          BY <5>1, SleepFewer, Counts
      <4> QED
        BY <4>1, <4>2
    <3>3. f \in Nat
      BY <1>1, Bounds DEF WatchTypes
    <3>4. Cardinality(Used(kt)) + Cardinality(Asleep(lt)) <= f + 1
      BY <1>1, <3>1, <3>2, <3>3, Counts DEF Few
    <3> QED
      BY <2>1, <3>4 DEF Few
  <2>3. CASE ks[c].at = "none"
    <3>1. \A l \in Watch!Loops : ls[l].via # c
      BY <1>1, <2>3, Bounds DEF WatchOpens
    <3>2. Used(kt) = Used(ks) /\ Asleep(lt) \subseteq Asleep(ls)
      BY <1>2, <2>3, <3>1, NoConnFields DEF Used, Asleep
    <3>3. Cardinality(Asleep(lt)) <= Cardinality(Asleep(ls)) /\ f \in Nat
      BY <1>1, <3>2, SleepFewer, Bounds DEF WatchTypes
    <3>4. Cardinality(Used(kt)) + Cardinality(Asleep(lt)) <= f + 1
      BY <1>1, <3>2, <3>3, Counts DEF Few
    <3> QED
      BY <2>1, <3>4 DEF Few
  <2> QED
    BY <2>2, <2>3
<1> QED
  BY <1>3, <1>4, <1>5, <1>6 DEF Good, kt

\* open() on connection c throws.
LEMMA FailingKept ==
  ASSUME NEW v, NEW ls, NEW ks, NEW f, Good(v, ls, ks, f), NEW c \in Watch!Conns
  PROVE  Good(v, Watch!Failing(ls, c, v), [ks EXCEPT ![c] = Watch!NoConn], f)
<1> DEFINE lt == Watch!Failing(ls, c, v)
<1>1. ls \in [Watch!Loops -> OpenCall] /\ WatchOpens(ls, ks)
  BY DEF Good, WatchTypes
<1>2. \A l \in Watch!Loops : ls[l].at = "opening" <=> ls[l].via # 0
  BY <1>1 DEF WatchOpens
<1>3. lt \in [Watch!Loops -> OpenCall]
  BY <1>1 DEF Watch!Failing, OpenCall
<1>4. \A l \in Watch!Loops : /\ ls[l].via # c => lt[l] = ls[l]
                             /\ ls[l].via = c => lt[l].via = 0 /\ lt[l].at # "opening"
                             /\ ls[l].via = c /\ l = 0 => lt[l].at # "sleep"
  BY <1>2, Bounds DEF Watch!Failing
<1> HIDE DEF lt
<1>5. Good(v, lt, [ks EXCEPT ![c] = Watch!NoConn], f)
  BY <1>3, <1>4, Gone
<1> QED
  BY <1>5 DEF lt

\* A fault leaves room.
LEMMA Faulty ==
  ASSUME NEW v, NEW ls, NEW ks, NEW f, Good(v, ls, ks, f), f < MaxDrops
  PROVE  Good(v, ls, ks, f + 1)
<1>1. f \in 0..MaxDrops /\ Few(v, ls, ks, f)
  BY DEF Good, WatchTypes
<1>2. f + 1 \in 0..MaxDrops
  BY <1>1, Bounds
<1>3. Few(v, ls, ks, f + 1)
  <2>1. Cardinality(Used(ks)) + Cardinality(Asleep(ls)) <= (f + 1) + 1
    BY <1>1, Counts DEF Few
  <2>2. \A l \in Watch!Loops \ {0} : ls[l].at # "off" => l <= f + 1 /\ v.box # 0
    BY <1>1, Bounds DEF Few
  <2> QED
    BY <2>1, <2>2 DEF Few
<1> QED
  BY <1>2, <1>3 DEF Good, WatchTypes

\* A fault starts another call of reconnect(), which sleeps.
LEMMA Slept ==
  ASSUME NEW v, NEW ls, NEW ks, NEW f, Good(v, ls, ks, f), f < MaxDrops,
         v.box # 0, NEW l \in Watch!Loops \ {0}, ls[l].at = "off", l <= f + 1
  PROVE  Good(v, [ls EXCEPT ![l] = [at |-> "sleep", via |-> 0]], ks, f + 1)
<1> DEFINE lt == [ls EXCEPT ![l] = [at |-> "sleep", via |-> 0]]
<1>1. WatchTypes(v, ls, ks, f) /\ WatchOpens(ls, ks) /\ Few(v, ls, ks, f)
  BY DEF Good
<1>2. f \in 0..MaxDrops /\ f + 1 \in 0..MaxDrops
  BY <1>1, Bounds DEF WatchTypes
<1>3. /\ lt \in [Watch!Loops -> OpenCall] /\ lt[l] = [at |-> "sleep", via |-> 0]
      /\ \A m \in Watch!Loops \ {l} : lt[m] = ls[m]
  BY <1>1 DEF WatchTypes, OpenCall
<1> HIDE DEF lt
<1>4. WatchOpens(lt, ks)
  <2>1. lt[0].at # "sleep"
    BY <1>1, <1>3, Bounds DEF WatchOpens
  <2>2. ASSUME NEW m \in Watch!Loops
        PROVE  /\ lt[m].at = "opening" <=> lt[m].via # 0
               /\ lt[m].via # 0 => ks[lt[m].via].at # "none"
               /\ \A n \in Watch!Loops \ {m} : lt[m].via # 0 => lt[n].via # lt[m].via
    BY <1>1, <1>3 DEF WatchOpens
  <2> QED
    BY <2>1, <2>2 DEF WatchOpens
<1>5. Few(v, lt, ks, f + 1)
  <2>1. \A m \in Watch!Loops \ {0} : lt[m].at # "off" => m <= f + 1 /\ v.box # 0
    BY <1>1, <1>2, <1>3, Bounds DEF Few
  <2>2. Cardinality(Asleep(lt)) <= Cardinality(Asleep(ls)) + 1
    <3>1. Asleep(lt) = Asleep(ls) \cup {l}
      BY <1>3 DEF Asleep
    <3>2. Cardinality(Asleep(ls) \cup {l}) <= Cardinality(Asleep(ls)) + 1
      BY Counts, Added
    <3> QED
      BY <3>1, <3>2
  <2>3. Cardinality(Used(ks)) + Cardinality(Asleep(lt)) <= (f + 1) + 1
    BY <1>1, <1>2, <2>2, Counts DEF Few
  <2> QED
    BY <2>1, <2>3 DEF Few
<1>6. WatchTypes(v, lt, ks, f + 1)
  BY <1>1, <1>2, <1>3 DEF WatchTypes
<1> QED
  BY <1>4, <1>5, <1>6 DEF Good, lt

\* A call of open() connects.
LEMMA Opened ==
  ASSUME NEW v, NEW ls, NEW ks, NEW f, Good(v, ls, ks, f), NEW l \in Watch!Loops, NEW c \in Watch!Conns,
         ks[c].at = "none", ls[l].via = 0, l # 0 => l <= f /\ v.box # 0,
         Cardinality(Used(ks)) + Cardinality(Asleep(ls) \ {l}) <= f
  PROVE  Good([v EXCEPT !.connecting = c], [ls EXCEPT ![l] = [at |-> "opening", via |-> c]],
              [ks EXCEPT ![c] = [Watch!NoConn EXCEPT !.at = "dial"]], f)
<1> DEFINE k == [Watch!NoConn EXCEPT !.at = "dial"]
           u == [v EXCEPT !.connecting = c]
           lt == [ls EXCEPT ![l] = [at |-> "opening", via |-> c]]
           kt == [ks EXCEPT ![c] = k]
<1>1. /\ WatchTypes(v, ls, ks, f) /\ WatchKnown(v, ks) /\ Stops(v, ks) /\ WatchOpens(ls, ks)
      /\ Few(v, ls, ks, f)
  BY DEF Good
<1>2. /\ u \in Watcher /\ u.stopped = v.stopped /\ u.stop = v.stop /\ u.closing = v.closing
      /\ u.client = v.client /\ u.box = v.box /\ u.since = v.since /\ u.uidNext = v.uidNext
  BY <1>1 DEF WatchTypes, Watcher
<1>3. k \in Connection /\ k.at = "dial" /\ Watch!ToSet(k.queue) = {}
  <2>1. k.queue = Watch!NoConn.queue /\ k.at = "dial"
    BY DEF Watch!NoConn
  <2>2. k \in Connection
    BY NoConnFields DEF Connection
  <2> QED
    BY <2>1, <2>2, NoConnFields
<1>4. kt \in [Watch!Conns -> Connection] /\ kt[c] = k /\ \A d \in Watch!Conns \ {c} : kt[d] = ks[d]
  BY <1>1, <1>3 DEF WatchTypes
<1>5. /\ lt \in [Watch!Loops -> OpenCall] /\ lt[l].at = "opening" /\ lt[l].via = c
      /\ \A m \in Watch!Loops \ {l} : lt[m] = ls[m]
  BY <1>1 DEF WatchTypes, OpenCall
<1> HIDE DEF k, u, lt, kt
<1>6. WatchTypes(u, lt, kt, f)
  BY <1>1, <1>2, <1>4, <1>5 DEF WatchTypes
<1>7. WatchKnown(u, kt) /\ Stops(u, kt)
  BY <1>1, <1>2, <1>3, <1>4 DEF WatchKnown, Stops
<1>8. WatchOpens(lt, kt)
  <2>1. \A m \in Watch!Loops : ls[m].via \in {0} \cup Watch!Conns /\ ls[m].via # c
    BY <1>1, OpenCallFields, Bounds DEF WatchTypes, WatchOpens
  <2>2. c # 0 /\ lt[0].at # "sleep"
    BY <1>1, <1>5, Bounds DEF WatchOpens
  <2>3. ASSUME NEW m \in Watch!Loops
        PROVE  /\ lt[m].at = "opening" <=> lt[m].via # 0
               /\ lt[m].via # 0 => kt[lt[m].via].at # "none"
               /\ \A n \in Watch!Loops \ {m} : lt[m].via # 0 => lt[n].via # lt[m].via
    <3>1. CASE m = l
      BY <1>3, <1>4, <1>5, <2>1, <2>2, <3>1
    <3>2. CASE m # l
      BY <1>1, <1>4, <1>5, <2>1, <3>2 DEF WatchOpens
    <3> QED
      BY <3>1, <3>2
  <2> QED
    BY <2>2, <2>3 DEF WatchOpens
<1>9. Few(u, lt, kt, f)
  <2>1. \A m \in Watch!Loops \ {0} : lt[m].at # "off" => m <= f /\ u.box # 0
    BY <1>1, <1>2, <1>5 DEF Few
  <2>2. Cardinality(Used(kt)) <= Cardinality(Used(ks)) + 1
    <3>1. Used(kt) = Used(ks) \cup {c}
      BY <1>3, <1>4 DEF Used
    <3>2. Cardinality(Used(ks) \cup {c}) <= Cardinality(Used(ks)) + 1
      BY Counts, Added
    <3> QED
      BY <3>1, <3>2
  <2>3. Cardinality(Asleep(lt)) = Cardinality(Asleep(ls) \ {l})
    <3>1. Asleep(lt) = Asleep(ls) \ {l}
      BY <1>5 DEF Asleep
    <3> QED
      BY <3>1
  <2>4. f \in Nat
    BY <1>1, Bounds DEF WatchTypes
  <2>5. Cardinality(Used(kt)) + Cardinality(Asleep(lt)) <= f + 1
    BY <2>2, <2>3, <2>4, Counts
  <2> QED
    BY <2>1, <2>5 DEF Few
<1>10. Good(u, lt, kt, f)
  BY <1>6, <1>7, <1>8, <1>9 DEF Good
<1> QED
  BY <1>10 DEF k, u, lt, kt

-----------------------------------------------------------------------------
(* There is a place for what is new.                                       *)

LEMMA FreeConnHolds ==
  ASSUME \E c \in Watch!Conns : conn[c].at = "none" /\ c # w.closing
  PROVE  Watch!FreeConn \in Watch!Conns /\ conn[Watch!FreeConn].at = "none"
<1> DEFINE A == {c \in Watch!Conns : conn[c].at = "none" /\ c # w.closing}
<1>1. A \in SUBSET (0..MaxDrops + 2) /\ A # {} /\ MaxDrops + 2 \in Nat
  BY Bounds
<1>2. PICK c \in A : \A i \in 0..(c - 1) : i \notin A
  BY <1>1, LeastMember
<1>3. \A d \in A : c <= d
  BY <1>1, <1>2, Bounds
<1>4. \A d \in Watch!Conns : conn[d].at = "none" /\ d # w.closing => c <= d
  BY <1>3
<1> QED
  BY <1>4 DEF Watch!FreeConn

LEMMA FreeLoopHolds ==
  ASSUME Good(w, loops, conn, drops), drops < MaxDrops
  PROVE  /\ Watch!FreeLoop \in Watch!Loops \ {0} /\ loops[Watch!FreeLoop].at = "off"
         /\ Watch!FreeLoop <= drops + 1
<1> DEFINE A == {l \in Watch!Loops \ {0} : loops[l].at = "off"}
<1>1. drops \in 0..MaxDrops /\ Few(w, loops, conn, drops)
  BY DEF Good, WatchTypes
<1>2. drops + 1 \in A
  <2>1. drops + 1 \in Watch!Loops \ {0} /\ ~(drops + 1 <= drops)
    BY <1>1, Bounds
  <2> QED
    BY <1>1, <2>1 DEF Few
<1>3. A \in SUBSET (0..MaxDrops + 1) /\ A # {} /\ MaxDrops + 1 \in Nat
  BY <1>2, Bounds
<1>4. PICK l \in A : \A i \in 0..(l - 1) : i \notin A
  BY <1>3, LeastMember
<1>5. \A m \in A : l <= m
  BY <1>3, <1>4, Bounds
<1>6. \A m \in Watch!Loops \ {0} : loops[m].at = "off" => l <= m
  BY <1>5
<1>7. Watch!FreeLoop \in A /\ \A m \in A : Watch!FreeLoop <= m
  BY <1>6 DEF Watch!FreeLoop
<1> QED
  BY <1>2, <1>7

-----------------------------------------------------------------------------
(* The steps of a connection.                                              *)

LEMMA InvFields ==
  ASSUME WatchInv
  PROVE  /\ Good(w, loops, conn, drops) /\ WatchTypes(w, loops, conn, drops)
         /\ w \in Watcher /\ loops \in [Watch!Loops -> OpenCall]
         /\ conn \in [Watch!Conns -> Connection]
         /\ drops \in 0..MaxDrops
         /\ mail.next \in 1..MaxMail + 1 /\ mail.box \in Watch!Boxes
         /\ missed \in BOOLEAN
BY DEF WatchInv, Good, WatchTypes

\* A step that reports nothing.
LEMMA Quiet ==
  ASSUME WatchInv, Good(w', loops', conn', drops'),
         w'.since = w.since, w'.uidNext = w.uidNext, UNCHANGED reported,
         UNCHANGED mail, missed' \in BOOLEAN
  PROVE  WatchInv'
<1>1. Counted(w', reported')
  BY DEF WatchInv, Counted
<1> QED
  BY <1>1 DEF WatchInv

\* A step of one connection, which reports nothing.
LEMMA WatchOneConnection ==
  ASSUME WatchInv, NEW c \in Watch!Conns, NEW k \in Connection,
         k.at = "none" <=> conn[c].at = "none",
         k.at = "open" => conn[c].at = "open",
         k.at = "examined" => 1 <= k.seen,
         "search" \in Watch!ToSet(k.queue) => "search" \in Watch!ToSet(conn[c].queue) \/ w.client # 0,
         "logout" \in Watch!ToSet(k.queue) => "logout" \in Watch!ToSet(conn[c].queue) \/ w.stopped,
         conn' = [conn EXCEPT ![c] = k],
         UNCHANGED <<w, loops, mail, reported, missed, drops>>
  PROVE  WatchInv'
<1>1. Good(w, loops, conn', drops)
  BY InvFields, WatchConnectionKept
<1> QED
  BY <1>1, Quiet, InvFields

LEMMA AttachStep == ASSUME WatchInv, NEW c \in Watch!Conns, Watch!Attach(c) PROVE WatchInv'
<1> DEFINE k == [conn[c] EXCEPT !.at = "login"]
<1>1. conn \in [Watch!Conns -> Connection] /\ conn[c] \in Connection
  BY InvFields
<1>2. k \in Connection /\ k.at = "login" /\ k.queue = conn[c].queue
  BY <1>1 DEF Connection
<1>3. conn' = [conn EXCEPT ![c] = k]
  BY <1>1 DEF Watch!Attach
<1> HIDE DEF k
<1>4. UNCHANGED <<w, loops, mail, reported, missed, drops>> /\ conn[c].at = "dial"
  BY DEF Watch!Attach
<1> QED
  BY <1>2, <1>3, <1>4, WatchOneConnection

LEMMA ServeExamineStep ==
  ASSUME WatchInv, NEW c \in Watch!Conns, Watch!ServeExamine(c)
  PROVE  WatchInv'
<1> DEFINE k == [conn[c] EXCEPT !.at = "examined", !.told = mail.next, !.seen = mail.next]
<1>1. conn \in [Watch!Conns -> Connection] /\ conn[c] \in Connection /\ mail.next \in 1..MaxMail + 1
  BY InvFields
<1>2. mail.next \in 0..MaxMail + 1 /\ 1 <= mail.next
  BY <1>1, Bounds
<1>3. k \in Connection /\ k.at = "examined" /\ k.queue = conn[c].queue /\ k.seen = mail.next
  BY <1>1, <1>2 DEF Connection
<1>4. conn' = [conn EXCEPT ![c] = k]
  BY <1>1 DEF Watch!ServeExamine
<1> HIDE DEF k
<1>5. UNCHANGED <<w, loops, mail, reported, missed, drops>> /\ conn[c].at = "examine"
  BY DEF Watch!ServeExamine
<1> QED
  BY <1>2, <1>3, <1>4, <1>5, WatchOneConnection

LEMMA WatchServeStep == ASSUME WatchInv, NEW c \in Watch!Conns, Watch!Serve(c) PROVE WatchInv'
<1> DEFINE k == [conn[c] EXCEPT !.head = "served", !.seen = mail.next]
<1>1. conn \in [Watch!Conns -> Connection] /\ conn[c] \in Connection /\ mail.next \in 1..MaxMail + 1
  BY InvFields
<1>2. mail.next \in 0..MaxMail + 1 /\ 1 <= mail.next
  BY <1>1, Bounds
<1>3. k \in Connection /\ k.at = conn[c].at /\ k.queue = conn[c].queue /\ k.seen = mail.next
  BY <1>1, <1>2 DEF Connection
<1>4. conn' = [conn EXCEPT ![c] = k]
  BY <1>1 DEF Watch!Serve
<1> HIDE DEF k
<1>5. UNCHANGED <<w, loops, mail, reported, missed, drops>>
  BY DEF Watch!Serve
<1> QED
  BY <1>2, <1>3, <1>4, <1>5, WatchOneConnection

\* A connection keeps what it has seen of the mailbox.
LEMMA SeenKept ==
  ASSUME WatchInv, NEW c \in Watch!Conns
  PROVE  conn[c].at = "examined" => 1 <= conn[c].seen
BY InvFields DEF Good, WatchKnown

LEMMA RenewStep == ASSUME WatchInv, NEW c \in Watch!Conns, Watch!Renew(c) PROVE WatchInv'
<1> DEFINE k == [conn[c] EXCEPT !.head = "done"]
<1>1. conn \in [Watch!Conns -> Connection] /\ conn[c] \in Connection
  BY InvFields
<1>2. k \in Connection /\ k.at = conn[c].at /\ k.queue = conn[c].queue /\ k.seen = conn[c].seen
  BY <1>1 DEF Connection
<1>3. conn' = [conn EXCEPT ![c] = k]
  BY <1>1 DEF Watch!Renew
<1> HIDE DEF k
<1>4. UNCHANGED <<w, loops, mail, reported, missed, drops>>
  BY DEF Watch!Renew
<1> QED
  BY <1>2, <1>3, <1>4, SeenKept, WatchOneConnection

LEMMA PollStep == ASSUME WatchInv, NEW c \in Watch!Conns, Watch!Poll(c) PROVE WatchInv'
<1> DEFINE k == Watch!Queued(conn[c], "noop")
<1>1. conn \in [Watch!Conns -> Connection] /\ conn[c] \in Connection
  BY InvFields
<1>2. /\ k \in Connection /\ k.at = conn[c].at /\ k.seen = conn[c].seen
      /\ Watch!ToSet(k.queue) = Watch!ToSet(conn[c].queue) \cup {"noop"}
  BY <1>1, QueuedFields DEF Watch!Commands
<1>3. conn' = [conn EXCEPT ![c] = k]
  BY <1>1 DEF Watch!Poll
<1> HIDE DEF k
<1>4. UNCHANGED <<w, loops, mail, reported, missed, drops>>
  BY DEF Watch!Poll
<1>5. /\ "search" \in Watch!ToSet(k.queue) => "search" \in Watch!ToSet(conn[c].queue)
      /\ "logout" \in Watch!ToSet(k.queue) => "logout" \in Watch!ToSet(conn[c].queue)
  BY <1>2
<1> QED
  BY <1>2, <1>3, <1>4, <1>5, SeenKept, WatchOneConnection

LEMMA IdleDoneStep == ASSUME WatchInv, NEW c \in Watch!Conns, Watch!IdleDone(c) PROVE WatchInv'
<1> DEFINE p == Watch!Popped(conn[c])
           k == IF p.ended THEN p ELSE Watch!Queued(p, "idle")
<1>1. conn \in [Watch!Conns -> Connection] /\ conn[c] \in Connection /\ conn[c].queue # <<>>
  BY InvFields DEF Watch!IdleDone, Watch!Executing
<1>2. /\ p \in Connection /\ p.at = conn[c].at /\ p.seen = conn[c].seen
      /\ Watch!ToSet(p.queue) \subseteq Watch!ToSet(conn[c].queue)
  BY <1>1, PoppedFields
<1> HIDE DEF p
<1>3. /\ k \in Connection /\ k.at = conn[c].at /\ k.seen = conn[c].seen
      /\ Watch!ToSet(k.queue) \subseteq Watch!ToSet(conn[c].queue) \cup {"idle"}
  BY <1>2, QueuedFields DEF Watch!Commands
<1>4. conn' = [conn EXCEPT ![c] = k]
  BY <1>1 DEF Watch!IdleDone, p
<1> HIDE DEF k
<1>5. UNCHANGED <<w, loops, mail, reported, missed, drops>>
  BY DEF Watch!IdleDone
<1>6. /\ "search" \in Watch!ToSet(k.queue) => "search" \in Watch!ToSet(conn[c].queue)
      /\ "logout" \in Watch!ToSet(k.queue) => "logout" \in Watch!ToSet(conn[c].queue)
  BY <1>3
<1> QED
  BY <1>3, <1>4, <1>5, <1>6, SeenKept, WatchOneConnection

LEMMA ArriveStep == ASSUME WatchInv, Watch!Arrive PROVE WatchInv'
<1>1. mail' \in [next : 1..MaxMail + 1, box : Watch!Boxes]
  <2>1. mail.next + 1 \in 1..MaxMail + 1
    BY InvFields, Bounds DEF Watch!Arrive
  <2> QED
    BY <2>1 DEF Watch!Arrive, WatchInv
<1> QED
  BY <1>1 DEF WatchInv, Watch!Arrive

LEMMA RecreateStep == ASSUME WatchInv, Watch!Recreate PROVE WatchInv'
<1>1. mail' \in [next : 1..MaxMail + 1, box : Watch!Boxes]
  <2>1. mail.box + 1 \in Watch!Boxes /\ mail.next \in 1..MaxMail + 1 /\ 1 \in 1..MaxMail + 1
    BY InvFields, Bounds DEF Watch!Recreate, Watch!Boxes
  <2> QED
    BY <2>1 DEF Watch!Recreate
<1> QED
  BY <1>1 DEF WatchInv, Watch!Recreate

-----------------------------------------------------------------------------
(* Steps of the watcher.                                                   *)

LEMMA LoggedInStep == ASSUME WatchInv, NEW c \in Watch!Conns, Watch!LoggedIn(c) PROVE WatchInv'
<1> DEFINE u == [w EXCEPT !.connecting = 0]
<1>1. /\ Good(w, loops, conn, drops) /\ w \in Watcher
      /\ conn \in [Watch!Conns -> Connection] /\ conn[c] \in Connection /\ conn[c].at = "login"
  BY InvFields DEF Watch!LoggedIn
<1>2. /\ u \in Watcher /\ u.stopped = w.stopped /\ u.stop = w.stop /\ u.closing = w.closing
      /\ u.client = w.client /\ u.box = w.box /\ u.since = w.since /\ u.uidNext = w.uidNext
      /\ w' = u
  BY <1>1 DEF Watcher, Watch!LoggedIn
<1> HIDE DEF u
<1>3. Follows(w, conn, u, conn)
  BY <1>1, <1>2, FollowsSelf DEF Follows
<1>4. Good(u, loops, conn, drops)
  BY <1>1, <1>3, Kept
<1>5. CASE w.stopped
  <2> DEFINE q == Watch!Queued(conn[c], "logout")
             k == [q EXCEPT !.at = "closing"]
  <2>1. q \in Connection /\ Watch!ToSet(q.queue) = Watch!ToSet(conn[c].queue) \cup {"logout"}
    BY <1>1, QueuedFields DEF Watch!Commands
  <2> HIDE DEF q
  <2>2. k \in Connection /\ k.at = "closing" /\ k.queue = q.queue
    BY <2>1 DEF Connection
  <2>3. conn' = [conn EXCEPT ![c] = k] /\ loops' = Watch!Returning(loops, c)
    BY <1>1, <1>5 DEF Watch!LoggedIn, q
  <2> HIDE DEF k
  <2>4. "search" \in Watch!ToSet(k.queue) => "search" \in Watch!ToSet(conn[c].queue)
    BY <2>1, <2>2
  <2>5. Good(u, loops, conn', drops)
    BY <1>1, <1>2, <1>4, <1>5, <2>2, <2>3, <2>4, WatchConnectionKept
  <2>6. Good(u, loops', conn', drops)
    BY <2>3, <2>5, ReturningKept
  <2> QED
    BY <1>2, <2>6, InvFields, Quiet DEF Watch!LoggedIn
<1>6. CASE ~w.stopped
  <2> DEFINE k == [conn[c] EXCEPT !.at = "examine"]
  <2>1. k \in Connection /\ k.at = "examine" /\ k.queue = conn[c].queue
    BY <1>1 DEF Connection
  <2>2. conn' = [conn EXCEPT ![c] = k] /\ loops' = loops
    BY <1>1, <1>6 DEF Watch!LoggedIn
  <2> HIDE DEF k
  <2>3. Good(u, loops, conn', drops)
    BY <1>1, <1>2, <1>4, <2>1, <2>2, WatchConnectionKept
  <2> QED
    BY <1>2, <2>2, <2>3, InvFields, Quiet DEF Watch!LoggedIn
<1> QED
  BY <1>5, <1>6

LEMMA StartStep == ASSUME WatchInv, Watch!Start PROVE WatchInv'
<1>1. /\ Good(w, loops, conn, drops) /\ w \in Watcher /\ loops \in [Watch!Loops -> OpenCall]
      /\ drops \in 0..MaxDrops
  BY InvFields
<1>2. Watch!FreeConn \in Watch!Conns /\ conn[Watch!FreeConn].at = "none"
  <2>1. w.closing = 0 /\ \A c \in Watch!Conns : conn[c].at = "none"
    BY <1>1 DEF Good, Stops, Watch!Start
  <2>2. 1 \in Watch!Conns /\ 1 # 0
    BY Bounds
  <2> QED
    BY <2>1, <2>2, FreeConnHolds
<1>3. loops[0].via = 0 /\ 0 \in Watch!Loops
  BY <1>1, Bounds DEF Good, WatchOpens, Watch!Start
<1>4. Cardinality(Used(conn)) + Cardinality(Asleep(loops) \ {0}) <= drops
  <2>1. Used(conn) = {}
    BY DEF Used, Watch!Start
  <2>2. Asleep(loops) \ {0} = {}
    BY <1>1 DEF Good, Few, Asleep, Watch!Start
  <2>3. 0 + 0 <= drops
    BY <1>1, Bounds
  <2> QED
    BY <2>1, <2>2, <2>3, FS_EmptySet
<1>5. Good(w', loops', conn', drops)
  BY <1>1, <1>2, <1>3, <1>4, Opened DEF Watch!Start, Watch!Open
<1>6. w'.since = w.since /\ w'.uidNext = w.uidNext
  BY <1>1 DEF Watch!Start, Watch!Open, Watcher
<1> QED
  BY <1>5, <1>6, InvFields, Quiet DEF Watch!Start

LEMMA WakeStep == ASSUME WatchInv, NEW l \in Watch!Loops, Watch!Wake(l) PROVE WatchInv'
<1>1. /\ Good(w, loops, conn, drops) /\ w \in Watcher /\ loops \in [Watch!Loops -> OpenCall]
      /\ drops \in 0..MaxDrops
  BY InvFields
<1>2. loops[l].at = "sleep" /\ loops[l].via = 0 /\ l # 0
  BY <1>1, Bounds DEF Good, WatchOpens, Watch!Wake
<1>3. CASE w.stopped
  <2>1. loops' = [loops EXCEPT ![l] = [at |-> "off", via |-> 0]]
    <3>1. loops[l] = [at |-> "sleep", via |-> 0]
      BY <1>1, <1>2 DEF OpenCall
    <3>2. [loops[l] EXCEPT !.at = "off"] = [at |-> "off", via |-> 0]
      BY <3>1
    <3> QED
      BY <1>1, <1>3, <3>2 DEF Watch!Wake
  <2>2. loops' \in [Watch!Loops -> OpenCall]
    BY <1>1, <2>1 DEF OpenCall
  <2>3. Good(w, loops', conn, drops)
    BY <1>1, <2>1, <2>2, FewerCalls
  <2> QED
    BY <1>3, <2>3, InvFields, Quiet DEF Watch!Wake
<1>4. CASE ~w.stopped
  <2>1. /\ IsFiniteSet(Used(conn)) /\ Cardinality(Used(conn)) \in Nat
        /\ Cardinality(Asleep(loops) \ {l}) \in Nat
        /\ Cardinality(Used(conn)) + Cardinality(Asleep(loops) \ {l}) <= drops
    <3>1. l \in Asleep(loops)
      BY <1>2 DEF Asleep
    <3>2. Cardinality(Asleep(loops) \ {l}) = Cardinality(Asleep(loops)) - 1
          /\ IsFiniteSet(Asleep(loops) \ {l})
      BY <3>1, Counts, FS_RemoveElement
    <3>3. Cardinality(Used(conn)) + Cardinality(Asleep(loops)) <= drops + 1
      BY <1>1 DEF Good, Few
    <3>4. drops \in Nat
      BY <1>1, Bounds
    <3>5. Cardinality(Asleep(loops) \ {l}) \in Nat
      BY <3>2, FS_CardinalityType
    <3> QED
      BY <3>2, <3>3, <3>4, <3>5, Counts
  <2>2. Watch!FreeConn \in Watch!Conns /\ conn[Watch!FreeConn].at = "none"
    <3>1. w.closing = 0
      BY <1>1, <1>4 DEF Good, Stops
    <3>2. Used(conn) # Watch!Conns
      BY <1>1, <2>1, Bounds
    <3>3. \E c \in Watch!Conns : conn[c].at = "none"
      BY <3>2 DEF Used
    <3> QED
      BY <3>1, <3>3, FreeConnHolds, Bounds
  <2>3. l <= drops /\ w.box # 0
    BY <1>1, <1>2 DEF Good, Few
  <2>4. Good(w', loops', conn', drops)
    <3>1. /\ w' = [w EXCEPT !.connecting = Watch!FreeConn]
          /\ loops' = [loops EXCEPT ![l] = [at |-> "opening", via |-> Watch!FreeConn]]
          /\ conn' = [conn EXCEPT ![Watch!FreeConn] = [Watch!NoConn EXCEPT !.at = "dial"]]
          /\ drops' = drops
      BY <1>4 DEF Watch!Wake, Watch!Open
    <3> HIDE DEF Watch!FreeConn
    <3>2. Good([w EXCEPT !.connecting = Watch!FreeConn],
               [loops EXCEPT ![l] = [at |-> "opening", via |-> Watch!FreeConn]],
               [conn EXCEPT ![Watch!FreeConn] = [Watch!NoConn EXCEPT !.at = "dial"]], drops)
      BY <1>1, <1>2, <2>1, <2>2, <2>3, Opened
    <3> QED
      BY <3>1, <3>2
  <2>5. w'.since = w.since /\ w'.uidNext = w.uidNext
    BY <1>1, <1>4 DEF Watch!Wake, Watch!Open, Watcher
  <2> QED
    BY <2>4, <2>5, InvFields, Quiet DEF Watch!Wake
<1> QED
  BY <1>3, <1>4

LEMMA ConnectFailsStep ==
  ASSUME WatchInv, NEW c \in Watch!Conns, Watch!ConnectFails(c)
  PROVE  WatchInv'
<1>1. /\ Good(w, loops, conn, drops) /\ w \in Watcher
      /\ conn \in [Watch!Conns -> Connection]
  BY InvFields
<1>2. PICK auth \in BOOLEAN :
        /\ w' = [w EXCEPT !.connecting = 0, !.stopped = @ \/ (auth /\ loops[0].via # c)]
        /\ loops' = Watch!Failing(loops, c, w')
  BY DEF Watch!ConnectFails
<1> DEFINE b == w.stopped \/ (auth /\ loops[0].via # c)
           u == [w EXCEPT !.connecting = 0, !.stopped = b]
<1>3. w' = u /\ b \in BOOLEAN /\ (w.stopped => b)
  BY <1>1, <1>2, WatcherFields
<1> HIDE DEF b
<1>4. /\ u \in Watcher /\ u.stopped = b /\ u.stop = w.stop /\ u.closing = w.closing
      /\ u.client = w.client /\ u.box = w.box /\ u.since = w.since /\ u.uidNext = w.uidNext
  BY <1>1, <1>3 DEF Watcher
<1> HIDE DEF u
<1>5. Follows(w, conn, u, conn)
  BY <1>1, <1>3, <1>4, FollowsSelf DEF Follows
<1>6. Good(u, loops, conn, drops)
  BY <1>1, <1>5, Kept
<1>7. Good(u, Watch!Failing(loops, c, u), [conn EXCEPT ![c] = Watch!NoConn], drops)
  BY <1>1, <1>6, FailingKept
<1>8. Good(w', loops', conn', drops')
  BY <1>2, <1>3, <1>7, Faulty DEF Watch!ConnectFails, Watch!Fault
<1> QED
  BY <1>3, <1>4, <1>8, InvFields, Quiet DEF Watch!ConnectFails

\* A fault, if it lost the connection of a watcher that is not stopped; only such a
\* watcher starts a reconnect().
LEMMA ClosesStep ==
  ASSUME WatchInv, NEW c \in Watch!Conns, Watch!Closes(c),
         \/ drops < MaxDrops /\ drops' = drops + 1
         \/ w.stopped /\ drops' = drops,
         UNCHANGED <<mail, reported, missed>>
  PROVE  WatchInv'
<1> DEFINE heard == conn[c].at = "open"
           v == IF heard THEN Watch!Dropped(w) ELSE w
           ku == Watch!Unpolled(conn, IF heard THEN w ELSE [w EXCEPT !.client = 0])
           ks == [ku EXCEPT ![c] = Watch!NoConn]
           r == IF v.checking = c THEN Watch!CheckOver(v, ks) ELSE [v |-> v, ks |-> ks]
           ls == Watch!Failing(loops, c, v)
<1>1. /\ Good(w, loops, conn, drops) /\ w \in Watcher /\ drops \in 0..MaxDrops
      /\ loops \in [Watch!Loops -> OpenCall] /\ conn \in [Watch!Conns -> Connection]
  BY InvFields
<1>2. /\ w' = r.v /\ conn' = r.ks
      /\ loops' = IF heard /\ ~v.stopped THEN [ls EXCEPT ![Watch!FreeLoop] = [at |-> "sleep", via |-> 0]]
                  ELSE ls
  BY DEF Watch!Closes
<1>3. /\ v \in Watcher /\ v.stopped = w.stopped /\ v.stop = w.stop /\ v.closing = w.closing
      /\ (v.client # 0 => w.client # 0) /\ v.box = w.box /\ v.since = w.since
      /\ v.uidNext = w.uidNext
  BY <1>1 DEF Watch!Dropped, Watcher
<1>4. /\ ku \in [Watch!Conns -> Connection]
      /\ \A d \in Watch!Conns : /\ ku[d].at = conn[d].at /\ ku[d].queue = conn[d].queue
                                /\ ku[d].seen = conn[d].seen
  <2>1. ASSUME NEW k \in Connection
        PROVE  /\ [k EXCEPT !.poll = FALSE] \in Connection
               /\ [k EXCEPT !.poll = FALSE].at = k.at /\ [k EXCEPT !.poll = FALSE].queue = k.queue
               /\ [k EXCEPT !.poll = FALSE].seen = k.seen
    BY DEF Connection
  <2> QED
    BY <1>1, <2>1 DEF Watch!Unpolled
<1> HIDE DEF v, ku
<1>5. Follows(w, conn, v, ku)
  BY <1>1, <1>3, <1>4, FollowsSelf DEF Follows
<1>6. Good(v, loops, ku, drops)
  BY <1>1, <1>4, <1>5, Kept
<1>7. Good(v, ls, ks, drops)
  BY <1>6, FailingKept
<1> HIDE DEF ks, ls
<1>8. /\ Good(r.v, ls, r.ks, drops) /\ r.v.uidNext = w.uidNext /\ r.v.since = w.since
      /\ r.v.stopped = w.stopped /\ r.v.box = w.box
  <2>1. CASE v.checking = c
    BY <1>3, <1>7, <2>1, CheckOverKept
  <2>2. CASE v.checking # c
    BY <1>3, <1>7, <2>2
  <2> QED
    BY <2>1, <2>2
<1> HIDE DEF r
<1>9. Good(w', loops', conn', drops')
  <2>1. CASE heard /\ ~v.stopped
    <3>1. drops < MaxDrops /\ drops' = drops + 1
      BY <1>3, <2>1
    <3>2. /\ Watch!FreeLoop \in Watch!Loops \ {0} /\ loops[Watch!FreeLoop].at = "off"
          /\ Watch!FreeLoop <= drops + 1
      BY <1>1, <3>1, FreeLoopHolds
    <3>3. ls[Watch!FreeLoop] = loops[Watch!FreeLoop]
      BY <3>2 DEF ls, Watch!Failing
    <3>4. r.v.box # 0
      BY <1>1, <1>3, <1>8, <2>1 DEF Good, WatchKnown
    <3> HIDE DEF Watch!FreeLoop
    <3>5. Good(r.v, [ls EXCEPT ![Watch!FreeLoop] = [at |-> "sleep", via |-> 0]], r.ks, drops + 1)
      BY <1>8, <3>1, <3>2, <3>3, <3>4, Slept
    <3> QED
      BY <1>2, <2>1, <3>1, <3>5
  <2>2. CASE ~(heard /\ ~v.stopped)
    <3>1. Good(r.v, ls, r.ks, drops')
      BY <1>8, Faulty
    <3> QED
      BY <1>2, <2>2, <3>1
  <2> QED
    BY <2>1, <2>2
<1> QED
  BY <1>2, <1>8, <1>9, InvFields, Quiet

LEMMA DropStep == ASSUME WatchInv, NEW c \in Watch!Conns, Watch!Drop(c) PROVE WatchInv'
<1>1. Watch!Closes(c)
  BY DEF Watch!Drop
<1>2. drops < MaxDrops /\ drops' = drops + 1
  BY DEF Watch!Drop, Watch!Fault
<1>3. UNCHANGED <<mail, reported, missed>>
  BY DEF Watch!Drop
<1> QED
  BY <1>1, <1>2, <1>3, ClosesStep

LEMMA HeadQueued ==
  ASSUME NEW l \in Seq(Watch!Commands), l # <<>>
  PROVE  Head(l) \in Watch!ToSet(l)
<1>1. Len(l) \in Nat \ {0} /\ Head(l) = l[1]
  BY EmptySeq, HeadTailProperties
<1>2. 1 \in DOMAIN l
  BY <1>1
<1> QED
  BY <1>1, <1>2 DEF Watch!ToSet

\* Only a watcher that was stopped logs out.
LEMMA WatchLoggedOutStep ==
  ASSUME WatchInv, NEW c \in Watch!Conns, Watch!LoggedOut(c)
  PROVE  WatchInv'
<1>1. /\ Good(w, loops, conn, drops) /\ conn[c].queue \in Seq(Watch!Commands)
      /\ conn[c].queue # <<>> /\ Head(conn[c].queue) = "logout"
  BY InvFields, ConnectionFields DEF Watch!LoggedOut, Watch!Executing
<1>2. "logout" \in Watch!ToSet(conn[c].queue)
  BY <1>1, HeadQueued
<1>3. w.stopped
  BY <1>1, <1>2 DEF Good, Stops
<1> QED
  BY <1>3, ClosesStep DEF Watch!LoggedOut

-----------------------------------------------------------------------------
(* Commands, and notices of the server.                                    *)

LEMMA IdleEnteredStep ==
  ASSUME WatchInv, NEW c \in Watch!Conns, Watch!IdleEntered(c)
  PROVE  WatchInv'
<1> DEFINE x == IF conn[c].ended \/ Len(conn[c].queue) > 1 THEN "done" ELSE "idling"
           k == [conn[c] EXCEPT !.head = x]
           u == IF \E l \in Watch!Loops : loops[l].via = c THEN [w EXCEPT !.stopIdle = c] ELSE w
<1>1. /\ Good(w, loops, conn, drops) /\ w \in Watcher
      /\ conn \in [Watch!Conns -> Connection] /\ conn[c] \in Connection
  BY InvFields
<1>2. k \in Connection /\ k.at = conn[c].at /\ k.queue = conn[c].queue /\ k.seen = conn[c].seen
  <2>1. x \in {"wait", "served", "idling", "done"}
    OBVIOUS
  <2> HIDE DEF x
  <2> QED
    BY <1>1, <2>1 DEF Connection
<1>3. /\ u \in Watcher /\ u.stopped = w.stopped /\ u.stop = w.stop /\ u.closing = w.closing
      /\ u.client = w.client /\ u.box = w.box /\ u.since = w.since /\ u.uidNext = w.uidNext
  BY <1>1 DEF Watcher
<1>4. w' = u /\ conn' = [conn EXCEPT ![c] = k] /\ loops' = Watch!Returning(loops, c)
  BY <1>1 DEF Watch!IdleEntered
<1> HIDE DEF x, k, u
<1>5. Good(w, loops, conn', drops)
  BY <1>1, <1>2, <1>4, SeenKept, WatchConnectionKept
<1>6. Follows(w, conn', u, conn')
  BY <1>3, <1>5, FollowsSelf DEF Follows
<1>7. Good(u, loops, conn', drops)
  BY <1>5, <1>6, Kept
<1>8. Good(u, loops', conn', drops)
  BY <1>4, <1>7, ReturningKept
<1> QED
  BY <1>3, <1>4, <1>8, InvFields, Quiet DEF Watch!IdleEntered

\* A command is over.
LEMMA PoppedKept ==
  ASSUME WatchInv, NEW c \in Watch!Conns, conn[c].queue # <<>>, NEW u, Good(u, loops, conn, drops)
  PROVE  Good(u, loops, [conn EXCEPT ![c] = Watch!Popped(@)], drops)
<1> DEFINE k == Watch!Popped(conn[c])
<1>1. conn \in [Watch!Conns -> Connection] /\ conn[c] \in Connection
  BY InvFields
<1>2. /\ k \in Connection /\ k.at = conn[c].at /\ k.seen = conn[c].seen
      /\ Watch!ToSet(k.queue) \subseteq Watch!ToSet(conn[c].queue)
  BY <1>1, PoppedFields
<1>3. [conn EXCEPT ![c] = Watch!Popped(@)] = [conn EXCEPT ![c] = k]
  BY <1>1
<1> HIDE DEF k
<1>4. Good(u, loops, [conn EXCEPT ![c] = k], drops)
  BY <1>2, SeenKept, WatchConnectionKept
<1> QED
  BY <1>3, <1>4

LEMMA SearchAnsweredStep ==
  ASSUME WatchInv, NEW c \in Watch!Conns, Watch!SearchAnswered(c)
  PROVE  WatchInv'
<1> DEFINE from == Watch!Larger(w.uidNext, 1)
           u == [w EXCEPT !.uidNext = Watch!Larger(@, conn[c].seen)]
           ks == [conn EXCEPT ![c] = Watch!Popped(@)]
           r == Watch!CheckOver(u, ks)
<1>1. /\ Good(w, loops, conn, drops) /\ w \in Watcher /\ conn[c] \in Connection
      /\ conn \in [Watch!Conns -> Connection]
      /\ conn[c].queue \in Seq(Watch!Commands) /\ conn[c].queue # <<>>
      /\ Head(conn[c].queue) = "search"
  BY InvFields, ConnectionFields DEF Watch!SearchAnswered, Watch!Executing
<1>2. "search" \in Watch!ToSet(conn[c].queue)
  BY <1>1, HeadQueued
<1>3. w.box # 0 /\ 1 <= w.since /\ w.since <= w.uidNext
  BY <1>1, <1>2 DEF Good, WatchKnown
<1>4. w.uidNext \in 0..MaxMail + 1 /\ conn[c].seen \in 0..MaxMail + 1 /\ w.since \in Nat
  BY <1>1, WatcherFields, ConnectionFields, Numbers
<1>5. /\ Watch!Larger(w.uidNext, conn[c].seen) \in 0..MaxMail + 1
      /\ w.uidNext <= Watch!Larger(w.uidNext, conn[c].seen)
      /\ from = w.uidNext
  BY <1>3, <1>4, Bounds DEF Watch!Larger
<1>6. /\ u \in Watcher /\ u.stopped = w.stopped /\ u.stop = w.stop /\ u.closing = w.closing
      /\ u.client = w.client /\ u.box = w.box /\ u.since = w.since
      /\ u.uidNext = Watch!Larger(w.uidNext, conn[c].seen)
  BY <1>1, <1>5 DEF Watcher
<1>7. w' = r.v /\ conn' = r.ks
  BY DEF Watch!SearchAnswered
<1>8. /\ reported' = [i \in Watch!Uids |-> reported[i] + IF from <= i /\ i < conn[c].seen THEN 1 ELSE 0]
      /\ missed' = FALSE /\ UNCHANGED <<loops, mail, drops>>
  BY DEF Watch!SearchAnswered
<1> HIDE DEF u, from
<1>9. Follows(w, conn, u, conn)
  BY <1>1, <1>3, <1>5, <1>6, FollowsSelf DEF Follows
<1>10. Good(u, loops, conn, drops)
  BY <1>1, <1>9, Kept
<1>11. Good(u, loops, ks, drops)
  BY <1>1, <1>10, PoppedKept
<1> HIDE DEF ks
<1>12. Good(r.v, loops, r.ks, drops) /\ r.v.uidNext = u.uidNext /\ r.v.since = u.since
  BY <1>11, CheckOverKept
<1> HIDE DEF r
<1>13. reported' \in [Watch!Uids -> Nat] /\ Counted(w', reported')
  <2>1. reported \in [Watch!Uids -> Nat] /\ Counted(w, reported)
    BY DEF WatchInv
  <2>2. w'.since = w.since /\ w'.uidNext = Watch!Larger(w.uidNext, conn[c].seen)
    BY <1>6, <1>7, <1>12
  <2>3. ASSUME NEW i \in Watch!Uids
        PROVE  /\ reported'[i] \in Nat
               /\ reported'[i] = IF w'.since <= i /\ i < w'.uidNext THEN 1 ELSE 0
    <3>1. /\ i \in Nat /\ reported[i] \in Nat
          /\ reported[i] = IF w.since <= i /\ i < w.uidNext THEN 1 ELSE 0
      BY <2>1, Bounds DEF Watch!Uids, Counted
    <3>2. reported'[i] = reported[i] + IF w.uidNext <= i /\ i < conn[c].seen THEN 1 ELSE 0
      BY <1>5, <1>8
    <3>3. w.uidNext \in Nat /\ conn[c].seen \in Nat
      BY <1>4, Bounds
    <3> QED
      BY <1>3, <1>4, <2>2, <3>1, <3>2, <3>3 DEF Watch!Larger
  <2>4. reported' \in [Watch!Uids -> Nat]
    BY <1>8, <2>1
  <2> QED
    BY <2>3, <2>4 DEF Counted
<1> QED
  BY <1>7, <1>8, <1>12, <1>13 DEF WatchInv

LEMMA SearchRefusedStep ==
  ASSUME WatchInv, NEW c \in Watch!Conns, Watch!SearchRefused(c)
  PROVE  WatchInv'
<1> DEFINE ks == [conn EXCEPT ![c] = Watch!Popped(@)]
           r == Watch!CheckOver(w, ks)
<1>1. Good(w, loops, conn, drops) /\ conn[c].queue # <<>>
  BY InvFields DEF Watch!SearchRefused, Watch!Executing
<1>2. /\ w' = r.v /\ conn' = r.ks /\ missed' \in BOOLEAN
      /\ drops < MaxDrops /\ drops' = drops + 1 /\ UNCHANGED <<loops, mail, reported>>
  BY DEF Watch!SearchRefused, Watch!Fault
<1>3. Good(w, loops, ks, drops)
  BY <1>1, PoppedKept
<1> HIDE DEF ks
<1>4. Good(r.v, loops, r.ks, drops) /\ r.v.uidNext = w.uidNext /\ r.v.since = w.since
  BY <1>3, CheckOverKept
<1> HIDE DEF r
<1>5. Good(r.v, loops, r.ks, drops + 1)
  BY <1>2, <1>4, Faulty
<1> QED
  BY <1>2, <1>4, <1>5, Quiet

LEMMA PollAnsweredStep ==
  ASSUME WatchInv, NEW c \in Watch!Conns, Watch!PollAnswered(c)
  PROVE  WatchInv'
<1> DEFINE ks == [conn EXCEPT ![c] = Watch!Popped(@)]
           r == Watch!ScheduleCheck(w, ks)
<1>1. Good(w, loops, conn, drops) /\ conn[c].queue # <<>>
  BY InvFields DEF Watch!PollAnswered, Watch!Executing
<1>2. w' = r.v /\ conn' = r.ks /\ UNCHANGED <<loops, mail, reported, missed, drops>>
  BY DEF Watch!PollAnswered
<1>3. Good(w, loops, ks, drops)
  BY <1>1, PoppedKept
<1> HIDE DEF ks
<1>4. Good(r.v, loops, r.ks, drops) /\ r.v.uidNext = w.uidNext /\ r.v.since = w.since
  BY <1>3, ScheduleKept
<1> HIDE DEF r
<1> QED
  BY <1>2, <1>4, InvFields, Quiet

LEMMA TellStep == ASSUME WatchInv, NEW c \in Watch!Conns, Watch!Tell(c) PROVE WatchInv'
<1> DEFINE k == [conn[c] EXCEPT !.told = mail.next]
           ks == [conn EXCEPT ![c].told = mail.next]
           r == IF conn[c].at = "open" THEN Watch!ScheduleCheck(w, ks) ELSE [v |-> w, ks |-> ks]
<1>1. /\ Good(w, loops, conn, drops) /\ conn \in [Watch!Conns -> Connection]
      /\ conn[c] \in Connection /\ mail.next \in 1..MaxMail + 1
  BY InvFields
<1>2. /\ w' = r.v /\ conn' = r.ks /\ missed' \in BOOLEAN
      /\ UNCHANGED <<loops, mail, reported, drops>>
  BY InvFields DEF Watch!Tell
<1>3. k \in Connection /\ k.at = conn[c].at /\ k.queue = conn[c].queue /\ k.seen = conn[c].seen
  <2>1. mail.next \in 0..MaxMail + 1
    BY <1>1, Bounds
  <2> QED
    BY <1>1, <2>1 DEF Connection
<1>4. ks = [conn EXCEPT ![c] = k]
  BY <1>1
<1> HIDE DEF k, ks
<1>5. Good(w, loops, ks, drops)
  BY <1>1, <1>3, <1>4, SeenKept, WatchConnectionKept
<1>6. Good(r.v, loops, r.ks, drops) /\ r.v.uidNext = w.uidNext /\ r.v.since = w.since
  BY <1>5, ScheduleKept
<1> HIDE DEF r
<1> QED
  BY <1>2, <1>6, Quiet

LEMMA ExaminedStep == ASSUME WatchInv, NEW c \in Watch!Conns, Watch!Examined(c) PROVE WatchInv'
<1> DEFINE anew == w.box # 0 /\ w.box # mail.box
           from == IF anew THEN conn[c].seen ELSE w.uidNext
           v == Watch!Adopted(w, c)
           k == [conn[c] EXCEPT !.at = "open", !.poll = ~w.idle]
           ks == [conn EXCEPT ![c].at = "open", ![c].poll = ~w.idle]
           r == IF from # 0 /\ from < conn[c].seen THEN Watch!ScheduleCheck(v, ks) ELSE [v |-> v, ks |-> ks]
<1>1. /\ Good(w, loops, conn, drops) /\ w \in Watcher /\ conn \in [Watch!Conns -> Connection]
      /\ conn[c] \in Connection /\ conn[c].at = "examined" /\ mail.box \in Watch!Boxes
      /\ missed \in BOOLEAN
  BY InvFields DEF Watch!Examined
<1>2. /\ w' = r.v
      /\ conn' = IF w.idle THEN [r.ks EXCEPT ![c] = Watch!Queued(@, "idle")] ELSE r.ks
      /\ loops' = IF w.idle THEN loops ELSE Watch!Returning(loops, c)
      /\ reported' = IF anew THEN [u \in Watch!Uids |-> 0] ELSE reported
      /\ UNCHANGED <<mail, missed, drops>>
  BY DEF Watch!Examined
<1>3. /\ 1 <= conn[c].seen /\ conn[c].seen \in 0..MaxMail + 1 /\ conn[c].seen \in Nat
      /\ w.uidNext \in Nat /\ w.since \in Nat
      /\ mail.box \in 0..MaxMailboxes /\ mail.box # 0
  BY <1>1, SeenKept, ConnectionFields, Numbers, Bounds DEF Watch!Boxes
<1>4. /\ w.box = 0 => w.uidNext = 0 /\ w.since = 0
      /\ w.box # 0 => 1 <= w.since /\ w.since <= w.uidNext
  BY <1>1 DEF Good, WatchKnown
<1>5. /\ v \in Watcher /\ v.stopped = w.stopped /\ v.stop = w.stop /\ v.closing = w.closing
      /\ v.client = c /\ v.box = mail.box
      /\ v.uidNext = IF w.box = mail.box THEN w.uidNext ELSE conn[c].seen
      /\ v.since = IF w.box = mail.box THEN w.since ELSE conn[c].seen
  <2>1. CASE w.box = mail.box
    <3>1. ~anew /\ w.uidNext # 0
      BY <1>3, <1>4, <2>1
    <3>2. v = [w EXCEPT !.box = mail.box, !.client = c, !.uidNext = w.uidNext, !.since = w.since]
      BY <1>1, <2>1, <3>1 DEF Watch!Adopted, Watcher
    <3> QED
      BY <1>1, <1>3, <2>1, <3>2 DEF Watcher
  <2>2. CASE w.box # mail.box
    <3>1. anew \/ w.uidNext = 0
      BY <1>4, <2>2
    <3>2. v = [w EXCEPT !.box = mail.box, !.client = c, !.uidNext = conn[c].seen,
                        !.since = conn[c].seen]
      BY <1>1, <2>2, <3>1 DEF Watch!Adopted, Watcher
    <3> QED
      BY <1>1, <1>3, <2>2, <3>2 DEF Watcher
  <2> QED
    BY <2>1, <2>2
<1>6. k \in Connection /\ k.at = "open" /\ k.queue = conn[c].queue
  <2>1. w.idle \in BOOLEAN
    BY <1>1, WatcherFields, WatchConstantsFit DEF Watch!ConstantsFit
  <2> QED
    BY <1>1, <2>1 DEF Connection
<1>7. ks = [conn EXCEPT ![c] = k]
  BY <1>1
<1> HIDE DEF v, k, ks
<1>8. Good(v, loops, ks, drops)
  <2>1. /\ WatchTypes(w, loops, conn, drops) /\ WatchKnown(w, conn) /\ Stops(w, conn)
        /\ WatchOpens(loops, conn) /\ Few(w, loops, conn, drops)
    BY <1>1 DEF Good
  <2>2. ks \in [Watch!Conns -> Connection] /\ ks[c] = k /\ \A d \in Watch!Conns \ {c} : ks[d] = conn[d]
    BY <1>1, <1>6, <1>7
  <2>3. WatchTypes(v, loops, ks, drops)
    BY <1>5, <2>1, <2>2 DEF WatchTypes
  <2>4. WatchKnown(v, ks)
    <3>1. 1 <= v.since /\ v.since <= v.uidNext /\ v.box # 0
      BY <1>3, <1>4, <1>5
    <3>2. \A d \in Watch!Conns : ks[d].at = "examined" => 1 <= ks[d].seen
      BY <1>6, <2>1, <2>2 DEF WatchKnown
    <3> QED
      BY <3>1, <3>2 DEF WatchKnown
  <2>5. Stops(v, ks)
    BY <1>5, <1>6, <2>1, <2>2 DEF Stops
  <2>6. WatchOpens(loops, ks)
    <3>1. \A l \in Watch!Loops : loops[l].via \in {0} \cup Watch!Conns
      BY <2>1, OpenCallFields DEF WatchTypes
    <3> QED
      BY <1>6, <2>1, <2>2, <3>1 DEF WatchOpens
  <2>7. Few(v, loops, ks, drops)
    <3>1. Used(ks) = Used(conn)
      BY <1>1, <1>6, <2>2 DEF Used
    <3> QED
      BY <1>3, <1>5, <2>1, <3>1 DEF Few
  <2> QED
    BY <2>3, <2>4, <2>5, <2>6, <2>7 DEF Good
<1>9. Good(r.v, loops, r.ks, drops) /\ r.v.uidNext = v.uidNext /\ r.v.since = v.since
  BY <1>8, ScheduleKept
<1> HIDE DEF r
<1>10. Good(r.v, loops, conn', drops)
  <2>1. CASE w.idle
    <3> DEFINE q == Watch!Queued(r.ks[c], "idle")
    <3>1. r.ks \in [Watch!Conns -> Connection] /\ r.ks[c] \in Connection
      BY <1>9 DEF Good, WatchTypes
    <3>2. /\ q \in Connection /\ q.at = r.ks[c].at /\ q.seen = r.ks[c].seen
          /\ Watch!ToSet(q.queue) = Watch!ToSet(r.ks[c].queue) \cup {"idle"}
      BY <3>1, QueuedFields DEF Watch!Commands
    <3>3. conn' = [r.ks EXCEPT ![c] = q]
      BY <1>2, <2>1, <3>1
    <3> HIDE DEF q
    <3>4. /\ "search" \in Watch!ToSet(q.queue) => "search" \in Watch!ToSet(r.ks[c].queue)
          /\ "logout" \in Watch!ToSet(q.queue) => "logout" \in Watch!ToSet(r.ks[c].queue)
      BY <3>2
    <3>5. q.at = "examined" => 1 <= q.seen
      BY <1>9, <3>2 DEF Good, WatchKnown
    <3> QED
      BY <1>9, <3>2, <3>3, <3>4, <3>5, WatchConnectionKept
  <2>2. CASE ~w.idle
    BY <1>2, <1>9, <2>2
  <2> QED
    BY <2>1, <2>2
<1>11. Good(w', loops', conn', drops')
  BY <1>2, <1>10, ReturningKept
<1>12. reported' \in [Watch!Uids -> Nat] /\ Counted(w', reported')
  <2>1. reported \in [Watch!Uids -> Nat] /\ Counted(w, reported)
    BY DEF WatchInv
  <2>2. w'.uidNext = v.uidNext /\ w'.since = v.since
    BY <1>2, <1>9
  <2>3. CASE w.box = mail.box
    BY <1>2, <1>5, <2>1, <2>2, <2>3 DEF Counted
  <2>4. CASE w.box # mail.box
    <3>1. w'.uidNext = conn[c].seen /\ w'.since = conn[c].seen
      BY <1>5, <2>2, <2>4
    <3>2. reported' = [u \in Watch!Uids |-> 0]
      <4>1. CASE w.box = 0
        <5>1. \A u \in Watch!Uids : reported[u] = 0
          BY <1>4, <2>1, <4>1, Bounds DEF Counted, Watch!Uids
        <5> QED
          BY <1>2, <2>1, <4>1, <5>1
      <4>2. CASE w.box # 0
        BY <1>2, <2>4, <4>2
      <4> QED
        BY <4>1, <4>2
    <3> QED
      BY <1>3, <3>1, <3>2, Bounds DEF Counted, Watch!Uids
  <2> QED
    BY <2>3, <2>4
<1> QED
  BY <1>1, <1>2, <1>11, <1>12 DEF WatchInv

-----------------------------------------------------------------------------
(* stop().                                                                 *)

LEMMA StopStep == ASSUME WatchInv, Watch!Stop PROVE WatchInv'
<1> DEFINE d == w.connecting
           torn(c) == c = d /\ conn[c].at = "login"
           stays(c) == IF c = w.stopIdle THEN [Watch!IdleEnded(conn[c]) EXCEPT !.poll = FALSE]
                       ELSE IF c = w.client THEN [conn[c] EXCEPT !.poll = FALSE]
                       ELSE conn[c]
           ks == [c \in Watch!Conns |-> IF torn(c) THEN conn[c] ELSE stays(c)]
           e == IF d # 0 /\ conn[d].at = "login" THEN 0 ELSE d
           u == [w EXCEPT !.stopped = TRUE, !.stop = "idle", !.closing = w.stopIdle,
                          !.stopIdle = 0, !.connecting = e]
<1>1. /\ Good(w, loops, conn, drops) /\ w \in Watcher /\ conn \in [Watch!Conns -> Connection]
      /\ loops \in [Watch!Loops -> OpenCall] /\ d \in {0} \cup Watch!Conns
      /\ w.stopIdle \in {0} \cup Watch!Conns
  BY InvFields, WatcherFields
<1>2. w' = u /\ UNCHANGED <<mail, reported, missed, drops>>
  BY DEF Watch!Stop
<1>3. /\ conn' = [c \in Watch!Conns |-> IF torn(c) THEN Watch!NoConn ELSE ks[c]]
      /\ loops' = [l \in Watch!Loops |-> IF loops[l].via # 0 /\ loops[l].via = d /\ conn[d].at = "login"
                                         THEN [at |-> "off", via |-> 0] ELSE loops[l]]
  <2>1. ASSUME NEW c \in Watch!Conns
        PROVE  conn'[c] = IF torn(c) THEN Watch!NoConn ELSE ks[c]
    BY DEF Watch!Stop
  <2> QED
    BY <2>1 DEF Watch!Stop
<1>4. /\ u \in Watcher /\ u.stopped /\ u.stop = "idle" /\ u.client = w.client /\ u.box = w.box
      /\ u.since = w.since /\ u.uidNext = w.uidNext
  <2>1. e \in {0} \cup Watch!Conns
    BY <1>1
  <2> HIDE DEF e
  <2> QED
    BY <1>1, <2>1 DEF Watcher
<1>5. /\ ks \in [Watch!Conns -> Connection]
      /\ \A c \in Watch!Conns : /\ ks[c].at = conn[c].at /\ ks[c].queue = conn[c].queue
                                /\ ks[c].seen = conn[c].seen
  <2>1. ASSUME NEW k \in Connection
        PROVE  /\ [k EXCEPT !.poll = FALSE] \in Connection
               /\ [k EXCEPT !.poll = FALSE].at = k.at /\ [k EXCEPT !.poll = FALSE].queue = k.queue
               /\ [k EXCEPT !.poll = FALSE].seen = k.seen
               /\ Watch!IdleEnded(k) \in Connection /\ Watch!IdleEnded(k).at = k.at
               /\ Watch!IdleEnded(k).queue = k.queue /\ Watch!IdleEnded(k).seen = k.seen
    BY DEF Connection, Watch!IdleEnded
  <2>2. ASSUME NEW c \in Watch!Conns
        PROVE  /\ ks[c] \in Connection
               /\ ks[c].at = conn[c].at /\ ks[c].queue = conn[c].queue /\ ks[c].seen = conn[c].seen
    <3>1. ks[c] \in {conn[c], [conn[c] EXCEPT !.poll = FALSE],
                     [Watch!IdleEnded(conn[c]) EXCEPT !.poll = FALSE]}
      OBVIOUS
    <3> HIDE DEF ks
    <3>2. conn[c] \in Connection /\ Watch!IdleEnded(conn[c]) \in Connection
      BY <1>1, <2>1
    <3>3. CASE ks[c] = conn[c]
      BY <3>2, <3>3
    <3>4. CASE ks[c] = [conn[c] EXCEPT !.poll = FALSE]
      BY <2>1, <3>2, <3>4
    <3>5. CASE ks[c] = [Watch!IdleEnded(conn[c]) EXCEPT !.poll = FALSE]
      BY <2>1, <3>2, <3>5
    <3> QED
      BY <3>1, <3>3, <3>4, <3>5
  <2>3. ks = [c \in Watch!Conns |-> ks[c]]
    OBVIOUS
  <2> HIDE DEF ks
  <2> QED
    BY <2>2, <2>3
<1> HIDE DEF ks, u
<1>6. Follows(w, conn, u, ks)
  BY <1>1, <1>4, <1>5, FollowsSelf DEF Follows
<1>7. Good(u, loops, ks, drops)
  BY <1>1, <1>6, Kept
<1>8. Good(u, loops', conn', drops)
  <2>1. CASE d # 0 /\ conn[d].at = "login"
    <3>1. d \in Watch!Conns /\ conn' = [ks EXCEPT ![d] = Watch!NoConn]
      BY <1>1, <1>3, <1>5, <2>1
    <3>2. /\ loops' \in [Watch!Loops -> OpenCall]
          /\ \A l \in Watch!Loops : /\ loops[l].via # d => loops'[l] = loops[l]
                                    /\ loops[l].via = d => loops'[l].via = 0 /\ loops'[l].at = "off"
      <4>1. [at |-> "off", via |-> 0] \in OpenCall
        BY DEF OpenCall
      <4> QED
        BY <1>1, <1>3, <2>1, <4>1
    <3>3. Good(u, loops', [ks EXCEPT ![d] = Watch!NoConn], drops)
      BY <1>7, <3>1, <3>2, Gone
    <3> QED
      BY <3>1, <3>3
  <2>2. CASE ~(d # 0 /\ conn[d].at = "login")
    <3>1. conn' = ks
      BY <1>3, <1>5, <2>2, Bounds
    <3>2. loops' = loops
      BY <1>1, <1>3, <2>2
    <3> QED
      BY <1>7, <3>1, <3>2
  <2> QED
    BY <2>1, <2>2
<1> QED
  BY <1>2, <1>4, <1>8, InvFields, Quiet

LEMMA StopClosesStep == ASSUME WatchInv, Watch!StopCloses PROVE WatchInv'
<1> DEFINE u == [w EXCEPT !.stop = "close", !.closing = w.client]
           c == w.client
           k == Watch!Queued(conn[c], "logout")
<1>1. /\ Good(w, loops, conn, drops) /\ w \in Watcher /\ conn \in [Watch!Conns -> Connection]
      /\ w.client \in {0} \cup Watch!Conns
  BY InvFields, WatcherFields
<1>2. w.stopped
  BY <1>1 DEF Watch!StopCloses, Good, Stops
<1>3. /\ u \in Watcher /\ u.stopped = w.stopped /\ u.stop = "close" /\ u.client = w.client
      /\ u.box = w.box /\ u.since = w.since /\ u.uidNext = w.uidNext /\ w' = u
  BY <1>1 DEF Watcher, Watch!StopCloses
<1>4. UNCHANGED <<loops, mail, reported, missed, drops>>
  BY DEF Watch!StopCloses
<1> HIDE DEF u
<1>5. Follows(w, conn, u, conn)
  BY <1>1, <1>2, <1>3, FollowsSelf DEF Follows
<1>6. Good(u, loops, conn, drops)
  BY <1>1, <1>5, Kept
<1>7. CASE c = 0
  BY <1>3, <1>4, <1>6, <1>7, InvFields, Quiet DEF Watch!StopCloses
<1>8. CASE c # 0
  <2>1. /\ c \in Watch!Conns /\ k \in Connection /\ k.at = conn[c].at /\ k.seen = conn[c].seen
        /\ Watch!ToSet(k.queue) = Watch!ToSet(conn[c].queue) \cup {"logout"}
    BY <1>1, <1>8, QueuedFields DEF Watch!Commands
  <2>2. conn' = [conn EXCEPT ![c] = k]
    BY <1>1, <1>8, <2>1 DEF Watch!StopCloses
  <2> HIDE DEF k, c
  <2>3. "search" \in Watch!ToSet(k.queue) => "search" \in Watch!ToSet(conn[c].queue)
    BY <2>1
  <2>4. Good(u, loops, conn', drops)
    BY <1>2, <1>3, <1>6, <2>1, <2>2, <2>3, SeenKept, WatchConnectionKept
  <2> QED
    BY <1>3, <1>4, <2>4, InvFields, Quiet
<1> QED
  BY <1>7, <1>8

LEMMA StopReturnsStep == ASSUME WatchInv, Watch!StopReturns PROVE WatchInv'
<1> DEFINE u == [w EXCEPT !.stop = "done", !.client = 0, !.closing = 0]
<1>1. Good(w, loops, conn, drops) /\ w \in Watcher
  BY InvFields
<1>2. w.stopped
  BY <1>1 DEF Watch!StopReturns, Good, Stops
<1>3. /\ u \in Watcher /\ u.stopped = w.stopped /\ u.stop = "done" /\ u.client = 0
      /\ u.closing = 0 /\ u.box = w.box /\ u.since = w.since /\ u.uidNext = w.uidNext /\ w' = u
  BY <1>1 DEF Watcher, Watch!StopReturns
<1>4. UNCHANGED <<loops, conn, mail, reported, missed, drops>>
  BY DEF Watch!StopReturns
<1> HIDE DEF u
<1>5. Follows(w, conn, u, conn)
  BY <1>1, <1>2, <1>3, FollowsSelf DEF Follows
<1>6. Good(u, loops, conn, drops)
  BY <1>1, <1>5, Kept
<1> QED
  BY <1>3, <1>4, <1>6, InvFields, Quiet

-----------------------------------------------------------------------------
(* The watcher reports each new message once.                              *)

LEMMA WatchInitInv == ASSUME Watch!Init PROVE WatchInv
<1>1. PICK idle \in Idles :
        w = [idle |-> idle, stopped |-> FALSE, client |-> 0, stopIdle |-> 0, connecting |-> 0,
             checking |-> 0, recheck |-> FALSE, uidNext |-> 0, box |-> 0, since |-> 0,
             stop |-> "no", closing |-> 0]
  BY DEF Watch!Init
<1>2. /\ loops = [l \in Watch!Loops |-> [at |-> "off", via |-> 0]]
      /\ conn = [c \in Watch!Conns |-> Watch!NoConn]
      /\ mail = [next |-> 1, box |-> 1]
      /\ reported = [u \in Watch!Uids |-> 0]
      /\ missed = FALSE /\ drops = 0
  BY DEF Watch!Init
<1>3. /\ 0 \in 0..MaxMail + 1 /\ 0 \in 0..MaxMailboxes /\ 0 \in 0..MaxDrops
      /\ 1 \in 1..MaxMail + 1 /\ 1 \in Watch!Boxes
  BY Bounds DEF Watch!Boxes
<1>4. WatchTypes(w, loops, conn, drops)
  <2>1. w \in Watcher
    BY <1>1, <1>3 DEF Watcher
  <2>2. loops \in [Watch!Loops -> OpenCall]
    BY <1>2 DEF OpenCall
  <2>3. conn \in [Watch!Conns -> Connection]
    BY <1>2, NoConnFields
  <2> QED
    BY <1>2, <1>3, <2>1, <2>2, <2>3 DEF WatchTypes
<1>5. WatchKnown(w, conn) /\ Stops(w, conn)
  BY <1>1, <1>2, NoConnFields DEF WatchKnown, Stops
<1>6. WatchOpens(loops, conn)
  BY <1>2, Bounds DEF WatchOpens
<1>7. Few(w, loops, conn, drops)
  <2>1. Used(conn) = {} /\ Asleep(loops) = {}
    BY <1>2, NoConnFields DEF Used, Asleep
  <2>2. 0 + 0 <= drops + 1
    BY <1>2
  <2> QED
    BY <1>2, <2>1, <2>2, FS_EmptySet DEF Few
<1>8. reported \in [Watch!Uids -> Nat] /\ Counted(w, reported)
  BY <1>1, <1>2, Bounds DEF Counted, Watch!Uids
<1>9. mail \in [next : 1..MaxMail + 1, box : Watch!Boxes]
  BY <1>2, <1>3
<1> QED
  BY <1>2, <1>4, <1>5, <1>6, <1>7, <1>8, <1>9 DEF WatchInv, Good

LEMMA WatchInvStep == ASSUME WatchInv, [Watch!Next]_Watch!vars PROVE WatchInv'
<1>1. CASE Watch!Start
  BY <1>1, StartStep
<1>2. CASE Watch!Stop
  BY <1>2, StopStep
<1>3. CASE Watch!Stopping
  BY <1>3, StopClosesStep, StopReturnsStep DEF Watch!Stopping
<1>4. CASE Watch!Arrive
  BY <1>4, ArriveStep
<1>5. CASE Watch!Recreate
  BY <1>5, RecreateStep
<1>6. ASSUME NEW l \in Watch!Loops, Watch!Wake(l) PROVE WatchInv'
  BY <1>6, WakeStep
<1>7. ASSUME NEW c \in Watch!Conns, Watch!Opening(c) PROVE WatchInv'
  BY <1>7, AttachStep, LoggedInStep, ServeExamineStep, ExaminedStep DEF Watch!Opening
<1>8. ASSUME NEW c \in Watch!Conns, Watch!Command(c) PROVE WatchInv'
  BY <1>8, IdleEnteredStep, IdleDoneStep, WatchServeStep, SearchAnsweredStep, PollAnsweredStep,
     WatchLoggedOutStep DEF Watch!Command
<1>9. ASSUME NEW c \in Watch!Conns, Watch!Tell(c) \/ Watch!Poll(c) \/ Watch!Renew(c) PROVE WatchInv'
  BY <1>9, TellStep, PollStep, RenewStep
<1>10. ASSUME NEW c \in Watch!Conns, Watch!ConnectFails(c) \/ Watch!SearchRefused(c) \/ Watch!Drop(c)
       PROVE  WatchInv'
  BY <1>10, ConnectFailsStep, SearchRefusedStep, DropStep
<1>11. CASE UNCHANGED Watch!vars
  BY <1>11 DEF Watch!vars, WatchInv
<1> QED
  BY <1>1, <1>2, <1>3, <1>4, <1>5, <1>6, <1>7, <1>8, <1>9, <1>10, <1>11 DEF Watch!Next

LEMMA InvPromises == ASSUME WatchInv PROVE EachNewOnce
<1>1. WatchTypes(w, loops, conn, drops)
  BY InvFields
<1>2. Watch!TypeOK
  BY <1>1 DEF WatchInv, Watch!TypeOK, WatchTypes, Watcher, OpenCall, Connection
<1>3. Watch!SeenOnce
  BY DEF WatchInv, Watch!SeenOnce, Counted
<1> QED
  BY <1>2, <1>3 DEF EachNewOnce

\* The messages reported are those from the start of the watch up to uidNext, each
\* once, whatever connection was lost, search refused or mailbox made anew.
THEOREM NewMailOnce == WatchSpec => []EachNewOnce
<1>1. Watch!Init => WatchInv
  BY WatchInitInv
<1>2. WatchInv /\ [Watch!Next]_Watch!vars => WatchInv'
  BY WatchInvStep
<1>3. WatchInv => EachNewOnce
  BY InvPromises
<1> QED
  BY <1>1, <1>2, <1>3, PTL DEF WatchSpec, Watch!FairSpec, Watch!Spec
=============================================================================
