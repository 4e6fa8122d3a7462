----------------------------- MODULE SmtpClient -----------------------------
(***************************************************************************)
(* One SMTP connection, src/src/smtp/SmtpClient.ts: dialling, greeting,    *)
(* EHLO, STARTTLS, AUTH, transactions, QUIT, and the queue of waits that   *)
(* matches the server's replies to the commands.                           *)
(*                                                                         *)
(* A step is one event (a reply, a timer, an event of the socket) with the *)
(* microtasks it starts: the call under way goes on until its next await.  *)
(* One call of connect(), send(), verify() or quit() is under way at a     *)
(* time, as the callers of the class make them; destroy() comes at any     *)
(* time.  The server is the environment: it answers commands in order, as  *)
(* late as it likes.                                                       *)
(***************************************************************************)
EXTENDS Naturals, Sequences, FiniteSets

CONSTANTS
  Rcpts,     \* the number of recipients of a message
  Messages,  \* the number of messages one connection is given
  Configs,   \* the configurations (see Config)
  Faults     \* what may go wrong: "silence": a reply comes too late, "error": a
             \* socket error, "close": the server closes, "noise": a reply the
             \* stream refuses, "destroy": the caller aborts

\* secure: TLS from the start; insist: resolveRequireTLS(); must: requireTLS is
\* TRUE; refresh: a token provider is configured; every: allRecipientsRequired;
\* patient: socketTimeout is at least the minute a message body is given;
\* heard: the client has an `error' listener; offers: the server's EHLO keywords.
Caps == [starttls : BOOLEAN, pipelining : BOOLEAN, auth : BOOLEAN]

Config == [secure : BOOLEAN, insist : BOOLEAN, must : BOOLEAN,
           auth : {"none", "plain", "login", "xoauth2"}, refresh : BOOLEAN,
           every : BOOLEAN, patient : BOOLEAN, heard : BOOLEAN, offers : Caps]

ASSUME SmtpClientConstants ==
  /\ Rcpts \in Nat \ {0} /\ Messages \in Nat \ {0}
  /\ Configs \subseteq Config
  /\ \A cfg \in Configs : cfg.must => cfg.insist
  /\ Faults \subseteq {"silence", "error", "close", "noise", "destroy"}

\* Definitions that are used nowhere below are variants of the definition that
\* follows them, each with a mistake that a property is meant to catch.

VARIABLES
  c,       \* the fields of SmtpClient, its socket and the call under way
  server,  \* what the server knows of the session
  lagged   \* a wait was given up whose reply was still to come

vars == <<c, server, lagged>>

-----------------------------------------------------------------------------
(* Types.                                                                  *)

SmtpStates == {"idle", "connecting", "greeting", "ehlo", "starttls", "auth",
               "ready", "sending", "quit", "closed", "error"}

\* Where the call under way awaits; "off": no call.
Stages == {"off", "dial", "greeting", "ehlo", "starttls", "upgrade", "ehlo_tls",
           "plain", "user", "pass", "login", "token", "xoauth2", "answer",
           "mail", "rcpt", "rcpts", "data", "body", "rset", "noop", "quit"}

Verbs == {"GREETING", "EHLO", "STARTTLS", "AUTH", "REPLY", "MAIL", "RCPT", "DATA",
          "BODY", "RSET", "NOOP", "QUIT"}

\* A command, and the wait for its reply; arg: a recipient or a message.
Command == [verb : Verbs, arg : 0..(Rcpts + Messages)]

\* Replies: 2xx, 3xx, 535, any other code from 400.  A wait may also end by its
\* timer, or by failPending() with a connection error.
Codes == {"ok", "more", "denied", "no"}
Good == {"ok", "more"}

\* What became of a send: its result, the recipients send() reports accepted,
\* those the server took it for, and whether the wait for the verdict was cut.
Outcome == [result : {"none", "sent", "failed"}, accepted : SUBSET (1..Rcpts),
            taken : SUBSET (1..Rcpts), cut : BOOLEAN]

TypeOK ==
  /\ c.state \in SmtpStates /\ c.at \in Stages /\ c.cfg \in Configs
  /\ c.socket \in {"none", "open", "destroyed", "closed"}
  /\ c.encrypted \in BOOLEAN /\ c.again \in BOOLEAN /\ c.crashed \in BOOLEAN
  /\ c.aborted \in {"no", "dialling", "attached"} /\ c.probed \in BOOLEAN
  /\ c.queue \in Seq([verb : Verbs, arg : 0..(Rcpts + Messages), live : BOOLEAN])
  /\ c.asked \in Seq(Command)
  /\ c.replies \in Seq([verb : Verbs, arg : 0..(Rcpts + Messages), code : Codes])
  /\ c.got \in [1..Rcpts -> {"unasked", "asked", "yes", "no", "lost"}]
  /\ c.message \in 0..Messages
  /\ c.mail \in [1..Messages -> Outcome]
  /\ server \in [rcpts : SUBSET (1..Rcpts), data : BOOLEAN]
  /\ lagged \in BOOLEAN

Unsent == [result |-> "none", accepted |-> {}, taken |-> {}, cut |-> FALSE]

Init ==
  /\ \E cfg \in Configs :
       c = [state |-> "idle", at |-> "off", cfg |-> cfg, socket |-> "none",
            encrypted |-> FALSE, again |-> FALSE, crashed |-> FALSE,
            aborted |-> "no", probed |-> FALSE, queue |-> <<>>, asked |-> <<>>,
            replies |-> <<>>, got |-> [i \in 1..Rcpts |-> "unasked"],
            message |-> 0, mail |-> [m \in 1..Messages |-> Unsent]]
  /\ server = [rcpts |-> {}, data |-> FALSE]
  /\ lagged = FALSE

-----------------------------------------------------------------------------
(* Commands and waits.                                                     *)

\* readReply(), then a write: nothing leaves a socket that is not open.
Ask(k, verb, arg) ==
  [k EXCEPT !.queue = Append(@, [verb |-> verb, arg |-> arg, live |-> TRUE]),
            !.asked = IF k.socket = "open"
                      THEN Append(@, [verb |-> verb, arg |-> arg]) ELSE @]

Await(k, verb, arg, stage) == [Ask(k, verb, arg) EXCEPT !.at = stage]

\* The call under way ends, by a return or by a throw.
Ends(k) == [k EXCEPT !.at = "off"]

Destroyed(k) == IF k.socket = "open" THEN [k EXCEPT !.socket = "destroyed"] ELSE k

-----------------------------------------------------------------------------
(* connect(): each operator is what follows an await.                      *)

Ready(k) == Ends([k EXCEPT !.state = "ready"])

\* attachSocket(): a new stream, so no reply of before is left.
Attached(k, tls) ==
  [k EXCEPT !.socket = "open", !.encrypted = tls, !.replies = <<>>]

Ehlo(k, stage) == Await([k EXCEPT !.state = "ehlo"], "EHLO", 0, stage)

\* authXOAuth2(): the token is awaited first.
FetchToken(k, again) == [k EXCEPT !.at = "token", !.again = again]

\* doAuth(): without the mechanism it throws.
Auth(k) ==
  LET a == [k EXCEPT !.state = "auth"]
  IN  IF k.cfg.auth = "none" THEN Ready(k)
      ELSE IF ~k.cfg.offers.auth THEN Ends(a)
      ELSE IF k.cfg.auth = "xoauth2" THEN FetchToken(a, FALSE)
      ELSE Await(a, "AUTH", 0, IF k.cfg.auth = "plain" THEN "plain" ELSE "user")

OnGreeting(k, o) == IF o = "ok" THEN Ehlo(k, "ehlo") ELSE Ends(k)

\* Over a connection that stays in the clear, it gives up rather than log in.
AfterEhlo(k) ==
  IF ~k.cfg.secure /\ k.cfg.offers.starttls
  THEN Await([k EXCEPT !.state = "starttls"], "STARTTLS", 0, "starttls")
  ELSE IF ~k.cfg.secure /\ (k.cfg.must \/ (k.cfg.auth # "none" /\ k.cfg.insist))
  THEN Ends(Destroyed(k))
  ELSE Auth(k)

OnStartTls(k, o) == IF o = "ok" THEN [k EXCEPT !.at = "upgrade"] ELSE Ends(k)

\* A rejected token is refreshed once.
OnXOAuth2(k, o) ==
  IF o = "ok" THEN Ready(k)
  ELSE IF o = "more" THEN Await(k, "REPLY", 0, "answer")
  ELSE IF o = "denied" /\ ~k.again /\ k.cfg.refresh THEN FetchToken(k, TRUE)
  ELSE Ends(k)

\* The answer to a challenge; a lost connection is an SmtpError too.
OnAnswer(k, o) ==
  IF o \in {"denied", "no", "lost"} /\ ~k.again /\ k.cfg.refresh
  THEN FetchToken(k, TRUE) ELSE Ends(k)

-----------------------------------------------------------------------------
(* send().                                                                 *)

Finish(k, result, accepted) ==
  Ends([k EXCEPT !.mail[k.message].result = result,
                 !.mail[k.message].accepted = accepted])

\* The catch block: RSET makes the connection usable again.
Fails(k) ==
  LET e == [k EXCEPT !.state = "error"]
  IN  IF k.socket = "open" THEN Await(e, "RSET", 0, "rset")
      ELSE Finish(e, "failed", {})

OnReset(k, o) ==
  IF o \in Good THEN Finish([k EXCEPT !.state = "ready"], "failed", {})
  ELSE Finish(Destroyed(k), "failed", {})

Accepted(k) == {i \in 1..Rcpts : k.got[i] = "yes"}

\* The replies to RCPT TO are in.
AfterRcpts(k) ==
  IF \/ Accepted(k) = {}
     \/ (k.cfg.every /\ Accepted(k) # 1..Rcpts)
  THEN Fails(k)
  ELSE Await(k, "DATA", k.message, "data")

\* serialRcpts() asks for one recipient, pipelineRcpts() for all of them.
AskRcpt(k, i) == Await([k EXCEPT !.got[i] = "asked"], "RCPT", i, "rcpt")

AskAll(k) ==
  [k EXCEPT !.at = "rcpts", !.got = [i \in 1..Rcpts |-> "asked"],
     !.queue = @ \o [i \in 1..Rcpts |-> [verb |-> "RCPT", arg |-> i, live |-> TRUE]],
     !.asked = IF k.socket = "open"
               THEN @ \o [i \in 1..Rcpts |-> [verb |-> "RCPT", arg |-> i]] ELSE @]

OnMail(k, o) ==
  LET a == [k EXCEPT !.got = [i \in 1..Rcpts |-> "unasked"]]
  IN  IF o \notin Good THEN Fails(k)
      ELSE IF k.cfg.offers.pipelining THEN AskAll(a) ELSE AskRcpt(a, 1)

\* A refusal is noted; a timeout or a lost connection ends the transaction.
Verdict(o) == IF o \in Good THEN "yes" ELSE IF o \in {"denied", "no"} THEN "no" ELSE "lost"

OnRcpt(k, o, i) ==
  LET g == [k EXCEPT !.got[i] = Verdict(o)]
  IN  IF g.got[i] = "lost" THEN Fails(g)
      ELSE IF i < Rcpts THEN AskRcpt(g, i + 1) ELSE AfterRcpts(g)

OnRcptsAllAnswered(k, o, i) ==
  LET g == [k EXCEPT !.got[i] = IF Verdict(o) = "lost" THEN "asked" ELSE Verdict(o)]
  IN  IF \E n \in 1..Rcpts : g.got[n] = "asked" THEN g ELSE AfterRcpts(g)

\* Promise.allSettled(): it goes on when the last wait has ended.
OnRcpts(k, o, i) ==
  LET g == [k EXCEPT !.got[i] = Verdict(o)]
  IN  IF \E n \in 1..Rcpts : g.got[n] = "asked" THEN g
      ELSE IF \E n \in 1..Rcpts : g.got[n] = "lost" THEN Fails(g)
      ELSE AfterRcpts(g)

OnData(k, o) == IF o \in Good THEN Await(k, "BODY", k.message, "body") ELSE Fails(k)

OnBodyAnyCode(k, o) ==
  IF o \in Good \cup {"no"}
  THEN Finish([k EXCEPT !.state = "ready"], "sent", Accepted(k))
  ELSE Fails([k EXCEPT !.mail[k.message].cut = o \in {"time", "lost"}])

OnBody(k, o) ==
  IF o = "ok" THEN Finish([k EXCEPT !.state = "ready"], "sent", Accepted(k))
  ELSE Fails([k EXCEPT !.mail[k.message].cut = o \in {"time", "lost"}])

OnQuit(k) == Ends([Destroyed(k) EXCEPT !.state = "closed"])

\* The call under way goes on with the outcome of its wait w.
Resume(k, w, o) ==
  CASE k.at = "greeting"               -> OnGreeting(k, o)
    [] k.at = "ehlo"                   -> IF o \in Good THEN AfterEhlo(k) ELSE Ends(k)
    [] k.at = "starttls"               -> OnStartTls(k, o)
    [] k.at = "ehlo_tls"               -> IF o \in Good THEN Auth(k) ELSE Ends(k)
    [] k.at \in {"plain", "login"}     -> IF o = "ok" THEN Ready(k) ELSE Ends(k)
    [] k.at = "user"                   -> IF o \in Good THEN Await(k, "REPLY", 0, "pass") ELSE Ends(k)
    [] k.at = "pass"                   -> IF o \in Good THEN Await(k, "REPLY", 0, "login") ELSE Ends(k)
    [] k.at = "xoauth2"                -> OnXOAuth2(k, o)
    [] k.at = "answer"                 -> OnAnswer(k, o)
    [] k.at = "mail"                   -> OnMail(k, o)
    [] k.at = "rcpt"                   -> OnRcpt(k, o, w.arg)
    [] k.at = "rcpts"                  -> OnRcpts(k, o, w.arg)
    [] k.at = "data"                   -> OnData(k, o)
    [] k.at = "body"                   -> OnBody(k, o)
    [] k.at = "rset"                   -> OnReset(k, o)
    [] k.at = "noop"                   -> Ends(k)
    [] k.at = "quit"                   -> OnQuit(k)

-----------------------------------------------------------------------------
(* Replies, timers and the events of the socket.                           *)

\* onReply(): the reply goes to the oldest wait, if there is one.
OnReply ==
  /\ c.socket = "open" /\ c.replies # <<>>
  /\ LET r == Head(c.replies)
         k == [c EXCEPT !.replies = Tail(@)]
         w == Head(c.queue)
         n == [k EXCEPT !.queue = Tail(@)]
     IN  c' = IF c.queue = <<>> THEN k ELSE IF w.live THEN Resume(n, w, r.code) ELSE n
  /\ UNCHANGED <<server, lagged>>

\* failPending(): every wait of the call under way is rejected.  But for the
\* recipients of a pipelined batch, it is one wait.
FailPending(k, o) ==
  LET live == {n \in DOMAIN k.queue : k.queue[n].live}
      n == [k EXCEPT !.queue = <<>>]
  IN  IF live = {} THEN n
      ELSE IF k.at = "rcpts"
      THEN Fails([n EXCEPT !.got = [i \in 1..Rcpts |->
                                      IF k.got[i] = "asked" THEN "lost" ELSE k.got[i]]])
      ELSE Resume(n, k.queue[CHOOSE l \in live : TRUE], o)

WaitTimesOutAlike ==
  \E n \in DOMAIN c.queue :
    LET w == c.queue[n]
        k == [c EXCEPT !.queue = SubSeq(@, 1, n - 1) \o SubSeq(@, n + 1, Len(@))]
    IN  /\ w.live
        /\ "silence" \in Faults \/ c.socket # "open"
        /\ c' = Resume(k, w, "time")
        /\ lagged' = (lagged \/ (w.verb # "BODY" /\ c.socket = "open"))
        /\ UNCHANGED server

\* The timer of a wait takes the wait out of the queue, but for a message body.
WaitTimesOut ==
  \E n \in DOMAIN c.queue :
    LET w == c.queue[n]
        k == IF w.verb = "BODY" THEN [c EXCEPT !.queue[n].live = FALSE]
             ELSE [c EXCEPT !.queue = SubSeq(@, 1, n - 1) \o SubSeq(@, n + 1, Len(@))]
    IN  /\ w.live
        /\ "silence" \in Faults \/ c.socket # "open"
        /\ c' = Resume(k, w, "time")
        /\ lagged' = (lagged \/ (w.verb # "BODY" /\ c.socket = "open"))
        /\ UNCHANGED server

\* The idle timer of the socket: the timer of a wait was set before it and comes
\* first, unless it is the longer one of a message body.
SocketIdle ==
  /\ "silence" \in Faults /\ c.socket = "open" /\ c.at # "dial"
  /\ \A n \in DOMAIN c.queue :
       c.queue[n].live => c.queue[n].verb = "BODY" /\ ~c.cfg.patient
  /\ c' = FailPending(Destroyed(c), "time")
  /\ UNCHANGED <<server, lagged>>

\* The `error' event: without a listener, emitting it ends the process.
SocketError ==
  /\ "error" \in Faults /\ c.socket = "open" /\ c.at # "upgrade"
  /\ c' = FailPending([Destroyed(c) EXCEPT !.state = "error", !.crashed = ~c.cfg.heard], "lost")
  /\ UNCHANGED <<server, lagged>>

\* SmtpStream refuses the input: an oversized line or too many lines.
StreamError ==
  /\ "noise" \in Faults /\ c.socket = "open" /\ c.at # "upgrade"
  /\ c' = FailPending([Destroyed(c) EXCEPT !.state = "error"], "time")
  /\ UNCHANGED <<server, lagged>>

\* The `close' event, of a destroyed socket or of one the server closes.
SocketClosed ==
  /\ \/ c.socket = "destroyed"
     \/ "close" \in Faults /\ c.socket = "open" /\ c.at # "upgrade"
  /\ c' = FailPending([c EXCEPT !.socket = "closed", !.state = "closed"], "lost")
  /\ UNCHANGED <<server, lagged>>

-----------------------------------------------------------------------------
(* The calls and what they await besides replies.                          *)

Connect ==
  /\ c.at = "off" /\ c.state = "idle"
  /\ c' = [c EXCEPT !.state = "connecting", !.at = "dial"]
  /\ UNCHANGED <<server, lagged>>

\* TCP, TLS or a proxy's tunnel: connected, or given up by its timer or an error.
Dialled ==
  /\ c.at = "dial"
  /\ \/ c' = Await([Attached(c, c.cfg.secure) EXCEPT !.state = "greeting"],
                   "GREETING", 0, "greeting")
     \/ c' = Ends(c)
  /\ UNCHANGED <<server, lagged>>

\* The handshake of STARTTLS: a socket destroyed meanwhile cannot finish it.
Upgraded ==
  /\ c.at = "upgrade"
  /\ \/ c.socket = "open" /\ c' = Ehlo(Attached(c, TRUE), "ehlo_tls")
     \/ c' = Ends(Destroyed(c))
  /\ UNCHANGED <<server, lagged>>

\* getToken() resolves or rejects.
TokenFetched ==
  /\ c.at = "token"
  /\ c' = Await(c, "AUTH", 0, "xoauth2") \/ c' = Ends(c)
  /\ UNCHANGED <<server, lagged>>

Send ==
  /\ c.at = "off" /\ c.state = "ready" /\ c.message < Messages
  /\ c' = Await([c EXCEPT !.state = "sending", !.message = @ + 1],
                "MAIL", c.message + 1, "mail")
  /\ UNCHANGED <<server, lagged>>

\* The message is too long for the server, or needs SMTPUTF8.
SendRefused ==
  /\ c.at = "off" /\ c.state = "ready" /\ c.message < Messages
  /\ c' = Finish([c EXCEPT !.message = @ + 1], "failed", {})
  /\ UNCHANGED <<server, lagged>>

\* verify(), once: probed bounds the calls.
Verify ==
  /\ c.at = "off" /\ c.state = "ready" /\ ~c.probed
  /\ c' = Await([c EXCEPT !.probed = TRUE], "NOOP", 0, "noop")
  /\ UNCHANGED <<server, lagged>>

\* Without a socket, command() throws, and quit() is done.
Quit ==
  /\ c.at = "off" /\ c.state \notin {"idle", "closed"}
  /\ c' = IF c.socket = "none" THEN OnQuit(c)
          ELSE Await([c EXCEPT !.state = "quit"], "QUIT", 0, "quit")
  /\ UNCHANGED <<server, lagged>>

\* destroy(), as onAbort calls it: a socket not yet attached is not reached.
Destroy ==
  /\ "destroy" \in Faults /\ c.aborted = "no"
  /\ c' = [Destroyed(c) EXCEPT !.state = "closed",
             !.aborted = IF c.socket = "none" THEN "dialling" ELSE "attached"]
  /\ UNCHANGED <<server, lagged>>

-----------------------------------------------------------------------------
(* The server.                                                             *)

Answers(a) ==
  CASE a.verb \in {"GREETING", "EHLO", "STARTTLS", "MAIL", "RCPT"} -> {"ok", "no"}
    [] a.verb \in {"AUTH", "REPLY"}         -> Codes
    [] a.verb = "DATA"                      -> IF server.rcpts = {} THEN {"no"} ELSE {"more", "no"}
    [] a.verb = "BODY"                      -> IF server.data THEN {"ok", "no"} ELSE {"no"}
    [] a.verb \in {"RSET", "NOOP", "QUIT"}  -> {"ok"}

\* What the server knows after it answered a with the code.
Session(a, code) ==
  CASE a.verb = "RCPT" /\ code = "ok"   -> [server EXCEPT !.rcpts = @ \cup {a.arg}]
    [] a.verb = "DATA" /\ code = "more" -> [server EXCEPT !.data = TRUE]
    [] a.verb \in {"MAIL", "RSET", "BODY"} -> [rcpts |-> {}, data |-> FALSE]
    [] OTHER                            -> server

\* After it asked for the body, whatever comes is part of the body.
Serve ==
  /\ c.socket = "open" /\ c.asked # <<>>
  /\ LET a == Head(c.asked)
         k == [c EXCEPT !.asked = Tail(@)]
     IN  IF server.data /\ a.verb # "BODY"
         THEN c' = k /\ UNCHANGED server
         ELSE \E code \in Answers(a) :
                /\ c' = [k EXCEPT !.replies =
                             Append(@, [verb |-> a.verb, arg |-> a.arg, code |-> code]),
                           !.mail = IF a.verb = "BODY" /\ code = "ok"
                                    THEN [@ EXCEPT ![a.arg].taken = server.rcpts] ELSE @]
                /\ server' = Session(a, code)
  /\ UNCHANGED lagged

-----------------------------------------------------------------------------

Progress == Dialled \/ Upgraded \/ TokenFetched

Next ==
  /\ ~c.crashed
  /\ \/ OnReply \/ WaitTimesOut \/ SocketIdle \/ SocketError \/ StreamError \/ SocketClosed
     \/ Connect \/ Progress \/ Send \/ SendRefused \/ Verify \/ Quit \/ Destroy
     \/ Serve

Spec == Init /\ [][Next]_vars

\* Timers fire, a destroyed socket emits `close', dialling and getToken() settle;
\* the server need not answer.
FairSpec ==
  /\ Spec
  /\ WF_vars(~c.crashed /\ WaitTimesOut)
  /\ WF_vars(~c.crashed /\ SocketClosed)
  /\ WF_vars(~c.crashed /\ Progress)

-----------------------------------------------------------------------------
(* Properties.                                                             *)

Asked(s) == [n \in DOMAIN s |-> [verb |-> s[n].verb, arg |-> s[n].arg]]

\* The waits are, in order, those for the replies on their way and for the
\* commands the server has still to answer, as long as no wait was given up
\* before its reply: a reply never answers another command.  (readReply(),
\* onReply(), the batches of pipelineRcpts(), the entry a cut body leaves.)
RepliesMatched ==
  ~lagged /\ c.socket = "open" => Asked(c.queue) = Asked(c.replies) \o c.asked

\* What send() returns is what the server did: a message reported sent was
\* taken for exactly the recipients reported accepted, and one reported failed
\* was not taken unless the wait for the verdict on its body was cut.
ResultTruthful ==
  \A m \in 1..Messages : LET s == c.mail[m] IN
    ~lagged => /\ s.result = "sent" => s.accepted = s.taken /\ s.taken # {}
               /\ s.result = "failed" /\ s.taken # {} => s.cut

\* Credentials go over the wire in the clear only where the configuration
\* allows it: not before STARTTLS, and not when the server does not offer it.
SecretsEncrypted ==
  (\E n \in DOMAIN c.asked : c.asked[n].verb \in {"AUTH", "REPLY"})
    => c.encrypted \/ ~c.cfg.insist

\* A client that says it is ready can take a message: no transaction is open at
\* the server, nobody waits but a verify(), and no reply is due.  (The catch
\* block of send() and its RSET, each way into `ready'.)  One that was destroyed
\* never says so, unless destroy() came before there was a socket to destroy.
ReadyMeansClean ==
  c.state = "ready" =>
    /\ c.aborted # "attached"
    /\ ~lagged /\ c.socket = "open" =>
         /\ c.at \in {"off", "noop"}
         /\ \A n \in DOMAIN c.queue : c.queue[n].verb = "NOOP"
         /\ ~server.data /\ server.rcpts = {}

\* What holds of the connection between any two events: a reply answers the
\* command it is for, a client that is ready can be used, no secret is bare.
DialogueInStep == TypeOK /\ RepliesMatched /\ ReadyMeansClean /\ SecretsEncrypted

\* Every call returns though the server falls silent, but for the handshake of
\* STARTTLS, which has no timer.
CallReturns ==
  (c.at \notin {"off", "upgrade"}) ~> (c.at \in {"off", "upgrade"} \/ c.crashed)
=============================================================================
