------------------------------- MODULE MailTs -------------------------------
(***************************************************************************)
(* The facade, src/src/core/MailTs.ts: a message on its way through send() *)
(* or the queue, the SMTP pool it leases from, the Sent mailbox it is      *)
(* saved to, the telemetry hooks, configure() and shutdown() at any point. *)
(*                                                                         *)
(* A step is what runs up to the next await.  The pool, the queue and the  *)
(* IMAP session are what they promise the facade: a pool leases its        *)
(* connections to one send each, passes one that comes back on to whoever  *)
(* waits, rejects the waiting when it is drained, and is drained when the  *)
(* last one is back; the queue attempts a job until it is accepted,        *)
(* permanently refused, or tried often enough.                             *)
(***************************************************************************)
EXTENDS Naturals, FiniteSets

CONSTANTS
  Mails,      \* the messages
  Setups,     \* devMode, pooling and the hooks (see Setup)
  Size,       \* connections of a pool
  MaxTries,   \* attempts of the queue at a message
  MaxConfigs, \* bound: calls of configure()
  MaxFaults   \* bound: failures of servers, middleware and message building

\* What a hook does: nothing of note, or it throws, an error of the network among
\* others.
Hook == {"quiet", "throws", "network"}
Setup == [dev : BOOLEAN, pooling : BOOLEAN, onSend : Hook, onError : Hook]

ASSUME MailTsConstants ==
  /\ Setups \subseteq Setup
  /\ Size \in Nat \ {0} /\ MaxTries \in Nat \ {0} /\ MaxConfigs \in Nat /\ MaxFaults \in Nat

\* Definitions that are used nowhere below are variants of the definition that
\* follows them, each with a mistake that a property is meant to catch.

VARIABLES
  m,     \* the fields of MailTs, and the shutdown() under way
  pool,  \* the SMTP pools, one for each configuration
  sess,  \* the sessions made for the Sent mailbox
  send,  \* the messages
  faults

vars == <<m, pool, sess, send, faults>>

\* Configurations of SMTP and of IMAP, and sessions, by number; 0 is null.
Configs == 1..MaxConfigs + 1
Sessions == 1..MaxConfigs + 2

-----------------------------------------------------------------------------
(* Types.                                                                  *)

\* acquire: waiting for a connection of the pool; connect: opening one.
Stages == {"new", "waiting", "prepare", "acquire", "connect", "transmit", "save", "find",
           "append", "report", "done"}

\* busy: who has a connection of the pool, or opens one; stranded: history, the last
\* connection could not be opened, which wakes nobody.  cut: history, how often the
\* server took the message and its reply was never read; saved: the account a copy
\* went to, and the account its mailbox was found on.
TypeOK ==
  /\ m \in [setup : Setups, smtp : Configs, imap : Configs, session : {0} \cup Sessions,
            mailbox : {0} \cup Configs, crossed : BOOLEAN,
            shut : {"no", "queue", "pool", "done"}]
  /\ pool \in [Configs -> [state : {"none", "open", "draining"}, busy : SUBSET Mails,
                           stranded : BOOLEAN]]
  /\ sess \in [Sessions -> [account : {0} \cup Configs, closed : BOOLEAN, late : BOOLEAN]]
  /\ send \in [Mails -> [queued : BOOLEAN, save : BOOLEAN, stage : Stages,
                         pool : {0} \cup Configs, sess : {0} \cup Sessions,
                         mailbox : {0} \cup Configs, tries : 0..MaxTries, accepted : Nat,
                         cut : Nat, result : {"none", "ok", "failed", "threw"},
                         saved : {<<>>} \cup (Configs \X Configs)]]
  /\ faults \in 0..MaxFaults

NewMail == [queued |-> FALSE, save |-> FALSE, stage |-> "new", pool |-> 0, sess |-> 0,
            mailbox |-> 0, tries |-> 0, accepted |-> 0, cut |-> 0, result |-> "none",
            saved |-> <<>>]

Fault == faults < MaxFaults /\ faults' = faults + 1
NoFault == UNCHANGED faults

-----------------------------------------------------------------------------
(* The end of sendDirect().                                                *)

Answered(k, result) == [k EXCEPT !.stage = "done", !.result = result, !.pool = 0, !.sess = 0]

\* The queue tries a message again after a retryable error, up to its limit.
Again(k, retryable) ==
  IF retryable /\ k.tries < MaxTries THEN [k EXCEPT !.stage = "waiting", !.pool = 0, !.sess = 0]
  ELSE Answered(k, "failed")

\* The outer catch: onError is called, then the error is the result; when onError
\* throws, sendDirect() throws, which sendQueued() turns into a result.
Failed(k, retryable) ==
  CASE m.setup.onError = "quiet" -> IF k.queued THEN Again(k, retryable) ELSE Answered(k, "failed")
    [] m.setup.onError # "quiet" -> IF k.queued THEN Again(k, m.setup.onError = "network")
                                    ELSE Answered(k, "threw")

\* The end of the try block: onSend is called, then the result is returned.
Succeeded(k) ==
  IF m.setup.onSend = "quiet" THEN Answered(k, "ok") ELSE Failed(k, m.setup.onSend = "network")

SaveFailureFails(k) == Failed(k, FALSE)

\* A copy that was not saved is reported to onError, whose own error fails the send.
Unsaved(k) ==
  IF m.setup.onError = "quiet" THEN Succeeded(k) ELSE Failed(k, m.setup.onError = "network")

-----------------------------------------------------------------------------
(* The pool.                                                               *)

DrainKeepingWaiters(g, new) ==
  /\ pool' = [[pool EXCEPT ![new].state = "open"] EXCEPT ![g].state = "draining"]
  /\ UNCHANGED send

\* drain() of pool g, after the pool of configuration new was made (g itself if
\* none was): whoever waits for a connection is rejected.
Drain(g, new) ==
  /\ pool' = [[pool EXCEPT ![new].state = "open"] EXCEPT ![g].state = "draining"]
  /\ send' = [t \in Mails |-> IF send[t].stage = "acquire" /\ send[t].pool = g
                              THEN Failed(send[t], TRUE) ELSE send[t]]

WaitingFor(g) == {w \in Mails : send[w].stage = "acquire" /\ send[w].pool = g}

\* The place of t in its pool is free again, and its record is k.
Leaves(t, k) ==
  /\ pool' = [g \in Configs |-> [pool[g] EXCEPT !.busy = @ \ {t}]]
  /\ send' = [send EXCEPT ![t] = k]

\* Somebody who waited has the place of t, and goes on to the stage next.
HandsOver(t, k, next) ==
  \E w \in WaitingFor(send[t].pool) :
    /\ pool' = [pool EXCEPT ![send[t].pool].busy = (@ \ {t}) \cup {w}]
    /\ send' = [r \in Mails |-> CASE r = t -> k
                                  [] r = w -> [send[r] EXCEPT !.stage = next]
                                  [] OTHER -> send[r]]

\* dispatchWaiting(): a connection is opened for whoever waits, while the pool is open.
Dispatches(t, k) ==
  LET g == send[t].pool
  IN  \/ WaitingFor(g) # {} /\ pool[g].state = "open" /\ HandsOver(t, k, "connect")
      \/ ~(WaitingFor(g) # {} /\ pool[g].state = "open") /\ Leaves(t, k)

\* release(): a connection that is ready goes to whoever waits; one that is not, or has
\* served long enough, is given up.
Releases(t, k) ==
  \/ WaitingFor(send[t].pool) # {} /\ HandsOver(t, k, "transmit")
  \/ WaitingFor(send[t].pool) = {} /\ Leaves(t, k)
  \/ Dispatches(t, k)

-----------------------------------------------------------------------------
(* A message.                                                              *)

\* send()
Send(t, save) ==
  /\ send[t].stage = "new"
  /\ LET k == [send[t] EXCEPT !.save = save, !.stage = "prepare", !.tries = 1]
     IN  send' = [send EXCEPT ![t] = IF m.setup.dev THEN Answered(k, "ok") ELSE k]
  /\ UNCHANGED <<m, pool, sess, faults>>

\* queue.enqueue(): refused once the queue is shut down.
Enqueue(t) ==
  /\ send[t].stage = "new" /\ m.shut = "no"
  /\ send' = [send EXCEPT ![t].queued = TRUE, ![t].stage = "waiting"]
  /\ UNCHANGED <<m, pool, sess, faults>>

\* The queue calls sendQueued().
Attempt(t) ==
  /\ send[t].stage = "waiting"
  /\ LET k == [send[t] EXCEPT !.stage = "prepare", !.tries = @ + 1]
     IN  send' = [send EXCEPT ![t] = IF m.setup.dev THEN Answered(k, "ok") ELSE k]
  /\ UNCHANGED <<m, pool, sess, faults>>

\* acquire() takes a free place of the pool, for an idle connection or a new one.
Acquire(t) ==
  /\ pool[m.smtp].state = "open" /\ Cardinality(pool[m.smtp].busy) < Size
  /\ pool' = [pool EXCEPT ![m.smtp].busy = @ \cup {t}, ![m.smtp].stranded = FALSE]
  /\ send' = [send EXCEPT ![t].stage = "connect", ![t].pool = m.smtp]

\* There is none: it waits.
Wait(t) ==
  /\ pool[m.smtp].state = "open" /\ Cardinality(pool[m.smtp].busy) >= Size
  /\ send' = [send EXCEPT ![t].stage = "acquire", ![t].pool = m.smtp]
  /\ UNCHANGED pool

\* Middleware has run and the message is built: sendSmtp() up to its await.
Prepared(t) ==
  /\ send[t].stage = "prepare"
  /\ \/ m.setup.pooling /\ (Acquire(t) \/ Wait(t))
     \/ /\ m.setup.pooling /\ pool[m.smtp].state # "open"
        /\ send' = [send EXCEPT ![t] = Failed(@, TRUE)] /\ UNCHANGED pool
     \/ /\ ~m.setup.pooling
        /\ send' = [send EXCEPT ![t].stage = "connect"] /\ UNCHANGED pool
  /\ UNCHANGED <<m, sess, faults>>

\* Middleware throws: out of send(), but not out of sendQueued().
MiddlewareThrows(t) ==
  /\ send[t].stage = "prepare" /\ Fault
  /\ send' = [send EXCEPT ![t] = IF @.queued THEN Again(@, FALSE) ELSE Answered(@, "threw")]
  /\ UNCHANGED <<m, pool, sess>>

BuildFails(t) ==
  /\ send[t].stage = "prepare" /\ Fault
  /\ send' = [send EXCEPT ![t] = Failed(@, FALSE)]
  /\ UNCHANGED <<m, pool, sess>>

Connected(t) ==
  /\ send[t].stage = "connect"
  /\ send' = [send EXCEPT ![t].stage = "transmit"]
  /\ UNCHANGED <<m, pool, sess, faults>>

\* connect() throws; nobody is woken, unless the close event of the socket came first.
ConnectFails(t) ==
  /\ send[t].stage = "connect" /\ Fault
  /\ \E retryable \in BOOLEAN :
       \/ Dispatches(t, Failed(send[t], retryable))
       \/ /\ send' = [send EXCEPT ![t] = Failed(@, retryable)]
          /\ pool' = [g \in Configs |->
                        IF g # send[t].pool THEN pool[g]
                        ELSE [pool[g] EXCEPT !.busy = @ \ {t}, !.stranded = @ \/ pool[g].busy = {t}]]
  /\ UNCHANGED <<m, sess>>

\* The server accepts the message, and the connection goes back.
Accepted(t) ==
  /\ send[t].stage = "transmit"
  /\ Releases(t, [send[t] EXCEPT !.accepted = @ + 1,
                                 !.stage = IF send[t].save THEN "save" ELSE "report"])
  /\ UNCHANGED <<m, sess, faults>>

\* The server refuses the message, or the connection is lost before it has it whole.
NotAccepted(t) ==
  /\ send[t].stage = "transmit" /\ Fault
  /\ \E retryable \in BOOLEAN : Releases(t, Failed(send[t], retryable))
  /\ UNCHANGED <<m, sess>>

\* The server accepts the message, and its reply is lost, late or not waited for.
VerdictLost(t) ==
  /\ send[t].stage = "transmit" /\ Fault
  /\ \E retryable \in BOOLEAN :
       Releases(t, Failed([send[t] EXCEPT !.accepted = @ + 1, !.cut = @ + 1], retryable))
  /\ UNCHANGED <<m, sess>>

\* saveToSent(): the session, made when there is none, and the mailbox, looked for
\* when it is not known.
Save(t) ==
  /\ send[t].stage = "save"
  /\ LET fresh == CHOOSE s \in Sessions : /\ sess[s].account = 0
                                          /\ \A r \in Sessions : sess[r].account = 0 => s <= r
         s == IF m.session = 0 THEN fresh ELSE m.session
     IN  /\ m' = [m EXCEPT !.session = s]
         /\ sess' = IF m.session # 0 THEN sess
                    ELSE [sess EXCEPT ![s] = [account |-> m.imap, closed |-> FALSE,
                                              late |-> m.shut = "done"]]
         /\ send' = [send EXCEPT ![t].sess = s, ![t].mailbox = m.mailbox,
                                 ![t].stage = IF m.mailbox = 0 THEN "find" ELSE "append"]
  /\ UNCHANGED <<pool, faults>>

\* findMailbox() returns: what it found is kept, whatever was configured meanwhile.
Found(t) ==
  /\ send[t].stage = "find"
  /\ LET account == sess[send[t].sess].account
     IN  /\ m' = [m EXCEPT !.mailbox = account]
         /\ send' = [send EXCEPT ![t].mailbox = account, ![t].stage = "append"]
  /\ UNCHANGED <<pool, sess, faults>>

Append(t) ==
  /\ send[t].stage = "append" /\ ~sess[send[t].sess].closed
  /\ send' = [send EXCEPT ![t].saved = <<sess[send[t].sess].account, send[t].mailbox>>,
                          ![t].stage = "report"]
  /\ UNCHANGED <<m, pool, sess, faults>>

\* The lookup or the APPEND fails, as every call of a closed session does.
NotSaved(t) ==
  /\ send[t].stage \in {"find", "append"}
  /\ \/ sess[send[t].sess].closed /\ NoFault
     \/ ~sess[send[t].sess].closed /\ Fault
  /\ send' = [send EXCEPT ![t] = Unsaved(@)]
  /\ UNCHANGED <<m, pool, sess>>

Report(t) ==
  /\ send[t].stage = "report"
  /\ send' = [send EXCEPT ![t] = Succeeded(@)]
  /\ UNCHANGED <<m, pool, sess, faults>>

-----------------------------------------------------------------------------
(* configure() and shutdown().  The application is taken not to configure   *)
(* a facade whose pool is being shut down.                                 *)

\* A new pool; the old one is drained in the background.
ConfigureSmtp ==
  /\ m.smtp <= MaxConfigs /\ m.shut \in {"no", "queue"}
  /\ m' = [m EXCEPT !.smtp = @ + 1]
  /\ IF m.setup.pooling
     THEN Drain(m.smtp, m.smtp + 1)
     ELSE UNCHANGED <<pool, send>>
  /\ UNCHANGED <<sess, faults>>

KeptMailbox(v) == [v EXCEPT !.imap = @ + 1, !.session = 0]

\* The fields for another IMAP account.
OtherAccount(v) == [v EXCEPT !.imap = @ + 1, !.session = 0, !.mailbox = 0]

\* The session is closed, once the command under way is answered.
Closed(s) == [r \in Sessions |-> IF r = s THEN [sess[r] EXCEPT !.closed = TRUE] ELSE sess[r]]

ConfigureImap ==
  /\ m.imap <= MaxConfigs /\ m.shut \in {"no", "queue"}
  /\ m' = [OtherAccount(m) EXCEPT !.crossed = @ \/ \E t \in Mails : send[t].stage = "find"]
  /\ sess' = Closed(m.session)
  /\ UNCHANGED <<pool, send, faults>>

\* shutdown(): the queue first, which decides every message it has.
Shutdown ==
  /\ m.shut = "no"
  /\ m' = [m EXCEPT !.shut = "queue"]
  /\ UNCHANGED <<pool, sess, send, faults>>

ShutdownPool ==
  /\ m.shut = "queue" /\ \A t \in Mails : send[t].queued => send[t].stage = "done"
  /\ m' = [m EXCEPT !.shut = "pool"]
  /\ IF m.setup.pooling THEN Drain(m.smtp, m.smtp) ELSE UNCHANGED <<pool, send>>
  /\ UNCHANGED <<sess, faults>>

\* The pool is drained; the session is closed, and shutdown() returns.
ShutdownReturns ==
  /\ m.shut = "pool" /\ pool[m.smtp].busy = {}
  /\ m' = [m EXCEPT !.shut = "done", !.session = 0]
  /\ sess' = Closed(m.session)
  /\ UNCHANGED <<pool, send, faults>>

-----------------------------------------------------------------------------
Init ==
  /\ \E setup \in Setups :
       /\ m = [setup |-> setup, smtp |-> 1, imap |-> 1, session |-> 0, mailbox |-> 0,
               crossed |-> FALSE, shut |-> "no"]
       /\ pool = [g \in Configs |-> [state |-> IF setup.pooling /\ g = 1 THEN "open" ELSE "none",
                                     busy |-> {}, stranded |-> FALSE]]
  /\ sess = [s \in Sessions |-> [account |-> 0, closed |-> FALSE, late |-> FALSE]]
  /\ send = [t \in Mails |-> NewMail]
  /\ faults = 0

\* The steps that follow by themselves, by an answer of the server or by a timer.
Goes(t) ==
  \/ Attempt(t) \/ Accepted(t) \/ NotAccepted(t) \/ VerdictLost(t) \/ Save(t) \/ Report(t)

\* Those that wait for middleware, a TLS handshake or the session of the Sent mailbox,
\* where no timer is set.
Untimed == {"prepare", "connect", "find", "append"}
Comes(t) ==
  \/ Prepared(t) \/ MiddlewareThrows(t) \/ BuildFails(t) \/ Connected(t) \/ ConnectFails(t)
  \/ Found(t) \/ Append(t) \/ NotSaved(t)

Next ==
  \/ \E t \in Mails : Enqueue(t) \/ (\E save \in BOOLEAN : Send(t, save)) \/ Goes(t) \/ Comes(t)
  \/ ConfigureSmtp \/ ConfigureImap \/ Shutdown \/ ShutdownPool \/ ShutdownReturns

Spec == Init /\ [][Next]_vars

\* The event loop and the queue go on, and the server answers a message or the timers
\* of its connection end the wait.  Of what is Untimed nothing is assumed.
Fairness == \A t \in Mails : WF_vars(Goes(t))

FairSpec == Spec /\ Fairness

-----------------------------------------------------------------------------
(* Properties.                                                             *)

Delivered(k) == m.setup.dev \/ k.accepted = k.cut + 1

\* While no hook throws, the answer says what became of the mail: ok only if the server
\* took the message and said so, and a failure only if it did not take it or its reply
\* was never read.  It gets the message once, and once more for each such reply,
\* however the copy for the Sent mailbox went and whatever was configured or shut down
\* on the way.
AnswerMatchesDelivery ==
  TypeOK /\ \A t \in Mails :
    m.setup.onSend = "quiet" /\ m.setup.onError = "quiet" =>
      /\ send[t].accepted \in {send[t].cut, send[t].cut + 1}
      /\ send[t].stage = "done" => (send[t].result = "ok" <=> Delivered(send[t]))

\* A copy is saved to the Sent mailbox of its own account, unless the account was
\* changed while a mailbox was being looked for.
SavedOnItsAccount ==
  \A t \in Mails : send[t].saved # <<>> /\ ~m.crossed => send[t].saved[1] = send[t].saved[2]

\* When shutdown() has returned, its pool has no connection in use and every
\* replaced pool is drained or being drained, and no session for the Sent mailbox
\* is open but one that a send still under way made afterwards.
ShutdownLeavesNothing ==
  m.shut = "done" =>
    /\ \A g \in Configs : pool[g].state # "open" /\ (g = m.smtp => pool[g].busy = {})
    /\ \A s \in Sessions : sess[s].account # 0 => sess[s].closed \/ sess[s].late

\* configure() and shutdown() take effect on what is under way.
ConfigurationInForce == SavedOnItsAccount /\ ShutdownLeavesNothing

Stranded(t) == send[t].stage = "acquire" /\ pool[send[t].pool].stranded

\* Every call of send() is answered and the queue decides every message, through pools
\* that are drained, connections that fail and sessions that are closed.  What may hold
\* up a message for ever is its own wait without a timer, a connection somebody never
\* finishes opening, and a failed connection that wakes nobody.
EverySendAnswered ==
  \A t \in Mails :
    /\ []<>(send[t].stage \notin Untimed)
    /\ \A r \in Mails : []<>(send[r].stage # "connect")
    => (send[t].stage # "new" ~> (send[t].stage = "done" \/ Stranded(t)))
=============================================================================
