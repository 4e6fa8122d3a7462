---------------------------- MODULE MailTsProofs ----------------------------
(***************************************************************************)
(* The answers of send() are true and configure() and shutdown() take      *)
(* effect, for every number of messages, attempts and configurations and   *)
(* every mix of pooling, devMode and hooks.                                *)
(***************************************************************************)
EXTENDS MailTs, TLAPS

-----------------------------------------------------------------------------
(* The invariant.                                                          *)

Facade == [setup : Setups, smtp : Configs, imap : Configs, session : {0} \cup Sessions,
           mailbox : {0} \cup Configs, crossed : BOOLEAN,
           shut : {"no", "queue", "pool", "done"}]

Session == [account : {0} \cup Configs, closed : BOOLEAN, late : BOOLEAN]

Mail == [queued : BOOLEAN, save : BOOLEAN, stage : Stages,
         pool : {0} \cup Configs, sess : {0} \cup Sessions,
         mailbox : {0} \cup Configs, tries : 0..MaxTries, accepted : Nat,
         cut : Nat, result : {"none", "ok", "failed", "threw"},
         saved : {<<>>} \cup (Configs \X Configs)]

PoolOf == [state : {"none", "open", "draining"}, busy : SUBSET Mails, stranded : BOOLEAN]
Pools == [Configs -> PoolOf]

Quiet(v) == v.setup.onSend = "quiet" /\ v.setup.onError = "quiet"

Before == {"new", "waiting", "prepare", "acquire", "connect", "transmit"}
After == {"save", "find", "append", "report"}

\* A message and its progress: how often it was tried, where it waits, and, unless a
\* hook throws, how often it was accepted beside the times the reply was not read.
Placed(v, k) ==
  /\ k \in Mail
  /\ k.stage = "new" => k.tries = 0
  /\ k.stage = "waiting" => k.tries < MaxTries
  /\ k.stage = "acquire" => k.pool # 0
  /\ v.setup.dev => k.stage \in {"new", "waiting", "done"}
  /\ Quiet(v) =>
       /\ k.stage \in Before => k.accepted = k.cut
       /\ k.stage \in After => k.accepted = k.cut + 1
       /\ k.stage = "done" => /\ k.accepted \in {k.cut, k.cut + 1}
                              /\ k.result = "ok" <=> v.setup.dev \/ k.accepted = k.cut + 1

\* The session and the mailbox of a message are those of one account.
Copied(v, d, k) ==
  /\ k.stage \in {"find", "append"} => k.sess # 0 /\ d[k.sess].account # 0
  /\ k.stage = "append" => k.mailbox # 0
  /\ ~v.crossed =>
       /\ k.stage = "find" => d[k.sess].account = v.imap
       /\ k.stage = "append" => d[k.sess].account = k.mailbox
       /\ k.saved # <<>> => k.saved[1] = k.saved[2]

MailsSound == \A t \in Mails : Placed(m, send[t]) /\ Copied(m, sess, send[t])

\* The current pool alone is open, until the facade is shut down.
PoolsSound ==
  /\ \A g \in Configs : pool[g].state = "open" => /\ m.setup.pooling /\ g = m.smtp
                                                  /\ m.shut \in {"no", "queue"}
  /\ m.shut = "done" => pool[m.smtp].busy = {}

\* Nobody waits for a connection of a pool that is being drained.
WaitersSound ==
  \A t \in Mails : send[t].stage = "acquire" => pool[send[t].pool].state = "open"

\* As many sessions as configurations of IMAP, and one after the shutdown.
Made == m.imap - (IF m.session = 0 THEN 1 ELSE 0) + (IF m.shut = "done" THEN 1 ELSE 0)

\* The session in use is one of the account in force, every other one is closed, and
\* sessions are numbered in the order they were made.
SessionsSound ==
  /\ ~m.crossed => m.mailbox \in {0, m.imap}
  /\ m.session # 0 => /\ sess[m.session].account = m.imap
                      /\ m.shut = "done" => sess[m.session].late
  /\ \A s \in Sessions : sess[s].account # 0 => s = m.session \/ sess[s].closed \/ sess[s].late
  /\ \E n \in 0..MaxConfigs + 2 : /\ n <= Made
                                  /\ \A s \in Sessions : sess[s].account # 0 <=> s <= n

IInv == TypeOK /\ MailsSound /\ PoolsSound /\ WaitersSound /\ SessionsSound

LEMMA Types ==
  TypeOK <=> /\ m \in Facade
             /\ pool \in Pools
             /\ sess \in [Sessions -> Session]
             /\ send \in [Mails -> Mail]
             /\ faults \in 0..MaxFaults
BY DEF TypeOK, Facade, Session, Mail, Pools, PoolOf

LEMMA TypesNext ==
  ASSUME m' \in Facade, pool' \in Pools, sess' \in [Sessions -> Session],
         send' \in [Mails -> Mail], faults' \in 0..MaxFaults
  PROVE  TypeOK'
BY DEF TypeOK, Facade, Session, Mail, Pools, PoolOf

\* The invariant is true of a facade that was just made.
LEMMA Start == Init => IInv
<1> SUFFICES ASSUME Init PROVE IInv
  OBVIOUS
<1> USE MailTsConstants DEF Configs, Sessions
<1>1. NewMail \in Mail
  BY DEF Mail, NewMail, Stages
<1>2. m \in Facade /\ m.session = 0 /\ m.imap = 1 /\ m.mailbox = 0 /\ m.shut = "no" /\ m.smtp = 1
  BY DEF Init, Facade
<1>3. pool \in Pools /\ sess \in [Sessions -> Session] /\ faults \in 0..MaxFaults
  BY DEF Init, Session, Pools, PoolOf
<1>4. TypeOK
  BY <1>1, <1>2, <1>3, Types DEF Init
<1>5. MailsSound
  <2> SUFFICES ASSUME NEW t \in Mails PROVE Placed(m, send[t]) /\ Copied(m, sess, send[t])
    BY DEF MailsSound
  <2>1. send[t] = NewMail
    BY DEF Init
  <2> QED
    BY <1>1, <2>1 DEF Placed, Copied, NewMail, Before, After
<1>6. PoolsSound
  BY DEF Init, PoolsSound
<1>8. WaitersSound
  BY DEF Init, WaitersSound, NewMail
<1>7. SessionsSound
  <2>1. Made = 0
    BY <1>2 DEF Made
  <2>2. 0 \in 0..MaxConfigs + 2 /\ \A s \in Sessions : sess[s].account # 0 <=> s <= 0
    BY DEF Init
  <2>3. 0 <= Made
    BY <2>1
  <2>4. \A s \in Sessions : sess[s].account = 0
    BY DEF Init
  <2> QED
    BY <1>2, <2>2, <2>3, <2>4 DEF SessionsSound
<1> QED
  BY <1>4, <1>5, <1>6, <1>7, <1>8 DEF IInv

-----------------------------------------------------------------------------
(* What becomes of a message that is answered or tried again.              *)

\* A message that goes through the end of sendDirect() keeps its copy.
Ended(k, n) == n.stage \in {"waiting", "done"} /\ n.saved = k.saved

LEMMA AnsweredEnds ==
  ASSUME NEW k \in Mail, NEW r \in {"ok", "failed", "threw"},
         Quiet(m) => /\ k.accepted \in {k.cut, k.cut + 1}
                     /\ r = "ok" <=> m.setup.dev \/ k.accepted = k.cut + 1
  PROVE  Placed(m, Answered(k, r)) /\ Ended(k, Answered(k, r))
<1>1. Answered(k, r) \in Mail
  BY DEF Answered, Mail, Stages
<1> QED
  BY <1>1 DEF Answered, Placed, Ended, Mail, Before, After

\* The premises of the four lemmas that follow: past send(), a message is not in
\* devMode, and without a hook that throws its acceptances are counted.
LEMMA AgainEnds ==
  ASSUME NEW k \in Mail, ~m.setup.dev, Quiet(m) => k.accepted = k.cut, NEW r \in BOOLEAN
  PROVE  Placed(m, Again(k, r)) /\ Ended(k, Again(k, r))
<1>1. CASE r /\ k.tries < MaxTries
  <2> DEFINE n == [k EXCEPT !.stage = "waiting", !.pool = 0, !.sess = 0]
  <2>1. n \in Mail
    BY DEF Mail, Stages
  <2>2. Placed(m, n) /\ Ended(k, n)
    BY <1>1, <2>1 DEF Placed, Ended, Mail, Before, After
  <2> QED
    BY <1>1, <2>2 DEF Again
<1>2. CASE ~(r /\ k.tries < MaxTries)
  BY <1>2, AnsweredEnds DEF Again, Mail
<1> QED
  BY <1>1, <1>2

LEMMA FailedEnds ==
  ASSUME NEW k \in Mail, ~m.setup.dev, Quiet(m) => k.accepted = k.cut, NEW r \in BOOLEAN
  PROVE  Placed(m, Failed(k, r)) /\ Ended(k, Failed(k, r))
<1>1. \A x \in BOOLEAN : Placed(m, Again(k, x)) /\ Ended(k, Again(k, x))
  BY AgainEnds
<1>2. \A x \in {"failed", "threw"} : Placed(m, Answered(k, x)) /\ Ended(k, Answered(k, x))
  BY AnsweredEnds DEF Mail
<1> QED
  BY <1>1, <1>2 DEF Failed

LEMMA SucceededEnds ==
  ASSUME NEW k \in Mail, ~m.setup.dev, Quiet(m) => k.accepted = k.cut + 1
  PROVE  Placed(m, Succeeded(k)) /\ Ended(k, Succeeded(k))
<1>1. CASE m.setup.onSend = "quiet"
  BY <1>1, AnsweredEnds DEF Succeeded
<1>2. CASE m.setup.onSend # "quiet"
  BY <1>2, FailedEnds DEF Succeeded, Quiet
<1> QED
  BY <1>1, <1>2

LEMMA UnsavedEnds ==
  ASSUME NEW k \in Mail, ~m.setup.dev, Quiet(m) => k.accepted = k.cut + 1
  PROVE  Placed(m, Unsaved(k)) /\ Ended(k, Unsaved(k))
<1>1. CASE m.setup.onError = "quiet"
  BY <1>1, SucceededEnds DEF Unsaved
<1>2. CASE m.setup.onError # "quiet"
  BY <1>2, FailedEnds DEF Unsaved, Quiet
<1> QED
  BY <1>1, <1>2

-----------------------------------------------------------------------------
(* What a step leaves of the messages it does not concern.                 *)

\* The step keeps the account in force, and the accounts of the sessions.
AccountsKept ==
  /\ m'.setup = m.setup /\ m'.crossed = m.crossed /\ m'.imap = m.imap
  /\ \A s \in Sessions : sess[s].account # 0 => sess'[s].account = sess[s].account

LEMMA Kept ==
  ASSUME AccountsKept, NEW k, Placed(m, k)
  PROVE  Placed(m', k) /\ (Copied(m, sess, k) => Copied(m', sess', k))
<1>1. Placed(m', k)
  BY DEF AccountsKept, Placed, Quiet
<1>2. ASSUME Copied(m, sess, k) PROVE Copied(m', sess', k)
  <2>1. k.stage \in {"find", "append"} => k.sess \in Sessions
    BY <1>2 DEF Placed, Copied, Mail
  <2> QED
    BY <1>2, <2>1 DEF AccountsKept, Copied
<1> QED
  BY <1>1, <1>2

LEMMA EndedCopied ==
  ASSUME NEW k, NEW n, Copied(m, sess, k), Ended(k, n)
  PROVE  Copied(m, sess, n)
BY DEF Copied, Ended

\* A step of one message keeps the others sound.
LEMMA OneMail ==
  ASSUME IInv, AccountsKept, NEW t \in Mails, NEW n, Placed(m', n), Copied(m', sess', n),
         send' = [send EXCEPT ![t] = n]
  PROVE  MailsSound' /\ send' \in [Mails -> Mail]
<1>1. send \in [Mails -> Mail]
  BY Types DEF IInv
<1>2. n \in Mail
  BY DEF Placed
<1>3. \A r \in Mails : Placed(m', send[r]) /\ Copied(m', sess', send[r])
  BY Kept DEF IInv, MailsSound
<1>4. \A r \in Mails : send'[r] = IF r = t THEN n ELSE send[r]
  BY <1>1
<1> QED
  BY <1>1, <1>2, <1>3, <1>4 DEF MailsSound

LEMMA MailOf ==
  ASSUME IInv, NEW t \in Mails
  PROVE  send[t] \in Mail /\ Placed(m, send[t]) /\ Copied(m, sess, send[t])
BY DEF IInv, MailsSound, Placed

\* Nobody begins to wait, and no pool changes its state.
LEMMA WaitersKept ==
  ASSUME IInv, \A g \in Configs : pool'[g].state = pool[g].state,
         \A r \in Mails : send'[r].stage = "acquire" => send'[r] = send[r]
  PROVE  WaitersSound'
<1> SUFFICES ASSUME NEW r \in Mails, send'[r].stage = "acquire"
             PROVE  pool'[send'[r].pool].state = "open"
  BY DEF WaitersSound
<1>1. send'[r] = send[r] /\ send[r] \in Mail /\ Placed(m, send[r])
  BY MailOf
<1>2. send[r].pool \in Configs
  BY <1>1 DEF Placed, Mail
<1> QED
  BY <1>1, <1>2 DEF IInv, WaitersSound

\* A step that changes messages only.
LEMMA MailStep ==
  ASSUME IInv, NEW t \in Mails, NEW n, Placed(m, n), Copied(m, sess, n),
         n.stage = "acquire" => pool[n.pool].state = "open",
         send' = [send EXCEPT ![t] = n], UNCHANGED <<m, pool, sess>>, faults' \in 0..MaxFaults
  PROVE  IInv'
<1>1. AccountsKept
  BY DEF AccountsKept
<1>2. MailsSound' /\ send' \in [Mails -> Mail]
  BY <1>1, OneMail
<1>3. TypeOK'
  BY <1>2, Types, TypesNext DEF IInv
<1>4. PoolsSound' /\ SessionsSound'
  BY DEF IInv, PoolsSound, SessionsSound, Made
<1>5. WaitersSound'
  BY Types DEF IInv, WaitersSound
<1> QED
  BY <1>2, <1>3, <1>4, <1>5 DEF IInv

LEMMA FaultTyped == IInv /\ Fault => faults' \in 0..MaxFaults
BY MailTsConstants DEF IInv, TypeOK, Fault

-----------------------------------------------------------------------------
(* The steps of a message that change nothing else.                        *)

LEMMA SendStep ==
  ASSUME IInv, NEW t \in Mails, NEW save \in BOOLEAN, Send(t, save)
  PROVE  IInv'
<1> DEFINE k == [send[t] EXCEPT !.save = save, !.stage = "prepare", !.tries = 1]
           n == IF m.setup.dev THEN Answered(k, "ok") ELSE k
<1>1. send[t] \in Mail /\ send[t].stage = "new" /\ Placed(m, send[t]) /\ Copied(m, sess, send[t])
  BY MailOf DEF Send
<1>2. k \in Mail /\ k.stage = "prepare" /\ k.saved = send[t].saved
      /\ k.accepted = send[t].accepted /\ k.cut = send[t].cut
  <2>1. 1 \in 0..MaxTries
    BY MailTsConstants
  <2> QED
    BY <1>1, <2>1 DEF Mail, Stages
<1>3. Quiet(m) => k.accepted = k.cut
  BY <1>1, <1>2 DEF Placed, Before
<1>4. Placed(m, n) /\ Copied(m, sess, n) /\ n.stage # "acquire"
  <2>1. CASE m.setup.dev
    <3> HIDE DEF k
    <3>1. Placed(m, Answered(k, "ok")) /\ Ended(k, Answered(k, "ok"))
      BY <2>1, <1>2, <1>3, AnsweredEnds
    <3> QED
      BY <2>1, <1>1, <1>2, <3>1 DEF Ended, Copied
  <2>2. CASE ~m.setup.dev
    BY <2>2, <1>1, <1>2, <1>3 DEF Placed, Copied, Before, After
  <2> QED
    BY <2>1, <2>2
<1>5. send' = [send EXCEPT ![t] = n] /\ UNCHANGED <<m, pool, sess, faults>>
  BY DEF Send
<1> HIDE DEF n
<1> QED
  BY <1>4, <1>5, MailStep DEF IInv, TypeOK

LEMMA EnqueueStep ==
  ASSUME IInv, NEW t \in Mails, Enqueue(t)
  PROVE  IInv'
<1> DEFINE n == [send[t] EXCEPT !.queued = TRUE, !.stage = "waiting"]
<1>1. send[t] \in Mail /\ send[t].stage = "new" /\ Placed(m, send[t]) /\ Copied(m, sess, send[t])
  BY MailOf DEF Enqueue
<1>2. n \in Mail
  BY <1>1 DEF Mail, Stages
<1>3. Placed(m, n) /\ Copied(m, sess, n) /\ n.stage # "acquire"
  BY <1>1, <1>2, MailTsConstants DEF Placed, Copied, Mail, Before, After
<1>4. send' = [send EXCEPT ![t] = n] /\ UNCHANGED <<m, pool, sess, faults>>
  BY <1>1, Types DEF Enqueue, IInv
<1> HIDE DEF n
<1> QED
  BY <1>3, <1>4, MailStep DEF IInv, TypeOK

LEMMA AttemptStep ==
  ASSUME IInv, NEW t \in Mails, Attempt(t)
  PROVE  IInv'
<1> DEFINE k == [send[t] EXCEPT !.stage = "prepare", !.tries = @ + 1]
           n == IF m.setup.dev THEN Answered(k, "ok") ELSE k
<1>1. send[t] \in Mail /\ send[t].stage = "waiting" /\ Placed(m, send[t]) /\ Copied(m, sess, send[t])
  BY MailOf DEF Attempt
<1>2. k \in Mail /\ k.stage = "prepare" /\ k.saved = send[t].saved
      /\ k.accepted = send[t].accepted /\ k.cut = send[t].cut
  <2>1. send[t].tries + 1 \in 0..MaxTries
    BY <1>1, MailTsConstants DEF Mail, Placed
  <2> QED
    BY <1>1, <2>1 DEF Mail, Stages
<1>3. Quiet(m) => k.accepted = k.cut
  BY <1>1, <1>2 DEF Placed, Before
<1>4. Placed(m, n) /\ Copied(m, sess, n) /\ n.stage # "acquire"
  <2>1. CASE m.setup.dev
    <3> HIDE DEF k
    <3>1. Placed(m, Answered(k, "ok")) /\ Ended(k, Answered(k, "ok"))
      BY <2>1, <1>2, <1>3, AnsweredEnds
    <3> QED
      BY <2>1, <1>1, <1>2, <3>1 DEF Ended, Copied
  <2>2. CASE ~m.setup.dev
    BY <2>2, <1>1, <1>2, <1>3 DEF Placed, Copied, Before, After
  <2> QED
    BY <2>1, <2>2
<1>5. send' = [send EXCEPT ![t] = n] /\ UNCHANGED <<m, pool, sess, faults>>
  BY DEF Attempt
<1> HIDE DEF n
<1> QED
  BY <1>4, <1>5, MailStep DEF IInv, TypeOK

\* A message in the middle of sendDirect() is not in devMode, and what ends it, a
\* failure before the server accepted it among others, leaves it sound.
LEMMA Fails ==
  ASSUME IInv, NEW t \in Mails, send[t].stage \in {"prepare", "acquire", "connect", "transmit"}
  PROVE  /\ ~m.setup.dev /\ (Quiet(m) => send[t].accepted = send[t].cut)
         /\ \A r \in BOOLEAN : /\ Placed(m, Failed(send[t], r))
                               /\ Copied(m, sess, Failed(send[t], r))
                               /\ Failed(send[t], r).stage # "acquire"
                               /\ Placed(m, Again(send[t], r))
                               /\ Copied(m, sess, Again(send[t], r))
                               /\ Again(send[t], r).stage # "acquire"
<1>1. send[t] \in Mail /\ Placed(m, send[t]) /\ Copied(m, sess, send[t])
  BY MailOf
<1>2. ~m.setup.dev /\ (Quiet(m) => send[t].accepted = send[t].cut)
  BY <1>1 DEF Placed, Before
<1>3. \A r \in BOOLEAN : /\ Placed(m, Failed(send[t], r)) /\ Ended(send[t], Failed(send[t], r))
                         /\ Placed(m, Again(send[t], r)) /\ Ended(send[t], Again(send[t], r))
  BY <1>1, <1>2, FailedEnds, AgainEnds
<1> QED
  BY <1>1, <1>2, <1>3, EndedCopied DEF Ended

LEMMA MiddlewareThrowsStep ==
  ASSUME IInv, NEW t \in Mails, MiddlewareThrows(t)
  PROVE  IInv'
<1> DEFINE n == IF send[t].queued THEN Again(send[t], FALSE) ELSE Answered(send[t], "threw")
<1>1. send[t] \in Mail /\ send[t].stage = "prepare" /\ Copied(m, sess, send[t])
  BY MailOf DEF MiddlewareThrows
<1>2. /\ ~m.setup.dev /\ (Quiet(m) => send[t].accepted = send[t].cut)
      /\ Placed(m, Again(send[t], FALSE)) /\ Copied(m, sess, Again(send[t], FALSE))
      /\ Again(send[t], FALSE).stage # "acquire"
  BY <1>1, Fails
<1>3. /\ Placed(m, Answered(send[t], "threw"))
      /\ Ended(send[t], Answered(send[t], "threw"))
  BY <1>1, <1>2, AnsweredEnds DEF Mail
<1>4. Placed(m, n) /\ Copied(m, sess, n) /\ n.stage # "acquire"
  <2>1. CASE send[t].queued
    BY <2>1, <1>2
  <2>2. CASE ~send[t].queued
    BY <2>2, <1>1, <1>3, EndedCopied DEF Ended
  <2> QED
    BY <2>1, <2>2
<1>5. send' = [send EXCEPT ![t] = n] /\ UNCHANGED <<m, pool, sess>> /\ faults' \in 0..MaxFaults
  BY FaultTyped, Types DEF MiddlewareThrows, IInv
<1> HIDE DEF n
<1> QED
  BY <1>4, <1>5, MailStep

LEMMA BuildFailsStep ==
  ASSUME IInv, NEW t \in Mails, BuildFails(t)
  PROVE  IInv'
<1>1. /\ Placed(m, Failed(send[t], FALSE)) /\ Copied(m, sess, Failed(send[t], FALSE))
      /\ Failed(send[t], FALSE).stage # "acquire"
  BY Fails DEF BuildFails
<1>2. /\ send' = [send EXCEPT ![t] = Failed(send[t], FALSE)]
      /\ UNCHANGED <<m, pool, sess>> /\ faults' \in 0..MaxFaults
  BY FaultTyped, Types DEF BuildFails, IInv
<1> QED
  BY <1>1, <1>2, MailStep

-----------------------------------------------------------------------------
(* The steps of a message that take a connection or give it back.          *)

LEMMA PoolStep ==
  ASSUME IInv, NEW t \in Mails, NEW n, Placed(m, n), Copied(m, sess, n), n.stage # "acquire",
         send' = [send EXCEPT ![t] = n], UNCHANGED <<m, sess>>, faults' \in 0..MaxFaults,
         pool' \in Pools, \A g \in Configs : pool'[g].state = pool[g].state,
         m.shut = "done" => pool'[m.smtp].busy = {}
  PROVE  IInv'
<1>1. AccountsKept
  BY DEF AccountsKept
<1>2. MailsSound' /\ send' \in [Mails -> Mail]
  BY <1>1, OneMail
<1>3. TypeOK'
  BY <1>2, Types, TypesNext DEF IInv
<1>4. PoolsSound' /\ SessionsSound'
  BY DEF IInv, PoolsSound, SessionsSound, Made
<1>5. WaitersSound'
  <2>1. \A r \in Mails : send'[r] = IF r = t THEN n ELSE send[r]
    BY Types DEF IInv
  <2> QED
    BY <2>1, WaitersKept
<1> QED
  BY <1>2, <1>3, <1>4, <1>5 DEF IInv

\* The pool with other users of one of its configurations.
LEMMA UsersChange ==
  ASSUME IInv, NEW g \in Configs, NEW b \in SUBSET Mails, NEW stranded \in BOOLEAN,
         pool' = [pool EXCEPT ![g] = [pool[g] EXCEPT !.busy = b, !.stranded = stranded]]
  PROVE  /\ pool' \in Pools
         /\ \A h \in Configs : /\ pool'[h].state = pool[h].state
                               /\ pool'[h].busy = IF h = g THEN b ELSE pool[h].busy
<1>1. pool \in Pools
  BY Types DEF IInv
<1> DEFINE x == [pool[g] EXCEPT !.busy = b, !.stranded = stranded]
<1>2. x \in PoolOf /\ x.state = pool[g].state /\ x.busy = b
  BY <1>1 DEF Pools, PoolOf
<1>3. pool' = [pool EXCEPT ![g] = x]
  OBVIOUS
<1> HIDE DEF x
<1> QED
  BY <1>1, <1>2, <1>3 DEF Pools

\* t gives its place back, to whichever pool it is of.
LEMMA LeavesStep ==
  ASSUME IInv, NEW t \in Mails, NEW n, Placed(m, n), Copied(m, sess, n), n.stage # "acquire",
         Leaves(t, n), UNCHANGED <<m, sess>>, faults' \in 0..MaxFaults
  PROVE  IInv'
<1>1. pool \in Pools /\ m.smtp \in Configs
  BY Types DEF IInv, Facade
<1>2. \A p \in PoolOf : /\ [p EXCEPT !.busy = p.busy \ {t}].state = p.state
                        /\ [p EXCEPT !.busy = p.busy \ {t}].busy = p.busy \ {t}
                        /\ [p EXCEPT !.busy = p.busy \ {t}] \in PoolOf
  BY DEF PoolOf
<1>3. pool' = [g \in Configs |-> [pool[g] EXCEPT !.busy = pool[g].busy \ {t}]]
  BY DEF Leaves
<1>4. ASSUME NEW g \in Configs
      PROVE  /\ pool'[g].state = pool[g].state /\ pool'[g].busy = pool[g].busy \ {t}
             /\ pool'[g] \in PoolOf
  <2>1. pool[g] \in PoolOf /\ pool'[g] = [pool[g] EXCEPT !.busy = pool[g].busy \ {t}]
    BY <1>1, <1>3 DEF Pools
  <2> QED
    BY <1>2, <2>1
<1>5. pool' \in Pools
  BY <1>3, <1>4 DEF Pools
<1>6. m.shut = "done" => pool'[m.smtp].busy = {}
  BY <1>1, <1>4 DEF IInv, PoolsSound
<1> QED
  BY <1>4, <1>5, <1>6, PoolStep DEF Leaves

\* Somebody who waited has the place of t: the pool is open, so no shutdown is over.
LEMMA HandsOverStep ==
  ASSUME IInv, NEW t \in Mails, NEW n, Placed(m, n), Copied(m, sess, n), n.stage # "acquire",
         send[t].stage # "acquire", NEW next \in {"connect", "transmit"}, HandsOver(t, n, next),
         UNCHANGED <<m, sess>>, faults' \in 0..MaxFaults
  PROVE  IInv'
<1> DEFINE g == send[t].pool
<1>1. PICK w \in WaitingFor(g) :
        /\ pool' = [pool EXCEPT ![g].busy = (@ \ {t}) \cup {w}]
        /\ send' = [r \in Mails |-> CASE r = t -> n
                                      [] r = w -> [send[r] EXCEPT !.stage = next]
                                      [] OTHER -> send[r]]
  BY DEF HandsOver
<1> DEFINE x == [send[w] EXCEPT !.stage = next]
<1>2. w \in Mails /\ w # t /\ send[w].stage = "acquire" /\ send[w].pool = g
  BY <1>1 DEF WaitingFor
<1>3. send[w] \in Mail /\ Placed(m, send[w]) /\ Copied(m, sess, send[w])
  BY <1>2, MailOf
<1>4. g \in Configs
  BY <1>2, <1>3 DEF Placed, Mail
<1>5. pool[g].state = "open" /\ m.shut # "done"
  BY <1>2, <1>4 DEF IInv, WaitersSound, PoolsSound
<1>6. /\ x \in Mail /\ x.stage = next /\ x.accepted = send[w].accepted /\ x.cut = send[w].cut
      /\ x.saved = send[w].saved
  BY <1>3 DEF Mail, Stages
<1>7. \A r \in Mails : send'[r] = IF r = t THEN n ELSE IF r = w THEN x ELSE send[r]
  BY <1>1, <1>2
<1> HIDE DEF x
<1>8. Placed(m, x) /\ Copied(m, sess, x)
  BY <1>2, <1>3, <1>6, Fails DEF Placed, Copied, Before, After
<1>9. AccountsKept
  BY DEF AccountsKept
<1>10. MailsSound'
  <2> SUFFICES ASSUME NEW r \in Mails PROVE Placed(m', send'[r]) /\ Copied(m', sess', send'[r])
    BY DEF MailsSound
  <2>1. Placed(m, send'[r]) /\ Copied(m, sess, send'[r])
    BY <1>7, <1>8, MailOf
  <2> QED
    BY <2>1, <1>9, Kept
<1>11. send' \in [Mails -> Mail]
  <2>1. \A r \in Mails : send'[r] \in Mail
    BY <1>10 DEF MailsSound, Placed
  <2> QED
    BY <2>1, <1>1
<1>12. /\ pool' \in Pools
       /\ \A h \in Configs : /\ pool'[h].state = pool[h].state
                             /\ pool'[h].busy = IF h = g THEN (pool[g].busy \ {t}) \cup {w}
                                                ELSE pool[h].busy
  <2>1. pool \in Pools
    BY Types DEF IInv
  <2> DEFINE b == (pool[g].busy \ {t}) \cup {w}
  <2>2. b \in SUBSET Mails
    BY <2>1, <1>2, <1>4 DEF Pools, PoolOf
  <2> DEFINE y == [pool[g] EXCEPT !.busy = b]
  <2>3. pool' = [pool EXCEPT ![g] = y]
    BY <1>1
  <2>4. y \in PoolOf /\ y.state = pool[g].state /\ y.busy = b
    BY <2>1, <2>2, <1>4 DEF Pools, PoolOf
  <2> HIDE DEF y, b
  <2> QED
    BY <2>1, <2>3, <2>4, <1>4 DEF Pools, b
<1>13. TypeOK'
  BY <1>11, <1>12, Types, TypesNext DEF IInv
<1>14. PoolsSound' /\ SessionsSound'
  BY <1>5, <1>12 DEF IInv, PoolsSound, SessionsSound, Made
<1>15. WaitersSound'
  BY <1>6, <1>7, <1>12, WaitersKept
<1> QED
  BY <1>10, <1>13, <1>14, <1>15 DEF IInv

LEMMA DispatchesStep ==
  ASSUME IInv, NEW t \in Mails, NEW n, Placed(m, n), Copied(m, sess, n), n.stage # "acquire",
         send[t].stage # "acquire", Dispatches(t, n), UNCHANGED <<m, sess>>,
         faults' \in 0..MaxFaults
  PROVE  IInv'
BY LeavesStep, HandsOverStep DEF Dispatches

LEMMA ReleasesStep ==
  ASSUME IInv, NEW t \in Mails, NEW n, Placed(m, n), Copied(m, sess, n), n.stage # "acquire",
         send[t].stage # "acquire", Releases(t, n), UNCHANGED <<m, sess>>,
         faults' \in 0..MaxFaults
  PROVE  IInv'
BY LeavesStep, HandsOverStep, DispatchesStep DEF Releases

LEMMA PreparedStep ==
  ASSUME IInv, NEW t \in Mails, Prepared(t)
  PROVE  IInv'
<1>1. send[t] \in Mail /\ send[t].stage = "prepare" /\ Placed(m, send[t]) /\ Copied(m, sess, send[t])
  BY MailOf DEF Prepared
<1>2. m \in Facade /\ m.smtp \in Configs /\ m.smtp # 0 /\ send \in [Mails -> Mail]
  BY Types, MailTsConstants DEF IInv, Facade, Configs
<1>3. UNCHANGED <<m, sess>> /\ faults' \in 0..MaxFaults
  BY DEF Prepared, IInv, TypeOK
<1>4. ASSUME NEW stage \in {"acquire", "connect"}, NEW g \in {0} \cup Configs,
             stage = "acquire" => g # 0
      PROVE  /\ Placed(m, [send[t] EXCEPT !.stage = stage, !.pool = g])
             /\ Copied(m, sess, [send[t] EXCEPT !.stage = stage, !.pool = g])
             /\ [send[t] EXCEPT !.stage = stage, !.pool = g].stage = stage
             /\ [send[t] EXCEPT !.stage = stage, !.pool = g].pool = g
  <2> DEFINE n == [send[t] EXCEPT !.stage = stage, !.pool = g]
  <2>1. /\ n \in Mail /\ n.stage = stage /\ n.pool = g /\ n.accepted = send[t].accepted
        /\ n.cut = send[t].cut /\ n.saved = send[t].saved
    BY <1>1 DEF Mail, Stages
  <2> HIDE DEF n
  <2>2. Placed(m, n) /\ Copied(m, sess, n)
    BY <1>1, <1>4, <2>1, Fails DEF Placed, Copied, Before, After
  <2> QED
    BY <2>1, <2>2 DEF n
<1>5. CASE Acquire(t)
  <2> DEFINE n == [send[t] EXCEPT !.stage = "connect", !.pool = m.smtp]
             b == pool[m.smtp].busy \cup {t}
  <2>1. Placed(m, n) /\ Copied(m, sess, n) /\ n.stage = "connect"
    BY <1>2, <1>4
  <2>2. send' = [send EXCEPT ![t] = n]
    BY <1>2, <1>5 DEF Acquire
  <2>3. b \in SUBSET Mails
    BY <1>2, Types DEF IInv, Pools, PoolOf
  <2>4. pool' = [pool EXCEPT ![m.smtp] = [pool[m.smtp] EXCEPT !.busy = b, !.stranded = FALSE]]
    <3>1. pool' = [pool EXCEPT ![m.smtp] = [pool[m.smtp] EXCEPT !.busy = pool[m.smtp].busy \cup {t},
                                                                !.stranded = FALSE]]
      BY <1>5, <1>2, Types DEF Acquire, IInv, Pools
    <3> QED
      BY <3>1
  <2>5. m.shut # "done"
    BY <1>2, <1>5 DEF Acquire, IInv, PoolsSound
  <2> HIDE DEF n, b
  <2>6. pool' \in Pools /\ \A h \in Configs : pool'[h].state = pool[h].state
    BY <1>2, <2>3, <2>4, UsersChange
  <2> QED
    BY <1>3, <2>1, <2>2, <2>5, <2>6, PoolStep
<1>6. CASE Wait(t)
  <2> DEFINE n == [send[t] EXCEPT !.stage = "acquire", !.pool = m.smtp]
  <2>1. Placed(m, n) /\ Copied(m, sess, n) /\ n.pool = m.smtp
    BY <1>2, <1>4
  <2>2. send' = [send EXCEPT ![t] = n] /\ UNCHANGED pool /\ pool[m.smtp].state = "open"
    BY <1>2, <1>6 DEF Wait
  <2> HIDE DEF n
  <2> QED
    BY <1>3, <2>1, <2>2, MailStep
<1>7. CASE send' = [send EXCEPT ![t] = Failed(@, TRUE)] /\ UNCHANGED pool
  <2>1. /\ Placed(m, Failed(send[t], TRUE)) /\ Copied(m, sess, Failed(send[t], TRUE))
        /\ Failed(send[t], TRUE).stage # "acquire"
    BY <1>1, Fails
  <2>2. send' = [send EXCEPT ![t] = Failed(send[t], TRUE)]
    BY <1>2, <1>7
  <2> QED
    BY <1>3, <1>7, <2>1, <2>2, MailStep
<1>8. CASE send' = [send EXCEPT ![t].stage = "connect"] /\ UNCHANGED pool
  <2> DEFINE n == [send[t] EXCEPT !.stage = "connect", !.pool = send[t].pool]
  <2>1. send[t].pool \in {0} \cup Configs
    BY <1>1 DEF Mail
  <2>2. Placed(m, n) /\ Copied(m, sess, n) /\ n.stage = "connect"
    BY <1>4, <2>1
  <2>3. send' = [send EXCEPT ![t] = n]
    BY <1>1, <1>2, <1>8 DEF Mail
  <2> HIDE DEF n
  <2> QED
    BY <1>3, <1>8, <2>2, <2>3, MailStep
<1> QED
  BY <1>5, <1>6, <1>7, <1>8 DEF Prepared

LEMMA ConnectedStep ==
  ASSUME IInv, NEW t \in Mails, Connected(t)
  PROVE  IInv'
<1> DEFINE n == [send[t] EXCEPT !.stage = "transmit"]
<1>1. send[t] \in Mail /\ send[t].stage = "connect" /\ Placed(m, send[t]) /\ Copied(m, sess, send[t])
  BY MailOf DEF Connected
<1>2. n \in Mail
  BY <1>1 DEF Mail, Stages
<1>3. Placed(m, n) /\ Copied(m, sess, n) /\ n.stage # "acquire"
  BY <1>1, <1>2, Fails DEF Placed, Copied, Mail, Before, After
<1>4. send' = [send EXCEPT ![t] = n] /\ UNCHANGED <<m, pool, sess>> /\ faults' \in 0..MaxFaults
  BY <1>1, Types DEF Connected, IInv
<1> HIDE DEF n
<1> QED
  BY <1>3, <1>4, MailStep

LEMMA ConnectFailsStep ==
  ASSUME IInv, NEW t \in Mails, ConnectFails(t)
  PROVE  IInv'
<1>1. send[t].stage = "connect" /\ UNCHANGED <<m, sess>> /\ faults' \in 0..MaxFaults
  BY FaultTyped DEF ConnectFails
<1>2. send \in [Mails -> Mail] /\ pool \in Pools /\ m.smtp \in Configs
  BY Types DEF IInv, Facade
<1>3. PICK r \in BOOLEAN :
        \/ Dispatches(t, Failed(send[t], r))
        \/ /\ send' = [send EXCEPT ![t] = Failed(@, r)]
           /\ pool' = [g \in Configs |->
                         IF g # send[t].pool THEN pool[g]
                         ELSE [pool[g] EXCEPT !.busy = @ \ {t},
                                              !.stranded = @ \/ pool[g].busy = {t}]]
  BY DEF ConnectFails
<1> DEFINE n == Failed(send[t], r)
<1>4. Placed(m, n) /\ Copied(m, sess, n) /\ n.stage # "acquire"
  BY <1>1, Fails
<1> HIDE DEF n
<1>5. CASE Dispatches(t, n)
  BY <1>1, <1>4, <1>5, DispatchesStep
<1>6. CASE /\ send' = [send EXCEPT ![t] = n]
           /\ pool' = [g \in Configs |->
                         IF g # send[t].pool THEN pool[g]
                         ELSE [pool[g] EXCEPT !.busy = @ \ {t},
                                              !.stranded = @ \/ pool[g].busy = {t}]]
  <2>1. ASSUME NEW g \in Configs
        PROVE  /\ pool'[g] \in PoolOf /\ pool'[g].state = pool[g].state
               /\ pool'[g].busy \subseteq pool[g].busy
    <3>1. pool[g] \in PoolOf
      BY <1>2 DEF Pools
    <3> DEFINE b == pool[g].busy \ {t}
               s == pool[g].stranded \/ pool[g].busy = {t}
    <3>2. b \in SUBSET Mails /\ b \subseteq pool[g].busy /\ s \in BOOLEAN
      BY <3>1 DEF PoolOf
    <3>3. pool'[g] = IF g # send[t].pool THEN pool[g]
                     ELSE [pool[g] EXCEPT !.busy = b, !.stranded = s]
      BY <1>6
    <3> HIDE DEF b, s
    <3> QED
      BY <3>1, <3>2, <3>3 DEF PoolOf
  <2>2. pool' \in Pools
    BY <2>1, <1>6 DEF Pools
  <2>3. m.shut = "done" => pool'[m.smtp].busy = {}
    BY <2>1, <1>2 DEF IInv, PoolsSound
  <2> QED
    BY <1>1, <1>4, <1>6, <2>1, <2>2, <2>3, PoolStep
<1> QED
  BY <1>2, <1>3, <1>5, <1>6 DEF n

LEMMA AcceptedStep ==
  ASSUME IInv, NEW t \in Mails, Accepted(t)
  PROVE  IInv'
<1> DEFINE n == [send[t] EXCEPT !.accepted = @ + 1,
                                !.stage = IF send[t].save THEN "save" ELSE "report"]
<1>1. send[t] \in Mail /\ send[t].stage = "transmit" /\ Placed(m, send[t]) /\ Copied(m, sess, send[t])
  BY MailOf DEF Accepted
<1>2. ~m.setup.dev /\ (Quiet(m) => send[t].accepted = send[t].cut)
  BY <1>1, Fails
<1>3. n \in Mail /\ n.stage \in {"save", "report"} /\ n.accepted = send[t].accepted + 1
      /\ n.saved = send[t].saved /\ n.cut = send[t].cut
  <2>1. send[t].accepted + 1 \in Nat
    BY <1>1 DEF Mail
  <2>2. (IF send[t].save THEN "save" ELSE "report") \in {"save", "report"}
    OBVIOUS
  <2> QED
    BY <1>1, <2>1, <2>2 DEF Mail, Stages
<1>4. Releases(t, n) /\ UNCHANGED <<m, sess>> /\ faults' \in 0..MaxFaults
  BY <1>1, Types DEF Accepted, IInv
<1> HIDE DEF n
<1>5. Placed(m, n) /\ Copied(m, sess, n)
  BY <1>1, <1>2, <1>3 DEF Placed, Copied, Before, After
<1> QED
  BY <1>1, <1>3, <1>4, <1>5, ReleasesStep

LEMMA NotAcceptedStep ==
  ASSUME IInv, NEW t \in Mails, NotAccepted(t)
  PROVE  IInv'
<1>1. PICK r \in BOOLEAN : Releases(t, Failed(send[t], r))
  BY DEF NotAccepted
<1>2. /\ Placed(m, Failed(send[t], r)) /\ Copied(m, sess, Failed(send[t], r))
      /\ Failed(send[t], r).stage # "acquire"
  BY Fails DEF NotAccepted
<1>3. UNCHANGED <<m, sess>> /\ faults' \in 0..MaxFaults /\ send[t].stage # "acquire"
  BY FaultTyped DEF NotAccepted
<1> QED
  BY <1>1, <1>2, <1>3, ReleasesStep

\* The reply that was not read is counted together with the acceptance.
LEMMA VerdictLostStep ==
  ASSUME IInv, NEW t \in Mails, VerdictLost(t)
  PROVE  IInv'
<1> DEFINE k == [send[t] EXCEPT !.accepted = @ + 1, !.cut = @ + 1]
<1>1. send[t] \in Mail /\ send[t].stage = "transmit" /\ Copied(m, sess, send[t])
  BY MailOf DEF VerdictLost
<1>2. ~m.setup.dev /\ (Quiet(m) => send[t].accepted = send[t].cut)
  BY <1>1, Fails
<1>3. k \in Mail /\ k.accepted = send[t].accepted + 1 /\ k.cut = send[t].cut + 1
      /\ k.saved = send[t].saved /\ k.stage = "transmit"
  <2>1. send[t].accepted + 1 \in Nat /\ send[t].cut + 1 \in Nat
    BY <1>1 DEF Mail
  <2> QED
    BY <1>1, <2>1 DEF Mail
<1>4. PICK r \in BOOLEAN : Releases(t, Failed(k, r))
  BY DEF VerdictLost
<1>5. UNCHANGED <<m, sess>> /\ faults' \in 0..MaxFaults
  BY FaultTyped DEF VerdictLost
<1> HIDE DEF k
<1>6. Placed(m, Failed(k, r)) /\ Ended(k, Failed(k, r))
  BY <1>2, <1>3, FailedEnds
<1>7. Copied(m, sess, k)
  BY <1>1, <1>3 DEF Copied
<1>8. Copied(m, sess, Failed(k, r)) /\ Failed(k, r).stage # "acquire"
  BY <1>6, <1>7, EndedCopied DEF Ended
<1> QED
  BY <1>1, <1>4, <1>5, <1>6, <1>8, ReleasesStep

-----------------------------------------------------------------------------
(* The copy for the Sent mailbox.                                          *)

LEMMA OnceAccepted ==
  ASSUME IInv, NEW t \in Mails, send[t].stage \in After
  PROVE  ~m.setup.dev /\ (Quiet(m) => send[t].accepted = send[t].cut + 1)
BY MailOf DEF Placed, After

LEMMA ReportStep ==
  ASSUME IInv, NEW t \in Mails, Report(t)
  PROVE  IInv'
<1>1. send[t] \in Mail /\ send[t].stage \in After /\ Copied(m, sess, send[t])
  BY MailOf DEF Report, After
<1>2. Placed(m, Succeeded(send[t])) /\ Ended(send[t], Succeeded(send[t]))
  BY <1>1, OnceAccepted, SucceededEnds
<1>3. Copied(m, sess, Succeeded(send[t])) /\ Succeeded(send[t]).stage # "acquire"
  BY <1>1, <1>2, EndedCopied DEF Ended
<1>4. /\ send' = [send EXCEPT ![t] = Succeeded(send[t])]
      /\ UNCHANGED <<m, pool, sess>> /\ faults' \in 0..MaxFaults
  BY Types DEF Report, IInv
<1> QED
  BY <1>2, <1>3, <1>4, MailStep

LEMMA NotSavedStep ==
  ASSUME IInv, NEW t \in Mails, NotSaved(t)
  PROVE  IInv'
<1>1. send[t] \in Mail /\ send[t].stage \in After /\ Copied(m, sess, send[t])
  BY MailOf DEF NotSaved, After
<1>2. Placed(m, Unsaved(send[t])) /\ Ended(send[t], Unsaved(send[t]))
  BY <1>1, OnceAccepted, UnsavedEnds
<1>3. Copied(m, sess, Unsaved(send[t])) /\ Unsaved(send[t]).stage # "acquire"
  BY <1>1, <1>2, EndedCopied DEF Ended
<1>4. faults' \in 0..MaxFaults
  BY FaultTyped, Types DEF NotSaved, NoFault, IInv
<1>5. send' = [send EXCEPT ![t] = Unsaved(send[t])] /\ UNCHANGED <<m, pool, sess>>
  BY DEF NotSaved
<1> QED
  BY <1>2, <1>3, <1>4, <1>5, MailStep

\* The session of a message, and its account.
LEMMA SessionOf ==
  ASSUME IInv, NEW t \in Mails, send[t].stage \in {"find", "append"}
  PROVE  send[t].sess \in Sessions /\ sess[send[t].sess].account \in Configs
BY MailOf, Types DEF IInv, Copied, Mail, Session

LEMMA AppendStep ==
  ASSUME IInv, NEW t \in Mails, Append(t)
  PROVE  IInv'
<1> DEFINE account == sess[send[t].sess].account
           n == [send[t] EXCEPT !.saved = <<account, send[t].mailbox>>, !.stage = "report"]
<1>1. send[t] \in Mail /\ send[t].stage = "append" /\ Placed(m, send[t]) /\ Copied(m, sess, send[t])
  BY MailOf DEF Append
<1>2. account \in Configs /\ send[t].mailbox \in Configs
  BY <1>1, SessionOf DEF Copied, Mail
<1>3. ~m.crossed => account = send[t].mailbox
  BY <1>1 DEF Copied
<1> HIDE DEF account
<1>4. n \in Mail
  BY <1>1, <1>2 DEF Mail, Stages
<1>5. /\ n.stage = "report" /\ n.accepted = send[t].accepted
      /\ n.cut = send[t].cut /\ n.queued = send[t].queued
      /\ n.saved[1] = account /\ n.saved[2] = send[t].mailbox
  BY <1>1 DEF Mail
<1>6. send' = [send EXCEPT ![t] = n]
  BY Types DEF Append, IInv, account
<1>7. UNCHANGED <<m, pool, sess>> /\ faults' \in 0..MaxFaults
  BY DEF Append, IInv, TypeOK
<1> HIDE DEF n
<1>8. Placed(m, n)
  BY <1>1, <1>4, <1>5, OnceAccepted DEF Placed, Before, After
<1>9. Copied(m, sess, n)
  BY <1>3, <1>5 DEF Copied
<1> QED
  BY <1>5, <1>6, <1>7, <1>8, <1>9, MailStep

LEMMA FoundStep ==
  ASSUME IInv, NEW t \in Mails, Found(t)
  PROVE  IInv'
<1> DEFINE account == sess[send[t].sess].account
           n == [send[t] EXCEPT !.mailbox = account, !.stage = "append"]
<1>1. send[t] \in Mail /\ send[t].stage = "find" /\ Placed(m, send[t]) /\ Copied(m, sess, send[t])
  BY MailOf DEF Found
<1>2. account \in Configs /\ account # 0 /\ send[t].sess # 0
  BY <1>1, SessionOf DEF Copied
<1>3. m \in Facade /\ m' = [m EXCEPT !.mailbox = account]
  BY Types DEF Found, IInv
<1>4. /\ send' = [send EXCEPT ![t] = n]
      /\ UNCHANGED <<pool, sess, faults>>
  BY Types DEF Found, IInv
<1>5. ~m.crossed => account = m.imap
  BY <1>1 DEF Copied
<1>6. account = sess[n.sess].account /\ n.sess = send[t].sess
  BY <1>1 DEF Mail
<1> HIDE DEF account
<1>7. n \in Mail /\ n.stage = "append" /\ n.accepted = send[t].accepted /\ n.saved = send[t].saved
      /\ n.mailbox = account /\ n.cut = send[t].cut
  BY <1>1, <1>2 DEF Mail, Stages
<1>8. /\ m' \in Facade /\ m'.mailbox = account
      /\ m'.setup = m.setup /\ m'.crossed = m.crossed /\ m'.imap = m.imap /\ m'.shut = m.shut
      /\ m'.session = m.session /\ m'.smtp = m.smtp
  BY <1>2, <1>3 DEF Facade
<1> HIDE DEF n
<1>9. AccountsKept
  BY <1>4, <1>8 DEF AccountsKept
<1>10. Placed(m', n)
  BY <1>1, <1>7, <1>8, OnceAccepted DEF Placed, Quiet, Before, After
<1>11. Copied(m', sess', n)
  BY <1>1, <1>2, <1>4, <1>6, <1>7, <1>8 DEF Copied
<1>12. MailsSound' /\ send' \in [Mails -> Mail]
  BY <1>4, <1>9, <1>10, <1>11, OneMail
<1>13. TypeOK'
  BY <1>4, <1>8, <1>12, Types, TypesNext DEF IInv
<1>14. PoolsSound'
  BY <1>4, <1>8 DEF IInv, PoolsSound
<1>15. Made' = Made
  BY <1>8 DEF Made
<1>16. SessionsSound'
  BY <1>4, <1>5, <1>8, <1>15 DEF IInv, SessionsSound
<1>17. WaitersSound'
  <2>1. \A r \in Mails : send'[r] = IF r = t THEN n ELSE send[r]
    BY <1>4, Types DEF IInv
  <2> QED
    BY <2>1, <1>4, <1>7, WaitersKept
<1> QED
  BY <1>12, <1>13, <1>14, <1>16, <1>17 DEF IInv

LEMMA SaveStep ==
  ASSUME IInv, NEW t \in Mails, Save(t)
  PROVE  IInv'
<1> DEFINE fresh == CHOOSE s \in Sessions : /\ sess[s].account = 0
                                            /\ \A r \in Sessions : sess[r].account = 0 => s <= r
           w == IF m.session = 0 THEN fresh ELSE m.session
           n == [send[t] EXCEPT !.sess = w, !.mailbox = m.mailbox,
                                !.stage = IF m.mailbox = 0 THEN "find" ELSE "append"]
           made == [account |-> m.imap, closed |-> FALSE, late |-> m.shut = "done"]
<1>1. send[t] \in Mail /\ send[t].stage = "save" /\ Placed(m, send[t]) /\ Copied(m, sess, send[t])
  BY MailOf DEF Save
<1>2. m \in Facade /\ sess \in [Sessions -> Session] /\ m.imap \in Configs /\ m.imap # 0
  BY Types, MailTsConstants DEF IInv, Facade, Configs
<1>3. PICK count \in 0..MaxConfigs + 2 :
        count <= Made /\ \A s \in Sessions : sess[s].account # 0 <=> s <= count
  BY DEF IInv, SessionsSound
<1>4. ASSUME m.session = 0
      PROVE  fresh = count + 1 /\ fresh \in Sessions /\ sess[fresh].account = 0
  <2>1. Made <= m.imap /\ m.imap <= MaxConfigs + 1 /\ MaxConfigs \in Nat
    BY <1>2, <1>4, MailTsConstants DEF Made, Configs
  <2>2. count + 1 \in Sessions
    BY <1>2, <1>3, <2>1, MailTsConstants DEF Sessions, Configs, Made
  <2>3. /\ sess[count + 1].account = 0
        /\ \A r \in Sessions : sess[r].account = 0 => count + 1 <= r
    BY <1>3, <2>2, MailTsConstants DEF Sessions
  <2>4. \A s \in Sessions : /\ sess[s].account = 0
                            /\ \A r \in Sessions : sess[r].account = 0 => s <= r
                            => s = count + 1
    BY <1>3, <2>2, <2>3, MailTsConstants DEF Sessions
  <2>5. fresh = count + 1
    BY <2>2, <2>3, <2>4
  <2> QED
    BY <2>2, <2>3, <2>5
<1>5. /\ m' = [m EXCEPT !.session = w]
      /\ sess' = IF m.session # 0 THEN sess ELSE [sess EXCEPT ![w] = made]
      /\ send' = [send EXCEPT ![t] = n] /\ UNCHANGED <<pool, faults>>
  <2>1. /\ m' = [m EXCEPT !.session = w]
        /\ sess' = IF m.session # 0 THEN sess ELSE [sess EXCEPT ![w] = made]
        /\ send' = [send EXCEPT ![t].sess = w, ![t].mailbox = m.mailbox,
                                ![t].stage = IF m.mailbox = 0 THEN "find" ELSE "append"]
        /\ UNCHANGED <<pool, faults>>
    BY DEF Save
  <2>2. send \in [Mails -> Mail]
    BY Types DEF IInv
  <2> HIDE DEF w
  <2>3. send' = [send EXCEPT ![t] = n]
    BY <2>1, <2>2
  <2> QED
    BY <2>1, <2>3
<1> HIDE DEF fresh
<1>6. w \in Sessions /\ w # 0
  BY <1>2, <1>4, MailTsConstants DEF Facade, Sessions
<1>7. /\ sess' \in [Sessions -> Session]
      /\ sess'[w].account = m.imap /\ (m.shut = "done" => sess'[w].late)
      /\ \A s \in Sessions \ {w} : sess'[s] = sess[s]
      /\ \A s \in Sessions : sess[s].account # 0 => sess'[s] = sess[s]
  <2>1. CASE m.session = 0
    <3>1. made \in Session /\ made.account = m.imap /\ (m.shut = "done" => made.late)
      BY <1>2 DEF Session
    <3>2. sess' = [sess EXCEPT ![w] = made] /\ sess[w].account = 0
      BY <2>1, <1>4, <1>5
    <3> HIDE DEF made, w
    <3> QED
      BY <1>2, <1>6, <3>1, <3>2
  <2>2. CASE m.session # 0
    BY <2>2, <1>2, <1>5, <1>6 DEF IInv, SessionsSound
  <2> QED
    BY <2>1, <2>2
<1>8. /\ n \in Mail /\ n.stage = (IF m.mailbox = 0 THEN "find" ELSE "append")
      /\ n.accepted = send[t].accepted /\ n.saved = send[t].saved
      /\ n.sess = w /\ n.mailbox = m.mailbox /\ n.cut = send[t].cut
  <2>1. m.mailbox \in {0} \cup Configs /\ w \in {0} \cup Sessions
    BY <1>2, <1>6 DEF Facade
  <2>2. (IF m.mailbox = 0 THEN "find" ELSE "append") \in Stages
    BY DEF Stages
  <2> HIDE DEF w
  <2> QED
    BY <1>1, <2>1, <2>2 DEF Mail
<1> HIDE DEF n
<1>9. /\ m' \in Facade /\ m'.session = w
      /\ m'.setup = m.setup /\ m'.crossed = m.crossed /\ m'.imap = m.imap /\ m'.shut = m.shut
      /\ m'.mailbox = m.mailbox /\ m'.smtp = m.smtp
  <2> HIDE DEF w
  <2> QED
    BY <1>2, <1>5, <1>6 DEF Facade
<1>10. ~m.crossed => m.mailbox \in {0, m.imap}
  BY DEF IInv, SessionsSound
<1>11. AccountsKept
  BY <1>7, <1>9 DEF AccountsKept
<1>12. Placed(m', n)
  BY <1>1, <1>8, <1>9, OnceAccepted DEF Placed, Quiet, Before, After
<1>13. Copied(m', sess', n)
  BY <1>1, <1>2, <1>6, <1>7, <1>8, <1>9, <1>10 DEF Copied
<1>14. MailsSound' /\ send' \in [Mails -> Mail]
  BY <1>5, <1>11, <1>12, <1>13, OneMail
<1>15. TypeOK'
  BY <1>5, <1>7, <1>9, <1>14, Types, TypesNext DEF IInv
<1>16. PoolsSound'
  BY <1>5, <1>9 DEF IInv, PoolsSound
<1>17. SessionsSound'
  <2>1. /\ ~m'.crossed => m'.mailbox \in {0, m'.imap}
        /\ m'.session # 0 => /\ sess'[m'.session].account = m'.imap
                             /\ m'.shut = "done" => sess'[m'.session].late
    BY <1>7, <1>9, <1>10
  <2>2. \A s \in Sessions :
          sess'[s].account # 0 => s = m'.session \/ sess'[s].closed \/ sess'[s].late
    <3> SUFFICES ASSUME NEW s \in Sessions, sess'[s].account # 0, s # w
                 PROVE  sess'[s].closed \/ sess'[s].late
      BY <1>9
    <3>1. sess'[s] = sess[s]
      BY <1>7
    <3>2. s # m.session
      <4>1. s # 0
        BY MailTsConstants DEF Sessions
      <4>2. m.session = 0 \/ m.session = w
        OBVIOUS
      <4> QED
        BY <4>1, <4>2
    <3> QED
      BY <3>1, <3>2 DEF IInv, SessionsSound
  <2>3. \E c \in 0..MaxConfigs + 2 : /\ c <= Made'
                                     /\ \A s \in Sessions : sess'[s].account # 0 <=> s <= c
    <3>1. CASE m.session = 0
      <4>1. count + 1 \in Sessions /\ w = count + 1 /\ sess[w].account = 0
        BY <3>1, <1>4
      <4>2. count + 1 \in 0..MaxConfigs + 2 /\ MaxConfigs \in Nat /\ count \in Nat
        BY <4>1, MailTsConstants DEF Sessions
      <4>3. Made' = Made + 1
        BY <3>1, <1>2, <1>6, <1>9 DEF Made, Configs
      <4>4. Made \in Nat
        BY <1>2, MailTsConstants DEF Made, Configs
      <4>5. count + 1 <= Made'
        BY <4>2, <4>3, <4>4, <1>3
      <4> HIDE DEF w
      <4>6. \A s \in Sessions : sess'[s].account # 0 <=> s <= count + 1
        <5> SUFFICES ASSUME NEW s \in Sessions
                     PROVE  sess'[s].account # 0 <=> s <= count + 1
          OBVIOUS
        <5>1. s \in Nat
          BY MailTsConstants DEF Sessions
        <5>2. CASE s = w
          BY <5>2, <4>1, <4>2, <1>2, <1>7
        <5>3. CASE s # w
          BY <5>1, <5>3, <4>1, <4>2, <1>3, <1>7
        <5> QED
          BY <5>2, <5>3
      <4> QED
        BY <4>2, <4>5, <4>6
    <3>2. CASE m.session # 0
      <4>1. sess' = sess /\ Made' = Made
        BY <3>2, <1>5, <1>6, <1>9 DEF Made
      <4> QED
        BY <4>1, <1>3
    <3> QED
      BY <3>1, <3>2
  <2> QED
    BY <2>1, <2>2, <2>3 DEF SessionsSound
<1>18. WaitersSound'
  <2>1. \A r \in Mails : send'[r] = IF r = t THEN n ELSE send[r]
    BY <1>5, Types DEF IInv
  <2> QED
    BY <2>1, <1>5, <1>8, WaitersKept
<1> QED
  BY <1>14, <1>15, <1>16, <1>17, <1>18 DEF IInv

-----------------------------------------------------------------------------
(* configure() and shutdown().                                             *)

\* Draining a pool rejects its waiters, each of which stays sound, and keeps the others.
LEMMA DrainSound ==
  ASSUME IInv, NEW g \in Configs, NEW new \in Configs, Drain(g, new), AccountsKept
  PROVE  /\ MailsSound' /\ send' \in [Mails -> Mail] /\ pool' \in Pools
         /\ WaitersSound'
         /\ \A h \in Configs :
              /\ pool'[h].busy = pool[h].busy
              /\ pool'[h].state = IF h = g THEN "draining" ELSE IF h = new THEN "open"
                                  ELSE pool[h].state
<1>1. ASSUME NEW t \in Mails PROVE Placed(m', send'[t]) /\ Copied(m', sess', send'[t])
  <2>1. CASE send[t].stage = "acquire" /\ send[t].pool = g
    <3>1. send'[t] = Failed(send[t], TRUE)
      BY <2>1 DEF Drain
    <3>2. Placed(m, send'[t]) /\ Copied(m, sess, send'[t])
      BY <2>1, <3>1, Fails
    <3> QED
      BY <3>2, Kept
  <2>2. CASE ~(send[t].stage = "acquire" /\ send[t].pool = g)
    <3>1. send'[t] = send[t]
      BY <2>2 DEF Drain
    <3> QED
      BY <3>1, MailOf, Kept
  <2> QED
    BY <2>1, <2>2
<1>2. MailsSound'
  BY <1>1 DEF MailsSound
<1>3. \A t \in Mails : send'[t] \in Mail
  BY <1>1 DEF Placed
<1>4. send' \in [Mails -> Mail]
  BY <1>3 DEF Drain
<1>5. pool \in Pools /\ pool' = [[pool EXCEPT ![new].state = "open"] EXCEPT ![g].state = "draining"]
  BY Types DEF IInv, Drain, Pools, PoolOf
<1>6. \A x \in PoolOf : \A w \in {"open", "draining"} :
        /\ [x EXCEPT !.state = w] \in PoolOf
        /\ [x EXCEPT !.state = w].state = w /\ [x EXCEPT !.state = w].busy = x.busy
  BY DEF PoolOf
<1> DEFINE opened == [pool EXCEPT ![new] = [pool[new] EXCEPT !.state = "open"]]
<1>7. /\ opened \in Pools
      /\ \A h \in Configs : /\ opened[h].busy = pool[h].busy
                            /\ opened[h].state = IF h = new THEN "open" ELSE pool[h].state
  BY <1>5, <1>6 DEF Pools
<1>8. pool' = [opened EXCEPT ![g] = [opened[g] EXCEPT !.state = "draining"]]
  BY <1>5
<1> HIDE DEF opened
<1>9. /\ pool' \in Pools
      /\ \A h \in Configs : /\ pool'[h].busy = opened[h].busy
                            /\ pool'[h].state = IF h = g THEN "draining" ELSE opened[h].state
  <2>1. opened[g] \in PoolOf
    BY <1>7 DEF Pools
  <2> DEFINE x == [opened[g] EXCEPT !.state = "draining"]
  <2>2. x \in PoolOf /\ x.state = "draining" /\ x.busy = opened[g].busy
    BY <1>6, <2>1
  <2>3. pool' = [opened EXCEPT ![g] = x]
    BY <1>8
  <2> HIDE DEF x
  <2> QED
    BY <1>7, <2>2, <2>3 DEF Pools
<1>10. WaitersSound'
  <2> SUFFICES ASSUME NEW t \in Mails, send'[t].stage = "acquire"
               PROVE  pool'[send'[t].pool].state = "open"
    BY DEF WaitersSound
  <2>1. ~(send[t].stage = "acquire" /\ send[t].pool = g)
    BY Fails DEF Drain
  <2>2. send'[t] = send[t]
    BY <2>1 DEF Drain
  <2>3. send[t].pool \in Configs \ {g}
    BY <2>1, <2>2, MailOf DEF Placed, Mail
  <2>4. pool[send[t].pool].state = "open"
    BY <2>2 DEF IInv, WaitersSound
  <2> QED
    BY <2>2, <2>3, <2>4, <1>7, <1>9
<1> QED
  BY <1>2, <1>4, <1>7, <1>9, <1>10

\* A step that keeps the accounts and every session keeps what is said of them,
\* while the shutdown is not over.
LEMMA SameSessions ==
  ASSUME IInv, UNCHANGED sess, m'.crossed = m.crossed, m'.imap = m.imap,
         m'.session = m.session, m'.mailbox = m.mailbox, m.shut # "done", m'.shut # "done"
  PROVE  SessionsSound'
<1>1. Made' = Made
  BY DEF Made
<1> QED
  BY <1>1 DEF IInv, SessionsSound

LEMMA ConfigureSmtpStep ==
  ASSUME IInv, ConfigureSmtp
  PROVE  IInv'
<1>1. m \in Facade /\ m.smtp <= MaxConfigs /\ m.shut \in {"no", "queue"}
      /\ m' = [m EXCEPT !.smtp = m.smtp + 1] /\ UNCHANGED <<sess, faults>>
  BY Types DEF IInv, ConfigureSmtp
<1>2. m.smtp \in Configs /\ m.smtp + 1 \in Configs /\ m.smtp + 1 # m.smtp
  BY <1>1, MailTsConstants DEF Facade, Configs
<1>3. /\ m' \in Facade /\ m'.smtp = m.smtp + 1
      /\ m'.setup = m.setup /\ m'.crossed = m.crossed /\ m'.imap = m.imap /\ m'.shut = m.shut
      /\ m'.session = m.session /\ m'.mailbox = m.mailbox
  BY <1>1, <1>2 DEF Facade
<1>4. AccountsKept
  BY <1>1, <1>3 DEF AccountsKept
<1>5. MailsSound' /\ send' \in [Mails -> Mail] /\ pool' \in Pools /\ PoolsSound'
      /\ WaitersSound'
  <2>1. CASE m.setup.pooling
    <3>1. Drain(m.smtp, m.smtp + 1)
      BY <2>1 DEF ConfigureSmtp
    <3>2. MailsSound' /\ send' \in [Mails -> Mail] /\ pool' \in Pools /\ WaitersSound'
      BY <1>2, <1>4, <3>1, DrainSound
    <3>3. \A h \in Configs : pool'[h].state = IF h = m.smtp THEN "draining"
                               ELSE IF h = m.smtp + 1 THEN "open" ELSE pool[h].state
      BY <1>2, <1>4, <3>1, DrainSound
    <3>4. PoolsSound'
      BY <1>1, <1>2, <1>3, <2>1, <3>3 DEF IInv, PoolsSound
    <3> QED
      BY <3>2, <3>4
  <2>2. CASE ~m.setup.pooling
    <3>1. UNCHANGED <<pool, send>>
      BY <2>2 DEF ConfigureSmtp
    <3>2. send \in [Mails -> Mail] /\ pool \in Pools
      BY Types DEF IInv, Pools, PoolOf
    <3>3. MailsSound'
      BY <1>4, <3>1, MailOf, Kept DEF MailsSound
    <3>4. PoolsSound'
      BY <1>1, <1>2, <1>3, <2>2, <3>1 DEF IInv, PoolsSound
    <3>5. WaitersSound'
      BY <3>1 DEF IInv, WaitersSound
    <3> QED
      BY <3>1, <3>2, <3>3, <3>4, <3>5
  <2> QED
    BY <2>1, <2>2
<1>6. TypeOK'
  BY <1>1, <1>3, <1>5, Types, TypesNext DEF IInv
<1>7. SessionsSound'
  BY <1>1, <1>3, SameSessions
<1> QED
  BY <1>5, <1>6, <1>7 DEF IInv

LEMMA ShutdownStep ==
  ASSUME IInv, Shutdown
  PROVE  IInv'
<1>1. m \in Facade /\ m.shut = "no" /\ m' = [m EXCEPT !.shut = "queue"]
      /\ UNCHANGED <<pool, sess, send, faults>>
  BY Types DEF IInv, Shutdown
<1>2. /\ m' \in Facade /\ m'.smtp = m.smtp /\ m'.shut = "queue"
      /\ m'.setup = m.setup /\ m'.crossed = m.crossed /\ m'.imap = m.imap
      /\ m'.session = m.session /\ m'.mailbox = m.mailbox
  BY <1>1 DEF Facade
<1>3. AccountsKept
  BY <1>1, <1>2 DEF AccountsKept
<1>4. MailsSound'
  BY <1>1, <1>3, MailOf, Kept DEF MailsSound
<1>5. TypeOK'
  BY <1>1, <1>2, Types, TypesNext DEF IInv
<1>6. PoolsSound'
  BY <1>1, <1>2 DEF IInv, PoolsSound
<1>7. SessionsSound'
  BY <1>1, <1>2, SameSessions
<1>9. WaitersSound'
  BY <1>1 DEF IInv, WaitersSound
<1> QED
  BY <1>4, <1>5, <1>6, <1>7, <1>9 DEF IInv

LEMMA ShutdownPoolStep ==
  ASSUME IInv, ShutdownPool
  PROVE  IInv'
<1>1. m \in Facade /\ m.shut = "queue" /\ m' = [m EXCEPT !.shut = "pool"]
      /\ UNCHANGED <<sess, faults>>
  BY Types DEF IInv, ShutdownPool
<1>2. /\ m' \in Facade /\ m'.smtp = m.smtp /\ m'.shut = "pool" /\ m.smtp \in Configs
      /\ m'.setup = m.setup /\ m'.crossed = m.crossed /\ m'.imap = m.imap
      /\ m'.session = m.session /\ m'.mailbox = m.mailbox
  BY <1>1 DEF Facade
<1>3. AccountsKept
  BY <1>1, <1>2 DEF AccountsKept
<1>4. MailsSound' /\ send' \in [Mails -> Mail] /\ pool' \in Pools /\ PoolsSound'
      /\ WaitersSound'
  <2>1. CASE m.setup.pooling
    <3>1. Drain(m.smtp, m.smtp)
      BY <2>1 DEF ShutdownPool
    <3>2. MailsSound' /\ send' \in [Mails -> Mail] /\ pool' \in Pools /\ WaitersSound'
      BY <1>2, <1>3, <3>1, DrainSound
    <3>3. \A h \in Configs : pool'[h].state = IF h = m.smtp THEN "draining" ELSE pool[h].state
      BY <1>2, <1>3, <3>1, DrainSound
    <3>4. PoolsSound'
      BY <1>1, <1>2, <3>3 DEF IInv, PoolsSound
    <3> QED
      BY <3>2, <3>4
  <2>2. CASE ~m.setup.pooling
    <3>1. UNCHANGED <<pool, send>>
      BY <2>2 DEF ShutdownPool
    <3>2. send \in [Mails -> Mail] /\ pool \in Pools
      BY Types DEF IInv, Pools, PoolOf
    <3>3. MailsSound'
      BY <1>3, <3>1, MailOf, Kept DEF MailsSound
    <3>4. PoolsSound'
      BY <1>2, <2>2, <3>1 DEF IInv, PoolsSound
    <3>5. WaitersSound'
      BY <3>1 DEF IInv, WaitersSound
    <3> QED
      BY <3>1, <3>2, <3>3, <3>4, <3>5
  <2> QED
    BY <2>1, <2>2
<1>5. TypeOK'
  BY <1>1, <1>2, <1>4, Types, TypesNext DEF IInv
<1>6. SessionsSound'
  BY <1>1, <1>2, SameSessions
<1> QED
  BY <1>4, <1>5, <1>6 DEF IInv

\* The session is closed, and its account stays.
LEMMA ClosedSession ==
  ASSUME IInv, sess' = Closed(m.session)
  PROVE  /\ sess' \in [Sessions -> Session]
         /\ \A s \in Sessions : /\ sess'[s].account = sess[s].account
                                /\ sess'[s].late = sess[s].late
                                /\ sess[s].closed => sess'[s].closed
                                /\ s = m.session => sess'[s].closed
<1>1. sess \in [Sessions -> Session]
  BY Types DEF IInv
<1>2. \A x \in Session : /\ [x EXCEPT !.closed = TRUE] \in Session
                         /\ [x EXCEPT !.closed = TRUE].account = x.account
                         /\ [x EXCEPT !.closed = TRUE].late = x.late
                         /\ [x EXCEPT !.closed = TRUE].closed
  BY DEF Session
<1>3. \A s \in Sessions :
        sess'[s] = IF s = m.session THEN [sess[s] EXCEPT !.closed = TRUE] ELSE sess[s]
  BY DEF Closed
<1>4. \A s \in Sessions : sess'[s] \in Session
  BY <1>1, <1>2, <1>3
<1> QED
  BY <1>1, <1>2, <1>3, <1>4 DEF Closed

LEMMA ConfigureImapStep ==
  ASSUME IInv, ConfigureImap
  PROVE  IInv'
<1> DEFINE looking == \E t \in Mails : send[t].stage = "find"
<1>1. /\ m \in Facade /\ m.imap <= MaxConfigs /\ m.shut \in {"no", "queue"}
      /\ sess' = Closed(m.session) /\ UNCHANGED <<pool, send, faults>>
  BY Types DEF IInv, ConfigureImap
<1>2. m.imap \in Configs /\ m.imap + 1 \in Configs
  BY <1>1, MailTsConstants DEF Facade, Configs
<1>3. /\ m' \in Facade /\ m'.smtp = m.smtp /\ m'.shut = m.shut /\ m'.setup = m.setup
      /\ m'.imap = m.imap + 1 /\ m'.session = 0 /\ m'.mailbox = 0
      /\ ~m'.crossed => ~m.crossed /\ ~looking
  <2> DEFINE v == [m EXCEPT !.imap = m.imap + 1, !.session = 0, !.mailbox = 0]
  <2>1. /\ v \in Facade /\ v.smtp = m.smtp /\ v.shut = m.shut /\ v.setup = m.setup
        /\ v.imap = m.imap + 1 /\ v.session = 0 /\ v.mailbox = 0 /\ v.crossed = m.crossed
    BY <1>1, <1>2 DEF Facade
  <2>2. m' = [v EXCEPT !.crossed = v.crossed \/ looking]
    BY DEF ConfigureImap, OtherAccount
  <2>3. (v.crossed \/ looking) \in BOOLEAN
    OBVIOUS
  <2> HIDE DEF v, looking
  <2>4. m'.crossed = (v.crossed \/ looking)
    BY <2>1, <2>2 DEF Facade
  <2> QED
    BY <2>1, <2>2, <2>3, <2>4 DEF Facade
<1>4. /\ sess' \in [Sessions -> Session]
      /\ \A s \in Sessions : /\ sess'[s].account = sess[s].account
                             /\ sess'[s].late = sess[s].late
                             /\ sess[s].closed => sess'[s].closed
                             /\ s = m.session => sess'[s].closed
  BY <1>1, ClosedSession
<1>5. MailsSound'
  <2> SUFFICES ASSUME NEW t \in Mails PROVE Placed(m', send[t]) /\ Copied(m', sess', send[t])
    BY <1>1 DEF MailsSound
  <2>1. Placed(m, send[t]) /\ Copied(m, sess, send[t])
    BY MailOf
  <2>2. Placed(m', send[t])
    BY <2>1, <1>3 DEF Placed, Quiet
  <2>3. send[t].stage \in {"find", "append"} => send[t].sess \in Sessions
    BY SessionOf
  <2>4. Copied(m', sess', send[t])
    BY <2>1, <2>3, <1>3, <1>4 DEF Copied
  <2> QED
    BY <2>2, <2>4
<1>6. TypeOK'
  BY <1>1, <1>3, <1>4, Types, TypesNext DEF IInv
<1>7. PoolsSound'
  BY <1>1, <1>3 DEF IInv, PoolsSound
<1>8. SessionsSound'
  <2>1. \A s \in Sessions : sess'[s].account # 0 => sess'[s].closed \/ sess'[s].late
    BY <1>4 DEF IInv, SessionsSound
  <2>2. Made <= Made' /\ Made \in Nat /\ Made' \in Nat
    BY <1>1, <1>2, <1>3, MailTsConstants DEF Made, Configs
  <2>3. PICK n \in 0..MaxConfigs + 2 :
          n <= Made /\ \A s \in Sessions : sess[s].account # 0 <=> s <= n
    BY DEF IInv, SessionsSound
  <2>4. n <= Made' /\ \A s \in Sessions : sess'[s].account # 0 <=> s <= n
    BY <2>2, <2>3, <1>4, MailTsConstants
  <2> QED
    BY <2>1, <2>3, <2>4, <1>3 DEF SessionsSound
<1>9. WaitersSound'
  BY <1>1 DEF IInv, WaitersSound
<1> QED
  BY <1>5, <1>6, <1>7, <1>8, <1>9 DEF IInv

LEMMA ShutdownReturnsStep ==
  ASSUME IInv, ShutdownReturns
  PROVE  IInv'
<1>1. /\ m \in Facade /\ m.shut = "pool" /\ pool[m.smtp].busy = {} /\ m.imap \in Configs
      /\ m' = [m EXCEPT !.shut = "done", !.session = 0]
      /\ sess' = Closed(m.session) /\ UNCHANGED <<pool, send, faults>>
  BY Types DEF IInv, ShutdownReturns, Facade
<1>2. /\ m' \in Facade /\ m'.smtp = m.smtp /\ m'.shut = "done" /\ m'.setup = m.setup
      /\ m'.imap = m.imap /\ m'.session = 0 /\ m'.mailbox = m.mailbox
      /\ m'.crossed = m.crossed
  BY <1>1 DEF Facade
<1>3. /\ sess' \in [Sessions -> Session]
      /\ \A s \in Sessions : /\ sess'[s].account = sess[s].account
                             /\ sess'[s].late = sess[s].late
                             /\ sess[s].closed => sess'[s].closed
                             /\ s = m.session => sess'[s].closed
  BY <1>1, ClosedSession
<1>4. AccountsKept
  BY <1>2, <1>3 DEF AccountsKept
<1>5. MailsSound'
  BY <1>1, <1>4, MailOf, Kept DEF MailsSound
<1>6. TypeOK'
  BY <1>1, <1>2, <1>3, Types, TypesNext DEF IInv
<1>7. PoolsSound'
  BY <1>1, <1>2 DEF IInv, PoolsSound
<1>8. SessionsSound'
  <2>1. \A s \in Sessions : sess'[s].account # 0 => sess'[s].closed \/ sess'[s].late
    BY <1>3 DEF IInv, SessionsSound
  <2>2. Made <= Made' /\ Made \in Nat /\ Made' \in Nat
    BY <1>1, <1>2, MailTsConstants DEF Made, Configs
  <2>3. PICK n \in 0..MaxConfigs + 2 :
          n <= Made /\ \A s \in Sessions : sess[s].account # 0 <=> s <= n
    BY DEF IInv, SessionsSound
  <2>4. n <= Made' /\ \A s \in Sessions : sess'[s].account # 0 <=> s <= n
    BY <2>2, <2>3, <1>3, MailTsConstants
  <2>5. ~m'.crossed => m'.mailbox \in {0, m'.imap}
    BY <1>2 DEF IInv, SessionsSound
  <2> QED
    BY <2>1, <2>3, <2>4, <2>5, <1>2 DEF SessionsSound
<1>9. WaitersSound'
  BY <1>1 DEF IInv, WaitersSound
<1> QED
  BY <1>5, <1>6, <1>7, <1>8, <1>9 DEF IInv

-----------------------------------------------------------------------------
(* The theorems.                                                           *)

LEMMA OneStep == IInv /\ [Next]_vars => IInv'
<1> SUFFICES ASSUME IInv, [Next]_vars PROVE IInv'
  OBVIOUS
<1>1. ASSUME NEW t \in Mails, Goes(t) PROVE IInv'
  BY <1>1, AttemptStep, AcceptedStep, NotAcceptedStep, VerdictLostStep, SaveStep, ReportStep DEF Goes
<1>2. ASSUME NEW t \in Mails, Comes(t) PROVE IInv'
  BY <1>2, PreparedStep, MiddlewareThrowsStep, BuildFailsStep, ConnectedStep, ConnectFailsStep,
     FoundStep, AppendStep, NotSavedStep DEF Comes
<1>3. ASSUME NEW t \in Mails, Enqueue(t) \/ \E save \in BOOLEAN : Send(t, save) PROVE IInv'
  BY <1>3, EnqueueStep, SendStep
<1>4. ASSUME ConfigureSmtp \/ ConfigureImap PROVE IInv'
  BY <1>4, ConfigureSmtpStep, ConfigureImapStep
<1>5. ASSUME Shutdown \/ ShutdownPool \/ ShutdownReturns PROVE IInv'
  BY <1>5, ShutdownStep, ShutdownPoolStep, ShutdownReturnsStep
<1>6. ASSUME UNCHANGED vars PROVE IInv'
  BY <1>6 DEF vars, IInv, TypeOK, MailsSound, PoolsSound, WaitersSound, SessionsSound, Made, Placed, Quiet, Copied
<1> QED
  BY <1>1, <1>2, <1>3, <1>4, <1>5, <1>6 DEF Next

LEMMA Invariance == Spec => []IInv
BY Start, OneStep, PTL DEF Spec

LEMMA Truthful == IInv => AnswerMatchesDelivery
<1> SUFFICES ASSUME IInv, NEW t \in Mails, Quiet(m)
             PROVE  /\ send[t].accepted \in {send[t].cut, send[t].cut + 1}
                    /\ send[t].stage = "done" => (send[t].result = "ok" <=> Delivered(send[t]))
  BY DEF AnswerMatchesDelivery, Quiet, IInv
<1>1. send[t] \in Mail /\ Placed(m, send[t])
  BY MailOf
<1>2. send[t].stage \in Before \cup After \cup {"done"}
  BY <1>1 DEF Mail, Stages, Before, After
<1> QED
  BY <1>1, <1>2 DEF Placed, Delivered

\* For every number of messages, tries and configurations: while no hook throws,
\* send() and the queue say a message was sent only if the server took it and its reply
\* was read, and that it failed only if the server did not take it or the reply was
\* never read; a second copy is never sent but after such a reply, whatever fails, is
\* reconfigured or is shut down on the way.
THEOREM AnswersTruthful == Spec => []AnswerMatchesDelivery
BY Invariance, Truthful, PTL

LEMMA InForce == IInv => ConfigurationInForce
<1> SUFFICES ASSUME IInv PROVE ConfigurationInForce
  OBVIOUS
<1>1. SavedOnItsAccount
  BY MailOf DEF SavedOnItsAccount, Copied
<1>2. ShutdownLeavesNothing
  <2> SUFFICES ASSUME m.shut = "done" PROVE ShutdownLeavesNothing
    BY DEF ShutdownLeavesNothing
  <2>1. \A g \in Configs : pool[g].state # "open" /\ (g = m.smtp => pool[g].busy = {})
    BY DEF IInv, PoolsSound
  <2>2. \A s \in Sessions : sess[s].account # 0 => sess[s].closed \/ sess[s].late
    BY MailTsConstants DEF IInv, SessionsSound, Sessions
  <2> QED
    BY <2>1, <2>2 DEF ShutdownLeavesNothing
<1> QED
  BY <1>1, <1>2 DEF ConfigurationInForce

\* For every number of configurations, and of sends caught by the changes: a copy goes
\* to the account its mailbox was found on, unless a lookup was caught by a change, and
\* shutdown() leaves no pool open and no session but one made after it.
THEOREM ConfigurationAlwaysInForce == Spec => []ConfigurationInForce
BY Invariance, InForce, PTL

=============================================================================
