--------------------------- MODULE SmtpClientProofs ---------------------------
(***************************************************************************)
(* What holds of one SMTP connection, for every number of recipients and   *)
(* of messages, every set of configurations and of faults: a reply answers *)
(* the command it is for, no secret goes over a bare wire, and what send() *)
(* returns is what the server did.                                         *)
(***************************************************************************)
EXTENDS SmtpClient, SequenceTheorems, TLAPS

-----------------------------------------------------------------------------
(* The inductive invariant.                                                *)

WaitType == [verb : Verbs, arg : 0..(Rcpts + Messages), live : BOOLEAN]
ReplyType == [verb : Verbs, arg : 0..(Rcpts + Messages), code : Codes]
Verdicts == {"unasked", "asked", "yes", "no", "lost"}

ClientType ==
  [state : SmtpStates, at : Stages, cfg : Configs,
   socket : {"none", "open", "destroyed", "closed"}, encrypted : BOOLEAN,
   again : BOOLEAN, crashed : BOOLEAN, aborted : {"no", "dialling", "attached"},
   probed : BOOLEAN, queue : Seq(WaitType), asked : Seq(Command), replies : Seq(ReplyType),
   got : [1..Rcpts -> Verdicts], message : 0..Messages, mail : [1..Messages -> Outcome]]
ServerType == [rcpts : SUBSET (1..Rcpts), data : BOOLEAN]

\* Where the call under way awaits a reply, and to which command.
Waiting == Stages \ {"off", "dial", "upgrade", "token"}
VerbOf(at) ==
  CASE at = "greeting"                      -> "GREETING"
    [] at \in {"ehlo", "ehlo_tls"}          -> "EHLO"
    [] at = "starttls"                      -> "STARTTLS"
    [] at \in {"plain", "user", "xoauth2"}  -> "AUTH"
    [] at \in {"pass", "login", "answer"}   -> "REPLY"
    [] at = "mail"                          -> "MAIL"
    [] at \in {"rcpt", "rcpts"}             -> "RCPT"
    [] at = "data"                          -> "DATA"
    [] at = "body"                          -> "BODY"
    [] at = "rset"                          -> "RSET"
    [] at = "noop"                          -> "NOOP"
    [] at = "quit"                          -> "QUIT"

Recipients == {"rcpt", "rcpts"}
Sending == {"mail", "rcpt", "rcpts", "data", "body", "rset"}
Secret == {"plain", "user", "pass", "login", "token", "xoauth2", "answer"}

\* What holds of a client k wherever its call is.
Sound(k) ==
  /\ k.socket = "none" => k.queue = <<>> /\ k.asked = <<>> /\ k.replies = <<>>
  /\ k.state = "idle" => k.socket = "none"
  /\ k.state = "ready" => k.aborted # "attached" /\ k.socket # "none"
  /\ k.aborted = "attached" => k.socket \in {"destroyed", "closed"}
  /\ k.socket # "none" /\ k.cfg.secure => k.encrypted
  /\ \A n \in 1..Len(k.asked) :
       /\ k.asked[n].verb \in {"AUTH", "REPLY"} => k.encrypted \/ ~k.cfg.insist
       /\ k.asked[n].verb = "RCPT" => k.asked[n].arg \in 1..Rcpts

\* What a stage of the call rests on.
StageSound(k, at) ==
  /\ k.socket = "none" => at \in {"off", "dial"}
  /\ at = "dial" => k.socket = "none"
  /\ k.state = "idle" => at = "off"
  /\ k.state = "ready" => at \in {"off", "noop"}
  /\ at \in Sending => k.message \in 1..Messages
  /\ at = "ehlo_tls" => k.encrypted
  /\ at \in Secret => k.encrypted \/ ~k.cfg.insist

\* The waits of the call under way: one, or those of a pipelined batch.
Live(k) == {n \in 1..Len(k.queue) : k.queue[n].live}

LiveSound(k) ==
  \A n \in Live(k) :
    /\ k.at \in Waiting /\ k.queue[n].verb = VerbOf(k.at)
    /\ k.at \in Recipients => /\ k.queue[n].arg \in 1..Rcpts
                              /\ k.got[k.queue[n].arg] = "asked"
    /\ \A m \in Live(k) : m # n => k.at = "rcpts" /\ k.queue[m].arg # k.queue[n].arg

\* RepliesMatched, place by place.
Matched(k) ==
  /\ Len(k.queue) = Len(k.replies) + Len(k.asked)
  /\ \A n \in 1..Len(k.replies) :
       k.replies[n].verb = k.queue[n].verb /\ k.replies[n].arg = k.queue[n].arg
  /\ \A n \in 1..Len(k.asked) :
       /\ k.asked[n].verb = k.queue[Len(k.replies) + n].verb
       /\ k.asked[n].arg = k.queue[Len(k.replies) + n].arg

\* The codes a server may give.
Code(verb, code) ==
  CASE verb \in {"RCPT", "BODY"} -> code \in {"ok", "no"}
    [] verb = "DATA"             -> code \in {"more", "no"}
    [] verb = "RSET"             -> code = "ok"
    [] OTHER                     -> TRUE

RepliesSound(k) == \A n \in 1..Len(k.replies) : Code(k.replies[n].verb, k.replies[n].code)

\* The wait a cut body leaves behind.
CutBody(k, w) ==
  w.verb = "BODY" /\ ~w.live /\ w.arg = k.message /\ k.mail[k.message].cut

Queued(k) ==
  /\ k.at \notin Waiting => Len(k.queue) = 0
  /\ k.at \in Waiting \ {"rcpts", "rset"} =>
       Len(k.queue) = 1 /\ k.queue[1].live /\ (k.at = "body" => k.queue[1].arg = k.message)
  /\ k.at = "rcpts" => Live(k) = 1..Len(k.queue)
  /\ k.at = "rset" => \/ Len(k.queue) = 1 /\ k.queue[1].live
                      \/ Len(k.queue) = 2 /\ k.queue[2].live /\ CutBody(k, k.queue[1])
  /\ k.at = "rcpt" => \A i \in 1..Rcpts : i > k.queue[1].arg => k.got[i] = "unasked"

Granted(k) == {k.replies[n].arg : n \in {m \in 1..Len(k.replies) : k.replies[m].code = "ok"}}

Clean(sv) == ~sv.data /\ sv.rcpts = {}

\* What the server knows, seen from the stage of the call.
ServerSound(k, sv) ==
  /\ k.at \in Recipients => ~sv.data /\ sv.rcpts = Accepted(k) \cup Granted(k)
  /\ k.at = "data" => /\ sv.rcpts = Accepted(k) /\ sv.rcpts # {}
                      /\ sv.data <=> Len(k.replies) # 0 /\ k.replies[1].code = "more"
  /\ k.at = "body" =>
       /\ Accepted(k) # {}
       /\ IF Len(k.replies) = 0
          THEN sv.data /\ sv.rcpts = Accepted(k) /\ k.mail[k.message].taken = {}
          ELSE /\ Clean(sv)
               /\ k.mail[k.message].taken = IF k.replies[1].code = "ok" THEN Accepted(k) ELSE {}
  /\ k.at = "rset" => (sv.data => Len(k.asked) = 2) /\ (Len(k.asked) = 0 => Clean(sv))
  /\ k.at \notin {"rcpt", "rcpts", "data", "body", "rset"} => Clean(sv)

\* While no wait was given up before its reply, on an open socket.
Dialogue(k, sv) == Matched(k) /\ Queued(k) /\ RepliesSound(k) /\ ServerSound(k, sv)

\* While no wait was given up before its reply: the messages that are over, those
\* still to come, and the one in hand.
Told(s) == /\ s.result = "sent" => s.accepted = s.taken /\ s.taken # {}
           /\ s.result = "failed" /\ s.taken # {} => s.cut
MailsSound(k) == \A m \in 1..Messages : Told(k.mail[m]) /\ (m > k.message => k.mail[m] = Unsent)

InHand(k, at) ==
  /\ at \in Sending => k.mail[k.message].result = "none"
  /\ at \in {"mail", "rcpt", "rcpts", "data"} => k.mail[k.message].taken = {}
  /\ at = "rset" /\ k.mail[k.message].taken # {} => k.mail[k.message].cut

ClientInv(k, sv, lg) ==
  /\ k \in ClientType /\ Sound(k) /\ StageSound(k, k.at) /\ LiveSound(k)
  /\ ~lg => MailsSound(k) /\ InHand(k, k.at)
  /\ ~lg /\ k.socket = "open" => Dialogue(k, sv)
  /\ k.socket = "none" => Clean(sv)

Inv == server \in ServerType /\ lagged \in BOOLEAN /\ ClientInv(c, server, lagged)

-----------------------------------------------------------------------------
(* Sequences.                                                              *)

LEMMA Appended ==
  ASSUME NEW T, NEW s \in Seq(T), NEW e \in T
  PROVE  /\ Append(s, e) \in Seq(T) /\ Len(s) \in Nat
         /\ Len(Append(s, e)) = Len(s) + 1
         /\ Append(s, e)[Len(s) + 1] = e
         /\ \A n \in 1..Len(s) : Append(s, e)[n] = s[n]
OBVIOUS

LEMMA Popped ==
  ASSUME NEW T, NEW s \in Seq(T), s # <<>>
  PROVE  /\ Len(s) \in Nat \ {0} /\ Head(s) = s[1] /\ s[1] \in T
         /\ Tail(s) \in Seq(T) /\ Len(Tail(s)) = Len(s) - 1
         /\ \A n \in 1..Len(Tail(s)) : Tail(s)[n] = s[n + 1] /\ n + 1 \in 1..Len(s)
OBVIOUS

LEMMA EmptyList ==
  ASSUME NEW T, NEW s \in Seq(T)
  PROVE  Len(s) \in Nat /\ (s = <<>> <=> Len(s) = 0) /\ DOMAIN s = 1..Len(s)
OBVIOUS

LEMMA Joined ==
  ASSUME NEW T, NEW s \in Seq(T), NEW t \in Seq(T)
  PROVE  /\ s \o t \in Seq(T) /\ Len(s) \in Nat /\ Len(t) \in Nat
         /\ Len(s \o t) = Len(s) + Len(t)
         /\ \A n \in 1..Len(s) : (s \o t)[n] = s[n]
         /\ \A n \in 1..Len(t) : (s \o t)[Len(s) + n] = t[n]
<1>1. /\ s \o t \in Seq(T) /\ Len(s) \in Nat /\ Len(t) \in Nat
      /\ Len(s \o t) = Len(s) + Len(t)
      /\ \A i \in 1..Len(s) + Len(t) :
           (s \o t)[i] = IF i <= Len(s) THEN s[i] ELSE t[i - Len(s)]
  BY ConcatProperties
<1>2. \A n \in 1..Len(s) : (s \o t)[n] = s[n]
  BY <1>1
<1>3. ASSUME NEW n \in 1..Len(t) PROVE (s \o t)[Len(s) + n] = t[n]
  <2>1. Len(s) + n \in 1..Len(s) + Len(t) /\ ~(Len(s) + n <= Len(s)) /\ Len(s) + n - Len(s) = n
    BY <1>1
  <2> QED BY <1>1, <2>1
<1> QED BY <1>1, <1>2, <1>3

\* a is what comes before place n of s, b what comes after it, d the elements but that one.
Before(a, s, n) == Len(a) = n - 1 /\ \A i \in 1..(n - 1) : a[i] = s[i]
After(b, s, n) == Len(b) = Len(s) - n /\ \A i \in 1..(Len(s) - n) : b[i] = s[n + i]
Lacks(d, s, n) == \A i \in 1..Len(d) : \E j \in 1..Len(s) :
                    j # n /\ d[i] = s[j] /\ j = IF i < n THEN i ELSE i + 1

\* Two lists around the place of an element of s that is in neither.
LEMMA Around ==
  ASSUME NEW T, NEW s \in Seq(T), NEW n \in 1..Len(s), NEW a \in Seq(T), NEW b \in Seq(T)
  PROVE  Before(a, s, n) /\ After(b, s, n) => Lacks(a \o b, s, n)
<1> DEFINE m == Len(s)
<1>1. m \in Nat /\ n \in 1..m
  OBVIOUS
<1>2. /\ Len(a \o b) = Len(a) + Len(b)
      /\ \A i \in 1..Len(a) : (a \o b)[i] = a[i]
      /\ \A i \in 1..Len(b) : (a \o b)[Len(a) + i] = b[i]
  BY Joined
<1> HAVE Before(a, s, n) /\ After(b, s, n)
<1> HIDE DEF m
<1>3. SUFFICES ASSUME NEW i \in 1..Len(a \o b)
               PROVE  \E j \in 1..m : j # n /\ (a \o b)[i] = s[j] /\ j = IF i < n THEN i ELSE i + 1
  BY DEF m, Lacks
<1>4. Len(a) = n - 1 /\ Len(b) = m - n
  BY DEF m, Before, After
<1>5. CASE i < n
  <2>1. i \in 1..(n - 1) /\ i \in 1..m /\ i # n
    BY <1>1, <1>2, <1>4, <1>5
  <2> QED BY <1>2, <1>4, <1>5, <2>1 DEF Before
<1>6. CASE ~(i < n)
  <2> DEFINE j == i - n + 1
  <2>1. j \in 1..(m - n) /\ (n - 1) + j = i /\ n + j = i + 1 /\ i + 1 \in 1..m /\ i + 1 # n
    BY <1>1, <1>2, <1>4, <1>6
  <2>2. (a \o b)[(n - 1) + j] = b[j] /\ b[j] = s[n + j]
    BY <1>2, <1>4, <2>1 DEF m, After
  <2>3. (a \o b)[i] = s[i + 1]
    BY <2>1, <2>2
  <2> QED BY <1>6, <2>1, <2>3
<1> QED BY <1>5, <1>6

\* A wait taken out of the list.
LEMMA Dropped ==
  ASSUME NEW T, NEW s \in Seq(T), NEW n \in 1..Len(s)
  PROVE  LET d == SubSeq(s, 1, n - 1) \o SubSeq(s, n + 1, Len(s))
         IN  d \in Seq(T) /\ Lacks(d, s, n)
<1> DEFINE m == Len(s)
           a == SubSeq(s, 1, n - 1)
           b == SubSeq(s, n + 1, m)
<1>1. m \in Nat /\ n \in 1..m /\ \A i \in 1..m : s[i] \in T
  OBVIOUS
<1>2. a \in Seq(T) /\ Len(a) = n - 1 /\ \A i \in 1..(n - 1) : a[i] = s[i]
  <2>1. 1 \in Int /\ n - 1 \in Int /\ \A i \in 1..(n - 1) : s[i] \in T
    BY <1>1
  <2>2. /\ a \in Seq(T) /\ Len(a) = IF 1 <= n - 1 THEN n - 1 - 1 + 1 ELSE 0
        /\ \A i \in 1..(n - 1 - 1 + 1) : a[i] = s[1 + i - 1]
    BY <2>1, SubSeqProperties
  <2> HIDE DEF m, a
  <2>3. n - 1 - 1 + 1 = n - 1 /\ \A i \in 1..(n - 1) : 1 + i - 1 = i
    BY <1>1
  <2> QED BY <1>1, <2>2, <2>3
<1>3. b \in Seq(T) /\ Len(b) = m - n /\ \A i \in 1..(m - n) : b[i] = s[n + i]
  <2>1. n + 1 \in Int /\ m \in Int /\ \A i \in (n + 1)..m : s[i] \in T
    BY <1>1
  <2>2. /\ b \in Seq(T) /\ Len(b) = IF n + 1 <= m THEN m - (n + 1) + 1 ELSE 0
        /\ \A i \in 1..(m - (n + 1) + 1) : b[i] = s[n + 1 + i - 1]
    BY <2>1, SubSeqProperties
  <2> HIDE DEF m, b
  <2>3. m - (n + 1) + 1 = m - n /\ \A i \in 1..(m - n) : n + 1 + i - 1 = n + i
    BY <1>1
  <2> QED BY <1>1, <2>2, <2>3
<1>4. a \in Seq(T) /\ b \in Seq(T)
  BY <1>2, <1>3
<1>5. a \o b \in Seq(T)
  BY <1>4
<1>6. Before(a, s, n) /\ After(b, s, n)
  BY <1>2, <1>3 DEF m, Before, After
<1>7. Lacks(a \o b, s, n)
  BY <1>4, <1>6, Around
<1> QED BY <1>5, <1>7 DEF a, b, m

-----------------------------------------------------------------------------
(* A command is sent, and its reply awaited.                               *)

LEMMA Numbers == Rcpts \in Nat \ {0} /\ Messages \in Nat \ {0} /\ Configs \subseteq Config
BY SmtpClientConstants

LEMMA VerbsOf ==
  ASSUME NEW at \in Waiting
  PROVE  /\ VerbOf(at) \in Verbs
         /\ VerbOf(at) \in {"AUTH", "REPLY"} => at \in Secret
         /\ VerbOf(at) = "BODY" => at = "body"
BY DEF VerbOf, Waiting, Stages, Verbs, Secret

LEMMA ListsTyped ==
  ASSUME NEW k \in ClientType
  PROVE  /\ k.queue \in Seq(WaitType) /\ Len(k.queue) \in Nat /\ DOMAIN k.queue = 1..Len(k.queue)
         /\ k.asked \in Seq(Command) /\ Len(k.asked) \in Nat
         /\ k.replies \in Seq(ReplyType) /\ Len(k.replies) \in Nat
         /\ k.queue = <<>> <=> Len(k.queue) = 0
         /\ k.asked = <<>> <=> Len(k.asked) = 0
         /\ k.replies = <<>> <=> Len(k.replies) = 0
         /\ \A n \in 1..Len(k.queue) : k.queue[n] \in WaitType
         /\ \A n \in 1..Len(k.asked) : k.asked[n] \in Command
         /\ \A n \in 1..Len(k.replies) : k.replies[n] \in ReplyType
<1>1. k.queue \in Seq(WaitType) /\ k.asked \in Seq(Command) /\ k.replies \in Seq(ReplyType)
  BY DEF ClientType
<1> QED BY <1>1, EmptyList, ElementOfSeq

\* The fields a command and its wait leave alone.
Alike(r, k) ==
  /\ r.state = k.state /\ r.cfg = k.cfg /\ r.socket = k.socket /\ r.encrypted = k.encrypted
  /\ r.aborted = k.aborted /\ r.replies = k.replies /\ r.got = k.got
  /\ r.message = k.message /\ r.mail = k.mail

LEMMA AwaitFields ==
  ASSUME NEW k \in ClientType, NEW verb \in Verbs, NEW arg \in 0..(Rcpts + Messages),
         NEW stage \in Stages
  PROVE  LET r == Await(k, verb, arg, stage)
         IN  /\ r \in ClientType /\ r.at = stage /\ Alike(r, k)
             /\ r.queue = Append(k.queue, [verb |-> verb, arg |-> arg, live |-> TRUE])
             /\ r.asked = IF k.socket = "open"
                          THEN Append(k.asked, [verb |-> verb, arg |-> arg]) ELSE k.asked
<1> DEFINE w == [verb |-> verb, arg |-> arg, live |-> TRUE]
           a == [verb |-> verb, arg |-> arg]
           q == Append(k.queue, w)
           s == IF k.socket = "open" THEN Append(k.asked, a) ELSE k.asked
           r == Await(k, verb, arg, stage)
<1>1. q \in Seq(WaitType) /\ s \in Seq(Command)
  <2>1. k.queue \in Seq(WaitType) /\ k.asked \in Seq(Command)
    BY ListsTyped
  <2>2. w \in WaitType /\ a \in Command
    BY DEF WaitType, Command
  <2> QED BY <2>1, <2>2, Appended
<1>2. r = [[k EXCEPT !.queue = q, !.asked = s] EXCEPT !.at = stage]
  BY DEF Await, Ask
<1> HIDE DEF q, s, r
<1>3. r \in ClientType /\ r.at = stage /\ Alike(r, k) /\ r.queue = q /\ r.asked = s
  BY <1>1, <1>2 DEF ClientType, Alike
<1> QED BY <1>3 DEF q, s, r

\* No wait is left, and the client is sound.
Resting(k, lg) ==
  /\ k \in ClientType /\ Sound(k) /\ Live(k) = {} /\ k.socket # "none"
  /\ ~lg => MailsSound(k)

LEMMA AwaitSound ==
  ASSUME NEW k, NEW lg \in BOOLEAN, Resting(k, lg),
         NEW stage \in Waiting, stage # "rcpts",
         NEW arg \in 0..(Rcpts + Messages),
         StageSound(k, stage), ~lg => InHand(k, stage),
         stage = "rcpt" => arg \in 1..Rcpts /\ k.got[arg] = "asked"
  PROVE  LET r == Await(k, VerbOf(stage), arg, stage)
         IN  /\ r \in ClientType /\ Sound(r) /\ StageSound(r, r.at) /\ LiveSound(r)
             /\ ~lg => MailsSound(r) /\ InHand(r, r.at)
<1> DEFINE verb == VerbOf(stage)
           r == Await(k, verb, arg, stage)
           w == [verb |-> verb, arg |-> arg, live |-> TRUE]
           a == [verb |-> verb, arg |-> arg]
<1>1. k \in ClientType /\ verb \in Verbs /\ stage \in Stages
  BY VerbsOf DEF Resting, Waiting
<1>2. /\ r \in ClientType /\ r.at = stage /\ Alike(r, k)
      /\ r.queue = Append(k.queue, w)
      /\ r.asked = IF k.socket = "open" THEN Append(k.asked, a) ELSE k.asked
  BY <1>1, AwaitFields
<1> HIDE DEF r
<1>3. /\ Len(k.queue) \in Nat /\ Len(r.queue) = Len(k.queue) + 1
      /\ r.queue[Len(k.queue) + 1] = w
      /\ \A n \in 1..Len(k.queue) : r.queue[n] = k.queue[n]
  <2>1. k.queue \in Seq(WaitType) /\ w \in WaitType
    BY <1>1, ListsTyped DEF WaitType
  <2> QED BY <1>2, <2>1, Appended
<1>4. Live(r) = {Len(k.queue) + 1}
  BY <1>3 DEF Live, Resting
<1>5. LiveSound(r)
  <2>1. r.got = k.got
    BY <1>2 DEF Alike
  <2> QED BY <1>2, <1>3, <1>4, <2>1 DEF LiveSound, Recipients
<1>6. Sound(r)
  <2>1. /\ r.state = k.state /\ r.cfg = k.cfg /\ r.socket = k.socket /\ r.encrypted = k.encrypted
        /\ r.aborted = k.aborted /\ r.replies = k.replies
    BY <1>2 DEF Alike
  <2>2. r.socket # "none" /\ Sound(k)
    BY <2>1 DEF Resting
  <2>3. ASSUME NEW n \in 1..Len(r.asked), r.asked[n].verb \in {"AUTH", "REPLY"}
        PROVE  r.encrypted \/ ~r.cfg.insist
    <3>1. CASE k.socket # "open"
      BY <1>2, <2>1, <2>2, <2>3, <3>1 DEF Sound
    <3>2. CASE k.socket = "open"
      <4>1. /\ Len(k.asked) \in Nat /\ Len(r.asked) = Len(k.asked) + 1
            /\ r.asked[Len(k.asked) + 1] = a
            /\ \A i \in 1..Len(k.asked) : r.asked[i] = k.asked[i]
        <5>1. k.asked \in Seq(Command) /\ a \in Command
          BY <1>1, ListsTyped DEF Command
        <5> QED BY <1>2, <3>2, <5>1, Appended
      <4>2. CASE n = Len(k.asked) + 1
        <5>1. VerbOf(stage) \in {"AUTH", "REPLY"}
          BY <2>3, <4>1, <4>2
        <5>2. stage \in Secret
          BY <5>1, VerbsOf
        <5> QED BY <2>1, <5>2 DEF StageSound
      <4>3. CASE n # Len(k.asked) + 1
        <5>1. n \in 1..Len(k.asked) /\ k.asked[n].verb \in {"AUTH", "REPLY"}
          BY <2>3, <4>1, <4>3
        <5> QED BY <2>1, <2>2, <5>1 DEF Sound
      <4> QED BY <4>2, <4>3
    <3> QED BY <3>1, <3>2
  <2>4. ASSUME NEW n \in 1..Len(r.asked), r.asked[n].verb = "RCPT"
        PROVE  r.asked[n].arg \in 1..Rcpts
    <3>1. CASE k.socket # "open"
      BY <1>2, <2>2, <2>4, <3>1 DEF Sound, Resting
    <3>2. CASE k.socket = "open"
      <4>1. /\ Len(k.asked) \in Nat /\ Len(r.asked) = Len(k.asked) + 1
            /\ r.asked[Len(k.asked) + 1] = a
            /\ \A i \in 1..Len(k.asked) : r.asked[i] = k.asked[i]
        <5>1. k.asked \in Seq(Command) /\ a \in Command
          BY <1>1, ListsTyped DEF Command
        <5> QED BY <1>2, <3>2, <5>1, Appended
      <4>2. CASE n = Len(k.asked) + 1
        <5>1. VerbOf(stage) = "RCPT" /\ r.asked[n].arg = arg
          BY <2>4, <4>1, <4>2
        <5>2. stage = "rcpt"
          BY <5>1 DEF VerbOf, Waiting, Stages
        <5> QED BY <5>1, <5>2
      <4>3. CASE n # Len(k.asked) + 1
        <5>1. n \in 1..Len(k.asked) /\ r.asked[n] = k.asked[n]
          BY <4>1, <4>3
        <5> QED BY <2>2, <2>4, <5>1 DEF Sound
      <4> QED BY <4>2, <4>3
    <3> QED BY <3>1, <3>2
  <2> QED BY <2>1, <2>2, <2>3, <2>4 DEF Sound
<1>7. StageSound(r, r.at)
  BY <1>2 DEF StageSound, Alike
<1>8. ~lg => MailsSound(r) /\ InHand(r, r.at)
  BY <1>2 DEF MailsSound, InHand, Alike, Resting
<1> QED BY <1>2, <1>5, <1>6, <1>7, <1>8 DEF r

\* Nothing is on its way.
Quiet(k) == Len(k.queue) = 0 /\ Len(k.replies) = 0 /\ Len(k.asked) = 0

\* What the server knows when the command of a stage is sent.
Expects(k, sv, stage, arg) ==
  /\ stage = "rcpt" => /\ ~sv.data /\ sv.rcpts = Accepted(k)
                       /\ \A i \in 1..Rcpts : i > arg => k.got[i] = "unasked"
  /\ stage = "data" => sv.rcpts = Accepted(k) /\ sv.rcpts # {} /\ ~sv.data
  /\ stage = "body" => /\ sv.rcpts = Accepted(k) /\ sv.rcpts # {} /\ sv.data
                       /\ k.mail[k.message].taken = {} /\ arg = k.message
  /\ stage = "rset" => ~sv.data
  /\ stage \notin {"rcpt", "data", "body", "rset"} => Clean(sv)

LEMMA AwaitInv ==
  ASSUME NEW k, NEW sv, NEW lg \in BOOLEAN, Resting(k, lg),
         NEW stage \in Waiting, stage # "rcpts",
         NEW arg \in 0..(Rcpts + Messages),
         StageSound(k, stage), ~lg => InHand(k, stage),
         stage = "rcpt" => arg \in 1..Rcpts /\ k.got[arg] = "asked",
         ~lg /\ k.socket = "open" => Quiet(k) /\ Expects(k, sv, stage, arg)
  PROVE  ClientInv(Await(k, VerbOf(stage), arg, stage), sv, lg)
<1> DEFINE verb == VerbOf(stage)
           r == Await(k, verb, arg, stage)
           w == [verb |-> verb, arg |-> arg, live |-> TRUE]
           a == [verb |-> verb, arg |-> arg]
<1>1. k \in ClientType /\ verb \in Verbs /\ stage \in Stages
  BY VerbsOf DEF Resting, Waiting
<1>2. /\ r \in ClientType /\ r.at = stage /\ Alike(r, k)
      /\ r.queue = Append(k.queue, w)
      /\ r.asked = IF k.socket = "open" THEN Append(k.asked, a) ELSE k.asked
  BY <1>1, AwaitFields
<1>3. /\ Sound(r) /\ StageSound(r, r.at) /\ LiveSound(r)
      /\ ~lg => MailsSound(r) /\ InHand(r, r.at)
  BY AwaitSound
<1> HIDE DEF r
<1>4. ASSUME ~lg, k.socket = "open" PROVE Dialogue(r, sv)
  <2>1. Quiet(k) /\ Expects(k, sv, stage, arg)
    BY <1>4
  <2>2. /\ Len(r.queue) = 1 /\ r.queue[1] = w
        /\ Len(r.asked) = 1 /\ r.asked[1] = a
        /\ Len(r.replies) = 0
    <3>1. /\ k.queue \in Seq(WaitType) /\ w \in WaitType /\ k.asked \in Seq(Command) /\ a \in Command
      BY <1>1, ListsTyped DEF WaitType, Command
    <3>2. /\ Len(r.queue) = Len(k.queue) + 1 /\ r.queue[Len(k.queue) + 1] = w
          /\ Len(r.asked) = Len(k.asked) + 1 /\ r.asked[Len(k.asked) + 1] = a
      BY <1>2, <1>4, <3>1, Appended
    <3> QED BY <1>2, <2>1, <3>2 DEF Quiet, Alike
  <2>3. Matched(r) /\ RepliesSound(r)
    BY <2>2 DEF Matched, RepliesSound
  <2>4. r.at = stage /\ r.got = k.got /\ r.mail = k.mail /\ r.message = k.message
    BY <1>2 DEF Alike
  <2>5. Queued(r)
    <3>1. r.queue[1].live /\ r.queue[1].arg = arg
      BY <2>2
    <3>2. stage = "body" => arg = r.message
      BY <2>1, <2>4 DEF Expects
    <3>3. stage = "rcpt" => \A i \in 1..Rcpts : i > arg => r.got[i] = "unasked"
      BY <2>1, <2>4 DEF Expects
    <3> QED BY <2>2, <2>4, <3>1, <3>2, <3>3 DEF Queued
  <2>6. ServerSound(r, sv)
    <3>1. Accepted(r) = Accepted(k)
      BY <2>4 DEF Accepted
    <3>2. Granted(r) = {}
      BY <2>2 DEF Granted
    <3> QED BY <2>1, <2>2, <2>4, <3>1, <3>2 DEF ServerSound, Expects, Recipients
  <2> QED BY <2>3, <2>5, <2>6 DEF Dialogue
<1>5. r.socket = k.socket /\ r.socket # "none"
  BY <1>2 DEF Alike, Resting
<1> QED BY <1>2, <1>3, <1>4, <1>5 DEF ClientInv, r

-----------------------------------------------------------------------------
(* The call ends.                                                          *)

\* No wait is left, and neither a reply nor a transaction is open.
Calm(k, sv, lg) == Resting(k, lg) /\ (~lg /\ k.socket = "open" => Quiet(k) /\ Clean(sv))

\* r is k where the call awaits something else than a reply, or is over.
LEMMA PausedInv ==
  ASSUME NEW k \in ClientType, NEW r \in ClientType, NEW sv, NEW lg \in BOOLEAN,
         NEW stage \in {"off", "token", "upgrade"},
         r.at = stage, Alike(r, k), r.queue = k.queue, r.asked = k.asked,
         Sound(k), Live(k) = {}, StageSound(k, stage), ~lg => MailsSound(k),
         ~lg /\ k.socket = "open" => Quiet(k) /\ Clean(sv),
         k.socket = "none" => Clean(sv)
  PROVE  ClientInv(r, sv, lg)
<1>1. Sound(r) /\ StageSound(r, r.at) /\ LiveSound(r)
  <2>1. Live(r) = {}
    BY DEF Live
  <2> QED BY <2>1 DEF Sound, StageSound, LiveSound, Alike
<1>2. ~lg => MailsSound(r) /\ InHand(r, r.at)
  BY DEF MailsSound, InHand, Alike, Sending
<1>3. ASSUME ~lg, r.socket = "open" PROVE Dialogue(r, sv)
  <2>1. Quiet(k) /\ Clean(sv)
    BY <1>3 DEF Alike
  <2>2. Len(r.queue) = 0 /\ Len(r.replies) = 0 /\ Len(r.asked) = 0
    BY <2>1 DEF Quiet, Alike
  <2>3. Matched(r) /\ RepliesSound(r)
    BY <2>2 DEF Matched, RepliesSound
  <2>4. Queued(r) /\ ServerSound(r, sv)
    BY <2>1, <2>2 DEF Queued, ServerSound, Waiting, Recipients
  <2> QED BY <2>3, <2>4 DEF Dialogue
<1>4. r.socket = "none" => Clean(sv)
  BY DEF Alike
<1> QED BY <1>1, <1>2, <1>3, <1>4 DEF ClientInv

LEMMA EndsInv ==
  ASSUME NEW k \in ClientType, NEW sv, NEW lg \in BOOLEAN,
         Sound(k), Live(k) = {}, ~lg => MailsSound(k),
         ~lg /\ k.socket = "open" => Quiet(k) /\ Clean(sv),
         k.socket = "none" => Clean(sv)
  PROVE  ClientInv(Ends(k), sv, lg)
<1>1. /\ Ends(k) \in ClientType /\ Ends(k).at = "off" /\ Alike(Ends(k), k)
      /\ Ends(k).queue = k.queue /\ Ends(k).asked = k.asked
  BY DEF ClientType, Ends, Alike, Stages
<1>2. StageSound(k, "off")
  BY DEF StageSound, Sending, Secret
<1> QED BY <1>1, <1>2, PausedInv

LEMMA TokenInv ==
  ASSUME NEW k, NEW sv, NEW lg \in BOOLEAN, NEW again \in BOOLEAN, Calm(k, sv, lg),
         k.encrypted \/ ~k.cfg.insist, k.state # "ready"
  PROVE  ClientInv(FetchToken(k, again), sv, lg)
<1> DEFINE r == FetchToken(k, again)
<1>1. k \in ClientType
  BY DEF Calm, Resting
<1>2. r \in ClientType /\ r.at = "token" /\ Alike(r, k) /\ r.queue = k.queue /\ r.asked = k.asked
  BY <1>1 DEF ClientType, FetchToken, Alike, Stages
<1> HIDE DEF r
<1>3. StageSound(k, "token")
  BY DEF StageSound, Sending, Secret, Calm, Resting, Sound
<1>4. ClientInv(r, sv, lg)
  BY <1>1, <1>2, <1>3, PausedInv DEF Calm, Resting
<1> QED BY <1>4 DEF r

LEMMA FinishInv ==
  ASSUME NEW k \in ClientType, NEW sv, NEW lg \in BOOLEAN,
         NEW result \in {"sent", "failed"}, NEW accepted \in SUBSET (1..Rcpts),
         Sound(k), Live(k) = {}, k.message \in 1..Messages,
         ~lg => /\ MailsSound(k)
                /\ LET t == k.mail[k.message].taken
                   IN  IF result = "sent" THEN accepted = t /\ t # {}
                       ELSE t # {} => k.mail[k.message].cut,
         ~lg /\ k.socket = "open" => Quiet(k) /\ Clean(sv),
         k.socket = "none" => Clean(sv)
  PROVE  ClientInv(Finish(k, result, accepted), sv, lg)
<1> DEFINE o == [k.mail[k.message] EXCEPT !.result = result, !.accepted = accepted]
           mail == [k.mail EXCEPT ![k.message] = o]
           f == [k EXCEPT !.mail = mail]
<1>1. k.mail \in [1..Messages -> Outcome] /\ k.mail[k.message] \in Outcome
  BY DEF ClientType
<1>2. o \in Outcome /\ o.result = result /\ o.accepted = accepted
      /\ o.taken = k.mail[k.message].taken /\ o.cut = k.mail[k.message].cut
  BY <1>1 DEF Outcome
<1>3. Finish(k, result, accepted) = Ends(f)
  <2> DEFINE m1 == [k.mail EXCEPT ![k.message].result = result]
             k1 == [k EXCEPT !.mail = m1]
  <2>1. k1.mail = m1 /\ k1.message = k.message /\ m1 \in [1..Messages -> Outcome]
        /\ m1[k.message] = [k.mail[k.message] EXCEPT !.result = result]
    BY <1>1 DEF ClientType, Outcome
  <2>2. Finish(k, result, accepted) = Ends([k1 EXCEPT !.mail = [k1.mail EXCEPT ![k.message].accepted = accepted]])
    BY <2>1, Zenon DEF Finish
  <2>3. [k1.mail EXCEPT ![k.message].accepted = accepted] = mail
    <3> DEFINE o1 == [k.mail[k.message] EXCEPT !.result = result]
               m2 == [k1.mail EXCEPT ![k.message].accepted = accepted]
    <3>1. o1 \in Outcome /\ [o1 EXCEPT !.accepted = accepted] = o
      BY <1>1 DEF Outcome
    <3>2. k1.mail \in [1..Messages -> Outcome] /\ k1.mail[k.message] = o1
          /\ \A m \in 1..Messages \ {k.message} : k1.mail[m] = k.mail[m]
      BY <1>1, <2>1
    <3> HIDE DEF o, o1, k1
    <3>3. m2 = [m \in 1..Messages |-> IF m = k.message THEN o ELSE k.mail[m]]
      BY <3>1, <3>2
    <3>4. mail = [m \in 1..Messages |-> IF m = k.message THEN o ELSE k.mail[m]]
      BY <1>1
    <3> QED BY <3>3, <3>4
  <2>4. [k1 EXCEPT !.mail = mail] = f
    BY DEF ClientType
  <2> QED BY <2>2, <2>3, <2>4
<1> HIDE DEF o
<1>4. mail \in [1..Messages -> Outcome]
  BY <1>1, <1>2
<1>5. \A m \in 1..Messages : mail[m] = IF m = k.message THEN o ELSE k.mail[m]
  BY <1>1
<1> HIDE DEF mail
<1>6. /\ f \in ClientType /\ f.mail = mail /\ f.message = k.message /\ f.queue = k.queue
      /\ f.replies = k.replies /\ f.asked = k.asked /\ f.socket = k.socket /\ f.state = k.state
      /\ f.aborted = k.aborted /\ f.cfg = k.cfg /\ f.encrypted = k.encrypted
  BY <1>4 DEF ClientType
<1> HIDE DEF f
<1>7. Sound(f) /\ Live(f) = {}
  BY <1>6 DEF Sound, Live
<1>8. ASSUME ~lg PROVE MailsSound(f)
  <2> SUFFICES ASSUME NEW m \in 1..Messages PROVE Told(mail[m]) /\ (m > f.message => mail[m] = Unsent)
    BY <1>6 DEF MailsSound
  <2>1. CASE m = k.message
    <3>1. mail[m] = o /\ ~(m > f.message)
      BY <1>5, <1>6, <2>1, Numbers
    <3> QED BY <1>2, <1>8, <3>1 DEF Told
  <2>2. CASE m # k.message
    BY <1>5, <1>6, <1>8, <2>2 DEF MailsSound
  <2> QED BY <2>1, <2>2
<1>9. /\ ~lg /\ f.socket = "open" => Quiet(f) /\ Clean(sv)
      /\ f.socket = "none" => Clean(sv)
  BY <1>6 DEF Quiet
<1> QED BY <1>3, <1>6, <1>7, <1>8, <1>9, EndsInv

\* A socket that is destroyed, or was not open.
LEMMA DestroyedFields ==
  ASSUME NEW k \in ClientType
  PROVE  LET r == Destroyed(k)
         IN  /\ r \in ClientType /\ r.socket # "open" /\ r.at = k.at
             /\ k.socket # "none" => r.socket # "none"
             /\ r.socket = IF k.socket = "open" THEN "destroyed" ELSE k.socket
             /\ r.state = k.state /\ r.cfg = k.cfg /\ r.encrypted = k.encrypted
             /\ r.aborted = k.aborted /\ r.replies = k.replies /\ r.got = k.got
             /\ r.message = k.message /\ r.mail = k.mail /\ r.queue = k.queue /\ r.asked = k.asked
BY DEF ClientType, Destroyed

LEMMA DestroyedSound ==
  ASSUME NEW k \in ClientType, Sound(k)
  PROVE  /\ Sound(Destroyed(k)) /\ Live(Destroyed(k)) = Live(k)
         /\ MailsSound(k) => MailsSound(Destroyed(k))
         /\ \A at \in Stages : StageSound(k, at) => StageSound(Destroyed(k), at)
         /\ LiveSound(k) => LiveSound(Destroyed(k))
BY DestroyedFields DEF Sound, Live, MailsSound, StageSound, LiveSound

\* The stretch of a send() that failed, before its RSET.
LEMMA FailsInv ==
  ASSUME NEW k, NEW sv, NEW lg \in BOOLEAN, Resting(k, lg),
         k.message \in 1..Messages,
         ~lg => /\ k.mail[k.message].result = "none"
                /\ k.mail[k.message].taken # {} => k.mail[k.message].cut,
         ~lg /\ k.socket = "open" =>
           /\ Matched(k) /\ RepliesSound(k)
           /\ Len(k.queue) = 0 \/ (Len(k.queue) = 1 /\ CutBody(k, k.queue[1]))
           /\ sv.data => Len(k.asked) = 1
  PROVE  ClientInv(Fails(k), sv, lg)
<1> DEFINE e == [k EXCEPT !.state = "error"]
<1>1. k \in ClientType
  BY DEF Resting
<1>2. e \in ClientType /\ e.state = "error" /\ e.at = k.at /\ e.cfg = k.cfg /\ e.socket = k.socket
      /\ e.encrypted = k.encrypted /\ e.aborted = k.aborted /\ e.replies = k.replies
      /\ e.got = k.got /\ e.message = k.message /\ e.mail = k.mail /\ e.queue = k.queue
      /\ e.asked = k.asked
  BY <1>1 DEF ClientType, SmtpStates
<1>3. Fails(k) = IF k.socket = "open" THEN Await(e, "RSET", 0, "rset") ELSE Finish(e, "failed", {})
  BY DEF Fails
<1> HIDE DEF e
<1>4. Resting(e, lg)
  BY <1>2 DEF Resting, Sound, Live, MailsSound
<1>5. CASE k.socket # "open"
  <2>1. ClientInv(Finish(e, "failed", {}), sv, lg)
    BY <1>2, <1>4, <1>5, FinishInv DEF Resting
  <2> QED BY <1>3, <1>5, <2>1
<1>6. CASE k.socket = "open"
  <2> DEFINE w == [verb |-> "RSET", arg |-> 0, live |-> TRUE]
             a == [verb |-> "RSET", arg |-> 0]
             r == Await(e, "RSET", 0, "rset")
  <2>1. "RSET" \in Verbs /\ 0 \in 0..(Rcpts + Messages) /\ "rset" \in Stages
        /\ "rset" \in Waiting /\ VerbOf("rset") = "RSET"
    BY Numbers DEF Verbs, Stages, Waiting, VerbOf
  <2>2. /\ r \in ClientType /\ r.at = "rset" /\ Alike(r, e)
        /\ r.queue = Append(e.queue, w) /\ r.asked = Append(e.asked, a)
    BY <1>2, <1>6, <2>1, AwaitFields
  <2>3. /\ Sound(r) /\ StageSound(r, r.at) /\ LiveSound(r)
        /\ ~lg => MailsSound(r) /\ InHand(r, r.at)
    <3>1. StageSound(e, "rset") /\ (~lg => InHand(e, "rset"))
      BY <1>2, <1>6 DEF StageSound, InHand, Secret
    <3>2. /\ Sound(Await(e, VerbOf("rset"), 0, "rset"))
          /\ StageSound(Await(e, VerbOf("rset"), 0, "rset"), Await(e, VerbOf("rset"), 0, "rset").at)
          /\ LiveSound(Await(e, VerbOf("rset"), 0, "rset"))
          /\ ~lg => /\ MailsSound(Await(e, VerbOf("rset"), 0, "rset"))
                    /\ InHand(Await(e, VerbOf("rset"), 0, "rset"), Await(e, VerbOf("rset"), 0, "rset").at)
      BY <1>4, <2>1, <3>1, AwaitSound
    <3> QED BY <2>1, <3>2
  <2> HIDE DEF r
  <2>4. ASSUME ~lg PROVE Dialogue(r, sv)
    <3> DEFINE q == Len(k.queue)
               p == Len(k.replies)
               n == Len(k.asked)
    <3>1. /\ q \in Nat /\ Len(r.queue) = q + 1 /\ r.queue[q + 1] = w
          /\ \A i \in 1..q : r.queue[i] = k.queue[i]
          /\ n \in Nat /\ Len(r.asked) = n + 1 /\ r.asked[n + 1] = a
          /\ \A i \in 1..n : r.asked[i] = k.asked[i]
          /\ p \in Nat
      <4>1. k.queue \in Seq(WaitType) /\ w \in WaitType /\ k.asked \in Seq(Command) /\ a \in Command
            /\ p \in Nat
        BY <1>1, <2>1, ListsTyped DEF WaitType, Command
      <4>2. r.queue = Append(k.queue, w) /\ r.asked = Append(k.asked, a)
        BY <1>2, <2>2
      <4> QED BY <4>1, <4>2, Appended
    <3>2. r.replies = k.replies /\ r.message = k.message /\ r.mail = k.mail
      BY <1>2, <2>2 DEF Alike
    <3>3. /\ Matched(k) /\ RepliesSound(k)
          /\ q = 0 \/ (q = 1 /\ CutBody(k, k.queue[1]))
          /\ sv.data => n = 1
      BY <1>6, <2>4
    <3> HIDE DEF q, p, n
    <3>4. q = p + n
      BY <3>3 DEF Matched, q, p, n
    <3>5. Matched(r)
      <4>4. Len(r.replies) = p /\ Len(r.queue) = q + 1 /\ Len(r.asked) = n + 1
            /\ p \in Nat /\ q \in Nat /\ n \in Nat
        BY <3>1, <3>2 DEF p
      <4>5. /\ \A i \in 1..p : k.replies[i].verb = k.queue[i].verb
                               /\ k.replies[i].arg = k.queue[i].arg
            /\ \A i \in 1..n : k.asked[i].verb = k.queue[p + i].verb
                               /\ k.asked[i].arg = k.queue[p + i].arg
        BY <3>3 DEF Matched, p, n
      <4>1. Len(r.queue) = Len(r.replies) + Len(r.asked)
        BY <4>4, <3>4
      <4>2. ASSUME NEW i \in 1..Len(r.replies)
            PROVE  r.replies[i].verb = r.queue[i].verb /\ r.replies[i].arg = r.queue[i].arg
        <5>1. i \in 1..p /\ i \in 1..q
          BY <4>4, <3>4
        <5>2. r.replies[i] = k.replies[i] /\ r.queue[i] = k.queue[i]
          BY <3>1, <3>2, <5>1
        <5> QED BY <4>5, <5>1, <5>2
      <4>3. ASSUME NEW i \in 1..Len(r.asked)
            PROVE  /\ r.asked[i].verb = r.queue[Len(r.replies) + i].verb
                   /\ r.asked[i].arg = r.queue[Len(r.replies) + i].arg
        <5>1. CASE i = n + 1
          <6>1. Len(r.replies) + i = q + 1
            BY <4>4, <3>4, <5>1
          <6>2. r.asked[i] = a /\ r.queue[Len(r.replies) + i] = w
            BY <3>1, <5>1, <6>1, Zenon
          <6> QED BY <6>2
        <5>2. CASE i # n + 1
          <6>1. i \in 1..n /\ p + i \in 1..q
            BY <4>4, <3>4, <5>2
          <6>2. r.asked[i] = k.asked[i] /\ r.queue[p + i] = k.queue[p + i]
            BY <3>1, <6>1
          <6> QED BY <4>4, <4>5, <6>1, <6>2
        <5> QED BY <5>1, <5>2
      <4> QED BY <4>1, <4>2, <4>3 DEF Matched
    <3>6. RepliesSound(r)
      BY <3>2, <3>3 DEF RepliesSound
    <3>7. Queued(r)
      <4>1. CutBody(k, k.queue[1]) => CutBody(r, k.queue[1])
        BY <3>2 DEF CutBody
      <4>2. Len(r.queue) = q + 1 /\ r.queue[q + 1].live
        <5>1. Len(r.queue) = q + 1 /\ r.queue[q + 1] = w
          BY <3>1, Zenon
        <5> QED BY <5>1
      <4>3. q = 1 => r.queue[1] = k.queue[1]
        BY <3>1
      <4>4. \/ Len(r.queue) = 1 /\ r.queue[1].live
            \/ Len(r.queue) = 2 /\ r.queue[2].live /\ CutBody(r, r.queue[1])
        <5>1. CASE q = 0
          BY <4>2, <5>1
        <5>2. CASE q = 1 /\ CutBody(k, k.queue[1])
          BY <4>1, <4>2, <4>3, <5>2
        <5> QED BY <3>3, <5>1, <5>2
      <4>5. r.at = "rset"
        BY <2>2
      <4> QED BY <4>4, <4>5 DEF Queued, Waiting, Stages
    <3>8. ServerSound(r, sv)
      BY <2>2, <3>1, <3>3 DEF ServerSound, Recipients
    <3> QED BY <3>5, <3>6, <3>7, <3>8 DEF Dialogue
  <2>5. r.socket = "open"
    BY <1>2, <1>6, <2>2 DEF Alike
  <2>6. ClientInv(r, sv, lg)
    BY <2>2, <2>3, <2>4, <2>5 DEF ClientInv
  <2> QED BY <1>3, <1>6, <2>6 DEF r
<1> QED BY <1>5, <1>6

-----------------------------------------------------------------------------
(* What the call does with the outcome of its wait.                        *)

LEMMA ResumeIs ==
  ASSUME NEW k, NEW w, NEW o
  PROVE  /\ k.at = "greeting" => Resume(k, w, o) = OnGreeting(k, o)
         /\ k.at = "ehlo" => Resume(k, w, o) = IF o \in Good THEN AfterEhlo(k) ELSE Ends(k)
         /\ k.at = "starttls" => Resume(k, w, o) = OnStartTls(k, o)
         /\ k.at = "ehlo_tls" => Resume(k, w, o) = IF o \in Good THEN Auth(k) ELSE Ends(k)
         /\ k.at \in {"plain", "login"} => Resume(k, w, o) = IF o = "ok" THEN Ready(k) ELSE Ends(k)
         /\ k.at = "user" => Resume(k, w, o) = IF o \in Good THEN Await(k, "REPLY", 0, "pass")
                                               ELSE Ends(k)
         /\ k.at = "pass" => Resume(k, w, o) = IF o \in Good THEN Await(k, "REPLY", 0, "login")
                                               ELSE Ends(k)
         /\ k.at = "xoauth2" => Resume(k, w, o) = OnXOAuth2(k, o)
         /\ k.at = "answer" => Resume(k, w, o) = OnAnswer(k, o)
         /\ k.at = "mail" => Resume(k, w, o) = OnMail(k, o)
         /\ k.at = "rcpt" => Resume(k, w, o) = OnRcpt(k, o, w.arg)
         /\ k.at = "rcpts" => Resume(k, w, o) = OnRcpts(k, o, w.arg)
         /\ k.at = "data" => Resume(k, w, o) = OnData(k, o)
         /\ k.at = "body" => Resume(k, w, o) = OnBody(k, o)
         /\ k.at = "rset" => Resume(k, w, o) = OnReset(k, o)
         /\ k.at = "noop" => Resume(k, w, o) = Ends(k)
         /\ k.at = "quit" => Resume(k, w, o) = OnQuit(k)
BY DEF Resume

\* A state of the client that it may be in.
LEMMA Restated ==
  ASSUME NEW k, NEW lg \in BOOLEAN, Resting(k, lg),
         NEW st \in SmtpStates \ {"idle"}, st = "ready" => k.aborted # "attached"
  PROVE  LET r == [k EXCEPT !.state = st]
         IN  /\ Resting(r, lg) /\ r.state = st /\ r.at = k.at /\ r.cfg = k.cfg
             /\ r.socket = k.socket /\ r.encrypted = k.encrypted /\ r.aborted = k.aborted
             /\ r.replies = k.replies /\ r.got = k.got /\ r.message = k.message
             /\ r.mail = k.mail /\ r.queue = k.queue /\ r.asked = k.asked
<1> DEFINE r == [k EXCEPT !.state = st]
<1>1. k \in ClientType
  BY DEF Resting
<1>2. r \in ClientType /\ r.state = st /\ r.at = k.at /\ r.cfg = k.cfg
      /\ r.socket = k.socket /\ r.encrypted = k.encrypted /\ r.aborted = k.aborted
      /\ r.replies = k.replies /\ r.got = k.got /\ r.message = k.message
      /\ r.mail = k.mail /\ r.queue = k.queue /\ r.asked = k.asked
  BY <1>1 DEF ClientType
<1> HIDE DEF r
<1>3. Resting(r, lg)
  BY <1>2 DEF Resting, Sound, Live, MailsSound
<1> QED BY <1>2, <1>3 DEF r

\* A send() that gives its transaction up, once a wait was cut.
LEMMA GivesUp ==
  ASSUME NEW k, NEW sv, NEW lg \in BOOLEAN, Resting(k, lg), k.message \in 1..Messages,
         ~lg => k.mail[k.message].result = "none" /\ k.mail[k.message].taken = {},
         ~lg => k.socket # "open"
  PROVE  ClientInv(Fails(k), sv, lg)
BY FailsInv

\* A verdict on a recipient.
LEMMA GotFields ==
  ASSUME NEW k, NEW lg \in BOOLEAN, Resting(k, lg), NEW i \in 1..Rcpts, NEW v \in Verdicts
  PROVE  LET g == [k EXCEPT !.got[i] = v]
         IN  /\ Resting(g, lg) /\ g.state = k.state /\ g.at = k.at /\ g.cfg = k.cfg
             /\ g.socket = k.socket /\ g.encrypted = k.encrypted /\ g.aborted = k.aborted
             /\ g.replies = k.replies /\ g.message = k.message
             /\ g.mail = k.mail /\ g.queue = k.queue /\ g.asked = k.asked
             /\ g.got[i] = v /\ \A n \in 1..Rcpts \ {i} : g.got[n] = k.got[n]
<1> DEFINE got == [k.got EXCEPT ![i] = v]
           g == [k EXCEPT !.got = got]
<1>1. k \in ClientType /\ k.got \in [1..Rcpts -> Verdicts]
  BY DEF Resting, ClientType
<1>2. got \in [1..Rcpts -> Verdicts] /\ got[i] = v /\ \A n \in 1..Rcpts \ {i} : got[n] = k.got[n]
  BY <1>1
<1> HIDE DEF got
<1>3. /\ g \in ClientType /\ g.state = k.state /\ g.at = k.at /\ g.cfg = k.cfg
      /\ g.socket = k.socket /\ g.encrypted = k.encrypted /\ g.aborted = k.aborted
      /\ g.replies = k.replies /\ g.message = k.message
      /\ g.mail = k.mail /\ g.queue = k.queue /\ g.asked = k.asked /\ g.got = got
  BY <1>1, <1>2 DEF ClientType
<1> HIDE DEF g
<1>4. Resting(g, lg)
  BY <1>3 DEF Resting, Sound, Live, MailsSound
<1> QED BY <1>2, <1>3, <1>4 DEF g, got

\* The message whose body was cut, or refused.
LEMMA CutFields ==
  ASSUME NEW k, NEW lg \in BOOLEAN, Resting(k, lg), k.message \in 1..Messages, NEW b \in BOOLEAN,
         ~lg => k.mail[k.message].result = "none"
  PROVE  LET g == [k EXCEPT !.mail[k.message].cut = b]
         IN  /\ Resting(g, lg) /\ g.state = k.state /\ g.at = k.at /\ g.cfg = k.cfg
             /\ g.socket = k.socket /\ g.encrypted = k.encrypted /\ g.aborted = k.aborted
             /\ g.replies = k.replies /\ g.message = k.message
             /\ g.got = k.got /\ g.queue = k.queue /\ g.asked = k.asked
             /\ g.mail[k.message].cut = b
             /\ g.mail[k.message].taken = k.mail[k.message].taken
             /\ g.mail[k.message].result = k.mail[k.message].result
<1> DEFINE o == [k.mail[k.message] EXCEPT !.cut = b]
           mail == [k.mail EXCEPT ![k.message] = o]
           g == [k EXCEPT !.mail = mail]
<1>1. k \in ClientType /\ k.mail \in [1..Messages -> Outcome] /\ k.mail[k.message] \in Outcome
  BY DEF Resting, ClientType
<1>2. o \in Outcome /\ o.cut = b /\ o.taken = k.mail[k.message].taken
      /\ o.result = k.mail[k.message].result
  BY <1>1 DEF Outcome
<1> HIDE DEF o
<1>3. mail \in [1..Messages -> Outcome] /\ mail[k.message] = o
      /\ \A m \in 1..Messages \ {k.message} : mail[m] = k.mail[m]
  BY <1>1, <1>2
<1> HIDE DEF mail
<1>4. /\ g \in ClientType /\ g.state = k.state /\ g.at = k.at /\ g.cfg = k.cfg
      /\ g.socket = k.socket /\ g.encrypted = k.encrypted /\ g.aborted = k.aborted
      /\ g.replies = k.replies /\ g.message = k.message /\ g.mail = mail
      /\ g.got = k.got /\ g.queue = k.queue /\ g.asked = k.asked
  BY <1>1, <1>3 DEF ClientType
<1> HIDE DEF g
<1>5. ~lg => MailsSound(g)
  <2> SUFFICES ASSUME ~lg, NEW m \in 1..Messages
               PROVE  Told(mail[m]) /\ (m > g.message => mail[m] = Unsent)
    BY <1>4 DEF MailsSound
  <2>1. CASE m = k.message
    <3>1. mail[m].result = "none" /\ ~(m > g.message)
      BY <1>2, <1>3, <1>4, <2>1, Numbers
    <3> QED BY <3>1 DEF Told
  <2>2. CASE m # k.message
    BY <1>3, <1>4, <2>2 DEF MailsSound, Resting
  <2> QED BY <2>1, <2>2
<1>6. Resting(g, lg)
  BY <1>4, <1>5 DEF Resting, Sound, Live
<1>7. [k EXCEPT !.mail[k.message].cut = b] = g
  BY <1>1 DEF g, mail, o, ClientType, Outcome
<1> QED BY <1>2, <1>3, <1>4, <1>6, <1>7

\* The client k of a call whose wait is over, whatever came of it.
Resumed(k, lg) ==
  /\ Resting(k, lg) /\ StageSound(k, k.at) /\ k.at \in Waiting
  /\ ~lg => InHand(k, k.at)

\* Only the wait for the verdict on a body is given up while its reply may come.
CutShort(k, sv) ==
  /\ k.at = "body" /\ Matched(k) /\ RepliesSound(k)
  /\ Len(k.queue) = 1 /\ k.queue[1].verb = "BODY" /\ ~k.queue[1].live
  /\ k.queue[1].arg = k.message
  /\ sv.data => Len(k.asked) = 1

LEMMA CutInv ==
  ASSUME NEW k, NEW sv, NEW lg \in BOOLEAN, NEW w, NEW o \in {"time", "lost"},
         Resumed(k, lg), k.at # "rcpts", k.at = "rcpt" => w.arg \in 1..Rcpts,
         ~lg /\ k.socket = "open" => CutShort(k, sv)
  PROVE  ClientInv(Resume(k, w, o), sv, lg)
<1>1. k \in ClientType /\ Sound(k) /\ Live(k) = {} /\ (~lg => MailsSound(k)) /\ Resting(k, lg)
      /\ k.socket # "none"
  BY DEF Resumed, Resting
<1>2. o \notin Good /\ o # "denied" /\ o # "no"
  BY DEF Good
<1>3. k.at \in Sending => k.message \in 1..Messages
  BY DEF Resumed, StageSound
<1>4. k.at # "body" => (~lg => k.socket # "open")
  BY DEF CutShort
<1>5. k.at # "body" => ClientInv(Ends(k), sv, lg)
  BY <1>1, <1>4, EndsInv
<1>6. CASE k.at \in {"greeting", "ehlo", "starttls", "ehlo_tls", "plain", "login", "user", "pass",
                     "xoauth2", "noop"}
  <2>1. o # "ok" /\ o # "more"
    BY <1>2 DEF Good
  <2>2. OnGreeting(k, o) = Ends(k) /\ OnStartTls(k, o) = Ends(k) /\ OnXOAuth2(k, o) = Ends(k)
    BY <1>2, <2>1 DEF OnGreeting, OnStartTls, OnXOAuth2
  <2>3. Resume(k, w, o) = Ends(k)
    BY <1>2, <1>6, <2>1, <2>2, ResumeIs
  <2> QED BY <1>5, <1>6, <2>3
<1>7. CASE k.at = "answer"
  <2>1. Resume(k, w, o) = FetchToken(k, TRUE) \/ Resume(k, w, o) = Ends(k)
    BY <1>7, ResumeIs DEF OnAnswer
  <2>2. Calm(k, sv, lg)
    BY <1>1, <1>4, <1>7 DEF Calm
  <2>3. (k.encrypted \/ ~k.cfg.insist) /\ k.state # "ready"
    BY <1>7 DEF Resumed, StageSound, Secret
  <2>4. ClientInv(FetchToken(k, TRUE), sv, lg)
    BY <2>2, <2>3, TokenInv
  <2> QED BY <1>5, <1>7, <2>1, <2>4
<1>8. CASE k.at \in {"mail", "data"}
  <2>1. Resume(k, w, o) = Fails(k)
    BY <1>2, <1>8, ResumeIs DEF OnMail, OnData
  <2>2. k.message \in 1..Messages
    BY <1>3, <1>8 DEF Sending
  <2>3. ~lg => k.mail[k.message].result = "none" /\ k.mail[k.message].taken = {}
    BY <1>8 DEF Resumed, InHand, Sending
  <2>4. ~lg => k.socket # "open"
    BY <1>4, <1>8
  <2> QED BY <1>1, <2>1, <2>2, <2>3, <2>4, GivesUp
<1>9. CASE k.at = "rcpt"
  <2> DEFINE g == [k EXCEPT !.got[w.arg] = "lost"]
  <2>1. /\ Resting(g, lg) /\ g.message = k.message /\ g.mail = k.mail /\ g.socket = k.socket
        /\ g.got[w.arg] = "lost"
    <3>1. w.arg \in 1..Rcpts /\ "lost" \in Verdicts
      BY <1>9 DEF Verdicts
    <3> QED BY <1>1, <3>1, GotFields
  <2>2. Verdict(o) = "lost"
    BY <1>2 DEF Verdict
  <2>3. Resume(k, w, o) = Fails(g)
    BY <1>9, <2>1, <2>2, ResumeIs DEF OnRcpt
  <2> HIDE DEF g
  <2>4. g.message \in 1..Messages
    BY <1>3, <1>9, <2>1 DEF Sending
  <2>5. ~lg => g.mail[g.message].result = "none" /\ g.mail[g.message].taken = {}
    BY <1>9, <2>1 DEF Resumed, InHand, Sending
  <2>6. ~lg => g.socket # "open"
    BY <1>4, <1>9, <2>1
  <2> QED BY <2>1, <2>3, <2>4, <2>5, <2>6, GivesUp
<1>10. CASE k.at = "body"
  <2> DEFINE cut == o \in {"time", "lost"}
             g == [k EXCEPT !.mail[k.message].cut = cut]
  <2>1. k.message \in 1..Messages /\ (~lg => k.mail[k.message].result = "none")
    BY <1>3, <1>10 DEF Resumed, InHand, Sending
  <2>2. /\ Resting(g, lg) /\ g.message = k.message /\ g.socket = k.socket
        /\ g.replies = k.replies /\ g.queue = k.queue /\ g.asked = k.asked
        /\ g.mail[k.message].cut = cut
        /\ g.mail[k.message].result = k.mail[k.message].result
    <3>1. cut \in BOOLEAN
      OBVIOUS
    <3> HIDE DEF cut
    <3> QED BY <1>1, <2>1, <3>1, CutFields
  <2>3. Resume(k, w, o) = Fails(g)
    <3>1. o # "ok"
      BY <1>2 DEF Good
    <3>2. OnBody(k, o) = Fails(g)
      BY <3>1 DEF OnBody
    <3> HIDE DEF g
    <3> QED BY <1>10, <3>2, ResumeIs
  <2> HIDE DEF g
  <2>4. ASSUME ~lg, g.socket = "open"
        PROVE  /\ Matched(g) /\ RepliesSound(g)
               /\ Len(g.queue) = 1 /\ CutBody(g, g.queue[1])
               /\ sv.data => Len(g.asked) = 1
    <3>1. CutShort(k, sv)
      BY <2>2, <2>4
    <3>2. Matched(g) /\ RepliesSound(g)
      BY <2>2, <3>1 DEF CutShort, Matched, RepliesSound
    <3>3. g.mail[g.message].cut
      BY <2>2
    <3> QED BY <2>2, <3>1, <3>2, <3>3 DEF CutShort, CutBody
  <2> QED BY <2>1, <2>2, <2>3, <2>4, FailsInv
<1>11. CASE k.at = "rset"
  <2> DEFINE d == Destroyed(k)
  <2>1. /\ d \in ClientType /\ d.socket \notin {"open", "none"} /\ d.message = k.message /\ d.mail = k.mail
        /\ Sound(d) /\ Live(d) = {} /\ (~lg => MailsSound(d))
    BY <1>1, DestroyedFields, DestroyedSound
  <2>2. Resume(k, w, o) = Finish(d, "failed", {})
    BY <1>2, <1>11, ResumeIs DEF OnReset
  <2> HIDE DEF d
  <2>3. d.message \in 1..Messages
    BY <1>3, <1>11, <2>1 DEF Sending
  <2>4. ~lg => (d.mail[d.message].taken # {} => d.mail[d.message].cut)
    BY <1>11, <2>1 DEF Resumed, InHand
  <2>5. ClientInv(Finish(d, "failed", {}), sv, lg)
    BY <2>1, <2>3, <2>4, FinishInv
  <2> QED BY <2>2, <2>5
<1>12. CASE k.at = "quit"
  <2> DEFINE d == Destroyed(k)
             e == [d EXCEPT !.state = "closed"]
  <2>1. Resting(d, lg) /\ d.socket # "open"
    BY <1>1, DestroyedFields, DestroyedSound DEF Resting
  <2>2. Resume(k, w, o) = Ends(e)
    BY <1>12, ResumeIs DEF OnQuit
  <2> HIDE DEF d
  <2>3. Resting(e, lg) /\ e.socket # "open"
    BY <2>1, Restated DEF SmtpStates
  <2> HIDE DEF e
  <2>4. ClientInv(Ends(e), sv, lg)
    BY <2>3, EndsInv DEF Resting
  <2> QED BY <2>2, <2>4
<1>13. k.at \in {"greeting", "ehlo", "starttls", "ehlo_tls", "plain", "login", "user", "pass",
                 "xoauth2", "noop", "answer", "mail", "data", "rcpt", "body", "rset", "quit"}
  BY DEF Resumed, Waiting, Stages
<1> QED BY <1>6, <1>7, <1>8, <1>9, <1>10, <1>11, <1>12, <1>13

-----------------------------------------------------------------------------
(* connect(), a reply at a time.                                           *)

LEMMA VerbTable ==
  /\ VerbOf("greeting") = "GREETING" /\ VerbOf("ehlo") = "EHLO" /\ VerbOf("ehlo_tls") = "EHLO"
  /\ VerbOf("starttls") = "STARTTLS" /\ VerbOf("plain") = "AUTH" /\ VerbOf("user") = "AUTH"
  /\ VerbOf("xoauth2") = "AUTH" /\ VerbOf("pass") = "REPLY" /\ VerbOf("login") = "REPLY"
  /\ VerbOf("answer") = "REPLY" /\ VerbOf("mail") = "MAIL" /\ VerbOf("rcpt") = "RCPT"
  /\ VerbOf("rcpts") = "RCPT" /\ VerbOf("data") = "DATA" /\ VerbOf("body") = "BODY"
  /\ VerbOf("rset") = "RSET" /\ VerbOf("noop") = "NOOP" /\ VerbOf("quit") = "QUIT"
BY DEF VerbOf

LEMMA CalmAwait ==
  ASSUME NEW k, NEW sv, NEW lg \in BOOLEAN, Calm(k, sv, lg),
         NEW stage \in Waiting \ Sending, StageSound(k, stage)
  PROVE  ClientInv(Await(k, VerbOf(stage), 0, stage), sv, lg)
<1>1. stage \in Waiting /\ stage \notin {"mail", "rcpt", "rcpts", "data", "body", "rset"}
  BY DEF Sending
<1>2. 0 \in 0..(Rcpts + Messages)
  BY Numbers
<1>3. InHand(k, stage)
  BY <1>1 DEF InHand, Sending
<1>4. ~lg /\ k.socket = "open" => Quiet(k) /\ Expects(k, sv, stage, 0)
  BY <1>1 DEF Calm, Expects
<1> QED BY <1>1, <1>2, <1>3, <1>4, AwaitInv DEF Calm

LEMMA CalmEnds ==
  ASSUME NEW k, NEW sv, NEW lg \in BOOLEAN, Calm(k, sv, lg)
  PROVE  ClientInv(Ends(k), sv, lg)
BY EndsInv DEF Calm, Resting

LEMMA CalmRestated ==
  ASSUME NEW k, NEW sv, NEW lg \in BOOLEAN, Calm(k, sv, lg),
         NEW st \in SmtpStates \ {"idle"}, st = "ready" => k.aborted # "attached"
  PROVE  LET r == [k EXCEPT !.state = st]
         IN  /\ Calm(r, sv, lg) /\ r.cfg = k.cfg /\ r.socket = k.socket
             /\ r.encrypted = k.encrypted /\ r.at = k.at /\ r.state = st
BY Restated DEF Calm, Quiet

LEMMA CalmReady ==
  ASSUME NEW k, NEW sv, NEW lg \in BOOLEAN, Calm(k, sv, lg), k.socket = "open"
  PROVE  ClientInv(Ready(k), sv, lg)
<1>1. k.aborted # "attached"
  BY DEF Calm, Resting, Sound
<1>2. Calm([k EXCEPT !.state = "ready"], sv, lg)
  BY <1>1, CalmRestated DEF SmtpStates
<1> QED BY <1>2, CalmEnds DEF Ready

LEMMA AuthInv ==
  ASSUME NEW k, NEW sv, NEW lg \in BOOLEAN, Calm(k, sv, lg), k.socket = "open",
         k.cfg.auth = "none" \/ k.encrypted \/ ~k.cfg.insist
  PROVE  ClientInv(Auth(k), sv, lg)
<1> DEFINE a == [k EXCEPT !.state = "auth"]
<1>1. Calm(a, sv, lg) /\ a.cfg = k.cfg /\ a.socket = k.socket /\ a.encrypted = k.encrypted
      /\ a.state = "auth"
  <2>1. "auth" \in SmtpStates \ {"idle"}
    BY DEF SmtpStates
  <2> QED BY <2>1, CalmRestated
<1>2. Auth(k) = IF a.cfg.auth = "none" THEN Ready(a)
                ELSE IF ~a.cfg.offers.auth THEN Ends(a)
                ELSE IF a.cfg.auth = "xoauth2" THEN FetchToken(a, FALSE)
                ELSE Await(a, "AUTH", 0, IF a.cfg.auth = "plain" THEN "plain" ELSE "user")
  <2>1. k.cfg.auth = "none" => Ready(a) = Ready(k)
    <3>1. [a EXCEPT !.state = "ready"] = [k EXCEPT !.state = "ready"]
      BY DEF Calm, Resting, ClientType
    <3> HIDE DEF a
    <3> QED BY <3>1 DEF Ready
  <2>2. Auth(k) = IF k.cfg.auth = "none" THEN Ready(k)
                  ELSE IF ~k.cfg.offers.auth THEN Ends(a)
                  ELSE IF k.cfg.auth = "xoauth2" THEN FetchToken(a, FALSE)
                  ELSE Await(a, "AUTH", 0, IF k.cfg.auth = "plain" THEN "plain" ELSE "user")
    BY DEF Auth
  <2> HIDE DEF a
  <2> QED BY <1>1, <2>1, <2>2
<1> HIDE DEF a
<1>3. CASE a.cfg.auth = "none"
  BY <1>1, <1>2, <1>3, CalmReady
<1>4. CASE a.cfg.auth # "none"
  <2>1. a.encrypted \/ ~a.cfg.insist
    BY <1>1, <1>4
  <2>2. ClientInv(Ends(a), sv, lg) /\ ClientInv(FetchToken(a, FALSE), sv, lg)
    BY <1>1, <2>1, CalmEnds, TokenInv
  <2>3. \A stage \in {"plain", "user"} : StageSound(a, stage) /\ stage \in Waiting \ Sending
    BY <1>1, <2>1 DEF StageSound, Waiting, Stages, Sending, Secret
  <2>4. ClientInv(Await(a, VerbOf("plain"), 0, "plain"), sv, lg)
        /\ ClientInv(Await(a, VerbOf("user"), 0, "user"), sv, lg)
    BY <1>1, <2>3, CalmAwait
  <2> QED BY <1>2, <1>4, <2>2, <2>4, VerbTable
<1> QED BY <1>3, <1>4

LEMMA AfterEhloInv ==
  ASSUME NEW k, NEW sv, NEW lg \in BOOLEAN, Calm(k, sv, lg), k.socket = "open"
  PROVE  ClientInv(AfterEhlo(k), sv, lg)
<1>1. k \in ClientType /\ (k.cfg.secure => k.encrypted)
  BY DEF Calm, Resting, Sound
<1>2. CASE ~k.cfg.secure /\ k.cfg.offers.starttls
  <2> DEFINE r == [k EXCEPT !.state = "starttls"]
  <2>1. Calm(r, sv, lg) /\ r.socket = "open" /\ r.state = "starttls"
    <3>1. "starttls" \in SmtpStates \ {"idle"}
      BY DEF SmtpStates
    <3> QED BY <3>1, CalmRestated
  <2>2. AfterEhlo(k) = Await(r, "STARTTLS", 0, "starttls")
    BY <1>2 DEF AfterEhlo
  <2> HIDE DEF r
  <2>3. StageSound(r, "starttls") /\ "starttls" \in Waiting \ Sending
    BY <2>1 DEF StageSound, Waiting, Stages, Sending, Secret
  <2> QED BY <2>1, <2>2, <2>3, CalmAwait, VerbTable
<1>3. CASE /\ ~(~k.cfg.secure /\ k.cfg.offers.starttls)
           /\ ~k.cfg.secure /\ (k.cfg.must \/ (k.cfg.auth # "none" /\ k.cfg.insist))
  <2>1. AfterEhlo(k) = Ends(Destroyed(k))
    BY <1>3 DEF AfterEhlo
  <2>2. Destroyed(k) \in ClientType /\ Destroyed(k).socket \notin {"open", "none"} /\ Sound(Destroyed(k))
        /\ Live(Destroyed(k)) = {} /\ (~lg => MailsSound(Destroyed(k)))
    BY <1>1, DestroyedFields, DestroyedSound DEF Calm, Resting
  <2> QED BY <2>1, <2>2, EndsInv
<1>4. CASE /\ ~(~k.cfg.secure /\ k.cfg.offers.starttls)
           /\ ~(~k.cfg.secure /\ (k.cfg.must \/ (k.cfg.auth # "none" /\ k.cfg.insist)))
  <2>1. AfterEhlo(k) = Auth(k)
    BY <1>4 DEF AfterEhlo
  <2>2. k.cfg.auth = "none" \/ k.encrypted \/ ~k.cfg.insist
    BY <1>1, <1>4
  <2> QED BY <2>1, <2>2, AuthInv
<1> QED BY <1>2, <1>3, <1>4

\* The stages of connect() and verify(), and of quit().
Quietly == {"greeting", "ehlo", "starttls", "ehlo_tls", "plain", "login", "user", "pass",
            "xoauth2", "answer", "noop", "quit"}

LEMMA ConnectReplyInv ==
  ASSUME NEW k, NEW sv, NEW lg \in BOOLEAN, NEW w, NEW o \in Codes,
         Resumed(k, lg), k.socket = "open", k.at \in Quietly, Calm(k, sv, lg)
  PROVE  ClientInv(Resume(k, w, o), sv, lg)
<1>1. k \in ClientType /\ (k.cfg.secure => k.encrypted)
  BY DEF Calm, Resting, Sound
<1>2. ClientInv(Ends(k), sv, lg) /\ ClientInv(Ready(k), sv, lg)
  BY CalmEnds, CalmReady
<1>3. CASE k.at = "greeting"
  <2> DEFINE r == [k EXCEPT !.state = "ehlo"]
  <2>1. Calm(r, sv, lg) /\ r.socket = "open" /\ r.state = "ehlo"
    <3>1. "ehlo" \in SmtpStates \ {"idle"}
      BY DEF SmtpStates
    <3> QED BY <3>1, CalmRestated
  <2>2. Resume(k, w, o) = Await(r, "EHLO", 0, "ehlo") \/ Resume(k, w, o) = Ends(k)
    BY <1>3, ResumeIs DEF OnGreeting, Ehlo
  <2> HIDE DEF r
  <2>3. StageSound(r, "ehlo") /\ "ehlo" \in Waiting \ Sending
    BY <2>1 DEF StageSound, Waiting, Stages, Sending, Secret
  <2>4. ClientInv(Await(r, "EHLO", 0, "ehlo"), sv, lg)
    BY <2>1, <2>3, CalmAwait, VerbTable
  <2> QED BY <1>2, <2>2, <2>4
<1>4. CASE k.at = "ehlo"
  BY <1>2, <1>4, ResumeIs, AfterEhloInv
<1>5. CASE k.at = "starttls"
  <2> DEFINE r == [k EXCEPT !.at = "upgrade"]
  <2>1. r \in ClientType /\ r.at = "upgrade" /\ Alike(r, k) /\ r.queue = k.queue /\ r.asked = k.asked
    BY <1>1 DEF ClientType, Stages, Alike
  <2>2. Resume(k, w, o) = r \/ Resume(k, w, o) = Ends(k)
    BY <1>5, ResumeIs DEF OnStartTls
  <2> HIDE DEF r
  <2>3. StageSound(k, "upgrade")
    BY <1>5 DEF StageSound, Sending, Secret, Calm, Resting, Resumed, Sound
  <2>4. ClientInv(r, sv, lg)
    BY <1>1, <2>1, <2>3, PausedInv DEF Calm, Resting
  <2> QED BY <1>2, <2>2, <2>4
<1>6. CASE k.at = "ehlo_tls"
  <2>1. k.encrypted
    BY <1>6 DEF Resumed, StageSound
  <2>2. ClientInv(Auth(k), sv, lg)
    BY <2>1, AuthInv
  <2> QED BY <1>2, <1>6, <2>2, ResumeIs
<1>7. CASE k.at \in {"plain", "login", "noop"}
  BY <1>2, <1>7, ResumeIs
<1>8. CASE k.at \in {"user", "pass", "xoauth2", "answer"}
  <2>1. (k.encrypted \/ ~k.cfg.insist) /\ k.state # "ready"
    BY <1>8 DEF Resumed, StageSound, Secret
  <2>2. ClientInv(FetchToken(k, TRUE), sv, lg)
    BY <2>1, TokenInv
  <2>3. \A stage \in {"pass", "login", "answer"} : StageSound(k, stage) /\ stage \in Waiting \ Sending
    <3>1. k.state # "idle"
      BY DEF Calm, Resting, Sound
    <3> QED BY <2>1, <3>1 DEF StageSound, Waiting, Stages, Sending, Secret
  <2>4. \A stage \in {"pass", "login", "answer"} : ClientInv(Await(k, VerbOf(stage), 0, stage), sv, lg)
    BY <2>3, CalmAwait
  <2>5. /\ ClientInv(Await(k, "REPLY", 0, "pass"), sv, lg)
        /\ ClientInv(Await(k, "REPLY", 0, "login"), sv, lg)
        /\ ClientInv(Await(k, "REPLY", 0, "answer"), sv, lg)
    BY <2>4, VerbTable
  <2>6. CASE k.at \in {"user", "pass"}
    BY <1>2, <2>5, <2>6, ResumeIs
  <2>7. CASE k.at \in {"xoauth2", "answer"}
    <3>1. /\ OnXOAuth2(k, o) \in {Ready(k), Ends(k), FetchToken(k, TRUE), Await(k, "REPLY", 0, "answer")}
          /\ OnAnswer(k, o) \in {Ends(k), FetchToken(k, TRUE)}
      BY DEF OnXOAuth2, OnAnswer
    <3> QED BY <1>2, <2>2, <2>5, <2>7, <3>1, ResumeIs
  <2> QED BY <1>8, <2>6, <2>7
<1>9. CASE k.at = "quit"
  <2> DEFINE d == Destroyed(k)
             e == [d EXCEPT !.state = "closed"]
  <2>1. Resting(d, lg) /\ d.socket # "open"
    BY <1>1, DestroyedFields, DestroyedSound DEF Calm, Resting
  <2>2. Resume(k, w, o) = Ends(e)
    BY <1>9, ResumeIs DEF OnQuit
  <2> HIDE DEF d
  <2>3. Resting(e, lg) /\ e.socket # "open"
    BY <2>1, Restated DEF SmtpStates
  <2> HIDE DEF e
  <2>4. ClientInv(Ends(e), sv, lg)
    BY <2>3, EndsInv DEF Resting
  <2> QED BY <2>2, <2>4
<1> QED BY <1>3, <1>4, <1>5, <1>6, <1>7, <1>8, <1>9 DEF Quietly

-----------------------------------------------------------------------------
(* send(), a reply at a time.                                              *)

\* A transaction under way that awaits nothing, over an open socket.
InHandFree(k, lg) ==
  ~lg => k.mail[k.message].result = "none" /\ k.mail[k.message].taken = {}

Between(k, sv, lg) ==
  /\ Resting(k, lg) /\ k.socket = "open"
  /\ k.message \in 1..Messages /\ k.state \notin {"idle", "ready"}
  /\ InHandFree(k, lg)
  /\ ~lg => Quiet(k) /\ ~sv.data

\* The server counts the recipients the client does.
Agreed(k, sv, lg) == ~lg => sv.rcpts = Accepted(k)

LEMMA BetweenFails ==
  ASSUME NEW k, NEW sv, NEW lg \in BOOLEAN, Between(k, sv, lg)
  PROVE  ClientInv(Fails(k), sv, lg)
<1>1. ASSUME ~lg PROVE Matched(k) /\ RepliesSound(k) /\ Len(k.queue) = 0
  <2>1. Len(k.queue) = 0 /\ Len(k.replies) = 0 /\ Len(k.asked) = 0
    BY <1>1 DEF Between, Quiet
  <2> QED BY <2>1 DEF Matched, RepliesSound
<1>2. Resting(k, lg) /\ k.message \in 1..Messages
  BY DEF Between
<1>3. ~lg => k.mail[k.message].result = "none" /\ k.mail[k.message].taken = {} /\ ~sv.data
  BY DEF Between, InHandFree
<1>4. ~lg /\ k.socket = "open" =>
        /\ Matched(k) /\ RepliesSound(k)
        /\ Len(k.queue) = 0 \/ (Len(k.queue) = 1 /\ CutBody(k, k.queue[1]))
        /\ sv.data => Len(k.asked) = 1
  BY <1>1, <1>3
<1>5. ~lg => /\ k.mail[k.message].result = "none"
             /\ k.mail[k.message].taken # {} => k.mail[k.message].cut
  BY <1>3
<1> QED BY <1>2, <1>4, <1>5, FailsInv

LEMMA BetweenStage ==
  ASSUME NEW k, NEW sv, NEW lg \in BOOLEAN, Between(k, sv, lg),
         NEW stage \in {"mail", "rcpt", "rcpts", "data", "body"}
  PROVE  StageSound(k, stage) /\ (~lg => InHand(k, stage)) /\ stage \in Waiting
BY DEF Between, InHandFree, StageSound, InHand, Secret, Sending, Waiting, Stages

LEMMA AskRcptInv ==
  ASSUME NEW k, NEW sv, NEW lg \in BOOLEAN, NEW i \in 1..Rcpts,
         Between(k, sv, lg), Agreed(k, sv, lg),
         ~lg => \A n \in 1..Rcpts : n >= i => k.got[n] = "unasked"
  PROVE  ClientInv(AskRcpt(k, i), sv, lg)
<1> DEFINE g == [k EXCEPT !.got[i] = "asked"]
<1>1. Resting(k, lg) /\ "asked" \in Verdicts
  BY DEF Between, Verdicts
<1>2. /\ Resting(g, lg) /\ g.state = k.state /\ g.socket = k.socket /\ g.replies = k.replies
      /\ g.message = k.message /\ g.mail = k.mail /\ g.queue = k.queue /\ g.asked = k.asked
      /\ g.got[i] = "asked" /\ \A n \in 1..Rcpts \ {i} : g.got[n] = k.got[n]
  BY <1>1, GotFields
<1>3. AskRcpt(k, i) = Await(g, "RCPT", i, "rcpt")
  BY DEF AskRcpt
<1> HIDE DEF g
<1>4. Between(g, sv, lg)
  BY <1>2 DEF Between, InHandFree, Quiet
<1>5. ASSUME ~lg PROVE Quiet(g) /\ Expects(g, sv, "rcpt", i)
  <2>1. Accepted(g) = Accepted(k)
    <3>1. k.got[i] = "unasked"
      BY <1>5, Numbers
    <3> QED BY <1>2, <3>1 DEF Accepted
  <2>2. \A n \in 1..Rcpts : n > i => g.got[n] = "unasked"
    <3> SUFFICES ASSUME NEW n \in 1..Rcpts, n > i PROVE g.got[n] = "unasked"
      OBVIOUS
    <3>1. n >= i /\ n # i
      BY Numbers
    <3> QED BY <1>2, <1>5, <3>1
  <2> QED BY <1>4, <1>5, <2>1, <2>2 DEF Between, Agreed, Expects
<1>6. StageSound(g, "rcpt") /\ (~lg => InHand(g, "rcpt")) /\ "rcpt" \in Waiting
  BY <1>4, BetweenStage
<1>7. i \in 0..(Rcpts + Messages)
  BY Numbers
<1>8. ClientInv(Await(g, VerbOf("rcpt"), i, "rcpt"), sv, lg)
  BY <1>2, <1>5, <1>6, <1>7, AwaitInv
<1> QED BY <1>3, <1>8, VerbTable

LEMMA AfterRcptsInv ==
  ASSUME NEW k, NEW sv, NEW lg \in BOOLEAN, Between(k, sv, lg), Agreed(k, sv, lg)
  PROVE  ClientInv(AfterRcpts(k), sv, lg)
<1>1. CASE Accepted(k) = {} \/ (k.cfg.every /\ Accepted(k) # 1..Rcpts)
  BY <1>1, BetweenFails DEF AfterRcpts
<1>2. CASE ~(Accepted(k) = {} \/ (k.cfg.every /\ Accepted(k) # 1..Rcpts))
  <2>1. AfterRcpts(k) = Await(k, "DATA", k.message, "data")
    BY <1>2 DEF AfterRcpts
  <2>2. StageSound(k, "data") /\ (~lg => InHand(k, "data")) /\ "data" \in Waiting
    BY BetweenStage
  <2>3. Resting(k, lg) /\ k.message \in 0..(Rcpts + Messages)
    BY Numbers DEF Between
  <2>4. ~lg => Quiet(k) /\ Expects(k, sv, "data", k.message)
    BY <1>2 DEF Between, Agreed, Expects
  <2>5. ClientInv(Await(k, VerbOf("data"), k.message, "data"), sv, lg)
    BY <2>2, <2>3, <2>4, AwaitInv
  <2> QED BY <2>1, <2>5, VerbTable
<1> QED BY <1>1, <1>2

\* The batch of RCPT commands, and of their waits.
Waits == [i \in 1..Rcpts |-> [verb |-> "RCPT", arg |-> i, live |-> TRUE]]
Asks == [i \in 1..Rcpts |-> [verb |-> "RCPT", arg |-> i]]

LEMMA BatchTyped ==
  /\ Waits \in Seq(WaitType) /\ Len(Waits) = Rcpts
  /\ \A i \in 1..Rcpts : Waits[i] = [verb |-> "RCPT", arg |-> i, live |-> TRUE]
  /\ Asks \in Seq(Command) /\ Len(Asks) = Rcpts
  /\ \A i \in 1..Rcpts : Asks[i] = [verb |-> "RCPT", arg |-> i]
<1>1. Rcpts \in Nat /\ \A i \in 1..Rcpts : i \in 0..(Rcpts + Messages)
  BY Numbers
<1>2. \A i \in 1..Rcpts : [verb |-> "RCPT", arg |-> i, live |-> TRUE] \in WaitType
  BY <1>1 DEF WaitType, Verbs
<1>3. \A i \in 1..Rcpts : [verb |-> "RCPT", arg |-> i] \in Command
  BY <1>1 DEF Command, Verbs
<1>4. Waits \in Seq(WaitType) /\ Len(Waits) = Rcpts
  BY <1>1, <1>2 DEF Waits
<1>5. Asks \in Seq(Command) /\ Len(Asks) = Rcpts
  BY <1>1, <1>3 DEF Asks
<1> QED BY <1>4, <1>5 DEF Waits, Asks

LEMMA BatchJoined ==
  /\ \A q \in Seq(WaitType) :
       /\ Len(q) \in Nat /\ Len(q \o Waits) = Len(q) + Rcpts
       /\ \A i \in 1..Len(q) : (q \o Waits)[i] = q[i]
       /\ \A i \in 1..Rcpts : (q \o Waits)[Len(q) + i] = Waits[i]
  /\ \A q \in Seq(Command) :
       /\ Len(q) \in Nat /\ Len(q \o Asks) = Len(q) + Rcpts
       /\ \A i \in 1..Len(q) : (q \o Asks)[i] = q[i]
       /\ \A i \in 1..Rcpts : (q \o Asks)[Len(q) + i] = Asks[i]
<1>1. ASSUME NEW q \in Seq(WaitType)
      PROVE  /\ Len(q) \in Nat /\ Len(q \o Waits) = Len(q) + Rcpts
             /\ \A i \in 1..Len(q) : (q \o Waits)[i] = q[i]
             /\ \A i \in 1..Rcpts : (q \o Waits)[Len(q) + i] = Waits[i]
  <2>1. Waits \in Seq(WaitType) /\ Len(Waits) = Rcpts
    BY BatchTyped
  <2>2. Len(q) \in Nat /\ Len(q \o Waits) = Len(q) + Len(Waits)
    BY <2>1, Joined
  <2>3. \A i \in 1..Len(q) : (q \o Waits)[i] = q[i]
    BY <2>1, Joined
  <2>4. \A i \in 1..Len(Waits) : (q \o Waits)[Len(q) + i] = Waits[i]
    BY <2>1, Joined
  <2> QED BY <2>1, <2>2, <2>3, <2>4, Zenon
<1>2. ASSUME NEW q \in Seq(Command)
      PROVE  /\ Len(q) \in Nat /\ Len(q \o Asks) = Len(q) + Rcpts
             /\ \A i \in 1..Len(q) : (q \o Asks)[i] = q[i]
             /\ \A i \in 1..Rcpts : (q \o Asks)[Len(q) + i] = Asks[i]
  <2>1. Asks \in Seq(Command) /\ Len(Asks) = Rcpts
    BY BatchTyped
  <2>2. Len(q) \in Nat /\ Len(q \o Asks) = Len(q) + Len(Asks)
    BY <2>1, Joined
  <2>3. \A i \in 1..Len(q) : (q \o Asks)[i] = q[i]
    BY <2>1, Joined
  <2>4. \A i \in 1..Len(Asks) : (q \o Asks)[Len(q) + i] = Asks[i]
    BY <2>1, Joined
  <2> QED BY <2>1, <2>2, <2>3, <2>4, Zenon
<1> QED BY <1>1, <1>2

LEMMA AskAllFields ==
  ASSUME NEW k \in ClientType, k.socket = "open"
  PROVE  LET r == AskAll(k)
         IN  /\ r \in ClientType /\ r.at = "rcpts"
             /\ r.state = k.state /\ r.cfg = k.cfg /\ r.socket = k.socket
             /\ r.encrypted = k.encrypted /\ r.aborted = k.aborted /\ r.replies = k.replies
             /\ r.message = k.message /\ r.mail = k.mail
             /\ r.queue = k.queue \o Waits /\ r.asked = k.asked \o Asks
             /\ \A i \in 1..Rcpts : r.got[i] = "asked"
<1> DEFINE q == k.queue \o Waits
           s == k.asked \o Asks
           got == [i \in 1..Rcpts |-> "asked"]
           r == [k EXCEPT !.at = "rcpts", !.got = got, !.queue = q, !.asked = s]
<1>1. q \in Seq(WaitType) /\ s \in Seq(Command)
  <2>1. k.queue \in Seq(WaitType) /\ k.asked \in Seq(Command)
    BY ListsTyped
  <2> QED BY <2>1, BatchTyped, Joined
<1>2. got \in [1..Rcpts -> Verdicts] /\ \A i \in 1..Rcpts : got[i] = "asked"
  BY DEF Verdicts
<1>3. AskAll(k) = r
  BY DEF AskAll, Waits, Asks
<1> HIDE DEF q, s, got
<1>4. /\ r \in ClientType /\ r.at = "rcpts"
      /\ r.state = k.state /\ r.cfg = k.cfg /\ r.socket = k.socket
      /\ r.encrypted = k.encrypted /\ r.aborted = k.aborted /\ r.replies = k.replies
      /\ r.message = k.message /\ r.mail = k.mail
      /\ r.queue = q /\ r.asked = s /\ r.got = got
  BY <1>1, <1>2 DEF ClientType, Stages
<1> HIDE DEF r
<1> QED BY <1>2, <1>3, <1>4 DEF q, s

LEMMA AskAllInv ==
  ASSUME NEW k, NEW sv, NEW lg \in BOOLEAN, Between(k, sv, lg), ~lg => Clean(sv)
  PROVE  ClientInv(AskAll(k), sv, lg)
<1> DEFINE r == AskAll(k)
           m == Len(k.queue)
           a == Len(k.asked)
<1>1. k \in ClientType /\ k.socket = "open" /\ Sound(k) /\ Live(k) = {} /\ (~lg => MailsSound(k))
  BY DEF Between, Resting
<1>2. /\ r \in ClientType /\ r.at = "rcpts"
      /\ r.state = k.state /\ r.cfg = k.cfg /\ r.socket = k.socket
      /\ r.encrypted = k.encrypted /\ r.aborted = k.aborted /\ r.replies = k.replies
      /\ r.message = k.message /\ r.mail = k.mail
      /\ r.queue = k.queue \o Waits /\ r.asked = k.asked \o Asks
      /\ \A i \in 1..Rcpts : r.got[i] = "asked"
  BY <1>1, AskAllFields
<1> HIDE DEF r
<1>3. /\ m \in Nat /\ Len(r.queue) = m + Rcpts
      /\ \A i \in 1..m : r.queue[i] = k.queue[i]
      /\ \A i \in 1..Rcpts : r.queue[m + i] = Waits[i]
  <2>1. k.queue \in Seq(WaitType) /\ r.queue = k.queue \o Waits
    BY <1>1, <1>2, ListsTyped
  <2>2. /\ Len(k.queue) \in Nat /\ Len(k.queue \o Waits) = Len(k.queue) + Rcpts
        /\ \A i \in 1..Len(k.queue) : (k.queue \o Waits)[i] = k.queue[i]
        /\ \A i \in 1..Rcpts : (k.queue \o Waits)[Len(k.queue) + i] = Waits[i]
    BY <2>1, BatchJoined, Zenon
  <2> QED BY <2>1, <2>2, Zenon
<1>4. /\ a \in Nat /\ Len(r.asked) = a + Rcpts
      /\ \A i \in 1..a : r.asked[i] = k.asked[i]
      /\ \A i \in 1..Rcpts : r.asked[a + i] = Asks[i]
  <2>1. k.asked \in Seq(Command) /\ r.asked = k.asked \o Asks
    BY <1>1, <1>2, ListsTyped
  <2>2. /\ Len(k.asked) \in Nat /\ Len(k.asked \o Asks) = Len(k.asked) + Rcpts
        /\ \A i \in 1..Len(k.asked) : (k.asked \o Asks)[i] = k.asked[i]
        /\ \A i \in 1..Rcpts : (k.asked \o Asks)[Len(k.asked) + i] = Asks[i]
    BY <2>1, BatchJoined, Zenon
  <2> QED BY <2>1, <2>2, Zenon
<1>5. \A i \in 1..m : ~k.queue[i].live
  BY <1>1 DEF Live
<1> HIDE DEF m, a
<1>6. \A n \in Live(r) : n - m \in 1..Rcpts /\ r.queue[n] = Waits[n - m]
  <2> SUFFICES ASSUME NEW n \in Live(r) PROVE n - m \in 1..Rcpts /\ r.queue[n] = Waits[n - m]
    OBVIOUS
  <2>1. n \in 1..(m + Rcpts) /\ r.queue[n].live
    BY <1>3 DEF Live
  <2>2. ~(n \in 1..m)
    BY <1>3, <1>5, <2>1
  <2>3. n - m \in 1..Rcpts /\ m + (n - m) = n
    BY <1>3, <2>1, <2>2, Numbers
  <2>4. r.queue[m + (n - m)] = Waits[n - m]
    BY <1>3, <2>3
  <2> QED BY <2>3, <2>4
<1>7. LiveSound(r)
  <2>1. ASSUME NEW n \in Live(r)
        PROVE  /\ r.at \in Waiting /\ r.queue[n].verb = VerbOf(r.at)
               /\ r.queue[n].arg \in 1..Rcpts /\ r.got[r.queue[n].arg] = "asked"
               /\ r.queue[n].arg = n - m
    <3>1. r.at \in Waiting /\ VerbOf(r.at) = "RCPT"
      BY <1>2, VerbTable DEF Waiting, Stages
    <3>2. n - m \in 1..Rcpts /\ r.queue[n] = [verb |-> "RCPT", arg |-> n - m, live |-> TRUE]
      BY <1>6, BatchTyped
    <3> QED BY <1>2, <3>1, <3>2
  <2>2. ASSUME NEW n \in Live(r), NEW j \in Live(r), j # n
        PROVE  r.at = "rcpts" /\ r.queue[j].arg # r.queue[n].arg
    <3>1. r.queue[n].arg = n - m /\ r.queue[j].arg = j - m
      BY <2>1
    <3>2. n \in Int /\ j \in Int /\ m \in Int
      BY <1>3 DEF Live
    <3> QED BY <1>2, <2>2, <3>1, <3>2
  <2> QED BY <2>1, <2>2 DEF LiveSound
<1>8. \A i \in 1..Len(r.asked) : r.asked[i].verb \in {"AUTH", "REPLY"} =>
                                  r.encrypted \/ ~r.cfg.insist
  <2> SUFFICES ASSUME NEW i \in 1..Len(r.asked), r.asked[i].verb \in {"AUTH", "REPLY"}
               PROVE  k.encrypted \/ ~k.cfg.insist
    BY <1>2
  <2>1. CASE i \in 1..a
    BY <1>1, <1>4, <2>1 DEF Sound, a
  <2>2. CASE ~(i \in 1..a)
    <3>1. i - a \in 1..Rcpts /\ a + (i - a) = i
      BY <1>4, <2>2, Numbers
    <3>2. r.asked[a + (i - a)] = [verb |-> "RCPT", arg |-> i - a]
      BY <1>4, <3>1, BatchTyped
    <3> QED BY <3>1, <3>2
  <2> QED BY <2>1, <2>2
<1>14. \A i \in 1..Len(r.asked) : r.asked[i].verb = "RCPT" => r.asked[i].arg \in 1..Rcpts
  <2> SUFFICES ASSUME NEW i \in 1..Len(r.asked), r.asked[i].verb = "RCPT"
               PROVE  r.asked[i].arg \in 1..Rcpts
    OBVIOUS
  <2>1. CASE i \in 1..a
    BY <1>1, <1>4, <2>1 DEF Sound, a
  <2>2. CASE ~(i \in 1..a)
    <3>1. i - a \in 1..Rcpts /\ a + (i - a) = i
      BY <1>4, <2>2, Numbers
    <3>2. r.asked[a + (i - a)] = [verb |-> "RCPT", arg |-> i - a]
      BY <1>4, <3>1, BatchTyped
    <3> QED BY <3>1, <3>2
  <2> QED BY <2>1, <2>2
<1>9. Sound(r)
  BY <1>1, <1>2, <1>8, <1>14 DEF Sound
<1>10. StageSound(r, r.at) /\ (~lg => InHand(r, r.at))
  <2>1. StageSound(k, "rcpts") /\ (~lg => InHand(k, "rcpts"))
    BY BetweenStage
  <2> QED BY <1>2, <2>1 DEF StageSound, InHand
<1>11. ~lg => MailsSound(r)
  BY <1>1, <1>2 DEF MailsSound
<1>12. ASSUME ~lg PROVE Dialogue(r, sv)
  <2>1. m = 0 /\ a = 0 /\ Len(r.replies) = 0
    BY <1>2, <1>12 DEF Between, Quiet, m, a
  <2>2. /\ Len(r.queue) = Rcpts /\ Len(r.asked) = Rcpts
        /\ \A i \in 1..Rcpts : r.queue[i] = Waits[i] /\ r.asked[i] = Asks[i]
    BY <1>3, <1>4, <2>1, Numbers
  <2>3. Matched(r)
    <3>3. /\ Rcpts \in Nat /\ Len(r.queue) = Rcpts /\ Len(r.asked) = Rcpts
          /\ Len(r.replies) = 0
      BY <2>1, <2>2, Numbers
    <3>1. Len(r.queue) = Len(r.replies) + Len(r.asked)
      BY <3>3
    <3>2. ASSUME NEW i \in 1..Len(r.asked)
          PROVE  r.asked[i].verb = r.queue[Len(r.replies) + i].verb
                 /\ r.asked[i].arg = r.queue[Len(r.replies) + i].arg
      <4>1. i \in 1..Rcpts /\ Len(r.replies) + i = i
        BY <3>3
      <4>2. /\ r.asked[i] = [verb |-> "RCPT", arg |-> i]
            /\ r.queue[i] = [verb |-> "RCPT", arg |-> i, live |-> TRUE]
        BY <2>2, <4>1, BatchTyped
      <4> QED BY <4>1, <4>2
    <3> QED BY <2>1, <3>1, <3>2 DEF Matched
  <2>4. RepliesSound(r) /\ Granted(r) = {}
    BY <2>1 DEF RepliesSound, Granted
  <2>5. Queued(r)
    <3>1. \A i \in 1..Rcpts : r.queue[i].live
      BY <2>2, BatchTyped
    <3>2. Live(r) = 1..Len(r.queue)
      BY <2>2, <3>1 DEF Live
    <3> QED BY <1>2, <3>2 DEF Queued, Waiting, Stages
  <2>6. ServerSound(r, sv)
    <3>1. Accepted(r) = {}
      BY <1>2 DEF Accepted
    <3> QED BY <1>2, <1>12, <2>4, <3>1 DEF ServerSound, Clean, Recipients
  <2> QED BY <2>3, <2>4, <2>5, <2>6 DEF Dialogue
<1>13. r.socket # "none"
  BY <1>1, <1>2
<1> QED BY <1>2, <1>7, <1>9, <1>10, <1>11, <1>12, <1>13 DEF ClientInv, r

\* What the server did when its reply o, on recipient i, reaches the wait of k.
Heard(k, sv, o, i) ==
  /\ Quiet(k)
  /\ k.at \notin {"rcpt", "rcpts", "data", "body"} => Clean(sv)
  /\ k.at = "rcpt" => /\ ~sv.data /\ o \in {"ok", "no"}
                      /\ sv.rcpts = Accepted(k) \cup (IF o = "ok" THEN {i} ELSE {})
                      /\ \A n \in 1..Rcpts : n > i => k.got[n] = "unasked"
  /\ k.at = "data" => /\ sv.rcpts = Accepted(k) /\ sv.rcpts # {}
                      /\ o \in {"more", "no"} /\ (sv.data <=> o = "more")
  /\ k.at = "body" => /\ Clean(sv) /\ Accepted(k) # {}
                      /\ k.mail[k.message].taken = IF o = "ok" THEN Accepted(k) ELSE {}
  /\ k.at = "rset" => o = "ok"

\* In the middle of a transaction, with the reply of the stage heard.
Answered(k, sv, lg, o, i) ==
  /\ Resumed(k, lg) /\ k.socket = "open" /\ k.at \in Sending \ {"rcpts"}
  /\ k.at = "rcpt" => i \in 1..Rcpts /\ k.got[i] = "asked"
  /\ ~lg => Heard(k, sv, o, i)

LEMMA AnsweredBetween ==
  ASSUME NEW k, NEW sv, NEW lg \in BOOLEAN, NEW o, NEW i, Answered(k, sv, lg, o, i)
  PROVE  /\ k \in ClientType /\ Resting(k, lg) /\ k.message \in 1..Messages
         /\ ~lg => k.mail[k.message].result = "none"
         /\ k.at \in {"mail", "rcpt", "data"} => InHandFree(k, lg)
         /\ k.at \in {"mail", "rcpt"} => Between(k, sv, lg)
         /\ k.at = "data" /\ o # "more" => Between(k, sv, lg)
<1>1. /\ k \in ClientType /\ Resting(k, lg) /\ StageSound(k, k.at) /\ k.socket = "open"
      /\ k.at \in Sending /\ (~lg => InHand(k, k.at))
  BY DEF Answered, Resumed, Resting
<1>2. k.message \in 1..Messages /\ k.state \notin {"idle", "ready"}
  BY <1>1 DEF StageSound, Sending
<1>3. ~lg => k.mail[k.message].result = "none"
  BY <1>1 DEF InHand
<1>4. k.at \in {"mail", "rcpt", "data"} => InHandFree(k, lg)
  BY <1>1, <1>3 DEF InHand, InHandFree
<1>5. k.at \in {"mail", "rcpt"} \/ (k.at = "data" /\ o # "more") => (~lg => Quiet(k) /\ ~sv.data)
  BY DEF Answered, Heard, Clean
<1> QED BY <1>1, <1>2, <1>3, <1>4, <1>5 DEF Between

LEMMA MailReplyInv ==
  ASSUME NEW k, NEW sv, NEW lg \in BOOLEAN, NEW o, NEW i, Answered(k, sv, lg, o, i),
         k.at = "mail"
  PROVE  ClientInv(OnMail(k, o), sv, lg)
<1> DEFINE got == [n \in 1..Rcpts |-> "unasked"]
           a == [k EXCEPT !.got = got]
<1>1. Between(k, sv, lg) /\ k \in ClientType /\ Resting(k, lg)
  BY AnsweredBetween
<1>2. got \in [1..Rcpts -> Verdicts] /\ \A n \in 1..Rcpts : got[n] = "unasked"
  BY DEF Verdicts
<1>3. OnMail(k, o) = IF o \notin Good THEN Fails(k)
                     ELSE IF k.cfg.offers.pipelining THEN AskAll(a) ELSE AskRcpt(a, 1)
  BY DEF OnMail
<1> HIDE DEF got
<1>4. /\ a \in ClientType /\ a.got = got /\ a.state = k.state /\ a.cfg = k.cfg
      /\ a.socket = k.socket /\ a.encrypted = k.encrypted /\ a.aborted = k.aborted
      /\ a.replies = k.replies /\ a.message = k.message /\ a.mail = k.mail
      /\ a.queue = k.queue /\ a.asked = k.asked
  BY <1>1, <1>2 DEF ClientType
<1> HIDE DEF a
<1>5. Resting(a, lg)
  BY <1>1, <1>4 DEF Resting, Sound, Live, MailsSound
<1>6. Between(a, sv, lg)
  BY <1>1, <1>4, <1>5 DEF Between, InHandFree, Quiet
<1>7. ~lg => Clean(sv)
  BY DEF Answered, Heard
<1>8. Agreed(a, sv, lg)
  <2>1. Accepted(a) = {}
    BY <1>2, <1>4 DEF Accepted
  <2> QED BY <1>7, <2>1 DEF Agreed, Clean
<1>9. ClientInv(Fails(k), sv, lg) /\ ClientInv(AskAll(a), sv, lg)
  BY <1>1, <1>6, <1>7, BetweenFails, AskAllInv
<1>10. ClientInv(AskRcpt(a, 1), sv, lg)
  <2>1. 1 \in 1..Rcpts
    BY Numbers
  <2> QED BY <1>2, <1>4, <1>6, <1>8, <2>1, AskRcptInv
<1> QED BY <1>3, <1>9, <1>10

LEMMA RcptReplyInv ==
  ASSUME NEW k, NEW sv, NEW lg \in BOOLEAN, NEW o \in Codes, NEW i,
         Answered(k, sv, lg, o, i), k.at = "rcpt"
  PROVE  ClientInv(OnRcpt(k, o, i), sv, lg)
<1> DEFINE v == Verdict(o)
           g == [k EXCEPT !.got[i] = v]
<1>1. Between(k, sv, lg) /\ Resting(k, lg) /\ i \in 1..Rcpts /\ k.got[i] = "asked"
  BY AnsweredBetween DEF Answered
<1>2. v \in {"yes", "no"} /\ (v = "yes" <=> o \in Good)
  BY DEF Verdict, Codes, Good
<1>3. OnRcpt(k, o, i) = IF g.got[i] = "lost" THEN Fails(g)
                        ELSE IF i < Rcpts THEN AskRcpt(g, i + 1) ELSE AfterRcpts(g)
  BY DEF OnRcpt
<1> HIDE DEF v
<1>4. /\ Resting(g, lg) /\ g.state = k.state /\ g.socket = k.socket /\ g.replies = k.replies
      /\ g.message = k.message /\ g.mail = k.mail /\ g.queue = k.queue /\ g.asked = k.asked
      /\ g.got[i] = v /\ \A n \in 1..Rcpts \ {i} : g.got[n] = k.got[n]
  <2>1. v \in Verdicts
    BY <1>2 DEF Verdicts
  <2> QED BY <1>1, <2>1, GotFields
<1> HIDE DEF g
<1>5. Between(g, sv, lg)
  BY <1>1, <1>4 DEF Between, InHandFree, Quiet
<1>6. Agreed(g, sv, lg)
  <2> SUFFICES ASSUME ~lg PROVE sv.rcpts = Accepted(g)
    BY DEF Agreed
  <2>1. sv.rcpts = Accepted(k) \cup (IF o = "ok" THEN {i} ELSE {}) /\ o \in {"ok", "no"}
    BY DEF Answered, Heard
  <2>2. Accepted(g) = Accepted(k) \cup (IF v = "yes" THEN {i} ELSE {})
    BY <1>1, <1>2, <1>4 DEF Accepted
  <2> QED BY <1>2, <2>1, <2>2 DEF Good
<1>7. CASE i < Rcpts
  <2>1. i + 1 \in 1..Rcpts /\ \A n \in 1..Rcpts : n >= i + 1 => n > i /\ n # i
    BY <1>1, <1>7, Numbers
  <2>2. ~lg => \A n \in 1..Rcpts : n > i => k.got[n] = "unasked"
    BY DEF Answered, Heard
  <2>3. ~lg => \A n \in 1..Rcpts : n >= i + 1 => g.got[n] = "unasked"
    BY <1>4, <2>1, <2>2
  <2>4. ClientInv(AskRcpt(g, i + 1), sv, lg)
    BY <1>5, <1>6, <2>1, <2>3, AskRcptInv
  <2> QED BY <1>2, <1>3, <1>4, <1>7, <2>4
<1>8. CASE ~(i < Rcpts)
  <2>1. ClientInv(AfterRcpts(g), sv, lg)
    BY <1>5, <1>6, AfterRcptsInv
  <2> QED BY <1>2, <1>3, <1>4, <1>8, <2>1
<1> QED BY <1>7, <1>8

LEMMA DataReplyInv ==
  ASSUME NEW k, NEW sv, NEW lg \in BOOLEAN, NEW o \in Codes, NEW i,
         Answered(k, sv, lg, o, i), k.at = "data"
  PROVE  ClientInv(OnData(k, o), sv, lg)
<1>1. Resting(k, lg) /\ k.message \in 1..Messages /\ InHandFree(k, lg)
  BY AnsweredBetween
<1>2. CASE o \in Good
  <2>1. OnData(k, o) = Await(k, "BODY", k.message, "body")
    BY <1>2 DEF OnData
  <2>2. StageSound(k, "body") /\ "body" \in Waiting /\ (~lg => InHand(k, "body"))
    <3>1. StageSound(k, "data") /\ (~lg => InHand(k, "data"))
      BY DEF Answered, Resumed
    <3> QED BY <1>1, <3>1 DEF StageSound, InHand, Waiting, Stages, Secret, Sending
  <2>3. ~lg => Quiet(k) /\ Expects(k, sv, "body", k.message)
    <3>1. ~lg => Heard(k, sv, o, i) /\ k.mail[k.message].taken = {}
      BY <1>1 DEF Answered, InHandFree
    <3> QED BY <1>2, <3>1 DEF Heard, Expects, Good
  <2>4. k.message \in 0..(Rcpts + Messages)
    BY <1>1, Numbers
  <2>5. ClientInv(Await(k, VerbOf("body"), k.message, "body"), sv, lg)
    BY <1>1, <2>2, <2>3, <2>4, AwaitInv
  <2> QED BY <2>1, <2>5, VerbTable
<1>3. CASE o \notin Good
  <2>1. o # "more"
    BY <1>3 DEF Good
  <2>2. Between(k, sv, lg)
    BY <2>1, AnsweredBetween
  <2> QED BY <1>3, <2>2, BetweenFails DEF OnData
<1> QED BY <1>2, <1>3

\* A send() that ends on an open socket, and leaves the client ready.
LEMMA ReadyFinish ==
  ASSUME NEW k, NEW sv, NEW lg \in BOOLEAN, Resting(k, lg), k.socket = "open",
         NEW result \in {"sent", "failed"}, NEW accepted \in SUBSET (1..Rcpts),
         k.message \in 1..Messages,
         ~lg => LET t == k.mail[k.message].taken
                IN  IF result = "sent" THEN accepted = t /\ t # {}
                    ELSE t # {} => k.mail[k.message].cut,
         ~lg => Quiet(k) /\ Clean(sv)
  PROVE  ClientInv(Finish([k EXCEPT !.state = "ready"], result, accepted), sv, lg)
<1> DEFINE e == [k EXCEPT !.state = "ready"]
<1>1. k.aborted # "attached" /\ "ready" \in SmtpStates \ {"idle"}
  BY DEF Resting, Sound, SmtpStates
<1>2. /\ Resting(e, lg) /\ e.socket = k.socket /\ e.replies = k.replies /\ e.message = k.message
      /\ e.mail = k.mail /\ e.queue = k.queue /\ e.asked = k.asked
  BY <1>1, Restated
<1> HIDE DEF e
<1>3. ~lg => Quiet(e) /\ Clean(sv)
  BY <1>2 DEF Quiet
<1>4. /\ e \in ClientType /\ Sound(e) /\ Live(e) = {} /\ (~lg => MailsSound(e))
      /\ e.message \in 1..Messages /\ e.socket # "none"
  BY <1>2 DEF Resting
<1>5. ~lg => /\ MailsSound(e)
             /\ LET t == e.mail[e.message].taken
                IN  IF result = "sent" THEN accepted = t /\ t # {}
                    ELSE t # {} => e.mail[e.message].cut
  BY <1>2, <1>4
<1>6. ClientInv(Finish(e, result, accepted), sv, lg)
  BY <1>3, <1>4, <1>5, FinishInv
<1> QED BY <1>6 DEF e

LEMMA BodyReplyInv ==
  ASSUME NEW k, NEW sv, NEW lg \in BOOLEAN, NEW o \in Codes, NEW i,
         Answered(k, sv, lg, o, i), k.at = "body"
  PROVE  ClientInv(OnBody(k, o), sv, lg)
<1>1. /\ Resting(k, lg) /\ k.message \in 1..Messages /\ k.socket = "open"
      /\ (~lg => k.mail[k.message].result = "none")
  BY AnsweredBetween DEF Answered
<1>2. ~lg => /\ Quiet(k) /\ Clean(sv) /\ Accepted(k) # {}
             /\ k.mail[k.message].taken = IF o = "ok" THEN Accepted(k) ELSE {}
  BY DEF Answered, Heard
<1>3. CASE o = "ok"
  <2>1. OnBody(k, o) = Finish([k EXCEPT !.state = "ready"], "sent", Accepted(k))
    BY <1>3 DEF OnBody
  <2>2. Accepted(k) \in SUBSET (1..Rcpts)
    BY DEF Accepted
  <2>3. ~lg => LET t == k.mail[k.message].taken
               IN  IF "sent" = "sent" THEN Accepted(k) = t /\ t # {}
                   ELSE t # {} => k.mail[k.message].cut
    BY <1>2, <1>3
  <2>4. ~lg => Quiet(k) /\ Clean(sv)
    BY <1>2
  <2> QED BY <1>1, <2>1, <2>2, <2>3, <2>4, ReadyFinish
<1>4. CASE o # "ok"
  <2> DEFINE cut == o \in {"time", "lost"}
             g == [k EXCEPT !.mail[k.message].cut = cut]
  <2>1. cut \in BOOLEAN
    OBVIOUS
  <2>2. OnBody(k, o) = Fails(g)
    BY <1>4 DEF OnBody
  <2> HIDE DEF cut
  <2>3. /\ Resting(g, lg) /\ g.message = k.message /\ g.socket = k.socket
        /\ g.replies = k.replies /\ g.queue = k.queue /\ g.asked = k.asked
        /\ g.mail[k.message].taken = k.mail[k.message].taken
        /\ g.mail[k.message].result = k.mail[k.message].result
    BY <1>1, <2>1, CutFields
  <2> HIDE DEF g
  <2>4. ~lg => /\ g.mail[g.message].result = "none"
               /\ g.mail[g.message].taken # {} => g.mail[g.message].cut
    BY <1>1, <1>2, <1>4, <2>3
  <2>5. ASSUME ~lg
        PROVE  /\ Matched(g) /\ RepliesSound(g)
               /\ Len(g.queue) = 0 \/ (Len(g.queue) = 1 /\ CutBody(g, g.queue[1]))
               /\ sv.data => Len(g.asked) = 1
    <3>1. Len(g.queue) = 0 /\ Len(g.replies) = 0 /\ Len(g.asked) = 0 /\ ~sv.data
      BY <1>2, <2>3, <2>5 DEF Quiet, Clean
    <3>2. Matched(g) /\ RepliesSound(g)
      BY <3>1 DEF Matched, RepliesSound
    <3> QED BY <3>1, <3>2
  <2>6. g.message \in 1..Messages
    BY <1>1, <2>3
  <2>7. ClientInv(Fails(g), sv, lg)
    BY <2>3, <2>4, <2>5, <2>6, FailsInv
  <2> QED BY <2>2, <2>7
<1> QED BY <1>3, <1>4

LEMMA ResetReplyInv ==
  ASSUME NEW k, NEW sv, NEW lg \in BOOLEAN, NEW o \in Codes, NEW i,
         Answered(k, sv, lg, o, i), k.at = "rset"
  PROVE  ClientInv(OnReset(k, o), sv, lg)
<1>1. /\ k \in ClientType /\ Resting(k, lg) /\ k.message \in 1..Messages /\ k.socket = "open"
      /\ (~lg => (k.mail[k.message].taken # {} => k.mail[k.message].cut))
  BY AnsweredBetween DEF Answered, Resumed, InHand
<1>2. ~lg => Quiet(k) /\ Clean(sv)
  BY DEF Answered, Heard
<1>3. CASE o \in Good
  <2>1. OnReset(k, o) = Finish([k EXCEPT !.state = "ready"], "failed", {})
    BY <1>3 DEF OnReset
  <2>2. ~lg => LET t == k.mail[k.message].taken
               IN  IF "failed" = "sent" THEN {} = t /\ t # {}
                   ELSE t # {} => k.mail[k.message].cut
    BY <1>1
  <2> QED BY <1>1, <1>2, <2>1, <2>2, ReadyFinish
<1>4. CASE o \notin Good
  <2> DEFINE d == Destroyed(k)
  <2>1. /\ d \in ClientType /\ d.socket \notin {"open", "none"} /\ d.message = k.message /\ d.mail = k.mail
        /\ Sound(d) /\ Live(d) = {} /\ (~lg => MailsSound(d))
    BY <1>1, DestroyedFields, DestroyedSound DEF Resting
  <2>2. OnReset(k, o) = Finish(d, "failed", {})
    BY <1>4 DEF OnReset
  <2> HIDE DEF d
  <2>3. d.message \in 1..Messages
    BY <1>1, <2>1
  <2>4. ~lg => (d.mail[d.message].taken # {} => d.mail[d.message].cut)
    BY <1>1, <2>1
  <2>5. ClientInv(Finish(d, "failed", {}), sv, lg)
    BY <2>1, <2>3, <2>4, FinishInv
  <2> QED BY <2>2, <2>5
<1> QED BY <1>3, <1>4

-----------------------------------------------------------------------------
(* A pipelined batch, a wait at a time.                                    *)

\* The batch without the wait for recipient i, whose verdict is to be noted.
Batch(k, lg, i) ==
  /\ k \in ClientType /\ Sound(k) /\ StageSound(k, k.at) /\ k.at = "rcpts"
  /\ LiveSound(k) /\ i \in 1..Rcpts /\ k.got[i] = "asked"
  /\ \A n \in Live(k) : k.queue[n].arg # i
  /\ ~lg => MailsSound(k) /\ InHand(k, k.at)

BatchHeard(k, sv, o, i) ==
  /\ Matched(k) /\ RepliesSound(k) /\ Live(k) = 1..Len(k.queue)
  /\ ~sv.data /\ o \in {"ok", "no"}
  /\ sv.rcpts = (Accepted(k) \cup (IF o = "ok" THEN {i} ELSE {})) \cup Granted(k)

LEMMA VerdictFields ==
  ASSUME NEW k \in ClientType, NEW i \in 1..Rcpts, NEW v \in Verdicts
  PROVE  LET g == [k EXCEPT !.got[i] = v]
         IN  /\ g \in ClientType /\ g.state = k.state /\ g.at = k.at /\ g.cfg = k.cfg
             /\ g.socket = k.socket /\ g.encrypted = k.encrypted /\ g.aborted = k.aborted
             /\ g.replies = k.replies /\ g.message = k.message
             /\ g.mail = k.mail /\ g.queue = k.queue /\ g.asked = k.asked
             /\ g.got[i] = v /\ \A n \in 1..Rcpts \ {i} : g.got[n] = k.got[n]
<1> DEFINE got == [k.got EXCEPT ![i] = v]
           g == [k EXCEPT !.got = got]
<1>1. k.got \in [1..Rcpts -> Verdicts]
  BY DEF ClientType
<1>2. got \in [1..Rcpts -> Verdicts] /\ got[i] = v /\ \A n \in 1..Rcpts \ {i} : got[n] = k.got[n]
  BY <1>1
<1> HIDE DEF got
<1>3. /\ g \in ClientType /\ g.state = k.state /\ g.at = k.at /\ g.cfg = k.cfg
      /\ g.socket = k.socket /\ g.encrypted = k.encrypted /\ g.aborted = k.aborted
      /\ g.replies = k.replies /\ g.message = k.message
      /\ g.mail = k.mail /\ g.queue = k.queue /\ g.asked = k.asked /\ g.got = got
  BY <1>2 DEF ClientType
<1> QED BY <1>2, <1>3 DEF got

LEMMA VerdictOf ==
  ASSUME NEW o \in Codes \cup {"time"}
  PROVE  /\ Verdict(o) \in {"yes", "no", "lost"}
         /\ Verdict(o) = "lost" <=> o = "time"
         /\ Verdict(o) = "yes" <=> o \in Good
BY DEF Verdict, Codes, Good

LEMMA RcptsInv ==
  ASSUME NEW k, NEW sv, NEW lg \in BOOLEAN, NEW o \in Codes \cup {"time"}, NEW i,
         Batch(k, lg, i), o \in Codes => k.socket = "open",
         ~lg /\ k.socket = "open" => BatchHeard(k, sv, o, i)
  PROVE  ClientInv(OnRcpts(k, o, i), sv, lg)
<1> DEFINE v == Verdict(o)
           g == [k EXCEPT !.got[i] = v]
<1>1. k \in ClientType /\ i \in 1..Rcpts /\ k.got[i] = "asked" /\ k.at = "rcpts"
  BY DEF Batch
<1>2. v \in {"yes", "no", "lost"} /\ (v = "lost" <=> o = "time") /\ (v = "yes" <=> o \in Good)
  BY VerdictOf
<1>3. OnRcpts(k, o, i) = IF \E n \in 1..Rcpts : g.got[n] = "asked" THEN g
                         ELSE IF \E n \in 1..Rcpts : g.got[n] = "lost" THEN Fails(g)
                         ELSE AfterRcpts(g)
  BY DEF OnRcpts
<1> HIDE DEF v
<1>4. /\ g \in ClientType /\ g.state = k.state /\ g.at = k.at /\ g.cfg = k.cfg
      /\ g.socket = k.socket /\ g.encrypted = k.encrypted /\ g.aborted = k.aborted
      /\ g.replies = k.replies /\ g.message = k.message
      /\ g.mail = k.mail /\ g.queue = k.queue /\ g.asked = k.asked
      /\ g.got[i] = v /\ \A n \in 1..Rcpts \ {i} : g.got[n] = k.got[n]
  <2>1. v \in Verdicts
    BY <1>2 DEF Verdicts
  <2> QED BY <1>1, <2>1, VerdictFields
<1> HIDE DEF g
<1>5. Live(g) = Live(k)
  BY <1>4 DEF Live
<1>6. Sound(g) /\ StageSound(g, g.at) /\ (~lg => MailsSound(g) /\ InHand(g, g.at))
  BY <1>4 DEF Batch, Sound, StageSound, MailsSound, InHand
<1>7. LiveSound(g)
  <2>1. LiveSound(k) /\ \A n \in Live(k) : k.queue[n].arg # i
    BY DEF Batch
  <2>2. \A n \in Live(k) : k.queue[n].arg \in 1..Rcpts /\ g.got[k.queue[n].arg] = "asked"
    BY <1>1, <1>4, <2>1 DEF LiveSound, Recipients
  <2> QED BY <1>4, <1>5, <2>1, <2>2 DEF LiveSound
<1>8. ASSUME ~lg, g.socket = "open"
      PROVE  /\ Matched(g) /\ RepliesSound(g) /\ Live(g) = 1..Len(g.queue)
             /\ ~sv.data /\ sv.rcpts = Accepted(g) \cup Granted(g)
  <2>1. BatchHeard(k, sv, o, i)
    BY <1>4, <1>8
  <2>2. Accepted(g) = Accepted(k) \cup (IF v = "yes" THEN {i} ELSE {})
    BY <1>1, <1>2, <1>4 DEF Accepted
  <2>3. v = "yes" <=> o = "ok"
    BY <1>2, <2>1 DEF BatchHeard, Good
  <2>4. Granted(g) = Granted(k)
    BY <1>4 DEF Granted
  <2>5. Matched(g) /\ RepliesSound(g)
    BY <1>4, <2>1 DEF BatchHeard, Matched, RepliesSound
  <2> QED BY <1>4, <1>5, <2>1, <2>2, <2>3, <2>4, <2>5 DEF BatchHeard
<1>9. CASE \E n \in 1..Rcpts : g.got[n] = "asked"
  <2>1. ASSUME ~lg, g.socket = "open" PROVE Dialogue(g, sv)
    <3>1. Queued(g)
      BY <1>1, <1>4, <1>8, <2>1 DEF Queued, Waiting, Stages
    <3>2. ServerSound(g, sv)
      BY <1>1, <1>4, <1>8, <2>1 DEF ServerSound
    <3> QED BY <1>8, <2>1, <3>1, <3>2 DEF Dialogue
  <2>2. g.socket # "none"
    BY <1>1, <1>4, <1>6 DEF StageSound
  <2>3. ClientInv(g, sv, lg)
    BY <1>4, <1>6, <1>7, <2>1, <2>2 DEF ClientInv
  <2> QED BY <1>3, <1>9, <2>3
<1>10. CASE ~\E n \in 1..Rcpts : g.got[n] = "asked"
  <2>1. Live(g) = {}
    BY <1>1, <1>4, <1>7, <1>10 DEF LiveSound, Recipients
  <2>2. g.message \in 1..Messages /\ g.socket # "none" /\ g.state \notin {"idle", "ready"}
    BY <1>1, <1>4, <1>6 DEF StageSound, Sending
  <2>3. Resting(g, lg)
    BY <1>4, <1>6, <2>1, <2>2 DEF Resting
  <2>4. InHandFree(g, lg)
    BY <1>1, <1>4, <1>6 DEF InHand, InHandFree, Sending
  <2>5. ASSUME ~lg, g.socket = "open" PROVE Quiet(g) /\ ~sv.data /\ sv.rcpts = Accepted(g)
    <3>1. Len(g.queue) \in Nat /\ Len(g.replies) \in Nat /\ Len(g.asked) \in Nat
      BY <1>4, ListsTyped
    <3>2. Len(g.queue) = Len(g.replies) + Len(g.asked) /\ 1..Len(g.queue) = {}
      BY <1>8, <2>1, <2>5 DEF Matched
    <3>5. ASSUME Len(g.queue) # 0 PROVE FALSE
      <4>1. 1 \in 1..Len(g.queue)
        BY <3>1, <3>5
      <4> QED BY <3>2, <4>1
    <3>6. Len(g.queue) = 0
      BY <3>5
    <3>7. Len(g.replies) + Len(g.asked) = 0
      BY <3>2, <3>6
    <3>8. \A x, y \in Nat : x + y = 0 => x = 0 /\ y = 0
      OBVIOUS
    <3>3. Len(g.queue) = 0 /\ Len(g.replies) = 0 /\ Len(g.asked) = 0
      BY <3>1, <3>6, <3>7, <3>8
    <3>4. Granted(g) = {}
      BY <3>3 DEF Granted
    <3> QED BY <1>8, <2>5, <3>3, <3>4 DEF Quiet
  <2>6. g.socket = "open" => Between(g, sv, lg) /\ Agreed(g, sv, lg)
    BY <2>2, <2>3, <2>4, <2>5 DEF Between, Agreed
  <2>7. ClientInv(Fails(g), sv, lg)
    <3>1. CASE g.socket = "open"
      BY <2>6, <3>1, BetweenFails
    <3>2. CASE g.socket # "open"
      BY <2>2, <2>3, <2>4, <3>2, GivesUp DEF InHandFree
    <3> QED BY <3>1, <3>2
  <2>8. CASE \E n \in 1..Rcpts : g.got[n] = "lost"
    BY <1>3, <1>10, <2>7, <2>8
  <2>9. CASE ~\E n \in 1..Rcpts : g.got[n] = "lost"
    <3>1. o # "time"
      BY <1>1, <1>2, <1>4, <2>9
    <3>2. g.socket = "open"
      BY <1>4, <3>1
    <3>3. ClientInv(AfterRcpts(g), sv, lg)
      BY <2>6, <3>2, AfterRcptsInv
    <3> QED BY <1>3, <1>10, <2>9, <3>3
  <2> QED BY <2>8, <2>9
<1> QED BY <1>9, <1>10

-----------------------------------------------------------------------------
(* Every wait of the call under way is rejected.                           *)

\* What holds of a client wherever its call is, and whatever the server does.
Stands(k, lg) ==
  /\ k \in ClientType /\ Sound(k) /\ StageSound(k, k.at) /\ LiveSound(k)
  /\ ~lg => MailsSound(k) /\ InHand(k, k.at)

LEMMA FailPendingInv ==
  ASSUME NEW k, NEW sv, NEW lg \in BOOLEAN, NEW o \in {"time", "lost"},
         Stands(k, lg), k.socket \notin {"none", "open"}
  PROVE  ClientInv(FailPending(k, o), sv, lg)
<1> DEFINE n == [k EXCEPT !.queue = <<>>]
           live == {l \in DOMAIN k.queue : k.queue[l].live}
           got == [i \in 1..Rcpts |-> IF k.got[i] = "asked" THEN "lost" ELSE k.got[i]]
           g == [n EXCEPT !.got = got]
           w == k.queue[CHOOSE l \in live : TRUE]
<1>1. k \in ClientType /\ Sound(k) /\ StageSound(k, k.at) /\ LiveSound(k)
      /\ (~lg => MailsSound(k) /\ InHand(k, k.at))
  BY DEF Stands
<1>2. live = Live(k)
  BY <1>1, ListsTyped DEF Live
<1>3. FailPending(k, o) = IF live = {} THEN n
                          ELSE IF k.at = "rcpts" THEN Fails(g) ELSE Resume(n, w, o)
  BY DEF FailPending
<1>4. /\ n \in ClientType /\ n.queue = <<>> /\ n.state = k.state /\ n.at = k.at /\ n.cfg = k.cfg
      /\ n.socket = k.socket /\ n.encrypted = k.encrypted /\ n.aborted = k.aborted
      /\ n.replies = k.replies /\ n.asked = k.asked /\ n.got = k.got
      /\ n.message = k.message /\ n.mail = k.mail
  <2> DEFINE none == << >>
  <2>1. none \in Seq(WaitType)
    OBVIOUS
  <2> HIDE DEF none
  <2>2. n = [k EXCEPT !.queue = none]
    BY DEF none
  <2> HIDE DEF n
  <2> QED BY <1>1, <2>1, <2>2 DEF ClientType, none
<1> HIDE DEF n, live, got, w
<1>5. Live(n) = {}
  <2>1. Len(n.queue) = 0
    BY <1>4
  <2> QED BY <2>1 DEF Live
<1>6. Sound(n) /\ StageSound(n, n.at) /\ LiveSound(n) /\ (~lg => MailsSound(n) /\ InHand(n, n.at))
  <2>1. Sound(n)
    BY <1>1, <1>4 DEF Sound
  <2>2. StageSound(n, n.at) /\ LiveSound(n)
    BY <1>1, <1>4, <1>5 DEF StageSound, LiveSound
  <2>3. ~lg => MailsSound(n) /\ InHand(n, n.at)
    BY <1>1, <1>4 DEF MailsSound, InHand
  <2> QED BY <2>1, <2>2, <2>3
<1>7. Resting(n, lg)
  BY <1>4, <1>5, <1>6 DEF Resting
<1>8. CASE live = {}
  BY <1>3, <1>4, <1>6, <1>8 DEF ClientInv
<1>9. CASE live # {}
  <2>1. PICK l \in live : w = k.queue[l]
    BY <1>9 DEF w
  <2>2. k.at \in Waiting /\ (k.at \in Recipients => w.arg \in 1..Rcpts)
    BY <1>1, <1>2, <2>1 DEF LiveSound
  <2>3. CASE k.at = "rcpts"
    <3>1. got \in [1..Rcpts -> Verdicts]
      <4>1. k.got \in [1..Rcpts -> Verdicts]
        BY <1>1 DEF ClientType
      <4> QED BY <4>1 DEF got, Verdicts
    <3>2. /\ g \in ClientType /\ g.queue = n.queue /\ g.state = n.state /\ g.cfg = n.cfg
          /\ g.socket = n.socket /\ g.encrypted = n.encrypted /\ g.aborted = n.aborted
          /\ g.replies = n.replies /\ g.asked = n.asked
          /\ g.message = n.message /\ g.mail = n.mail
      BY <1>4, <3>1 DEF ClientType
    <3> HIDE DEF g
    <3>3. Resting(g, lg)
      BY <1>7, <3>2 DEF Resting, Sound, Live, MailsSound
    <3>4. g.message \in 1..Messages /\ g.socket # "open"
      BY <1>4, <1>6, <2>3, <3>2 DEF StageSound, Sending
    <3>5. ~lg => g.mail[g.message].result = "none" /\ g.mail[g.message].taken = {}
      BY <1>4, <1>6, <2>3, <3>2 DEF InHand, Sending
    <3>6. ClientInv(Fails(g), sv, lg)
      BY <3>3, <3>4, <3>5, GivesUp
    <3> QED BY <1>3, <1>9, <2>3, <3>6
  <2>4. CASE k.at # "rcpts"
    <3>1. Resumed(n, lg)
      BY <1>4, <1>6, <1>7, <2>2 DEF Resumed
    <3>2. n.at = "rcpt" => w.arg \in 1..Rcpts
      BY <1>4, <2>2 DEF Recipients
    <3>3. n.at # "rcpts" /\ n.socket # "open"
      BY <1>4, <2>4
    <3>4. ClientInv(Resume(n, w, o), sv, lg)
      BY <3>1, <3>2, <3>3, CutInv
    <3> QED BY <1>3, <1>9, <2>4, <3>4
  <2> QED BY <2>3, <2>4
<1> QED BY <1>8, <1>9

-----------------------------------------------------------------------------
(* A reply arrives.                                                        *)

\* The client without its oldest reply, and without its oldest wait as well.
Unread(k) == [k EXCEPT !.replies = Tail(@)]
Unqueued(k) == [Unread(k) EXCEPT !.queue = Tail(@)]

Hears(k) ==
  IF k.queue = <<>> THEN Unread(k)
  ELSE IF Head(k.queue).live THEN Resume(Unqueued(k), Head(k.queue), Head(k.replies).code)
  ELSE Unqueued(k)

LEMMA UnreadFields ==
  ASSUME NEW k \in ClientType, k.replies # <<>>
  PROVE  /\ Unread(k) \in ClientType /\ Unread(k).at = k.at /\ Alike([Unread(k) EXCEPT !.replies = k.replies], k)
         /\ Unread(k).replies = Tail(k.replies)
         /\ Unread(k).queue = k.queue /\ Unread(k).asked = k.asked
         /\ Unread(k).socket = k.socket /\ Unread(k).state = k.state /\ Unread(k).cfg = k.cfg
         /\ Unread(k).encrypted = k.encrypted /\ Unread(k).aborted = k.aborted
         /\ Unread(k).got = k.got /\ Unread(k).message = k.message /\ Unread(k).mail = k.mail
<1> DEFINE t == Tail(k.replies)
           r == [k EXCEPT !.replies = t]
<1>1. t \in Seq(ReplyType)
  BY ListsTyped, Popped
<1> HIDE DEF t
<1>2. /\ r \in ClientType /\ r.at = k.at /\ Alike([r EXCEPT !.replies = k.replies], k)
      /\ r.replies = t /\ r.queue = k.queue /\ r.asked = k.asked
      /\ r.socket = k.socket /\ r.state = k.state /\ r.cfg = k.cfg
      /\ r.encrypted = k.encrypted /\ r.aborted = k.aborted
      /\ r.got = k.got /\ r.message = k.message /\ r.mail = k.mail
  BY <1>1 DEF ClientType, Alike
<1> QED BY <1>2 DEF Unread, t

LEMMA UnqueuedFields ==
  ASSUME NEW k \in ClientType, k.replies # <<>>, k.queue # <<>>
  PROVE  LET n == Unqueued(k)
         IN  /\ n \in ClientType /\ n.at = k.at /\ n.replies = Tail(k.replies)
             /\ n.queue = Tail(k.queue) /\ n.asked = k.asked
             /\ n.socket = k.socket /\ n.state = k.state /\ n.cfg = k.cfg
             /\ n.encrypted = k.encrypted /\ n.aborted = k.aborted
             /\ n.got = k.got /\ n.message = k.message /\ n.mail = k.mail
<1> DEFINE u == Unread(k)
           t == Tail(k.queue)
           n == [u EXCEPT !.queue = t]
<1>1. t \in Seq(WaitType)
  BY ListsTyped, Popped
<1>2. /\ u \in ClientType /\ u.at = k.at /\ u.replies = Tail(k.replies)
      /\ u.queue = k.queue /\ u.asked = k.asked
      /\ u.socket = k.socket /\ u.state = k.state /\ u.cfg = k.cfg
      /\ u.encrypted = k.encrypted /\ u.aborted = k.aborted
      /\ u.got = k.got /\ u.message = k.message /\ u.mail = k.mail
  BY UnreadFields
<1>3. Unqueued(k) = n
  BY <1>2 DEF Unqueued
<1> HIDE DEF u, t
<1>4. /\ n \in ClientType /\ n.at = u.at /\ n.replies = u.replies
      /\ n.queue = t /\ n.asked = u.asked
      /\ n.socket = u.socket /\ n.state = u.state /\ n.cfg = u.cfg
      /\ n.encrypted = u.encrypted /\ n.aborted = u.aborted
      /\ n.got = u.got /\ n.message = u.message /\ n.mail = u.mail
  BY <1>1, <1>2 DEF ClientType
<1> HIDE DEF n
<1> QED BY <1>2, <1>3, <1>4 DEF t

LEMMA Shifted ==
  ASSUME NEW p \in Nat \ {0}, NEW a \in Nat
  PROVE  /\ \A m \in 1..(p - 1) : m \in 1..(p + a - 1)
         /\ \A m \in 1..a : p - 1 + m \in 1..(p + a - 1) /\ p - 1 + m + 1 = p + m
OBVIOUS

\* What the loss of the oldest reply and the oldest wait leaves as it was.
LEMMA UnqueuedStands ==
  ASSUME NEW k, NEW lg \in BOOLEAN, Stands(k, lg), k.replies # <<>>, k.queue # <<>>
  PROVE  LET n == Unqueued(k)
         IN  /\ Stands(n, lg)
             /\ \A m \in Live(n) : m + 1 \in Live(k) /\ n.queue[m] = k.queue[m + 1]
             /\ Matched(k) /\ RepliesSound(k) =>
                  Matched(n) /\ RepliesSound(n)
<1> DEFINE n == Unqueued(k)
<1>1. k \in ClientType /\ Sound(k) /\ StageSound(k, k.at) /\ LiveSound(k)
      /\ (~lg => MailsSound(k) /\ InHand(k, k.at))
  BY DEF Stands
<1>2. /\ n \in ClientType /\ n.at = k.at /\ n.replies = Tail(k.replies)
      /\ n.queue = Tail(k.queue) /\ n.asked = k.asked
      /\ n.socket = k.socket /\ n.state = k.state /\ n.cfg = k.cfg
      /\ n.encrypted = k.encrypted /\ n.aborted = k.aborted
      /\ n.got = k.got /\ n.message = k.message /\ n.mail = k.mail
  BY <1>1, UnqueuedFields
<1> HIDE DEF n
<1>3. /\ Len(k.queue) \in Nat \ {0} /\ Len(n.queue) = Len(k.queue) - 1
      /\ \A m \in 1..Len(n.queue) : n.queue[m] = k.queue[m + 1] /\ m + 1 \in 1..Len(k.queue)
  BY <1>1, <1>2, ListsTyped, Popped
<1>4. /\ Len(k.replies) \in Nat \ {0} /\ Len(n.replies) = Len(k.replies) - 1
      /\ \A m \in 1..Len(n.replies) : n.replies[m] = k.replies[m + 1] /\ m + 1 \in 1..Len(k.replies)
  BY <1>1, <1>2, ListsTyped, Popped
<1>5. ASSUME NEW m \in Live(n)
      PROVE  m + 1 \in Live(k) /\ n.queue[m] = k.queue[m + 1]
  BY <1>3 DEF Live
<1>6. LiveSound(n)
  <2>1. ASSUME NEW m \in Live(n)
        PROVE  /\ n.at \in Waiting /\ n.queue[m].verb = VerbOf(n.at)
               /\ n.at \in Recipients => n.queue[m].arg \in 1..Rcpts /\ n.got[n.queue[m].arg] = "asked"
    BY <1>1, <1>2, <1>5 DEF LiveSound
  <2>2. ASSUME NEW m \in Live(n), NEW j \in Live(n), j # m
        PROVE  n.at = "rcpts" /\ n.queue[j].arg # n.queue[m].arg
    <3>1. m + 1 \in Live(k) /\ j + 1 \in Live(k) /\ n.queue[m] = k.queue[m + 1]
          /\ n.queue[j] = k.queue[j + 1]
      BY <1>5
    <3>2. m \in Int /\ j \in Int
      BY DEF Live
    <3>3. m + 1 # j + 1
      BY <2>2, <3>2
    <3> QED BY <1>1, <1>2, <3>1, <3>3 DEF LiveSound
  <2> QED BY <2>1, <2>2 DEF LiveSound
<1>7. Sound(n)
  <2>1. k.socket # "none"
    BY <1>1 DEF Sound
  <2> QED BY <1>1, <1>2, <2>1 DEF Sound
<1>8. StageSound(n, n.at) /\ (~lg => MailsSound(n) /\ InHand(n, n.at))
  BY <1>1, <1>2 DEF StageSound, MailsSound, InHand
<1>9. ASSUME Matched(k), RepliesSound(k) PROVE Matched(n) /\ RepliesSound(n)
  <2>1. Len(k.queue) = Len(k.replies) + Len(k.asked) /\ Len(k.asked) \in Nat
    BY <1>1, <1>9, ListsTyped DEF Matched
  <2>6. /\ Len(k.queue) \in Nat /\ Len(k.replies) \in Nat /\ Len(k.asked) \in Nat
        /\ Len(n.queue) = Len(k.queue) - 1 /\ Len(n.replies) = Len(k.replies) - 1
        /\ Len(n.asked) = Len(k.asked) /\ Len(k.replies) # 0
        /\ Len(k.queue) = Len(k.replies) + Len(k.asked)
    BY <1>2, <1>3, <1>4, <2>1
  <2>2. Len(n.queue) = Len(n.replies) + Len(n.asked)
    BY <2>6
  <2>7. /\ \A m \in 1..(Len(k.replies) - 1) : m \in 1..(Len(k.replies) + Len(k.asked) - 1)
        /\ \A m \in 1..Len(k.asked) :
             /\ Len(k.replies) - 1 + m \in 1..(Len(k.replies) + Len(k.asked) - 1)
             /\ Len(k.replies) - 1 + m + 1 = Len(k.replies) + m
    BY <2>6, Shifted
  <2>8. /\ Len(n.replies) = Len(k.replies) - 1 /\ Len(n.asked) = Len(k.asked)
        /\ Len(n.queue) = Len(k.replies) + Len(k.asked) - 1
    BY <2>6
  <2>3. ASSUME NEW m \in 1..Len(n.replies)
        PROVE  n.replies[m].verb = n.queue[m].verb /\ n.replies[m].arg = n.queue[m].arg
    <3>1. m \in 1..Len(n.queue)
      BY <2>7, <2>8
    <3>2. n.replies[m] = k.replies[m + 1] /\ n.queue[m] = k.queue[m + 1] /\ m + 1 \in 1..Len(k.replies)
      BY <1>3, <1>4, <3>1
    <3> QED BY <1>9, <3>2 DEF Matched
  <2>4. ASSUME NEW m \in 1..Len(n.asked)
        PROVE  /\ n.asked[m].verb = n.queue[Len(n.replies) + m].verb
               /\ n.asked[m].arg = n.queue[Len(n.replies) + m].arg
    <3>1. Len(n.replies) + m \in 1..Len(n.queue) /\ Len(n.replies) + m + 1 = Len(k.replies) + m
          /\ m \in 1..Len(k.asked)
      BY <2>7, <2>8
    <3>2. n.queue[Len(n.replies) + m] = k.queue[Len(k.replies) + m]
      BY <1>3, <3>1
    <3> QED BY <1>2, <1>9, <3>1, <3>2 DEF Matched
  <2>5. \A m \in 1..Len(n.replies) : Code(n.replies[m].verb, n.replies[m].code)
    BY <1>4, <1>9 DEF RepliesSound
  <2> QED BY <2>2, <2>3, <2>4, <2>5 DEF Matched, RepliesSound
<1> QED BY <1>2, <1>5, <1>6, <1>7, <1>8, <1>9 DEF Stands, n

\* The oldest wait, and the reply to it.
LEMMA Heads ==
  ASSUME NEW k \in ClientType, k.replies # <<>>, k.queue # <<>>
  PROVE  /\ Head(k.queue) = k.queue[1] /\ Head(k.replies) = k.replies[1]
         /\ Len(k.queue) \in Nat \ {0} /\ Len(k.replies) \in Nat \ {0} /\ Len(k.asked) \in Nat
         /\ 1 \in 1..Len(k.queue) /\ 1 \in 1..Len(k.replies)
         /\ k.queue[1] \in WaitType /\ k.replies[1] \in ReplyType
         /\ Len(Unqueued(k).queue) = Len(k.queue) - 1
         /\ Len(Unqueued(k).replies) = Len(k.replies) - 1
         /\ Len(Unqueued(k).asked) = Len(k.asked)
         /\ \A m \in 1..Len(Unqueued(k).queue) : Unqueued(k).queue[m] = k.queue[m + 1]
         /\ \A m \in 1..Len(Unqueued(k).replies) : Unqueued(k).replies[m] = k.replies[m + 1]
<1>1. /\ Len(k.queue) \in Nat \ {0} /\ Head(k.queue) = k.queue[1] /\ k.queue[1] \in WaitType
      /\ Len(Tail(k.queue)) = Len(k.queue) - 1
      /\ \A m \in 1..Len(Tail(k.queue)) : Tail(k.queue)[m] = k.queue[m + 1]
  BY ListsTyped, Popped
<1>2. /\ Len(k.replies) \in Nat \ {0} /\ Head(k.replies) = k.replies[1] /\ k.replies[1] \in ReplyType
      /\ Len(Tail(k.replies)) = Len(k.replies) - 1
      /\ \A m \in 1..Len(Tail(k.replies)) : Tail(k.replies)[m] = k.replies[m + 1]
  BY ListsTyped, Popped
<1>3. /\ Unqueued(k).replies = Tail(k.replies) /\ Unqueued(k).queue = Tail(k.queue)
      /\ Unqueued(k).asked = k.asked
  BY UnqueuedFields
<1>4. 1 \in 1..Len(k.queue) /\ 1 \in 1..Len(k.replies)
  BY <1>1, <1>2
<1>5. Len(k.asked) \in Nat
  BY ListsTyped
<1> QED BY <1>1, <1>2, <1>3, <1>4, <1>5

\* The stage of a call that heard its only reply.
LEMMA HeardOne ==
  ASSUME NEW k \in ClientType, NEW sv, k.replies # <<>>, k.queue # <<>>,
         Stands(k, FALSE), Dialogue(k, sv), k.queue[1].live, k.at # "rcpts"
  PROVE  Heard(Unqueued(k), sv, k.replies[1].code, k.queue[1].arg)
<1> DEFINE n == Unqueued(k)
           w == k.queue[1]
           r == k.replies[1]
<1>1. /\ 1 \in 1..Len(k.queue) /\ 1 \in 1..Len(k.replies)
      /\ Len(k.queue) \in Nat \ {0} /\ Len(k.replies) \in Nat \ {0} /\ Len(k.asked) \in Nat
      /\ Len(n.queue) = Len(k.queue) - 1 /\ Len(n.replies) = Len(k.replies) - 1
      /\ Len(n.asked) = Len(k.asked)
  BY Heads
<1>2. /\ n.at = k.at /\ n.got = k.got /\ n.message = k.message /\ n.mail = k.mail
  BY UnqueuedFields
<1> SUFFICES Heard(n, sv, r.code, w.arg)
  OBVIOUS
<1> HIDE DEF n
<1>3. Matched(k) /\ Queued(k) /\ RepliesSound(k) /\ ServerSound(k, sv) /\ LiveSound(k)
  BY DEF Dialogue, Stands
<1>4. k.at \in Waiting /\ w.verb = VerbOf(k.at)
  BY <1>1, <1>3 DEF LiveSound, Live
<1>5. Len(k.queue) = 1
  <2>1. k.at = "rset" => Len(k.queue) = 1
    BY <1>3 DEF Queued, CutBody
  <2> QED BY <1>3, <1>4, <2>1 DEF Queued
<1>6. Len(k.replies) = 1 /\ Len(k.asked) = 0 /\ Quiet(n)
  <2>1. Len(k.queue) = Len(k.replies) + Len(k.asked)
    BY <1>3 DEF Matched
  <2>2. \A x \in Nat \ {0}, y \in Nat : x + y = 1 => x = 1 /\ y = 0
    OBVIOUS
  <2>3. Len(k.replies) = 1 /\ Len(k.asked) = 0
    BY <1>1, <1>5, <2>1, <2>2
  <2> QED BY <1>1, <1>5, <2>3 DEF Quiet
<1>7. r.verb = w.verb /\ r.arg = w.arg /\ Code(r.verb, r.code)
  BY <1>1, <1>3 DEF Matched, RepliesSound
<1>8. Accepted(n) = Accepted(k)
  BY <1>2 DEF Accepted
<1>9. n.at \notin {"rcpt", "rcpts", "data", "body"} => Clean(sv)
  BY <1>2, <1>3, <1>6 DEF ServerSound
<1>10. CASE k.at = "rcpt"
  <2>1. r.code \in {"ok", "no"}
    BY <1>4, <1>7, <1>10, VerbTable DEF Code
  <2>2. Granted(k) = IF r.code = "ok" THEN {w.arg} ELSE {}
    <3>1. 1..Len(k.replies) = {1}
      BY <1>6
    <3> QED BY <1>7, <3>1 DEF Granted
  <2>3. ~sv.data /\ sv.rcpts = Accepted(k) \cup Granted(k)
    BY <1>3, <1>10 DEF ServerSound, Recipients
  <2>4. \A i \in 1..Rcpts : i > w.arg => k.got[i] = "unasked"
    BY <1>3, <1>10 DEF Queued
  <2> QED BY <1>2, <1>6, <1>8, <1>10, <2>1, <2>2, <2>3, <2>4 DEF Heard
<1>11. CASE k.at = "data"
  <2>1. r.code \in {"more", "no"}
    BY <1>4, <1>7, <1>11, VerbTable DEF Code
  <2>2. sv.rcpts = Accepted(k) /\ sv.rcpts # {} /\ (sv.data <=> r.code = "more")
    BY <1>3, <1>6, <1>11 DEF ServerSound
  <2> QED BY <1>2, <1>6, <1>8, <1>11, <2>1, <2>2 DEF Heard
<1>12. CASE k.at = "body"
  <2>1. /\ Clean(sv) /\ Accepted(k) # {}
        /\ k.mail[k.message].taken = IF r.code = "ok" THEN Accepted(k) ELSE {}
    BY <1>3, <1>6, <1>12 DEF ServerSound
  <2> QED BY <1>2, <1>6, <1>8, <1>12, <2>1 DEF Heard
<1>13. CASE k.at = "rset"
  <2>1. r.code = "ok"
    BY <1>4, <1>7, <1>13, VerbTable DEF Code
  <2> QED BY <1>2, <1>6, <1>9, <1>13, <2>1 DEF Heard
<1>14. CASE k.at \notin {"rcpt", "data", "body", "rset"}
  BY <1>2, <1>6, <1>9, <1>14 DEF Heard
<1> QED BY <1>10, <1>11, <1>12, <1>13, <1>14

\* A reply of a batch, on whose recipient the others still wait.
LEMMA HeardOfBatch ==
  ASSUME NEW k \in ClientType, NEW sv, k.replies # <<>>, k.queue # <<>>,
         Stands(k, FALSE), Dialogue(k, sv), k.queue[1].live, k.at = "rcpts"
  PROVE  BatchHeard(Unqueued(k), sv, k.replies[1].code, k.queue[1].arg)
<1> DEFINE n == Unqueued(k)
           w == k.queue[1]
           r == k.replies[1]
<1>1. /\ 1 \in 1..Len(k.queue) /\ 1 \in 1..Len(k.replies)
      /\ Len(k.queue) \in Nat \ {0} /\ Len(k.replies) \in Nat \ {0}
      /\ Len(n.queue) = Len(k.queue) - 1 /\ Len(n.replies) = Len(k.replies) - 1
      /\ \A m \in 1..Len(n.queue) : n.queue[m] = k.queue[m + 1]
      /\ \A m \in 1..Len(n.replies) : n.replies[m] = k.replies[m + 1]
  BY Heads
<1>2. n.at = k.at /\ n.got = k.got
  BY UnqueuedFields
<1>3. Matched(k) /\ Queued(k) /\ RepliesSound(k) /\ ServerSound(k, sv) /\ LiveSound(k)
      /\ Matched(n) /\ RepliesSound(n)
  BY UnqueuedStands DEF Dialogue, Stands
<1> SUFFICES BatchHeard(n, sv, r.code, w.arg)
  OBVIOUS
<1> HIDE DEF n
<1>4. w.verb = VerbOf(k.at)
  BY <1>1, <1>3 DEF LiveSound, Live
<1>5. r.verb = w.verb /\ r.arg = w.arg /\ Code(r.verb, r.code)
  BY <1>1, <1>3 DEF Matched, RepliesSound
<1>6. r.code \in {"ok", "no"}
  BY <1>4, <1>5, VerbTable DEF Code
<1>7. Live(n) = 1..Len(n.queue)
  <2> SUFFICES ASSUME NEW m \in 1..Len(n.queue) PROVE n.queue[m].live
    BY DEF Live
  <2>1. m + 1 \in 1..Len(k.queue) /\ n.queue[m] = k.queue[m + 1]
    BY <1>1
  <2>2. m + 1 \in Live(k)
    BY <1>3, <2>1 DEF Queued
  <2> QED BY <2>1, <2>2 DEF Live
<1>8. Granted(k) = (IF r.code = "ok" THEN {w.arg} ELSE {}) \cup Granted(n)
  <2>1. ASSUME NEW m \in 1..Len(k.replies), k.replies[m].code = "ok"
        PROVE  k.replies[m].arg \in (IF r.code = "ok" THEN {w.arg} ELSE {}) \cup Granted(n)
    <3>1. CASE m = 1
      BY <1>5, <2>1, <3>1
    <3>2. CASE m # 1
      <4>1. m - 1 \in 1..Len(n.replies) /\ m - 1 + 1 = m
        BY <1>1, <3>2
      <4>2. n.replies[m - 1] = k.replies[m]
        BY <1>1, <4>1
      <4> QED BY <2>1, <4>1, <4>2 DEF Granted
    <3> QED BY <3>1, <3>2
  <2>2. ASSUME NEW m \in 1..Len(n.replies), n.replies[m].code = "ok"
        PROVE  n.replies[m].arg \in Granted(k)
    <3>1. m + 1 \in 1..Len(k.replies) /\ n.replies[m] = k.replies[m + 1]
      BY <1>1
    <3> QED BY <2>2, <3>1 DEF Granted
  <2>3. r.code = "ok" => w.arg \in Granted(k)
    BY <1>1, <1>5 DEF Granted
  <2> QED BY <2>1, <2>2, <2>3 DEF Granted
<1>9. Accepted(n) = Accepted(k)
  BY <1>2 DEF Accepted
<1>10. ~sv.data /\ sv.rcpts = Accepted(k) \cup Granted(k)
  BY <1>3 DEF ServerSound, Recipients
<1>11. sv.rcpts = (Accepted(n) \cup (IF r.code = "ok" THEN {w.arg} ELSE {})) \cup Granted(n)
  BY <1>8, <1>9, <1>10
<1> QED BY <1>3, <1>6, <1>7, <1>10, <1>11 DEF BatchHeard

\* The reply to a body that was cut: only the wait of the RSET is left.
LEMMA HeardLate ==
  ASSUME NEW k \in ClientType, NEW sv, k.replies # <<>>, k.queue # <<>>,
         Stands(k, FALSE), Dialogue(k, sv), ~k.queue[1].live
  PROVE  Dialogue(Unqueued(k), sv)
<1> DEFINE n == Unqueued(k)
<1>1. /\ 1 \in 1..Len(k.queue)
      /\ Len(k.queue) \in Nat \ {0} /\ Len(k.replies) \in Nat \ {0} /\ Len(k.asked) \in Nat
      /\ Len(n.queue) = Len(k.queue) - 1
      /\ Len(n.asked) = Len(k.asked)
      /\ \A m \in 1..Len(n.queue) : n.queue[m] = k.queue[m + 1]
  BY Heads
<1>2. n.at = k.at
  BY UnqueuedFields
<1>3. Matched(k) /\ Queued(k) /\ RepliesSound(k) /\ ServerSound(k, sv)
      /\ Matched(n) /\ RepliesSound(n)
  BY UnqueuedStands DEF Dialogue
<1> SUFFICES Dialogue(n, sv)
  OBVIOUS
<1> HIDE DEF n
<1>4. k.at = "rset" /\ Len(k.queue) = 2 /\ k.queue[2].live
  <2>1. k.at \in Waiting
    BY <1>1, <1>3 DEF Queued
  <2>2. k.at # "rcpts"
    BY <1>1, <1>3 DEF Queued, Live
  <2>3. k.at = "rset"
    BY <1>3, <2>1, <2>2 DEF Queued
  <2> QED BY <1>3, <2>3 DEF Queued
<1>5. Len(n.queue) = 1 /\ n.queue[1].live
  <2>1. Len(n.queue) = 1
    BY <1>1, <1>4
  <2>2. 1 \in 1..Len(n.queue) /\ 1 + 1 = 2
    BY <2>1
  <2>3. n.queue[1] = k.queue[2]
    BY <1>1, <2>2
  <2> QED BY <1>4, <2>1, <2>3
<1>6. Len(n.asked) # 2
  <2>1. \A x \in Nat \ {0}, y \in Nat : x + y = 2 => y # 2
    OBVIOUS
  <2>2. Len(k.replies) + Len(k.asked) = 2
    BY <1>3, <1>4 DEF Matched
  <2> QED BY <1>1, <2>1, <2>2
<1>7. Queued(n)
  BY <1>2, <1>4, <1>5 DEF Queued, Waiting, Stages
<1>8. ServerSound(n, sv)
  BY <1>1, <1>2, <1>3, <1>4, <1>6 DEF ServerSound, Recipients
<1> QED BY <1>3, <1>7, <1>8 DEF Dialogue

LEMMA HearsInv ==
  ASSUME NEW k, NEW sv, NEW lg \in BOOLEAN, ClientInv(k, sv, lg),
         k.socket = "open", k.replies # <<>>
  PROVE  ClientInv(Hears(k), sv, lg)
<1>1. /\ k \in ClientType /\ Stands(k, lg) /\ (~lg => Dialogue(k, sv) /\ Stands(k, FALSE))
  BY DEF ClientInv, Stands
<1>2. CASE k.queue = <<>>
  <2> DEFINE u == Unread(k)
  <2>1. lg
    <3>1. Len(k.queue) = 0 /\ Len(k.replies) \in Nat /\ Len(k.asked) \in Nat /\ Len(k.replies) # 0
      BY <1>1, <1>2, ListsTyped
    <3>2. \A x, y \in Nat : x + y = 0 => x = 0
      OBVIOUS
    <3>3. Len(k.queue) # Len(k.replies) + Len(k.asked)
      BY <3>1, <3>2
    <3> QED BY <1>1, <3>3 DEF Dialogue, Matched
  <2>2. /\ u \in ClientType /\ u.at = k.at
        /\ u.queue = k.queue /\ u.asked = k.asked
        /\ u.socket = k.socket /\ u.state = k.state /\ u.cfg = k.cfg
        /\ u.encrypted = k.encrypted /\ u.aborted = k.aborted
        /\ u.got = k.got /\ u.message = k.message /\ u.mail = k.mail
    BY <1>1, UnreadFields
  <2>3. Hears(k) = u
    BY <1>2 DEF Hears
  <2> HIDE DEF u
  <2>4. Sound(u) /\ StageSound(u, u.at) /\ LiveSound(u)
    <3>1. Live(u) = Live(k)
      BY <2>2 DEF Live
    <3> QED BY <1>1, <2>2, <3>1 DEF Stands, Sound, StageSound, LiveSound
  <2> QED BY <2>1, <2>2, <2>3, <2>4 DEF ClientInv
<1>3. CASE k.queue # <<>> /\ ~Head(k.queue).live
  <2> DEFINE n == Unqueued(k)
  <2>1. Hears(k) = n
    BY <1>3 DEF Hears
  <2>2. Stands(n, lg)
    BY <1>1, <1>3, UnqueuedStands
  <2>3. ~k.queue[1].live
    BY <1>1, <1>3, Heads
  <2>4. ~lg => Dialogue(n, sv)
    BY <1>1, <1>3, <2>3, HeardLate
  <2>5. n.socket # "none"
    BY <1>1, <1>3, UnqueuedFields
  <2> HIDE DEF n
  <2> QED BY <2>1, <2>2, <2>4, <2>5 DEF ClientInv, Stands
<1>4. CASE k.queue # <<>> /\ Head(k.queue).live
  <2> DEFINE n == Unqueued(k)
             w == k.queue[1]
             o == k.replies[1].code
  <2>1. /\ Head(k.queue) = w /\ Head(k.replies) = k.replies[1] /\ w.live
        /\ o \in Codes /\ 1 \in Live(k)
    BY <1>1, <1>4, Heads DEF ReplyType, Live
  <2>2. Hears(k) = Resume(n, w, o)
    BY <1>4, <2>1 DEF Hears
  <2>3. Stands(n, lg) /\ \A m \in Live(n) : m + 1 \in Live(k) /\ n.queue[m] = k.queue[m + 1]
    BY <1>1, <1>4, UnqueuedStands
  <2>4. n.at = k.at /\ n.got = k.got /\ n.socket = "open"
    BY <1>1, <1>4, UnqueuedFields
  <2>5. ~lg => /\ k.at # "rcpts" => Heard(n, sv, o, w.arg)
               /\ k.at = "rcpts" => BatchHeard(n, sv, o, w.arg)
    BY <1>1, <1>4, <2>1, HeardOne, HeardOfBatch
  <2> HIDE DEF n, o
  <2>6. /\ k.at \in Waiting
        /\ k.at \in Recipients => w.arg \in 1..Rcpts /\ n.got[w.arg] = "asked"
        /\ \A m \in Live(k) : m # 1 => k.at = "rcpts" /\ k.queue[m].arg # w.arg
    BY <1>1, <2>1, <2>4 DEF Stands, LiveSound
  <2>7. \A m \in Live(n) : k.at = "rcpts" /\ n.queue[m].arg # w.arg
    <3> SUFFICES ASSUME NEW m \in Live(n) PROVE k.at = "rcpts" /\ n.queue[m].arg # w.arg
      OBVIOUS
    <3>1. m + 1 \in Live(k) /\ n.queue[m] = k.queue[m + 1]
      BY <2>3
    <3>2. m + 1 # 1
      BY DEF Live
    <3> QED BY <2>6, <3>1, <3>2
  <2>8. CASE k.at = "rcpts"
    <3>1. Batch(n, lg, w.arg)
      BY <2>3, <2>4, <2>6, <2>7, <2>8 DEF Batch, Stands, Recipients
    <3>2. ClientInv(OnRcpts(n, o, w.arg), sv, lg)
      BY <2>1, <2>4, <2>5, <2>8, <3>1, RcptsInv
    <3>3. Resume(n, w, o) = OnRcpts(n, o, w.arg)
      BY <2>4, <2>8, ResumeIs
    <3> QED BY <2>2, <3>2, <3>3
  <2>9. CASE k.at # "rcpts"
    <3>1. Live(n) = {}
      BY <2>7, <2>9
    <3>2. Resumed(n, lg)
      BY <2>3, <2>4, <2>6, <3>1 DEF Resumed, Resting, Stands
    <3>3. ~lg => Heard(n, sv, o, w.arg)
      BY <2>5, <2>9
    <3>4. CASE k.at \in Sending
      <4>1. Answered(n, sv, lg, o, w.arg)
        BY <2>4, <2>6, <2>9, <3>2, <3>3, <3>4 DEF Answered, Recipients
      <4>2. k.at \in {"mail", "rcpt", "data", "body", "rset"}
        BY <2>9, <3>4 DEF Sending
      <4>3. /\ k.at = "mail" => ClientInv(OnMail(n, o), sv, lg)
            /\ k.at = "rcpt" => ClientInv(OnRcpt(n, o, w.arg), sv, lg)
            /\ k.at = "data" => ClientInv(OnData(n, o), sv, lg)
            /\ k.at = "body" => ClientInv(OnBody(n, o), sv, lg)
            /\ k.at = "rset" => ClientInv(OnReset(n, o), sv, lg)
        BY <2>1, <2>4, <4>1, MailReplyInv, RcptReplyInv, DataReplyInv, BodyReplyInv, ResetReplyInv
      <4> QED BY <2>2, <2>4, <4>2, <4>3, ResumeIs
    <3>5. CASE k.at \notin Sending
      <4>1. n.at \in Quietly
        BY <2>4, <2>6, <3>5 DEF Quietly, Waiting, Stages, Sending
      <4>2. Calm(n, sv, lg)
        BY <2>4, <3>2, <3>3, <3>5 DEF Calm, Resumed, Heard, Sending
      <4>3. ClientInv(Resume(n, w, o), sv, lg)
        BY <2>1, <2>4, <3>2, <4>1, <4>2, ConnectReplyInv
      <4> QED BY <2>2, <4>3
    <3> QED BY <3>4, <3>5
  <2> QED BY <2>8, <2>9
<1> QED BY <1>2, <1>3, <1>4

-----------------------------------------------------------------------------
(* A wait times out.                                                       *)

\* The client without wait n.
Without(k, n) ==
  [k EXCEPT !.queue = SubSeq(@, 1, n - 1) \o SubSeq(@, n + 1, Len(@))]

\* The wait for the verdict on a body stays in the list, though nobody waits.
Deaf(k, n) == [k EXCEPT !.queue[n].live = FALSE]

LEMMA WithoutStands ==
  ASSUME NEW k, NEW lg \in BOOLEAN, Stands(k, lg), NEW n \in Live(k)
  PROVE  LET d == Without(k, n)
         IN  /\ Stands(d, lg) /\ d.at = k.at /\ d.got = k.got /\ d.socket = k.socket
             /\ \A i \in Live(d) : k.at = "rcpts" /\ d.queue[i].arg # k.queue[n].arg
<1> DEFINE q == SubSeq(k.queue, 1, n - 1) \o SubSeq(k.queue, n + 1, Len(k.queue))
           d == [k EXCEPT !.queue = q]
<1>1. k \in ClientType /\ Sound(k) /\ StageSound(k, k.at) /\ LiveSound(k)
      /\ (~lg => MailsSound(k) /\ InHand(k, k.at))
  BY DEF Stands
<1>2. n \in 1..Len(k.queue) /\ k.queue \in Seq(WaitType)
  BY <1>1, ListsTyped DEF Live
<1>3. q \in Seq(WaitType) /\ Lacks(q, k.queue, n)
  BY <1>2, Dropped
<1>4. Without(k, n) = d
  BY DEF Without
<1> HIDE DEF q
<1>5. /\ d \in ClientType /\ d.queue = q /\ d.at = k.at /\ d.replies = k.replies
      /\ d.asked = k.asked /\ d.socket = k.socket /\ d.state = k.state /\ d.cfg = k.cfg
      /\ d.encrypted = k.encrypted /\ d.aborted = k.aborted
      /\ d.got = k.got /\ d.message = k.message /\ d.mail = k.mail
  BY <1>1, <1>3 DEF ClientType
<1> HIDE DEF d
<1>6. ASSUME NEW i \in Live(d)
      PROVE  \E j \in Live(k) : j # n /\ d.queue[i] = k.queue[j] /\ j = IF i < n THEN i ELSE i + 1
  <2>1. i \in 1..Len(q) /\ d.queue[i] = q[i] /\ q[i].live
    BY <1>5 DEF Live
  <2>2. PICK j \in 1..Len(k.queue) : j # n /\ q[i] = k.queue[j] /\ j = IF i < n THEN i ELSE i + 1
    BY <1>3, <2>1 DEF Lacks
  <2> QED BY <2>1, <2>2 DEF Live
<1>7. LiveSound(d)
  <2>1. ASSUME NEW i \in Live(d)
        PROVE  /\ d.at \in Waiting /\ d.queue[i].verb = VerbOf(d.at)
               /\ d.at \in Recipients => d.queue[i].arg \in 1..Rcpts /\ d.got[d.queue[i].arg] = "asked"
    <3>1. PICK j \in Live(k) : d.queue[i] = k.queue[j]
      BY <1>6
    <3> QED BY <1>1, <1>5, <3>1 DEF LiveSound
  <2>2. ASSUME NEW i \in Live(d), NEW j \in Live(d), j # i
        PROVE  d.at = "rcpts" /\ d.queue[j].arg # d.queue[i].arg
    <3>1. PICK x \in Live(k) : d.queue[i] = k.queue[x] /\ x = IF i < n THEN i ELSE i + 1
      BY <1>6
    <3>2. PICK y \in Live(k) : d.queue[j] = k.queue[y] /\ y = IF j < n THEN j ELSE j + 1
      BY <1>6
    <3>3. x # y
      <4>1. i \in Int /\ j \in Int /\ n \in Int
        BY DEF Live
      <4> QED BY <2>2, <3>1, <3>2, <4>1
    <3> QED BY <1>1, <1>5, <3>1, <3>2, <3>3 DEF LiveSound
  <2> QED BY <2>1, <2>2 DEF LiveSound
<1>8. ASSUME NEW i \in Live(d) PROVE k.at = "rcpts" /\ d.queue[i].arg # k.queue[n].arg
  <2>1. PICK j \in Live(k) : j # n /\ d.queue[i] = k.queue[j]
    BY <1>6
  <2> QED BY <1>1, <2>1 DEF LiveSound
<1>9. Sound(d)
  <2>1. k.socket # "none"
    <3>1. Len(k.queue) # 0
      BY <1>1, <1>2, ListsTyped
    <3> QED BY <1>1, <3>1, ListsTyped DEF Sound
  <2> QED BY <1>1, <1>5, <2>1 DEF Sound
<1>10. StageSound(d, d.at) /\ (~lg => MailsSound(d) /\ InHand(d, d.at))
  BY <1>1, <1>5 DEF StageSound, MailsSound, InHand
<1> QED BY <1>4, <1>5, <1>7, <1>8, <1>9, <1>10 DEF Stands

LEMMA Places ==
  ASSUME NEW p \in Nat, NEW a \in Nat
  PROVE  (\A m \in 1..p : m \in 1..(p + a)) /\ (\A m \in 1..a : p + m \in 1..(p + a))
OBVIOUS

LEMMA DeafStands ==
  ASSUME NEW k, NEW lg \in BOOLEAN, Stands(k, lg), NEW n \in Live(k), k.at # "rcpts"
  PROVE  LET d == Deaf(k, n)
         IN  /\ Stands(d, lg) /\ Live(d) = {} /\ d.at = k.at /\ d.socket = k.socket
             /\ d.message = k.message /\ d.asked = k.asked
             /\ Len(d.queue) = Len(k.queue) /\ d.queue[n].verb = k.queue[n].verb
             /\ d.queue[n].arg = k.queue[n].arg /\ ~d.queue[n].live
             /\ Matched(k) => Matched(d)
             /\ RepliesSound(k) => RepliesSound(d)
<1> DEFINE w == [k.queue[n] EXCEPT !.live = FALSE]
           q == [k.queue EXCEPT ![n] = w]
           d == [k EXCEPT !.queue = q]
<1>1. k \in ClientType /\ Sound(k) /\ StageSound(k, k.at) /\ LiveSound(k)
      /\ (~lg => MailsSound(k) /\ InHand(k, k.at))
  BY DEF Stands
<1>2. n \in 1..Len(k.queue) /\ k.queue \in Seq(WaitType) /\ k.queue[n] \in WaitType
      /\ Len(k.queue) \in Nat
  BY <1>1, ListsTyped DEF Live
<1>3. w \in WaitType /\ ~w.live /\ w.verb = k.queue[n].verb /\ w.arg = k.queue[n].arg
  BY <1>2 DEF WaitType
<1> HIDE DEF w
<1>4. /\ q \in Seq(WaitType) /\ Len(q) = Len(k.queue) /\ q[n] = w
      /\ \A i \in 1..Len(k.queue) : i # n => q[i] = k.queue[i]
  BY <1>2, <1>3
<1>5. Deaf(k, n) = d
  BY DEF Deaf, w
<1> HIDE DEF q
<1>6. /\ d \in ClientType /\ d.queue = q /\ d.at = k.at /\ d.replies = k.replies
      /\ d.asked = k.asked /\ d.socket = k.socket /\ d.state = k.state /\ d.cfg = k.cfg
      /\ d.encrypted = k.encrypted /\ d.aborted = k.aborted
      /\ d.got = k.got /\ d.message = k.message /\ d.mail = k.mail
  BY <1>1, <1>4 DEF ClientType
<1> HIDE DEF d
<1>7. Live(d) = {}
  <2> SUFFICES ASSUME NEW i \in 1..Len(k.queue), q[i].live PROVE FALSE
    BY <1>4, <1>6 DEF Live
  <2>1. i # n
    BY <1>3, <1>4
  <2>2. i \in Live(k)
    BY <1>4, <2>1 DEF Live
  <2> QED BY <1>1, <2>1, <2>2 DEF LiveSound
<1>8. Sound(d)
  <2>1. k.socket # "none"
    <3>1. Len(k.queue) # 0
      BY <1>2
    <3> QED BY <1>1, <3>1, ListsTyped DEF Sound
  <2> QED BY <1>1, <1>6, <2>1 DEF Sound
<1>9. StageSound(d, d.at) /\ LiveSound(d) /\ (~lg => MailsSound(d) /\ InHand(d, d.at))
  BY <1>1, <1>6, <1>7 DEF StageSound, LiveSound, MailsSound, InHand
<1>10. \A i \in 1..Len(k.queue) : q[i].verb = k.queue[i].verb /\ q[i].arg = k.queue[i].arg
  BY <1>3, <1>4
<1>11. Matched(k) => Matched(d)
  <2> SUFFICES ASSUME Matched(k) PROVE Matched(d)
    OBVIOUS
  <2>1. Len(k.queue) = Len(k.replies) + Len(k.asked) /\ Len(k.replies) \in Nat /\ Len(k.asked) \in Nat
    BY <1>1, ListsTyped DEF Matched
  <2>4. /\ \A m \in 1..Len(k.replies) : m \in 1..Len(k.queue)
        /\ \A m \in 1..Len(k.asked) : Len(k.replies) + m \in 1..Len(k.queue)
    BY <2>1, Places
  <2>2. ASSUME NEW m \in 1..Len(d.replies)
        PROVE  d.replies[m].verb = d.queue[m].verb /\ d.replies[m].arg = d.queue[m].arg
    <3>1. m \in 1..Len(k.replies) /\ m \in 1..Len(k.queue)
      BY <1>6, <2>4
    <3> QED BY <1>6, <1>10, <3>1 DEF Matched
  <2>3. ASSUME NEW m \in 1..Len(d.asked)
        PROVE  /\ d.asked[m].verb = d.queue[Len(d.replies) + m].verb
               /\ d.asked[m].arg = d.queue[Len(d.replies) + m].arg
    <3>1. m \in 1..Len(k.asked) /\ Len(k.replies) + m \in 1..Len(k.queue)
      BY <1>6, <2>4
    <3> QED BY <1>6, <1>10, <3>1 DEF Matched
  <2> QED BY <1>4, <1>6, <2>1, <2>2, <2>3 DEF Matched
<1>12. RepliesSound(k) => RepliesSound(d)
  BY <1>6 DEF RepliesSound
<1> QED BY <1>3, <1>4, <1>5, <1>6, <1>7, <1>8, <1>9, <1>11, <1>12 DEF Stands

LEMMA TimesOutInv ==
  ASSUME NEW k, NEW sv, NEW lg \in BOOLEAN, NEW late \in BOOLEAN, ClientInv(k, sv, lg),
         NEW n \in Live(k),
         late <=> lg \/ (k.queue[n].verb # "BODY" /\ k.socket = "open")
  PROVE  ClientInv(Resume(IF k.queue[n].verb = "BODY" THEN Deaf(k, n) ELSE Without(k, n),
                          k.queue[n], "time"), sv, late)
<1> DEFINE w == k.queue[n]
<1>1. Stands(k, lg) /\ Stands(k, late) /\ k \in ClientType
  BY DEF ClientInv, Stands
<1>2. k.at \in Waiting /\ w.verb = VerbOf(k.at)
      /\ (k.at \in Recipients => w.arg \in 1..Rcpts /\ k.got[w.arg] = "asked")
  BY <1>1 DEF Stands, LiveSound
<1>3. w.verb = "BODY" => k.at = "body"
  BY <1>2, VerbsOf
<1>4. "time" \in {"time", "lost"} /\ "time" \in Codes \cup {"time"} /\ "time" \notin Codes
  BY DEF Codes
<1>5. CASE w.verb = "BODY"
  <2> DEFINE d == Deaf(k, n)
  <2>1. /\ Stands(d, late) /\ Live(d) = {} /\ d.at = k.at /\ d.socket = k.socket
        /\ d.message = k.message /\ d.asked = k.asked
        /\ Len(d.queue) = Len(k.queue) /\ d.queue[n].verb = w.verb
        /\ d.queue[n].arg = w.arg /\ ~d.queue[n].live
        /\ Matched(k) => Matched(d)
        /\ RepliesSound(k) => RepliesSound(d)
    BY <1>1, <1>3, <1>5, DeafStands
  <2> HIDE DEF d
  <2>2. Resumed(d, late)
    <3>1. d.socket # "none"
      BY <1>2, <2>1 DEF Stands, StageSound, Waiting
    <3> QED BY <1>2, <2>1, <3>1 DEF Resumed, Resting, Stands
  <2>3. ASSUME ~late, d.socket = "open" PROVE CutShort(d, sv)
    <3>1. Matched(k) /\ Queued(k) /\ RepliesSound(k) /\ ServerSound(k, sv)
      BY <1>5, <2>1, <2>3 DEF ClientInv, Dialogue
    <3>2. Len(k.queue) = 1 /\ k.queue[1].arg = k.message
      BY <1>3, <1>5, <3>1 DEF Queued, Waiting, Stages
    <3>3. n = 1
      BY <3>2 DEF Live
    <3>4. sv.data => Len(k.asked) = 1
      <4>1. Len(k.replies) \in Nat /\ Len(k.asked) \in Nat /\ Len(k.replies) + Len(k.asked) = 1
        BY <1>1, <3>1, <3>2, ListsTyped DEF Matched
      <4>2. sv.data => Len(k.replies) = 0
        BY <1>3, <1>5, <3>1 DEF ServerSound, Clean
      <4>3. \A x, y \in Nat : x + y = 1 /\ x = 0 => y = 1
        OBVIOUS
      <4> QED BY <4>1, <4>2, <4>3
    <3> QED BY <1>3, <1>5, <2>1, <3>1, <3>2, <3>3, <3>4 DEF CutShort
  <2>4. d.at # "rcpts" /\ d.at # "rcpt"
    BY <1>3, <1>5, <2>1
  <2>5. ClientInv(Resume(d, w, "time"), sv, late)
    BY <1>4, <2>2, <2>3, <2>4, CutInv
  <2> QED BY <1>5, <2>5 DEF d
<1>6. CASE w.verb # "BODY"
  <2> DEFINE d == Without(k, n)
  <2>1. /\ Stands(d, late) /\ d.at = k.at /\ d.got = k.got /\ d.socket = k.socket
        /\ \A i \in Live(d) : k.at = "rcpts" /\ d.queue[i].arg # w.arg
    BY <1>1, WithoutStands
  <2> HIDE DEF d
  <2>2. ~late => d.socket # "open"
    BY <1>6, <2>1
  <2>3. CASE k.at = "rcpts"
    <3>1. Batch(d, late, w.arg)
      BY <1>2, <2>1, <2>3 DEF Batch, Stands, Recipients
    <3>2. ClientInv(OnRcpts(d, "time", w.arg), sv, late)
      BY <1>4, <2>2, <3>1, RcptsInv
    <3>3. Resume(d, w, "time") = OnRcpts(d, "time", w.arg)
      BY <2>1, <2>3, ResumeIs
    <3> QED BY <1>6, <3>2, <3>3 DEF d
  <2>4. CASE k.at # "rcpts"
    <3>1. Live(d) = {}
      BY <2>1, <2>4
    <3>2. Resumed(d, late)
      <4>1. d.socket # "none"
        BY <1>2, <2>1 DEF Stands, StageSound, Waiting
      <4> QED BY <1>2, <2>1, <3>1, <4>1 DEF Resumed, Resting, Stands
    <3>3. d.at = "rcpt" => w.arg \in 1..Rcpts
      BY <1>2, <2>1 DEF Recipients
    <3>4. ClientInv(Resume(d, w, "time"), sv, late)
      BY <1>4, <2>1, <2>2, <2>4, <3>2, <3>3, CutInv
    <3> QED BY <1>6, <3>4 DEF d
  <2> QED BY <2>3, <2>4
<1> QED BY <1>5, <1>6

-----------------------------------------------------------------------------
(* The socket goes down.                                                   *)

\* r is k with a socket that is destroyed or closed.
Shut(r, k) ==
  /\ r \in ClientType /\ r.at = k.at /\ r.cfg = k.cfg /\ r.encrypted = k.encrypted
  /\ r.replies = k.replies /\ r.got = k.got /\ r.message = k.message /\ r.mail = k.mail
  /\ r.queue = k.queue /\ r.asked = k.asked
  /\ r.socket \in {"destroyed", "closed"} /\ r.state \in {k.state, "error", "closed"}

LEMMA ShutStands ==
  ASSUME NEW k, NEW r, NEW lg \in BOOLEAN, Stands(k, lg), k.socket # "none", Shut(r, k),
         r.aborted = k.aborted \/ (r.aborted = "attached" /\ r.state = "closed")
  PROVE  Stands(r, lg)
<1>1. k \in ClientType /\ Sound(k) /\ StageSound(k, k.at) /\ LiveSound(k)
      /\ (~lg => MailsSound(k) /\ InHand(k, k.at))
  BY DEF Stands
<1>2. /\ r \in ClientType /\ r.at = k.at /\ r.cfg = k.cfg /\ r.encrypted = k.encrypted
      /\ r.replies = k.replies /\ r.got = k.got /\ r.message = k.message /\ r.mail = k.mail
      /\ r.queue = k.queue /\ r.asked = k.asked
      /\ r.socket \in {"destroyed", "closed"} /\ r.state \in {k.state, "error", "closed"}
  BY DEF Shut
<1>3. Sound(r)
  BY <1>1, <1>2 DEF Sound
<1>4. StageSound(r, r.at)
  BY <1>1, <1>2 DEF StageSound
<1>5. LiveSound(r)
  <2>1. Live(r) = Live(k)
    BY <1>2 DEF Live
  <2> QED BY <1>1, <1>2, <2>1 DEF LiveSound
<1>6. ~lg => MailsSound(r) /\ InHand(r, r.at)
  BY <1>1, <1>2 DEF MailsSound, InHand
<1> QED BY <1>2, <1>3, <1>4, <1>5, <1>6 DEF Stands

LEMMA ShutInv ==
  ASSUME NEW k, NEW r, NEW sv, NEW lg \in BOOLEAN, ClientInv(k, sv, lg), k.socket # "none",
         Shut(r, k), r.aborted = k.aborted, NEW o \in {"time", "lost"}
  PROVE  ClientInv(FailPending(r, o), sv, lg)
<1>1. Stands(k, lg)
  BY DEF ClientInv, Stands
<1>2. Stands(r, lg)
  BY <1>1, ShutStands
<1>3. r.socket \notin {"none", "open"}
  BY DEF Shut
<1> QED BY <1>2, <1>3, FailPendingInv

LEMMA IdleInv == Inv /\ SocketIdle => Inv'
<1> SUFFICES ASSUME Inv, SocketIdle PROVE Inv'
  OBVIOUS
<1> DEFINE r == Destroyed(c)
<1>1. ClientInv(c, server, lagged) /\ lagged \in BOOLEAN /\ c \in ClientType
  BY DEF Inv, ClientInv
<1>2. /\ c.socket = "open" /\ c' = FailPending(r, "time") /\ server' = server /\ lagged' = lagged
  BY DEF SocketIdle
<1>3. Shut(r, c) /\ r.aborted = c.aborted
  BY <1>1, <1>2, DestroyedFields DEF Shut
<1> HIDE DEF r
<1>4. ClientInv(FailPending(r, "time"), server, lagged)
  BY <1>1, <1>2, <1>3, ShutInv
<1> QED BY <1>2, <1>4 DEF Inv

LEMMA ErrorInv == Inv /\ SocketError => Inv'
<1> SUFFICES ASSUME Inv, SocketError PROVE Inv'
  OBVIOUS
<1> DEFINE d == Destroyed(c)
           crashed == ~c.cfg.heard
           r == [d EXCEPT !.state = "error", !.crashed = crashed]
<1>1. ClientInv(c, server, lagged) /\ lagged \in BOOLEAN /\ c \in ClientType
  BY DEF Inv, ClientInv
<1>2. /\ c.socket = "open" /\ c' = FailPending(r, "lost") /\ server' = server /\ lagged' = lagged
  BY DEF SocketError
<1>3. Shut(d, c) /\ d.aborted = c.aborted /\ d \in ClientType
  BY <1>1, <1>2, DestroyedFields DEF Shut
<1>4. crashed \in BOOLEAN
  OBVIOUS
<1> HIDE DEF d, crashed
<1>5. Shut(r, c) /\ r.aborted = c.aborted
  BY <1>3, <1>4 DEF Shut, ClientType, SmtpStates
<1> HIDE DEF r
<1>6. ClientInv(FailPending(r, "lost"), server, lagged)
  BY <1>1, <1>2, <1>5, ShutInv
<1> QED BY <1>2, <1>6 DEF Inv

LEMMA NoiseInv == Inv /\ StreamError => Inv'
<1> SUFFICES ASSUME Inv, StreamError PROVE Inv'
  OBVIOUS
<1> DEFINE d == Destroyed(c)
           r == [d EXCEPT !.state = "error"]
<1>1. ClientInv(c, server, lagged) /\ lagged \in BOOLEAN /\ c \in ClientType
  BY DEF Inv, ClientInv
<1>2. /\ c.socket = "open" /\ c' = FailPending(r, "time") /\ server' = server /\ lagged' = lagged
  BY DEF StreamError
<1>3. Shut(d, c) /\ d.aborted = c.aborted /\ d \in ClientType
  BY <1>1, <1>2, DestroyedFields DEF Shut
<1> HIDE DEF d
<1>4. Shut(r, c) /\ r.aborted = c.aborted
  BY <1>3 DEF Shut, ClientType, SmtpStates
<1> HIDE DEF r
<1>5. ClientInv(FailPending(r, "time"), server, lagged)
  BY <1>1, <1>2, <1>4, ShutInv
<1> QED BY <1>2, <1>5 DEF Inv

LEMMA ClosedInv == Inv /\ SocketClosed => Inv'
<1> SUFFICES ASSUME Inv, SocketClosed PROVE Inv'
  OBVIOUS
<1> DEFINE r == [c EXCEPT !.socket = "closed", !.state = "closed"]
<1>1. ClientInv(c, server, lagged) /\ lagged \in BOOLEAN /\ c \in ClientType
  BY DEF Inv, ClientInv
<1>2. /\ c.socket # "none" /\ c' = FailPending(r, "lost") /\ server' = server /\ lagged' = lagged
  BY DEF SocketClosed
<1>3. Shut(r, c) /\ r.aborted = c.aborted
  BY <1>1 DEF Shut, ClientType, SmtpStates
<1> HIDE DEF r
<1>4. ClientInv(FailPending(r, "lost"), server, lagged)
  BY <1>1, <1>2, <1>3, ShutInv
<1> QED BY <1>2, <1>4 DEF Inv

LEMMA DestroyInv == Inv /\ Destroy => Inv'
<1> SUFFICES ASSUME Inv, Destroy PROVE Inv'
  OBVIOUS
<1> DEFINE d == Destroyed(c)
           a == IF c.socket = "none" THEN "dialling" ELSE "attached"
           r == [d EXCEPT !.state = "closed", !.aborted = a]
<1>1. /\ ClientInv(c, server, lagged) /\ lagged \in BOOLEAN /\ c \in ClientType
      /\ Stands(c, lagged) /\ (c.socket = "none" => Clean(server))
  BY DEF Inv, ClientInv, Stands
<1>2. c' = r /\ server' = server /\ lagged' = lagged /\ c.aborted = "no"
  BY DEF Destroy
<1>3. /\ d \in ClientType /\ d.socket # "open" /\ d.at = c.at
      /\ c.socket # "none" => d.socket # "none"
      /\ c.socket # "open" => d.socket = c.socket
      /\ d.cfg = c.cfg /\ d.encrypted = c.encrypted /\ d.replies = c.replies /\ d.got = c.got
      /\ d.message = c.message /\ d.mail = c.mail /\ d.queue = c.queue /\ d.asked = c.asked
  BY <1>1, DestroyedFields
<1>4. a \in {"dialling", "attached"} /\ (a = "attached" <=> c.socket # "none")
  OBVIOUS
<1> HIDE DEF d, a
<1>5. /\ r \in ClientType /\ r.socket = d.socket /\ r.at = c.at /\ r.state = "closed"
      /\ r.aborted = a
      /\ r.cfg = c.cfg /\ r.encrypted = c.encrypted /\ r.replies = c.replies /\ r.got = c.got
      /\ r.message = c.message /\ r.mail = c.mail /\ r.queue = c.queue /\ r.asked = c.asked
  BY <1>3, <1>4 DEF ClientType, SmtpStates
<1> HIDE DEF r
<1>6. CASE c.socket # "none"
  <2>1. r.socket \in {"destroyed", "closed"}
    <3>1. r.socket \in {"none", "open", "destroyed", "closed"}
      BY <1>5 DEF ClientType
    <3> QED BY <1>3, <1>5, <1>6, <3>1
  <2>2. Shut(r, c)
    BY <1>5, <2>1 DEF Shut
  <2>3. r.aborted = c.aborted \/ (r.aborted = "attached" /\ r.state = "closed")
    BY <1>4, <1>5, <1>6
  <2>4. Stands(r, lagged)
    BY <1>1, <1>6, <2>2, <2>3, ShutStands
  <2>5. ClientInv(r, server, lagged)
    BY <2>1, <2>4 DEF ClientInv, Stands
  <2> QED BY <1>2, <2>5 DEF Inv
<1>7. CASE c.socket = "none"
  <2>1. r.socket = "none" /\ r.aborted = "dialling"
    BY <1>3, <1>4, <1>5, <1>7
  <2>2. Sound(r) /\ StageSound(r, r.at) /\ (~lagged => MailsSound(r) /\ InHand(r, r.at))
    BY <1>1, <1>5, <1>7, <2>1 DEF Stands, Sound, StageSound, MailsSound, InHand
  <2>3. LiveSound(r)
    <3>1. Live(r) = Live(c)
      BY <1>5 DEF Live
    <3> QED BY <1>1, <1>5, <3>1 DEF Stands, LiveSound
  <2>4. ClientInv(r, server, lagged)
    BY <1>1, <1>5, <1>7, <2>1, <2>2, <2>3 DEF ClientInv
  <2> QED BY <1>2, <2>4 DEF Inv
<1> QED BY <1>6, <1>7

LEMMA ReplyInv == Inv /\ OnReply => Inv'
<1> SUFFICES ASSUME Inv, OnReply PROVE Inv'
  OBVIOUS
<1>1. ClientInv(c, server, lagged) /\ lagged \in BOOLEAN
  BY DEF Inv
<1>2. /\ c.socket = "open" /\ c.replies # <<>> /\ c' = Hears(c)
      /\ server' = server /\ lagged' = lagged
  BY DEF OnReply, Hears, Unread, Unqueued
<1>3. ClientInv(Hears(c), server, lagged)
  BY <1>1, <1>2, HearsInv
<1> QED BY <1>2, <1>3 DEF Inv

LEMMA TimeoutInv == Inv /\ WaitTimesOut => Inv'
<1> SUFFICES ASSUME Inv, WaitTimesOut PROVE Inv'
  OBVIOUS
<1>1. ClientInv(c, server, lagged) /\ lagged \in BOOLEAN /\ c \in ClientType
  BY DEF Inv, ClientInv
<1>2. PICK n \in DOMAIN c.queue :
        /\ c.queue[n].live /\ server' = server
        /\ c' = Resume(IF c.queue[n].verb = "BODY" THEN Deaf(c, n) ELSE Without(c, n),
                       c.queue[n], "time")
        /\ lagged' = (lagged \/ (c.queue[n].verb # "BODY" /\ c.socket = "open"))
  BY DEF WaitTimesOut, Deaf, Without
<1>3. n \in Live(c)
  BY <1>1, <1>2, ListsTyped DEF Live
<1>4. lagged' \in BOOLEAN /\ (lagged' <=> lagged \/ (c.queue[n].verb # "BODY" /\ c.socket = "open"))
  BY <1>1, <1>2
<1>5. ClientInv(Resume(IF c.queue[n].verb = "BODY" THEN Deaf(c, n) ELSE Without(c, n),
                       c.queue[n], "time"), server, lagged')
  BY <1>1, <1>3, <1>4, TimesOutInv
<1> QED BY <1>2, <1>4, <1>5 DEF Inv

-----------------------------------------------------------------------------
(* The calls.                                                              *)

\* A call that awaits no reply, or is over, finds the connection calm.
LEMMA CalmCall ==
  ASSUME NEW k, NEW sv, NEW lg \in BOOLEAN, ClientInv(k, sv, lg), k.at \notin Waiting
  PROVE  /\ k \in ClientType /\ Sound(k) /\ Live(k) = {} /\ (~lg => MailsSound(k))
         /\ StageSound(k, k.at)
         /\ ~lg /\ k.socket = "open" => Quiet(k) /\ Clean(sv)
         /\ k.socket = "none" => Clean(sv)
         /\ k.socket # "none" => Calm(k, sv, lg)
<1>1. /\ k \in ClientType /\ Sound(k) /\ LiveSound(k) /\ (~lg => MailsSound(k))
      /\ StageSound(k, k.at) /\ (k.socket = "none" => Clean(sv))
      /\ ~lg /\ k.socket = "open" => Dialogue(k, sv)
  BY DEF ClientInv
<1>2. Live(k) = {}
  BY <1>1 DEF LiveSound
<1>3. ASSUME ~lg, k.socket = "open" PROVE Quiet(k) /\ Clean(sv)
  <2>1. Matched(k) /\ Queued(k) /\ ServerSound(k, sv)
    BY <1>1, <1>3 DEF Dialogue
  <2>2. k.at \notin {"rcpt", "rcpts", "data", "body", "rset"}
    BY DEF Waiting, Stages
  <2>3. Len(k.queue) = 0
    BY <2>1 DEF Queued
  <2>4. Len(k.replies) = 0 /\ Len(k.asked) = 0
    <3>1. \A x, y \in Nat : x + y = 0 => x = 0 /\ y = 0
      OBVIOUS
    <3>2. Len(k.replies) \in Nat /\ Len(k.asked) \in Nat
      BY <1>1, ListsTyped
    <3>3. Len(k.replies) + Len(k.asked) = 0
      BY <2>1, <2>3 DEF Matched
    <3> QED BY <3>1, <3>2, <3>3
  <2> QED BY <2>1, <2>2, <2>3, <2>4 DEF Quiet, ServerSound
<1>4. k.socket # "none" => Calm(k, sv, lg)
  BY <1>1, <1>2, <1>3 DEF Calm, Resting
<1> QED BY <1>1, <1>2, <1>3, <1>4

LEMMA CalmAt ==
  {"off", "dial", "upgrade", "token"} \cap Waiting = {}
BY DEF Waiting

LEMMA ConnectInv == Inv /\ Connect => Inv'
<1> SUFFICES ASSUME Inv, Connect PROVE Inv'
  OBVIOUS
<1> DEFINE r == [c EXCEPT !.state = "connecting", !.at = "dial"]
<1>1. ClientInv(c, server, lagged) /\ lagged \in BOOLEAN
  BY DEF Inv
<1>2. c.at = "off" /\ c.state = "idle" /\ c' = r /\ server' = server /\ lagged' = lagged
  BY DEF Connect
<1>3. /\ c \in ClientType /\ Sound(c) /\ Live(c) = {} /\ (~lagged => MailsSound(c))
      /\ c.socket = "none" /\ Clean(server)
  <2>1. c.at \notin Waiting
    BY <1>2, CalmAt
  <2> QED BY <1>1, <1>2, <2>1, CalmCall DEF Sound
<1>4. /\ r \in ClientType /\ r.state = "connecting" /\ r.at = "dial" /\ r.socket = "none"
      /\ r.aborted = c.aborted /\ r.cfg = c.cfg /\ r.encrypted = c.encrypted
      /\ r.queue = c.queue /\ r.asked = c.asked /\ r.replies = c.replies
      /\ r.mail = c.mail /\ r.message = c.message
  BY <1>3 DEF ClientType, SmtpStates, Stages
<1> HIDE DEF r
<1>5. Sound(r) /\ StageSound(r, r.at)
  BY <1>3, <1>4 DEF Sound, StageSound, Sending, Secret
<1>6. LiveSound(r)
  BY <1>3, <1>4 DEF LiveSound, Live
<1>7. ~lagged => MailsSound(r) /\ InHand(r, r.at)
  BY <1>3, <1>4 DEF MailsSound, InHand, Sending
<1> QED BY <1>2, <1>3, <1>4, <1>5, <1>6, <1>7 DEF Inv, ClientInv

\* A new stream over a socket: what is left of the session before it is quiet.
LEMMA AttachedFields ==
  ASSUME NEW k \in ClientType, NEW tls \in BOOLEAN
  PROVE  LET r == Attached(k, tls)
         IN  /\ r \in ClientType /\ r.socket = "open" /\ r.encrypted = tls /\ Len(r.replies) = 0
             /\ r.state = k.state /\ r.at = k.at /\ r.cfg = k.cfg /\ r.aborted = k.aborted
             /\ r.queue = k.queue /\ r.asked = k.asked /\ r.mail = k.mail
             /\ r.message = k.message
<1> DEFINE none == << >>
           r == [k EXCEPT !.socket = "open", !.encrypted = tls, !.replies = none]
<1>1. none \in Seq(ReplyType) /\ Len(none) = 0
  OBVIOUS
<1> HIDE DEF none
<1>2. /\ r \in ClientType /\ r.socket = "open" /\ r.encrypted = tls /\ r.replies = none
      /\ r.state = k.state /\ r.at = k.at /\ r.cfg = k.cfg /\ r.aborted = k.aborted
      /\ r.queue = k.queue /\ r.asked = k.asked /\ r.mail = k.mail
      /\ r.message = k.message
  BY <1>1 DEF ClientType
<1> HIDE DEF r
<1>3. Attached(k, tls) = r
  BY DEF Attached, r, none
<1> QED BY <1>1, <1>2, <1>3

LEMMA DialledInv == Inv /\ Dialled => Inv'
<1> SUFFICES ASSUME Inv, Dialled PROVE Inv'
  OBVIOUS
<1> DEFINE a == Attached(c, c.cfg.secure)
           g == [a EXCEPT !.state = "greeting"]
<1>1. ClientInv(c, server, lagged) /\ lagged \in BOOLEAN
  BY DEF Inv
<1>2. c.at = "dial" /\ server' = server /\ lagged' = lagged
      /\ (c' = Await(g, "GREETING", 0, "greeting") \/ c' = Ends(c))
  BY DEF Dialled
<1>3. /\ c \in ClientType /\ Sound(c) /\ Live(c) = {} /\ (~lagged => MailsSound(c))
      /\ StageSound(c, c.at)
      /\ ~lagged /\ c.socket = "open" => Quiet(c) /\ Clean(server)
      /\ c.socket = "none" => Clean(server)
  <2>1. c.at \notin Waiting
    BY <1>2, CalmAt
  <2> QED BY <1>1, <2>1, CalmCall
<1>4. c.socket = "none" /\ Clean(server)
  BY <1>2, <1>3 DEF StageSound
<1>5. ClientInv(Ends(c), server, lagged)
  BY <1>1, <1>3, EndsInv
<1>6. c.queue = <<>> /\ c.asked = <<>> /\ c.aborted # "attached"
  BY <1>3, <1>4 DEF Sound
<1>7. c.cfg.secure \in BOOLEAN
  BY <1>3, Numbers DEF ClientType, Config
<1>8. /\ a \in ClientType /\ a.socket = "open" /\ a.encrypted = c.cfg.secure /\ Len(a.replies) = 0
      /\ a.cfg = c.cfg /\ a.aborted = c.aborted
      /\ a.queue = c.queue /\ a.asked = c.asked /\ a.mail = c.mail
      /\ a.message = c.message
  BY <1>3, <1>7, AttachedFields
<1> HIDE DEF a
<1>9. /\ g \in ClientType /\ g.socket = "open" /\ g.encrypted = g.cfg.secure /\ Len(g.replies) = 0
      /\ g.state = "greeting" /\ g.aborted # "attached"
      /\ g.queue = <<>> /\ g.asked = <<>> /\ g.mail = c.mail /\ g.message = c.message
  BY <1>6, <1>8 DEF ClientType, SmtpStates
<1> HIDE DEF g
<1>10. Len(g.queue) = 0 /\ Len(g.asked) = 0
  BY <1>9
<1>11. Calm(g, server, lagged)
  <2>1. Sound(g) /\ Live(g) = {}
    BY <1>9, <1>10 DEF Sound, Live
  <2>2. ~lagged => MailsSound(g)
    BY <1>3, <1>9 DEF MailsSound
  <2> QED BY <1>4, <1>9, <1>10, <2>1, <2>2 DEF Calm, Resting, Quiet
<1>12. StageSound(g, "greeting") /\ "greeting" \in Waiting \ Sending
  BY <1>9 DEF StageSound, Waiting, Stages, Sending, Secret
<1>13. ClientInv(Await(g, VerbOf("greeting"), 0, "greeting"), server, lagged)
  BY <1>1, <1>11, <1>12, CalmAwait
<1> QED BY <1>2, <1>5, <1>13, VerbTable DEF Inv

LEMMA UpgradedInv == Inv /\ Upgraded => Inv'
<1> SUFFICES ASSUME Inv, Upgraded PROVE Inv'
  OBVIOUS
<1> DEFINE a == Attached(c, TRUE)
           e == [a EXCEPT !.state = "ehlo"]
           d == Destroyed(c)
<1>1. ClientInv(c, server, lagged) /\ lagged \in BOOLEAN
  BY DEF Inv
<1>2. c.at = "upgrade" /\ server' = server /\ lagged' = lagged
      /\ ((c.socket = "open" /\ c' = Await(e, "EHLO", 0, "ehlo_tls")) \/ c' = Ends(d))
  BY DEF Upgraded, Ehlo
<1>3. /\ c \in ClientType /\ Sound(c) /\ Live(c) = {} /\ (~lagged => MailsSound(c))
      /\ StageSound(c, c.at)
      /\ c.socket # "none" => Calm(c, server, lagged)
  <2>1. c.at \notin Waiting
    BY <1>2, CalmAt
  <2> QED BY <1>1, <2>1, CalmCall
<1>4. c.socket # "none" /\ Calm(c, server, lagged)
  BY <1>2, <1>3 DEF StageSound
<1>5. ClientInv(Ends(d), server, lagged)
  <2>1. d \in ClientType /\ d.socket \notin {"open", "none"} /\ Sound(d) /\ Live(d) = {}
        /\ (~lagged => MailsSound(d))
    BY <1>3, <1>4, DestroyedFields, DestroyedSound
  <2> HIDE DEF d
  <2> QED BY <1>1, <2>1, EndsInv
<1>6. CASE c.socket = "open"
  <2>1. /\ a \in ClientType /\ a.socket = "open" /\ a.encrypted = TRUE /\ Len(a.replies) = 0
        /\ a.state = c.state /\ a.cfg = c.cfg /\ a.aborted = c.aborted
        /\ a.queue = c.queue /\ a.asked = c.asked /\ a.mail = c.mail
        /\ a.message = c.message
    BY <1>3, AttachedFields
  <2> HIDE DEF a
  <2>2. Calm(a, server, lagged)
    <3>1. Sound(a)
      BY <1>3, <1>6, <2>1 DEF Sound
    <3>2. Live(a) = {} /\ (~lagged => MailsSound(a))
      BY <1>3, <2>1 DEF Live, MailsSound
    <3>3. ~lagged => Quiet(a) /\ Clean(server)
      BY <1>4, <1>6, <2>1 DEF Calm, Quiet
    <3> QED BY <2>1, <3>1, <3>2, <3>3 DEF Calm, Resting
  <2>3. "ehlo" \in SmtpStates \ {"idle"}
    BY DEF SmtpStates
  <2>4. Calm(e, server, lagged) /\ e.socket = "open" /\ e.encrypted = TRUE /\ e.state = "ehlo"
    BY <1>1, <2>1, <2>2, <2>3, CalmRestated
  <2> HIDE DEF e
  <2>5. StageSound(e, "ehlo_tls") /\ "ehlo_tls" \in Waiting \ Sending
    BY <2>4 DEF StageSound, Waiting, Stages, Sending, Secret
  <2>6. ClientInv(Await(e, VerbOf("ehlo_tls"), 0, "ehlo_tls"), server, lagged)
    BY <1>1, <2>4, <2>5, CalmAwait
  <2> QED BY <1>2, <1>5, <2>6, VerbTable DEF Inv
<1> QED BY <1>2, <1>5, <1>6 DEF Inv

LEMMA TokenFetchedInv == Inv /\ TokenFetched => Inv'
<1> SUFFICES ASSUME Inv, TokenFetched PROVE Inv'
  OBVIOUS
<1>1. ClientInv(c, server, lagged) /\ lagged \in BOOLEAN
  BY DEF Inv
<1>2. c.at = "token" /\ server' = server /\ lagged' = lagged
      /\ (c' = Await(c, "AUTH", 0, "xoauth2") \/ c' = Ends(c))
  BY DEF TokenFetched
<1>3. StageSound(c, c.at) /\ (c.socket # "none" => Calm(c, server, lagged))
  <2>1. c.at \notin Waiting
    BY <1>2, CalmAt
  <2> QED BY <1>1, <2>1, CalmCall
<1>4. c.socket # "none" /\ Calm(c, server, lagged)
  BY <1>2, <1>3 DEF StageSound
<1>5. StageSound(c, "xoauth2") /\ "xoauth2" \in Waiting \ Sending
  BY <1>2, <1>3, <1>4 DEF StageSound, Waiting, Stages, Sending, Secret
<1>6. ClientInv(Await(c, VerbOf("xoauth2"), 0, "xoauth2"), server, lagged)
  BY <1>1, <1>4, <1>5, CalmAwait
<1>7. ClientInv(Ends(c), server, lagged)
  BY <1>1, <1>4, CalmEnds
<1> QED BY <1>2, <1>6, <1>7, VerbTable DEF Inv

\* The next message is taken up: nothing is known of it yet.
LEMMA NextMessage ==
  ASSUME NEW k, NEW sv, NEW lg \in BOOLEAN, Calm(k, sv, lg), k.message < Messages,
         NEW st \in SmtpStates \ {"idle", "ready"}
  PROVE  \A r \in {[k EXCEPT !.message = @ + 1], [k EXCEPT !.state = st, !.message = @ + 1]} :
           /\ Calm(r, sv, lg) /\ r.message = k.message + 1 /\ r.message \in 1..Messages
           /\ r.socket = k.socket
           /\ ~lg => r.mail[r.message] = Unsent
<1> DEFINE p == k.message + 1
<1>1. k \in ClientType /\ Sound(k) /\ Live(k) = {} /\ k.socket # "none" /\ (~lg => MailsSound(k))
  BY DEF Calm, Resting
<1>2. p \in 1..Messages /\ p \in 0..Messages /\ p > k.message /\ k.message \in 0..Messages
  <2>1. k.message \in 0..Messages
    BY <1>1 DEF ClientType
  <2> QED BY <2>1, Numbers
<1>3. ~lg => k.mail[p] = Unsent
  BY <1>1, <1>2 DEF MailsSound
<1>4. ~lg => \A m \in 1..Messages : Told(k.mail[m]) /\ (m > p => k.mail[m] = Unsent)
  <2> SUFFICES ASSUME ~lg, NEW m \in 1..Messages
               PROVE  Told(k.mail[m]) /\ (m > p => k.mail[m] = Unsent)
    OBVIOUS
  <2>1. m > p => m > k.message
    BY <1>2, Numbers
  <2> QED BY <1>1, <2>1 DEF MailsSound
<1> HIDE DEF p
<1>5. ASSUME NEW r \in ClientType, r.message = p, r.socket = k.socket, r.cfg = k.cfg,
             r.encrypted = k.encrypted, r.aborted = k.aborted, r.replies = k.replies,
             r.mail = k.mail, r.queue = k.queue, r.asked = k.asked, r.state \in {k.state, st}
      PROVE  /\ Calm(r, sv, lg) /\ r.message = p /\ r.message \in 1..Messages
             /\ r.socket = k.socket /\ (~lg => r.mail[r.message] = Unsent)
  <2>1. Sound(r) /\ Live(r) = {}
    BY <1>1, <1>5 DEF Sound, Live
  <2>2. ~lg => MailsSound(r)
    BY <1>4, <1>5 DEF MailsSound
  <2>3. ~lg /\ r.socket = "open" => Quiet(r) /\ Clean(sv)
    BY <1>5 DEF Calm, Quiet
  <2> QED BY <1>1, <1>2, <1>3, <1>5, <2>1, <2>2, <2>3 DEF Calm, Resting
<1> DEFINE x == [k EXCEPT !.message = p]
           y == [k EXCEPT !.state = st, !.message = p]
<1>6. /\ x \in ClientType /\ x.message = p /\ x.socket = k.socket /\ x.cfg = k.cfg
      /\ x.encrypted = k.encrypted /\ x.aborted = k.aborted /\ x.replies = k.replies
      /\ x.mail = k.mail /\ x.queue = k.queue /\ x.asked = k.asked /\ x.state = k.state
  BY <1>1, <1>2 DEF ClientType
<1>7. /\ y \in ClientType /\ y.message = p /\ y.socket = k.socket /\ y.cfg = k.cfg
      /\ y.encrypted = k.encrypted /\ y.aborted = k.aborted /\ y.replies = k.replies
      /\ y.mail = k.mail /\ y.queue = k.queue /\ y.asked = k.asked /\ y.state = st
  BY <1>1, <1>2 DEF ClientType
<1> HIDE DEF x, y
<1>8. \A r \in {x, y} : /\ Calm(r, sv, lg) /\ r.message = p /\ r.message \in 1..Messages
                        /\ r.socket = k.socket /\ (~lg => r.mail[r.message] = Unsent)
  BY <1>5, <1>6, <1>7
<1> QED BY <1>8 DEF x, y, p

LEMMA SendInv == Inv /\ Send => Inv'
<1> SUFFICES ASSUME Inv, Send PROVE Inv'
  OBVIOUS
<1> DEFINE r == [c EXCEPT !.state = "sending", !.message = @ + 1]
<1>1. ClientInv(c, server, lagged) /\ lagged \in BOOLEAN
  BY DEF Inv
<1>2. /\ c.at = "off" /\ c.state = "ready" /\ c.message < Messages
      /\ server' = server /\ lagged' = lagged
      /\ c' = Await(r, "MAIL", c.message + 1, "mail")
  BY DEF Send
<1>3. Calm(c, server, lagged)
  <2>1. c.at \notin Waiting
    BY <1>2, CalmAt
  <2>2. Sound(c) /\ (c.socket # "none" => Calm(c, server, lagged))
    BY <1>1, <2>1, CalmCall
  <2> QED BY <1>2, <2>2 DEF Sound
<1>4. "sending" \in SmtpStates \ {"idle", "ready"}
  BY DEF SmtpStates
<1>5. /\ Calm(r, server, lagged) /\ r.message = c.message + 1 /\ r.message \in 1..Messages
      /\ ~lagged => r.mail[r.message] = Unsent
  BY <1>1, <1>2, <1>3, <1>4, NextMessage
<1>6. r.state = "sending"
  BY <1>3 DEF Calm, Resting, ClientType
<1> HIDE DEF r
<1>7. StageSound(r, "mail") /\ "mail" \in Waiting
  BY <1>5, <1>6 DEF StageSound, Secret, Waiting, Stages, Calm, Resting
<1>8. ~lagged => InHand(r, "mail")
  BY <1>5 DEF InHand, Unsent
<1>9. r.message \in 0..(Rcpts + Messages)
  BY <1>5, Numbers
<1>10. ~lagged /\ r.socket = "open" => Quiet(r) /\ Expects(r, server, "mail", r.message)
  BY <1>5 DEF Calm, Expects
<1>11. ClientInv(Await(r, VerbOf("mail"), r.message, "mail"), server, lagged)
  BY <1>1, <1>5, <1>7, <1>8, <1>9, <1>10, AwaitInv DEF Calm
<1> QED BY <1>2, <1>5, <1>11, VerbTable DEF Inv

LEMMA SendRefusedInv == Inv /\ SendRefused => Inv'
<1> SUFFICES ASSUME Inv, SendRefused PROVE Inv'
  OBVIOUS
<1> DEFINE r == [c EXCEPT !.message = @ + 1]
<1>1. ClientInv(c, server, lagged) /\ lagged \in BOOLEAN
  BY DEF Inv
<1>2. /\ c.at = "off" /\ c.state = "ready" /\ c.message < Messages
      /\ server' = server /\ lagged' = lagged /\ c' = Finish(r, "failed", {})
  BY DEF SendRefused
<1>3. Calm(c, server, lagged)
  <2>1. c.at \notin Waiting
    BY <1>2, CalmAt
  <2>2. Sound(c) /\ (c.socket # "none" => Calm(c, server, lagged))
    BY <1>1, <2>1, CalmCall
  <2> QED BY <1>2, <2>2 DEF Sound
<1>4. "sending" \in SmtpStates \ {"idle", "ready"}
  BY DEF SmtpStates
<1>5. /\ Calm(r, server, lagged) /\ r.message \in 1..Messages
      /\ ~lagged => r.mail[r.message] = Unsent
  BY <1>1, <1>2, <1>3, <1>4, NextMessage
<1> HIDE DEF r
<1>6. ~lagged => r.mail[r.message].taken = {}
  BY <1>5 DEF Unsent
<1>7. /\ r \in ClientType /\ Sound(r) /\ Live(r) = {} /\ (~lagged => MailsSound(r))
      /\ r.socket # "none" /\ (~lagged /\ r.socket = "open" => Quiet(r) /\ Clean(server))
  BY <1>5 DEF Calm, Resting
<1>8. ~lagged => /\ MailsSound(r)
                 /\ LET t == r.mail[r.message].taken
                    IN  IF "failed" = "sent" THEN {} = t /\ t # {}
                        ELSE t # {} => r.mail[r.message].cut
  BY <1>6, <1>7
<1>9. ClientInv(Finish(r, "failed", {}), server, lagged)
  BY <1>1, <1>5, <1>7, <1>8, FinishInv
<1> QED BY <1>2, <1>9 DEF Inv

LEMMA VerifyInv == Inv /\ Verify => Inv'
<1> SUFFICES ASSUME Inv, Verify PROVE Inv'
  OBVIOUS
<1> DEFINE r == [c EXCEPT !.probed = TRUE]
<1>1. ClientInv(c, server, lagged) /\ lagged \in BOOLEAN
  BY DEF Inv
<1>2. /\ c.at = "off" /\ c.state = "ready" /\ server' = server /\ lagged' = lagged
      /\ c' = Await(r, "NOOP", 0, "noop")
  BY DEF Verify
<1>3. Calm(c, server, lagged)
  <2>1. c.at \notin Waiting
    BY <1>2, CalmAt
  <2>2. Sound(c) /\ (c.socket # "none" => Calm(c, server, lagged))
    BY <1>1, <2>1, CalmCall
  <2> QED BY <1>2, <2>2 DEF Sound
<1>4. /\ r \in ClientType /\ r.state = c.state /\ r.socket = c.socket /\ r.cfg = c.cfg
      /\ r.encrypted = c.encrypted /\ r.aborted = c.aborted /\ r.replies = c.replies
      /\ r.message = c.message /\ r.mail = c.mail /\ r.queue = c.queue /\ r.asked = c.asked
  BY <1>3 DEF Calm, Resting, ClientType
<1> HIDE DEF r
<1>5. Calm(r, server, lagged)
  BY <1>3, <1>4 DEF Calm, Resting, Sound, Live, MailsSound, Quiet
<1>6. StageSound(r, "noop") /\ "noop" \in Waiting \ Sending
  BY <1>2, <1>3, <1>4 DEF StageSound, Waiting, Stages, Sending, Secret, Calm, Resting
<1>7. ClientInv(Await(r, VerbOf("noop"), 0, "noop"), server, lagged)
  BY <1>1, <1>5, <1>6, CalmAwait
<1> QED BY <1>2, <1>7, VerbTable DEF Inv

LEMMA QuitInv == Inv /\ Quit => Inv'
<1> SUFFICES ASSUME Inv, Quit PROVE Inv'
  OBVIOUS
<1>1. ClientInv(c, server, lagged) /\ lagged \in BOOLEAN
  BY DEF Inv
<1>2. /\ c.at = "off" /\ c.state # "idle" /\ server' = server /\ lagged' = lagged
      /\ c' = IF c.socket = "none" THEN OnQuit(c)
              ELSE Await([c EXCEPT !.state = "quit"], "QUIT", 0, "quit")
  BY DEF Quit
<1>3. /\ c \in ClientType /\ Sound(c) /\ Live(c) = {} /\ (~lagged => MailsSound(c))
      /\ c.socket = "none" => Clean(server)
      /\ c.socket # "none" => Calm(c, server, lagged)
  <2>1. c.at \notin Waiting
    BY <1>2, CalmAt
  <2> QED BY <1>1, <2>1, CalmCall
<1>4. CASE c.socket = "none"
  <2> DEFINE e == [c EXCEPT !.state = "closed"]
  <2>1. c' = Ends(e)
    BY <1>2, <1>4 DEF OnQuit, Destroyed
  <2>2. /\ e \in ClientType /\ e.state = "closed" /\ e.socket = "none" /\ e.cfg = c.cfg
        /\ e.encrypted = c.encrypted /\ e.aborted = c.aborted /\ e.replies = c.replies
        /\ e.message = c.message /\ e.mail = c.mail /\ e.queue = c.queue /\ e.asked = c.asked
    BY <1>3, <1>4 DEF ClientType, SmtpStates
  <2> HIDE DEF e
  <2>3. Sound(e) /\ Live(e) = {} /\ (~lagged => MailsSound(e))
    BY <1>3, <1>4, <2>2 DEF Sound, Live, MailsSound
  <2>4. ClientInv(Ends(e), server, lagged)
    BY <1>1, <1>3, <1>4, <2>2, <2>3, EndsInv
  <2> QED BY <1>2, <2>1, <2>4 DEF Inv
<1>5. CASE c.socket # "none"
  <2> DEFINE q == [c EXCEPT !.state = "quit"]
  <2>1. "quit" \in SmtpStates \ {"idle"}
    BY DEF SmtpStates
  <2>2. Calm(q, server, lagged) /\ q.socket # "none" /\ q.state = "quit"
    BY <1>1, <1>3, <1>5, <2>1, CalmRestated
  <2>3. c' = Await(q, "QUIT", 0, "quit")
    BY <1>2, <1>5
  <2> HIDE DEF q
  <2>4. StageSound(q, "quit") /\ "quit" \in Waiting \ Sending
    BY <2>2 DEF StageSound, Waiting, Stages, Sending, Secret
  <2>5. ClientInv(Await(q, VerbOf("quit"), 0, "quit"), server, lagged)
    BY <1>1, <2>2, <2>4, CalmAwait
  <2> QED BY <1>2, <2>3, <2>5, VerbTable DEF Inv
<1> QED BY <1>4, <1>5

-----------------------------------------------------------------------------
(* The server answers.                                                     *)

Unasked(k) == [k EXCEPT !.asked = Tail(@)]

\* The oldest command is answered with the code, for the recipients R.
Replied(k, code, R) ==
  LET a == Head(k.asked)
  IN  [Unasked(k) EXCEPT
         !.replies = Append(@, [verb |-> a.verb, arg |-> a.arg, code |-> code]),
         !.mail = IF a.verb = "BODY" /\ code = "ok" THEN [@ EXCEPT ![a.arg].taken = R] ELSE @]

LEMMA UnaskedFields ==
  ASSUME NEW k \in ClientType, k.asked # <<>>
  PROVE  LET r == Unasked(k)
         IN  /\ r \in ClientType /\ r.at = k.at /\ r.state = k.state /\ r.cfg = k.cfg
             /\ r.socket = k.socket /\ r.encrypted = k.encrypted /\ r.aborted = k.aborted
             /\ r.replies = k.replies /\ r.got = k.got /\ r.message = k.message
             /\ r.mail = k.mail /\ r.queue = k.queue /\ r.asked = Tail(k.asked)
<1> DEFINE t == Tail(k.asked)
           r == [k EXCEPT !.asked = t]
<1>1. t \in Seq(Command)
  BY ListsTyped, Popped
<1> HIDE DEF t
<1>2. /\ r \in ClientType /\ r.at = k.at /\ r.state = k.state /\ r.cfg = k.cfg
      /\ r.socket = k.socket /\ r.encrypted = k.encrypted /\ r.aborted = k.aborted
      /\ r.replies = k.replies /\ r.got = k.got /\ r.message = k.message
      /\ r.mail = k.mail /\ r.queue = k.queue /\ r.asked = t
  BY <1>1 DEF ClientType
<1> QED BY <1>2 DEF Unasked, t

\* r is k with its command a answered with the code, for the recipients R.
RepliedIs(r, k, a, code, R) ==
  /\ r \in ClientType /\ r.at = k.at /\ r.state = k.state /\ r.cfg = k.cfg
  /\ r.socket = k.socket /\ r.encrypted = k.encrypted /\ r.aborted = k.aborted
  /\ r.got = k.got /\ r.message = k.message /\ r.queue = k.queue
  /\ r.asked = Tail(k.asked)
  /\ r.replies = Append(k.replies, [verb |-> a.verb, arg |-> a.arg, code |-> code])
  /\ \A m \in 1..Messages :
       /\ r.mail[m].result = k.mail[m].result /\ r.mail[m].cut = k.mail[m].cut
       /\ r.mail[m].taken = IF a.verb = "BODY" /\ code = "ok" /\ a.arg = m THEN R
                           ELSE k.mail[m].taken
       /\ ~(a.verb = "BODY" /\ code = "ok" /\ a.arg = m) => r.mail[m] = k.mail[m]

LEMMA RepliedFields ==
  ASSUME NEW k \in ClientType, k.asked # <<>>, NEW code \in Codes, NEW R \in SUBSET (1..Rcpts)
  PROVE  RepliedIs(Replied(k, code, R), k, k.asked[1], code, R)
<1> DEFINE a == k.asked[1]
           u == Unasked(k)
           reply == [verb |-> a.verb, arg |-> a.arg, code |-> code]
           replies == Append(k.replies, reply)
           taken == a.verb = "BODY" /\ code = "ok"
           mail == IF taken THEN [k.mail EXCEPT ![a.arg].taken = R] ELSE k.mail
           r == [u EXCEPT !.replies = replies, !.mail = mail]
<1>1. a \in Command /\ Head(k.asked) = a /\ k.replies \in Seq(ReplyType)
  BY ListsTyped, Popped
<1>2. /\ u \in ClientType /\ u.at = k.at /\ u.state = k.state /\ u.cfg = k.cfg
      /\ u.socket = k.socket /\ u.encrypted = k.encrypted /\ u.aborted = k.aborted
      /\ u.replies = k.replies /\ u.got = k.got /\ u.message = k.message
      /\ u.mail = k.mail /\ u.queue = k.queue /\ u.asked = Tail(k.asked)
  BY UnaskedFields
<1>3. replies \in Seq(ReplyType)
  <2>1. reply \in ReplyType
    BY <1>1 DEF Command, ReplyType
  <2> HIDE DEF reply
  <2> QED BY <1>1, <2>1, Appended
<1>4. k.mail \in [1..Messages -> Outcome] /\ \A m \in 1..Messages : k.mail[m] \in Outcome
  BY DEF ClientType
<1>5. /\ mail \in [1..Messages -> Outcome]
      /\ \A m \in 1..Messages : mail[m] = IF taken /\ a.arg = m THEN [k.mail[m] EXCEPT !.taken = R]
                                         ELSE k.mail[m]
  <2>1. \A m \in 1..Messages : [k.mail[m] EXCEPT !.taken = R] \in Outcome
    BY <1>4 DEF Outcome
  <2> HIDE DEF a, taken
  <2>2. mail = [m \in 1..Messages |-> IF taken /\ a.arg = m THEN [k.mail[m] EXCEPT !.taken = R]
                                      ELSE k.mail[m]]
    BY <1>4
  <2> HIDE DEF mail
  <2> QED BY <1>4, <2>1, <2>2
<1>6. Replied(k, code, R) = r
  BY <1>1, <1>2 DEF Replied
<1> HIDE DEF u, replies, taken, mail
<1>7. /\ r \in ClientType /\ r.at = u.at /\ r.state = u.state /\ r.cfg = u.cfg
      /\ r.socket = u.socket /\ r.encrypted = u.encrypted /\ r.aborted = u.aborted
      /\ r.replies = replies /\ r.got = u.got /\ r.message = u.message
      /\ r.mail = mail /\ r.queue = u.queue /\ r.asked = u.asked
  BY <1>2, <1>3, <1>5 DEF ClientType
<1> HIDE DEF r
<1>8. ASSUME NEW m \in 1..Messages
      PROVE  /\ mail[m].result = k.mail[m].result /\ mail[m].cut = k.mail[m].cut
             /\ mail[m].taken = IF taken /\ a.arg = m THEN R ELSE k.mail[m].taken
             /\ ~(taken /\ a.arg = m) => mail[m] = k.mail[m]
  <2>1. k.mail[m] \in Outcome
    BY <1>4
  <2> QED BY <1>5, <2>1 DEF Outcome
<1>9. RepliedIs(r, k, a, code, R)
  BY <1>2, <1>7, <1>8 DEF RepliedIs, replies, reply, taken
<1> QED BY <1>6, <1>9

\* What the command at the head leaves of the client, whatever the server does.
LEMMA UnaskedStands ==
  ASSUME NEW k, NEW lg \in BOOLEAN, Stands(k, lg), k.asked # <<>>
  PROVE  Stands(Unasked(k), lg)
<1> DEFINE r == Unasked(k)
<1>1. k \in ClientType /\ Sound(k) /\ StageSound(k, k.at) /\ LiveSound(k)
      /\ (~lg => MailsSound(k) /\ InHand(k, k.at))
  BY DEF Stands
<1>2. /\ r \in ClientType /\ r.at = k.at /\ r.state = k.state /\ r.cfg = k.cfg
      /\ r.socket = k.socket /\ r.encrypted = k.encrypted /\ r.aborted = k.aborted
      /\ r.replies = k.replies /\ r.got = k.got /\ r.message = k.message
      /\ r.mail = k.mail /\ r.queue = k.queue /\ r.asked = Tail(k.asked)
  BY <1>1, UnaskedFields
<1> HIDE DEF r
<1>3. \A n \in 1..Len(r.asked) : r.asked[n] = k.asked[n + 1] /\ n + 1 \in 1..Len(k.asked)
  BY <1>1, <1>2, ListsTyped, Popped
<1>4. k.socket # "none"
  BY <1>1 DEF Sound
<1>5. Sound(r)
  BY <1>1, <1>2, <1>3, <1>4 DEF Sound
<1>6. LiveSound(r)
  <2>1. Live(r) = Live(k)
    BY <1>2 DEF Live
  <2> QED BY <1>1, <1>2, <2>1 DEF LiveSound
<1>7. StageSound(r, r.at) /\ (~lg => MailsSound(r) /\ InHand(r, r.at))
  BY <1>1, <1>2 DEF StageSound, MailsSound, InHand
<1> QED BY <1>2, <1>5, <1>6, <1>7 DEF Stands, r

LEMMA Share ==
  \A q \in Nat, r \in Nat, m \in Nat \ {0} : q = r + m =>
    /\ r + 1 \in 1..q /\ q # 0 /\ (q = 1 => r = 0 /\ m = 1)
    /\ q = 2 => (r = 0 /\ m = 2) \/ (r = 1 /\ m = 1)
OBVIOUS

\* While no wait was given up before its reply, the oldest command still to be
\* answered is the one of the stage, or the message body the call gave up.
LEMMA Oldest ==
  ASSUME NEW k \in ClientType, NEW sv, LiveSound(k), Dialogue(k, sv), k.asked # <<>>
  PROVE  LET a == k.asked[1]
         IN  /\ k.at \in Waiting
             /\ a.verb = VerbOf(k.at) \/ (k.at = "rset" /\ a.verb = "BODY")
             /\ k.at \notin {"rcpts", "rset"} => Len(k.asked) = 1 /\ Len(k.replies) = 0
             /\ a.verb = "BODY" => /\ k.at \in {"body", "rset"} /\ a.arg = k.message
                                   /\ k.at = "rset" => k.mail[k.message].cut
             /\ k.at = "rset" /\ Len(k.asked) = 2 => a.verb = "BODY"
<1> DEFINE a == k.asked[1]
           q == Len(k.queue)
           r == Len(k.replies)
           w == k.queue[r + 1]
<1>1. q \in Nat /\ r \in Nat /\ Len(k.asked) \in Nat \ {0}
  BY ListsTyped
<1>2. q = r + Len(k.asked) /\ a.verb = w.verb /\ a.arg = w.arg
  <2>1. 1 \in 1..Len(k.asked)
    BY <1>1
  <2> QED BY <2>1 DEF Dialogue, Matched
<1>3. r + 1 \in 1..q /\ q # 0 /\ (q = 1 => r = 0 /\ Len(k.asked) = 1)
      /\ (q = 2 => (r = 0 /\ Len(k.asked) = 2) \/ (r = 1 /\ Len(k.asked) = 1))
  <2> HIDE DEF q, r, w, a
  <2>1. q = r + Len(k.asked)
    BY <1>2
  <2> QED BY <1>1, <2>1, Share
<1>4. /\ k.at \notin Waiting => q = 0
      /\ k.at \in Waiting \ {"rcpts", "rset"} =>
           q = 1 /\ k.queue[1].live /\ (k.at = "body" => k.queue[1].arg = k.message)
      /\ k.at = "rcpts" => Live(k) = 1..q
      /\ k.at = "rset" => \/ q = 1 /\ k.queue[1].live
                          \/ q = 2 /\ k.queue[2].live /\ CutBody(k, k.queue[1])
  BY DEF Dialogue, Queued
<1>5. r + 1 \in Live(k) => w.verb = VerbOf(k.at)
  BY DEF LiveSound
<1> HIDE DEF q, w, r, a
<1>6. k.at \in Waiting
  BY <1>3, <1>4
<1>7. w.live => w.verb = VerbOf(k.at)
  BY <1>3, <1>5 DEF Live, q, w
<1>8. CASE k.at \notin {"rcpts", "rset"}
  <2>1. q = 1 /\ k.queue[1].live /\ (k.at = "body" => k.queue[1].arg = k.message)
    BY <1>4, <1>6, <1>8
  <2>2. r = 0 /\ Len(k.asked) = 1 /\ w = k.queue[1]
    BY <1>3, <2>1 DEF w
  <2>3. w.verb = VerbOf(k.at) /\ a.verb = VerbOf(k.at)
    BY <1>2, <1>7, <2>1, <2>2
  <2>4. a.verb = "BODY" => k.at = "body"
    BY <1>6, <2>3, VerbsOf
  <2> QED BY <1>2, <1>6, <1>8, <2>1, <2>2, <2>3, <2>4 DEF a, r
<1>9. CASE k.at = "rcpts"
  <2>1. r + 1 \in Live(k)
    BY <1>3, <1>4, <1>9
  <2>2. a.verb = VerbOf(k.at) /\ VerbOf(k.at) = "RCPT"
    BY <1>2, <1>5, <1>9, <2>1, VerbTable
  <2> QED BY <1>6, <1>9, <2>2 DEF a
<1>10. CASE k.at = "rset"
  <2>1. VerbOf(k.at) = "RSET"
    BY <1>10, VerbTable
  <2>2. CASE q = 1 /\ k.queue[1].live
    <3>1. r = 0 /\ Len(k.asked) = 1 /\ w = k.queue[1]
      BY <1>3, <2>2 DEF w
    <3>2. a.verb = "RSET"
      BY <1>2, <1>7, <2>1, <2>2, <3>1
    <3> QED BY <1>6, <1>10, <2>1, <3>1, <3>2 DEF a
  <2>3. CASE q = 2 /\ k.queue[2].live /\ CutBody(k, k.queue[1])
    <3>1. CASE r = 0 /\ Len(k.asked) = 2
      <4>1. w = k.queue[1]
        BY <3>1 DEF w
      <4>2. a.verb = "BODY" /\ a.arg = k.message /\ k.mail[k.message].cut
        BY <1>2, <2>3, <4>1 DEF CutBody
      <4> QED BY <1>6, <1>10, <4>2 DEF a
    <3>2. CASE r = 1 /\ Len(k.asked) = 1
      <4>1. w = k.queue[2]
        BY <3>2 DEF w
      <4>2. a.verb = "RSET"
        BY <1>2, <1>7, <2>1, <2>3, <4>1
      <4> QED BY <1>6, <1>10, <2>1, <3>2, <4>2 DEF a
    <3> QED BY <1>3, <2>3, <3>1, <3>2
  <2> QED BY <1>4, <1>10, <2>2, <2>3
<1> QED BY <1>8, <1>9, <1>10

\* A server that waits for the body reads the body next.
LEMMA BodyNext ==
  ASSUME NEW k \in ClientType, NEW sv, LiveSound(k), Dialogue(k, sv), k.asked # <<>>, sv.data
  PROVE  k.asked[1].verb = "BODY"
<1>1. /\ k.at \in Waiting
      /\ k.asked[1].verb = VerbOf(k.at) \/ (k.at = "rset" /\ k.asked[1].verb = "BODY")
      /\ k.at \notin {"rcpts", "rset"} => Len(k.asked) = 1 /\ Len(k.replies) = 0
      /\ k.at = "rset" /\ Len(k.asked) = 2 => k.asked[1].verb = "BODY"
  BY Oldest
<1>2. k.at \in {"body", "rset"}
  BY <1>1 DEF Dialogue, ServerSound, Clean, Recipients
<1>3. k.at = "rset" => Len(k.asked) = 2
  BY DEF Dialogue, ServerSound
<1> QED BY <1>1, <1>2, <1>3, VerbTable

\* The codes of the server, and what it knows afterwards.
LEMMA AnswerCodes ==
  ASSUME NEW a \in Command, server \in ServerType, NEW code \in Answers(a),
         a.verb = "RCPT" => a.arg \in 1..Rcpts
  PROVE  /\ code \in Codes /\ Code(a.verb, code)
         /\ a.verb = "BODY" /\ code = "ok" => server.data
         /\ Session(a, code) \in ServerType
         /\ a.verb \in {"MAIL", "RSET", "BODY"} => Clean(Session(a, code))
         /\ a.verb = "RCPT" => /\ Session(a, code).data = server.data
                               /\ Session(a, code).rcpts =
                                    server.rcpts \cup (IF code = "ok" THEN {a.arg} ELSE {})
         /\ a.verb = "DATA" => /\ Session(a, code).rcpts = server.rcpts
                               /\ Session(a, code).data = (server.data \/ code = "more")
         /\ a.verb \notin {"MAIL", "RSET", "BODY", "RCPT", "DATA"} => Session(a, code) = server
<1>1. a.verb \in Verbs /\ server.rcpts \in SUBSET (1..Rcpts) /\ server.data \in BOOLEAN
  BY DEF Command, ServerType
<1>2. code \in Codes /\ Code(a.verb, code) /\ (a.verb = "BODY" /\ code = "ok" => server.data)
  BY <1>1 DEF Answers, Codes, Code, Verbs
<1>3. CASE a.verb \in {"MAIL", "RSET", "BODY"}
  <2>1. Session(a, code) = [rcpts |-> {}, data |-> FALSE]
    BY <1>3 DEF Session
  <2>2. Session(a, code) \in ServerType
    BY <2>1 DEF ServerType
  <2>3. Clean(Session(a, code))
    BY <2>1 DEF Clean
  <2> QED BY <1>2, <1>3, <2>2, <2>3
<1>4. CASE a.verb = "RCPT" /\ code = "ok"
  <2>1. Session(a, code) = [server EXCEPT !.rcpts = @ \cup {a.arg}]
    BY <1>4 DEF Session
  <2>2. server.rcpts \cup {a.arg} \in SUBSET (1..Rcpts)
    BY <1>1, <1>4
  <2> QED BY <1>2, <1>4, <2>1, <2>2 DEF ServerType
<1>5. CASE a.verb = "DATA" /\ code = "more"
  <2>1. Session(a, code) = [server EXCEPT !.data = TRUE]
    BY <1>5 DEF Session
  <2>2. /\ Session(a, code) \in ServerType /\ Session(a, code).data
        /\ Session(a, code).rcpts = server.rcpts
    BY <1>1, <2>1 DEF ServerType
  <2>3. Session(a, code).data = (server.data \/ code = "more")
    BY <1>1, <1>5, <2>2 DEF ServerType
  <2> QED BY <1>2, <1>5, <2>2, <2>3
<1>6. CASE /\ a.verb \notin {"MAIL", "RSET", "BODY"} /\ ~(a.verb = "RCPT" /\ code = "ok")
           /\ ~(a.verb = "DATA" /\ code = "more")
  <2>1. Session(a, code) = server
    BY <1>6 DEF Session
  <2> QED BY <1>1, <1>2, <1>6, <2>1
<1> QED BY <1>3, <1>4, <1>5, <1>6

\* The server answers the oldest command.
LEMMA AnsweredStands ==
  ASSUME NEW k, NEW lg \in BOOLEAN, Stands(k, lg), k.asked # <<>>,
         NEW code \in Codes, NEW R \in SUBSET (1..Rcpts),
         ~lg /\ k.asked[1].verb = "BODY" =>
           /\ k.at \in {"body", "rset"} /\ k.asked[1].arg = k.message
           /\ k.at = "rset" => k.mail[k.message].cut
  PROVE  Stands(Replied(k, code, R), lg)
<1> DEFINE r == Replied(k, code, R)
           a == k.asked[1]
<1>1. k \in ClientType /\ Sound(k) /\ StageSound(k, k.at) /\ LiveSound(k)
      /\ (~lg => MailsSound(k) /\ InHand(k, k.at))
  BY DEF Stands
<1>2. /\ r \in ClientType /\ r.at = k.at /\ r.state = k.state /\ r.cfg = k.cfg
      /\ r.socket = k.socket /\ r.encrypted = k.encrypted /\ r.aborted = k.aborted
      /\ r.got = k.got /\ r.message = k.message /\ r.queue = k.queue
      /\ r.asked = Tail(k.asked)
      /\ \A m \in 1..Messages :
           /\ r.mail[m].result = k.mail[m].result /\ r.mail[m].cut = k.mail[m].cut
           /\ r.mail[m].taken = IF a.verb = "BODY" /\ code = "ok" /\ a.arg = m THEN R
                               ELSE k.mail[m].taken
           /\ ~(a.verb = "BODY" /\ code = "ok" /\ a.arg = m) => r.mail[m] = k.mail[m]
  <2>1. RepliedIs(r, k, a, code, R)
    BY <1>1, RepliedFields
  <2> HIDE DEF r, a
  <2> QED BY <2>1 DEF RepliedIs
<1> HIDE DEF r
<1>3. \A n \in 1..Len(r.asked) : r.asked[n] = k.asked[n + 1] /\ n + 1 \in 1..Len(k.asked)
  BY <1>1, <1>2, ListsTyped, Popped
<1>4. k.socket # "none"
  BY <1>1 DEF Sound
<1>5. Sound(r)
  BY <1>1, <1>2, <1>3, <1>4 DEF Sound
<1>6. LiveSound(r)
  <2>1. Live(r) = Live(k)
    BY <1>2 DEF Live
  <2> QED BY <1>1, <1>2, <2>1 DEF LiveSound
<1>7. StageSound(r, r.at)
  BY <1>1, <1>2 DEF StageSound
<1>8. ASSUME ~lg PROVE MailsSound(r) /\ InHand(r, r.at)
  <2>1. k.at \in Sending => k.message \in 1..Messages /\ k.mail[k.message].result = "none"
    BY <1>1, <1>8 DEF StageSound, InHand
  <2>2. ASSUME NEW m \in 1..Messages
        PROVE  Told(r.mail[m]) /\ (m > r.message => r.mail[m] = Unsent)
    <3>1. CASE a.verb = "BODY" /\ code = "ok" /\ a.arg = m
      <4>1. m = k.message /\ k.mail[m].result = "none" /\ k.message \in Nat
        BY <1>8, <2>1, <3>1, Numbers DEF Sending, a
      <4>2. r.mail[m].result = "none" /\ ~(m > r.message)
        BY <1>2, <4>1
      <4> QED BY <4>2 DEF Told
    <3>2. CASE ~(a.verb = "BODY" /\ code = "ok" /\ a.arg = m)
      <4>1. r.mail[m] = k.mail[m] /\ r.message = k.message
        BY <1>2, <3>2
      <4> QED BY <1>1, <1>8, <4>1 DEF MailsSound
    <3> QED BY <3>1, <3>2
  <2>3. MailsSound(r)
    BY <2>2 DEF MailsSound
  <2>4. InHand(r, r.at)
    <3>1. CASE k.at \notin Sending
      BY <1>2, <3>1 DEF InHand, Sending
    <3>2. CASE k.at \in Sending
      <4>1. /\ r.mail[k.message].result = "none"
            /\ r.mail[k.message].cut = k.mail[k.message].cut
            /\ a.verb # "BODY" => r.mail[k.message] = k.mail[k.message]
        BY <1>2, <2>1, <3>2
      <4>2. CASE a.verb # "BODY"
        BY <1>1, <1>2, <1>8, <4>1, <4>2 DEF InHand
      <4>3. CASE a.verb = "BODY"
        BY <1>2, <1>8, <4>1, <4>3 DEF InHand, a
      <4> QED BY <4>2, <4>3
    <3> QED BY <3>1, <3>2
  <2> QED BY <2>3, <2>4
<1>9. Stands(r, lg)
  BY <1>2, <1>5, <1>6, <1>7, <1>8 DEF Stands
<1> QED BY <1>9 DEF r

LEMMA Moved ==
  \A r \in Nat, a \in Nat \ {0} :
    /\ r + a = (r + 1) + (a - 1) /\ r + 1 \in Nat /\ a - 1 \in Nat
    /\ \A n \in 1..(r + 1) : n \in 1..r \/ n = r + 1
    /\ \A n \in 1..(a - 1) : n + 1 \in 1..a /\ (r + 1) + n = r + (n + 1)
OBVIOUS

\* The answer takes the place its command had.
LEMMA AnsweredMatched ==
  ASSUME NEW k \in ClientType, k.asked # <<>>, NEW code \in Codes, NEW R \in SUBSET (1..Rcpts),
         Matched(k), RepliesSound(k), Code(k.asked[1].verb, code)
  PROVE  LET r == Replied(k, code, R)
         IN  /\ Matched(r) /\ RepliesSound(r)
             /\ Len(r.asked) = Len(k.asked) - 1 /\ Len(r.replies) = Len(k.replies) + 1
             /\ \A n \in 1..Len(k.replies) : r.replies[n] = k.replies[n]
             /\ r.replies[Len(k.replies) + 1] =
                  [verb |-> k.asked[1].verb, arg |-> k.asked[1].arg, code |-> code]
<1> DEFINE r == Replied(k, code, R)
           a == k.asked[1]
           reply == [verb |-> a.verb, arg |-> a.arg, code |-> code]
           l == Len(k.replies)
           j == Len(k.asked)
<1>1. RepliedIs(r, k, a, code, R)
  BY RepliedFields
<1> HIDE DEF r
<1>2. r \in ClientType /\ r.asked = Tail(k.asked) /\ r.replies = Append(k.replies, reply)
      /\ r.queue = k.queue
  BY <1>1 DEF RepliedIs
<1>3. /\ Len(r.asked) = j - 1 /\ j \in Nat \ {0}
      /\ \A n \in 1..Len(r.asked) : r.asked[n] = k.asked[n + 1] /\ n + 1 \in 1..Len(k.asked)
      /\ a \in Command
  <2>1. k.asked \in Seq(Command)
    BY ListsTyped
  <2> QED BY <1>2, <2>1, Popped
<1>4. /\ l \in Nat /\ Len(r.replies) = l + 1 /\ r.replies[l + 1] = reply
      /\ \A n \in 1..l : r.replies[n] = k.replies[n]
  <2>1. reply \in ReplyType
    BY <1>3 DEF Command, ReplyType
  <2>2. k.replies \in Seq(ReplyType)
    BY ListsTyped
  <2> HIDE DEF reply
  <2> QED BY <1>2, <2>1, <2>2, Appended
<1>5. reply.verb = a.verb /\ reply.arg = a.arg /\ reply.code = code
  OBVIOUS
<1>6. Len(k.queue) = l + j /\ a.verb = k.queue[l + 1].verb /\ a.arg = k.queue[l + 1].arg
  <2>1. 1 \in 1..j
    BY <1>3
  <2> QED BY <2>1 DEF Matched
<1> HIDE DEF l, j, reply
<1>7. /\ l + j = (l + 1) + (j - 1)
      /\ \A n \in 1..(l + 1) : n \in 1..l \/ n = l + 1
      /\ \A n \in 1..(j - 1) : n + 1 \in 1..j /\ (l + 1) + n = l + (n + 1)
  BY <1>3, <1>4, Moved
<1>8. Len(r.queue) = Len(r.replies) + Len(r.asked)
  BY <1>2, <1>3, <1>4, <1>6, <1>7
<1>9. ASSUME NEW n \in 1..Len(r.replies)
      PROVE  /\ r.replies[n].verb = r.queue[n].verb /\ r.replies[n].arg = r.queue[n].arg
             /\ Code(r.replies[n].verb, r.replies[n].code)
  <2>1. CASE n \in 1..l
    <3>1. r.replies[n] = k.replies[n] /\ n \in 1..Len(k.replies)
      BY <1>4, <2>1 DEF l
    <3> QED BY <1>2, <3>1 DEF Matched, RepliesSound
  <2>2. CASE n = l + 1
    <3>1. r.replies[n] = reply
      BY <1>4, <2>2
    <3> QED BY <1>2, <1>5, <1>6, <2>2, <3>1
  <2>3. n \in 1..(l + 1)
    BY <1>4
  <2> QED BY <1>7, <2>1, <2>2, <2>3
<1>10. ASSUME NEW n \in 1..Len(r.asked)
       PROVE  /\ r.asked[n].verb = r.queue[Len(r.replies) + n].verb
              /\ r.asked[n].arg = r.queue[Len(r.replies) + n].arg
  <2>1. n + 1 \in 1..j /\ (l + 1) + n = l + (n + 1)
    BY <1>3, <1>7
  <2>2. r.asked[n] = k.asked[n + 1] /\ r.queue[Len(r.replies) + n] = k.queue[l + (n + 1)]
    BY <1>2, <1>3, <1>4, <2>1
  <2>3. k.asked[n + 1].verb = k.queue[l + (n + 1)].verb /\ k.asked[n + 1].arg = k.queue[l + (n + 1)].arg
    BY <2>1 DEF Matched, l, j
  <2> QED BY <2>2, <2>3
<1>11. Matched(r) /\ RepliesSound(r)
  BY <1>8, <1>9, <1>10 DEF Matched, RepliesSound
<1> QED BY <1>3, <1>4, <1>11 DEF r, reply, l, j, a

\* The recipients granted in the replies on their way, and one more reply.
LEMMA GrantedMore ==
  ASSUME NEW k \in ClientType, NEW r \in ClientType, NEW code \in Codes, NEW arg,
         Len(r.replies) = Len(k.replies) + 1,
         \A n \in 1..Len(k.replies) : r.replies[n] = k.replies[n],
         r.replies[Len(k.replies) + 1].arg = arg, r.replies[Len(k.replies) + 1].code = code
  PROVE  Granted(r) = Granted(k) \cup (IF code = "ok" THEN {arg} ELSE {})
<1> DEFINE l == Len(k.replies)
<1>1. l \in Nat
  BY ListsTyped
<1> HIDE DEF l
<1>2. /\ \A n \in 1..(l + 1) : n \in 1..l \/ n = l + 1
      /\ \A n \in 1..l : n \in 1..(l + 1)
      /\ l + 1 \in 1..(l + 1)
  BY <1>1
<1>3. ASSUME NEW i \in Granted(r) PROVE i \in Granted(k) \cup (IF code = "ok" THEN {arg} ELSE {})
  <2>1. PICK n \in 1..(l + 1) : r.replies[n].code = "ok" /\ r.replies[n].arg = i
    BY <1>3 DEF Granted, l
  <2>2. CASE n \in 1..l
    <3>1. k.replies[n].code = "ok" /\ k.replies[n].arg = i
      BY <2>1, <2>2 DEF l
    <3> QED BY <2>2, <3>1 DEF Granted, l
  <2>3. CASE n = l + 1
    BY <2>1, <2>3 DEF l
  <2> QED BY <1>2, <2>2, <2>3
<1>4. ASSUME NEW i \in Granted(k) PROVE i \in Granted(r)
  <2>1. PICK n \in 1..l : k.replies[n].code = "ok" /\ k.replies[n].arg = i
    BY <1>4 DEF Granted, l
  <2>2. n \in 1..(l + 1) /\ r.replies[n].code = "ok" /\ r.replies[n].arg = i
    BY <1>2, <2>1 DEF l
  <2> QED BY <2>2 DEF Granted, l
<1>5. code = "ok" => arg \in Granted(r)
  <2>1. l + 1 \in 1..Len(r.replies)
    BY <1>2 DEF l
  <2> QED BY <2>1 DEF Granted, l
<1> QED BY <1>3, <1>4, <1>5

\* What the server knows after its answer, seen from the stage of the call.
LEMMA AnsweredServer ==
  ASSUME NEW k \in ClientType, Sound(k), LiveSound(k), StageSound(k, k.at), InHand(k, k.at),
         k.asked # <<>>, Dialogue(k, server), server \in ServerType,
         NEW code \in Answers(k.asked[1])
  PROVE  ServerSound(Replied(k, code, server.rcpts), Session(k.asked[1], code))
<1> DEFINE R == server.rcpts
           r == Replied(k, code, R)
           a == k.asked[1]
           s == Session(a, code)
           l == Len(k.replies)
<1> SUFFICES ServerSound(r, s)
  OBVIOUS
<1>1. /\ a \in Command /\ (a.verb = "RCPT" => a.arg \in 1..Rcpts) /\ R \in SUBSET (1..Rcpts)
      /\ Len(k.asked) \in Nat \ {0} /\ l \in Nat
  <2>1. a \in Command /\ Len(k.asked) \in Nat \ {0} /\ l \in Nat
    BY ListsTyped, Popped
  <2>2. 1 \in 1..Len(k.asked)
    BY <2>1
  <2> QED BY <2>1, <2>2 DEF Sound, ServerType
<1>2. /\ code \in Codes /\ Code(a.verb, code) /\ (a.verb = "BODY" /\ code = "ok" => server.data)
      /\ a.verb \in {"MAIL", "RSET", "BODY"} => Clean(s)
      /\ a.verb = "RCPT" => s.data = server.data
                            /\ s.rcpts = R \cup (IF code = "ok" THEN {a.arg} ELSE {})
      /\ a.verb = "DATA" => s.rcpts = R /\ s.data = (server.data \/ code = "more")
      /\ a.verb \notin {"MAIL", "RSET", "BODY", "RCPT", "DATA"} => s = server
  BY <1>1, AnswerCodes
<1>3. /\ k.at \in Waiting
      /\ a.verb = VerbOf(k.at) \/ (k.at = "rset" /\ a.verb = "BODY")
      /\ k.at \notin {"rcpts", "rset"} => Len(k.asked) = 1 /\ l = 0
  BY Oldest
<1>4. RepliedIs(r, k, a, code, R)
  BY <1>1, <1>2, RepliedFields
<1>5. /\ Len(r.asked) = Len(k.asked) - 1 /\ Len(r.replies) = l + 1
      /\ \A n \in 1..l : r.replies[n] = k.replies[n]
      /\ r.replies[l + 1] = [verb |-> a.verb, arg |-> a.arg, code |-> code]
  <2>1. Matched(k) /\ RepliesSound(k)
    BY DEF Dialogue
  <2> QED BY <1>1, <1>2, <2>1, AnsweredMatched
<1> HIDE DEF r, s
<1>6. r \in ClientType /\ r.at = k.at /\ r.got = k.got /\ r.message = k.message
  BY <1>4 DEF RepliedIs
<1>7. Accepted(r) = Accepted(k)
  BY <1>6 DEF Accepted
<1>8. ServerSound(k, server)
  BY DEF Dialogue
<1> HIDE DEF R, a, l
<1>9. CASE k.at \in Recipients
  <2>1. a.verb = "RCPT"
    BY <1>3, <1>9, VerbTable DEF Recipients
  <2>2. ~server.data /\ R = Accepted(k) \cup Granted(k)
    BY <1>8, <1>9 DEF ServerSound, R
  <2>3. Granted(r) = Granted(k) \cup (IF code = "ok" THEN {a.arg} ELSE {})
    BY <1>2, <1>5, <1>6, GrantedMore DEF l
  <2>4. ~s.data /\ s.rcpts = Accepted(r) \cup Granted(r)
    BY <1>2, <1>7, <2>1, <2>2, <2>3
  <2> QED BY <1>6, <1>9, <2>4 DEF ServerSound, Recipients
<1>10. CASE k.at = "data"
  <2>1. a.verb = "DATA" /\ l = 0
    BY <1>3, <1>10, VerbTable
  <2>2. R = Accepted(k) /\ R # {} /\ ~server.data
    BY <1>8, <1>10, <2>1 DEF ServerSound, R, l
  <2>3. Len(r.replies) = 1 /\ r.replies[1].code = code
    BY <1>5, <2>1
  <2>4. s.rcpts = R /\ s.data = (server.data \/ code = "more") /\ s.data \in BOOLEAN
    BY <1>2, <2>1
  <2>5. s.data <=> code = "more"
    BY <2>2, <2>4
  <2> QED BY <1>6, <1>7, <1>10, <2>2, <2>3, <2>4, <2>5 DEF ServerSound, Recipients
<1>11. CASE k.at = "body"
  <2>1. a.verb = "BODY" /\ l = 0 /\ a.arg = k.message
    BY <1>1, <1>3, <1>11, Oldest, VerbTable DEF a
  <2>2. R = Accepted(k) /\ Accepted(k) # {} /\ k.mail[k.message].taken = {}
    BY <1>8, <1>11, <2>1 DEF ServerSound, R, l
  <2>3. Len(r.replies) = 1 /\ r.replies[1].code = code /\ Clean(s)
    BY <1>2, <1>5, <2>1
  <2>4. r.mail[k.message].taken = IF code = "ok" THEN Accepted(k) ELSE {}
    <3>1. k.message \in 1..Messages
      BY <1>11 DEF StageSound, Sending
    <3> QED BY <1>4, <2>1, <2>2, <3>1 DEF RepliedIs
  <2> QED BY <1>6, <1>7, <1>11, <2>2, <2>3, <2>4 DEF ServerSound, Recipients
<1>12. CASE k.at = "rset"
  <2>1. a.verb \in {"RSET", "BODY"}
    BY <1>3, <1>12, VerbTable
  <2>2. Clean(s)
    BY <1>2, <2>1
  <2> QED BY <1>6, <1>12, <2>2 DEF ServerSound, Recipients, Clean
<1>13. CASE k.at \notin {"rcpt", "rcpts", "data", "body", "rset"}
  <2>1. a.verb \notin {"RCPT", "DATA"}
    BY <1>3, <1>13 DEF VerbOf, Waiting, Stages
  <2>2. Clean(server)
    BY <1>8, <1>13 DEF ServerSound
  <2>3. Clean(s)
    BY <1>2, <2>1, <2>2
  <2> QED BY <1>6, <1>13, <2>3 DEF ServerSound, Recipients
<1> QED BY <1>9, <1>10, <1>11, <1>12, <1>13 DEF Recipients

LEMMA AnsweredQueued ==
  ASSUME NEW k \in ClientType, StageSound(k, k.at), Queued(k), k.asked # <<>>,
         NEW code \in Codes, NEW R \in SUBSET (1..Rcpts)
  PROVE  Queued(Replied(k, code, R))
<1> DEFINE r == Replied(k, code, R)
           a == k.asked[1]
<1> SUFFICES Queued(r)
  OBVIOUS
<1>1. RepliedIs(r, k, a, code, R)
  BY RepliedFields
<1> HIDE DEF r, a
<1>2. r.at = k.at /\ r.queue = k.queue /\ r.got = k.got /\ r.message = k.message
  BY <1>1 DEF RepliedIs
<1>3. Live(r) = Live(k)
  BY <1>2 DEF Live
<1>4. k.at = "rset" => r.mail[r.message].cut = k.mail[k.message].cut
  <2> SUFFICES ASSUME k.at = "rset" PROVE r.mail[k.message].cut = k.mail[k.message].cut
    BY <1>2
  <2>1. k.message \in 1..Messages
    BY DEF StageSound, Sending
  <2> QED BY <1>1, <2>1 DEF RepliedIs
<1>5. k.at = "rset" /\ CutBody(k, k.queue[1]) => CutBody(r, r.queue[1])
  BY <1>2, <1>4 DEF CutBody
<1> QED BY <1>2, <1>3, <1>5 DEF Queued

LEMMA ServeInv == Inv /\ Serve => Inv'
<1> SUFFICES ASSUME Inv, Serve PROVE Inv'
  OBVIOUS
<1> DEFINE a == c.asked[1]
<1>1. /\ server \in ServerType /\ lagged \in BOOLEAN /\ lagged' = lagged
      /\ c.socket = "open" /\ c.asked # <<>>
  BY DEF Inv, Serve
<1>2. /\ c \in ClientType /\ Sound(c) /\ StageSound(c, c.at) /\ LiveSound(c)
      /\ ~lagged => MailsSound(c) /\ InHand(c, c.at)
  BY DEF Inv, ClientInv
<1>3. ~lagged => Dialogue(c, server)
  BY <1>1 DEF Inv, ClientInv
<1>4. Stands(c, lagged)
  BY <1>2 DEF Stands
<1>5. Head(c.asked) = a /\ a \in Command /\ (a.verb = "RCPT" => a.arg \in 1..Rcpts)
  <2>1. Head(c.asked) = a /\ a \in Command /\ Len(c.asked) \in Nat \ {0}
    BY <1>1, <1>2, ListsTyped, Popped
  <2>2. 1 \in 1..Len(c.asked)
    BY <2>1
  <2> QED BY <1>2, <2>1, <2>2 DEF Sound
<1>6. CASE server.data /\ a.verb # "BODY"
  <2>1. c' = Unasked(c) /\ server' = server
    BY <1>5, <1>6 DEF Serve, Unasked
  <2>2. Stands(Unasked(c), lagged) /\ Unasked(c).socket = "open"
    BY <1>1, <1>2, <1>4, UnaskedStands, UnaskedFields
  <2>3. lagged
    BY <1>1, <1>2, <1>3, <1>6, BodyNext
  <2>4. ClientInv(Unasked(c), server, lagged)
    BY <2>2, <2>3 DEF ClientInv, Stands
  <2> QED BY <1>1, <2>1, <2>4 DEF Inv
<1>7. CASE ~(server.data /\ a.verb # "BODY")
  <2>1. PICK code \in Answers(a) :
          c' = Replied(c, code, server.rcpts) /\ server' = Session(a, code)
    BY <1>5, <1>7 DEF Serve, Replied, Unasked
  <2> DEFINE r == Replied(c, code, server.rcpts)
             sv == Session(a, code)
  <2>2. code \in Codes /\ Code(a.verb, code) /\ sv \in ServerType
    BY <1>1, <1>5, AnswerCodes
  <2>3. server.rcpts \in SUBSET (1..Rcpts)
    BY <1>1 DEF ServerType
  <2>4. ~lagged /\ a.verb = "BODY" => /\ c.at \in {"body", "rset"} /\ a.arg = c.message
                                      /\ c.at = "rset" => c.mail[c.message].cut
    BY <1>1, <1>2, <1>3, Oldest
  <2>5. Stands(r, lagged)
    BY <1>1, <1>4, <2>2, <2>3, <2>4, AnsweredStands
  <2>6. r.socket = "open"
    BY <1>1, <1>2, <2>2, <2>3, RepliedFields DEF RepliedIs
  <2>7. ASSUME ~lagged PROVE Dialogue(r, sv)
    <3>1. Matched(c) /\ RepliesSound(c) /\ Queued(c) /\ Dialogue(c, server)
      BY <1>3, <2>7 DEF Dialogue
    <3>2. Matched(r) /\ RepliesSound(r)
      BY <1>1, <1>2, <2>2, <2>3, <3>1, AnsweredMatched
    <3>3. Queued(r)
      BY <1>1, <1>2, <2>2, <2>3, <3>1, AnsweredQueued
    <3>4. InHand(c, c.at)
      BY <1>2, <2>7
    <3>5. ServerSound(r, sv)
      BY <1>1, <1>2, <3>1, <3>4, AnsweredServer
    <3> QED BY <3>2, <3>3, <3>5 DEF Dialogue
  <2>8. ClientInv(r, sv, lagged)
    <3> HIDE DEF r, sv
    <3> QED BY <2>5, <2>6, <2>7 DEF ClientInv, Stands
  <2> QED BY <1>1, <2>1, <2>2, <2>8 DEF Inv
<1> QED BY <1>6, <1>7

-----------------------------------------------------------------------------
(* The theorems.                                                           *)

LEMMA InitInv == Init => Inv
<1> SUFFICES ASSUME Init PROVE Inv
  OBVIOUS
<1> DEFINE none == << >>
           got == [i \in 1..Rcpts |-> "unasked"]
           mail == [m \in 1..Messages |-> Unsent]
<1>1. PICK cfg \in Configs :
        c = [state |-> "idle", at |-> "off", cfg |-> cfg, socket |-> "none",
             encrypted |-> FALSE, again |-> FALSE, crashed |-> FALSE,
             aborted |-> "no", probed |-> FALSE, queue |-> none, asked |-> none,
             replies |-> none, got |-> got, message |-> 0, mail |-> mail]
  BY DEF Init
<1>2. server = [rcpts |-> {}, data |-> FALSE] /\ lagged = FALSE
  BY DEF Init
<1>3. none \in Seq(WaitType) /\ none \in Seq(Command) /\ none \in Seq(ReplyType) /\ Len(none) = 0
      /\ none = <<>>
  OBVIOUS
<1>4. got \in [1..Rcpts -> Verdicts]
  BY DEF Verdicts
<1>5. mail \in [1..Messages -> Outcome] /\ \A m \in 1..Messages : mail[m] = Unsent
  <2>1. Unsent \in Outcome
    BY DEF Unsent, Outcome
  <2> QED BY <2>1
<1>6. 0 \in 0..Messages
  BY Numbers
<1> HIDE DEF none, got, mail
<1>7. c \in ClientType
  BY <1>1, <1>3, <1>4, <1>5, <1>6 DEF ClientType, SmtpStates, Stages
<1>8. /\ c.state = "idle" /\ c.at = "off" /\ c.socket = "none" /\ c.aborted = "no"
      /\ c.queue = none /\ c.asked = none /\ c.replies = none /\ c.message = 0 /\ c.mail = mail
  BY <1>1
<1>9. Sound(c)
  BY <1>3, <1>8 DEF Sound
<1>10. StageSound(c, c.at)
  BY <1>8 DEF StageSound, Sending, Secret
<1>11. LiveSound(c)
  <2>1. Live(c) = {}
    BY <1>3, <1>8 DEF Live
  <2> QED BY <2>1 DEF LiveSound
<1>12. MailsSound(c)
  <2>1. Told(Unsent)
    BY DEF Told, Unsent
  <2> QED BY <1>5, <1>8, <2>1 DEF MailsSound
<1>13. InHand(c, c.at)
  BY <1>8 DEF InHand, Sending
<1>14. server \in ServerType /\ Clean(server)
  BY <1>2 DEF ServerType, Clean
<1>15. ClientInv(c, server, lagged)
  BY <1>7, <1>8, <1>9, <1>10, <1>11, <1>12, <1>13, <1>14 DEF ClientInv
<1> QED BY <1>2, <1>14, <1>15 DEF Inv

LEMMA StepInv == Inv /\ [Next]_vars => Inv'
<1>1. ASSUME Inv, Next PROVE Inv'
  BY <1>1, ReplyInv, TimeoutInv, IdleInv, ErrorInv, NoiseInv, ClosedInv, ConnectInv, DialledInv,
     UpgradedInv, TokenFetchedInv, SendInv, SendRefusedInv, VerifyInv, QuitInv, DestroyInv,
     ServeInv DEF Next, Progress
<1>2. ASSUME Inv, UNCHANGED vars PROVE Inv'
  BY <1>2 DEF vars, Inv
<1> QED BY <1>1, <1>2

\* A list of commands with their waits' or their replies' own fields left out.
LEMMA AskedList ==
  ASSUME NEW T, NEW s \in Seq(T), \A n \in 1..Len(s) : [verb |-> s[n].verb, arg |-> s[n].arg] \in Command
  PROVE  /\ Asked(s) \in Seq(Command) /\ Len(Asked(s)) = Len(s)
         /\ \A n \in 1..Len(s) : Asked(s)[n] = [verb |-> s[n].verb, arg |-> s[n].arg]
<1>1. Len(s) \in Nat /\ DOMAIN s = 1..Len(s)
  BY EmptyList
<1>2. Asked(s) = [n \in 1..Len(s) |-> [verb |-> s[n].verb, arg |-> s[n].arg]]
  BY <1>1 DEF Asked
<1> QED BY <1>1, <1>2

LEMMA MatchedLists ==
  ASSUME NEW k \in ClientType, Matched(k)
  PROVE  Asked(k.queue) = Asked(k.replies) \o k.asked
<1> DEFINE q == Asked(k.queue)
           r == Asked(k.replies)
           j == r \o k.asked
<1>1. /\ q \in Seq(Command) /\ Len(q) = Len(k.queue) /\ Len(k.queue) \in Nat
      /\ \A n \in 1..Len(k.queue) : q[n] = [verb |-> k.queue[n].verb, arg |-> k.queue[n].arg]
  <2>1. k.queue \in Seq(WaitType) /\ Len(k.queue) \in Nat
    BY ListsTyped
  <2>2. \A n \in 1..Len(k.queue) : [verb |-> k.queue[n].verb, arg |-> k.queue[n].arg] \in Command
    BY ListsTyped DEF WaitType, Command
  <2> QED BY <2>1, <2>2, AskedList
<1>2. /\ r \in Seq(Command) /\ Len(r) = Len(k.replies) /\ Len(k.replies) \in Nat
      /\ \A n \in 1..Len(k.replies) : r[n] = [verb |-> k.replies[n].verb, arg |-> k.replies[n].arg]
  <2>1. k.replies \in Seq(ReplyType) /\ Len(k.replies) \in Nat
    BY ListsTyped
  <2>2. \A n \in 1..Len(k.replies) : [verb |-> k.replies[n].verb, arg |-> k.replies[n].arg] \in Command
    BY ListsTyped DEF ReplyType, Command
  <2> QED BY <2>1, <2>2, AskedList
<1>3. k.asked \in Seq(Command) /\ Len(k.asked) \in Nat
      /\ \A n \in 1..Len(k.asked) : k.asked[n] = [verb |-> k.asked[n].verb, arg |-> k.asked[n].arg]
  <2>1. k.asked \in Seq(Command) /\ Len(k.asked) \in Nat /\ \A n \in 1..Len(k.asked) : k.asked[n] \in Command
    BY ListsTyped
  <2>2. \A a \in Command : a = [verb |-> a.verb, arg |-> a.arg]
    BY DEF Command
  <2> QED BY <2>1, <2>2
<1> HIDE DEF q, r
<1>4. /\ j \in Seq(Command) /\ Len(j) = Len(r) + Len(k.asked)
      /\ \A n \in 1..Len(r) : j[n] = r[n]
      /\ \A n \in 1..Len(k.asked) : j[Len(r) + n] = k.asked[n]
  <2> DEFINE d == k.asked
  <2>1. r \in Seq(Command) /\ d \in Seq(Command)
    BY <1>2, <1>3
  <2> HIDE DEF d
  <2>2. r \o d \in Seq(Command) /\ Len(r \o d) = Len(r) + Len(d)
    BY <2>1
  <2>3. \A n \in 1..Len(r) : (r \o d)[n] = r[n]
    BY <2>1, Joined
  <2>4. \A n \in 1..Len(d) : (r \o d)[Len(r) + n] = d[n]
    BY <2>1, Joined
  <2> QED BY <2>2, <2>3, <2>4 DEF d
<1> HIDE DEF j
<1> DEFINE l == Len(k.replies)
           m == Len(k.asked)
<1>5. Len(q) = l + m /\ Len(j) = l + m /\ l \in Nat /\ m \in Nat
  BY <1>1, <1>2, <1>3, <1>4 DEF Matched
<1>6. ASSUME NEW n \in 1..Len(q) PROVE q[n] = j[n]
  <2>1. CASE n \in 1..l
    <3>1. /\ j[n] = r[n] /\ r[n] = [verb |-> k.replies[n].verb, arg |-> k.replies[n].arg]
          /\ q[n] = [verb |-> k.queue[n].verb, arg |-> k.queue[n].arg]
      BY <1>1, <1>2, <1>4, <2>1
    <3>2. k.replies[n].verb = k.queue[n].verb /\ k.replies[n].arg = k.queue[n].arg
      BY <2>1 DEF Matched
    <3> QED BY <3>1, <3>2
  <2>2. CASE ~(n \in 1..l)
    <3> DEFINE i == n - l
    <3>1. i \in 1..m /\ l + i = n
      <4> HIDE DEF l, m
      <4> QED BY <1>5, <2>2
    <3> HIDE DEF i
    <3>2. /\ j[n] = k.asked[i] /\ k.asked[i] = [verb |-> k.asked[i].verb, arg |-> k.asked[i].arg]
      BY <1>2, <1>3, <1>4, <3>1
    <3>3. q[n] = [verb |-> k.queue[n].verb, arg |-> k.queue[n].arg]
      BY <1>1
    <3>4. k.asked[i].verb = k.queue[n].verb /\ k.asked[i].arg = k.queue[n].arg
      BY <3>1 DEF Matched
    <3> QED BY <3>2, <3>3, <3>4
  <2> QED BY <2>1, <2>2
<1>7. q = j
  BY <1>1, <1>4, <1>5, <1>6, SeqEqual
<1> QED BY <1>7 DEF q, r, j

LEMMA InvDialogue == Inv => DialogueInStep
<1> SUFFICES ASSUME Inv PROVE DialogueInStep
  OBVIOUS
<1>1. /\ c \in ClientType /\ Sound(c) /\ StageSound(c, c.at) /\ LiveSound(c)
      /\ ~lagged /\ c.socket = "open" => Dialogue(c, server)
      /\ server \in ServerType /\ lagged \in BOOLEAN
  BY DEF Inv, ClientInv
<1>2. TypeOK
  <2>1. /\ c.state \in SmtpStates /\ c.at \in Stages /\ c.cfg \in Configs
        /\ c.socket \in {"none", "open", "destroyed", "closed"}
        /\ c.encrypted \in BOOLEAN /\ c.again \in BOOLEAN /\ c.crashed \in BOOLEAN
        /\ c.aborted \in {"no", "dialling", "attached"} /\ c.probed \in BOOLEAN
        /\ c.queue \in Seq(WaitType) /\ c.asked \in Seq(Command) /\ c.replies \in Seq(ReplyType)
        /\ c.got \in [1..Rcpts -> Verdicts] /\ c.message \in 0..Messages
        /\ c.mail \in [1..Messages -> Outcome]
    BY <1>1 DEF ClientType
  <2> QED BY <1>1, <2>1 DEF TypeOK, WaitType, ReplyType, Verdicts, ServerType
<1>3. RepliesMatched
  BY <1>1, MatchedLists DEF RepliesMatched, Dialogue
<1>4. ReadyMeansClean
  <2> SUFFICES ASSUME c.state = "ready"
               PROVE  /\ c.aborted # "attached"
                      /\ ~lagged /\ c.socket = "open" =>
                           /\ c.at \in {"off", "noop"}
                           /\ \A n \in DOMAIN c.queue : c.queue[n].verb = "NOOP"
                           /\ ~server.data /\ server.rcpts = {}
    BY DEF ReadyMeansClean
  <2>1. c.aborted # "attached" /\ c.at \in {"off", "noop"}
    BY <1>1 DEF Sound, StageSound
  <2>2. ASSUME ~lagged, c.socket = "open"
        PROVE  /\ \A n \in DOMAIN c.queue : c.queue[n].verb = "NOOP"
               /\ ~server.data /\ server.rcpts = {}
    <3>1. Queued(c) /\ ServerSound(c, server)
      BY <1>1, <2>2 DEF Dialogue
    <3>2. Clean(server)
      BY <2>1, <3>1 DEF ServerSound
    <3>3. DOMAIN c.queue = 1..Len(c.queue)
      BY <1>1, ListsTyped
    <3>4. CASE c.at = "off"
      <4>1. Len(c.queue) = 0
        BY <3>1, <3>4 DEF Queued, Waiting
      <4> QED BY <3>2, <3>3, <4>1 DEF Clean
    <3>5. CASE c.at = "noop"
      <4>1. Len(c.queue) = 1 /\ c.queue[1].live
        BY <3>1, <3>5 DEF Queued, Waiting, Stages
      <4>2. 1 \in Live(c)
        BY <4>1 DEF Live
      <4>3. c.queue[1].verb = "NOOP"
        BY <1>1, <3>5, <4>2, VerbTable DEF LiveSound
      <4> QED BY <3>2, <3>3, <4>1, <4>3 DEF Clean
    <3> QED BY <2>1, <3>4, <3>5
  <2> QED BY <2>1, <2>2
<1>5. SecretsEncrypted
  <2>1. DOMAIN c.asked = 1..Len(c.asked)
    BY <1>1, ListsTyped, EmptyList
  <2> QED BY <1>1, <2>1 DEF SecretsEncrypted, Sound
<1> QED BY <1>2, <1>3, <1>4, <1>5 DEF DialogueInStep

\* Invariant: wherever the call under way is, the waits, the commands and the
\* replies line up, and the server knows what the client believes it knows, until
\* a wait is given up before its reply.
THEOREM Invariant == Spec => []Inv
BY InitInv, StepInv, PTL DEF Spec

\* On every connection, whatever the faults and the configuration, a reply answers
\* the command it is for, a client that says it is ready has no transaction open
\* and no reply due, and no credentials go over a wire the configuration forbids.
THEOREM DialogueHolds == Spec => []DialogueInStep
BY InvDialogue, Invariant, PTL

\* What send() returns is what the server did with the message, unless a wait was
\* given up before its reply.
THEOREM ResultsHold == Spec => []ResultTruthful
<1>1. Inv => ResultTruthful
  <2> SUFFICES ASSUME Inv, NEW m \in 1..Messages, ~lagged PROVE Told(c.mail[m])
    BY DEF ResultTruthful, Told
  <2> QED BY DEF Inv, ClientInv, MailsSound
<1> QED BY <1>1, Invariant, PTL
===============================================================================
