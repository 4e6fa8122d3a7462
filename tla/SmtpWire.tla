------------------------------ MODULE SmtpWire ------------------------------
(***************************************************************************)
(* A message on an SMTP connection, as bytes: the client's side of it      *)
(* (src/src/smtp: SmtpProxy.ts, SmtpStream.ts, SmtpCommand.ts and          *)
(* SmtpClient.send()), possibly through a proxy, and the trap server's     *)
(* (packages/trap/src/server/SmtpServer.ts).  The replies and the faults   *)
(* of a connection are in SmtpClient.tla; here is how its bytes are        *)
(* framed.                                                                 *)
(*                                                                         *)
(* Data arrives in pieces that may end anywhere.  Only the lines of a      *)
(* command arrive whole: the trap server does not put a command together   *)
(* that arrives in two pieces.                                             *)
(***************************************************************************)
EXTENDS Mime, TrapServer, Arrival

CONSTANTS MaxSize  \* maxSize of the trap server, in tokens

ASSUME WireConstants == MaxSize \in Nat \ {0}

VARIABLES
  smtp,  \* the client: the step it is at, what it has read of a reply, the envelope and the message
  link   \* the connection: what is under way in both directions, the proxy and the trap server's session

wireVars == <<smtp, link>>

\* Definitions that are used nowhere below are variants of the definition that
\* follows them, each with a mistake that a property is meant to catch.

ReplyLine(code, more, word) == << <<"line", [code |-> code, more |-> more, word |-> word], 0>> >> \o CRLF
Bytes(s) == [i \in DOMAIN s |-> <<"byte", s[i], 0>>]


-----------------------------------------------------------------------------
(* The client reads: SmtpStream.                                           *)

\* Lines up to CRLF; the lines of a reply but the last have a hyphen.
StreamToken(st, t) ==
  IF t # LF \/ st.buf = <<>> \/ Last(st.buf) # CR THEN [st EXCEPT !.buf = Append(@, t)]
  ELSE LET words == Front(st.buf)
           line == IF words = <<>> THEN [code |-> 0, more |-> FALSE, word |-> ""] ELSE words[1][2]
           lines == Append(st.lines, line)
       IN IF line.more THEN [st EXCEPT !.buf = <<>>, !.lines = lines]
          ELSE [buf |-> <<>>, lines |-> <<>>, replies |-> Append(st.replies, lines)]
Stream(buf, lines, data) == FoldLeft(StreamToken, [buf |-> buf, lines |-> lines, replies |-> <<>>], data)
Code(reply) == Last(reply).code

\* parseCapabilities().
ParseCapabilities(reply) ==
  [pipelining |-> \E i \in 2..Len(reply) : reply[i].word = "PIPELINING",
   size |-> IF \E i \in 2..Len(reply) : reply[i].word = "SIZE" THEN MaxSize ELSE 0]

-----------------------------------------------------------------------------
(* The client writes.                                                      *)

Command(verb, arg) == << <<verb, arg, 0>> >> \o CRLF
MailFrom(c) == Command("MAIL", [who |-> c.from, size |-> IF c.caps.size > 0 THEN Len(c.raw) ELSE 0])
RcptTos(to) == FlattenSeq([i \in DOMAIN to |-> Command("RCPT", [who |-> to[i], size |-> 0])])

\* dotStuff(): a line that begins with a dot gets another; the data ends with a line
\* that is a dot.
DotStuffFirst(raw) ==
  [i \in DOMAIN raw |-> IF raw[i][3] > 0 /\ i = 1 THEN [raw[i] EXCEPT ![3] = @ + 1] ELSE raw[i]]
  \o (IF raw # <<>> /\ Last(raw) = LF THEN <<>> ELSE CRLF) \o << <<"raw", "", 1>> >> \o CRLF
DotStuff(raw) ==
  [i \in DOMAIN raw |-> IF raw[i][3] > 0 /\ (i = 1 \/ raw[i - 1] = LF) THEN [raw[i] EXCEPT ![3] = @ + 1] ELSE raw[i]]
  \o (IF raw # <<>> /\ Last(raw) = LF THEN <<>> ELSE CRLF) \o << <<"raw", "", 1>> >> \o CRLF

-----------------------------------------------------------------------------
(* Through a proxy.                                                        *)

\* httpConnect(), socks5Connect(), socks4Connect(): the proxy's answer at the head of
\* what has arrived, as the number of its bytes; 0 while it is not complete.
Byte(data, i) == data[i][2]
HttpAnswer(data) ==
  LET ends == {i \in 1..(Len(data) - 3) : SubSeq(data, i, i + 3) = CRLF \o CRLF}
  IN IF ends = {} THEN 0 ELSE (CHOOSE i \in ends : \A k \in ends : i <= k) + 3
Socks5Length(data) ==
  CASE Byte(data, 2) # 0 -> 4 [] Byte(data, 4) = 1 -> 10 [] Byte(data, 4) = 4 -> 22
    [] Byte(data, 4) = 3 -> 7 + (IF Len(data) >= 5 THEN Byte(data, 5) ELSE 0) [] OTHER -> 6
ProxyAnswer(step, data) ==
  LET n == CASE step \in {"greeting", "auth"} -> 2
             [] step = "socks5" -> IF Len(data) < 4 THEN 4 ELSE Socks5Length(data)
             [] step = "socks4" -> 8
             [] step = "http" -> IF HttpAnswer(data) = 0 THEN Len(data) + 1 ELSE HttpAnswer(data)
  IN IF Len(data) >= n THEN n ELSE 0
Accepted(step, data) ==
  CASE step = "greeting" -> Byte(data, 2) \in {0, 2}
    [] step \in {"auth", "socks5"} -> Byte(data, 2) = 0
    [] step = "socks4" -> Byte(data, 2) = 90
    [] step = "http" -> Byte(data, 1) = 200

\* What follows the answer belongs to the tunnel.
Rest(data, n) == SubSeq(data, n + 1, Len(data))

Fails(c) == [c EXCEPT !.step = "closed", !.result = "failed"]
Writes(c, tokens) == [c EXCEPT !.out = @ \o tokens]

Socks5Connect(c) == Writes([c EXCEPT !.step = "socks5"], << <<"proxy", "connect", 0>> >>)
OnAnswer(c, data, n) ==
  CASE ~Accepted(c.step, data) -> Fails(c)
    [] c.step = "greeting" /\ Byte(data, 2) = 2 ->
         Writes([c EXCEPT !.step = "auth", !.buf = Rest(data, n)], << <<"proxy", "login", 0>> >>)
    [] c.step \in {"greeting", "auth"} -> Socks5Connect([c EXCEPT !.buf = Rest(data, n)])
    [] OTHER -> [c EXCEPT !.step = "banner", !.buf = <<>>]

\* Through a proxy the data goes to the handshake until the tunnel is there, and the
\* rest of it back to the socket.
ProxySteps == {"greeting", "auth", "socks5", "socks4", "http"}
ReadsProxy(n) ==
  LET data == smtp.buf \o SubSeq(link.down, 1, n)
      k == ProxyAnswer(smtp.step, data)
      c == IF k = 0 THEN [smtp EXCEPT !.buf = data] ELSE OnAnswer(smtp, data, k)
      rest == IF c.step = "banner" THEN Rest(data, k) ELSE <<>>
  IN /\ smtp' = [c EXCEPT !.out = <<>>]
     /\ link' = [link EXCEPT !.down = rest \o SubSeq(@, n + 1, Len(@)), !.up = @ \o c.out,
                             !.open = c.step # "closed"]

-----------------------------------------------------------------------------
(* send(), when every reply is the one it waits for or ends it.            *)

TooLarge(c) == c.caps.size > 0 /\ Len(c.raw) > c.caps.size
OnReply(c, reply) ==
  CASE Code(reply) >= 400 \/ Code(reply) = 0 -> Fails(c)
    [] c.step = "banner" -> Writes([c EXCEPT !.step = "ehlo"], Command("EHLO", ""))
    [] c.step = "ehlo" ->
         LET d == [c EXCEPT !.caps = ParseCapabilities(reply)]
         IN IF TooLarge(d) THEN Writes([d EXCEPT !.step = "quit", !.result = "too large"], Command("QUIT", ""))
            ELSE Writes([d EXCEPT !.step = "mail"], MailFrom(d))
    [] c.step = "mail" -> Writes([c EXCEPT !.step = "rcpt", !.waits = Len(c.to)], RcptTos(c.to))
    [] c.step = "rcpt" /\ c.waits > 1 -> [c EXCEPT !.waits = @ - 1]
    [] c.step = "rcpt" /\ c.waits = 1 -> Writes([c EXCEPT !.step = "data"], Command("DATA", ""))
    [] c.step = "data" -> Writes([c EXCEPT !.step = "body"], DotStuff(c.raw))
    [] c.step = "body" -> Writes([c EXCEPT !.step = "quit", !.result = "sent"], Command("QUIT", ""))
    [] c.step = "quit" -> [c EXCEPT !.step = "closed"]
    [] OTHER -> c
ReadsReplies(n) ==
  LET st == Stream(smtp.buf, smtp.lines, SubSeq(link.down, 1, n))
      c == FoldLeft(OnReply, [smtp EXCEPT !.buf = st.buf, !.lines = st.lines], st.replies)
  IN /\ smtp' = [c EXCEPT !.out = <<>>]
     /\ link' = [link EXCEPT !.down = SubSeq(@, n + 1, Len(@)), !.up = @ \o c.out, !.open = c.step # "closed"]
ClientReads ==
  /\ link.open /\ \E n \in Pieces(link.down) :
       Cut(link.down, n) /\ IF smtp.step \in ProxySteps THEN ReadsProxy(n) ELSE ReadsReplies(n)
  /\ UNCHANGED trapVars

\* The connection is gone.
ClientLoses ==
  /\ link.open /\ ~link.alive /\ link.down = <<>>
  /\ smtp' = IF smtp.result = "none" THEN Fails(smtp) ELSE [smtp EXCEPT !.step = "closed"]
  /\ link' = [link EXCEPT !.open = FALSE]
  /\ UNCHANGED <<cuts, trapVars>>

-----------------------------------------------------------------------------
(* The connection.                                                         *)

NoSession == [from |-> [who |-> "", size |-> 0], to |-> <<>>, data |-> FALSE, buf |-> <<>>, out |-> <<>>, quit |-> FALSE]
Unopened == [open |-> FALSE, alive |-> FALSE, tunnel |-> FALSE, greeted |-> FALSE, proxy |-> "none",
             up |-> <<>>, down |-> <<>>, session |-> NoSession]
FirstStep(proxy) == CASE proxy = "none" -> "banner" [] proxy \in {"socks5", "socks5 auth"} -> "greeting" [] OTHER -> proxy

\* A message on a connection of its own.
Connect(proxy, from, to, raw) ==
  /\ ~link.open
  /\ smtp' = [step |-> FirstStep(proxy), buf |-> <<>>, lines |-> <<>>, out |-> <<>>, waits |-> 0,
              caps |-> [pipelining |-> FALSE, size |-> 0], from |-> from, to |-> to, raw |-> raw, result |-> "none"]
  /\ link' = [Unopened EXCEPT !.open = TRUE, !.alive = TRUE, !.proxy = proxy,
                              !.up = IF proxy = "none" THEN <<>> ELSE << <<"proxy", "hello", 0>> >>]
  /\ UNCHANGED <<cuts, trapVars>>

\* The proxy: its answers to one request after the other; after the last it is a pipe.
ProxyAnswers(request) ==
  CASE link.proxy = "http" -> { Bytes(<<200>>) \o CRLF \o CRLF, Bytes(<<403>>) \o CRLF \o CRLF }
    [] link.proxy = "socks4" -> { Bytes(<<0, 90, 0, 0, 0, 0, 0, 0>>), Bytes(<<0, 91, 0, 0, 0, 0, 0, 0>>) }
    [] request = "hello" -> { Bytes(<<5, IF link.proxy = "socks5 auth" THEN 2 ELSE 0>>) }
    [] request = "login" -> { Bytes(<<1, 0>>), Bytes(<<1, 1>>) }
    [] request = "connect" -> { Bytes(<<5, 0, 0, 1, 0, 0, 0, 0, 0, 0>>), Bytes(<<5, 0, 0, 3, 1, 0, 0, 0>>),
                                Bytes(<<5, 5, 0, 1, 0, 0, 0, 0, 0, 0>>) }
Opens(answer) == \/ Byte(answer, 1) = 200
                 \/ link.proxy = "socks4" /\ Byte(answer, 2) = 90
                 \/ Byte(answer, 1) = 5 /\ Len(answer) > 2 /\ Byte(answer, 2) = 0
ProxyServes ==
  /\ link.open /\ link.alive /\ link.up # <<>> /\ Head(link.up)[1] = "proxy" /\ ~link.tunnel
  /\ \E answer \in ProxyAnswers(Head(link.up)[2]) :
       link' = [link EXCEPT !.up = Tail(@), !.down = @ \o answer, !.tunnel = Opens(answer)]
  /\ UNCHANGED <<smtp, cuts, trapVars>>

\* handleConnection().
TrapAccepts ==
  /\ link.open /\ link.alive /\ ~link.greeted
  /\ link.proxy = "none" \/ link.tunnel
  /\ Accepting
  /\ link' = [link EXCEPT !.down = @ \o ReplyLine(220, FALSE, ""), !.greeted = TRUE]
  /\ UNCHANGED <<smtp, cuts, trapVars>>

\* Commands, one after the other; MAIL keeps its parameters with the address.
OnCommand(s, t) ==
  CASE t[1] = "EHLO" -> [s EXCEPT !.out = @ \o ReplyLine(250, TRUE, "") \o ReplyLine(250, TRUE, "PIPELINING")
                                          \o ReplyLine(250, TRUE, "SIZE") \o ReplyLine(250, FALSE, "")]
    [] t[1] = "MAIL" -> [s EXCEPT !.from = t[2], !.out = @ \o ReplyLine(250, FALSE, "")]
    [] t[1] = "RCPT" -> [s EXCEPT !.to = Append(@, t[2].who), !.out = @ \o ReplyLine(250, FALSE, "")]
    [] t[1] = "DATA" -> [s EXCEPT !.data = TRUE, !.out = @ \o ReplyLine(354, FALSE, "")]
    [] t[1] = "QUIT" -> [s EXCEPT !.quit = TRUE, !.out = @ \o ReplyLine(221, FALSE, "")]
    [] OTHER -> s

\* The end of the data in what has arrived, 0 for none; a second dot goes.
EndOfData(buf) ==
  LET ends == {i \in 1..(Len(buf) - 4) : /\ buf[i] = CR /\ buf[i + 2][3] = 1 /\ buf[i + 2][2] = ""
                                         /\ buf[i + 3] = CR}
  IN IF ends = {} THEN 0 ELSE CHOOSE i \in ends : \A k \in ends : i <= k
Unstuff(data) ==
  [i \in DOMAIN data |-> IF data[i][3] > 1 /\ (i = 1 \/ data[i - 1] = LF) THEN [data[i] EXCEPT ![3] = @ - 1] ELSE data[i]]
Captured(s, raw) ==
  NewMessage(TrapParse(raw) @@ [raw |-> raw, from |-> s.from.who, to |-> s.to])

ReadsCommands(n) ==
  LET s == FoldLeft(OnCommand, link.session, SubSeq(link.up, 1, n)) IN
  /\ link.up[n] = LF
  /\ link' = [link EXCEPT !.up = SubSeq(@, n + 1, Len(@)), !.down = @ \o s.out, !.alive = ~s.quit,
                          !.session = [s EXCEPT !.out = <<>>]]
  /\ UNCHANGED trapVars

\* A piece is read as text: a character that comes in two halves is lost.
EightBit(t) == t[1] = "raw" /\ t[2] \in {"utf8", "quoted utf8"}
Halved(queue) == [queue EXCEPT ![1][2] = "garbled"]
ReadsData(n) ==
  LET buf == link.session.buf \o SubSeq(link.up, 1, n)
      rest == SubSeq(link.up, n + 1, Len(link.up))
      end == EndOfData(buf)
      raw == Unstuff(SubSeq(buf, 1, end - 1))
      Replies(code) == [link EXCEPT !.up = <<>>, !.down = @ \o ReplyLine(code, FALSE, "")]
  IN CASE end = 0 ->
            /\ link' \in {[link EXCEPT !.up = r, !.session.buf = buf] :
                             r \in {rest} \cup (IF rest # <<>> /\ EightBit(Head(rest)) THEN {Halved(rest)} ELSE {})}
            /\ UNCHANGED trapVars
       [] end > 0 /\ Len(raw) > MaxSize ->
            link' = [Replies(552) EXCEPT !.session.data = FALSE, !.session.buf = <<>>] /\ UNCHANGED trapVars
       [] end > 0 /\ Len(raw) <= MaxSize ->
            \/ Capture(Captured(link.session, raw)) /\ link' = [Replies(250) EXCEPT !.session = NoSession]
            \/ Killed(AppendTo(trap.file, Captured(link.session, raw))) /\ link' = [link EXCEPT !.alive = FALSE]
TrapReads ==
  /\ Running /\ link.open /\ link.alive /\ link.greeted
  /\ \E n \in Pieces(link.up) : Cut(link.up, n) /\ IF link.session.data THEN ReadsData(n) ELSE ReadsCommands(n)
  /\ UNCHANGED smtp

\* The trap server's process ended, or refuses connections.
LinkDies ==
  /\ link.open /\ link.alive
  /\ trap.up = "down" \/ (trap.up = "closed" /\ ~link.greeted)
  /\ link' = [link EXCEPT !.alive = FALSE]
  /\ UNCHANGED <<smtp, cuts, trapVars>>

WireInit ==
  /\ smtp = [step |-> "closed", buf |-> <<>>, lines |-> <<>>, out |-> <<>>, waits |-> 0,
             caps |-> [pipelining |-> FALSE, size |-> 0], from |-> "", to |-> <<>>, raw |-> <<>>, result |-> "none"]
  /\ link = Unopened

Connection == ClientReads \/ ClientLoses \/ ProxyServes \/ TrapAccepts \/ TrapReads \/ LinkDies
=============================================================================
