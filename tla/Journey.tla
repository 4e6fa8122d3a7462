------------------------------- MODULE Journey -------------------------------
(***************************************************************************)
(* A message from the options it is built from to the reader who answers   *)
(* it: buildMessage(), an SMTP connection to the trap server, a copy in a  *)
(* mailbox, fetching it, and a reply or a forward that goes the same way   *)
(* (src/src/core/MailTs.ts and README.md show applications do this); or it *)
(* is handed to a service over HTTP.  The user of the trap's page acts in  *)
(* the meantime.                                                           *)
(***************************************************************************)
EXTENDS SmtpWire, ImapWire, ApiTransports, JobCodec

CONSTANTS
  Starts,  \* the journeys: a message, the version a row of the queue keeps it in meanwhile
           \* or "none", the service it is handed to or "none", the proxy its
           \* connections go through, how often data comes in pieces, how often it is answered,
           \* how often it is sent again instead, and what the user of the page and the operator
           \* of the trap may do
  Policy   \* attachmentPolicy: allow, root or deny

VARIABLES mail  \* the message, the step it is at, what was read of it, and what was sent before

vars == <<mail, wireVars, cuts, trapVars, imapVars>>

-----------------------------------------------------------------------------

Begin(start) ==
  /\ mail = [at |-> "composing", m |-> start.m, row |-> start.row, api |-> start.api, told |-> <<>>,
             proxy |-> start.proxy, answers |-> start.answers, again |-> start.again, boxed |-> start.boxed,
             waits |-> start.waits, sent |-> <<>>, thread |-> start.m.references, whom |-> "new",
             attrs |-> NoAttributes, o |-> <<>>, raw |-> <<>>, partly |-> FALSE]
  /\ TrapInit(NoFile, start.clicks, start.kills) /\ WireInit /\ cuts = start.cuts /\ MailboxInit
Init == \E start \in Starts : Begin(start)

\* send(), or enqueue() and a queue that takes the job from its row: nothing is sent of
\* a message that cannot be stored or built.
Taken == IF mail.row = "none" THEN mail.m ELSE DecodeOptions(EncodeOptions(mail.m, mail.row))
Unsent ==
  \/ mail.row # "none" /\ ~Storable(mail.m)
  \/ Refused(Taken, Policy) \/ Unfit(Taken, mail.api)
Refuse ==
  /\ mail.at = "composing" /\ Unsent
  /\ mail' = [mail EXCEPT !.at = "over"] /\ UNCHANGED <<wireVars, cuts, trapVars, imapVars>>
Send ==
  /\ mail.at = "composing" /\ mail.api = "none" /\ ~Unsent
  /\ LET raw == Build(Taken)  to == EnvelopeTo(Taken) IN
     /\ Connect(mail.proxy, mail.m.from, to, raw)
     /\ mail' = [mail EXCEPT !.at = "sending", !.sent = Append(@, [m |-> mail.m, raw |-> raw, to |-> to])]
  /\ UNCHANGED imapVars

\* The transport is handed both the bytes and the options, files read.
Post ==
  /\ mail.at = "composing" /\ mail.api # "none" /\ ~Unsent
  /\ mail' = [mail EXCEPT !.at = "over", !.told = <<Told(Taken, mail.api)>>]
  /\ UNCHANGED <<wireVars, cuts, trapVars, imapVars>>

\* saveToSent() once it is delivered.
Delivered ==
  /\ mail.at = "sending" /\ smtp.step = "closed"
  /\ CASE smtp.result = "sent" /\ mail.boxed ->
            AppendMessage(Last(mail.sent).raw) /\ mail' = [mail EXCEPT !.at = "filing"]
       [] ~mail.boxed /\ mail.again > 0 ->
            mail' = [mail EXCEPT !.at = "composing", !.again = @ - 1] /\ UNCHANGED imapVars
       [] OTHER -> mail' = [mail EXCEPT !.at = "over"] /\ UNCHANGED imapVars
  /\ UNCHANGED <<wireVars, cuts, trapVars>>

\* The reader fetches the message or its texts.
Filed ==
  /\ mail.at = "filing" /\ ~imap.busy
  /\ \/ imap.answer = "NO" /\ mail' = [mail EXCEPT !.at = "over"] /\ UNCHANGED imapVars
     \/ imap.answer = "OK" /\ Fetch(Everything) /\ mail' = [mail EXCEPT !.at = "fetching"]
     \/ imap.answer = "OK" /\ Fetch(Overview) /\ mail' = [mail EXCEPT !.at = "looking"]
  /\ UNCHANGED <<wireVars, cuts, trapVars>>
Fetched ==
  /\ mail.at = "fetching" /\ ~imap.busy
  /\ LET a == Merged(imap.untagged) IN
     mail' = [mail EXCEPT !.at = "read", !.o = <<MessageFrom(a)>>, !.raw = Sections(a, <<>>)[1][2], !.partly = FALSE]
  /\ UNCHANGED <<wireVars, cuts, trapVars, imapVars>>
Looked ==
  /\ mail.at = "looking" /\ ~imap.busy
  /\ LET a == Merged(imap.untagged) IN
     IF TextLeaves(a) = <<>>
     THEN /\ mail' = [mail EXCEPT !.at = "read", !.o = <<TextOnly(a, a)>>, !.attrs = a, !.partly = TRUE]
          /\ UNCHANGED imapVars
     ELSE /\ mail' = [mail EXCEPT !.at = "fetching texts", !.attrs = a]
          /\ Fetch(TextSections(a))
  /\ UNCHANGED <<wireVars, cuts, trapVars>>
FetchedTexts ==
  /\ mail.at = "fetching texts" /\ ~imap.busy
  /\ mail' = [mail EXCEPT !.at = "read", !.o = <<TextOnly(mail.attrs, Merged(imap.untagged))>>, !.partly = TRUE]
  /\ UNCHANGED <<wireVars, cuts, trapVars, imapVars>>

\* The first recipient answers, with a text or with html, or passes it on; a message
\* that was read in part has no references to go on from.
Reader == mail.m.to[1]
Options(html, all) ==
  [id |-> mail.m.id + 1, from |-> Reader, me |-> {Lower(Reader)}, quote |-> TRUE, replyAll |-> all, attachments |-> <<>>,
   text |-> IF html THEN Absent ELSE <<"plain">>, html |-> IF html THEN <<"plain">> ELSE Absent]
ForwardOptions(mode) ==
  [id |-> mail.m.id + 1, from |-> Reader, to |-> <<"dan">>, cc |-> <<>>, text |-> <<"plain">>, html |-> Absent,
   mode |-> mode, raw |-> mail.raw, attachments |-> <<>>]
Goes(m, whom, thread) ==
  mail' = [mail EXCEPT !.at = "composing", !.row = "none", !.answers = @ - 1, !.m = m, !.whom = whom, !.thread = thread,
                       !.o = <<>>, !.raw = <<>>, !.attrs = NoAttributes]
Answers ==
  /\ mail.at = "read" /\ mail.answers > 0
  /\ \/ \E all, html \in BOOLEAN :
          Goes(BuildReply(mail.o[1], Options(html, all)), IF all THEN "all" ELSE "sender",
               Append(IF mail.partly THEN <<>> ELSE mail.thread, mail.m.id))
     \/ \E mode \in {"inline"} \cup (IF mail.raw = <<>> THEN {} ELSE {"attachment"}) :
          Goes(BuildForward(mail.o[1], ForwardOptions(mode)), "others", <<>>)
  /\ UNCHANGED <<wireVars, cuts, trapVars, imapVars>>

OnMail == Refuse \/ Send \/ Post \/ Delivered \/ Filed \/ Fetched \/ Looked \/ FetchedTexts \/ Answers
OnWire == Connection /\ UNCHANGED <<mail, imapVars>>
OnMailbox == Mailbox /\ UNCHANGED <<mail, wireVars, trapVars>>
Restart == ~link.open /\ Started
AwaitMessage == mail.waits /\ Wait("ann")
OnTrap ==
  /\ Acting \/ Stopped(link.open /\ link.alive /\ link.greeted) \/ Restart
     \/ AwaitMessage \/ DeadlinePasses \/ Check
  /\ UNCHANGED <<mail, wireVars, cuts, imapVars>>

\* Nothing is left to be done.
Over ==
  /\ mail.at = "read" => mail.answers = 0
  /\ mail.at \in {"over", "read"}
  /\ calls = <<>> /\ events = <<>> /\ waiter.state # "waiting"
  /\ UNCHANGED vars

Next == OnMail \/ OnWire \/ OnMailbox \/ OnTrap \/ Over
Spec == Init /\ [][Next]_vars

-----------------------------------------------------------------------------
(* Properties.                                                             *)

\* Characters of eight bits that go as they are may come apart.
EightBits(raw) == \E i \in DOMAIN raw : EightBit(raw[i])
WithoutEnd(raw) == IF raw # <<>> /\ Last(raw) = LF THEN SubSeq(raw, 1, Len(raw) - 2) ELSE raw

\* What a text and the attachments are for the one who wrote them.
Wrote(m) == IF Falsy(TextFor(m)) THEN Absent ELSE TextFor(m)
WroteHtml(m) == IF Falsy(m.html) THEN Absent ELSE ApplyRichContent(m).html
Written(name, cid, content, raw) == [name |-> name, cid |-> cid, content |-> content, raw |-> raw]
Files(m) ==
  LET as == InlineParts(m) \o RegularParts(m) IN
  (IF m.amp # Absent /\ Wrote(m) # Absent /\ WroteHtml(m) # Absent
   THEN <<Written("attachment", "", m.amp, <<>>)>> ELSE <<>>)
  \o [i \in DOMAIN as |-> IF as[i].raw # <<>> THEN Written(as[i].name, "", <<>>, as[i].raw)
                          ELSE Written(as[i].name, as[i].cid, as[i].content, <<>>)]
  \o (IF m.ical = Absent THEN <<>>
      ELSE <<Written(IF Content(m) = <<>> /\ as = <<>> THEN "attachment" ELSE "invite.ics", "", m.ical, <<>>)>>)
Shown(as) == [i \in DOMAIN as |-> Written(as[i].name, as[i].cid, as[i].content, as[i].raw)]

\* The trap has a message without its last line break, reads a text byte by byte, names a file as old readers do, and takes an
\* invite that comes alone for a text.
ByteByByte(lines) == [i \in DOMAIN lines |-> IF lines[i] \in {"utf8", "quoted utf8"} THEN "garbled" ELSE lines[i]]
InviteAlone(m) == Content(m) = <<>> /\ RegularParts(m) = <<>>
TrapShows(m, msg) ==
  LET files == IF InviteAlone(m) THEN <<>> ELSE Files(m) IN
  /\ DropLast(msg.text) = DropLast(ByteByByte(IF InviteAlone(m) THEN m.ical ELSE Wrote(m)))
  /\ DropLast(msg.html) = DropLast(ByteByByte(WroteHtml(m)))
  /\ Shown(msg.attachments) = [i \in DOMAIN files |-> [files[i] EXCEPT !.name = FormatParam(@).plain]]

\* The server has a message that was sent, whole and for all its recipients, or none:
\* line by line as it was built, wherever the data was cut and whatever its lines begin
\* with, and shows it so (dotStuff(), SmtpServer.ts, the trap's MimeParser.ts).  A
\* message that was accepted is there, and one that waited in a row of the queue is sent
\* like any other.  A service that builds messages itself is told
\* the texts, every file and the thread as they are in the bytes built here, and whoever
\* is reported as accepted, unless it goes by the bytes: there is nobody in Bcc then.
Everyone(s) == {Lower(s[i]) : i \in DOMAIN s}
ToldWhole(m, api, told) ==
  LET read == ParseMessage(Build(m)) IN
  IF api \in ByBytes
  THEN Everyone(read.head[1].to \o read.head[1].cc \o told.to) =
         Everyone(EnvelopeTo(m)) \ (IF api = "mailgun" THEN {} ELSE Everyone(m.bcc))
  ELSE /\ Everyone(told.to \o told.cc \o told.bcc) = Everyone(EnvelopeTo(m))
       /\ told.html = WroteHtml(m) /\ (m.text # Absent => told.text = Wrote(m))
       /\ told.headers = [inReplyTo |-> m.inReplyTo, references |-> m.references]
       /\ {[name |-> a.name, cid |-> a.cid, content |-> a.content] : a \in ToSet(told.files)} =
            {[name |-> a.name, cid |-> a.cid, content |-> a.content] :
               a \in {f \in ToSet(read.attachments) : f.raw = <<>> /\ f.type \notin {"text/calendar", "text/x-amp-html"}}}
Arrived(sent, stored) ==
  /\ stored.to = sent.to
  /\ EightBits(sent.raw) \/ (stored.raw = WithoutEnd(sent.raw) /\ TrapShows(sent.m, stored))
ArrivesWhole ==
  /\ \A i \in DOMAIN trap.mem : \E k \in DOMAIN mail.sent : Arrived(mail.sent[k], trap.mem[i].msg)
  /\ (mail.boxed /\ smtp.result = "sent") =>
       (trap.mem # <<>> /\ Arrived(Last(mail.sent), Last(trap.mem).msg))
  /\ smtp.result = "sent" => trap.count > 0
  /\ (mail.at = "over" /\ mail.sent = <<>> /\ mail.told = <<>>) =>
       Refused(mail.m, Policy) \/ Unfit(mail.m, mail.api) \/ (mail.row # "none" /\ ~Storable(mail.m))
  /\ \A i \in DOMAIN mail.told : ToldWhole(mail.m, mail.api, mail.told[i])

\* What a reader gets is what was written: subject, texts and every file, in their
\* order, with their names, whatever the encodings, the structure of the message, the
\* sections it was fetched in and the responses they came in (Message.ts,
\* MimeParser.ts, ImapParser.ts, ImapBodyStructure.ts).
ReadAsWritten ==
  mail.at = "read" =>
    LET m == mail.m  o == mail.o[1] IN
    /\ o.env.subject = [prefixes |-> m.subject.prefixes, base |-> m.subject.base]
    /\ o.env.from = m.from /\ o.env.to = m.to /\ o.env.cc = m.cc /\ o.env.id = m.id
    /\ IF mail.partly THEN o.text = Wrote(m) /\ o.html = WroteHtml(m)
       ELSE ParseMessage(mail.raw).truncated
            \/ /\ o.text = (IF Wrote(m) = Absent THEN Absent ELSE TrimEnd(Wrote(m)))
               /\ o.html = (IF WroteHtml(m) = Absent THEN Absent ELSE TrimEnd(WroteHtml(m)))
               /\ Shown(o.attachments) = Files(m)
\* An answer belongs to its thread: it names the message it answers and the latest of
\* those before it, in their order, has one prefix before the first subject, and goes to
\* everyone it is for, once, and neither to the one who writes it nor to anyone the
\* original does not name; a reply to all leaves nobody out (Reply.ts).
ThreadKept ==
  (mail.at = "composing" /\ mail.whom # "new") =>
    LET m == mail.m
        first == mail.sent[1].raw[1][2]
        orig == Last(mail.sent).raw[1][2]
        me == Lower(m.from)
        named == Everyone(orig.to \o orig.cc)
        target == IF orig.replyTo = <<>> THEN {Lower(orig.from)} ELSE Everyone(orig.replyTo)
        n == Len(mail.thread)
    IN /\ m.subject = [prefixes |-> << IF mail.whom = "others" THEN "Fwd" ELSE "Re" >>, base |-> first.subject.base]
       /\ mail.whom = "others" => m.references = <<>> /\ m.inReplyTo = NoId
       /\ mail.whom # "others" =>
            /\ m.inReplyTo = Last(mail.thread)
            /\ m.references = SubSeq(mail.thread, IF n > MaxReferences THEN n - MaxReferences + 1 ELSE 1, n)
            /\ m.to # <<>> /\ Cardinality(Everyone(m.to \o m.cc)) = Len(m.to \o m.cc)
            /\ Everyone(m.to \o m.cc) \subseteq named \cup target
            /\ (named \cup target) # {me} => me \notin Everyone(m.to \o m.cc)
            /\ mail.whom = "all" => (named \cup target) \ {me} \subseteq Everyone(m.to \o m.cc)
=============================================================================
