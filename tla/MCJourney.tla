----------------------------- MODULE MCJourney -----------------------------
EXTENDS Journey

File(name, type, cid, enc, content) ==
  [name |-> name, type |-> type, cid |-> cid, file |-> "none", enc |-> enc, content |-> content, raw |-> <<>>, as |-> "bytes"]
Email(raw) ==
  [name |-> "a.eml", type |-> "message/rfc822", cid |-> "", file |-> "none", enc |-> "7bit", content |-> <<>>, raw |-> raw, as |-> "bytes"]

Lines == <<"plain", "dot", "lone", "empty", "utf8", "blank", "long", "brace", "plain">>
Note == [id |-> 1, from |-> "me", to |-> <<"ann", "bob">>, cc |-> <<"ANN", "carl">>, bcc |-> <<"hid">>, replyTo |-> <<>>,
         subject |-> [prefixes |-> <<>>, base |-> "plain"], inReplyTo |-> 0, references |-> <<>>,
         text |-> <<"plain">>, html |-> Absent, amp |-> Absent, ical |-> Absent, rich |-> "none", dates |-> "Date",
         attachments |-> <<>>]
Html == [Note EXCEPT !.text = Absent, !.html = <<"tag", "plain", "utf8", "dot">>]
Both == [Note EXCEPT !.text = Lines, !.html = <<"tag", "brace", "long">>, !.subject.base = "utf8"]
Pdf == File("utf8", "application/pdf", "", "base64", <<"dot", "utf8">>)
Image == File("i", "image/png", "c1", "base64", <<"plain">>)
Plain == File("a.txt", "text/plain", "", "8bit", <<"dot", "utf8", "empty", "brace">>)

Messages ==
  { Note, Html, Both,
    [Note EXCEPT !.text = Lines, !.subject.base = "looks encoded", !.replyTo = <<"list">>],
    [Note EXCEPT !.attachments = <<Pdf>>],
    [Both EXCEPT !.attachments = <<Plain, Pdf, Image>>, !.amp = <<"tag">>],
    [Html EXCEPT !.attachments = <<Image>>],
    [Note EXCEPT !.text = Absent, !.attachments = <<Pdf, Plain>>],
    [Note EXCEPT !.text = Absent, !.ical = Lines],
    [Both EXCEPT !.ical = Lines, !.attachments = <<File("b.txt", "text/plain", "", "quoted-printable", Lines)>>],
    [Note EXCEPT !.attachments = <<Email(Build([Both EXCEPT !.id = 9])), File("c", "text/plain", "", "7bit", <<"lone", "plain">>)>>],
    [Note EXCEPT !.attachments = <<Email(Build([Both EXCEPT !.id = 9, !.attachments = <<Image, Pdf>>]))>>],
    [Note EXCEPT !.text = Absent], [Note EXCEPT !.amp = <<"tag">>],
    [Html EXCEPT !.rich = "typed"], [Html EXCEPT !.rich = "untyped"], [Note EXCEPT !.rich = "typed"],
    [Note EXCEPT !.attachments = << [Pdf EXCEPT !.file = "outside"] >>],
    [Note EXCEPT !.attachments = << [Plain EXCEPT !.file = "inside"], Pdf >>] }

\* Messages that wait in a row.
Rows ==
  { Note, [Both EXCEPT !.ical = Lines, !.rich = "typed", !.attachments = <<[Plain EXCEPT !.as = "text"], Pdf, Image>>],
    [Note EXCEPT !.attachments = <<Email(Build([Both EXCEPT !.id = 9])), [Plain EXCEPT !.file = "inside"]>>] }

\* Every message with its data cut once; some answered, one twice, some taken
\* from a row; connections
\* through every proxy; two messages for the user of the trap's page; and every message
\* for every service, an answer as well.
Alone(m) == [m |-> m, row |-> "none", api |-> "none", proxy |-> "none", cuts |-> 1, answers |-> 0, again |-> 0, boxed |-> TRUE,
             waits |-> FALSE, clicks |-> 0, kills |-> 0]
AnsweredTimes(m, n) == [Alone(m) EXCEPT !.cuts = 0, !.answers = n]
Through(proxy) == [Alone(Note) EXCEPT !.proxy = proxy, !.boxed = FALSE]
AtTrap(again, clicks, kills, waits) ==
  [Alone(Note) EXCEPT !.cuts = 0, !.again = again, !.boxed = FALSE, !.waits = waits, !.clicks = clicks, !.kills = kills]
MCStarts == {Alone(m) : m \in Messages} \cup {AnsweredTimes(m, 1) : m \in Messages}
            \cup {AnsweredTimes([Note EXCEPT !.references = <<6, 7>>], 2)}
            \cup {Through(p) : p \in {"http", "socks4", "socks5", "socks5 auth"}}
            \cup {[Alone(m) EXCEPT !.cuts = 0, !.row = row] : m \in Rows, row \in {"1", "legacy"}}
            \cup {[Alone([Note EXCEPT !.attachments = << [Pdf EXCEPT !.as = "stream"] >>]) EXCEPT !.row = row] :
                     row \in {"none", "1"}}
            \cup {AtTrap(1, 3, 0, FALSE), AtTrap(0, 3, 1, FALSE), AtTrap(1, 2, 1, FALSE), AtTrap(0, 1, 1, TRUE)}
            \cup {[Alone(m) EXCEPT !.api = api] : api \in ByBytes \cup ByFields,
                   m \in Messages \cup {[Both EXCEPT !.inReplyTo = 8, !.references = <<7, 8>>]}}
=============================================================================
