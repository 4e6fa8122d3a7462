-------------------------------- MODULE Mime --------------------------------
(***************************************************************************)
(* A message between the options an application writes and the bytes on    *)
(* the wire: buildMessage() (src/src/core/Message.ts, Attachment.ts), the  *)
(* parser (MimeParser.ts) and the trap server's own parser                 *)
(* (packages/trap/src/server/MimeParser.ts).                               *)
(*                                                                         *)
(* Bytes are a sequence of tokens <<kind, value, dots>>: a line's content  *)
(* with the dots it begins with, the header block of an entity, or a CR or *)
(* LF.  Text is a sequence of lines named for what an encoder or a reader  *)
(* has to do about them.                                                   *)
(***************************************************************************)
EXTENDS Naturals, Sequences, SequencesExt, FiniteSets

CONSTANTS
  MaxDepth,  \* MimeLimits
  MaxParts

ASSUME MimeConstants == MaxDepth \in Nat /\ MaxParts \in Nat \ {0}

\* Definitions that are used nowhere below are variants of the definition that
\* follows them, each with a mistake that a property is meant to catch.

CR == <<"CR", "", 0>>
LF == <<"LF", "", 0>>
CRLF == <<CR, LF>>

\* Contents of a text or a file.  "long" needs a soft line break, and what follows
\* the break begins with a dot; "brace" ends like the announcement of an IMAP literal.
\* A reply quotes lines.
Line == {"plain", "dot", "lone", "empty", "utf8", "blank", "long", "brace", "tag",
         "quoted", "quoted utf8", "quoted blank", "card"}
Absent == <<>>
Nothing == <<"empty">>
Falsy(text) == text \in {Absent, Nothing}

JoinLines(s) == IF s = <<>> THEN <<>> ELSE FoldLeft(LAMBDA t, l : t \o CRLF \o l, Head(s), Tail(s))
SplitLines(s) ==
  FoldLeft(LAMBDA ls, t : IF t = LF THEN Append(ls, <<>>)
                          ELSE IF t = CR THEN ls
                          ELSE [ls EXCEPT ![Len(ls)] = Append(@, t)],
           << <<>> >>, s)

\* Empty lines at either end of a text, and white space at its end.
DropLast(lines) ==
  LET full == {i \in DOMAIN lines : lines[i] # "empty"}
  IN IF full = {} THEN Nothing ELSE SubSeq(lines, 1, CHOOSE i \in full : \A k \in full : k <= i)
DropFirst(lines) == Reverse(DropLast(Reverse(lines)))
TrimEnd(lines) ==
  LET kept == DropLast(lines)
  IN [kept EXCEPT ![Len(kept)] = CASE @ = "blank" -> "plain" [] @ = "quoted blank" -> "quoted" [] OTHER -> @]

-----------------------------------------------------------------------------
(* Transfer encodings.                                                     *)

\* A line as the text after its leading dots and their number; what is no text is the
\* source of an entity.
Piece(l) == CASE l = "dot" -> <<"plain", 1>> [] l = "lone" -> <<"", 1>>
              [] l = "empty" -> <<"", 0>> [] OTHER -> <<l, 0>>
LineOf(p) == CASE p = <<"plain", 1>> -> "dot" [] p = <<"", 1>> -> "lone"
               [] p = <<"", 0>> -> "empty" [] p[2] = 0 -> p[1] [] OTHER -> "mangled"
Wire(kind, p) == IF p = <<"", 0>> THEN <<>> ELSE << <<kind, p[1], p[2]>> >>
PieceOf(wire) == IF wire = <<>> THEN <<"", 0>>
                 ELSE IF wire[1][1] \in {"raw", "qp", "qp="} THEN <<wire[1][2], wire[1][3]>> ELSE <<"source", 0>>

\* encodeQP(): bytes above 7 bits, blanks at the end of a line and lines that are
\* too long.
QPLines(l) == CASE l = "long" -> << Wire("qp", <<"long=", 0>>), Wire("qp", <<"plain", 1>>) >>
                [] l \in {"utf8", "blank", "quoted utf8", "quoted blank"} -> << << <<"qp=", l, 0>> >> >>
                [] OTHER -> << Wire("qp", Piece(l)) >>
EncodeQP(lines) == JoinLines(FlattenSeq([k \in DOMAIN lines |-> QPLines(lines[k])]))
EncodeRaw(lines) == JoinLines([i \in DOMAIN lines |-> Wire("raw", Piece(lines[i]))])
EncodeBase64(lines) == IF lines = Nothing THEN <<>> ELSE << <<"b64", lines, 0>> >>

\* The lines in `garbled' do not come through.
DecodeQP(body, garbled) ==
  FoldLeft(LAMBDA out, w :
             LET p == PieceOf(w)
             IN IF out.soft THEN [lines |-> Append(out.lines, IF p = <<"plain", 1>> THEN "long" ELSE "mangled"),
                                  soft |-> FALSE]
                ELSE IF p = <<"long=", 0>> THEN [out EXCEPT !.soft = TRUE]
                ELSE [out EXCEPT !.lines = Append(@, IF w # <<>> /\ w[1][1] = "qp="
                                        THEN IF p[1] \in garbled THEN "garbled" ELSE p[1]
                                        ELSE LineOf(p))],
           [lines |-> <<>>, soft |-> FALSE], SplitLines(body)).lines
DecodeRaw(body) == LET ws == SplitLines(body) IN [i \in DOMAIN ws |-> LineOf(PieceOf(ws[i]))]
DecodeBase64(body) ==
  LET s == SelectSeq(body, LAMBDA t : t[1] = "b64") IN IF s = <<>> THEN Nothing ELSE s[1][2]

\* decodeTransfer() and decodeText(); the trap reads each encoded byte of a text as
\* a character.
Decode(body, enc) ==
  CASE enc = "quoted-printable" -> DecodeQP(body, {})
    [] enc = "base64" -> DecodeBase64(body)
    [] OTHER -> DecodeRaw(body)
TrapDecodeText(body, enc) ==
  IF enc = "quoted-printable" THEN DecodeQP(body, {"utf8", "quoted utf8"}) ELSE Decode(body, enc)

-----------------------------------------------------------------------------
(* Header values.                                                          *)

\* encodeUnstructured(): text that is not ASCII, or that a reader would take for an
\* encoded word, is encoded.
EncodeSubject(s) == [prefixes |-> s.prefixes, base |-> s.base, encoded |-> s.base \in {"utf8", "looks encoded"}]

\* decodeRfc2047().
DecodeSubject(s) ==
  [prefixes |-> s.prefixes, base |-> IF ~s.encoded /\ s.base = "looks encoded" THEN "mistaken" ELSE s.base]

\* formatParam(): a name that is not ASCII goes with a fallback for old readers.
FormatParam(name) ==
  IF name = "utf8" THEN [plain |-> "fallback", extended |-> "utf8"] ELSE [plain |-> name, extended |-> ""]

\* parseHeaderValue(): the extended form wins.
ReadParam(p) == IF p.extended # "" THEN p.extended ELSE p.plain

-----------------------------------------------------------------------------
(* buildMessage().                                                         *)

NoHead == [type |-> "text/plain", boundary |-> <<>>, disp |-> "", name |-> FormatParam(""), cid |-> "",
           enc |-> "7bit"]
Leaf(head, body) == [head |-> head, body |-> body, kids |-> <<>>]
Multipart(type, kids) == [head |-> [NoHead EXCEPT !.type = type], body |-> <<>>, kids |-> kids]

TextEntity(type, lines) ==
  Leaf([NoHead EXCEPT !.type = type, !.enc = "quoted-printable"], EncodeQP(lines))

\* calendarEntity(): the invite alone, or the file beside other parts.
Calendar == [NoHead EXCEPT !.type = "text/calendar", !.enc = "quoted-printable"]
CalendarPart(lines) == Leaf(Calendar, EncodeQP(lines))
CalendarFile(lines) ==
  Leaf([Calendar EXCEPT !.disp = "attachment", !.name = FormatParam("invite.ics")], EncodeQP(lines))

\* getContent(): bytes, a text or a stream; nothing else is read.
Readable == {"bytes", "text", "stream"}

\* checkPath(): `path` attachments are read only as far as the policy allows.
PathAllowed(a, policy) ==
  \/ a.file = "none"
  \/ policy = "allow" /\ a.file # "missing"
  \/ policy = "root" /\ a.file = "inside"
Sendable(a, policy) ==
  \/ a.raw # <<>> /\ a.as \in Readable
  \/ a.as \in Readable /\ PathAllowed(a, policy) /\ (a.enc = "7bit" => "utf8" \notin ToSet(a.content))

AttachmentEntity(a) ==
  IF a.raw # <<>>
  THEN Leaf([NoHead EXCEPT !.type = "message/rfc822", !.disp = "attachment", !.name = FormatParam(a.name)], a.raw)
  ELSE Leaf([type |-> a.type, boundary |-> <<>>, name |-> FormatParam(a.name), cid |-> a.cid,
              enc |-> a.enc, disp |-> IF a.cid # "" THEN "inline" ELSE "attachment"],
            CASE a.enc = "base64" -> EncodeBase64(a.content)
              [] a.enc = "quoted-printable" -> EncodeQP(a.content)
              [] OTHER -> EncodeRaw(a.content))

\* htmlToText().
HtmlToText(html) == DropFirst(TrimEnd(SelectSeq(html, LAMBDA l : l \notin {"tag", "card"})))
TextFor(m) == IF m.text # Absent THEN m.text ELSE IF Falsy(m.html) THEN Absent ELSE HtmlToText(m.html)

InlineParts(m) == SelectSeq(m.attachments, LAMBDA a : a.cid # "" /\ a.raw = <<>>)
RegularParts(m) == SelectSeq(m.attachments, LAMBDA a : a.cid = "" \/ a.raw # <<>>)
Entities(as) == [i \in DOMAIN as |-> AttachmentEntity(as[i])]

\* text, html, or both with amp between them: none or one entity.
TextContent(m) ==
  LET text == TextFor(m) IN
  CASE ~Falsy(text) /\ ~Falsy(m.html) ->
         << Multipart("multipart/alternative",
                      <<TextEntity("text/plain", text)>>
                      \o (IF m.amp = Absent THEN <<>> ELSE <<TextEntity("text/x-amp-html", m.amp)>>)
                      \o <<TextEntity("text/html", m.html)>>) >>
    [] Falsy(text) /\ ~Falsy(m.html) -> <<TextEntity("text/html", m.html)>>
    [] ~Falsy(text) /\ Falsy(m.html) -> <<TextEntity("text/plain", text)>>
    [] OTHER -> <<>>
Content(m) ==
  IF InlineParts(m) = <<>> THEN TextContent(m)
  ELSE << Multipart("multipart/related", TextContent(m) \o Entities(InlineParts(m))) >>
Root(m) ==
  IF Content(m) = <<>> /\ m.ical # Absent /\ RegularParts(m) = <<>> THEN CalendarPart(m.ical)
  ELSE IF m.ical = Absent /\ RegularParts(m) = <<>> THEN Content(m)[1]
  ELSE Multipart("multipart/mixed",
                 Content(m) \o Entities(RegularParts(m))
                 \o (IF m.ical = Absent THEN <<>> ELSE <<CalendarFile(m.ical)>>))

\* checkAmp(), applyRichContent(): structured data and cards, which name their type, go
\* into the html as scripts in its head, here with the <html> tag that is its first line.
AmpFits(m) == m.amp # Absent => ~Falsy(m.html)
RichFits(m) == m.rich # "none" => m.rich = "typed" /\ ~Falsy(m.html)
InjectIntoHead(html) == <<"card">> \o (IF Head(html) = "tag" THEN Tail(html) ELSE html)
ApplyRichContent(m) ==
  IF m.rich = "none" THEN m ELSE [m EXCEPT !.rich = "none", !.html = InjectIntoHead(@)]

\* A message the builder throws at.
Refused(m, policy) ==
  \/ m.to = <<>>
  \/ m.dates # "Date"
  \/ ~AmpFits(m) \/ ~RichFits(m)
  \/ Falsy(TextFor(m)) /\ Falsy(m.html) /\ m.attachments = <<>> /\ m.ical = Absent
  \/ InlineParts(m) # <<>> /\ TextContent(m) = <<>>
  \/ \E a \in ToSet(m.attachments) : ~Sendable(a, policy)

\* serializeEntity(): every multipart has a boundary of its own, here the place it
\* has in its message.
RECURSIVE Serialize(_, _)
Serialize(e, boundary) ==
  IF e.kids = <<>> THEN << <<"head", e.head, 0>> >> \o CRLF \o CRLF \o e.body
  ELSE << <<"head", [e.head EXCEPT !.boundary = boundary], 0>> >> \o CRLF \o CRLF
       \o FlattenSeq([i \in DOMAIN e.kids |->
                        << <<"delim", boundary, 0>> >> \o CRLF \o Serialize(e.kids[i], Append(boundary, i)) \o CRLF])
       \o << <<"close", boundary, 0>> >> \o CRLF

\* The headers that replies and readers go by; there is none for Bcc.
MessageHead(m) ==
  [id |-> m.id, from |-> m.from, to |-> m.to, cc |-> m.cc, replyTo |-> m.replyTo,
   subject |-> EncodeSubject(m.subject),
   inReplyTo |-> m.inReplyTo, references |-> m.references]
Build(m) == << <<"mhead", MessageHead(m), 0>> >> \o CRLF \o Serialize(Root(ApplyRichContent(m)), <<m.id>>)

\* dedupe(): addresses are one whatever their case.
Lower(who) == IF who = "ANN" THEN "ann" ELSE who
Dedupe(s) ==
  FoldLeft(LAMBDA out, x : IF \E y \in ToSet(out) : Lower(x) = Lower(y) THEN out ELSE Append(out, x), <<>>, s)
EnvelopeTo(m) == Dedupe(m.to \o m.cc \o m.bcc)

-----------------------------------------------------------------------------
(* parseMime().                                                            *)

SplitHeadBody(s) ==
  IF Len(s) >= 2 /\ s[1] = CR THEN [head |-> <<>>, body |-> SubSeq(s, 3, Len(s))]
  ELSE LET ends == {i \in 1..(Len(s) - 3) : s[i] = CR /\ s[i + 2] = CR} IN
       IF ends = {} THEN [head |-> s, body |-> <<>>]
       ELSE LET i == CHOOSE k \in ends : \A o \in ends : k <= o
            IN [head |-> SubSeq(s, 1, i - 1), body |-> SubSeq(s, i + 4, Len(s))]

HeadOf(head, default) ==
  LET hs == SelectSeq(head, LAMBDA t : t[1] = "head") IN IF hs = <<>> THEN [NoHead EXCEPT !.type = default] ELSE hs[1][2]

\* Lines that are a delimiter of the boundary, up to the closing one.
Marks(body, boundary) ==
  LET at == {i \in DOMAIN body : /\ body[i][1] \in {"delim", "close"} /\ body[i][2] = boundary
                                 /\ i # 1 => body[i - 1] = LF}
  IN SetToSortSeq({i \in at : \A k \in at : k < i => body[k][1] = "delim"}, <)

SplitMultipartKeepingBreaks(body, boundary) ==
  LET ms == Marks(body, boundary) IN
  [i \in 1..(Len(ms) - 1) |-> SubSeq(body, ms[i] + 3, ms[i + 1] - 1)]

\* splitMultipart(): the CRLF before a delimiter belongs to it; a body that is never
\* closed ends with its last entity.
SplitMultipart(body, boundary) ==
  LET ms == Marks(body, boundary)
      n == Len(ms)
  IN [i \in 1..(n - 1) |-> SubSeq(body, ms[i] + 3, ms[i + 1] - 3)]
     \o (IF n > 0 /\ body[ms[n]][1] = "delim" THEN <<SubSeq(body, ms[n] + 3, Len(body))>> ELSE <<>>)

IsMultipart(h) == h.type \in {"multipart/mixed", "multipart/alternative", "multipart/related"}

\* `n' counts the parts of the whole message; past a limit the rest is left out.
RECURSIVE ParseMime(_, _, _)
ParseMime(s, depth, n) ==
  LET sp == SplitHeadBody(s)
      h == HeadOf(sp.head, "text/plain")
      part == [kind |-> "leaf", h |-> h, head |-> sp.head, body |-> sp.body, parts |-> <<>>]
      Child(r, p) ==
        IF r.n >= MaxParts THEN [r EXCEPT !.truncated = TRUE]
        ELSE LET c == ParseMime(p, depth + 1, r.n)
             IN [part |-> [r.part EXCEPT !.parts = Append(@, c.part)], n |-> c.n,
                 truncated |-> r.truncated \/ c.truncated]
      Into(kind, bodies) ==
        FoldLeft(Child, [part |-> [part EXCEPT !.kind = kind], n |-> n + 1, truncated |-> FALSE], bodies)
  IN CASE (IsMultipart(h) \/ h.type = "message/rfc822") /\ depth >= MaxDepth ->
            [part |-> part, n |-> n + 1, truncated |-> TRUE]
       [] IsMultipart(h) /\ depth < MaxDepth -> Into("multipart", SplitMultipart(sp.body, h.boundary))
       [] h.type = "message/rfc822" /\ depth < MaxDepth ->
            IF n + 1 >= MaxParts THEN [part |-> part, n |-> n + 1, truncated |-> TRUE]
            ELSE Into("message", <<sp.body>>)
       [] OTHER -> [part |-> part, n |-> n + 1, truncated |-> FALSE]

-----------------------------------------------------------------------------
(* collectBody(): the first text, the first html, and all the rest.        *)

\* envelopeFromHeaders().
EnvelopeOf(head) ==
  LET hs == SelectSeq(head, LAMBDA t : t[1] = "mhead")
  IN [i \in DOMAIN hs |-> [hs[i][2] EXCEPT !.subject = DecodeSubject(@)]]
Named(name, default) == IF name = "" THEN default ELSE name

RECURSIVE Walk(_, _, _)
Walk(out, part, isRoot) ==
  LET h == part.h
      text == TrimEnd(Decode(part.body, h.enc))
      Attach(name, content, nested) ==
        [out EXCEPT !.attachments =
           Append(@, [name |-> name, type |-> h.type, cid |-> h.cid, inline |-> h.disp = "inline",
                      content |-> content, raw |-> IF nested = <<>> THEN <<>> ELSE part.body, nested |-> nested])]
      Rest == Attach(Named(ReadParam(h.name), IF h.disp = "inline" THEN "inline" ELSE "attachment"), Decode(part.body, h.enc), <<>>)
  IN CASE part.kind = "multipart" -> FoldLeft(LAMBDA o, p : Walk(o, p, FALSE), out, part.parts)
       [] part.kind = "message" /\ ~isRoot /\ part.parts # <<>> ->
            Attach(Named(ReadParam(h.name), "forwarded-message.eml"), <<>>,
                   <<Walk([head |-> EnvelopeOf(part.parts[1].head), text |-> Absent, html |-> Absent,
                           attachments |-> <<>>], part.parts[1], TRUE)>>)
       [] part.kind = "leaf" /\ h.type = "text/plain" /\ h.disp # "attachment" /\ out.text = Absent ->
            IF isRoot \/ text # Nothing THEN [out EXCEPT !.text = text] ELSE out
       [] part.kind = "leaf" /\ h.type = "text/html" /\ h.disp # "attachment" /\ out.html = Absent ->
            IF isRoot \/ text # Nothing THEN [out EXCEPT !.html = text] ELSE out
       [] part.kind = "leaf" /\ h.type \in {"text/plain", "text/html"} /\ h.disp = "inline" -> out
       [] OTHER -> Rest

\* parseMessage().
ParseMessage(raw) ==
  LET r == ParseMime(raw, 0, 0)
      v == Walk([head |-> EnvelopeOf(r.part.head), text |-> Absent, html |-> Absent, attachments |-> <<>>],
                r.part, TRUE)
  IN [head |-> v.head, text |-> v.text, html |-> v.html, attachments |-> v.attachments, truncated |-> r.truncated]

-----------------------------------------------------------------------------
(* The trap server's parser.                                               *)

\* splitParts(): entities between delimiters; the one that is not closed is dropped.
TrapParts(body, boundary) ==
  LET ms == Marks(body, boundary)
      filled == SelectSeq([i \in 1..(Len(ms) - 1) |-> i], LAMBDA i : ms[i + 1] > ms[i] + 3)
  IN [i \in DOMAIN filled |-> SubSeq(body, ms[filled[i]] + 3, ms[filled[i] + 1] - 3)]

RECURSIVE TrapWalk(_, _)
TrapWalk(out, s) ==
  LET sp == SplitHeadBody(s)
      h == HeadOf(sp.head, "text/plain")
      attached == h.disp = "attachment" \/ (h.name.plain # "" /\ h.cid = "")
      text == TrapDecodeText(sp.body, h.enc)
  IN CASE IsMultipart(h) -> FoldLeft(TrapWalk, out, TrapParts(sp.body, h.boundary))
       [] h.type = "text/plain" /\ ~attached -> [out EXCEPT !.text = text]
       [] h.type = "text/html" /\ ~attached -> [out EXCEPT !.html = text]
       [] OTHER -> [out EXCEPT !.attachments =
                      Append(@, [name |-> Named(h.name.plain, "attachment"), type |-> h.type, cid |-> h.cid,
                                 content |-> IF h.type = "message/rfc822" THEN <<>> ELSE Decode(sp.body, h.enc),
                                 raw |-> IF h.type = "message/rfc822" THEN sp.body ELSE <<>>])]

TrapParse(raw) ==
  LET sp == SplitHeadBody(raw)
      h == HeadOf(sp.head, "text/plain")
      none == [head |-> EnvelopeOf(sp.head), text |-> Absent, html |-> Absent, attachments |-> <<>>]
  IN CASE IsMultipart(h) -> FoldLeft(TrapWalk, none, TrapParts(sp.body, h.boundary))
       [] h.type = "text/html" -> [none EXCEPT !.html = TrapDecodeText(sp.body, h.enc)]
       [] OTHER -> [none EXCEPT !.text = TrapDecodeText(sp.body, h.enc)]
=============================================================================
