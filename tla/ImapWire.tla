------------------------------ MODULE ImapWire ------------------------------
(***************************************************************************)
(* A message in a mailbox, as bytes on an IMAP connection: the client's    *)
(* commands and literals (src/src/imap: ImapClient.ts, ImapCommands.ts),   *)
(* the responses it puts together (ImapParser.ts), takes apart             *)
(* (ImapTokenizer.ts, ImapFetch.ts, ImapBodyStructure.ts) and makes a      *)
(* message of (ImapSession.ts).  The server is external.  The faults of    *)
(* the connection are in ImapSession.tla.                                  *)
(***************************************************************************)
EXTENDS Reply, Arrival

VARIABLES
  imap,  \* the client: the command that runs, its literal not sent yet, input, responses and outcome
  net    \* the connection in both directions, and the server: its mailbox and whether it asked for a literal

imapVars == <<imap, net>>

-----------------------------------------------------------------------------
(* Tokens of a response: lists, NIL, strings and atoms, and literals.      *)

Tok(kind, value) == <<kind, value, 0>>
Str(value) == << Tok("str", value) >>
Nil == << Tok("nil", "") >>
List(tokens) == << Tok("(", "") >> \o tokens \o << Tok(")", "") >>
Literal(raw) == << Tok("lit", Len(raw)) >> \o CRLF \o raw

-----------------------------------------------------------------------------
(* feed(): responses out of what arrives.                                  *)

LineEnd(s) == {i \in 1..(Len(s) - 1) : s[i] = CR /\ s[i + 1] = LF}
FirstOf(set) == CHOOSE i \in set : \A k \in set : i <= k

\* What announces a literal at the end of a line, its size; else 0.  A line of a
\* message may end like that.
Announces(line) ==
  line # <<>> /\ \/ Last(line)[1] = "lit"
                 \/ Last(line)[1] \in {"raw", "qp"} /\ Last(line)[2] = "brace"
SizeOf(line) == IF Last(line)[1] = "lit" THEN Last(line)[2] ELSE 5

RECURSIVE Feed(_)
Feed(p) ==
  IF p.owed > 0
  THEN IF Len(p.pending) < p.owed THEN p
       ELSE Feed([p EXCEPT !.parts = @ \o SubSeq(p.pending, 1, p.owed), !.owed = 0,
                           !.pending = SubSeq(@, p.owed + 1, Len(@))])
  ELSE IF LineEnd(p.pending) = {} THEN p
  ELSE LET k == FirstOf(LineEnd(p.pending))
           line == SubSeq(p.pending, 1, k - 1)
           q == [p EXCEPT !.pending = SubSeq(@, k + 2, Len(@))]
       IN IF Announces(line) THEN Feed([q EXCEPT !.parts = @ \o line \o CRLF, !.owed = SizeOf(line)])
          ELSE Feed([q EXCEPT !.parts = <<>>, !.responses = Append(@, p.parts \o line)])

\* tokenize(): literals by their length, the rest by what it begins with.
Push(stack, t) == Append(Front(stack), Append(Last(stack), t))
TokenizeOne(st, t) ==
  IF st.owed > 1 THEN [st EXCEPT !.owed = @ - 1, !.lit = Append(@, t)]
  ELSE IF st.owed = 1
  THEN [st EXCEPT !.owed = 0, !.stack = Push(@, Tok("str", SubSeq(Append(st.lit, t), 3, Len(st.lit) + 1)))]
  ELSE CASE t[1] = "lit" -> [st EXCEPT !.owed = t[2] + 2, !.lit = <<>>]
         [] t[1] = "(" -> [st EXCEPT !.stack = Append(@, <<>>)]
         [] t[1] = ")" /\ Len(st.stack) > 1 -> [st EXCEPT !.stack = Push(Front(@), Tok("list", Last(@)))]
         [] t[1] \in {"nil", "str", "key"} -> [st EXCEPT !.stack = Push(@, t)]
         [] OTHER -> st
Tokenize(s) == FoldLeft(TokenizeOne, [stack |-> << <<>> >>, owed |-> 0, lit |-> <<>>], s).stack[1]

IsList(t) == t[1] = "list"
ItemsOf(t) == IF IsList(t) THEN t[2] ELSE <<>>
ValueOr(t, default) == IF t[1] = "str" THEN t[2] ELSE default

-----------------------------------------------------------------------------
(* exec(): one command at a time.                                          *)

\* The literal goes with the command where the server takes it unasked, else when it
\* asks for it.
Idle == [busy |-> FALSE, literal |-> <<>>, pending |-> <<>>, parts |-> <<>>, owed |-> 0, untagged |-> <<>>, answer |-> "none"]
Run(command, literal) ==
  LET head == << Tok("command", command) >>
      announced == IF literal = <<>> THEN head \o CRLF ELSE head \o << Tok("lit", Len(literal[1])) >> \o CRLF
      unasked == net.plus /\ literal # <<>>
  IN /\ ~imap.busy
     /\ imap' = [Idle EXCEPT !.busy = TRUE, !.literal = IF unasked THEN <<>> ELSE literal]
     /\ net' = [net EXCEPT !.up = announced \o (IF unasked THEN literal[1] \o CRLF ELSE <<>>)]

\* append(), fetch() and fetchSections().
AppendMessage(raw) == Run([verb |-> "APPEND", items |-> <<>>], <<raw>>)
Fetch(items) == Run([verb |-> "FETCH", items |-> items], <<>>)
Item(what, path) == [what |-> what, path |-> path]

\* handleResponse(): a literal that is refused is not sent.
HandleResponse(c, r) ==
  CASE r[1][1] = "+" -> [c EXCEPT !.literal = <<>>, !.out = @ \o FlattenSeq(c.literal) \o CRLF]
    [] r[1][1] = "*" -> [c EXCEPT !.untagged = Append(@, r)]
    [] r[1][1] = "tag" -> [c EXCEPT !.busy = FALSE, !.literal = <<>>, !.answer = r[1][2]]
ImapReads ==
  /\ \E n \in Pieces(net.down) :
       LET p == Feed([pending |-> imap.pending \o SubSeq(net.down, 1, n), parts |-> imap.parts, owed |-> imap.owed,
                      responses |-> <<>>])
           c == FoldLeft(HandleResponse,
                         [busy |-> imap.busy, literal |-> imap.literal, untagged |-> imap.untagged,
                          answer |-> imap.answer, out |-> <<>>], p.responses)
       IN /\ Cut(net.down, n)
          /\ imap' = [busy |-> c.busy, literal |-> c.literal, untagged |-> c.untagged, answer |-> c.answer,
                      pending |-> p.pending, parts |-> p.parts, owed |-> p.owed]
          /\ net' = [net EXCEPT !.down = SubSeq(@, n + 1, Len(@)), !.up = @ \o c.out]

-----------------------------------------------------------------------------
(* parseFetchAttributes() and mergeByUid().                                *)

\* envelopeFromToken(): there are no references in an ENVELOPE.
Addresses(t) == [i \in DOMAIN ItemsOf(t) |-> ItemsOf(t)[i][2]]
EnvelopeFromToken(t) ==
  LET f == ItemsOf(t) IN
  [subject |-> DecodeSubject(f[1][2]), from |-> Addresses(f[2])[1], replyTo |-> Addresses(f[3]),
   to |-> Addresses(f[4]), cc |-> Addresses(f[5]), inReplyTo |-> ValueOr(f[6], NoId), id |-> ValueOr(f[7], NoId),
   references |-> <<>>]

\* findDisposition(): a list of a name and parameters behind the fields of the type.
FindDisposition(f, start) ==
  LET at == {i \in start..Len(f) : IsList(f[i]) /\ Len(f[i][2]) = 2 /\ f[i][2][1][1] = "str"}
  IN IF at = {} THEN <<>> ELSE ItemsOf(f[FirstOf(at)])

\* bodyStructureFromToken(): parts are numbered from 1 at every level; a message
\* that is not a multipart is part 1 of itself.
ParamName(t) == IF ItemsOf(t) = <<>> THEN "" ELSE ReadParam(ItemsOf(t)[1][2])
ParseLeaf(f, section) ==
  LET start == CASE f[1][2] \in {"text/plain", "text/html", "text/calendar", "text/x-amp-html"} -> 7
                 [] f[1][2] = "message/rfc822" /\ IsList(f[7]) -> 9 [] OTHER -> 6
      dsp == FindDisposition(f, start)
      named == IF dsp = <<>> THEN "" ELSE ParamName(dsp[2])
  IN [type |-> f[1][2], section |-> section, cid |-> ValueOr(f[3], ""), enc |-> f[4][2],
      disp |-> IF dsp = <<>> THEN "" ELSE dsp[1][2], name |-> Named(named, ParamName(f[2])), parts |-> <<>>]
RECURSIVE BodyStructureFromToken(_, _)
BodyStructureFromToken(t, prefix) ==
  LET items == ItemsOf(t) IN
  IF IsList(items[1])
  THEN LET kids == SelectSeq(items, IsList) IN
       [type |-> Last(items)[2], section |-> prefix, cid |-> "", enc |-> "", disp |-> "", name |-> "",
        parts |-> [i \in DOMAIN kids |-> BodyStructureFromToken(kids[i], Append(prefix, i))]]
  ELSE ParseLeaf(items, IF prefix = <<>> THEN <<1>> ELSE prefix)

\* Keys and values by turns.
NoAttributes == [uid |-> 0, envelope |-> <<>>, structure |-> <<>>, sections |-> <<>>]
ParseFetchAttributes(r) ==
  LET attrs == ItemsOf(Tokenize(Tail(r))[1])
      One(out, i) ==
        LET what == attrs[2 * i - 1][2].what  val == attrs[2 * i] IN
        CASE what = "UID" -> [out EXCEPT !.uid = val[2]]
          [] what = "ENVELOPE" -> [out EXCEPT !.envelope = <<EnvelopeFromToken(val)>>]
          [] what = "BODYSTRUCTURE" -> [out EXCEPT !.structure = <<BodyStructureFromToken(val, <<>>)>>]
          [] what = "BODY" ->
               [out EXCEPT !.sections = Append(@, <<attrs[2 * i - 1][2].path, ValueOr(val, <<>>)>>)]
          [] OTHER -> out
  IN FoldLeft(One, NoAttributes, [i \in 1..(Len(attrs) \div 2) |-> i])

\* What the server says of the message, in one response or more; responses without a
\* UID are about something else.
Merged(untagged) ==
  FoldLeft(LAMBDA m, a : IF a.uid = 0 THEN m
                         ELSE [uid |-> a.uid, envelope |-> IF a.envelope = <<>> THEN m.envelope ELSE a.envelope,
                               structure |-> IF a.structure = <<>> THEN m.structure ELSE a.structure,
                               sections |-> m.sections \o a.sections],
           NoAttributes, [i \in DOMAIN untagged |-> ParseFetchAttributes(untagged[i])])
Sections(a, path) == SelectSeq(a.sections, LAMBDA s : s[1] = path)

-----------------------------------------------------------------------------
(* fetch() of the session.                                                 *)

Everything == <<Item("UID", <<>>), Item("ENVELOPE", <<>>), Item("BODY", <<>>)>>
Overview == <<Item("UID", <<>>), Item("ENVELOPE", <<>>), Item("BODYSTRUCTURE", <<>>)>>

\* messageFromAttributes(): the references are those of the whole message.
MessageFrom(a) ==
  LET full == ParseMessage(Sections(a, <<>>)[1][2]) IN
  [env |-> [a.envelope[1] EXCEPT !.references = full.head[1].references],
   text |-> full.text, html |-> full.html, attachments |-> full.attachments]

\* findLeaf(): the first that is no attachment.
RECURSIVE FindLeaf(_, _)
FindLeaf(node, type) ==
  IF node.parts = <<>> THEN IF node.type = type /\ node.disp # "attachment" THEN <<node>> ELSE <<>>
  ELSE FoldLeft(LAMBDA found, n : IF found = <<>> THEN FindLeaf(n, type) ELSE found, <<>>, node.parts)

\* fetchTextOnly(): the texts' sections, then the texts; nothing else of the body.
TextLeaves(a) == FindLeaf(a.structure[1], "text/plain") \o FindLeaf(a.structure[1], "text/html")
TextSections(a) ==
  <<Item("UID", <<>>)>> \o [i \in DOMAIN TextLeaves(a) |-> Item("BODY", TextLeaves(a)[i].section)]
TextOnly(a, texts) ==
  LET TextOf(type) == LET leaf == FindLeaf(a.structure[1], type) IN
                      IF leaf = <<>> THEN Absent
                      ELSE Decode(Sections(texts, leaf[1].section)[1][2], leaf[1].enc)
  IN [env |-> a.envelope[1], text |-> TextOf("text/plain"), html |-> TextOf("text/html"), attachments |-> <<>>]

-----------------------------------------------------------------------------
(* The server.                                                             *)

AddressList(s) == IF s = <<>> THEN Nil ELSE List(FlattenSeq([i \in DOMAIN s |-> Str(s[i])]))
IdOrNil(id) == IF id = NoId THEN Nil ELSE Str(id)
EnvelopeTokens(head) ==
  List(Str(head.subject) \o AddressList(<<head.from>>)
       \o AddressList(IF head.replyTo = <<>> THEN <<head.from>> ELSE head.replyTo)
       \o AddressList(head.to) \o AddressList(head.cc) \o IdOrNil(head.inReplyTo) \o IdOrNil(head.id))

\* The parts of a message, and one of them by its number.
NameParam(h) == IF h.name = FormatParam("") THEN Nil ELSE List(Str(h.name))
RECURSIVE StructureTokens(_)
StructureTokens(s) ==
  LET sp == SplitHeadBody(s)  h == HeadOf(sp.head, "text/plain")  kids == SplitMultipart(sp.body, h.boundary)
      email == h.type = "message/rfc822"
  IN IF IsMultipart(h) THEN List(FlattenSeq([i \in DOMAIN kids |-> StructureTokens(kids[i])]) \o Str(h.type))
     ELSE List(Str(h.type) \o (IF email THEN Nil ELSE NameParam(h))
               \o (IF h.cid = "" THEN Nil ELSE Str(h.cid)) \o Str(h.enc) \o Str(Len(sp.body))
               \o (CASE h.type \in {"text/plain", "text/html", "text/calendar", "text/x-amp-html"} -> Str(1)
                     [] email -> List(Str("date") \o Nil) \o StructureTokens(sp.body) \o Str(1)
                     [] OTHER -> <<>>)
               \o Nil \o (IF h.disp = "" THEN Nil ELSE List(Str(h.disp) \o NameParam(h))))
RECURSIVE SectionAt(_, _)
SectionAt(s, path) ==
  LET sp == SplitHeadBody(s)  h == HeadOf(sp.head, "text/plain")  kids == SplitMultipart(sp.body, h.boundary)
  IN IF path = <<>> \/ ~IsMultipart(h) THEN sp.body
     ELSE IF Head(path) \in DOMAIN kids THEN SectionAt(kids[Head(path)], Tail(path)) ELSE <<>>

ItemTokens(raw, item) ==
  << Tok("key", item) >>
  \o CASE item.what = "UID" -> Str(Len(net.box))
       [] item.what = "ENVELOPE" -> EnvelopeTokens(SelectSeq(raw, LAMBDA t : t[1] = "mhead")[1][2])
       [] item.what = "BODYSTRUCTURE" -> StructureTokens(raw)
       [] item.what = "BODY" ->
            Literal(IF item.path = <<>> THEN raw ELSE SectionAt(raw, item.path))
FetchLine(raw, items) ==
  << Tok("*", "FETCH") >> \o List(FlattenSeq([i \in DOMAIN items |-> ItemTokens(raw, items[i])])) \o CRLF
OtherLine == << Tok("*", "FETCH") >> \o List(<< Tok("key", Item("FLAGS", <<>>)) >> \o List(<<>>)) \o CRLF
TagLine(status) == << Tok("tag", status) >> \o CRLF

\* One response for a message or two, with one about flags between them.
FetchLines(raw, items) ==
  { FetchLine(raw, items),
    FetchLine(raw, SubSeq(items, 1, 2)) \o OtherLine \o FetchLine(raw, <<items[1]>> \o SubSeq(items, 3, Len(items))) }

\* It takes a literal or refuses it, and a message when it is whole.
ServerAsks ==
  /\ Len(net.up) = 4 /\ net.up[2][1] = "lit" /\ ~net.plus /\ ~net.asked /\ net.down = <<>>
  /\ net' \in { [net EXCEPT !.asked = TRUE, !.down = << Tok("+", "") >> \o CRLF],
                [net EXCEPT !.up = <<>>, !.down = TagLine("NO")] }
  /\ UNCHANGED <<imap, cuts>>
ServerStores ==
  /\ Len(net.up) > 4 /\ net.up[2][1] = "lit" /\ Len(net.up) = 6 + net.up[2][2]
  /\ net' \in { [net EXCEPT !.asked = FALSE, !.up = <<>>, !.down = @ \o TagLine("OK"),
                            !.box = Append(@, SubSeq(net.up, 5, Len(net.up) - 2))],
                [net EXCEPT !.asked = FALSE, !.up = <<>>, !.down = @ \o TagLine("NO")] }
  /\ UNCHANGED <<imap, cuts>>
ServerFetches ==
  /\ Len(net.up) = 3 /\ net.up[1][2].verb = "FETCH"
  /\ \E lines \in FetchLines(Last(net.box), net.up[1][2].items) :
       net' = [net EXCEPT !.up = <<>>, !.down = @ \o lines \o TagLine("OK")]
  /\ UNCHANGED <<imap, cuts>>

MailboxInit == imap = Idle /\ net \in [up : {<<>>}, down : {<<>>}, box : {<<>>}, asked : {FALSE}, plus : BOOLEAN]
Mailbox == ImapReads \/ ServerAsks \/ ServerStores \/ ServerFetches
=============================================================================
