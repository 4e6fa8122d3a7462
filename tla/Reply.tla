------------------------------- MODULE Reply -------------------------------
(***************************************************************************)
(* Replies and forwards: src/src/core/Reply.ts.  An original `o' is what   *)
(* reading a message returns: its envelope, text, html and attachments.    *)
(***************************************************************************)
EXTENDS Mime

CONSTANTS
  MaxReferences,  \* MAX_REFERENCES
  NoId            \* a message without a Message-ID

ASSUME ReplyConstants == MaxReferences \in Nat \ {0}

\* Definitions that are used nowhere below are variants of the definition that
\* follows them, each with a mistake that a property is meant to catch.

StripSubjectPrefixes(s) == [s EXCEPT !.prefixes = <<>>]
Prefixed(prefix, s) == [StripSubjectPrefixes(s) EXCEPT !.prefixes = <<prefix>>]

\* Addresses without repetition and without those in `exclude'.
DedupeAddrs(list, exclude) == SelectSeq(Dedupe(list), LAMBDA a : Lower(a) \notin exclude)

\* An empty line and a line that ends with a blank end with one when quoted.
Quoted(l) == CASE l \in {"empty", "blank", "quoted blank"} -> "quoted blank"
               [] l \in {"utf8", "quoted utf8"} -> "quoted utf8" [] OTHER -> "quoted"
QuoteText(lines) == LET kept == DropLast(lines) IN [i \in DOMAIN kept |-> Quoted(kept[i])]

OrigText(o) == IF o.text # Absent THEN o.text ELSE IF Falsy(o.html) THEN Nothing ELSE HtmlToText(o.html)
OrigHtml(o) == IF o.html # Absent THEN o.html ELSE IF Falsy(o.text) THEN Nothing ELSE o.text

\* Html between tags on its own line.
Enclosed(html) == [html EXCEPT ![1] = CASE @ \in {"dot", "lone"} -> "plain" [] @ = "empty" -> "tag" [] OTHER -> @]

ReplyTarget(env) == IF env.replyTo # <<>> THEN env.replyTo ELSE <<env.from>>

\* A reply to a message of one's own goes to its recipients.
ReplyRecipients(env, opts) ==
  LET me == {Lower(opts.from)} \cup opts.me
      to == DedupeAddrs(ReplyTarget(env) \o (IF opts.replyAll THEN env.to ELSE <<>>), me)
  IN [to |-> IF to = <<>> THEN Dedupe(env.to) ELSE to,
      cc |-> IF opts.replyAll THEN DedupeAddrs(env.cc, me \cup {Lower(a) : a \in ToSet(to)}) ELSE <<>>]

\* The ancestors, oldest first; of too many the latest.
ReferencesOldest(env) ==
  LET ids == FoldLeft(LAMBDA s, id : IF id \in ToSet(s) THEN s ELSE Append(s, id), <<>>,
                      env.references \o (IF env.id = NoId THEN <<>> ELSE <<env.id>>))
  IN SubSeq(ids, 1, IF Len(ids) <= MaxReferences THEN Len(ids) ELSE MaxReferences)
References(env) ==
  LET ids == FoldLeft(LAMBDA s, id : IF id \in ToSet(s) THEN s ELSE Append(s, id), <<>>,
                      env.references \o (IF env.id = NoId THEN <<>> ELSE <<env.id>>))
  IN SubSeq(ids, IF Len(ids) <= MaxReferences THEN 1 ELSE Len(ids) - MaxReferences + 1, Len(ids))

BuildReply(o, opts) ==
  LET who == ReplyRecipients(o.env, opts) IN
  [id |-> opts.id, from |-> opts.from, to |-> who.to, cc |-> who.cc, bcc |-> <<>>, replyTo |-> <<>>,
   subject |-> Prefixed("Re", o.env.subject), inReplyTo |-> o.env.id, references |-> References(o.env),
   amp |-> Absent, ical |-> Absent, rich |-> "none", dates |-> "Date", attachments |-> opts.attachments,
   text |-> IF opts.quote /\ opts.text # Absent /\ ~Falsy(OrigText(o))
            THEN opts.text \o <<"empty", "plain">> \o QuoteText(OrigText(o)) \o Nothing ELSE opts.text,
   html |-> IF opts.quote /\ opts.html # Absent /\ ~Falsy(OrigHtml(o))
            THEN opts.html \o <<"plain">> \o Enclosed(OrigHtml(o)) ELSE opts.html]

\* The lines about the original above it.
ForwardLines(env) ==
  <<"plain", "plain", IF env.subject.base = "utf8" THEN "utf8" ELSE "plain", "plain">>
  \o (IF env.cc = <<>> THEN <<>> ELSE <<"plain">>)

\* The original's files; its inline images keep their Content-ID, and the emails
\* attached to it stay emails.
Carried(o) ==
  LET files == SelectSeq(o.attachments, LAMBDA a : a.nested = <<>>)
      emails == SelectSeq(o.attachments, LAMBDA a : a.nested # <<>>)
      File(a) == [name |-> a.name, type |-> a.type, cid |-> IF a.inline THEN a.cid ELSE "", file |-> "none",
                  enc |-> "base64", content |-> a.content, raw |-> a.raw, as |-> "bytes"]
  IN [i \in DOMAIN files |-> File(files[i])] \o [i \in DOMAIN emails |-> File(emails[i])]

\* mode "attachment": the original unchanged, in the file `eml'.
WholeOriginal(opts) == [name |-> "eml", type |-> "message/rfc822", cid |-> "", file |-> "none", enc |-> "7bit",
                content |-> <<>>, raw |-> opts.raw, as |-> "bytes"]

BuildForward(o, opts) ==
  LET lines == ForwardLines(o.env)
      note == IF opts.text = Absent THEN Nothing ELSE opts.text
      inline == opts.mode = "inline"
  IN [id |-> opts.id, from |-> opts.from, to |-> opts.to, cc |-> opts.cc, bcc |-> <<>>, replyTo |-> <<>>,
      subject |-> Prefixed("Fwd", o.env.subject), inReplyTo |-> NoId, references |-> <<>>,
      amp |-> Absent, ical |-> Absent, rich |-> "none", dates |-> "Date",
      text |-> IF inline THEN DropFirst(note \o Nothing \o lines \o Nothing \o OrigText(o)) ELSE opts.text,
      html |-> IF inline /\ (opts.html # Absent \/ ~Falsy(o.html))
               THEN (IF opts.html = Absent THEN note ELSE opts.html) \o <<lines[3]>> \o Enclosed(OrigHtml(o))
               ELSE IF inline THEN Absent ELSE opts.html,
      attachments |-> opts.attachments \o (IF inline THEN Carried(o) ELSE <<WholeOriginal(opts)>>)]
=============================================================================
