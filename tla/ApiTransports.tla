---------------------------- MODULE ApiTransports ----------------------------
(***************************************************************************)
(* What the transports over HTTP (src/src/transports) tell a service of a  *)
(* message: Gmail, Graph and SES get its bytes, Mailgun its bytes and its  *)
(* recipients, and SendGrid, Postmark and Resend fields from which they    *)
(* build a message of their own.                                           *)
(***************************************************************************)
EXTENDS Mime

ByBytes == {"gmail", "graph", "ses", "mailgun"}
ByFields == {"sendgrid", "postmark", "resend"}

\* jsonBodyOptions(): only SendGrid among them takes a part for AMP.
Unfit(m, api) == m.amp # Absent /\ api \in ByFields \ {"sendgrid"}

\* A field that is empty is left out.
Given(text) == IF Falsy(text) THEN Absent ELSE text

\* apiHeaders(): threads are told of by the headers the builder made.
ApiHeaders(m) ==
  LET head == EnvelopeOf(SplitHeadBody(Build(m)).head)[1]
  IN [inReplyTo |-> head.inReplyTo, references |-> head.references]

\* resolveApiAttachments(): emails are left out, as invites are.
ApiFiles(m) == SelectSeq(m.attachments, LAMBDA a : a.raw = <<>>)

Told(m, api) ==
  IF api \in ByBytes
  THEN [raw |-> Build(m), to |-> IF api = "mailgun" THEN EnvelopeTo(m) ELSE <<>>]
  ELSE [to |-> m.to, cc |-> m.cc, bcc |-> m.bcc, replyTo |-> IF m.replyTo = <<>> THEN <<>> ELSE <<m.replyTo[1]>>,
        text |-> Given(m.text), amp |-> m.amp, html |-> Given(ApplyRichContent(m).html), headers |-> ApiHeaders(m), files |-> ApiFiles(m)]
=============================================================================
