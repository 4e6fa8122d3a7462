------------------------------ MODULE MCMailTs ------------------------------
(* Setups of MailTs for TLC. *)
EXTENDS MailTs

Quiet == [dev |-> FALSE, pooling |-> TRUE, onSend |-> "quiet", onError |-> "quiet"]

\* With a pool and without, in devMode, and with hooks that throw.
MCSetups ==
  {Quiet, [Quiet EXCEPT !.pooling = FALSE], [Quiet EXCEPT !.dev = TRUE],
   [Quiet EXCEPT !.onSend = "network"], [Quiet EXCEPT !.onError = "throws"]}
=============================================================================
