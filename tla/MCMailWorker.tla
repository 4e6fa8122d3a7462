---------------------------- MODULE MCMailWorker ----------------------------
(* Configurations of MailWorker for TLC. *)
EXTENDS MailWorker, TLC

CONSTANTS m1, m2, k1

\* One message has an idempotency key, one has none.
MCKeyOf == (m1 :> k1) @@ (m2 :> NoKey)

\* A driver that takes messages back, and one that cannot and that hands out a
\* message of no use.
MCDrivers == {[release |-> TRUE, malformed |-> {}],
              [release |-> FALSE, malformed |-> {m2}]}
=============================================================================
