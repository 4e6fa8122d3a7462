---------------------------- MODULE MCSmtpClient ----------------------------
(* Configurations of SmtpClient for TLC. *)
EXTENDS SmtpClient

Cfg(secure, auth, starttls, pipelining) ==
  [secure |-> secure, insist |-> TRUE, must |-> FALSE, auth |-> auth,
   refresh |-> TRUE, every |-> FALSE, patient |-> pipelining, heard |-> TRUE,
   offers |-> [starttls |-> starttls, pipelining |-> pipelining, auth |-> TRUE]]

\* Each way to log in and to encrypt, and both meanings of the other options.
\* Nobody listens to the `error' of a client that is not of a pool.
MCConfigs ==
  {[Cfg(TRUE, "none", FALSE, FALSE) EXCEPT !.heard = FALSE],
   Cfg(FALSE, "plain", TRUE, TRUE),
   Cfg(FALSE, "xoauth2", TRUE, FALSE),
   Cfg(FALSE, "plain", FALSE, FALSE),
   [Cfg(FALSE, "login", FALSE, TRUE) EXCEPT !.insist = FALSE, !.every = TRUE],
   [Cfg(FALSE, "none", FALSE, FALSE) EXCEPT !.must = TRUE]}
=============================================================================
