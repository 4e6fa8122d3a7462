--------------------------- MODULE MCImapSession ---------------------------
(* Configurations of ImapSession for TLC. *)
EXTENDS ImapSession

Read == [kind |-> "read", box |-> "B"]
Examine == [kind |-> "openReadOnly", box |-> "A"]
Write == [kind |-> "write", box |-> "A"]
Store == [kind |-> "append", box |-> "A"]
Move == [kind |-> "move", box |-> "A"]

\* TLS with a keep-alive, STARTTLS with OAuth on a server without MOVE, and a
\* server that offers no encryption.
MCConfigs ==
  {[secure |-> TRUE, insist |-> TRUE, starttls |-> FALSE, move |-> TRUE, oauth |-> FALSE,
    retries |-> 0, keepAlive |-> TRUE, calls |-> {Read, Examine, Move}],
   [secure |-> FALSE, insist |-> TRUE, starttls |-> TRUE, move |-> FALSE, oauth |-> TRUE,
    retries |-> 1, keepAlive |-> FALSE, calls |-> {Store, Write, Move}],
   [secure |-> FALSE, insist |-> TRUE, starttls |-> FALSE, move |-> TRUE, oauth |-> FALSE,
    retries |-> 1, keepAlive |-> FALSE, calls |-> {Read}]}
=============================================================================
