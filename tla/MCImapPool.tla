----------------------------- MODULE MCImapPool -----------------------------
(* Small instances of ImapPool for TLC.                                    *)
EXTENDS ImapPromises

CONSTANTS p1, p2, p3, p4

\* Two callers of one account and one of each other.
MCKey == [p \in ImapCallers |-> IF p \in {p1, p2} THEN "a" ELSE IF p = p3 THEN "b" ELSE "c"]
=============================================================================
