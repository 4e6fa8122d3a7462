---------------------------- MODULE MCMailQueue ----------------------------
(* Small instances of MailQueue for TLC.                                   *)
EXTENDS MailQueue, TLC

CONSTANTS j1, j2

MCPriority == [j \in Jobs |-> IF j = j2 THEN "high" ELSE "normal"]
MCNoKey == [j \in Jobs |-> NoKey]
=============================================================================
