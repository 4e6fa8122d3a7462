----------------------------- MODULE TrapAlone ------------------------------
(***************************************************************************)
(* The trap server, whoever sends it messages, waits for them, uses its    *)
(* page, kills and starts it, and however often.  In Journey the messages  *)
(* come over SMTP.                                                         *)
(***************************************************************************)
EXTENDS TrapServer

CONSTANTS
  Contents,  \* what messages say
  Addresses  \* whom a test waits for

\* The end of the data of a message (SmtpServer.ts): it is captured, or the process is
\* killed while it writes it.
Receive ==
  /\ Running
  /\ \E content \in Contents :
       Capture(NewMessage(content)) \/ Killed(AppendTo(trap.file, NewMessage(content)))

\* stop() ends, or waits for a connection that SMTP still has.
Ended == \E connected \in BOOLEAN : Stopped(connected)

\* waitForMessage() reads the store.
OfTest == (\E to \in Addresses : Wait(to)) \/ DeadlinePasses \/ Check

TrapStart ==
  /\ budget \in [clicks : Nat, kills : Nat]
  /\ TrapInit(NoFile, budget.clicks, budget.kills)
TrapNext == Receive \/ Acting \/ Ended \/ Started \/ OfTest
TrapSpec == TrapStart /\ [][TrapNext]_trapVars
=============================================================================
