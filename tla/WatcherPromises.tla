-------------------------- MODULE WatcherPromises ---------------------------
(***************************************************************************)
(* What the mailbox watcher promises.  Its names differ from those of      *)
(* ImapSession, which lets ImapProofs speak of both.                       *)
(***************************************************************************)
CONSTANTS Idles, MaxMail, MaxDrops, MaxMailboxes

VARIABLES w, loops, conn, mail, reported, missed, drops

Watch == INSTANCE MailboxWatcher WITH MaxFaults <- MaxDrops, faults <- drops

ASSUME WatchConstantsFit == Watch!ConstantsFit

WatchSpec == Watch!FairSpec

\* `new' reports "messages that arrived since the last check": across bursts,
\* reconnects, refused searches and a mailbox made anew, the messages reported
\* are those from the start of the watch up to uidNext, each once.
EachNewOnce == Watch!TypeOK /\ Watch!SeenOnce

\* Every message is reported in the end, however often the connection drops,
\* unless the watcher is stopped or its start failed; but one whose notice
\* came before open() listened, or whose search was refused, only once there is
\* another notice.
EveryMailReported ==
  <>[](\/ w.stopped \/ missed \/ w.box = 0
       \/ w.box = mail.box /\ w.uidNext = mail.next)

\* stop() returns.
StopEnds == w.stop # "no" ~> w.stop = "done"
=============================================================================
