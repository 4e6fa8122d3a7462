---------------------------- MODULE ImapPromises ----------------------------
(***************************************************************************)
(* What the pool of IMAP sessions promises.  Its names differ from those   *)
(* of SmtpPool, which lets PoolProofs speak of both pools.                 *)
(***************************************************************************)
CONSTANTS ImapCallers, Accounts, Key, Slots, NoSlot, MaxSessions, MaxPerAccount, MaxClosing

VARIABLES imapPool, settling

Imap == INSTANCE ImapPool WITH Callers <- ImapCallers, pool <- imapPool

ASSUME ImapConstantsFit == Imap!ConstantsFit

ImapSpec == Imap!Spec

\* Every session counts against the limits, belongs to one callback at a time, and is
\* lent or has an idle timer: none is lost to a failed config, a failed login or a
\* close(), which would wait for it for ever.
SlotsAccounted ==
  Imap!TypeOK /\ Imap!LimitsKept /\ Imap!LentExclusively /\ Imap!LentOrTimed

\* After close(key) no call of use() gets a session that was open before ("The
\* next `use(key)` opens a fresh session"); and when close() or closeAll() returns,
\* the sessions it found are closed, the lent ones too: after closeAll() nothing is
\* open, lent or waiting.
CloseTakesEffect ==
  [][Imap!FoundNotLent]_Imap!vars /\ [][Imap!SettledWhenClosed]_Imap!vars
=============================================================================
