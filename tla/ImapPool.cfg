\* Four callers of three accounts, two sessions in all, one per account.
CONSTANTS
  p1 = p1
  p2 = p2
  p3 = p3
  p4 = p4
  ImapCallers = {p1, p2, p3, p4}
  Accounts = {"a", "b", "c"}
  Key <- MCKey
  Slots = {s1, s2, s3, s4, s5}
  NoSlot = NoSlot
  MaxSessions = 2
  MaxPerAccount = 1
  MaxClosing = 1
SPECIFICATION ImapSpec
INVARIANTS
  SlotsAccounted
PROPERTIES
  CloseTakesEffect
CHECK_DEADLOCK FALSE
