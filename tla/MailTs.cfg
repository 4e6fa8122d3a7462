\* Two messages, a new SMTP and a new IMAP configuration, a shutdown.
CONSTANTS
  Mails = {m1, m2}
  Setups <- MCSetups
  Size = 1
  MaxTries = 2
  MaxConfigs = 1
  MaxFaults = 2
SPECIFICATION FairSpec
INVARIANTS AnswerMatchesDelivery ConfigurationInForce
PROPERTIES EverySendAnswered
CHECK_DEADLOCK FALSE
