SPECIFICATION FairSpec
CONSTANTS
  Polls = TRUE
  MaxSent = 4
  MaxDue = 2
PROPERTIES
  MailboxSpec
  NothingWaits
\* The publisher may have fallen silent.
CHECK_DEADLOCK FALSE
