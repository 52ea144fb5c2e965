CONSTANTS
  Lines = {0, 1}
  MaxNest = 2
  Keys = {"a"}
SPECIFICATION Spec
INVARIANTS
  TypeOK
  UnreadIsPending
  LatestNotLost
PROPERTIES
  PacedExact
  ReadUnlessDeaf
  MailboxEmptied
