\* One or two lines of every kind, to either store, while messages come and go.
CONSTANTS
  MatchingUids = {1, 3}
  DefaultListLimit = 1
  MaxListLimit = 2
  NoLimit = NoLimit
  Limits = {NoLimit, 0, 1, 3}
  NullId = NullId
  Inputs <- MCInputs
  MaxUid = 3
  MaxLines = 2
SPECIFICATION FairSpec
INVARIANTS MailTypeOK RepliesInOrder ListingIsNewest MissingWasMissing
PROPERTY LinesAreServed
CHECK_DEADLOCK FALSE
