\* What may reach a child: elevation, confirmation, lifecycle, faults, restarts.
CONSTANTS
  search = search
  send = send
  unlisted = unlisted
  Server = {s1}
  ServerId = {s1}
  Tool = {search, send, unlisted}
  Manifest <- MCManifest
  MaxTimestamp = 9
  Assertion = {a1, a2, a3}
  NoAssertion = NoAssertion
  Ttl = {1}
  AdvertisedSets <- MCAdvertised
  ConfirmationTTL = 0
  MaxClock = 1
  MaxCalls = 2
SPECIFICATION Spec
SYMMETRY AssertionSymmetry
INVARIANTS TypeOK GatedCallsAreElevated ConfirmedOncePerCall
PROPERTY ApprovalKeptUntilSpent
