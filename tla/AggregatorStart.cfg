\* Aggregator::start after stop, against its documentation.
CONSTANTS
  search = search
  send = send
  unlisted = unlisted
  Server = {s1}
  ServerId = {s1}
  Tool = {search, send, unlisted}
  Manifest <- MCManifest
  MaxTimestamp = 9
  Assertion = {a1}
  NoAssertion = NoAssertion
  Ttl = {1}
  AdvertisedSets <- MCAdvertised
  ConfirmationTTL = 0
  MaxClock = 1
  MaxCalls = 1
SPECIFICATION Spec
PROPERTY StartComesUpReadOnly
