\* Presence end to end: two threads elevate, confirm, call and revoke; the broker may crash.
CONSTANTS
  search = search
  send = send
  save = save
  c1 = c1
  c2 = c2
  k1 = k1
  k2 = k2
  Server = {s1}
  ServerId = {s1, s2}
  Tool = {send, save}
  Manifest <- MCManifest
  MaxTimestamp = 9
  Ttl = {1}
  AdvertisedSets <- MCAdvertised
  ConfirmationTTL = 0
  Nonce = {n1, n2}
  Client = {c1}
  Key = {k1, k2}
  Holds <- MCHolds
  Registry <- MCRegistry
  NonceTTL = 1
  MaxPendingNonces = 2
  Malformed = Malformed
  NoNonce = NoNonce
  Thread = {t1, t2}
  Workloads <- Presence
  MaxClock = 1
  MaxRequests = 6
  MaxRestarts = 1
SPECIFICATION Spec
SYMMETRY Symmetry
INVARIANTS TypeOK TapeIsComplete
PROPERTIES AggregatorSpec Gate
