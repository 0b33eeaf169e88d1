\* Two threads, every operation, children that hang, die or cannot be started: what the
\* client is told, and that requests are answered.
CONSTANTS
  search = search
  send = send
  save = save
  c1 = c1
  c2 = c2
  k1 = k1
  k2 = k2
  Server = {s1}
  ServerId = {s1, s2}
  Tool = {search, save}
  Manifest <- MCManifest
  MaxTimestamp = 9
  Ttl = {}
  AdvertisedSets <- MCAdvertised
  ConfirmationTTL = 0
  Nonce = {n1}
  Client = {c1}
  Key = {k1, k2}
  Holds <- MCHolds
  Registry <- MCRegistry
  NonceTTL = 1
  MaxPendingNonces = 2
  Malformed = Malformed
  NoNonce = NoNonce
  Thread = {t1, t2}
  Workloads <- Everything
  MaxClock = 0
  MaxRequests = 4
  MaxRestarts = 0
SPECIFICATION FairSpec
INVARIANTS WideningIsAnnounced
PROPERTY RequestsComplete
