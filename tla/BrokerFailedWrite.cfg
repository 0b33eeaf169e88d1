\* A write call whose child fails or answers with an error leaves no trace on the tape.
CONSTANTS
  search = search
  send = send
  save = save
  c1 = c1
  c2 = c2
  k1 = k1
  k2 = k2
  Server = {s1}
  ServerId = {s1}
  Tool = {save}
  Manifest <- MCManifest
  MaxTimestamp = 9
  Ttl = {}
  AdvertisedSets <- MCAdvertised
  ConfirmationTTL = 0
  Nonce = {n1}
  Client = {c1}
  Key = {k1, k2}
  Holds <- MCHolds
  Registry <- MCRegistry
  NonceTTL = 1
  MaxPendingNonces = 2
  Malformed = Malformed
  NoNonce = NoNonce
  Thread = {t1, t2}
  Workloads <- Writing
  MaxClock = 0
  MaxRequests = 3
  MaxRestarts = 0
SPECIFICATION Spec
INVARIANT EveryGatedCallIsRecorded
