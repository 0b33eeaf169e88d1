\* Who may redeem a challenge, and what the store keeps: two clients, one of them
\* not registered, more nonces than the store has room for.
CONSTANTS
  Nonce = {n1, n2, n3}
  c1 = c1
  c2 = c2
  k1 = k1
  k2 = k2
  elevate = elevate
  confirm = confirm
  Client = {c1, c2}
  Key = {k1, k2}
  Holds <- MCHolds
  Registry <- MCRegistry
  Purpose = {elevate, confirm}
  NonceTTL = 1
  MaxPendingNonces = 2
  Malformed = Malformed
  MaxClock = 2
SPECIFICATION Spec
SYMMETRY NonceSymmetry
INVARIANTS TypeOK OneAttempt SingleUse Authentic Capped
PROPERTY UsableUntilTaken
