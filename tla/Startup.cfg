\* A manifest that is edited, reviewed and started from; children that fail or exit.
CONSTANTS
  a = a
  b = b
  dot = dot
  blank = blank
  Char = {a, b, dot, blank}
  Sep = dot
  Blank = blank
  MaxManifestBytes = 1
  MaxServers = 2
  MaxIdLen = 3
  MaxCommandLen = 2
  MaxArgs = 1
  MaxValueLen = 1
  MaxToolsPerServer = 2
  MaxNameLen = 3
  MaxEnvPerServer = 1
  ServerManifest <- MCServerManifest
  Texts <- MCTexts
  Unreadable = Unreadable
  Advertisements <- MCAdvertisements
  ClientFiles <- MCClientFiles
  MaxReviews = 2
SPECIFICATION Spec
INVARIANTS TypeOK OfferedRoutesBack OfferedWasReviewed NoChildLeftBehind
