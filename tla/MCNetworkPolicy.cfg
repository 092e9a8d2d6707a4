\* Two addresses and two installs; kills and command failures anywhere, two of
\* them unnoticed, and a recovery that cannot run; two manifests, old and new.
SPECIFICATION Spec
CONSTANTS
  Endpoints = {e1, e2}
  MaxInstalls = 2
  MaxFailures = 1
  MaxMissed = 2
  MaxSequence = 2
  NoState = NoState
INVARIANTS
  NothingIsLeftBehind
  OriginalsAreKept
  ServerStaysReachable
PROPERTIES
  ManifestNeverRollsBack
