\* The Windows client: two updates in a row, each asked for by time or by count.
SPECIFICATION Spec
CONSTANTS
  MaxEpoch = 2
  UPDATE_TIMEOUT = 1
  UPDATE_INTERVAL = 1
  UPDATE_RECORD_LIMIT = 2
  OLD_EPOCH_GRACE = 1
  OLD_EPOCH_RECORDS = 1
  HANDSHAKE_TIMEOUT = 1
  PATH_TIMEOUT = 1
  DRAIN_TIME = 1
  ClientData = 2
  ServerData = 1
  DataEpochs = 3
  QueueBound = 2
  Initiates = {}
INVARIANTS
  NonceUnique
  EpochAgreement
  TranscriptAgreement
  UpdatesNeverCollide
PROPERTIES
  OldEpochIsBounded
  ImplementsLockstep
CHECK_DEADLOCK FALSE
