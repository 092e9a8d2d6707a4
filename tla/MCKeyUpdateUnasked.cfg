\* A client that also starts routine and full rekeys unasked, pings and
\* migrates; its data of epoch 0 may cross the switch of carrier and of epoch.
SPECIFICATION FairSpec
CONSTANTS
  MaxEpoch = 1
  UPDATE_TIMEOUT = 1
  UPDATE_INTERVAL = 1
  UPDATE_RECORD_LIMIT = 2
  OLD_EPOCH_GRACE = 1
  OLD_EPOCH_RECORDS = 1
  HANDSHAKE_TIMEOUT = 1
  PATH_TIMEOUT = 1
  DRAIN_TIME = 1
  ClientData = 1
  ServerData = 0
  DataEpochs = 1
  QueueBound = 1
  Initiates = {"routine", "full", "ping", "migrate"}
INVARIANTS
  RefusedOnlyWhenForked
  NothingIsStranded
PROPERTIES
  UpdateResolves
  EpochsConverge
CHECK_DEADLOCK FALSE
