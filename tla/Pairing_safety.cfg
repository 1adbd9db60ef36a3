SPECIFICATION LoopSpec
CONSTANTS
  Starters = {"A", "B"}
  Answering = {"B"}
  Legacy = {}
  SyncWord <- MCSyncWord
  BEACON_INTERVAL = 2
  DONE_WAIT = 1
  DONE_RETRY = 2
  DONE_RETRIES = 1
  SCAN_TIMEOUT = 4
  MAX_RETRY = 1
  MaxBoots = 2
  Faults = {"keys", "hang", "foreign", "crash"}
INVARIANTS TypeOK StoredSyncIsPeers PairedIsOperational
PROPERTIES PairingIsDeliberate RepairEnds
