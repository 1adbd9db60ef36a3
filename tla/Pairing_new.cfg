SPECIFICATION AirSpec
CONSTANTS
  Starters = {"A", "B"}
  Answering = {"A"}
  Legacy = {"A"}
  SyncWord <- MCSyncWord
  BEACON_INTERVAL = 2
  DONE_WAIT = 1
  DONE_RETRY = 2
  DONE_RETRIES = 2
  SCAN_TIMEOUT = 5
  MAX_RETRY = 1
  MaxBoots = 2
  Faults = {}
PROPERTIES NewRemotePairs CommitIsMutual
