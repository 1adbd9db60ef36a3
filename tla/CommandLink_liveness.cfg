SPECIFICATION FairSpec
CONSTANTS
  OPER_TOA = 2
  TX_TIMEOUT = 3
  IDLE_DURATION = 2
  RX_TIMEOUT = 5
  REMOTE_WATCHDOG = 7
  ACK_WAIT_STATUS = 3
  ACK_WAIT_OFF = 4
  ACK_WAIT_ON = 4
  FAST_RETRY = 1
  MAX_RETRY = 1
  UserCmds = {"M1_OFF", "RELAY_ON"}
  Replies = {"ON", "OFF"}
  Faults = {"header", "hang"}
PROPERTIES EveryCommandEnds AlwaysListensAgain ChipRecovers
