SPECIFICATION Spec
CONSTANTS
  OPER_TOA = 2
  TX_TIMEOUT = 3
  IDLE_DURATION = 1
  RX_TIMEOUT = 7
  REMOTE_WATCHDOG = 10
  ACK_WAIT_STATUS = 4
  ACK_WAIT_OFF = 5
  ACK_WAIT_ON = 6
  FAST_RETRY = 1
  MAX_RETRY = 3
  UserCmds = {"M1_ON", "M1_OFF", "RELAY_ON", "STATUS"}
  Replies = {"ON", "OFF"}
  Faults = {"crc", "header"}
PROPERTIES FastRetryFollowsReply
