SPECIFICATION Spec
CONSTANTS
  BUSY_TIMEOUT_MS = 3000
  WDT_PERIOD_MS = 4096
  Profile = "SF11_BW62"
  MaxStalls = 1
  MAX_RETRY = 1
  Bindings = {"fresh", "torn", "lost", "paired"}
INVARIANTS TypeOK OnAirAsIntended AirtimeFits OneStallIsSurvived AlertMeansFlat
PROPERTIES FrameIsRearmed DeafnessEnds
CHECK_DEADLOCK TRUE
