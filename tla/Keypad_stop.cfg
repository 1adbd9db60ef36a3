SPECIFICATION Spec
PROPERTY StopAlwaysWins
CHECK_DEADLOCK TRUE
