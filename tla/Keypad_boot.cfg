SPECIFICATION Spec
INVARIANT OneLongPressIsHarmless
CHECK_DEADLOCK TRUE
