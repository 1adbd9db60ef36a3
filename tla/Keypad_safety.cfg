SPECIFICATION Spec
INVARIANTS TypeOK ChordMeansHeld
PROPERTIES ChordOrTap SleepDropsNothing WakeAnswers
CHECK_DEADLOCK TRUE
