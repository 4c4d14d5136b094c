SPECIFICATION Spec
INVARIANTS TypeOK Arrives Restarts Untouched
PROPERTIES PassedKept Ends
CHECK_DEADLOCK FALSE
