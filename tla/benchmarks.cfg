SPECIFICATION BenchmarksSpec
INVARIANTS TypeOK Explored Answered
PROPERTIES Atomic Ends
CHECK_DEADLOCK FALSE
