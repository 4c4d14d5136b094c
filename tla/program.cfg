SPECIFICATION ProgramSpec
INVARIANTS TypeOK Settled Locked Stored Shown Remote Reaped
PROPERTIES Meant
CHECK_DEADLOCK FALSE
