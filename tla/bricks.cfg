SPECIFICATION Spec
INVARIANTS TypeOK Hashed Parsed Consistent
PROPERTIES Changes
CHECK_DEADLOCK FALSE
