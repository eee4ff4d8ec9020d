CONSTANT Setups <- AllSetups
SPECIFICATION Spec
INVARIANTS TagsInStep BuffersComplete NothingLeftBehind
PROPERTIES ConsumerTerminates
CHECK_DEADLOCK FALSE
