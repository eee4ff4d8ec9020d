CONSTANT Setups <- RestartSetup
SPECIFICATION Spec
INVARIANTS BuffersComplete
CHECK_DEADLOCK FALSE
