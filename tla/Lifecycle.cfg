CONSTANTS
  Program <- Programs
  MaxJobs = 2
SPECIFICATION Spec
INVARIANTS CleanBringUpAndShutdown
PROPERTY GraphIsDestroyed
CHECK_DEADLOCK FALSE
