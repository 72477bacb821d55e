CONSTANTS
  MaxRetries = 3
  MaxWindows = 3
SPECIFICATION Spec
INVARIANTS TypeOK NoOrphan MainWindowIsThere NeverStranded
PROPERTIES QuitEnds FailureEnds PollingEnds
CHECK_DEADLOCK FALSE
