CONSTANTS
  MaxRequests = 2
  MaxMessages = 4
  MaxReloads = 2
SPECIFICATION Spec
INVARIANTS TypeOK LiveIsShown OwnReply
PROPERTIES GuardsHold StableAfterLoad RepliesEnd
CHECK_DEADLOCK FALSE
