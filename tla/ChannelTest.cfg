SPECIFICATION Spec
CONSTANTS
  NumModels = 2
  Width = 1
  Ways = {auto, other}
  AutoWay = auto
  MaxBatches = 2
INVARIANTS TypeOK ShownIsTrue
PROPERTIES StopIsKept TestingEnds
