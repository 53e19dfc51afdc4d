SPECIFICATION Spec
PROPERTIES
  FenceCompletes
  EvictionsTaken
  TimerRight
  LoopEnds
  CosimRight
