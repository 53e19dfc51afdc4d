SPECIFICATION Spec
INVARIANTS
  TreeRight
  ImagesRight
  CheckpointRight
  TestbenchRight
CHECK_DEADLOCK FALSE
