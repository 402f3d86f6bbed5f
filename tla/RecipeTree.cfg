SPECIFICATION Spec
CONSTANTS
  Names <- MCNames
  Position <- MCPosition
  Bundle = "desktop"
  Components = {"applet"}
  Trees <- MCTrees
  Locks <- MCLocks
INVARIANTS TypeOK AcceptedTreeInstalls PinnedComponentsStay RejectedForCause
CHECK_DEADLOCK FALSE
