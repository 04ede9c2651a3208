SPECIFICATION Spec
INVARIANTS
  ThreadsTaken
CHECK_DEADLOCK FALSE
