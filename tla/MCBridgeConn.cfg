\* Two calls of the file system beside the hello.
CONSTANTS
  Ops = {o1, o2}
  Hello = hello
SPECIFICATION FairSpec
INVARIANTS TypeOK PendingSound
PROPERTIES LifeSpec CallsEnd HandlerEnds
