\* When every thread waits the program hangs, see ProducerIsTold.
CHECK_DEADLOCK FALSE
CONSTANTS
  Producers = {p1, p2, p3}
  Consumers = {c1, c2, c3}
  MaxSpurious = 2
SYMMETRY Symmetry
SPECIFICATION Spec
INVARIANTS MutexesHeld NoLockCycle WritesBounded ReadsBounded
