CHECK_DEADLOCK FALSE
CONSTANTS
  Producers = {p1}
  Consumers = {c1}
  MaxSpurious = 0
SPECIFICATION Spec
INVARIANT ProducerIsTold
