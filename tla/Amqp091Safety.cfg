SPECIFICATION Spec
CONSTANTS
  q1 = q1
  q2 = q2
  Publishers = {p1, p2}
  Consumers = {c1, c2}
  Programs = {a1}
  Queues = {q1, q2}
  Topology <- MCTopology
  Targets <- MCTargets
  DefaultExchange = ""
  Capacity = 2
  MaxTag = 4
  MaxRequeues = 1
  NoQueue = NoQueue
  NoTag = NoTag
INVARIANTS OnePlace HeldByOne PublisherOrder
CONSTRAINT FourthTag
SYMMETRY Symmetry
CHECK_DEADLOCK FALSE
