SPECIFICATION Spec
CONSTANTS
  q1 = q1
  q2 = q2
  Publishers = {p1}
  Consumers = {c1}
  Programs = {a1, a2}
  Queues = {q1}
  Topology <- MCSmallTopology
  Targets <- MCSmallTargets
  DefaultExchange = ""
  Capacity = 2
  MaxTag = 2
  MaxRequeues = 0
  NoQueue = NoQueue
  NoTag = NoTag
INVARIANT OncePerQueue
CHECK_DEADLOCK FALSE
