SPECIFICATION Spec
CONSTANTS
  Senders = {s1, s2}
  Receivers = {r1, r2}
  Addresses = {a1}
  Changes <- MCChanges
  MaxTag = 2
  MaxReturns = 1
INVARIANTS OneCopy AnsweredOnce
PROPERTY FirstComeFirstTaken
SYMMETRY Symmetry
CHECK_DEADLOCK FALSE
