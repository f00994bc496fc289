SPECIFICATION FairSpec
CONSTANTS
  k1 = k1
  k2 = k2
  Conversations = {k1, k2}
  Raw = {k1}
  Adds = {1}
  MaxSends <- MCMaxSends
  Buffer = 1
INVARIANTS HeardIsApplied TallyAddsUp ReportedIfBad NobodyLeftWaiting
PROPERTY ConversationEnds
CHECK_DEADLOCK FALSE
