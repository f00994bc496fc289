SPECIFICATION WorkersSpec
CONSTANTS
  Workers = {w1, w2}
  Orders = {m1, m2}
  PrefetchCount = 2
  MaxOffers = 2
  MaxConsumers = 3
  NoOrder = NoOrder
  Collectors = {w1, w2}
  Shipments = {m1, m2}
  Credit = 2
  MaxTransfers = 2
  NoShipment = NoShipment
INVARIANTS OnlyPackedAccepted AnsweredOnce NeverStalls NothingInvented BooksAgree CountsOnlyFailures
SYMMETRY Symmetry
CHECK_DEADLOCK FALSE
