SPECIFICATION Spec
CONSTANTS
  Callers = {c1, c2}
  Questions = {q1, q2}
  Entities = {e1}
  Readings = {1, 2}
  NoReading = NoReading
  Retries = 1
  RetryBase = 1
  StoreFails = TRUE
  ForkIsPrompt = FALSE
SYMMETRY Symmetry
INVARIANTS SingleFlight AnswersTheQuestion OnlySuccessKept AskedInTurn
PROPERTY ImplementsPromise
