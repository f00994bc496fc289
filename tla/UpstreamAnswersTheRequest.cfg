SPECIFICATION Spec
CONSTANTS
  Callers = {c1, c2}
  Questions = {q1}
  Entities = {e1, e2}
  Readings = {1, 2}
  NoReading = NoReading
  Retries = 1
  RetryBase = 1
  StoreFails = FALSE
  ForkIsPrompt = TRUE
INVARIANT AnswersTheRequest
