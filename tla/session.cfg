\* Two subscriptions one after the other, three requests in all.
CONSTANTS
  query = query
  operation = operation
  daemon = daemon
  Lanes = {query, operation}
  Service <- MCService
  Held = {operation}
  Pins = {p, q}
  FactoryPin = p
  Attempts = 2
  Queue = 1
  Chunks = 1
  MaxSubs = 2
  MaxRequests = 3
  MaxFaults = 1
  Habits = {}
SPECIFICATION FairSpec
INVARIANTS PinFirst LinesAreOwn
PROPERTIES AnswerComes
CHECK_DEADLOCK FALSE
