\* Two workers share the queue, time passes, and the workers keep working.
CONSTANTS
  e1 = e1
  e2 = e2
  w1 = w1
  w2 = w2
  NoEvent = NoEvent
  Events = {e1, e2}
  Workers = {w1, w2}
  BatchSize = 2
  MaxAttempts = 2
  MaxFaults = 1
SPECIFICATION LiveSpec
CHECK_DEADLOCK FALSE
INVARIANTS
  TypeOK
  ClaimsAreExclusive
  RunsArePaidFor
  DoneMeansSucceeded
  SuccessIsNotRepeated
PROPERTIES
  DoneIsFinal
  NothingIsForgotten
  EventsSettle
