\* A worker that is cut off during the last attempt of an event.
CONSTANTS
  e1 = e1
  e2 = e2
  w1 = w1
  w2 = w2
  NoEvent = NoEvent
  Events = {e1, e2}
  Workers = {w1}
  BatchSize = 2
  MaxAttempts = 2
  MaxFaults = 1
SPECIFICATION LiveSpec
CHECK_DEADLOCK FALSE
PROPERTY ExhaustedIsSurfaced
