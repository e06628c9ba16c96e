SPECIFICATION Spec
CONSTANTS
  Delivery = {d1}
  Key = {k1}
  NoKey = NoKey
  NoEvent = NoEvent
  sink = sink
  pipe = pipe
  Connection = {sink, pipe}
  Forwarding = {pipe}
  MaxAttempts = 2
  Worker = {w1}
  MaxFaults = 1
  Crashes = {"worker"}
  Retention = FALSE
PROPERTY DeadStopsRetrying
CHECK_DEADLOCK FALSE
