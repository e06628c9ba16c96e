SPECIFICATION FairSpec
CONSTANTS
  Delivery = {d1, d2}
  Key = {k1}
  NoKey = NoKey
  NoEvent = NoEvent
  sink = sink
  pipe = pipe
  Connection = {sink, pipe}
  Forwarding = {pipe}
  MaxAttempts = 2
  Worker = {w1}
  MaxFaults = 0
  Crashes = {"handler", "broker"}
  Retention = FALSE
PROPERTY AcknowledgedSettles
CHECK_DEADLOCK FALSE
