SPECIFICATION Spec
CONSTANTS
  Delivery = {d1, d2}
  Key = {k1}
  NoKey = NoKey
  NoEvent = NoEvent
  sink = sink
  pipe = pipe
  Connection = {sink, pipe}
  Forwarding = {pipe}
  MaxAttempts = 2
  Worker = {w1, w2}
  MaxFaults = 1
  Crashes = {"handler", "broker", "worker"}
  Retention = TRUE
INVARIANTS
  KeysMatchEvents
  AttemptsAccounted
  DeadLettersHaveEvidence
PROPERTY IntakeIsKeyed
SYMMETRY Symmetry
CHECK_DEADLOCK FALSE
