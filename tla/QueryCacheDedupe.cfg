SPECIFICATION Spec
CONSTANTS
  Requests <- ThreeRequests
  MaxVersion = 3
PROPERTIES
  Deduplicates
CHECK_DEADLOCK FALSE
