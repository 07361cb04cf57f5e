SPECIFICATION Spec
CONSTANTS
  BansEnabled = TRUE
  BodyReads = 4
  MaxRequests = 6
  MaxBans = 3
CHECK_DEADLOCK FALSE
PROPERTIES AnswerIsOwn WaitsEnd DesyncStops
