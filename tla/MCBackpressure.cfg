\* Data in one direction, with keepalives and key updates: room for one record
\* of each kind that the two protocols can have under way.
SPECIFICATION Spec
CONSTANTS
  Capacity = 3
  Traffic = {"download", "upload"}
PROPERTIES
  LifetimeEnforced
  SendsComplete
CHECK_DEADLOCK FALSE
