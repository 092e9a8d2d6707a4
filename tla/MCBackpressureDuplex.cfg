\* Data in both directions.
SPECIFICATION Spec
CONSTANTS
  Capacity = 3
  Traffic = {"duplex"}
PROPERTIES
  LifetimeEnforced
CHECK_DEADLOCK FALSE
