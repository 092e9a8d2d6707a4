\* A rate that does not divide the resolution, so that both roundings happen,
\* and sizes below, at and above the burst.
SPECIFICATION Spec
CONSTANTS
  Rate = 3
  Capacity = 4
  Quota = 16
  Deadline = 12
  Resolution = 2
  Sizes = {0, 1, 2, 4, 7}
INVARIANTS
  ShapedToRate
  IInv
  RateIsGranted
CHECK_DEADLOCK FALSE
