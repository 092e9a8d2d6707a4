\* Packets in either direction or in both; two crashes of either process, in any
\* order.  With packets in both the two processes may stop for good (Stuck).
SPECIFICATION Spec
CONSTANTS
  HelperQueue = 3
  EdgeQueue = 3
  Traffic = {"up", "down", "duplex"}
  MaxCrashes = 2
  MaxUnread = 2
PROPERTIES
  BecomesReady
  ReadyIsAcknowledged
CHECK_DEADLOCK FALSE
