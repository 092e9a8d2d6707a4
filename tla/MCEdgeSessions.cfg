\* Two clients share three carriers and two permits: a session can be refused,
\* hold three of them at once, of either kind, or compete for an address.
SPECIFICATION FairSpec
CONSTANTS
  Carriers = {c1, c2, c3}
  H3 = {c2, c3}
  Clients = {k1, k2}
  Permits = 2
  None = None
INVARIANTS
  PermitsAreConserved
  LeasesAreKept
  CarriersAreOwned
PROPERTIES
  OffersAreSettled
CHECK_DEADLOCK FALSE
