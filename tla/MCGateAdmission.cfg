\* Two ticks to the second: a token seen on the first tick of its window of
\* three seconds leaves the cache one tick before the window ends.
SPECIFICATION Spec
CONSTANTS
  Sources = {s1, s2}
  Tokens = {1, 2}
  TicksPerSecond = 2
  GATE_WINDOW_SECS = 1
  GATE_REPLAY_SECS = 2
  RATE_SECS = 1
  RATE_ATTEMPTS = 2
  RATE_SOURCES = 1
  MaxTime = 8
INVARIANTS
  RateRemembersWindow
  ReplayOnlyAcrossTheWindow
CHECK_DEADLOCK FALSE
