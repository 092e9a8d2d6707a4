\* A prefix of two bytes and messages of two, read in chunks of up to five: a
\* chunk ends within the prefix, within the message or within the next one.  A
\* batch takes two messages, and the BufWriter overflows between the prefix and
\* the payload of the second.
SPECIFICATION FairSpec
CONSTANTS
  HEADER = 2
  Lengths = {2}
  CHUNK = 5
  H2_BATCH_BYTES = 5
  OUTPUT_CAPACITY = 7
  MaxMessages = 3
PROPERTIES
  ImplementsChannels
  EverythingArrives
CHECK_DEADLOCK FALSE
