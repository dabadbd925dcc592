\* HTTP requests around the limits of a 12-byte buffer, netstrings around those
\* of a 6-byte one, and indices of up to three lines with two failures.
SPECIFICATION InputsSpec
CONSTANTS
  bufferSz = 12
  IntMod = 32
  Heads = {5, 7, 12}
  Absent = Absent
  Lengths <- MCLengths
  Sizes <- MCSizes
  ScgiBufferSz = 6
  LenBuf = 3
  Prefixes = {1, 2, 3}
  ScgiLengths <- MCScgiLengths
  Headers <- MCHeaders
  Tails = {0, 2, 4}
  Serials = {"s1", "s2"}
  Files <- MCFiles
  MaxFailures = 2
INVARIANTS
  InBuffer
  BodyIsWhole
  NeverWaitsForMore
  ScgiReadsItsOwn
  IndexIsServed
PROPERTIES
  ReaderSpec
  ScgiReaderSpec
  EveryReadingEnds
CHECK_DEADLOCK FALSE
