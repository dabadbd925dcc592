\* Liveness, without symmetry.
SPECIFICATION FairSpec
CONSTANTS
  c1 = c1
  c2 = c2
  s1 = s1
  Conns = {c1, c2}
  Serials = {s1}
  Statuses = {"good"}
  Kinds = {"status", "garbled"}
  Transports = {"SCGI"}
  Limits = {0}
  MaxAcceptErrors = 1
  MaxSignals = 1
  Invalid = Invalid
PROPERTIES
  EveryConnectionEnds
  ShutdownEndsLoop
\* The process ends, and an idle one waits in accept().
CHECK_DEADLOCK FALSE
