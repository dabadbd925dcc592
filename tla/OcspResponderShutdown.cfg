\* The signal that lands between the loop condition and accept().
SPECIFICATION FairSpec
CONSTANTS
  c1 = c1
  s1 = s1
  Conns = {c1}
  Serials = {s1}
  Statuses = {"good"}
  Kinds = {"status"}
  Transports = {"HTTP"}
  Limits = {0}
  MaxAcceptErrors = 0
  MaxSignals = 1
  Invalid = Invalid
PROPERTIES
  ShutdownCompletes
\* The process ends, and an idle one waits in accept().
CHECK_DEADLOCK FALSE
