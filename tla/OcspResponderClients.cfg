\* Two connections about two serials, every kind of request, both transports,
\* with and without a limit.
SPECIFICATION Spec
CONSTANTS
  c1 = c1
  c2 = c2
  s1 = s1
  s2 = s2
  Conns = {c1, c2}
  Serials = {s1, s2}
  Statuses = {"good", "revoked"}
  Kinds = {"status", "malformed", "foreign", "notPost", "noBody", "garbled"}
  Transports = {"HTTP", "SCGI"}
  Limits = {0, 1}
  MaxAcceptErrors = 1
  MaxSignals = 1
  Invalid = Invalid
SYMMETRY ConnSerialSymmetry
INVARIANTS
  TypeOK
  AnswersAreRight
  OneAnswer
  DescriptorDiscipline
  BudgetIsExact
  AtMostOneLateAccept
PROPERTIES
  ServiceSpec
\* The process ends, and an idle one waits in accept().
CHECK_DEADLOCK FALSE
