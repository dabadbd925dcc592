SPECIFICATION Spec
CONSTANTS
  r1 = r1  r2 = r2  r3 = r3
  common = common  long = long
  None = None
  Runs <- RunSet
  Subjects <- SubjectSet
  Long <- LongSet
  Uniques = {TRUE, FALSE}
  MaxLong = 2
  MaxLost = 1
CHECK_DEADLOCK FALSE
SYMMETRY Symmetry
INVARIANTS TypeOK SuccessIsRecorded
PROPERTIES NewSerialAndSubject
