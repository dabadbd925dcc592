\* One run of every command of MCFileTools, one on what it wrote, and one on
\* what was signed.
SPECIFICATION Spec
CONSTANTS
  None = None
  InitDisk <- MCDisk
  Contents <- MCContents
  Lines <- MCLines
  LinesAfter <- MCLinesAfter
  MaxRuns = 3
  HashMax = 2
  Base64Max = 2
INVARIANTS
  TypeOK
  DoneAsAsked
  CoversAll
  SecretsStay
  RefusedKeepsOutput
  VerifiedWasSigned
  SignedByIssuer
CHECK_DEADLOCK FALSE
