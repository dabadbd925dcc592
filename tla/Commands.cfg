\* Every command line, string and file of MCCommands.
SPECIFICATION CommandsSpec
CONSTANTS
  None = None
  Lines <- MCLines
  Dashed <- MCDashed
  Atoi <- MCAtoi
  IntMax = 7
  BlockLen = 2
  Strings <- MCStrings
  Bounds <- MCBounds
  LongMax = 1003
  OcspProcs = {"p", "q"}
  OcspSessions <- MCOcspSessions
  OcspDisk <- MCOcspDisk
  Revised <- MCRevised
  PortMax = 3
  MaxLen = 4
  Block = 2
  SaltAndIv = 3
  Texts <- MCTexts
  Givens <- MCGivens
  Uses <- MCUses
  DerNumbers <- MCDerNumbers
INVARIANTS
  CommandsTypeOK
  RandIsExact
  DecimalCorrect
  DecryptsWhatItEncrypted
  VerifiesWhatItSigned
  OutputsKept
  WritesWhatItMeasured
  OcspTellsTheStatus
PROPERTIES
  CommandReturns
