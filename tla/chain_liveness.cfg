CONSTANTS
  Person = {ada}
  ada = ada
  NoPassport = NoPassport
  UnreadablePassport = UnreadablePassport
  Uploader = ada
  MaxJobs = 2
  MaxSteps = 2
  CrossingErase = FALSE
  EraseDeletes = FALSE
  Redelivers = FALSE
SPECIFICATION FairSpec
PROPERTY
  ProcessingMovesOn
CHECK_DEADLOCK FALSE
