CONSTANTS
  Person = {ada, bob}
  bob = bob
  ada = ada
  NoPassport = NoPassport
  UnreadablePassport = UnreadablePassport
  Uploader = bob
  MaxJobs = 2
  MaxSteps = 2
  CrossingErase = TRUE
  EraseDeletes = FALSE
  Redelivers = FALSE
SPECIFICATION Spec
PROPERTIES
  ErasedNotCarriedOn
CHECK_DEADLOCK FALSE
