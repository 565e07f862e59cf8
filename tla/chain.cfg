CONSTANTS
  Person = {ada, bob}
  bob = bob
  ada = ada
  NoPassport = NoPassport
  UnreadablePassport = UnreadablePassport
  Uploader = ada
  MaxJobs = 2
  MaxSteps = 2
  CrossingErase = FALSE
  EraseDeletes = TRUE
  Redelivers = TRUE
SPECIFICATION Spec
INVARIANTS
  TypeOK
  RowConstraints
  OneEndPerJob
  EveryAskedJobKnown
  NoJobBeforePromotion
  NoJobForgotten
  HeldNotCancelled
  HandoffNeverRefused
  RefusalFreesTheFile
PROPERTIES
  CancelSticks
  ErasedNotCarriedOn
  ImplementsContract
CHECK_DEADLOCK FALSE
