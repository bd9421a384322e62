SPECIFICATION Spec
CONSTANTS
  Options <- MCOptions
  MaxVersion = 1
  MaxInits = 2
  MaxConfigs = 1
  MaxContexts = 2
  Value <- MCValue
  Size <- MCSize
  LevelsAbove <- MCLevelsAbove
  UseContrib = TRUE
  UnreliableKernels <- MCUnreliableKernels
  Fitting <- MCFitting
  OddArguments <- MCOddArguments
  Companions <- MCCompanions
  UnreliableLayers <- MCUnreliableLayers
INVARIANTS
  TypeOK TablesCurrent ConstructedVerify VerifiedRun ArgumentsReachLibrary
  GeneratedKernelsExact
PROPERTIES
  EverythingReleased
CHECK_DEADLOCK FALSE
