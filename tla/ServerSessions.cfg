SPECIFICATION Spec
CONSTANTS
  s1 = s1
  s2 = s2
  cat = cat
  dog = dog
  Session <- MCSession
  SaveName <- MCSaveName
  Listed <- MCListed
  Descriptor <- MCDescriptor
  NumDevices = 2
  NumGPUs = 2
  MaxRequest = 2
  Generators = 2
  MaxUploads = 2
  MaxCrashes = 1
  None = None
  Start = Start
  Torn = Torn
INVARIANTS
  TypeOK DevicesExclusive OwnDescriptor EndedHoldsNothing ListedAsUploaded LoadedAsListed
  DiskAndListAgree UploadFoldersApart FatalOnlyOnSameName ConfigureSendsAll
PROPERTIES
  SessionsEnd
