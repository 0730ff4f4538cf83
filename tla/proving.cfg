CONSTANTS
  BlockInterval = 3
  HeaderFails = TRUE
  MaxBlock = 9
  Length = 3
  MinGamma = 4
  MaxGamma = 6
  GammaBound = 8
SPECIFICATION FairSpec
CHECK_DEADLOCK FALSE
INVARIANTS ProvingTypeOK NoncesIncrease MappingFits
PROPERTIES Terminates CloseReturns OnlyAHandOffBlocksTheEnd
