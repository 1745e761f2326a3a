SPECIFICATION FairSpec
CHECK_DEADLOCK FALSE
CONSTANTS
  RetType = "int"
  CharBits = 3
  NUM_REGS = 2
  ArrayBase <- MCArrayBase
  NumElts <- MCNumElts
  Generated <- MCGenerated
  Programs <- MCPrograms
  FlagSets <- MCFlagSets
INVARIANTS TypeOK MeaningKept HomesDisjoint
PROPERTIES Compiled
