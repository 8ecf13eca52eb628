CONSTANTS
  Keys <- MCKeys
  Values = {1, 2}
  Nothing = Nothing
  max_level = 2
  kBlockSize = 2
SPECIFICATION Spec
INVARIANTS
  TypeOK
  LevelsInOrder
  SearchFinds
  AddsAscend
  GetFinds
PROPERTIES
  ImplementsMap
  FlushKeepsAnswers
  LeftoverIsPrefix
  SeekLands
  IterationComplete
