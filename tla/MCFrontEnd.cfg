SPECIFICATION Spec
CONSTANT Programs <- MCPrograms
INVARIANTS
  MeaningKept
  ElementsOnce
  AccessesCovered
  NamesInPlace
  TypesRight
  NormalForm
  RightVerdict
  LoopsCut
  OnlyLoopsMarked
  ImportsInOrder
