SPECIFICATION DataSpec
CONSTANTS
  Count = 9
  Keys = {1, 2, 3}
  BubThresh = 4
  StackSize = 6
  MaxText = 4
  Texts <- MCTexts
INVARIANTS
  SortedWhenDone
  StackSuffices
  TagsNested
  DocumentsRead
PROPERTIES
  CallsEnd
CHECK_DEADLOCK FALSE
