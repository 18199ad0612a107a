CONSTANTS
  Inputs <- mcExample
  Code <- mcCode
  Tags <- mcTags
  Rules <- mcRules
  MemoRules <- mcMemoRules
  StartPoint = 4
  StackSize = 64
  MemoWindow = 1
  MemoPoints = 4
  InputBase = 1000
SPECIFICATION Spec
INVARIANT
  CleanDisposal
