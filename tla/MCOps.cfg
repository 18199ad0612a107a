CONSTANTS
  Inputs <- mcInputs
  Code <- mcCode
  Tags <- mcTags
  Rules <- mcRules
  MemoRules <- mcMemoRules
  StartPoint = 4
  StackSize = 64
  MemoWindow = 1
  MemoPoints = 2
  InputBase = 1000
SPECIFICATION Spec
PROPERTY Backtracks
INVARIANTS
  ParseDefined
  FailChain
  ResultMatchesGrammar
  MemoFaithful
