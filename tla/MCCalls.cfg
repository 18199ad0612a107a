CONSTANTS
  Text <- mcText
  Words <- mcWords
  Ranges <- mcRanges
  Masks <- mcMasks
  Block = 4
  LongBytes = 3
  CountSize = 8
  StackSize = 3
  MaxNodes = 3
  MaxSaves = 2
SPECIFICATION Spec
INVARIANTS CountsExact MatchesAgree SearchesAgree CountsDown
