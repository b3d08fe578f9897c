SPECIFICATION Spec
CONSTANTS
  Ranges <- MCRanges
  Hash <- MCHash
  MinCap = 4
  Files <- MCFiles
  Texts <- MCTexts
  MaxReply = 4
INVARIANTS TextTypeOK BpeIsGreedy WordsMatch TextKept StreamIsDecode
