SPECIFICATION FairSpec
CONSTANTS
  MaxSeq = 17
  Vocab <- MCVocab
  Unknown <- MCUnknown
  Stops <- MCStops
  Blanks <- MCBlanks
  EndMark = "END"
  Retok <- MCRetok
  Lines <- MCLines
  System <- MCSystem
  Thinking = FALSE
  MaxTokens = 2
  MaxMessages = 4
  MaxClears = 1
  Rows = {1, 2}
  Prompts <- MCPrompts
  Pad = "pad"
  Eos = "eos"
  Files <- MCFiles
  NameLen <- MCNameLen
  StrLen <- MCStrLen
  BlockOf <- MCBlockOf
  IntMax = 18
INVARIANTS ChatTypeOK ChatContext CachedIds DiesOnlyWhenFull RowsIndependent LoadedIsFile OwnedOnce
PROPERTIES TurnEnds BatchEnds
CHECK_DEADLOCK FALSE
