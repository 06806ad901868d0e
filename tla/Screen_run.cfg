SPECIFICATION FairScreenSpec
CONSTANTS
  MaxStr = 4
  MaxHistory = 3
  MaxTyped = 3
  MaxLines = 4
  Cols = 3
  MaxShown = 4
INVARIANTS
  ScreenTypeOK
  HistoryInOrder
  LineIsWhatWasTyped
  ShownAsTyped
  PromptStays
PROPERTIES
  LatestBehindCursor
  ForgetsOnlyOldest
  TwoLinesKeepIndexInArray
  EnterIsAnswered
