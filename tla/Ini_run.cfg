SPECIFICATION Spec
CONSTANTS
  Sections = {0, 1}
  Names = {0, 1, 2}
  Files <- MCFiles
  Numbers = {5, 14}
  Radix = 2
  Digits <- MCDigits
  Byte = 2
  Doubles <- MCDoubles
  MaxCalls = 2
INVARIANTS TypeOK FindsFirst
PROPERTIES KeepsSettings SortsEntries ReadsBack
CHECK_DEADLOCK FALSE
