SPECIFICATION FairSpec
CONSTANT MaxArgs = 3
INVARIANTS
  TypeOK
  LastModeWins
  ClockGivenBack
  HandsOff
  ExitCodeTells
PROPERTIES
  ComesToAnEnd
  SessionSpec
