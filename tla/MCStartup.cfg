SPECIFICATION Spec
CONSTANTS
  Values <- SomeValues
  ConfLines = 4
  MAX_GROUP_NUM = 2
  GROUP_MAX_SERVER_NUM = 2
  Numbers <- SomeNumbers
  Rates <- SomeRates
  Debug = TRUE
  MaxLines = 3
  MAX_VARS_NUM = 3
  MAX_RES_VARS_NUM = 1
  MAX_TEMPLATE_NUM = 2
  UiVars <- Ui
  ResVars <- Res
  Files <- SomeFiles
  Sound <- AllSound
  GoOnLines = 2
INVARIANTS
  StartupTypeOK
  ChecksAsWritten
  MergeStatSticksOff
  LinesAsHeard
  SharesAreRates
  NumbersFit
  VarsFound
  FirstWins
  ListensIffLoadable
\* The process listens, has exited, or is followed no further.
CHECK_DEADLOCK FALSE
