SPECIFICATION Spec
CONSTANTS
  Width = 4
  Tables <- AllTables
  Methods <- MainAndBuf
  Inputs <- InputValues
  MaxCalls = 2
  SmallSizes <- SmallStacks

  
  
  
PROPERTIES
  Terminates
