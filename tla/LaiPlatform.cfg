SPECIFICATION Spec
CONSTANTS
  Threads = {t1, t2}
  MaxOps <- MCMaxOps
  Offsets = {0, 1}
  Values = {0, 1}
  EcCalls <- MCEcCalls
  Ecdts <- MCEcdts
  CrsLists <- MCCrsLists
  Waits = {2, 3}
  Packages <- MCPackages
  Tree <- MCTree
  Sb = "_SB_"
  Methods = {"_SB_._INI", "_PTS"}
  Raised <- MCRaised
  Deep = {"_SB_._INI"}
  POLLS = 2
  HasB = TRUE
  Extended = FALSE
  TIMER = 4
  WORD = 8
  IRQS = 4
  BYTE = 2
  REACH = 2
  Machines <- MCMachines
PROPERTIES
  SyncCorrect
  EcCorrect
  
  
