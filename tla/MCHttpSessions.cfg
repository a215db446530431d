SPECIFICATION Spec
CONSTANTS
  a1 = a1
  a2 = a2
  Attempts <- MCAttempts
  Caller = caller
  Caps = {1, 2}
  MaxKills = 1
  None = none
  Global = global
INVARIANTS CapCoversStarting OnlyFitWorkersServe ReleaseSparesSuccessors NobodyIsStranded
SYMMETRY Sym
