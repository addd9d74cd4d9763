CONSTANTS
  Turns = 2
  MaxForms = 3
  Depth = 16
  Symbol <- AllSymbols
  First <- AllForms
  Later <- AllLater
  PyModule <- ModuleOf
  PyCompiles <- ModuleCompiles
  PyResult <- ExecModule
  PyReturns <- ModuleReturns
SPECIFICATION Spec
INVARIANTS TypeOK RejectsWhatIsIllFormed RunsAsMeant WellFormedCompiles OnlyWellFormedRuns
PROPERTIES AcceptedLeavesNothing
CHECK_DEADLOCK FALSE
