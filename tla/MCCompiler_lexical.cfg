CONSTANTS
  Turns = 2
  MaxForms = 3
  Depth = 16
  Symbol <- AllSymbols
  First <- AllForms
  Later <- AllLater
  PyModule <- ModuleOf
  PyCompiles <- ModuleCompiles
  PyResult <- ExecModule
  PyReturns <- ModuleReturns
SPECIFICATION Spec
INVARIANTS CheckedLexically
CHECK_DEADLOCK FALSE
