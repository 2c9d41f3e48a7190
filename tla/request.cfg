SPECIFICATION Spec
CONSTANTS
  Apps <- AppsDef
  MaxReqTx = 2
  MaxTx = 3
  MaxErrors = 2
INVARIANTS PanicIs500 ResourceIsProtected ErrorsAreReported NoOpenTransaction 
CHECK_DEADLOCK FALSE
