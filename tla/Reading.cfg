SPECIFICATION ReadSpec
CONSTANT Inputs <- AllInputs
CHECK_DEADLOCK FALSE
INVARIANTS ReadTypeOK ReadAsWritten
PROPERTY PlainFilesAreRead
