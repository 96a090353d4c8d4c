SPECIFICATION ReadSpec
CONSTANT Inputs <- ScriptInputs
CHECK_DEADLOCK FALSE
INVARIANT InterpreterIsKept
