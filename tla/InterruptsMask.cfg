CONSTANT Opcodes <- ProgramBytes
SPECIFICATION InterruptsSpec
PROPERTY MaskFromCPU
CHECK_DEADLOCK FALSE
