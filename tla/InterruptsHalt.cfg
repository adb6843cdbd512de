CONSTANT Opcodes <- ProgramBytes
SPECIFICATION FairInterrupts
PROPERTY InitCannotBeMasked
CHECK_DEADLOCK FALSE
