CONSTANTS
  \* Three calls are enough to go round the ring.
  Depth = 3
  Opcodes <- Opcode
  PowerOnRegisters <- OneRegisterFile
  Programs <- AllPrograms
SPECIFICATION CPUSpec
PROPERTY ImplementsISA
\* The programs end.
CHECK_DEADLOCK FALSE
