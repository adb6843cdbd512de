CONSTANT Opcodes <- ProgramBytes
SPECIFICATION FairInterrupts
INVARIANTS TypeOK ClashOnlyAtStart AppliedIsKept
PROPERTIES DroppedByItsJam ProtectedInstruction InterruptsAreServed
CHECK_DEADLOCK FALSE
