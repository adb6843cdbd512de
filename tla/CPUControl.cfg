CONSTANT Opcodes <- Opcode
SPECIFICATION Spec
INVARIANTS TypeOK DecodingIsSound CyclesFollowTheTable InterruptsBetweenInstructions DrivesOnlyItsStates
PROPERTY PendingUntilTaken
