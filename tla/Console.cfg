CONSTANTS
  Memory = Memory
  InputCard = InputCard
  Cards = {Memory, InputCard}
  Console = Console
  Nobody = Nobody
  NoData = NoData
  \* LAM (a read cycle), LMA (a write), INP; NOP and JMP by the switches; HLT is 0.
  Opcodes <- Opcode
  MemoryBytes = {199, 248, 65}
  IOBytes = {1}
  SwitchBytes = {192, 68}
SPECIFICATION FairConsole
INVARIANTS TypeOK NoClash BusCarriesTheByte HoldsAsAsked AutomaticRuns
PROPERTY StepEnds
CHECK_DEADLOCK FALSE
