------------------------- MODULE CPUControlProperties -------------------------
(***************************************************************************)
(* What CPUControl.tla is checked against.                                 *)
(***************************************************************************)
EXTENDS CPUControl, FiniteSets

(* TypeOK: the types of the variables. *)
TypeOK ==
  /\ phase \in Phase
  /\ state \in CpuState
  /\ next_state \in CpuState \cup {"none"}
  /\ cycle_control \in CycleControl
  /\ next_cycle_control \in CycleControl
  /\ memory_cycle \in 0 .. 2
  /\ cycle_ended \in BOOLEAN
  /\ decoded_instruction \in Decoded
  /\ interrupt_pending \in BOOLEAN
  /\ ready \in BOOLEAN
  /\ driving \in BOOLEAN

(* The order of the decoding rows matters ("must be before Lrr to capture  *)
(* M"): of the rows that match an opcode, the one that decodes it is the   *)
(* one that matches the fewest opcodes, so that no narrow row is hidden.   *)
DecodesMostSpecific ==
  LET Width(i) == Cardinality(decoding_table[i].medium) * Cardinality(decoding_table[i].low)
  IN
  phase = "sync_falls" /\ IsReading /\ cycle_control = "PCI" =>
  \A opcode \in Opcodes :
    Decoding[opcode] = decoded_instruction /\ Matching(opcode) # {} =>
      \E i \in Matching(opcode) :
        /\ decoding_table[i].name = decoded_instruction.name
        /\ \A j \in Matching(opcode) \ {i} : Width(i) < Width(j)

(* cycle_control comes from the table, one cycle ahead; memory_cycle is    *)
(* counted in T1.  The two always designate the same cycle of the          *)
(* instruction, however the previous cycle ended (CYCLE_END,               *)
(* CONDITIONAL_END, an interrupt, HLT) and however long it waited.         *)
CyclesFollowTheTable ==
  phase \notin {"sync_rises", "state"} /\ state # "STOPPED" =>
    IF cycle_control = "PCI"
    THEN memory_cycle = 0
    ELSE /\ memory_cycle + 1 \in DOMAIN instruction_table[decoded_instruction.name]
         /\ cycle_control = CycleOf(decoded_instruction).control

(* The assertions of execute_t3, execute_t4 and execute_t5 on what the     *)
(* actions they meet may be combined with: the kind of cycle, and operands *)
(* that designate a register and not the memory.                           *)
AssertsHold ==
  LET cycle == CycleOf(decoded_instruction)
      Medium8 == decoded_instruction.medium
  IN
  phase \notin {"phase_11", "sync_rises", "state"} =>
    /\ state = "T3" /\ cycle_ended /\ cycle.t3 = "Out_Reg_b" => cycle_control = "PCW"
    /\ state = "T4" =>
         /\ cycle.t4 = "Source_to_Reg_b" => decoded_instruction.low # 7
         /\ cycle.t4 = "Reg_a_to_PC_H" => cycle_control = "PCR"
         /\ cycle.t4 = "Push_And_Reg_a_to_PC_H" => cycle_control \in {"PCR", "PCI"}
         /\ cycle.t4 = "Out_Conditions_Flags" => cycle_control = "PCC"
    /\ state = "T5" =>
         /\ cycle.t5 = "Reg_b_to_Destination" => Medium8 # 7
         /\ cycle.t5 \in {"Inc_Destination", "Dec_Destination"} => Medium8 \notin {0, 7}

(* Both: what is decoded is what the actions of its cycles can execute.    *)
DecodingIsSound == DecodesMostSpecific /\ AssertsHold

(* An interrupted instruction is never cut: T1I only begins a fetch cycle, *)
(* when all the cycles of the instruction before have been run.            *)
InterruptsBetweenInstructions ==
  state = "T1I" => cycle_control = "PCI"

(* The CPU never drives the data bus while it reads it, and leaves it free *)
(* from one T-state to the next (the cards take it for T3).                *)
DrivesOnlyItsStates ==
  driving => ~IsReading /\ phase \notin {"phase_11", "sync_rises", "state"}

(* A pending interrupt is never forgotten: it stays until a T1I is begun.  *)
PendingUntilTaken ==
  [][interrupt_pending /\ ~interrupt_pending' => next_state' = "T1I"]_control
==============================================================================
