------------------------------- MODULE CPU8008 -------------------------------
(***************************************************************************)
(* devices/src/CPU8008.cpp with its registers: each action of CPUControl   *)
(* with what it does to the address stack, the scratch pad, the flags and  *)
(* the data bus; and GeneralAddressRegister.cpp, which latches on the bus  *)
(* the address and the kind of each cycle.                                 *)
(*                                                                         *)
(* The CPU samples its interrupt, and READY in T2 and WAIT, only on the    *)
(* first edge of phase 1: it is enough here that they move just before     *)
(* (CPUControl lets them move at any moment).  What answers on the bus is  *)
(* any byte of the program that was chosen for the run.                    *)
(***************************************************************************)
EXTENDS CPUControl, AddressStack, ALU8008

CONSTANTS
  PowerOnRegisters,   (* scratch_pad_memory is not initialised               *)
  Programs            (* bound: the bytes that can be fetched as opcodes and *)
                      (* read as data, and the instructions run to their end *)

ASSUME RegistersAssumption ==
  PowerOnRegisters \subseteq [0 .. 6 -> Byte]

ASSUME ProgramsAssumption ==
  \A p \in Programs : p.opcodes \subseteq Opcodes /\ p.data \subseteq Byte

VARIABLES
  program,            (* the one of Programs that is run                     *)
  address_stack,
  scratch_pad_memory,
  flags,
  hidden_registers,
  io_data_latch,
  gar,                (* GeneralAddressRegister: latched address and control *)
  instructions,       (* the instructions begun                              *)
  begun_by,           (* history: the state, T1 or T1I, that began the cycle *)
  bus,                (* history: the bus cycles of the current instruction  *)
  done                (* history: the registers, and the bus cycles, when    *)
                      (* the last instruction ended                          *)

registers == <<address_stack, scratch_pad_memory, flags, hidden_registers, io_data_latch>>
history == <<instructions, begun_by, bus, done>>
vars == <<program, control, registers, gar, history>>

Register == 0 .. 6
A == 0
H == 5
L == 6

CPUInit ==
  /\ Init
  /\ program \in Programs
  /\ address_stack = clear_stack
  /\ scratch_pad_memory \in PowerOnRegisters
  /\ flags = ClearFlags
  /\ hidden_registers = [a |-> 0, b |-> 0]
  /\ io_data_latch = 0
  /\ gar = [low |-> 0, high |-> 0, control |-> "PCI"]
  /\ instructions = 0
  /\ begun_by = "T1"
  /\ bus = <<>>
  /\ done = [stack |-> address_stack, reg |-> scratch_pad_memory,
             flags |-> flags, bus |-> <<>>]

-----------------------------------------------------------------------------
(* The T1 and T2 actions. T1I does not increment the program counter of a   *)
(* fetch. *)

(* Mutant: T1I increments the program counter, like T1. *)
KeepsPCAlways == FALSE

KeepsPC == next_state = "T1I" /\ cycle_control = "PCI"

(* execute_t1 and execute_t1i, with memory_cycle already counted. *)
ExecuteT1 ==
  LET from == IF cycle_control = "PCI" THEN "PC"
              ELSE instruction_table[decoded_instruction.name][memory_cycle' + 1].address
  IN
  /\ address_stack' = IF from # "PC" THEN address_stack
                      ELSE IF KeepsPC THEN get_low_pc_no_inc(address_stack)
                      ELSE get_low_pc_and_inc(address_stack)
  /\ io_data_latch' = CASE from = "PC" -> emitted_low(address_stack')
                        [] from = "HL" -> scratch_pad_memory[L]
                        [] from = "A_b" -> scratch_pad_memory[A]
  /\ UNCHANGED <<scratch_pad_memory, flags, hidden_registers>>

ExecuteT2 ==
  LET from == IF cycle_control = "PCI" THEN "PC"
              ELSE CycleOf(decoded_instruction).address
  IN
  /\ io_data_latch' = CASE from = "PC" -> get_high_pc(address_stack)
                        [] from = "HL" -> scratch_pad_memory[H]
                        [] from = "A_b" -> hidden_registers.b
  /\ UNCHANGED <<address_stack, scratch_pad_memory, flags, hidden_registers>>

ExecuteT3Write ==
  /\ io_data_latch' = hidden_registers.b
  /\ UNCHANGED <<address_stack, scratch_pad_memory, flags, hidden_registers>>

(* Mutant: register a is not cleared by a fetch. *)
ExecuteT3KeepsA(byte) ==
  LET action == IF cycle_control = "PCI" THEN "Fetch_IR_And_Reg_b"
                ELSE CycleOf(decoded_instruction).t3
  IN
  /\ hidden_registers' =
       CASE action \in {"Fetch_IR_And_Reg_b", "Fetch_Data_to_Reg_b"} ->
              [hidden_registers EXCEPT !.b = byte]
         [] action = "Fetch_Data_to_Reg_a" -> [hidden_registers EXCEPT !.a = byte]
         [] OTHER -> hidden_registers
  /\ UNCHANGED <<address_stack, scratch_pad_memory, flags, io_data_latch>>

(* execute_t3 of a cycle that reads `byte`. *)
ExecuteT3Read(byte) ==
  LET action == IF cycle_control = "PCI" THEN "Fetch_IR_And_Reg_b"
                ELSE CycleOf(decoded_instruction).t3
  IN
  /\ hidden_registers' =
       CASE action = "Fetch_IR_And_Reg_b"  -> [a |-> 0, b |-> byte]
         [] action = "Fetch_Data_to_Reg_b" -> [hidden_registers EXCEPT !.b = byte]
         [] action = "Fetch_Data_to_Reg_a" -> [hidden_registers EXCEPT !.a = byte]
         [] OTHER -> hidden_registers
  /\ UNCHANGED <<address_stack, scratch_pad_memory, flags, io_data_latch>>

FlagsByte == flags["Sign"] + 2 * flags["Zero"] + 4 * flags["Parity"] + 8 * flags["Carry"]

ExecuteT4 ==
  LET action == CycleOf(decoded_instruction).t4
  IN
  /\ address_stack' =
       CASE action = "Reg_a_to_PC_H" -> set_high_pc(address_stack, hidden_registers.a)
         [] action = "Push_And_Reg_a_to_PC_H" ->
              set_high_pc(push(address_stack), hidden_registers.a)
         [] action = "Pop_Stack" -> pop(address_stack)
         [] OTHER -> address_stack
  /\ hidden_registers' =
       IF action = "Source_to_Reg_b"
       THEN [hidden_registers EXCEPT !.b = scratch_pad_memory[decoded_instruction.low]]
       ELSE hidden_registers
  /\ io_data_latch' = IF action = "Out_Conditions_Flags" THEN FlagsByte
                                              ELSE io_data_latch
  /\ UNCHANGED <<scratch_pad_memory, flags>>

(* What T5 leaves in the scratch pad and in the flags. *)
Result(action) ==
  LET medium == decoded_instruction.medium
      a == scratch_pad_memory[A]
      incremented == (scratch_pad_memory[medium] + 1) % 256
      decremented == (scratch_pad_memory[medium] - 1) % 256
      computed == ALU_Operation(medium, a, hidden_registers.b, flags)
      rotated == Rotate_A(medium % 4, a, flags)
      Put(r, value) == [scratch_pad_memory EXCEPT ![r] = value]
  IN
  CASE action = "Reg_b_to_Destination" ->
         [pad |-> Put(medium, hidden_registers.b), flags |-> flags]
    [] action = "Reg_b_to_A" -> [pad |-> Put(A, hidden_registers.b), flags |-> flags]
    [] action = "Inc_Destination" ->
         [pad |-> Put(medium, incremented), flags |-> update_flags(flags, incremented)]
    [] action = "Dec_Destination" ->
         [pad |-> Put(medium, decremented), flags |-> update_flags(flags, decremented)]
    [] action = "ALU_Operation_With_RegB" ->
         [pad |-> Put(A, computed.a), flags |-> computed.flags]
    [] action = "Rotate_A" -> [pad |-> Put(A, rotated.a), flags |-> rotated.flags]
    [] OTHER -> [pad |-> scratch_pad_memory, flags |-> flags]

ExecuteT5 ==
  LET action == CycleOf(decoded_instruction).t5
  IN
  /\ address_stack' =
       CASE action = "Reg_b_to_PC_L" -> set_low_pc(address_stack, hidden_registers.b)
         [] action = "Reg_b_to_PC_L_3_to_5" ->
              set_low_pc(address_stack, decoded_instruction.medium * 8)
         [] OTHER -> address_stack
  /\ scratch_pad_memory' = Result(action).pad
  /\ flags' = Result(action).flags
  /\ UNCHANGED <<hidden_registers, io_data_latch>>

-----------------------------------------------------------------------------
BeginsInstruction == next_state \in {"T1", "T1I"} /\ cycle_control = "PCI"

(* History: an instruction is done when the next one begins, or in STOPPED. *)
Record ==
  /\ instructions' = IF BeginsInstruction THEN instructions + 1 ELSE instructions
  /\ begun_by' = IF next_state \in {"T1", "T1I"} THEN next_state ELSE begun_by
  /\ IF (BeginsInstruction \/ next_state = "STOPPED") /\ bus # <<>>
     THEN /\ bus' = <<>>
          /\ done' = [stack |-> address_stack, reg |-> scratch_pad_memory,
                      flags |-> flags, bus |-> bus]
     ELSE UNCHANGED <<bus, done>>

CPUEnterState ==
  /\ EnterState
  /\ \/ next_state \in {"T1", "T1I"} /\ ExecuteT1
     \/ next_state = "T2" /\ ExecuteT2
     \/ next_state = "T3" /\ cycle_control = "PCW" /\ ExecuteT3Write
     \/ next_state = "T4" /\ ExecuteT4
     \/ next_state = "T5" /\ ExecuteT5
     \/ next_state \in {"WAIT", "STOPPED", "none"} /\ UNCHANGED registers
     \/ next_state = "T3" /\ cycle_control # "PCW" /\ UNCHANGED registers
  /\ Record
  /\ UNCHANGED <<program, gar>>

(* checks_conditional_cycle_end: the flag the condition is about, and the   *)
(* value it must have. *)
FlagOf(medium) == <<"Carry", "Zero", "Sign", "Parity">>[(medium % 4) + 1]
condition_verified(instruction) ==
  (flags[FlagOf(instruction.medium)] # 0) <=> (instruction.medium >= 4)

CPUDataIn ==
  \E byte \in IF IsReading THEN IF cycle_control = "PCI" THEN program.opcodes ELSE program.data ELSE {0} :
    LET fetched == IF IsReading /\ cycle_control = "PCI" THEN Decoding[byte]
                                                         ELSE decoded_instruction
        cycle == [control |-> IF begun_by = "T1I" THEN begun_by ELSE gar.control,
                  address |-> gar.high * 256 + gar.low,
                  data |-> IF IsReading THEN byte ELSE io_data_latch]
    IN
    /\ DataIn(fetched, condition_verified(fetched))
    /\ IF IsReading THEN ExecuteT3Read(byte) ELSE UNCHANGED registers
    /\ bus' = IF state = "T3" THEN Append(bus, cycle) ELSE bus
    /\ UNCHANGED <<program, gar, instructions, begun_by, done>>

(* GeneralAddressRegister::on_sync: the low byte in T1, the high byte in T2.  *)
CPUSyncFalls ==
  /\ SyncFalls
  /\ gar' = CASE state \in {"T1", "T1I"} -> [gar EXCEPT !.low = io_data_latch]
              [] state = "T2" ->
                   [gar EXCEPT !.high = io_data_latch % 64, !.control = cycle_control]
              [] OTHER -> gar
  /\ UNCHANGED <<program, registers, history>>

(* The model stops in the first T-state of one instruction more. *)
CPUPhase21 ==
  /\ Phase21
  /\ instructions <= program.length
  /\ UNCHANGED <<program, registers, gar, history>>

CPUNext ==
  \/ (Phase11 \/ SyncRises \/ Phase22) /\ UNCHANGED <<program, registers, gar, history>>
  \/ CPUPhase21
  \/ CPUEnterState
  \/ CPUDataIn
  \/ CPUSyncFalls
  \/ /\ phase = "phase_11"
     /\ \/ Interrupt
        \/ state \in {"T2", "WAIT"} /\ \E level \in BOOLEAN : SetReady(level)
     /\ UNCHANGED <<program, registers, gar, history>>

CPUSpec == CPUInit /\ [][CPUNext]_vars
==============================================================================
