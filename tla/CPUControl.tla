------------------------------ MODULE CPUControl ------------------------------
(***************************************************************************)
(* devices/src/CPU8008.cpp: the sequencing of T-states, of memory cycles   *)
(* and of interrupts. What the T-states do to the registers is in CPU8008, *)
(* which adds it to the actions of this module.                            *)
(*                                                                         *)
(* A T-state lasts two periods of the double clock.  `phase` is the next   *)
(* of the clock edges (or of the events the CPU schedules after one) that  *)
(* the CPU acts on; READY and the interrupt line may move between any two. *)
(* The power never falls: Simulator raises it once.                        *)
(***************************************************************************)
EXTENDS Instructions8008

CONSTANT Opcodes   (* the bytes that can be fetched as opcodes *)

ASSUME OpcodesAssumption == Opcodes \subseteq Opcode

VARIABLES
  phase,                 (* where in the T-state the CPU is                   *)
  state,                 (* output_pins.state                                 *)
  next_state,            (* the STATE event in next_events, or "none"         *)
  cycle_control,
  next_cycle_control,
  memory_cycle,
  cycle_ended,
  decoded_instruction,
  interrupt_pending,
  ready,                 (* input_pins.ready                                  *)
  driving                (* the CPU owns data_pins                            *)

sequencing == <<state, next_state, cycle_control, next_cycle_control,
                memory_cycle, cycle_ended, decoded_instruction>>
control == <<phase, sequencing, interrupt_pending, ready, driving>>

CpuState == {"WAIT", "T3", "T1", "STOPPED", "T2", "T5", "T1I", "T4"}
Phase == {"phase_11", "sync_rises", "state", "phase_21", "data_in", "sync_falls", "phase_22"}

Init ==
  /\ phase = "phase_11"
  /\ state = "STOPPED"
  /\ next_state = "none"
  /\ cycle_control = "PCI"
  /\ next_cycle_control = "PCI"
  /\ memory_cycle = 0
  /\ cycle_ended = FALSE
  /\ decoded_instruction = unknown_instruction
  /\ interrupt_pending = FALSE
  /\ ready \in BOOLEAN        (* low when the console starts in its stepping mode *)
  /\ driving = FALSE

-----------------------------------------------------------------------------
(* schedule_change_cpu_state, on the first rising edge of phase 1.          *)

GoTo(next) ==
  /\ next_state' = next
  /\ UNCHANGED <<cycle_control, interrupt_pending>>

is_instruction_complete == next_cycle_control = "PCI"

(* enter_interrupt if `allowed`, or else the next cycle begins with T1. *)
NextCycle(allowed) ==
  /\ interrupt_pending' = (interrupt_pending /\ ~allowed)
  /\ next_state' = IF interrupt_pending /\ allowed THEN "T1I" ELSE "T1"

LeaveStopped ==
  /\ state = "STOPPED"
  /\ interrupt_pending' = FALSE
  /\ next_state' = IF interrupt_pending THEN "T1I" ELSE "none"
  /\ UNCHANGED cycle_control

(* Mutant: the interrupt is taken at the end of any cycle. *)
EndCycleInterrupted ==
  /\ state \in {"T3", "T4"}
  /\ cycle_ended
  /\ decoded_instruction.name # "HLT"
  /\ NextCycle(TRUE)
  /\ cycle_control' = next_cycle_control

(* Mutant: the interrupt is forgotten at the end of a cycle that cannot take it. *)
EndCycleForgets ==
  /\ state \in {"T3", "T4"}
  /\ cycle_ended
  /\ decoded_instruction.name # "HLT"
  /\ interrupt_pending' = FALSE
  /\ next_state' = IF interrupt_pending /\ is_instruction_complete THEN "T1I" ELSE "T1"
  /\ cycle_control' = next_cycle_control

EndCycle ==
  /\ state \in {"T3", "T4"}
  /\ cycle_ended
  /\ decoded_instruction.name # "HLT"
  /\ NextCycle(is_instruction_complete)
  /\ cycle_control' = next_cycle_control

EndInstruction ==
  /\ state = "T5"
  /\ NextCycle(TRUE)
  /\ cycle_control' = "PCI"

Halt ==
  /\ state = "T3"
  /\ cycle_ended
  /\ decoded_instruction.name = "HLT"
  /\ next_state' = "STOPPED"
  /\ cycle_control' = "PCI"
  /\ UNCHANGED interrupt_pending

Phase11 ==
  /\ phase = "phase_11"
  /\ phase' = "sync_rises"
  /\ \/ state \in {"T1", "T1I"} /\ GoTo("T2")
     \/ state = "T2" /\ GoTo(IF ready THEN "T3" ELSE "WAIT")
     \/ state = "WAIT" /\ GoTo(IF ready THEN "T3" ELSE "none")
     \/ state = "T3" /\ ~cycle_ended /\ GoTo("T4")
     \/ state = "T4" /\ ~cycle_ended /\ GoTo("T5")
     \/ LeaveStopped
     \/ EndCycle
     \/ EndInstruction
     \/ Halt
  /\ UNCHANGED <<state, next_cycle_control, memory_cycle, cycle_ended,
                 decoded_instruction, ready, driving>>

(* step() on the SYNC event: SYNC is high from here to SyncFalls. *)
SyncRises ==
  /\ phase = "sync_rises"
  /\ phase' = "state"
  /\ UNCHANGED <<sequencing, interrupt_pending, ready, driving>>

-----------------------------------------------------------------------------
CycleOf(instruction) == instruction_table[instruction.name][memory_cycle + 1]

(* The control of the cycle after this one: PCI when it was the last.       *)
ControlAfter(instruction) ==
  LET cycles == instruction_table[instruction.name]
  IN  IF memory_cycle + 2 <= Len(cycles) THEN cycles[memory_cycle + 2].control
                                         ELSE "PCI"

(* Mutant: a cycle that ends early keeps the control the one before had set. *)
ChecksCycleEndKeepsControl(instruction, t, holds) ==
  LET last == CycleOf(instruction).last = t
  IN
  /\ cycle_ended' = (last \/ (t = "T3" /\ CycleOf(instruction).conditional /\ ~holds))
  /\ next_cycle_control' = IF last THEN ControlAfter(instruction) ELSE next_cycle_control

(* checks_cycle_end and, in T3, checks_conditional_cycle_end: a condition   *)
(* that does not hold ends the instruction.                                 *)
ChecksCycleEnd(instruction, t, holds) ==
  LET last == CycleOf(instruction).last = t
      early == t = "T3" /\ CycleOf(instruction).conditional /\ ~holds
  IN
  /\ cycle_ended' = (last \/ early)
  /\ next_cycle_control' = IF early THEN "PCI"
                           ELSE IF last THEN ControlAfter(instruction)
                           ELSE next_cycle_control

EnterT1 ==
  /\ next_state \in {"T1", "T1I"}
  /\ cycle_ended' = FALSE
  /\ memory_cycle' = IF cycle_control = "PCI" THEN 0 ELSE memory_cycle + 1
  /\ UNCHANGED <<next_cycle_control, driving>>

(* A write drives the bus from the beginning of T3; a read waits for DATA_IN. *)
EnterT3Write ==
  /\ next_state = "T3"
  /\ cycle_control = "PCW"
  /\ ChecksCycleEnd(decoded_instruction, "T3", TRUE)
  /\ driving' = TRUE
  /\ UNCHANGED memory_cycle

EnterT4 ==
  /\ next_state = "T4"
  /\ ChecksCycleEnd(decoded_instruction, "T4", TRUE)
  /\ UNCHANGED <<memory_cycle, driving>>

EnterT5 ==
  /\ next_state = "T5"
  /\ cycle_ended' = TRUE
  /\ UNCHANGED <<next_cycle_control, memory_cycle, driving>>

EnterOther ==
  /\ \/ next_state \in {"T2", "WAIT", "STOPPED", "none"}
     \/ next_state = "T3" /\ cycle_control # "PCW"
  /\ UNCHANGED <<next_cycle_control, memory_cycle, cycle_ended, driving>>

(* Mutant: the STATE event is taken for granted in WAIT and STOPPED. *)
AlwaysNextState == next_state

StateAfter == IF next_state = "none" THEN state ELSE next_state

(* step() on the STATE event, if there is one. *)
EnterState ==
  /\ phase = "state"
  /\ phase' = "phase_21"
  /\ state' = StateAfter
  /\ next_state' = "none"
  /\ EnterT1 \/ EnterT3Write \/ EnterT4 \/ EnterT5 \/ EnterOther
  /\ UNCHANGED <<cycle_control, decoded_instruction, interrupt_pending, ready>>

(* The T-states in which the CPU drives the bus from phase 21 to phase 22.  *)
DrivesAfterPhase21 ==
  \/ state \in {"T1", "T1I", "T2"}
  \/ state = "T4" /\ cycle_control = "PCC"

(* on_signal_21_raising, and the DATA_OUT event it schedules. *)
Phase21 ==
  /\ phase = "phase_21"
  /\ phase' = "data_in"
  /\ driving' = (driving \/ DrivesAfterPhase21)
  /\ UNCHANGED <<sequencing, interrupt_pending, ready>>

IsReading == state = "T3" /\ cycle_control # "PCW"

(* on_signal_21_falling, and execute_t3 on the DATA_IN event.               *)
DataIn(instruction, holds) ==
  /\ phase = "data_in"
  /\ phase' = "sync_falls"
  /\ IF IsReading
     THEN /\ decoded_instruction' = IF cycle_control = "PCI" THEN instruction
                                                             ELSE decoded_instruction
          /\ ChecksCycleEnd(decoded_instruction', "T3", holds)
     ELSE UNCHANGED <<decoded_instruction, cycle_ended, next_cycle_control>>
  /\ UNCHANGED <<state, next_state, cycle_control, memory_cycle,
                 interrupt_pending, ready, driving>>

(* step() on the SYNC event scheduled by on_signal_12_raising. *)
SyncFalls ==
  /\ phase = "sync_falls"
  /\ phase' = "phase_22"
  /\ UNCHANGED <<sequencing, interrupt_pending, ready, driving>>

(* Mutant: the bus is not released after a write. *)
Phase22KeepsBus ==
  /\ phase = "phase_22"
  /\ phase' = "phase_11"
  /\ driving' = (driving /\ ~DrivesAfterPhase21)
  /\ UNCHANGED <<sequencing, interrupt_pending, ready>>

(* on_signal_22_falling. READY may be moved by the console on the same edge. *)
EndPhase22 ==
  /\ phase = "phase_22"
  /\ phase' = "phase_11"
  /\ driving' = (driving /\ ~(DrivesAfterPhase21 \/ (state = "T3" /\ cycle_control = "PCW")))
  /\ UNCHANGED <<sequencing, interrupt_pending>>

Phase22 == EndPhase22 /\ UNCHANGED ready

-----------------------------------------------------------------------------
(* on_interrupt: the interrupt line rises. *)
Interrupt ==
  /\ interrupt_pending' = TRUE
  /\ UNCHANGED <<phase, sequencing, ready, driving>>

(* The console and the automatic start move READY. *)
SetReady(level) ==
  /\ ready' = level
  /\ UNCHANGED <<phase, sequencing, interrupt_pending, driving>>

Clock ==
  \/ Phase11
  \/ SyncRises
  \/ EnterState
  \/ Phase21
  \/ \E opcode \in Opcodes, holds \in BOOLEAN : DataIn(Decoding[opcode], holds)
  \/ SyncFalls
  \/ Phase22

Next ==
  \/ Clock
  \/ Interrupt
  \/ \E level \in BOOLEAN : SetReady(level)

Spec == Init /\ [][Next]_control
==============================================================================
