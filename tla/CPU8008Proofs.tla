--------------------------- MODULE CPU8008Proofs ---------------------------
(***************************************************************************)
(* Proofs about CPUControl.tla, for any set of opcodes, whatever READY and *)
(* the interrupt line do; and, from "The registers" on, that CPU8008.tla   *)
(* implements the instruction set for every program.                       *)
(***************************************************************************)
EXTENDS CPU8008Properties, CPUControlProperties, InstructionProofs, SequenceTheorems, TLAPS

(* The types the proofs need. *)
Typed ==
  /\ phase \in Phase
  /\ state \in CpuState
  /\ next_state \in CpuState \cup {"none"}
  /\ interrupt_pending \in BOOLEAN
  /\ driving \in BOOLEAN

(* T1I and STOPPED are only decided, and then entered, between instructions. *)
DecidedBetweenInstructions ==
  {state, next_state} \cap {"T1I", "STOPPED"} # {} => cycle_control = "PCI"

(* The bus is taken for a T-state that drives it, after it has been entered. *)
TakenForTheState ==
  driving =>
    /\ phase \in {"phase_21", "data_in", "sync_falls", "phase_22"}
    /\ DrivesAfterPhase21 \/ (state = "T3" /\ cycle_control = "PCW")

(* The inductive invariant. *)
IInv == Typed /\ DecidedBetweenInstructions /\ TakenForTheState

-----------------------------------------------------------------------------
(* The first state of the invariant. *)
LEMMA InitIInv == Init => IInv
BY DEF Init, IInv, Typed, DecidedBetweenInstructions, TakenForTheState, Phase, CpuState

(* What the first edge of phase 1 decides: an interrupt is only taken, and  *)
(* the CPU only stopped, when the next cycle is a fetch.                    *)
LEMMA Phase11Decides ==
  ASSUME IInv, Phase11
  PROVE  /\ next_state' \in CpuState \cup {"none"}
         /\ interrupt_pending' \in BOOLEAN
         /\ DecidedBetweenInstructions'
<1>1. state' = state
  BY DEF Phase11
<1>2. /\ state \in CpuState /\ next_state \in CpuState \cup {"none"}
      /\ interrupt_pending \in BOOLEAN
      /\ state \in {"T1I", "STOPPED"} => cycle_control = "PCI"
  BY DEF IInv, Typed, DecidedBetweenInstructions
<1>3. CASE \/ state \in {"T1", "T1I"} /\ GoTo("T2")
           \/ state = "T2" /\ GoTo(IF ready THEN "T3" ELSE "WAIT")
           \/ state = "WAIT" /\ GoTo(IF ready THEN "T3" ELSE "none")
           \/ state = "T3" /\ ~cycle_ended /\ GoTo("T4")
           \/ state = "T4" /\ ~cycle_ended /\ GoTo("T5")
  <2>1. /\ next_state' \in {"T2", "T3", "WAIT", "none", "T4", "T5"}
        /\ UNCHANGED <<cycle_control, interrupt_pending>>
    BY <1>3 DEF GoTo
  <2> QED
    BY <1>1, <1>2, <2>1 DEF CpuState, DecidedBetweenInstructions
<1>4. CASE LeaveStopped
  <2>1. /\ next_state' \in {"T1I", "none"} /\ interrupt_pending' = FALSE
        /\ cycle_control' = "PCI"
    BY <1>2, <1>4 DEF LeaveStopped
  <2> QED
    BY <2>1 DEF CpuState, DecidedBetweenInstructions
<1>5. CASE EndCycle
  <2>1. /\ state \in {"T3", "T4"} /\ cycle_control' = next_cycle_control
        /\ next_state' \in {"T1", "T1I"}
        /\ next_state' = "T1I" => next_cycle_control = "PCI"
    BY <1>5 DEF EndCycle, NextCycle, is_instruction_complete
  <2>2. interrupt_pending' \in BOOLEAN
    BY <1>5 DEF EndCycle, NextCycle
  <2> QED
    BY <1>1, <2>1, <2>2 DEF CpuState, DecidedBetweenInstructions
<1>6. CASE EndInstruction
  <2>1. next_state' \in {"T1", "T1I"} /\ cycle_control' = "PCI"
    BY <1>6 DEF EndInstruction, NextCycle
  <2>2. interrupt_pending' \in BOOLEAN
    BY <1>6 DEF EndInstruction, NextCycle
  <2> QED
    BY <2>1, <2>2 DEF CpuState, DecidedBetweenInstructions
<1>7. CASE Halt
  BY <1>2, <1>7 DEF Halt, CpuState, DecidedBetweenInstructions
<1> QED
  BY <1>3, <1>4, <1>5, <1>6, <1>7 DEF Phase11

LEMMA DataInIInv ==
  ASSUME IInv, NEW instruction, NEW holds, DataIn(instruction, holds)
  PROVE  IInv'
BY DEF IInv, DataIn, Typed, Phase, DecidedBetweenInstructions, TakenForTheState,
   DrivesAfterPhase21

(* Every step keeps the invariant. *)
LEMMA NextIInv == IInv /\ [Next]_control => IInv'
<1> SUFFICES ASSUME IInv, [Next]_control PROVE IInv'
  OBVIOUS
<1> USE DEF IInv
<1>1. CASE Phase11
  <2>1. Typed'
    BY <1>1, Phase11Decides DEF Typed, Phase11, Phase
  <2>2. TakenForTheState'
    BY <1>1 DEF TakenForTheState, Phase11
  <2> QED
    BY <1>1, <2>1, <2>2, Phase11Decides
<1>2. CASE SyncRises
  BY <1>2 DEF SyncRises, sequencing, Typed, Phase, DecidedBetweenInstructions, TakenForTheState
<1>3. CASE EnterState
  <2>1. /\ phase = "state" /\ phase' = "phase_21"
        /\ state' = StateAfter /\ next_state' = "none"
        /\ UNCHANGED <<cycle_control, interrupt_pending>>
    BY <1>3 DEF EnterState
  <2>2. ~driving
    BY <2>1 DEF TakenForTheState
  <2>3. \/ driving' = driving
        \/ driving' = TRUE /\ next_state = "T3" /\ cycle_control = "PCW"
    BY <1>3 DEF EnterState, EnterT1, EnterT3Write, EnterT4, EnterT5, EnterOther
  <2>4. Typed'
    BY <2>1, <2>2, <2>3 DEF Typed, Phase, CpuState, StateAfter
  <2>5. DecidedBetweenInstructions'
    BY <2>1 DEF DecidedBetweenInstructions, StateAfter
  <2>6. TakenForTheState'
    BY <2>1, <2>2, <2>3 DEF TakenForTheState, StateAfter
  <2> QED
    BY <2>4, <2>5, <2>6
<1>4. CASE Phase21
  <2>1. /\ phase' = "data_in" /\ UNCHANGED <<sequencing, interrupt_pending>>
        /\ driving' = (driving \/ DrivesAfterPhase21)
    BY <1>4 DEF Phase21
  <2>2. driving' \in BOOLEAN
    BY <2>1, Zenon DEF Typed
  <2>3. Typed' /\ DecidedBetweenInstructions'
    BY <2>1, <2>2 DEF Typed, Phase, DecidedBetweenInstructions, sequencing
  <2>4. TakenForTheState'
    BY <2>1 DEF TakenForTheState, DrivesAfterPhase21, sequencing
  <2> QED
    BY <2>3, <2>4
<1>5. ASSUME NEW instruction, NEW holds, DataIn(instruction, holds) PROVE IInv'
  BY <1>5, DataInIInv
<1>6. CASE SyncFalls
  BY <1>6 DEF SyncFalls, sequencing, Typed, Phase, DecidedBetweenInstructions,
     TakenForTheState, DrivesAfterPhase21
<1>7. CASE Phase22
  <2>1. phase' = "phase_11" /\ UNCHANGED <<sequencing, interrupt_pending>>
    BY <1>7 DEF Phase22, EndPhase22
  <2>2. driving' = FALSE
    BY <1>7 DEF Phase22, EndPhase22, TakenForTheState, Typed
  <2> QED
    BY <2>1, <2>2
       DEF Typed, Phase, DecidedBetweenInstructions, TakenForTheState, sequencing
<1>8. CASE Interrupt
  BY <1>8 DEF Interrupt, sequencing, Typed, DecidedBetweenInstructions, TakenForTheState,
     DrivesAfterPhase21
<1>9. ASSUME NEW level \in BOOLEAN, SetReady(level) PROVE IInv'
  BY <1>9 DEF SetReady, sequencing, Typed, DecidedBetweenInstructions, TakenForTheState,
     DrivesAfterPhase21
<1>10. CASE UNCHANGED control
  BY <1>10 DEF control, sequencing, Typed, DecidedBetweenInstructions, TakenForTheState,
     DrivesAfterPhase21
<1> QED
  BY <1>1, <1>2, <1>3, <1>4, <1>5, <1>6, <1>7, <1>8, <1>9, <1>10 DEF Next, Clock

-----------------------------------------------------------------------------
(* The invariant of the sequencing, for any set of opcodes. *)
THEOREM ControlInvariant == Spec => []IInv
BY InitIInv, NextIInv, PTL DEF Spec

(* An interrupt never cuts an instruction: T1I begins a fetch. *)
THEOREM ControlInterrupts == Spec => []InterruptsBetweenInstructions
<1>1. IInv => InterruptsBetweenInstructions
  BY DEF IInv, DecidedBetweenInstructions, InterruptsBetweenInstructions
<1> QED
  BY <1>1, ControlInvariant, PTL

(* The CPU has left the data bus when a T-state ends, and never holds it in *)
(* a T-state that reads it.                                                 *)
THEOREM ControlBus == Spec => []DrivesOnlyItsStates
<1>1. IInv => DrivesOnlyItsStates
  BY DEF IInv, TakenForTheState, DrivesOnlyItsStates, DrivesAfterPhase21, IsReading
<1> QED
  BY <1>1, ControlInvariant, PTL

(* An interrupt that is pending stays so until a T1I is begun for it. *)
THEOREM ControlPending == Spec => PendingUntilTaken
<1>1. [Next]_control
        => [interrupt_pending /\ ~interrupt_pending' => next_state' = "T1I"]_control
  <2> SUFFICES ASSUME Next, interrupt_pending, ~interrupt_pending'
               PROVE  next_state' = "T1I"
    OBVIOUS
  <2>1. Phase11
    BY DEF Next, Clock, SyncRises, EnterState, Phase21, DataIn, SyncFalls, Phase22, EndPhase22,
       Interrupt, SetReady
  <2>2. LeaveStopped \/ EndCycle \/ EndInstruction
    BY <2>1 DEF Phase11, GoTo, Halt
  <2> QED
    BY <2>2 DEF LeaveStopped, EndCycle, EndInstruction, NextCycle
<1> QED
  BY <1>1, PTL DEF Spec, PendingUntilTaken

-----------------------------------------------------------------------------
(* The cycles. *)

CycleTyped ==
  /\ cycle_control \in CycleControl
  /\ next_cycle_control \in CycleControl
  /\ memory_cycle \in 0 .. 2
  /\ cycle_ended \in BOOLEAN
  /\ decoded_instruction \in Decoded
  /\ ready \in BOOLEAN

(* A cycle of an instruction, and the one after it, by its control. *)
Is(instruction, cycle, c) ==
  IF c = "PCI" THEN cycle = 0
  ELSE /\ cycle + 1 \in DOMAIN instruction_table[instruction.name]
       /\ c = instruction_table[instruction.name][cycle + 1].control
Follows(instruction, cycle, c) == c = "PCI" \/ Is(instruction, cycle + 1, c)

NextFollows ==
  phase \in {"sync_rises", "state"} =>
    /\ next_state = "T2" => state \in {"T1", "T1I"}
    /\ next_state = "WAIT" => state = "T2"
    /\ next_state = "T3" => state \in {"T2", "WAIT"}
    /\ next_state = "T4" => state = "T3"
    /\ next_state = "T5" => state = "T4"
    /\ next_state = "none" => state \in {"WAIT", "STOPPED"}

(* From the first edge of phase 1 to the T1, cycle_control is ahead of      *)
(* memory_cycle.                                                           *)
Ahead == phase \in {"sync_rises", "state"} /\ next_state \in {"T1", "T1I", "STOPPED"}

TableFollowed ==
  /\ ~Ahead /\ state # "STOPPED" => Is(decoded_instruction, memory_cycle, cycle_control)
  /\ Ahead => Follows(decoded_instruction, memory_cycle, cycle_control)

EndFollowed ==
  cycle_ended =>
    /\ state \notin {"T1", "T1I", "T2", "WAIT"}
    /\ state \in {"T3", "T4"} =>
         Follows(decoded_instruction, memory_cycle, next_cycle_control)

CycleInv == CycleTyped /\ NextFollows /\ TableFollowed /\ EndFollowed

LEMMA InitCycleInv == Init => CycleInv
<1> SUFFICES ASSUME Init PROVE CycleInv
  OBVIOUS
<1>1. /\ cycle_control = "PCI" /\ next_cycle_control = "PCI" /\ memory_cycle = 0
      /\ cycle_ended = FALSE /\ decoded_instruction \in Decoded /\ ready \in BOOLEAN
      /\ phase = "phase_11" /\ state = "STOPPED"
  BY UnknownIsDecoded DEF Init
<1>2. memory_cycle \in 0 .. 2
  BY <1>1
<1>3. CycleTyped
  BY <1>1, <1>2 DEF CycleTyped, CycleControl
<1>4. NextFollows /\ TableFollowed /\ EndFollowed
  BY <1>1 DEF NextFollows, TableFollowed, EndFollowed, Ahead
<1> QED
  BY <1>3, <1>4 DEF CycleInv

(* The end of a cycle gives the control of the one after it. *)
LEMMA CycleEnds ==
  ASSUME NEW instruction \in Decoded, NEW t, NEW holds,
         memory_cycle \in 0 .. 2, next_cycle_control \in CycleControl,
         ChecksCycleEnd(instruction, t, holds)
  PROVE  /\ cycle_ended' \in BOOLEAN
         /\ next_cycle_control' \in CycleControl
         /\ cycle_ended' => Follows(instruction, memory_cycle, next_cycle_control')
<1> DEFINE cycles == instruction_table[instruction.name]
           last == CycleOf(instruction).last = t
           early == t = "T3" /\ CycleOf(instruction).conditional /\ ~holds
<1>1. /\ cycle_ended' = (last \/ early)
      /\ next_cycle_control' = IF early THEN "PCI"
                               ELSE IF last THEN ControlAfter(instruction)
                               ELSE next_cycle_control
  BY DEF ChecksCycleEnd
<1>2. /\ DOMAIN cycles = 1 .. Len(cycles) /\ Len(cycles) \in 1 .. 3
      /\ \A i \in DOMAIN cycles : cycles[i].control \in CycleControl
  BY DecodedHasCycles, ThreeCycles
<1>3. ControlAfter(instruction) =
        IF memory_cycle + 2 <= Len(cycles) THEN cycles[memory_cycle + 2].control ELSE "PCI"
  BY DEF ControlAfter
<1> HIDE DEF cycles, last, early
<1>4. CASE memory_cycle + 2 <= Len(cycles)
  <2>1. memory_cycle + 2 \in DOMAIN cycles
    BY <1>2, <1>4
  <2>2. ControlAfter(instruction) = cycles[memory_cycle + 2].control
    BY <1>3, <1>4
  <2>3. (memory_cycle + 1) + 1 = memory_cycle + 2
    OBVIOUS
  <2>4. Follows(instruction, memory_cycle, ControlAfter(instruction))
    BY <2>1, <2>2, <2>3 DEF Follows, Is, cycles
  <2>5. ControlAfter(instruction) \in CycleControl
    BY <1>2, <2>1, <2>2
  <2> QED
    BY <1>1, <2>4, <2>5, Zenon DEF Follows, CycleControl
<1>5. CASE ~(memory_cycle + 2 <= Len(cycles))
  <2>1. ControlAfter(instruction) = "PCI"
    BY <1>3, <1>5
  <2> QED
    BY <1>1, <2>1, Zenon DEF Follows, CycleControl
<1> QED
  BY <1>4, <1>5

LEMMA Phase11CycleInv ==
  ASSUME IInv, CycleInv, Phase11
  PROVE  CycleInv'
<1> USE DEF CycleInv
<1>1. /\ phase = "phase_11" /\ phase' = "sync_rises"
      /\ UNCHANGED <<state, next_cycle_control, memory_cycle, cycle_ended,
                     decoded_instruction, ready>>
  BY DEF Phase11
<1>2. state \in {"T1I", "STOPPED"} => cycle_control = "PCI"
  BY DEF IInv, DecidedBetweenInstructions
<1>3. EndFollowed'
  BY <1>1 DEF EndFollowed, Follows, Is
<1>4. CASE \/ state \in {"T1", "T1I"} /\ GoTo("T2")
           \/ state = "T2" /\ GoTo(IF ready THEN "T3" ELSE "WAIT")
           \/ state = "WAIT" /\ GoTo(IF ready THEN "T3" ELSE "none")
           \/ state = "T3" /\ ~cycle_ended /\ GoTo("T4")
           \/ state = "T4" /\ ~cycle_ended /\ GoTo("T5")
  <2>1. /\ next_state' \in {"T2", "T3", "WAIT", "none", "T4", "T5"}
        /\ cycle_control' = cycle_control
        /\ NextFollows'
    BY <1>1, <1>4 DEF GoTo, NextFollows
  <2>2. CycleTyped' /\ TableFollowed'
    BY <1>1, <2>1 DEF CycleTyped, TableFollowed, Ahead, Is
  <2> QED
    BY <1>3, <2>1, <2>2
<1>5. CASE LeaveStopped
  <2>1. /\ state = "STOPPED" /\ next_state' \in {"T1I", "none"} /\ cycle_control' = "PCI"
    BY <1>2, <1>5 DEF LeaveStopped
  <2> QED
    BY <1>1, <1>3, <2>1 DEF CycleTyped, CycleControl, NextFollows, TableFollowed, Follows
<1>6. CASE EndCycle
  <2>1. /\ state \in {"T3", "T4"} /\ cycle_ended /\ next_state' \in {"T1", "T1I"}
        /\ cycle_control' = next_cycle_control
    BY <1>6 DEF EndCycle, NextCycle
  <2>2. Follows(decoded_instruction, memory_cycle, next_cycle_control)
    BY <2>1 DEF EndFollowed
  <2>3. CycleTyped' /\ NextFollows'
    BY <1>1, <2>1 DEF CycleTyped, NextFollows
  <2>4. Ahead' /\ Follows(decoded_instruction, memory_cycle, cycle_control)'
    BY <1>1, <2>1, <2>2 DEF Ahead, Follows, Is
  <2> QED
    BY <1>3, <2>3, <2>4 DEF TableFollowed
<1>7. CASE EndInstruction \/ Halt
  <2>1. next_state' \in {"T1", "T1I", "STOPPED"} /\ cycle_control' = "PCI"
    BY <1>7 DEF EndInstruction, NextCycle, Halt
  <2> QED
    BY <1>1, <1>3, <2>1
    DEF CycleTyped, CycleControl, NextFollows, TableFollowed, Ahead, Follows
<1> QED
  BY <1>4, <1>5, <1>6, <1>7 DEF Phase11

LEMMA EnterStateCycleInv ==
  ASSUME IInv, CycleInv, EnterState
  PROVE  CycleInv'
<1> USE DEF CycleInv
<1>1. /\ phase = "state" /\ phase' = "phase_21"
      /\ state' = StateAfter /\ next_state' = "none"
      /\ UNCHANGED <<cycle_control, decoded_instruction, ready>>
  BY DEF EnterState
<1>2. NextFollows'
  BY <1>1 DEF NextFollows
<1>3. CASE EnterT1
  <2>1. /\ next_state \in {"T1", "T1I"} /\ state' \in {"T1", "T1I"}
        /\ cycle_ended' = FALSE /\ next_cycle_control' = next_cycle_control
        /\ memory_cycle' = IF cycle_control = "PCI" THEN 0 ELSE memory_cycle + 1
    BY <1>1, <1>3 DEF EnterT1, StateAfter
  <2>2. Follows(decoded_instruction, memory_cycle, cycle_control)
    BY <1>1, <2>1 DEF TableFollowed, Ahead
  <2>3. CASE cycle_control = "PCI"
    <3>1. memory_cycle' = 0 /\ memory_cycle' \in 0 .. 2
      BY <2>1, <2>3
    <3>2. CycleTyped'
      <4>1. /\ cycle_ended' \in BOOLEAN /\ next_cycle_control' \in CycleControl
            /\ cycle_control' \in CycleControl /\ decoded_instruction' \in Decoded
            /\ ready' \in BOOLEAN
        BY <1>1, <2>1 DEF CycleTyped
      <4> QED
        BY <3>1, <4>1 DEF CycleTyped
    <3>3. TableFollowed' /\ EndFollowed'
      BY <1>1, <2>1, <2>3, <3>1 DEF TableFollowed, EndFollowed, Ahead, Is
    <3> QED
      BY <1>2, <3>2, <3>3
  <2>4. CASE cycle_control # "PCI"
    <3>1. /\ memory_cycle' = memory_cycle + 1
          /\ Is(decoded_instruction, memory_cycle + 1, cycle_control)
      BY <2>1, <2>2, <2>4 DEF Follows
    <3>2. memory_cycle + 2 \in 1 .. 3
      <4>1. DOMAIN instruction_table[decoded_instruction.name] \subseteq 1 .. 3
        BY DecodedHasCycles, ThreeCycles DEF CycleTyped
      <4>2. (memory_cycle + 1) + 1 \in 1 .. 3
        BY <2>4, <3>1, <4>1 DEF Is
      <4> QED
        BY <4>2 DEF CycleTyped
    <3>3. memory_cycle' \in 0 .. 2
      BY <3>1, <3>2 DEF CycleTyped
    <3>4. CycleTyped'
      <4>1. /\ cycle_ended' \in BOOLEAN /\ next_cycle_control' \in CycleControl
            /\ cycle_control' \in CycleControl /\ decoded_instruction' \in Decoded
            /\ ready' \in BOOLEAN
        BY <1>1, <2>1 DEF CycleTyped
      <4> QED
        BY <3>3, <4>1 DEF CycleTyped
    <3>5. Is(decoded_instruction, memory_cycle, cycle_control)'
      BY <1>1, <3>1 DEF Is
    <3> QED
      BY <1>1, <1>2, <2>1, <3>4, <3>5 DEF TableFollowed, EndFollowed, Ahead
  <2> QED
    BY <2>3, <2>4
<1>4. CASE EnterT3Write \/ EnterT4
  <2>1. PICK t : /\ ChecksCycleEnd(decoded_instruction, t, TRUE)
                 /\ next_state \in {"T3", "T4"} /\ state' \in {"T3", "T4"}
                 /\ UNCHANGED memory_cycle
    BY <1>1, <1>4 DEF EnterT3Write, EnterT4, StateAfter
  <2>2. /\ cycle_ended' \in BOOLEAN
        /\ next_cycle_control' \in CycleControl
        /\ cycle_ended' => Follows(decoded_instruction, memory_cycle, next_cycle_control')
    BY <2>1, CycleEnds DEF CycleTyped
  <2>3. /\ state # "STOPPED"
        /\ Is(decoded_instruction, memory_cycle, cycle_control)
    <3>1. state # "STOPPED"
      BY <1>1, <2>1, <1>4 DEF StateAfter, NextFollows, EnterT3Write, EnterT4
    <3> QED
      BY <1>1, <2>1, <3>1 DEF TableFollowed, Ahead
  <2>4. CycleTyped'
    BY <1>1, <2>1, <2>2 DEF CycleTyped
  <2>5. TableFollowed'
    BY <1>1, <2>1, <2>3 DEF TableFollowed, Ahead, Is
  <2>6. EndFollowed'
    BY <1>1, <2>1, <2>2 DEF EndFollowed, Follows, Is
  <2> QED
    BY <1>2, <2>4, <2>5, <2>6
<1>5. CASE EnterT5 \/ EnterOther
  <2>1. /\ UNCHANGED <<next_cycle_control, memory_cycle>>
        /\ \/ next_state = "T5" /\ cycle_ended' = TRUE
           \/ next_state \in {"T2", "WAIT", "STOPPED", "none", "T3"} /\ UNCHANGED cycle_ended
    BY <1>5 DEF EnterT5, EnterOther
  <2>2. CycleTyped'
    BY <1>1, <2>1 DEF CycleTyped
  <2>3. EndFollowed'
    BY <1>1, <2>1 DEF EndFollowed, StateAfter, NextFollows
  <2>4. TableFollowed'
    <3>1. CASE state' = "STOPPED"
      BY <1>1, <3>1 DEF TableFollowed, Ahead
    <3>2. CASE state' # "STOPPED"
      <4>1. state # "STOPPED" /\ ~Ahead
        BY <1>1, <2>1, <3>2 DEF StateAfter, NextFollows, Ahead
      <4> QED
        BY <1>1, <2>1, <4>1 DEF TableFollowed, Ahead, Is
    <3> QED
      BY <3>1, <3>2
  <2> QED
    BY <1>2, <2>2, <2>3, <2>4
<1> QED
  BY <1>3, <1>4, <1>5 DEF EnterState

LEMMA DataInCycleInv ==
  ASSUME CycleInv, NEW instruction \in Decoded, NEW holds, DataIn(instruction, holds)
  PROVE  CycleInv'
<1> USE DEF CycleInv
<1>1. /\ phase = "data_in" /\ phase' = "sync_falls"
      /\ UNCHANGED <<state, next_state, cycle_control, memory_cycle, ready>>
  BY DEF DataIn
<1>2. NextFollows'
  BY <1>1 DEF NextFollows
<1>3. CASE IsReading
  <2>1. /\ decoded_instruction' = IF cycle_control = "PCI" THEN instruction
                                                           ELSE decoded_instruction
        /\ ChecksCycleEnd(decoded_instruction', "T3", holds)
        /\ state = "T3"
    BY <1>3 DEF DataIn, IsReading
  <2>2. decoded_instruction' \in Decoded
    BY <2>1 DEF CycleTyped
  <2>3. Is(decoded_instruction, memory_cycle, cycle_control)
    BY <1>1, <2>1 DEF TableFollowed, Ahead
  <2>4. /\ cycle_ended' \in BOOLEAN
        /\ next_cycle_control' \in CycleControl
        /\ cycle_ended' => Follows(decoded_instruction', memory_cycle, next_cycle_control')
    BY <2>1, <2>2, CycleEnds DEF CycleTyped
  <2>5. CycleTyped'
    BY <1>1, <2>2, <2>4 DEF CycleTyped
  <2>6. TableFollowed'
    <3>1. Is(decoded_instruction', memory_cycle, cycle_control)
      BY <2>1, <2>3 DEF Is
    <3> QED
      BY <1>1, <2>1, <3>1 DEF TableFollowed, Ahead, Is
  <2>7. EndFollowed'
    BY <1>1, <2>1, <2>4 DEF EndFollowed, Follows, Is
  <2> QED
    BY <1>2, <2>5, <2>6, <2>7
<1>4. CASE ~IsReading
  <2>1. UNCHANGED <<decoded_instruction, cycle_ended, next_cycle_control>>
    BY <1>4 DEF DataIn
  <2> QED
    BY <1>1, <1>2, <2>1 DEF CycleTyped, TableFollowed, EndFollowed, Ahead, Follows, Is
<1> QED
  BY <1>3, <1>4

LEMMA OthersCycleInv ==
  ASSUME CycleInv,
         \/ phase' = phase
         \/ phase = "sync_rises" /\ phase' = "state"
         \/ phase \notin {"sync_rises", "state"} /\ phase' \notin {"sync_rises", "state"},
         UNCHANGED sequencing, ready' \in BOOLEAN
  PROVE  CycleInv'
<1> USE DEF CycleInv, sequencing
<1>1. CycleTyped'
  BY DEF CycleTyped
<1>2. NextFollows' /\ TableFollowed' /\ EndFollowed'
  BY DEF NextFollows, TableFollowed, EndFollowed, Ahead, Follows, Is
<1> QED
  BY <1>1, <1>2

LEMMA NextCycleInv == IInv /\ CycleInv /\ [Next]_control => CycleInv'
<1> SUFFICES ASSUME IInv, CycleInv, [Next]_control PROVE CycleInv'
  OBVIOUS
<1>1. ready \in BOOLEAN
  BY DEF CycleInv, CycleTyped
<1>2. CASE Phase11
  BY <1>2, Phase11CycleInv
<1>3. CASE EnterState
  BY <1>3, EnterStateCycleInv
<1>4. ASSUME NEW opcode \in Opcodes, NEW holds \in BOOLEAN, DataIn(Decoding[opcode], holds)
      PROVE  CycleInv'
  <2>1. Decoding[opcode] \in Decoded
    BY OpcodesAssumption DEF Decoded
  <2> QED
    BY <1>4, <2>1, DataInCycleInv
<1>5. CASE SyncRises \/ Phase21 \/ SyncFalls \/ Phase22
  BY <1>1, <1>5, OthersCycleInv DEF SyncRises, Phase21, SyncFalls, Phase22, EndPhase22
<1>6. CASE Interrupt
  BY <1>1, <1>6, OthersCycleInv DEF Interrupt
<1>7. ASSUME NEW level \in BOOLEAN, SetReady(level) PROVE CycleInv'
  BY <1>7, OthersCycleInv DEF SetReady
<1>8. CASE UNCHANGED control
  BY <1>1, <1>8, OthersCycleInv DEF control
<1> QED
  BY <1>2, <1>3, <1>4, <1>5, <1>6, <1>7, <1>8 DEF Next, Clock

(* Both invariants, for any set of opcodes. *)
LEMMA BothInvariants == Spec => [](IInv /\ CycleInv)
<1>1. Init => IInv /\ CycleInv
  BY InitIInv, InitCycleInv
<1>2. IInv /\ CycleInv /\ [Next]_control => IInv' /\ CycleInv'
  BY NextIInv, NextCycleInv
<1> QED
  BY <1>1, <1>2, PTL DEF Spec

(* The types: no instruction has a cycle beyond its third, and none runs   *)
(* that the table does not have.                                           *)
THEOREM ControlTypeOK == Spec => []TypeOK
<1>1. IInv /\ CycleInv => TypeOK
  BY DEF IInv, Typed, CycleInv, CycleTyped, TypeOK
<1> QED
  BY <1>1, BothInvariants, PTL

(* The cycle that runs is the one that the table has at memory_cycle. *)
THEOREM ControlCycles == Spec => []CyclesFollowTheTable
<1>1. IInv /\ CycleInv => CyclesFollowTheTable
  BY DEF IInv, CycleInv, TableFollowed, Ahead, Is, CyclesFollowTheTable, CycleOf
<1> QED
  BY <1>1, BothInvariants, PTL

-----------------------------------------------------------------------------
(* What the assertions need of the table: the cycles that write, jump,     *)
(* push and put the flags on the bus have the control they are for, and    *)
(* the source and destination actions are those of few instructions.       *)
CycleSound(name, cycle) ==
  /\ cycle.t3 = "Out_Reg_b" => cycle.control = "PCW"
  /\ cycle.t4 = "Source_to_Reg_b" => name \in {"Lrr", "ALU_OPr", "LMr", "UNKNOWN"}
  /\ cycle.t4 = "Reg_a_to_PC_H" => cycle.control = "PCR"
  /\ cycle.t4 = "Push_And_Reg_a_to_PC_H" => cycle.control \in {"PCR", "PCI"}
  /\ cycle.t4 = "Out_Conditions_Flags" => cycle.control = "PCC"
  /\ cycle.t5 = "Reg_b_to_Destination" => name \in {"Lrr", "LrM", "LrI", "UNKNOWN"}
  /\ cycle.t5 \in {"Inc_Destination", "Dec_Destination"} => name \in {"INr", "DCr"}

LEMMA TableSound ==
  ASSUME NEW name \in InstructionName
  PROVE  LET cycles == instruction_table[name] IN
         /\ Len(cycles) >= 1 /\ cycles[1].control = "PCI"
         /\ \A i \in DOMAIN cycles : CycleSound(name, cycles[i])
<1> DEFINE cycles == instruction_table[name]
           Short == {"Lrr", "INr", "DCr", "ALU_OPr", "RLC", "RRC", "RAL", "RAR", "RET",
                     "RFc", "RTc", "RST", "HLT", "UNKNOWN"}
           Two == {"LrM", "LMr", "LrI", "ALU_OPM", "ALU_OPI", "INP", "OUT"}
           Long == {"LMI", "JMP", "JFc", "JTc", "CAL", "CFc", "CTc"}
<1>1. InstructionName = Short \cup Two \cup Long
  BY DEF InstructionName, instruction_table
<1>2. CASE name \in Short
  <2>1. Len(cycles) = 1 /\ DOMAIN cycles = {1} /\ cycles[1].control = "PCI"
    BY <1>2, SMTT(30) DEF instruction_table, Lrr, Rotate, Return, Conditional, Fetch, FetchOnly, Cycle
  <2>2. CycleSound(name, cycles[1])
    BY <1>2, SMTT(30) DEF CycleSound, instruction_table, Lrr, Rotate, Return, Conditional, Fetch,
       FetchOnly, Cycle
  <2> QED
    BY <2>1, <2>2
<1>3. CASE name \in Two
  <2>1. Len(cycles) = 2 /\ DOMAIN cycles = {1, 2}
    BY <1>3 DEF instruction_table
  <2>2. cycles[1].control = "PCI"
    BY <1>3 DEF instruction_table, Fetch, FetchOnly, Cycle
  <2>3. CycleSound(name, cycles[1])
    <3>1. CASE name = "LMr"
      BY <3>1 DEF CycleSound, instruction_table, Fetch, Cycle
    <3>2. CASE name # "LMr"
      <4>1. cycles[1] = FetchOnly
        BY <1>3, <3>2 DEF instruction_table
      <4> QED
        BY <4>1 DEF CycleSound, FetchOnly, Fetch, Cycle
    <3> QED
      BY <3>1, <3>2
  <2>4. CycleSound(name, cycles[2])
    BY <1>3, SMTT(30) DEF CycleSound, instruction_table, Read, Write, Cycle
  <2> QED
    BY <2>1, <2>2, <2>3, <2>4
<1>4. CASE name \in Long
  <2>1. Len(cycles) = 3 /\ DOMAIN cycles = {1, 2, 3}
    BY <1>4 DEF instruction_table, Jump, JumpIf
  <2>2. cycles[1] = FetchOnly /\ cycles[2] = ReadLow
    BY <1>4 DEF instruction_table, Jump, JumpIf
  <2>3. CycleSound(name, cycles[1]) /\ CycleSound(name, cycles[2]) /\ cycles[1].control = "PCI"
    BY <2>2 DEF CycleSound, Fetch, FetchOnly, ReadLow, Cycle
  <2>4. CycleSound(name, cycles[3])
    BY <1>4, SMTT(30) DEF CycleSound, instruction_table, Jump, JumpIf, Conditional, ReadHigh, Write, Cycle
  <2> QED
    BY <2>1, <2>2, <2>3, <2>4
<1> QED
  BY <1>1, <1>2, <1>3, <1>4

(* The actions of the cycle that runs meet the operands they can execute.  *)
LEMMA AssertionsFollow == IInv /\ CycleInv => AssertsHold
<1> SUFFICES ASSUME IInv, CycleInv, phase \notin {"phase_11", "sync_rises", "state"}
             PROVE  LET cycle == CycleOf(decoded_instruction)
                        m == decoded_instruction.medium
                    IN
                    /\ state = "T3" /\ cycle_ended /\ cycle.t3 = "Out_Reg_b"
                         => cycle_control = "PCW"
                    /\ state = "T4" =>
                         /\ cycle.t4 = "Source_to_Reg_b" => decoded_instruction.low # 7
                         /\ cycle.t4 = "Reg_a_to_PC_H" => cycle_control = "PCR"
                         /\ cycle.t4 = "Push_And_Reg_a_to_PC_H"
                              => cycle_control \in {"PCR", "PCI"}
                         /\ cycle.t4 = "Out_Conditions_Flags" => cycle_control = "PCC"
                    /\ state = "T5" =>
                         /\ cycle.t5 = "Reg_b_to_Destination" => m # 7
                         /\ cycle.t5 \in {"Inc_Destination", "Dec_Destination"}
                              => m \notin {0, 7}
  BY DEF AssertsHold
<1> DEFINE name == decoded_instruction.name
           cycles == instruction_table[name]
           cycle == CycleOf(decoded_instruction)
<1>1. CASE state \notin {"T3", "T4", "T5"}
  BY <1>1
<1>2. CASE state \in {"T3", "T4", "T5"}
  <2>1. decoded_instruction \in Decoded /\ name \in InstructionName
    BY DecodedHasCycles DEF CycleInv, CycleTyped
  <2>2. Is(decoded_instruction, memory_cycle, cycle_control)
    BY <1>2 DEF CycleInv, TableFollowed, Ahead
  <2>3. DOMAIN cycles = 1 .. Len(cycles)
    BY <2>1, ThreeCycles
  <2>4. memory_cycle + 1 \in DOMAIN cycles /\ cycle_control = cycles[memory_cycle + 1].control
    BY <2>1, <2>2, <2>3, TableSound, ThreeCycles DEF Is
  <2>5. CycleSound(name, cycle) /\ cycle_control = cycle.control
    BY <2>1, <2>4, TableSound DEF CycleOf
  <2> HIDE DEF cycle
  <2>6. /\ name \in {"Lrr", "ALU_OPr", "LMr"} => decoded_instruction.low # 7
        /\ name \in {"Lrr", "LrM", "LrI"} => decoded_instruction.medium # 7
        /\ name \in {"INr", "DCr"} => decoded_instruction.medium \notin {0, 7}
        /\ name = "UNKNOWN" => decoded_instruction.medium = 0 /\ decoded_instruction.low = 0
    BY <2>1, OperandsOfDecoded
  <2> QED
    BY <2>5, <2>6 DEF CycleSound, cycle
<1> QED
  BY <1>1, <1>2

(* The row that decodes is the narrowest that matches, for every opcode.   *)
LEMMA FirstRowDecodes == DecodesMostSpecific
<1> SUFFICES ASSUME NEW opcode \in Opcodes, Decoding[opcode] = decoded_instruction,
                    Matching(opcode) # {}
             PROVE  \E i \in Matching(opcode) :
                      /\ decoding_table[i].name = decoded_instruction.name
                      /\ \A j \in Matching(opcode) \ {i} : Width(i) < Width(j)
  BY DEF DecodesMostSpecific, Width
<1>1. opcode \in Opcode
  BY OpcodesAssumption
<1>2. PICK i \in Matching(opcode) :
        /\ \A j \in Matching(opcode) : i =< j
        /\ Decoding[opcode] =
             IF decoding_table[i].name = "UNKNOWN" THEN unknown_instruction
             ELSE [name |-> decoding_table[i].name,
                   medium |-> Medium(opcode), low |-> Low(opcode)]
  BY <1>1, FirstMatches
<1>3. decoding_table[i].name = decoded_instruction.name
  BY <1>2 DEF unknown_instruction
<1>4. \A j \in Matching(opcode) \ {i} : Width(i) < Width(j)
  BY <1>1, <1>2, FirstIsNarrowest
<1> QED
  BY <1>3, <1>4

(* What is decoded is what the actions of its cycles can execute: no        *)
(* assertion of execute_t3, execute_t4 and execute_t5 ever fails.          *)
THEOREM ControlDecoding == Spec => []DecodingIsSound
<1>1. IInv /\ CycleInv => DecodingIsSound
  BY AssertionsFollow, FirstRowDecodes DEF DecodingIsSound
<1> QED
  BY <1>1, BothInvariants, PTL

-----------------------------------------------------------------------------
(***************************************************************************)
(* The registers.  `done` holds what the instruction that runs began with; *)
(* the invariant says, from the phase and the T-state, what every register *)
(* holds as a function of `done` and of the bytes already on the bus.      *)
(***************************************************************************)

Cycles == instruction_table[decoded_instruction.name]
Running == Cycles[memory_cycle + 1]
Inc(address) == (address + 1) % AddressSpace

(* The program counter before the instruction, and after its fetch. *)
Start == get_pc(done.stack)
Returns == Behind(done.stack)
Jammed == IF bus = <<>> THEN begun_by = "T1I" ELSE bus[1].control = "T1I"
First == IF Jammed THEN Start ELSE Inc(Start)

(* Whether the byte of this cycle has been read or written yet; and whether *)
(* the byte of this T-state has reached the address register.              *)
BeforeData ==
  \/ state \in {"T1", "T1I", "T2", "WAIT"}
  \/ state = "T3" /\ phase \in {"phase_21", "data_in"}
AfterData == state \in {"T3", "T4", "T5"} /\ ~BeforeData
Latched == phase \in {"phase_22", "phase_11", "sync_rises", "state"}

(* The condition, and whether it ends the cycle at T3. *)
Met(instruction, f) ==
  (f[FlagOf(instruction.medium)] # 0) <=> (instruction.medium >= 4)
Early == Running.conditional /\ ~Met(decoded_instruction, done.flags)

Rings == [stack : [Slots -> Nat], stack_index : Slots, emitted_pc : Nat]

Forms ==
  /\ program \in Programs
  /\ address_stack \in Rings /\ done.stack \in Rings
  /\ scratch_pad_memory = [r \in Register |-> scratch_pad_memory[r]]
  /\ hidden_registers = [a |-> hidden_registers.a, b |-> hidden_registers.b]

(* One bus cycle for each cycle of the instruction, none in STOPPED. *)
Counted ==
  /\ state = "STOPPED" => bus = <<>>
  /\ BeforeData => Len(bus) = memory_cycle
  /\ AfterData => Len(bus) = memory_cycle + 1
  /\ \/ bus = <<>>
     \/ bus = <<bus[1]>>
     \/ bus = <<bus[1], bus[2]>>
     \/ bus = <<bus[1], bus[2], bus[3]>>
  /\ BeforeData /\ memory_cycle > 0 => begun_by = "T1"

Entry(kind, address, data) == [control |-> kind, address |-> address, data |-> data]

(* The first is the fetch of what was decoded, at the program counter. *)
FetchOK ==
  bus # <<>> =>
    /\ bus[1] = Entry(IF bus[1].control = "T1I" THEN "T1I" ELSE "PCI",
                      Start % AddressSpace, bus[1].data)
    /\ bus[1].data \in Opcodes
    /\ decoded_instruction = Decoding[bus[1].data]

(* The others are those of the table: kind, address, and the byte written. *)
PcBefore(k) == CASE k = 1 -> Start [] k = 2 -> First [] k = 3 -> Inc(First)
AddressAt(k) ==
  CASE Cycles[k].address = "PC" -> PcBefore(k) % AddressSpace
    [] Cycles[k].address = "HL" -> (done.reg[H] % 64) * 256 + done.reg[L]
    [] Cycles[k].address = "A_b" -> (bus[1].data % 64) * 256 + done.reg[A]

OperandOK(k) ==
  Len(bus) >= k =>
    /\ bus[k] = Entry(Cycles[k].control, AddressAt(k), bus[k].data)
    /\ Cycles[k].control = "PCR" => bus[k].data \in Byte
    /\ Cycles[k].control = "PCW" =>
         bus[k].data = IF k = 2 THEN done.reg[decoded_instruction.low] ELSE bus[2].data

(* The program counter, but for the jumps, calls and returns. *)
PcNow ==
  CASE memory_cycle = 0 -> First
    [] memory_cycle = 1 -> IF Cycles[2].address = "PC" THEN Inc(First) ELSE First
    [] memory_cycle = 2 -> IF Cycles[3].address = "PC" THEN Inc(Inc(First)) ELSE Inc(First)

LowByte ==
  IF decoded_instruction.name = "RST" THEN decoded_instruction.medium * 8 ELSE hidden_registers.b

(* The ring: T4 pops, or pushes and sets the high byte; T5 sets the low one. *)
Moves == {"Reg_a_to_PC_H", "Push_And_Reg_a_to_PC_H", "Pop_Stack"}
RingOK ==
  /\ state = "STOPPED" => get_pc(address_stack) = Start /\ Behind(address_stack) = Returns
  /\ \/ state \in {"T1", "T1I", "T2", "WAIT", "T3"}
     \/ state \in {"T4", "T5"} /\ Running.t4 \notin Moves
     => get_pc(address_stack) = PcNow /\ Behind(address_stack) = Returns
  /\ state \in {"T4", "T5"} =>
      /\ Running.t4 = "Pop_Stack" =>
           /\ get_pc(address_stack) = Returns[1]
           /\ Behind(address_stack) = Append(Tail(Returns), First)
      /\ Running.t4 = "Reg_a_to_PC_H" => Behind(address_stack) = Returns
      /\ Running.t4 = "Push_And_Reg_a_to_PC_H" =>
           Behind(address_stack) = <<PcNow>> \o SubSeq(Returns, 1, Depth - 2)
      /\ Running.t4 \in Moves \ {"Pop_Stack"} =>
           IF state = "T4" THEN get_pc(address_stack) \div 256 = hidden_registers.a
           ELSE get_pc(address_stack) = hidden_registers.a * 256 + LowByte

(* The address on its way: emitted in T1 and T2, latched at the falls of SYNC. *)
From == IF memory_cycle = 0 THEN "PC" ELSE Running.address
EmittedOK == BeforeData /\ From = "PC" => address_stack.emitted_pc = PcBefore(memory_cycle + 1)

Low8 == CASE From = "PC" -> address_stack.emitted_pc % 256
         [] From = "HL" -> scratch_pad_memory[L]
         [] From = "A_b" -> scratch_pad_memory[A]
High6 == CASE From = "PC" -> get_high_pc(address_stack)
         [] From = "HL" -> scratch_pad_memory[H]
         [] From = "A_b" -> hidden_registers.b
Kind == IF memory_cycle = 0 THEN "PCI" ELSE Running.control
AddressOK ==
  /\ gar = [low |-> gar.low, high |-> gar.high, control |-> gar.control]
  /\ BeforeData =>
    /\ state \in {"T1", "T1I"} /\ ~Latched => io_data_latch = Low8
    /\ state \notin {"T1", "T1I"} \/ Latched => gar.low = Low8
    /\ state = "T2" /\ ~Latched => io_data_latch = High6
    /\ state \in {"WAIT", "T3"} \/ (state = "T2" /\ Latched) =>
         gar.high = High6 % 64 /\ gar.control = Kind

(* The operands wait in the hidden registers, and are written from there. *)
HiddenOK ==
  /\ Len(bus) = 1 =>
       /\ hidden_registers.a = 0
       /\ hidden_registers.b =
            IF Cycles[1].t4 = "Source_to_Reg_b" /\ (memory_cycle = 1 \/ state \in {"T4", "T5"})
            THEN done.reg[decoded_instruction.low] ELSE bus[1].data
  /\ Len(bus) = 2 /\ Cycles[2].t3 = "Fetch_Data_to_Reg_b" => hidden_registers.b = bus[2].data
  /\ Len(bus) = 3 /\ Cycles[3].t3 = "Fetch_Data_to_Reg_a" =>
       hidden_registers.a = bus[3].data /\ hidden_registers.b = bus[2].data
WriteOK ==
  BeforeData /\ state = "T3" /\ Kind = "PCW" => io_data_latch = hidden_registers.b

(* The registers and flags that T5 leaves; before it they are untouched. *)
Computed(i, reg, f, b) ==
  LET inc == (reg[i.medium] + 1) % 256
      dec == (reg[i.medium] - 1) % 256
      alu == ALU_Operation(i.medium, reg[A], b, f)
      rot == Rotate_A(i.medium, reg[A], f)
      Put(r, value, g) == [pad |-> [reg EXCEPT ![r] = value], flags |-> g]
  IN
  CASE i.name \in {"Lrr", "LrI", "LrM"} -> Put(i.medium, b, f)
    [] i.name = "INr" -> Put(i.medium, inc, update_flags(f, inc))
    [] i.name = "DCr" -> Put(i.medium, dec, update_flags(f, dec))
    [] i.name \in {"ALU_OPr", "ALU_OPI", "ALU_OPM"} -> Put(A, alu.a, alu.flags)
    [] i.name \in {"RLC", "RRC", "RAL", "RAR"} -> Put(A, rot.a, rot.flags)
    [] i.name = "INP" -> Put(A, b, f)
    [] OTHER -> [pad |-> reg, flags |-> f]

PadOK ==
  IF state = "T5"
  THEN /\ scratch_pad_memory =
            Computed(decoded_instruction, done.reg, done.flags, hidden_registers.b).pad
       /\ flags = Computed(decoded_instruction, done.reg, done.flags, hidden_registers.b).flags
  ELSE scratch_pad_memory = done.reg /\ flags = done.flags

(* The T-state that ends the cycle is the table's, or T3 when the condition *)
(* fails; and the cycle that follows is the next of the table, or a fetch. *)
EndOK ==
  /\ state = "T3" /\ (AfterData \/ Kind = "PCW") =>
       /\ cycle_ended <=> (Running.last = "T3" \/ Early)
       /\ cycle_ended =>
            next_cycle_control = IF Early THEN "PCI" ELSE ControlAfter(decoded_instruction)
  /\ state = "T4" =>
       /\ Running.last # "T3" /\ ~Early
       /\ cycle_ended <=> Running.last = "T4"
       /\ cycle_ended => next_cycle_control = ControlAfter(decoded_instruction)
  /\ state = "T5" => Running.last \notin {"T3", "T4"} /\ ~Early

(* What the first edge of phase 1 has decided follows from how the cycle ended. *)
DecidedOK ==
  phase \in {"sync_rises", "state"} =>
    /\ next_state = "T4" => state = "T3" /\ ~cycle_ended
    /\ next_state = "T5" => state = "T4" /\ ~cycle_ended
    /\ next_state = "STOPPED" => state = "T3" /\ cycle_ended /\ decoded_instruction.name = "HLT"
    /\ next_state \in {"T1", "T1I"} =>
         \/ state = "STOPPED"
         \/ /\ state \in {"T3", "T4"} /\ cycle_ended
            /\ decoded_instruction.name # "HLT" /\ cycle_control = next_cycle_control
         \/ state = "T5" /\ cycle_control = "PCI"

RunningOK == state # "STOPPED" => memory_cycle + 1 \in DOMAIN Cycles

(* All of it but what the first edge of phase 1 decides; but the address on *)
(* the bus.                                                                *)
Steady ==
  /\ Forms /\ RunningOK /\ Counted /\ FetchOK /\ OperandOK(2) /\ OperandOK(3) /\ RingOK
  /\ EmittedOK /\ HiddenOK /\ WriteOK /\ PadOK /\ EndOK
Settled == Steady /\ AddressOK
ProgramInv == Settled /\ DecidedOK

LEMMA ModuloOnce ==
  ASSUME NEW n \in Nat, NEW span \in Nat, n < span
  PROVE  n % span = n /\ (n + span) % span = n
OBVIOUS

LEMMA SlotOf ==
  ASSUME NEW i \in Slots, NEW j \in 0 .. Depth - 1
  PROVE  /\ (i + Depth - j) % Depth = IF j =< i THEN i - j ELSE i + Depth - j
         /\ (i + Depth - j) % Depth \in Slots
         /\ j # 0 => (i + Depth - j) % Depth # i
<1>1. Depth \in Nat /\ Depth > 1 /\ i \in 0 .. Depth - 1
  BY DepthAssumption DEF Slots
<1>2. CASE j =< i
  <2>1. i - j \in Nat /\ i - j < Depth /\ (i - j) + Depth = i + Depth - j
    BY <1>1, <1>2
  <2>2. ((i - j) + Depth) % Depth = i - j
    BY <1>1, <2>1, ModuloOnce
  <2> QED
    BY <1>1, <1>2, <2>1, <2>2 DEF Slots
<1>3. CASE ~(j =< i)
  <2>1. i + Depth - j \in Nat /\ i + Depth - j < Depth
    BY <1>1, <1>3
  <2>2. (i + Depth - j) % Depth = i + Depth - j
    BY <1>1, <2>1, ModuloOnce
  <2> QED
    BY <1>1, <1>3, <2>1, <2>2 DEF Slots
<1> QED
  BY <1>2, <1>3

LEMMA Fields ==
  ASSUME NEW s \in Rings
  PROVE  /\ s = [stack |-> s.stack, stack_index |-> s.stack_index, emitted_pc |-> s.emitted_pc]
         /\ s.stack \in [Slots -> Nat] /\ s.stack_index \in Slots /\ s.emitted_pc \in Nat
         /\ get_pc(s) \in Nat
BY DEF Rings, get_pc

LEMMA IncNat ==
  ASSUME NEW n \in Nat PROVE Inc(n) \in Nat /\ Inc(n) < AddressSpace
BY DEF Inc, AddressSpace

LEMMA Incremented ==
  ASSUME NEW s \in Rings
  PROVE  LET t == get_low_pc_and_inc(s) IN
         /\ t \in Rings /\ t.emitted_pc = get_pc(s)
         /\ get_pc(t) = Inc(get_pc(s)) /\ Behind(t) = Behind(s)
<1> DEFINE t == get_low_pc_and_inc(s)
           i == s.stack_index
<1>1. t = [stack |-> [s.stack EXCEPT ![i] = Inc(get_pc(s))], stack_index |-> i, emitted_pc |-> get_pc(s)]
  <2> DEFINE f == s.stack
             e == s.emitted_pc
  <2>1. /\ s = [stack |-> f, stack_index |-> i, emitted_pc |-> e] /\ f \in [Slots -> Nat]
        /\ i \in Slots
    BY Fields
  <2>2. t = [[stack |-> f, stack_index |-> i, emitted_pc |-> e]
                EXCEPT !.emitted_pc = f[i], !.stack[i] = Inc(@)]
    BY <2>1, Zenon DEF get_low_pc_and_inc, get_pc, Inc
  <2> HIDE DEF f, i, e, t
  <2>3. t = [stack |-> [f EXCEPT ![i] = Inc(f[i])], stack_index |-> i, emitted_pc |-> f[i]]
    BY <2>1, <2>2
  <2> QED
    BY <2>3 DEF get_pc, f, i
<1>2. \A j \in 1 .. Depth - 1 : (i + Depth - j) % Depth # i /\ (i + Depth - j) % Depth \in Slots
  BY SlotOf, Fields
<1>3. t \in Rings
  BY <1>1, Fields, IncNat DEF Rings
<1>4. get_pc(t) = Inc(get_pc(s))
  BY <1>1, Fields DEF get_pc
<1>5. Behind(t) = Behind(s)
  BY <1>1, <1>2, Fields DEF Behind
<1> QED
  BY <1>1, <1>3, <1>4, <1>5

LEMMA NotIncremented ==
  ASSUME NEW s \in Rings
  PROVE  LET t == get_low_pc_no_inc(s) IN
         /\ t \in Rings /\ t.emitted_pc = get_pc(s)
         /\ get_pc(t) = get_pc(s) /\ Behind(t) = Behind(s)
<1> DEFINE t == get_low_pc_no_inc(s)
<1>1. t = [stack |-> s.stack, stack_index |-> s.stack_index, emitted_pc |-> get_pc(s)]
  BY Fields DEF get_low_pc_no_inc
<1> QED
  BY <1>1, Fields DEF Rings, get_pc, Behind

LEMMA SetHigh ==
  ASSUME NEW s \in Rings, NEW value \in Nat
  PROVE  LET t == set_high_pc(s, value) IN
         /\ t \in Rings /\ get_pc(t) \div 256 = value /\ Behind(t) = Behind(s)
<1> DEFINE t == set_high_pc(s, value)
           i == s.stack_index
           new == (get_pc(s) % 256) + value * 256
<1>1. t = [stack |-> [s.stack EXCEPT ![i] = new], stack_index |-> i, emitted_pc |-> s.emitted_pc]
  BY Fields DEF set_high_pc, get_pc
<1>2. \A j \in 1 .. Depth - 1 : (i + Depth - j) % Depth # i /\ (i + Depth - j) % Depth \in Slots
  BY SlotOf, Fields
<1>3. new \in Nat /\ new \div 256 = value
  BY Fields
<1>4. get_pc(t) = new
  BY <1>1, Fields DEF get_pc
<1> HIDE DEF new
<1>5. Behind(t) = Behind(s)
  BY <1>1, <1>2, Fields DEF Behind
<1>6. t \in Rings
  BY <1>1, <1>3, Fields DEF Rings
<1> QED
  BY <1>3, <1>4, <1>5, <1>6

LEMMA SetLow ==
  ASSUME NEW s \in Rings, NEW value \in Nat
  PROVE  LET t == set_low_pc(s, value) IN
         /\ t \in Rings /\ get_pc(t) = (get_pc(s) \div 256) * 256 + value /\ Behind(t) = Behind(s)
<1> DEFINE t == set_low_pc(s, value)
           i == s.stack_index
           new == (get_pc(s) \div 256) * 256 + value
<1>1. t = [stack |-> [s.stack EXCEPT ![i] = new], stack_index |-> i, emitted_pc |-> s.emitted_pc]
  BY Fields DEF set_low_pc, get_pc
<1>2. \A j \in 1 .. Depth - 1 : (i + Depth - j) % Depth # i /\ (i + Depth - j) % Depth \in Slots
  BY SlotOf, Fields
<1>3. new \in Nat
  BY Fields
<1>4. get_pc(t) = new
  BY <1>1, Fields DEF get_pc
<1> HIDE DEF new
<1>5. Behind(t) = Behind(s)
  BY <1>1, <1>2, Fields DEF Behind
<1>6. t \in Rings
  BY <1>1, <1>3, Fields DEF Rings
<1> QED
  BY <1>4, <1>5, <1>6 DEF new

LEMMA NextSlot ==
  ASSUME NEW i \in Slots, NEW j \in 0 .. Depth - 2
  PROVE  LET next == (i + 1) % Depth IN
         /\ next \in Slots
         /\ (next + Depth - (j + 1)) % Depth = (i + Depth - j) % Depth
<1> DEFINE next == (i + 1) % Depth
<1>1. Depth \in Nat /\ Depth > 1 /\ i \in 0 .. Depth - 1
  BY DepthAssumption DEF Slots
<1>2. next = IF i + 1 < Depth THEN i + 1 ELSE 0
  <2>1. CASE i + 1 < Depth
    BY <1>1, <2>1, ModuloOnce
  <2>2. CASE ~(i + 1 < Depth)
    <3>1. i + 1 = 0 + Depth
      BY <1>1, <2>2
    <3>2. (0 + Depth) % Depth = 0
      BY <1>1, ModuloOnce
    <3> QED
      BY <3>1, <3>2, <2>2
  <2> QED
    BY <2>1, <2>2
<1> HIDE DEF next
<1>3. next \in Slots
  BY <1>1, <1>2 DEF Slots
<1>4. j \in 0 .. Depth - 1 /\ j + 1 \in 0 .. Depth - 1
  BY <1>1
<1>5. (next + Depth - (j + 1)) % Depth = IF j + 1 =< next THEN next - (j + 1) ELSE next + Depth - (j + 1)
  BY <1>3, <1>4, SlotOf
<1>6. (i + Depth - j) % Depth = IF j =< i THEN i - j ELSE i + Depth - j
  BY <1>4, SlotOf
<1> QED
  BY <1>1, <1>2, <1>3, <1>4, <1>5, <1>6 DEF next

LEMMA IsBehind ==
  ASSUME NEW s \in Rings
  PROVE  /\ Behind(s) \in Seq(Nat) /\ Len(Behind(s)) = Depth - 1
         /\ \A j \in 1 .. Depth - 1 : Behind(s)[j] = s.stack[(s.stack_index + Depth - j) % Depth]
<1>1. Depth \in Nat /\ Depth > 1
  BY DepthAssumption
<1>2. \A j \in 1 .. Depth - 1 : s.stack[(s.stack_index + Depth - j) % Depth] \in Nat
  BY SlotOf, Fields
<1> QED
  BY <1>1, <1>2 DEF Behind

LEMMA PushedSequence ==
  ASSUME NEW n \in Nat, n > 0, NEW x \in Nat, NEW old \in Seq(Nat), NEW new \in Seq(Nat),
         Len(old) = n, Len(new) = n, new[1] = x,
         \A j \in 1 .. n - 1 : new[j + 1] = old[j]
  PROVE  new = <<x>> \o SubSeq(old, 1, n - 1)
<1>1. SubSeq(old, 1, n - 1) \in Seq(Nat) /\ Len(SubSeq(old, 1, n - 1)) = n - 1
      /\ \A j \in 1 .. n - 1 : SubSeq(old, 1, n - 1)[j] = old[j]
  OBVIOUS
<1> DEFINE front == SubSeq(old, 1, n - 1)
           all == <<x>> \o front
<1> HIDE DEF front
<1>2. all \in Seq(Nat) /\ Len(all) = n
  BY <1>1 DEF front
<1>3. all[1] = x /\ \A j \in 1 .. n - 1 : all[j + 1] = front[j]
  BY <1>1 DEF front
<1>4. \A k \in 1 .. n : new[k] = all[k]
  BY <1>1, <1>3 DEF front
<1> QED
  BY <1>2, <1>4, SeqEqual DEF front

LEMMA PoppedSequence ==
  ASSUME NEW n \in Nat, n > 0, NEW x \in Nat, NEW old \in Seq(Nat), NEW new \in Seq(Nat),
         Len(old) = n, Len(new) = n, new[n] = x,
         \A j \in 1 .. n - 1 : new[j] = old[j + 1]
  PROVE  new = Append(Tail(old), x)
<1> DEFINE all == Append(Tail(old), x)
<1>1. all \in Seq(Nat) /\ Len(all) = n
  OBVIOUS
<1>2. all[n] = x /\ \A j \in 1 .. n - 1 : all[j] = old[j + 1]
  OBVIOUS
<1> HIDE DEF all
<1>3. \A k \in 1 .. n : new[k] = all[k]
  BY <1>2
<1> QED
  BY <1>1, <1>3, SeqEqual DEF all

LEMMA SlotItself ==
  ASSUME NEW i \in Slots
  PROVE  (i + Depth - 0) % Depth = i
<1>1. Depth \in Nat /\ 0 \in 0 .. Depth - 1 /\ i \in Nat
  BY DepthAssumption DEF Slots
<1>2. (i + Depth - 0) % Depth = IF 0 =< i THEN i - 0 ELSE i + Depth - 0
  BY <1>1, SlotOf
<1> QED
  BY <1>1, <1>2

LEMMA Pushed ==
  ASSUME NEW s \in Rings
  PROVE  LET t == push(s) IN
         /\ t \in Rings
         /\ Behind(t) = <<get_pc(s)>> \o SubSeq(Behind(s), 1, Depth - 2)
<1> DEFINE t == push(s)
           i == s.stack_index
           next == (i + 1) % Depth
<1>1. Depth \in Nat /\ Depth > 1
  BY DepthAssumption
<1>2. t = [stack |-> s.stack, stack_index |-> next, emitted_pc |-> s.emitted_pc]
  <2> HIDE DEF next
  <2>1. t = [s EXCEPT !.stack_index = next]
    BY DEF push, next
  <2> QED
    BY <2>1, Fields
<1>3. i \in Slots /\ next \in Slots
  <2>1. i \in Slots /\ 0 \in 0 .. Depth - 2
    BY <1>1, Fields
  <2> QED
    BY <2>1, NextSlot
<1> HIDE DEF next
<1>4. t \in Rings
  BY <1>2, <1>3, Fields DEF Rings
<1>5. t.stack_index = next /\ t.stack = s.stack
  BY <1>2
<1>6. Behind(t)[1] = get_pc(s)
  <2>1. (next + Depth - (0 + 1)) % Depth = (i + Depth - 0) % Depth
    BY <1>1, <1>3, NextSlot DEF next
  <2>2. (i + Depth - 0) % Depth = i
    BY <1>1, <1>3, SlotItself
  <2>3. 0 + 1 = 1
    OBVIOUS
  <2>4. Behind(t)[1] = s.stack[(next + Depth - 1) % Depth]
    BY <1>1, <1>4, <1>5, IsBehind
  <2> QED
    BY <2>1, <2>2, <2>3, <2>4 DEF get_pc
<1>7. \A j \in 1 .. Depth - 2 : Behind(t)[j + 1] = Behind(s)[j]
  <2> SUFFICES ASSUME NEW j \in 1 .. Depth - 2 PROVE Behind(t)[j + 1] = Behind(s)[j]
    OBVIOUS
  <2>1. (next + Depth - (j + 1)) % Depth = (i + Depth - j) % Depth
    BY <1>1, <1>3, NextSlot DEF next
  <2>2. j + 1 \in 1 .. Depth - 1 /\ j \in 1 .. Depth - 1
    BY <1>1
  <2> QED
    BY <1>4, <1>5, <2>1, <2>2, IsBehind, SMTT(30)
<1>8. /\ Behind(s) \in Seq(Nat) /\ Len(Behind(s)) = Depth - 1
      /\ Behind(t) \in Seq(Nat) /\ Len(Behind(t)) = Depth - 1
      /\ get_pc(s) \in Nat
  BY <1>4, IsBehind, Fields
<1>9. (Depth - 1) - 1 = Depth - 2 /\ Depth - 1 \in Nat /\ Depth - 1 > 0
  BY <1>1
<1>10. Behind(t) = <<get_pc(s)>> \o SubSeq(Behind(s), 1, (Depth - 1) - 1)
  BY <1>6, <1>7, <1>8, <1>9, PushedSequence
<1> QED
  BY <1>4, <1>9, <1>10

LEMMA Popped ==
  ASSUME NEW s \in Rings
  PROVE  LET t == pop(s) IN
         /\ t \in Rings
         /\ get_pc(t) = Behind(s)[1]
         /\ Behind(t) = Append(Tail(Behind(s)), get_pc(s))
<1> DEFINE t == pop(s)
           i == s.stack_index
           last == IF i > 0 THEN i - 1 ELSE Depth - 1
<1>1. Depth \in Nat /\ Depth > 1 /\ i \in Slots /\ i \in 0 .. Depth - 1
  BY DepthAssumption, Fields DEF Slots
<1>2. t = [stack |-> s.stack, stack_index |-> last, emitted_pc |-> s.emitted_pc]
  <2>1. t = [s EXCEPT !.stack_index = last]
    BY DEF pop
  <2> QED
    BY <2>1, Fields
<1>3. last \in Slots /\ (last + 1) % Depth = i
  <2>1. CASE i > 0
    <3>1. last = i - 1 /\ (i - 1) + 1 = i
      BY <1>1, <2>1
    <3>2. i % Depth = i
      BY <1>1, ModuloOnce
    <3> QED
      BY <1>1, <3>1, <3>2 DEF Slots
  <2>2. CASE i = 0
    <3>1. last = Depth - 1 /\ last + 1 = 0 + Depth
      BY <1>1, <2>2
    <3>2. (0 + Depth) % Depth = 0
      BY <1>1, ModuloOnce
    <3> HIDE DEF last
    <3> QED
      BY <1>1, <2>2, <3>1, <3>2 DEF Slots
  <2> QED
    BY <1>1, <2>1, <2>2
<1> HIDE DEF last
<1>4. t \in Rings
  BY <1>2, <1>3, Fields DEF Rings
<1>5. t.stack_index = last /\ t.stack = s.stack
  BY <1>2
<1>6. \A j \in 0 .. Depth - 2 : (i + Depth - (j + 1)) % Depth = (last + Depth - j) % Depth
  BY <1>3, NextSlot
<1>7. get_pc(t) = Behind(s)[1]
  <2>1. (i + Depth - (0 + 1)) % Depth = (last + Depth - 0) % Depth
    BY <1>1, <1>6
  <2>2. (last + Depth - 0) % Depth = last
    BY <1>1, <1>3, SlotItself
  <2>3. Behind(s)[1] = s.stack[(i + Depth - 1) % Depth]
    BY <1>1, IsBehind
  <2>4. 0 + 1 = 1
    OBVIOUS
  <2> QED
    BY <1>5, <2>1, <2>2, <2>3, <2>4 DEF get_pc
<1>8. Behind(t)[Depth - 1] = get_pc(s)
  <2>1. last + Depth - (Depth - 1) = last + 1
    BY <1>1, <1>3 DEF Slots
  <2>2. Behind(t)[Depth - 1] = s.stack[(last + Depth - (Depth - 1)) % Depth]
    <3>1. Depth - 1 \in 1 .. Depth - 1
      BY <1>1
    <3> QED
      BY <1>4, <1>5, <3>1, IsBehind
  <2> QED
    BY <1>3, <2>1, <2>2 DEF get_pc
<1>9. \A j \in 1 .. Depth - 2 : Behind(t)[j] = Behind(s)[j + 1]
  <2> SUFFICES ASSUME NEW j \in 1 .. Depth - 2 PROVE Behind(t)[j] = Behind(s)[j + 1]
    OBVIOUS
  <2>1. (i + Depth - (j + 1)) % Depth = (last + Depth - j) % Depth
    BY <1>1, <1>6
  <2>2. j + 1 \in 1 .. Depth - 1 /\ j \in 1 .. Depth - 1
    BY <1>1
  <2> QED
    BY <1>4, <1>5, <2>1, <2>2, IsBehind, SMTT(30)
<1>10. /\ Behind(s) \in Seq(Nat) /\ Len(Behind(s)) = Depth - 1
       /\ Behind(t) \in Seq(Nat) /\ Len(Behind(t)) = Depth - 1
       /\ get_pc(s) \in Nat
  BY <1>4, IsBehind, Fields
<1>11. (Depth - 1) - 1 = Depth - 2 /\ Depth - 1 \in Nat /\ Depth - 1 > 0
  BY <1>1
<1>12. Behind(t) = Append(Tail(Behind(s)), get_pc(s))
  BY <1>8, <1>9, <1>10, <1>11, PoppedSequence
<1> QED
  BY <1>4, <1>7, <1>12

LEMMA Cleared ==
  /\ clear_stack \in Rings /\ get_pc(clear_stack) = 0
  /\ Behind(clear_stack) = [j \in 1 .. Depth - 1 |-> 0]
<1>1. clear_stack \in Rings
  BY DepthAssumption DEF clear_stack, Rings, Slots
<1>2. get_pc(clear_stack) = 0
  BY DepthAssumption DEF clear_stack, get_pc, Slots
<1>3. \A j \in 1 .. Depth - 1 : clear_stack.stack[(clear_stack.stack_index + Depth - j) % Depth] = 0
  <2>1. clear_stack.stack = [i \in Slots |-> 0] /\ clear_stack.stack_index \in Slots
    BY DepthAssumption DEF clear_stack, Slots
  <2>2. \A j \in 1 .. Depth - 1 : (clear_stack.stack_index + Depth - j) % Depth \in Slots
    BY <2>1, SlotOf
  <2> QED
    BY <2>1, <2>2
<1> QED
  BY <1>1, <1>2, <1>3 DEF Behind

(* What the k-th cycle of an instruction holds: its kind; how it ends; what *)
(* it reads and writes; and how it moves the program counter.              *)
KindOf(cycles, k) ==
  LET c == cycles[k] IN
  /\ c.address \in {"PC", "HL", "A_b"}
  /\ k = 1 => c.control = "PCI" /\ c.address = "PC"
  /\ k > 1 => c.control \in {"PCR", "PCC", "PCW"} /\ c.t3 # "Fetch_IR_And_Reg_b"
  /\ k = 3 => cycles[2].control = "PCR" /\ cycles[2].address = "PC"

EndOf(name, cycles, k) ==
  LET c == cycles[k] IN
  /\ c.last \in {"T3", "T4", "T5"}
  /\ c.conditional \in BOOLEAN
  /\ c.conditional = TRUE => c.last = "T5"
  /\ c.last = "T5" => k = Len(cycles)
  /\ c.last = "T4" => k = 1 /\ name = "LMr"

DataOf(name, cycles, k) ==
  LET c == cycles[k] IN
  /\ k > 1 => c.t4 # "Source_to_Reg_b"
  /\ c.address = "A_b" => k = 2 /\ cycles[1].t4 # "Source_to_Reg_b"
  /\ c.control = "PCW" =>
       /\ c.last = "T3" /\ c.conditional = FALSE /\ c.address = "HL" /\ c.t3 = "Out_Reg_b"
       /\ k = 2 => name = "LMr" /\ cycles[1].t4 = "Source_to_Reg_b"
       /\ k = 3 => cycles[2].t3 = "Fetch_Data_to_Reg_b"
  /\ c.t3 = "Fetch_Data_to_Reg_a" => k = 3 /\ cycles[2].t3 = "Fetch_Data_to_Reg_b"

MovesOf(name, cycles, k) ==
  LET c == cycles[k] IN
  /\ c.t4 \in Moves => c.last = "T5" /\ k # 2
  /\ c.t4 \in Moves /\ k = 1 => name \in {"RST", "RET", "RFc", "RTc"}
  /\ c.t4 \in Moves /\ k = 3 => c.control = "PCR" /\ c.t3 = "Fetch_Data_to_Reg_a"
  /\ c.t4 = "Pop_Stack" => k = 1
  /\ c.t4 \in Moves \ {"Pop_Stack"} =>
       c.t5 = IF name = "RST" THEN "Reg_b_to_PC_L_3_to_5" ELSE "Reg_b_to_PC_L"
  /\ c.t4 \notin Moves \ {"Pop_Stack"} => c.t5 \notin {"Reg_b_to_PC_L_3_to_5", "Reg_b_to_PC_L"}

Shape(name, cycles, k) ==
  /\ KindOf(cycles, k)
  /\ EndOf(name, cycles, k)
  /\ DataOf(name, cycles, k)
  /\ MovesOf(name, cycles, k)

LEMMA TableShape ==
  ASSUME NEW name \in InstructionName
  PROVE  \A k \in DOMAIN instruction_table[name] : Shape(name, instruction_table[name], k)
<1> DEFINE cycles == instruction_table[name]
           Short == {"Lrr", "INr", "DCr", "ALU_OPr", "RLC", "RRC", "RAL", "RAR", "HLT", "UNKNOWN"}
           Two == {"LrM", "LMr", "LrI", "ALU_OPM", "ALU_OPI", "INP", "OUT"}
           Long == {"JMP", "JFc", "JTc", "CAL", "CFc", "CTc"}
<1>1. InstructionName = Short \cup {"RET", "RFc", "RTc"} \cup {"RST"} \cup Two \cup {"LMI"} \cup Long
  BY DEF InstructionName, instruction_table
<1>2. CASE name \in Short
  <2>1. /\ Len(cycles) = 1 /\ DOMAIN cycles = {1}
        /\ cycles[1].control = "PCI" /\ cycles[1].address = "PC"
        /\ cycles[1].t3 = "Fetch_IR_And_Reg_b"
        /\ cycles[1].t4 \in {"IDLE", "Source_to_Reg_b"}
        /\ cycles[1].t5 \in {"IDLE", "Reg_b_to_Destination", "Inc_Destination", "Dec_Destination",
                             "ALU_Operation_With_RegB", "Rotate_A"}
        /\ cycles[1].last \in {"T3", "T5"} /\ cycles[1].conditional = FALSE
    <3>1. CASE name \in {"Lrr", "UNKNOWN"}
      BY <3>1 DEF instruction_table, Lrr, Fetch, Cycle
    <3>2. CASE name \in {"RLC", "RRC", "RAL", "RAR"}
      BY <3>2 DEF instruction_table, Rotate, Fetch, Cycle
    <3>3. CASE name \in {"INr", "DCr", "ALU_OPr"}
      BY <3>3 DEF instruction_table, Fetch, Cycle
    <3>4. CASE name = "HLT"
      BY <3>4 DEF instruction_table, FetchOnly, Fetch, Cycle
    <3> QED
      BY <1>2, <3>1, <3>2, <3>3, <3>4
  <2> HIDE DEF cycles
  <2> QED
    <3>1. KindOf(cycles, 1)
      BY <1>2, <2>1 DEF KindOf
    <3>2. EndOf(name, cycles, 1)
      BY <1>2, <2>1 DEF EndOf
    <3>3. DataOf(name, cycles, 1)
      BY <1>2, <2>1 DEF DataOf
    <3>4. MovesOf(name, cycles, 1)
      BY <1>2, <2>1 DEF MovesOf, Moves
    <3> QED
      BY <1>2, <2>1, <3>1, <3>2, <3>3, <3>4 DEF Shape, cycles
<1>3. CASE name \in {"RET", "RFc", "RTc"}
  <2>1. /\ Len(cycles) = 1 /\ DOMAIN cycles = {1}
        /\ cycles[1].control = "PCI" /\ cycles[1].address = "PC"
        /\ cycles[1].t3 = "Fetch_IR_And_Reg_b"
        /\ cycles[1].t4 = "Pop_Stack" /\ cycles[1].t5 = "IDLE" /\ cycles[1].last = "T5"
        /\ cycles[1].conditional \in BOOLEAN
    <3>1. Len(cycles) = 1 /\ DOMAIN cycles = {1}
      BY <1>3 DEF instruction_table
    <3>2. cycles[1] = Return \/ cycles[1] = [Return EXCEPT !.conditional = TRUE]
      <4>1. cycles[1] \in {Return, Conditional(Return)}
        BY <1>3 DEF instruction_table
      <4> HIDE DEF cycles
      <4> QED
        BY <4>1 DEF Conditional
    <3>3. CASE cycles[1] = Return
      BY <3>1, <3>3 DEF Return, Fetch, Cycle
    <3>4. CASE cycles[1] = [Return EXCEPT !.conditional = TRUE]
      BY <3>1, <3>4 DEF Return, Fetch, Cycle
    <3> QED
      BY <3>2, <3>3, <3>4
  <2> HIDE DEF cycles
  <2> QED
    <3>1. KindOf(cycles, 1)
      BY <1>3, <2>1 DEF KindOf
    <3>2. EndOf(name, cycles, 1)
      BY <1>3, <2>1 DEF EndOf
    <3>3. DataOf(name, cycles, 1)
      BY <1>3, <2>1 DEF DataOf
    <3>4. MovesOf(name, cycles, 1)
      BY <1>3, <2>1 DEF MovesOf, Moves
    <3> QED
      BY <1>3, <2>1, <3>1, <3>2, <3>3, <3>4 DEF Shape, cycles
<1>4. CASE name = "RST"
  <2>1. /\ Len(cycles) = 1 /\ DOMAIN cycles = {1}
        /\ cycles[1].control = "PCI" /\ cycles[1].address = "PC"
        /\ cycles[1].t3 = "Fetch_IR_And_Reg_b"
        /\ cycles[1].t4 = "Push_And_Reg_a_to_PC_H" /\ cycles[1].t5 = "Reg_b_to_PC_L_3_to_5"
        /\ cycles[1].last = "T5" /\ cycles[1].conditional = FALSE
    BY <1>4 DEF instruction_table, Fetch, Cycle
  <2> HIDE DEF cycles
  <2> QED
    <3>1. KindOf(cycles, 1)
      BY <1>4, <2>1 DEF KindOf
    <3>2. EndOf(name, cycles, 1)
      BY <1>4, <2>1 DEF EndOf
    <3>3. DataOf(name, cycles, 1)
      BY <1>4, <2>1 DEF DataOf
    <3>4. MovesOf(name, cycles, 1)
      BY <1>4, <2>1 DEF MovesOf, Moves
    <3> QED
      BY <1>4, <2>1, <3>1, <3>2, <3>3, <3>4 DEF Shape, cycles
<1>5. CASE name \in Two
  <2>1. /\ Len(cycles) = 2 /\ DOMAIN cycles = {1, 2}
        /\ cycles[1].control = "PCI" /\ cycles[1].address = "PC"
        /\ cycles[1].t3 = "Fetch_IR_And_Reg_b"
        /\ cycles[1].t4 = (IF name = "LMr" THEN "Source_to_Reg_b" ELSE "IDLE")
        /\ cycles[1].t5 = "IDLE"
        /\ cycles[1].last = (IF name = "LMr" THEN "T4" ELSE "T3")
        /\ cycles[1].conditional = FALSE
    BY <1>5 DEF instruction_table, FetchOnly, Fetch, Cycle
  <2>2. /\ cycles[2].control \in {"PCR", "PCC", "PCW"} /\ cycles[2].address \in {"PC", "HL", "A_b"}
        /\ cycles[2].t3 \notin {"Fetch_IR_And_Reg_b", "Fetch_Data_to_Reg_a"}
        /\ cycles[2].t4 \in {"IDLE", "Out_Conditions_Flags"}
        /\ cycles[2].t5 \in {"IDLE", "Reg_b_to_Destination", "ALU_Operation_With_RegB", "Reg_b_to_A"}
        /\ cycles[2].last \in {"T3", "T5"} /\ cycles[2].conditional = FALSE
        /\ cycles[2].control = "PCW" =>
             /\ name = "LMr" /\ cycles[2].last = "T3"
             /\ cycles[2].address = "HL" /\ cycles[2].t3 = "Out_Reg_b"
        /\ cycles[2].address = "A_b" => name # "LMr"
    <3>1. CASE name \in {"LrM", "LrI", "ALU_OPM", "ALU_OPI"}
      BY <3>1 DEF instruction_table, Read, Cycle
    <3>2. CASE name = "LMr"
      BY <3>2 DEF instruction_table, Write, Cycle
    <3>3. CASE name \in {"INP", "OUT"}
      BY <3>3 DEF instruction_table, Cycle
    <3> QED
      BY <1>5, <3>1, <3>2, <3>3
  <2> HIDE DEF cycles
  <2>3. Shape(name, cycles, 1)
    <3>1. KindOf(cycles, 1)
      BY <1>5, <2>1 DEF KindOf
    <3>2. EndOf(name, cycles, 1)
      BY <1>5, <2>1 DEF EndOf
    <3>3. DataOf(name, cycles, 1)
      BY <1>5, <2>1 DEF DataOf
    <3>4. MovesOf(name, cycles, 1)
      BY <1>5, <2>1 DEF MovesOf, Moves
    <3> QED
      BY <1>5, <2>1, <3>1, <3>2, <3>3, <3>4 DEF Shape
  <2>4. Shape(name, cycles, 2)
    <3>1. KindOf(cycles, 2)
      BY <1>5, <2>1, <2>2 DEF KindOf
    <3>2. EndOf(name, cycles, 2)
      BY <1>5, <2>1, <2>2 DEF EndOf
    <3>3. DataOf(name, cycles, 2)
      BY <1>5, <2>1, <2>2 DEF DataOf
    <3>4. MovesOf(name, cycles, 2)
      BY <1>5, <2>1, <2>2 DEF MovesOf, Moves
    <3> QED
      BY <1>5, <2>1, <2>2, <3>1, <3>2, <3>3, <3>4 DEF Shape
  <2> QED
    BY <2>1, <2>3, <2>4 DEF cycles
<1>6. CASE name \in Long \cup {"LMI"}
  <2>1. /\ Len(cycles) = 3 /\ DOMAIN cycles = {1, 2, 3}
        /\ cycles[1] = FetchOnly /\ cycles[2] = ReadLow
    BY <1>6 DEF instruction_table, Jump, JumpIf
  <2>2. /\ cycles[1].control = "PCI" /\ cycles[1].address = "PC"
        /\ cycles[1].t3 = "Fetch_IR_And_Reg_b"
        /\ cycles[1].t4 = "IDLE" /\ cycles[1].t5 = "IDLE" /\ cycles[1].last = "T3"
        /\ cycles[1].conditional = FALSE
        /\ cycles[2].control = "PCR" /\ cycles[2].address = "PC"
        /\ cycles[2].t3 = "Fetch_Data_to_Reg_b"
        /\ cycles[2].t4 = "IDLE" /\ cycles[2].t5 = "IDLE" /\ cycles[2].last = "T3"
        /\ cycles[2].conditional = FALSE
    BY <2>1 DEF FetchOnly, Fetch, ReadLow, Cycle
  <2>3. CASE name = "LMI"
    <3>1. cycles[3] = Write
      BY <2>3 DEF instruction_table
    <3>2. /\ cycles[3].control = "PCW" /\ cycles[3].address = "HL" /\ cycles[3].t3 = "Out_Reg_b"
          /\ cycles[3].t4 = "IDLE" /\ cycles[3].t5 = "IDLE" /\ cycles[3].last = "T3"
          /\ cycles[3].conditional = FALSE
      BY <3>1 DEF Write, Cycle
    <3> HIDE DEF cycles
    <3>3. Shape(name, cycles, 1) /\ Shape(name, cycles, 2) /\ Shape(name, cycles, 3)
      <4>1. KindOf(cycles, 1)
        BY <2>1, <2>2, <2>3, <3>2 DEF KindOf
      <4>2. EndOf(name, cycles, 1)
        BY <2>1, <2>2, <2>3, <3>2 DEF EndOf
      <4>3. DataOf(name, cycles, 1)
        BY <2>1, <2>2, <2>3, <3>2 DEF DataOf
      <4>4. MovesOf(name, cycles, 1)
        BY <2>1, <2>2, <2>3, <3>2 DEF MovesOf, Moves
      <4>5. KindOf(cycles, 2)
        BY <2>1, <2>2, <2>3, <3>2 DEF KindOf
      <4>6. EndOf(name, cycles, 2)
        BY <2>1, <2>2, <2>3, <3>2 DEF EndOf
      <4>7. DataOf(name, cycles, 2)
        BY <2>1, <2>2, <2>3, <3>2 DEF DataOf
      <4>8. MovesOf(name, cycles, 2)
        BY <2>1, <2>2, <2>3, <3>2 DEF MovesOf, Moves
      <4>9. KindOf(cycles, 3)
        BY <2>1, <2>2, <2>3, <3>2 DEF KindOf
      <4>10. EndOf(name, cycles, 3)
        BY <2>1, <2>2, <2>3, <3>2 DEF EndOf
      <4>11. DataOf(name, cycles, 3)
        BY <2>1, <2>2, <2>3, <3>2 DEF DataOf
      <4>12. MovesOf(name, cycles, 3)
        BY <2>1, <2>2, <2>3, <3>2 DEF MovesOf, Moves
      <4> QED
        BY <2>1, <2>2, <2>3, <3>2, <4>1, <4>2, <4>3, <4>4, <4>5, <4>6, <4>7, <4>8, <4>9, <4>10,
           <4>11, <4>12 DEF Shape
    <3> QED
      BY <2>1, <3>3 DEF cycles
  <2>4. CASE name \in Long
    <3>1. cycles[3] \in {ReadHigh("Reg_a_to_PC_H"), Conditional(ReadHigh("Reg_a_to_PC_H")),
                         ReadHigh("Push_And_Reg_a_to_PC_H"),
                         Conditional(ReadHigh("Push_And_Reg_a_to_PC_H"))}
      BY <2>4 DEF instruction_table, Jump, JumpIf
    <3>2. /\ cycles[3].control = "PCR" /\ cycles[3].address = "PC"
          /\ cycles[3].t3 = "Fetch_Data_to_Reg_a"
          /\ cycles[3].t4 \in {"Reg_a_to_PC_H", "Push_And_Reg_a_to_PC_H"}
          /\ cycles[3].t5 = "Reg_b_to_PC_L" /\ cycles[3].last = "T5"
          /\ cycles[3].conditional \in BOOLEAN
      <4>1. PICK t4 \in {"Reg_a_to_PC_H", "Push_And_Reg_a_to_PC_H"} :
              \/ cycles[3] = ReadHigh(t4)
              \/ cycles[3] = [ReadHigh(t4) EXCEPT !.conditional = TRUE]
        BY <3>1 DEF Conditional
      <4>2. CASE cycles[3] = ReadHigh(t4)
        BY <4>2 DEF ReadHigh, Cycle
      <4>3. CASE cycles[3] = [ReadHigh(t4) EXCEPT !.conditional = TRUE]
        BY <4>3 DEF ReadHigh, Cycle
      <4> QED
        BY <4>1, <4>2, <4>3
    <3> HIDE DEF cycles
    <3>3. Shape(name, cycles, 1) /\ Shape(name, cycles, 2) /\ Shape(name, cycles, 3)
      <4>1. KindOf(cycles, 1)
        BY <2>1, <2>2, <2>4, <3>2 DEF KindOf
      <4>2. EndOf(name, cycles, 1)
        BY <2>1, <2>2, <2>4, <3>2 DEF EndOf
      <4>3. DataOf(name, cycles, 1)
        BY <2>1, <2>2, <2>4, <3>2 DEF DataOf
      <4>4. MovesOf(name, cycles, 1)
        BY <2>1, <2>2, <2>4, <3>2 DEF MovesOf, Moves
      <4>5. KindOf(cycles, 2)
        BY <2>1, <2>2, <2>4, <3>2 DEF KindOf
      <4>6. EndOf(name, cycles, 2)
        BY <2>1, <2>2, <2>4, <3>2 DEF EndOf
      <4>7. DataOf(name, cycles, 2)
        BY <2>1, <2>2, <2>4, <3>2 DEF DataOf
      <4>8. MovesOf(name, cycles, 2)
        BY <2>1, <2>2, <2>4, <3>2 DEF MovesOf, Moves
      <4>9. KindOf(cycles, 3)
        BY <2>1, <2>2, <2>4, <3>2 DEF KindOf
      <4>10. EndOf(name, cycles, 3)
        BY <2>1, <2>2, <2>4, <3>2 DEF EndOf
      <4>11. DataOf(name, cycles, 3)
        BY <2>1, <2>2, <2>4, <3>2 DEF DataOf
      <4>12. MovesOf(name, cycles, 3)
        BY <2>1, <2>2, <2>4, <3>2 DEF MovesOf, Moves
      <4> QED
        BY <2>1, <2>2, <2>4, <3>2, <4>1, <4>2, <4>3, <4>4, <4>5, <4>6, <4>7, <4>8, <4>9, <4>10,
           <4>11, <4>12 DEF Shape
    <3> QED
      BY <2>1, <3>3 DEF cycles
  <2> QED
    BY <1>6, <2>3, <2>4
<1> QED
  BY <1>1, <1>2, <1>3, <1>4, <1>5, <1>6

(* A step of the clock that leaves the registers and the cycle alone. *)
LEMMA SteadyUnmoved ==
  ASSUME Steady,
         UNCHANGED <<program, registers, begun_by, bus, done>>,
         UNCHANGED <<state, memory_cycle, cycle_ended, next_cycle_control, decoded_instruction>>,
         BeforeData' <=> BeforeData
  PROVE  Steady'
<1> USE DEF Steady, registers
<1>1. /\ Cycles' = Cycles /\ Running' = Running /\ First' = First /\ Start' = Start
      /\ Returns' = Returns /\ Early' = Early /\ Kind' = Kind /\ From' = From
      /\ AfterData' <=> AfterData
  BY DEF Cycles, Running, First, Start, Returns, Early, Kind, From, Jammed, Met, AfterData, get_pc,
     Behind, Inc
<1>2. Forms' /\ RunningOK' /\ Counted'
  BY <1>1 DEF Forms, RunningOK, Counted
<1>3. FetchOK' /\ OperandOK(2)' /\ OperandOK(3)'
  BY <1>1 DEF FetchOK, OperandOK, AddressAt, PcBefore, Entry
<1>4. RingOK'
  BY <1>1, ZenonT(30) DEF RingOK, PcNow, LowByte
<1>5. EmittedOK' /\ HiddenOK' /\ WriteOK'
  BY <1>1 DEF EmittedOK, PcBefore, HiddenOK, WriteOK
<1>6. PadOK' /\ EndOK'
  BY <1>1 DEF PadOK, EndOK, ControlAfter
<1> QED
  BY <1>2, <1>3, <1>4, <1>5, <1>6

LEMMA SettledUnmoved ==
  ASSUME Settled,
         UNCHANGED <<program, registers, gar, begun_by, bus, done>>,
         UNCHANGED <<state, memory_cycle, cycle_ended, next_cycle_control, decoded_instruction>>,
         BeforeData' <=> BeforeData, Latched' <=> Latched
  PROVE  Settled'
<1>1. Steady'
  BY SteadyUnmoved DEF Settled
<1>2. Kind' = Kind /\ From' = From
  BY DEF Kind, From, Running, Cycles
<1>3. AddressOK'
  BY <1>2 DEF Settled, AddressOK, Low8, High6, registers
<1> QED
  BY <1>1, <1>3 DEF Settled

(* The cycle that runs is one of the table. *)
LEMMA RunningIs ==
  ASSUME CycleInv, state # "STOPPED", RunningOK
  PROVE  /\ decoded_instruction.name \in InstructionName
         /\ memory_cycle \in 0 .. 2 /\ memory_cycle + 1 \in DOMAIN Cycles
         /\ DOMAIN Cycles = 1 .. Len(Cycles) /\ Len(Cycles) \in 1 .. 3
         /\ \A k \in DOMAIN Cycles : Shape(decoded_instruction.name, Cycles, k)
         /\ ~Ahead => Kind = cycle_control
<1>1. /\ decoded_instruction \in Decoded /\ decoded_instruction.name \in InstructionName
      /\ memory_cycle \in 0 .. 2
  BY DecodedHasCycles DEF CycleInv, CycleTyped
<1>2. /\ memory_cycle + 1 \in DOMAIN Cycles
      /\ DOMAIN Cycles = 1 .. Len(Cycles) /\ Len(Cycles) \in 1 .. 3
  BY <1>1, ThreeCycles DEF RunningOK, Cycles
<1>3. \A k \in DOMAIN Cycles : Shape(decoded_instruction.name, Cycles, k)
  BY <1>1, TableShape DEF Cycles
<1>4. ASSUME ~Ahead PROVE Kind = cycle_control
  <2>1. Is(decoded_instruction, memory_cycle, cycle_control)
    BY <1>4 DEF CycleInv, TableFollowed
  <2>2. CASE cycle_control = "PCI"
    BY <2>1, <2>2 DEF Is, Kind
  <2>3. CASE cycle_control # "PCI"
    <3>1. cycle_control = Running.control
      BY <2>1, <2>3 DEF Is, Running, Cycles
    <3>2. memory_cycle + 1 # 1
      BY <1>2, <1>3, <2>3, <3>1 DEF Shape, KindOf, Running
    <3> QED
      BY <3>1, <3>2 DEF Kind
  <2> QED
    BY <2>2, <2>3
<1> QED
  BY <1>1, <1>2, <1>3, <1>4

LEMMA SyncFallsSettled ==
  ASSUME Settled, CycleInv, CPUSyncFalls
  PROVE  Settled'
<1>1. /\ phase = "sync_falls" /\ phase' = "phase_22"
      /\ UNCHANGED <<state, cycle_control, memory_cycle, cycle_ended, next_cycle_control, decoded_instruction>>
      /\ UNCHANGED <<program, registers, begun_by, bus, done>>
  BY DEF CPUSyncFalls, SyncFalls, sequencing, history
<1>2. BeforeData' <=> BeforeData
  BY <1>1 DEF BeforeData
<1>3. Steady'
  BY <1>1, <1>2, SteadyUnmoved DEF Settled
<1>4. Kind' = Kind /\ From' = From /\ Low8' = Low8 /\ High6' = High6
  BY <1>1 DEF Kind, From, Running, Cycles, Low8, High6, registers
<1>5. ~Latched /\ Latched'
  BY <1>1 DEF Latched
<1>6. state \in {"T1", "T1I", "T2", "WAIT"} \/ ~BeforeData
  BY <1>1 DEF BeforeData
<1>7. gar = [low |-> gar.low, high |-> gar.high, control |-> gar.control]
  BY DEF Settled, AddressOK
<1>8. AddressOK'
  <2>1. CASE state \in {"T1", "T1I"}
    <3>1. io_data_latch = Low8
      BY <1>5, <2>1 DEF Settled, AddressOK, BeforeData
    <3>2. gar' = [gar EXCEPT !.low = io_data_latch]
      BY <2>1 DEF CPUSyncFalls
    <3>3. gar' = [low |-> Low8, high |-> gar.high, control |-> gar.control]
      BY <1>7, <3>1, <3>2
    <3> QED
      BY <1>1, <1>4, <1>5, <2>1, <3>3 DEF AddressOK
  <2>2. CASE state = "T2"
    <3>1. io_data_latch = High6 /\ gar.low = Low8
      BY <1>5, <2>2 DEF Settled, AddressOK, BeforeData
    <3>2. gar' = [gar EXCEPT !.high = io_data_latch % 64, !.control = cycle_control]
      BY <2>2 DEF CPUSyncFalls
    <3>3. cycle_control = Kind
      BY <1>1, <2>2, RunningIs DEF Settled, Steady, Ahead
    <3>4. gar' = [low |-> Low8, high |-> High6 % 64, control |-> Kind]
      BY <1>7, <3>1, <3>2, <3>3
    <3> QED
      BY <1>1, <1>4, <1>5, <2>2, <3>4 DEF AddressOK
  <2>3. CASE state \notin {"T1", "T1I", "T2"}
    <3>1. gar' = gar
      BY <2>3 DEF CPUSyncFalls
    <3> QED
      BY <1>1, <1>2, <1>4, <1>5, <2>3, <3>1 DEF Settled, AddressOK
  <2> QED
    BY <2>1, <2>2, <2>3
<1> QED
  BY <1>3, <1>8 DEF Settled

LEMMA AddressBits ==
  ASSUME NEW e \in Nat
  PROVE  (((e % AddressSpace) \div 256) % 64) * 256 + (e % 256) = e % AddressSpace
<1> DEFINE m == e % 16384
           q == e \div 16384
<1>1. m \in 0 .. 16383 /\ q \in Nat /\ e = 16384 * q + m
  BY SMTT(30)
<1> HIDE DEF m, q
<1>2. e % 256 = m % 256
  BY <1>1
<1>3. (m \div 256) % 64 = m \div 256
  BY <1>1
<1>4. (m \div 256) * 256 + (m % 256) = m
  BY <1>1
<1> QED
  BY <1>2, <1>3, <1>4 DEF m, AddressSpace

(* What the address register holds in T3. *)
LEMMA BusAddress ==
  ASSUME Settled, CycleInv, BeforeData, state = "T3"
  PROVE  /\ gar.high * 256 + gar.low = AddressAt(memory_cycle + 1)
         /\ gar.control = Kind
<1>1. /\ decoded_instruction.name \in InstructionName
      /\ memory_cycle \in 0 .. 2 /\ memory_cycle + 1 \in DOMAIN Cycles
      /\ DOMAIN Cycles = 1 .. Len(Cycles) /\ Len(Cycles) \in 1 .. 3
      /\ Shape(decoded_instruction.name, Cycles, memory_cycle + 1)
      /\ Shape(decoded_instruction.name, Cycles, 1)
  BY RunningIs DEF Settled, Steady
<1>2. gar.low = Low8 /\ gar.high = High6 % 64 /\ gar.control = Kind
  BY DEF Settled, AddressOK
<1>3. scratch_pad_memory = done.reg /\ Len(bus) = memory_cycle
  BY DEF Settled, Steady, PadOK, Counted
<1>4. From = Cycles[memory_cycle + 1].address
  <2>1. memory_cycle = 0 => Cycles[1].address = "PC"
    BY <1>1 DEF Shape, KindOf
  <2> QED
    BY <2>1, <1>1 DEF From, Running
<1>5. From \in {"PC", "HL", "A_b"}
  BY <1>1, <1>4 DEF Shape, KindOf
<1>6. CASE From = "PC"
  <2>1. address_stack.emitted_pc = PcBefore(memory_cycle + 1) /\ address_stack.emitted_pc \in Nat
    BY <1>6, Fields DEF Settled, Steady, EmittedOK, Forms
  <2>2. gar.high = ((address_stack.emitted_pc % AddressSpace) \div 256) % 64
        /\ gar.low = address_stack.emitted_pc % 256
    BY <1>2, <1>6 DEF Low8, High6, get_high_pc
  <2>3. gar.high * 256 + gar.low = address_stack.emitted_pc % AddressSpace
    BY <2>1, <2>2, AddressBits
  <2>4. AddressAt(memory_cycle + 1) = PcBefore(memory_cycle + 1) % AddressSpace
    BY <1>4, <1>6 DEF AddressAt
  <2> QED
    BY <1>2, <2>1, <2>3, <2>4
<1>7. CASE From = "HL"
  BY <1>2, <1>3, <1>4, <1>7 DEF Low8, High6, AddressAt
<1>8. CASE From = "A_b"
  <2>1. memory_cycle + 1 = 2 /\ Cycles[1].t4 # "Source_to_Reg_b"
    BY <1>1, <1>4, <1>8 DEF Shape, DataOf
  <2>2. memory_cycle = 1
    BY <1>1, <2>1
  <2>3. hidden_registers.b = bus[1].data
    BY <1>3, <2>1, <2>2 DEF Settled, Steady, HiddenOK
  <2> QED
    BY <1>2, <1>3, <1>4, <1>8, <2>3 DEF Low8, High6, AddressAt
<1> QED
  BY <1>5, <1>6, <1>7, <1>8

(* Tuples of two and of three, as the appending of their last element. *)
LEMMA AppendToOne ==
  ASSUME NEW x, NEW e PROVE Append(<<x>>, e) = <<x, e>>
<1>1. <<x>> \in Seq({x, e}) /\ <<x, e>> \in Seq({x, e}) /\ Append(<<x>>, e) \in Seq({x, e})
  OBVIOUS
<1>2. Len(Append(<<x>>, e)) = 2 /\ Len(<<x, e>>) = 2
  BY <1>1
<1>3. \A i \in 1 .. 2 : Append(<<x>>, e)[i] = <<x, e>>[i]
  BY <1>1
<1> QED
  BY <1>1, <1>2, <1>3, SeqEqual

LEMMA AppendToTwo ==
  ASSUME NEW x, NEW y, NEW e PROVE Append(<<x, y>>, e) = <<x, y, e>>
<1>1. /\ <<x, y>> \in Seq({x, y, e}) /\ <<x, y, e>> \in Seq({x, y, e})
      /\ Append(<<x, y>>, e) \in Seq({x, y, e})
  OBVIOUS
<1>2. Len(Append(<<x, y>>, e)) = 3 /\ Len(<<x, y, e>>) = 3
  BY <1>1
<1>3. \A i \in 1 .. 3 : Append(<<x, y>>, e)[i] = <<x, y, e>>[i]
  BY <1>1
<1> QED
  BY <1>1, <1>2, <1>3, SeqEqual

(* A cycle more of an instruction that has been fetched. *)
LEMMA Lengthened ==
  ASSUME Counted, NEW n \in 1 .. 2, Len(bus) = n, NEW e
  PROVE  LET b == Append(bus, e) IN
         /\ Len(b) = n + 1 /\ b # <<>> /\ bus # <<>>
         /\ b[1] = bus[1] /\ b[n + 1] = e
         /\ n = 2 => b[2] = bus[2]
         /\ \/ b = <<b[1], b[2]>>
            \/ b = <<b[1], b[2], b[3]>>
<1>1. CASE n = 1
  <2>1. bus = <<bus[1]>>
    BY <1>1 DEF Counted
  <2> DEFINE x == bus[1]
  <2> HIDE DEF x
  <2>2. Append(<<x>>, e) = <<x, e>>
    BY AppendToOne
  <2> QED
    BY <1>1, <2>1, <2>2 DEF x
<1>2. CASE n = 2
  <2>1. bus = <<bus[1], bus[2]>>
    BY <1>2 DEF Counted
  <2> DEFINE x == bus[1]
             y == bus[2]
  <2> HIDE DEF x, y
  <2>2. Append(<<x, y>>, e) = <<x, y, e>>
    BY AppendToTwo
  <2> QED
    BY <1>2, <2>1, <2>2 DEF x, y
<1> QED
  BY <1>1, <1>2

(* The clock edge at which a cycle's data is on the bus, in a later cycle   *)
(* than the fetch.                                                         *)
LEMMA CycleAppended ==
  ASSUME Settled, CycleInv, state = "T3", phase = "data_in", memory_cycle \in 1 .. 2,
         phase' = "sync_falls",
         UNCHANGED <<program, address_stack, scratch_pad_memory, flags, gar, done>>,
         UNCHANGED <<state, memory_cycle, decoded_instruction, begun_by>>,
         NEW d, bus' = Append(bus, Entry(Kind, AddressAt(memory_cycle + 1), d)),
         Kind = "PCR" => d \in Byte,
         Kind = "PCW" => d = IF memory_cycle = 1 THEN done.reg[decoded_instruction.low]
                                                 ELSE bus[2].data,
         hidden_registers' = [a |-> hidden_registers'.a, b |-> hidden_registers'.b],
         HiddenOK', EndOK'
  PROVE  Settled'
<1> USE DEF Settled, Steady
<1>1. BeforeData /\ ~BeforeData' /\ AfterData'
  BY DEF BeforeData, AfterData
<1>2. Len(bus) = memory_cycle /\ Kind = Cycles[memory_cycle + 1].control
  BY <1>1 DEF Counted, Kind, Running
<1>3. /\ Len(bus') = memory_cycle + 1 /\ bus' # <<>> /\ bus # <<>>
      /\ bus'[1] = bus[1]
      /\ bus'[memory_cycle + 1] = Entry(Kind, AddressAt(memory_cycle + 1), d)
      /\ memory_cycle = 2 => bus'[2] = bus[2]
      /\ \/ bus' = <<bus'[1], bus'[2]>>
         \/ bus' = <<bus'[1], bus'[2], bus'[3]>>
  BY <1>2, Lengthened
<1> DEFINE e == Entry(Kind, AddressAt(memory_cycle + 1), d)
<1>4. e.control = Kind /\ e.address = AddressAt(memory_cycle + 1) /\ e.data = d
  BY DEF Entry
<1> HIDE DEF e
<1>5. /\ Cycles' = Cycles /\ Running' = Running /\ Start' = Start /\ First' = First
      /\ Returns' = Returns
  BY <1>3 DEF Cycles, Running, Start, First, Returns, Jammed, get_pc, Behind, Inc
<1>6. Forms' /\ RunningOK'
  BY <1>5 DEF Forms, RunningOK
<1>7. Counted'
  BY <1>1, <1>3 DEF Counted
<1>8. FetchOK'
  BY <1>3, <1>5 DEF FetchOK
<1>9. \A k \in 1 .. 3 : k \in DOMAIN Cycles => AddressAt(k)' = AddressAt(k)
  BY <1>3, <1>5 DEF AddressAt, PcBefore
<1>10. memory_cycle + 1 \in DOMAIN Cycles /\ DOMAIN Cycles = 1 .. Len(Cycles)
  BY RunningIs
<1>11. OperandOK(2)'
  <2>1. CASE memory_cycle = 1
    <3>1. bus'[2] = e /\ AddressAt(2)' = AddressAt(2) /\ Kind = Cycles[2].control
      BY <1>2, <1>3, <1>9, <1>10, <2>1 DEF e
    <3>2. bus'[2] = Entry(Cycles[2].control, AddressAt(2), bus'[2].data)
      <4>1. memory_cycle + 1 = 2
        BY <2>1
      <4>2. e = Entry(Cycles[2].control, AddressAt(2), d)
        BY <3>1, <4>1 DEF e
      <4> QED
        BY <1>4, <3>1, <4>2
    <3> QED
      BY <1>4, <1>5, <2>1, <3>1, <3>2 DEF OperandOK
  <2>2. CASE memory_cycle = 2
    <3>1. AddressAt(2)' = AddressAt(2)
      BY <1>9, <1>10, <2>2
    <3> QED
      BY <1>2, <1>3, <1>5, <2>2, <3>1 DEF OperandOK
  <2> QED
    BY <2>1, <2>2
<1>12. OperandOK(3)'
  <2>1. CASE memory_cycle = 2
    <3>1. /\ bus'[3] = e /\ AddressAt(3)' = AddressAt(3) /\ Kind = Cycles[3].control
          /\ bus'[2] = bus[2]
      BY <1>2, <1>3, <1>9, <1>10, <2>1 DEF e
    <3>2. bus'[3] = Entry(Cycles[3].control, AddressAt(3), bus'[3].data)
      <4>1. memory_cycle + 1 = 3
        BY <2>1
      <4>2. e = Entry(Cycles[3].control, AddressAt(3), d)
        BY <3>1, <4>1 DEF e
      <4> QED
        BY <1>4, <3>1, <4>2
    <3> QED
      BY <1>4, <1>5, <2>1, <3>1, <3>2 DEF OperandOK
  <2>2. CASE memory_cycle = 1
    BY <1>3, <2>2 DEF OperandOK
  <2> QED
    BY <2>1, <2>2
<1>13. RingOK'
  BY <1>5 DEF RingOK, PcNow
<1>14. EmittedOK' /\ WriteOK' /\ PadOK'
  BY <1>1 DEF EmittedOK, WriteOK, PadOK
<1>15. AddressOK'
  BY <1>1 DEF AddressOK
<1> QED
  BY <1>6, <1>7, <1>8, <1>11, <1>12, <1>13, <1>14, <1>15

(* How T3 ends. *)
LEMMA EndOfT3 ==
  ASSUME state' = "T3", AfterData', flags = done.flags, UNCHANGED <<memory_cycle, done>>,
         ChecksCycleEnd(decoded_instruction', "T3", condition_verified(decoded_instruction')),
         Running'.conditional \in BOOLEAN
  PROVE  EndOK'
<1>1. CycleOf(decoded_instruction') = Running'
  BY DEF CycleOf, Running, Cycles
<1>2. ControlAfter(decoded_instruction)' = ControlAfter(decoded_instruction')
  BY DEF ControlAfter
<1>3. Met(decoded_instruction, done.flags)' = condition_verified(decoded_instruction')
  BY DEF Met, condition_verified
<1> DEFINE holds == condition_verified(decoded_instruction')
<1>4. holds \in BOOLEAN
  BY DEF condition_verified
<1> HIDE DEF holds
<1>5. Early' <=> Running'.conditional /\ ~holds
  BY <1>3 DEF Early, holds
<1>6. /\ cycle_ended' <=> (Running'.last = "T3" \/ Early')
      /\ cycle_ended' => next_cycle_control' =
           IF Early' THEN "PCI" ELSE ControlAfter(decoded_instruction')
  BY <1>1, <1>4, <1>5 DEF ChecksCycleEnd, holds
<1> QED
  BY <1>2, <1>6 DEF EndOK

LEMMA FetchSettled ==
  ASSUME Settled, CycleInv, state = "T3", phase = "data_in", memory_cycle = 0, CPUDataIn
  PROVE  Settled'
<1> USE DEF Settled, Steady
<1>1. BeforeData /\ ~BeforeData' /\ AfterData'
  BY DEF BeforeData, AfterData, CPUDataIn, DataIn
<1>2. ~Ahead /\ Kind = "PCI" /\ cycle_control = "PCI"
  BY RunningIs DEF Ahead, Kind
<1>3. IsReading
  BY <1>2 DEF IsReading
<1> DEFINE kind == IF begun_by = "T1I" THEN "T1I" ELSE "PCI"
<1>4. PICK byte \in program.opcodes :
        /\ DataIn(Decoding[byte], condition_verified(Decoding[byte]))
        /\ ExecuteT3Read(byte)
        /\ bus' = Append(bus, [control |-> IF begun_by = "T1I" THEN "T1I" ELSE gar.control,
                               address |-> gar.high * 256 + gar.low, data |-> byte])
        /\ UNCHANGED <<program, gar, instructions, begun_by, done>>
  BY <1>2, <1>3 DEF CPUDataIn
<1>5. gar.high * 256 + gar.low = Start % AddressSpace /\ gar.control = "PCI"
  <2>1. Shape(decoded_instruction.name, Cycles, 1)
    BY RunningIs
  <2>2. AddressAt(1) = Start % AddressSpace
    BY <2>1 DEF Shape, KindOf, AddressAt, PcBefore
  <2>3. memory_cycle + 1 = 1
    OBVIOUS
  <2> QED
    BY <1>1, <1>2, <2>2, <2>3, BusAddress
<1>6. bus = <<>>
  BY <1>1 DEF Counted
<1> DEFINE e == Entry(kind, Start % AddressSpace, byte)
<1>7. bus' = <<e>>
  BY <1>4, <1>5, <1>6 DEF Entry
<1>8. e.control = kind /\ e.data = byte /\ e = Entry(kind, Start % AddressSpace, e.data)
  BY DEF Entry
<1> HIDE DEF e
<1>9. bus'[1] = e /\ Len(bus') = 1 /\ bus' # <<>>
  BY <1>7
<1>10. byte \in Opcodes /\ byte \in Opcode
  BY <1>4, ProgramsAssumption, OpcodesAssumption DEF Forms
<1>11. /\ decoded_instruction' = Decoding[byte]
       /\ ChecksCycleEnd(decoded_instruction', "T3", condition_verified(decoded_instruction'))
       /\ UNCHANGED <<state, next_state, cycle_control, memory_cycle, interrupt_pending, ready>>
       /\ phase' = "sync_falls"
  BY <1>2, <1>3, <1>4 DEF DataIn
<1>12. /\ UNCHANGED <<address_stack, scratch_pad_memory, flags, io_data_latch>>
       /\ hidden_registers' = [a |-> 0, b |-> byte]
  BY <1>2, <1>4 DEF ExecuteT3Read
<1>13. decoded_instruction' \in Decoded
  BY <1>10, <1>11 DEF Decoded
<1>14. /\ decoded_instruction'.name \in InstructionName
       /\ 1 \in DOMAIN Cycles' /\ Shape(decoded_instruction'.name, Cycles', 1)
  <2>1. decoded_instruction'.name \in InstructionName
    BY <1>13, DecodedHasCycles
  <2>2. Cycles' = instruction_table[decoded_instruction'.name]
    BY DEF Cycles
  <2>3. 1 \in DOMAIN Cycles'
    BY <2>1, <2>2, ThreeCycles
  <2> QED
    BY <2>1, <2>2, <2>3, TableShape
<1>15. Jammed' = Jammed
  BY <1>6, <1>8, <1>9 DEF Jammed
<1>16. Start' = Start /\ First' = First /\ Returns' = Returns
  BY <1>4, <1>15 DEF Start, First, Returns, Behind, get_pc, Inc
<1>17. Forms' /\ RunningOK'
  BY <1>4, <1>11, <1>12, <1>14 DEF Forms, RunningOK
<1>18. Counted'
  BY <1>1, <1>7, <1>9, <1>11 DEF Counted
<1>19. FetchOK'
  <2>1. (IF e.control = "T1I" THEN "T1I" ELSE "PCI") = kind
    BY <1>8
  <2> QED
    BY <1>8, <1>9, <1>10, <1>11, <1>16, <2>1 DEF FetchOK
<1>20. OperandOK(2)' /\ OperandOK(3)'
  BY <1>9 DEF OperandOK
<1>21. RingOK'
  BY <1>11, <1>12, <1>16 DEF RingOK, PcNow
<1>22. EmittedOK' /\ WriteOK' /\ AddressOK'
  BY <1>1, <1>4 DEF EmittedOK, WriteOK, AddressOK
<1>23. HiddenOK'
  BY <1>8, <1>9, <1>11, <1>12 DEF HiddenOK
<1>24. PadOK'
  BY <1>4, <1>11, <1>12 DEF PadOK
<1>25. EndOK'
  <2>1. Running'.conditional \in BOOLEAN
    BY <1>11, <1>14 DEF Shape, EndOf, Running
  <2> QED
    BY <1>1, <1>4, <1>11, <2>1, EndOfT3 DEF PadOK
<1> QED
  BY <1>17, <1>18, <1>19, <1>20, <1>21, <1>22, <1>23, <1>24, <1>25

LEMMA OperandSettled ==
  ASSUME Settled, CycleInv, state = "T3", phase = "data_in", memory_cycle # 0, CPUDataIn
  PROVE  Settled'
<1> USE DEF Settled, Steady
<1> DEFINE k == memory_cycle + 1
<1>1. BeforeData /\ ~BeforeData' /\ AfterData'
  BY DEF BeforeData, AfterData, CPUDataIn, DataIn
<1>2. /\ ~Ahead /\ Kind = cycle_control /\ Kind = Running.control
      /\ memory_cycle \in 1 .. 2 /\ k \in DOMAIN Cycles /\ Running = Cycles[k]
      /\ Shape(decoded_instruction.name, Cycles, k)
  BY RunningIs DEF Ahead, Kind, Running
<1>3. gar.high * 256 + gar.low = AddressAt(k) /\ gar.control = Kind
  BY <1>1, BusAddress
<1>4. begun_by = "T1" /\ Len(bus) = memory_cycle
  BY <1>1, <1>2 DEF Counted
<1>5. Kind \in {"PCR", "PCC", "PCW"} /\ Running.t3 # "Fetch_IR_And_Reg_b"
  BY <1>2 DEF Shape, KindOf
<1>6. UNCHANGED <<program, gar, done, state, memory_cycle, decoded_instruction, begun_by>>
      /\ phase' = "sync_falls"
  BY <1>2, <1>5 DEF CPUDataIn, DataIn
<1>7. Running' = Running /\ Cycles' = Cycles /\ Kind' = Kind
  BY <1>6 DEF Running, Cycles, Kind
<1>8. CASE Kind = "PCW"
  <2>1. ~IsReading
    BY <1>2, <1>8 DEF IsReading
  <2>2. /\ UNCHANGED registers /\ UNCHANGED <<cycle_ended, next_cycle_control>>
        /\ bus' = Append(bus, Entry(Kind, AddressAt(k), io_data_latch))
    BY <1>2, <1>3, <1>4, <2>1 DEF CPUDataIn, DataIn, Entry
  <2>3. io_data_latch = hidden_registers.b
    BY <1>1, <1>8 DEF WriteOK
  <2>4. io_data_latch = IF memory_cycle = 1 THEN done.reg[decoded_instruction.low] ELSE bus[2].data
    <3>1. CASE memory_cycle = 1
      <4>1. Cycles[1].t4 = "Source_to_Reg_b"
        BY <1>2, <1>8, <3>1 DEF Shape, DataOf
      <4> QED
        BY <1>4, <2>3, <3>1, <4>1 DEF HiddenOK
    <3>2. CASE memory_cycle = 2
      <4>1. Cycles[2].t3 = "Fetch_Data_to_Reg_b"
        BY <1>2, <1>8, <3>2 DEF Shape, DataOf
      <4> QED
        BY <1>4, <2>3, <3>2, <4>1 DEF HiddenOK
    <3> QED
      BY <1>2, <3>1, <3>2
  <2>5. Running.t3 = "Out_Reg_b"
    BY <1>2, <1>8 DEF Shape, DataOf
  <2>6. Len(bus') = k
    BY <1>2, <1>4, <2>2, Lengthened
  <2>7. HiddenOK'
    BY <1>2, <1>7, <2>5, <2>6 DEF HiddenOK
  <2>8. EndOK'
    BY <1>6, <1>7, <1>8, <2>2 DEF EndOK, Early, Met, ControlAfter, PadOK
  <2>9. hidden_registers' = [a |-> hidden_registers'.a, b |-> hidden_registers'.b]
    BY <2>2 DEF Forms, registers
  <2> QED
    BY <1>2, <1>6, <1>8, <2>2, <2>4, <2>7, <2>8, <2>9, CycleAppended DEF registers
<1>9. CASE Kind # "PCW"
  <2>1. IsReading /\ cycle_control # "PCI"
    BY <1>2, <1>5, <1>9 DEF IsReading
  <2>2. PICK byte \in program.data :
          /\ DataIn(decoded_instruction, condition_verified(decoded_instruction))
          /\ ExecuteT3Read(byte)
          /\ bus' = Append(bus, Entry(Kind, AddressAt(k), byte))
    BY <1>3, <1>4, <2>1 DEF CPUDataIn, Entry
  <2>3. byte \in Byte
    BY <2>2, ProgramsAssumption DEF Forms
  <2>4. UNCHANGED <<address_stack, scratch_pad_memory, flags>>
    BY <2>2 DEF ExecuteT3Read
  <2>5. hidden_registers' =
          CASE Running.t3 = "Fetch_Data_to_Reg_b" -> [hidden_registers EXCEPT !.b = byte]
            [] Running.t3 = "Fetch_Data_to_Reg_a" -> [hidden_registers EXCEPT !.a = byte]
            [] OTHER -> hidden_registers
    <3>1. CycleOf(decoded_instruction) = Running
      BY DEF CycleOf, Running, Cycles
    <3> QED
      BY <1>5, <2>1, <2>2, <3>1 DEF ExecuteT3Read
  <2>6. /\ Running.t3 = "Fetch_Data_to_Reg_b" =>
             hidden_registers' = [a |-> hidden_registers.a, b |-> byte]
        /\ Running.t3 = "Fetch_Data_to_Reg_a" =>
             hidden_registers' = [a |-> byte, b |-> hidden_registers.b]
        /\ Running.t3 \notin {"Fetch_Data_to_Reg_b", "Fetch_Data_to_Reg_a"} =>
             hidden_registers' = hidden_registers
    BY <2>5 DEF Forms
  <2>7. hidden_registers' = [a |-> hidden_registers'.a, b |-> hidden_registers'.b]
    BY <2>6 DEF Forms
  <2>8. /\ Len(bus') = k /\ bus'[k].data = byte
        /\ memory_cycle = 2 => bus'[2] = bus[2]
    BY <1>2, <1>4, <2>2, Lengthened DEF Entry
  <2>9. HiddenOK'
    <3>1. CASE memory_cycle = 1
      BY <1>2, <1>7, <2>6, <2>8, <3>1 DEF HiddenOK
    <3>2. CASE memory_cycle = 2
      <4>1. Running.t3 = "Fetch_Data_to_Reg_a" => Cycles[2].t3 = "Fetch_Data_to_Reg_b"
        BY <1>2, <3>2 DEF Shape, DataOf
      <4>2. Running.t3 = "Fetch_Data_to_Reg_a" => hidden_registers.b = bus[2].data
        BY <1>4, <3>2, <4>1 DEF HiddenOK
      <4> QED
        BY <1>2, <1>7, <2>6, <2>8, <3>2, <4>2 DEF HiddenOK
    <3> QED
      BY <1>2, <3>1, <3>2
  <2>10. EndOK'
    <3>1. ChecksCycleEnd(decoded_instruction', "T3", condition_verified(decoded_instruction'))
      BY <1>6, <2>1, <2>2 DEF DataIn
    <3>2. Running'.conditional \in BOOLEAN
      BY <1>2, <1>7 DEF Shape, EndOf
    <3> QED
      BY <1>1, <1>6, <3>1, <3>2, EndOfT3 DEF PadOK
  <2> QED
    BY <1>2, <1>6, <1>9, <2>2, <2>3, <2>4, <2>7, <2>9, <2>10, CycleAppended
<1> QED
  BY <1>8, <1>9

LEMMA DataInSettled ==
  ASSUME Settled, CycleInv, CPUDataIn
  PROVE  Settled'
<1>1. phase = "data_in" /\ phase' = "sync_falls" /\ UNCHANGED <<state, memory_cycle>>
  BY DEF CPUDataIn, DataIn
<1>2. CASE state # "T3"
  <2>1. UNCHANGED <<decoded_instruction, cycle_ended, next_cycle_control>> /\ UNCHANGED registers
    BY <1>2 DEF CPUDataIn, DataIn, IsReading
  <2>2. (BeforeData' <=> BeforeData) /\ (Latched' <=> Latched)
    BY <1>1, <1>2 DEF BeforeData, Latched
  <2> QED
    BY <1>1, <1>2, <2>1, <2>2, SettledUnmoved DEF CPUDataIn
<1>3. CASE state = "T3"
  BY <1>1, <1>3, FetchSettled, OperandSettled
<1> QED
  BY <1>2, <1>3

(* The steps that only move the phase, the decision or an input. *)
Quiet ==
  \/ Phase11 \/ SyncRises \/ Phase21 \/ Phase22
  \/ phase = "phase_11" /\ (Interrupt \/ \E level \in BOOLEAN : SetReady(level))

LEMMA QuietSettled ==
  ASSUME Settled, Quiet, UNCHANGED <<program, registers, gar, history>>
  PROVE  Settled'
<1>1. UNCHANGED <<state, memory_cycle, cycle_ended, next_cycle_control, decoded_instruction>>
  BY DEF Quiet, Phase11, SyncRises, Phase21, Phase22, EndPhase22, Interrupt, SetReady, sequencing
<1>2. \/ phase \in {"phase_11", "sync_rises", "phase_22"}
           /\ phase' \in {"sync_rises", "state", "phase_11"}
      \/ phase = "phase_21" /\ phase' = "data_in"
  BY DEF Quiet, Phase11, SyncRises, Phase21, Phase22, EndPhase22, Interrupt, SetReady
<1>3. (BeforeData' <=> BeforeData) /\ (Latched' <=> Latched)
  BY <1>1, <1>2 DEF BeforeData, Latched
<1> QED
  BY <1>1, <1>3, SettledUnmoved DEF history

(* What the first edge of phase 1 decides from. *)
LEMMA Phase11Decided ==
  ASSUME Phase11
  PROVE  DecidedOK'
<1>1. UNCHANGED <<state, cycle_ended, next_cycle_control, decoded_instruction>>
  BY DEF Phase11
<1>2. CASE \/ state \in {"T1", "T1I"} /\ GoTo("T2")
           \/ state = "T2" /\ GoTo(IF ready THEN "T3" ELSE "WAIT")
           \/ state = "WAIT" /\ GoTo(IF ready THEN "T3" ELSE "none")
           \/ state = "T3" /\ ~cycle_ended /\ GoTo("T4")
           \/ state = "T4" /\ ~cycle_ended /\ GoTo("T5")
  BY <1>1, <1>2 DEF GoTo, DecidedOK
<1>3. CASE LeaveStopped
  BY <1>1, <1>3 DEF LeaveStopped, DecidedOK
<1>4. CASE EndCycle
  <2>1. next_state' \in {"T1", "T1I"}
    BY <1>4 DEF EndCycle, NextCycle
  <2> QED
    BY <1>1, <1>4, <2>1 DEF EndCycle, DecidedOK
<1>5. CASE EndInstruction
  <2>1. next_state' \in {"T1", "T1I"}
    BY <1>5 DEF EndInstruction, NextCycle
  <2> QED
    BY <1>1, <1>5, <2>1 DEF EndInstruction, DecidedOK
<1>6. CASE Halt
  BY <1>1, <1>6 DEF Halt, DecidedOK
<1> QED
  BY <1>2, <1>3, <1>4, <1>5, <1>6 DEF Phase11

LEMMA NextDecided ==
  ASSUME DecidedOK, CPUNext
  PROVE  DecidedOK'
<1>1. CASE Phase11
  BY <1>1, Phase11Decided
<1>2. CASE SyncRises
  BY <1>2 DEF SyncRises, sequencing, DecidedOK
<1>3. CASE phase' \notin {"sync_rises", "state"}
  BY <1>3 DEF DecidedOK
<1> QED
  BY <1>1, <1>2, <1>3 DEF CPUNext, CPUPhase21, CPUEnterState, CPUDataIn, CPUSyncFalls,
     Phase21, Phase22, EndPhase22, EnterState, DataIn, SyncFalls, Interrupt, SetReady

(* From T1 to the beginning of T3. *)
LEMMA BeforeMoved ==
  ASSUME Steady, state \in {"T1", "T1I", "T2", "WAIT"}, state' \in {"T2", "WAIT", "T3"},
         phase' = "phase_21", WriteOK', EndOK',
         UNCHANGED <<program, address_stack, scratch_pad_memory, flags, hidden_registers>>,
         UNCHANGED <<memory_cycle, decoded_instruction, begun_by, bus, done>>
  PROVE  Steady'
<1> USE DEF Steady
<1>1. /\ Cycles' = Cycles /\ Running' = Running /\ First' = First /\ Start' = Start
      /\ Returns' = Returns /\ From' = From
      /\ BeforeData /\ BeforeData' /\ ~AfterData'
  BY DEF Cycles, Running, First, Start, Returns, From, Jammed, AfterData, BeforeData, get_pc,
     Behind, Inc
<1>2. Forms' /\ RunningOK' /\ Counted'
  BY <1>1 DEF Forms, RunningOK, Counted
<1>3. FetchOK' /\ OperandOK(2)' /\ OperandOK(3)'
  BY <1>1 DEF FetchOK, OperandOK, AddressAt, PcBefore, Entry
<1>4. RingOK'
  BY <1>1 DEF RingOK, PcNow
<1>5. EmittedOK' /\ HiddenOK' /\ PadOK'
  BY <1>1 DEF EmittedOK, PcBefore, HiddenOK, PadOK
<1> QED
  BY <1>2, <1>3, <1>4, <1>5

(* Where a cycle's address comes from, as T1 and T2 see it. *)
LEMMA FromIs ==
  ASSUME CycleInv, state # "STOPPED", RunningOK, ~Ahead
  PROVE  /\ Kind = cycle_control /\ (cycle_control = "PCI" <=> memory_cycle = 0)
         /\ From = IF cycle_control = "PCI" THEN "PC" ELSE CycleOf(decoded_instruction).address
         /\ From \in {"PC", "HL", "A_b"}
<1>1. /\ memory_cycle \in 0 .. 2 /\ memory_cycle + 1 \in DOMAIN Cycles
      /\ Shape(decoded_instruction.name, Cycles, memory_cycle + 1)
      /\ Kind = cycle_control
  BY RunningIs
<1>2. cycle_control = "PCI" <=> memory_cycle = 0
  BY <1>1 DEF Kind, Running, Shape, KindOf
<1>3. CycleOf(decoded_instruction) = Running
  BY DEF CycleOf, Running, Cycles
<1>4. Running.address \in {"PC", "HL", "A_b"}
  BY <1>1 DEF Running, Shape, KindOf
<1> QED
  BY <1>1, <1>2, <1>3, <1>4 DEF From

(* STATE events that only wait. *)
LEMMA StaySettled ==
  ASSUME Settled, CycleInv, CPUEnterState, next_state = "none"
  PROVE  Settled'
<1>1. phase = "state" /\ phase' = "phase_21" /\ state' = state /\ state \in {"WAIT", "STOPPED"}
  BY DEF CPUEnterState, EnterState, StateAfter, CycleInv, NextFollows
<1>2. UNCHANGED <<program, registers, gar, begun_by, bus, done, decoded_instruction>>
  BY DEF CPUEnterState, EnterState, Record, BeginsInstruction
<1>3. UNCHANGED <<memory_cycle, cycle_ended, next_cycle_control>>
  BY DEF CPUEnterState, EnterState, EnterT1, EnterT3Write, EnterT4, EnterT5, EnterOther
<1>4. BeforeData' <=> BeforeData
  BY <1>1 DEF BeforeData
<1>5. Steady'
  BY <1>1, <1>2, <1>3, <1>4, SteadyUnmoved DEF Settled
<1>6. From' = From /\ Kind' = Kind
  BY <1>1, <1>2, <1>3 DEF From, Kind, Running, Cycles
<1>7. AddressOK'
  BY <1>1, <1>2, <1>4, <1>6 DEF Settled, AddressOK, Low8, High6, registers
<1> QED
  BY <1>5, <1>7 DEF Settled

LEMMA EnterT2Settled ==
  ASSUME Settled, CycleInv, CPUEnterState, next_state = "T2"
  PROVE  Settled'
<1>1. phase = "state" /\ phase' = "phase_21" /\ state' = "T2" /\ state \in {"T1", "T1I"} /\ ~Ahead
  BY DEF CPUEnterState, EnterState, StateAfter, CycleInv, NextFollows, Ahead
<1>2. UNCHANGED <<program, gar, begun_by, bus, done, decoded_instruction>>
  BY DEF CPUEnterState, EnterState, Record, BeginsInstruction
<1>3. UNCHANGED <<memory_cycle, cycle_ended, next_cycle_control>>
  BY DEF CPUEnterState, EnterState, EnterT1, EnterT3Write, EnterT4, EnterT5, EnterOther
<1>4. ExecuteT2
  BY DEF CPUEnterState
<1>5. UNCHANGED <<address_stack, scratch_pad_memory, flags, hidden_registers>>
  BY <1>4 DEF ExecuteT2
<1>6. Steady'
  <2>1. WriteOK' /\ EndOK'
    BY <1>1 DEF WriteOK, EndOK, AfterData
  <2> QED
    BY <1>1, <1>2, <1>3, <1>5, <2>1, BeforeMoved DEF Settled
<1>7. From' = From /\ Kind' = Kind /\ Low8' = Low8 /\ High6' = High6
  BY <1>1, <1>2, <1>3, <1>5 DEF From, Kind, Running, Cycles, Low8, High6
<1>8. io_data_latch' = High6
  BY <1>1, <1>4, FromIs DEF ExecuteT2, High6, Settled, Steady
<1>9. gar.low = Low8
  BY <1>1 DEF Settled, AddressOK, BeforeData, Latched
<1>10. AddressOK'
  BY <1>1, <1>2, <1>7, <1>8, <1>9 DEF Settled, AddressOK, Latched
<1> QED
  BY <1>6, <1>10 DEF Settled

LEMMA EnterWaitSettled ==
  ASSUME Settled, CycleInv, CPUEnterState, next_state = "WAIT"
  PROVE  Settled'
<1>1. phase = "state" /\ phase' = "phase_21" /\ state' = "WAIT" /\ state = "T2"
  BY DEF CPUEnterState, EnterState, StateAfter, CycleInv, NextFollows
<1>2. UNCHANGED <<program, registers, gar, begun_by, bus, done, decoded_instruction>>
  BY DEF CPUEnterState, EnterState, Record, BeginsInstruction
<1>3. UNCHANGED <<memory_cycle, cycle_ended, next_cycle_control>>
  BY DEF CPUEnterState, EnterState, EnterT1, EnterT3Write, EnterT4, EnterT5, EnterOther
<1>4. Steady'
  <2>1. WriteOK' /\ EndOK'
    BY <1>1 DEF WriteOK, EndOK
  <2> QED
    BY <1>1, <1>2, <1>3, <2>1, BeforeMoved DEF Settled, registers
<1>5. From' = From /\ Kind' = Kind /\ Low8' = Low8 /\ High6' = High6
  BY <1>2, <1>3 DEF From, Kind, Running, Cycles, Low8, High6, registers
<1>6. gar.low = Low8 /\ gar.high = High6 % 64 /\ gar.control = Kind
  BY <1>1 DEF Settled, AddressOK, BeforeData, Latched
<1>7. AddressOK'
  BY <1>1, <1>2, <1>5, <1>6 DEF Settled, AddressOK
<1> QED
  BY <1>4, <1>7 DEF Settled

LEMMA EnterT3Settled ==
  ASSUME Settled, CycleInv, CPUEnterState, next_state = "T3"
  PROVE  Settled'
<1>1. /\ phase = "state" /\ phase' = "phase_21" /\ state' = "T3" /\ state \in {"T2", "WAIT"}
      /\ ~Ahead
  BY DEF CPUEnterState, EnterState, StateAfter, CycleInv, NextFollows, Ahead
<1>2. UNCHANGED <<program, gar, begun_by, bus, done, decoded_instruction>>
  BY DEF CPUEnterState, EnterState, Record, BeginsInstruction
<1>3. UNCHANGED memory_cycle
  BY DEF CPUEnterState, EnterState, EnterT1, EnterT3Write, EnterT4, EnterT5, EnterOther
<1>4. UNCHANGED <<address_stack, scratch_pad_memory, flags, hidden_registers>>
  BY DEF CPUEnterState, ExecuteT3Write, registers
<1>5. /\ Kind = cycle_control /\ memory_cycle \in 0 .. 2 /\ memory_cycle + 1 \in DOMAIN Cycles
      /\ Shape(decoded_instruction.name, Cycles, memory_cycle + 1)
  BY <1>1, RunningIs DEF Settled, Steady
<1>6. Cycles' = Cycles /\ Running' = Running /\ From' = From /\ Kind' = Kind
  BY <1>2, <1>3 DEF From, Kind, Running, Cycles
<1>7. Low8' = Low8 /\ High6' = High6 /\ Early' = Early
      /\ ControlAfter(decoded_instruction)' = ControlAfter(decoded_instruction)
  BY <1>2, <1>3, <1>4, <1>6 DEF Low8, High6, Early, Met, ControlAfter
<1>8. ~AfterData'
  BY <1>1 DEF AfterData, BeforeData
<1>9. WriteOK' /\ EndOK'
  <2>1. CASE Kind = "PCW"
    <3>1. ExecuteT3Write /\ ChecksCycleEnd(decoded_instruction, "T3", TRUE)
      BY <1>5, <2>1 DEF CPUEnterState, EnterState, EnterT1, EnterT3Write, EnterT4, EnterT5,
         EnterOther
    <3>2. io_data_latch' = hidden_registers.b
      BY <3>1 DEF ExecuteT3Write
    <3>3. Running.conditional = FALSE
      BY <1>5, <2>1 DEF Shape, DataOf, Kind, Running
    <3>4. CycleOf(decoded_instruction) = Running
      BY DEF CycleOf, Running, Cycles
    <3>5. (cycle_ended' <=> Running.last = "T3")
          /\ (Running.last = "T3" => next_cycle_control' = ControlAfter(decoded_instruction))
      BY <3>1, <3>3, <3>4 DEF ChecksCycleEnd
    <3>6. ~Early
      BY <3>3 DEF Early
    <3> QED
      BY <1>1, <1>4, <1>6, <1>7, <3>2, <3>5, <3>6 DEF WriteOK, EndOK
  <2>2. CASE Kind # "PCW"
    BY <1>1, <1>6, <1>8, <2>2 DEF WriteOK, EndOK
  <2> QED
    BY <2>1, <2>2
<1>10. Steady'
  BY <1>1, <1>2, <1>3, <1>4, <1>9, BeforeMoved DEF Settled
<1>11. gar.low = Low8 /\ gar.high = High6 % 64 /\ gar.control = Kind
  BY <1>1 DEF Settled, AddressOK, BeforeData, Latched
<1>12. AddressOK'
  BY <1>1, <1>2, <1>6, <1>7, <1>11 DEF Settled, AddressOK
<1> QED
  BY <1>10, <1>12 DEF Settled

(* The instruction that HLT stops is recorded. *)
LEMMA StoppedSettled ==
  ASSUME Settled, CycleInv, DecidedOK, CPUEnterState, next_state = "STOPPED"
  PROVE  Settled'
<1> USE DEF Settled, Steady
<1>1. /\ phase = "state" /\ phase' = "phase_21" /\ state' = "STOPPED" /\ state = "T3"
      /\ UNCHANGED decoded_instruction
  BY DEF CPUEnterState, EnterState, StateAfter, DecidedOK
<1>2. AfterData /\ ~BeforeData' /\ ~AfterData'
  BY <1>1 DEF AfterData, BeforeData
<1>3. memory_cycle \in 0 .. 2 /\ Len(bus) = memory_cycle + 1
  BY <1>1, <1>2, RunningIs DEF Counted
<1>4. bus # <<>>
  BY <1>3
<1>5. /\ bus' = <<>>
      /\ done' = [stack |-> address_stack, reg |-> scratch_pad_memory, flags |-> flags, bus |-> bus]
      /\ UNCHANGED <<program, registers, gar>>
  BY <1>1, <1>4 DEF CPUEnterState, Record, BeginsInstruction
<1>6. /\ done'.stack = address_stack /\ done'.reg = scratch_pad_memory /\ done'.flags = flags
      /\ Start' = get_pc(address_stack) /\ Returns' = Behind(address_stack)
      /\ get_pc(address_stack)' = get_pc(address_stack)
      /\ Behind(address_stack)' = Behind(address_stack)
  BY <1>5 DEF Start, Returns, get_pc, Behind, registers
<1>7. Forms' /\ RunningOK'
  BY <1>1, <1>5, <1>6 DEF Forms, RunningOK, registers
<1>8. Counted' /\ FetchOK' /\ OperandOK(2)' /\ OperandOK(3)'
  BY <1>2, <1>5 DEF Counted, FetchOK, OperandOK
<1>9. RingOK'
  BY <1>1, <1>6 DEF RingOK
<1>10. EmittedOK' /\ HiddenOK' /\ WriteOK'
  BY <1>2, <1>5 DEF EmittedOK, HiddenOK, WriteOK
<1>11. PadOK' /\ EndOK'
  BY <1>1, <1>5, <1>6 DEF PadOK, EndOK, registers
<1>12. AddressOK'
  BY <1>2, <1>5 DEF AddressOK
<1> QED
  BY <1>7, <1>8, <1>9, <1>10, <1>11, <1>12

(* What is recorded when the next instruction begins. *)
LEMMA Recorded ==
  ASSUME Settled, CycleInv, DecidedOK, CPUEnterState, BeginsInstruction
  PROVE  /\ bus' = <<>>
         /\ done'.stack \in Rings
         /\ get_pc(done'.stack) = get_pc(address_stack)
         /\ Behind(done'.stack) = Behind(address_stack)
         /\ done'.reg = scratch_pad_memory /\ done'.flags = flags
<1> USE DEF Settled, Steady
<1>1. phase = "state" /\ next_state \in {"T1", "T1I"} /\ state \in {"STOPPED", "T3", "T4", "T5"}
  BY DEF CPUEnterState, EnterState, BeginsInstruction, DecidedOK
<1>2. CASE bus # <<>>
  <2>1. /\ bus' = <<>>
        /\ done' = [stack |-> address_stack, reg |-> scratch_pad_memory, flags |-> flags, bus |-> bus]
    BY <1>2 DEF CPUEnterState, Record
  <2> QED
    BY <2>1 DEF Forms
<1>3. CASE bus = <<>>
  <2>1. bus' = bus /\ done' = done
    BY <1>3 DEF CPUEnterState, Record
  <2>2. state = "STOPPED"
    <3>1. SUFFICES ASSUME state # "STOPPED" PROVE FALSE
      OBVIOUS
    <3>2. AfterData /\ memory_cycle \in 0 .. 2
      BY <1>1, <3>1, RunningIs DEF AfterData, BeforeData
    <3> QED
      BY <1>3, <3>2 DEF Counted
  <2> QED
    BY <1>3, <2>1, <2>2 DEF Forms, RingOK, PadOK, Start, Returns
<1> QED
  BY <1>2, <1>3

LEMMA BeginSettled ==
  ASSUME Settled, IInv, CycleInv, DecidedOK, CPUEnterState, BeginsInstruction
  PROVE  Settled'
<1> USE DEF Settled, Steady
<1>1. /\ phase' = "phase_21" /\ state' = next_state /\ next_state \in {"T1", "T1I"}
      /\ cycle_control = "PCI" /\ memory_cycle' = 0 /\ cycle_ended' = FALSE
      /\ UNCHANGED <<program, gar, decoded_instruction>>
      /\ ExecuteT1
  BY DEF CPUEnterState, EnterState, StateAfter, BeginsInstruction, EnterT1, EnterT3Write, EnterT4,
     EnterT5, EnterOther
<1>2. begun_by' = next_state
  BY <1>1 DEF CPUEnterState, Record
<1>3. BeforeData' /\ ~AfterData' /\ ~Latched'
  BY <1>1 DEF BeforeData, AfterData, Latched
<1>4. /\ bus' = <<>>
      /\ done'.stack \in Rings
      /\ Start' = get_pc(address_stack) /\ Returns' = Behind(address_stack)
      /\ done'.reg = scratch_pad_memory /\ done'.flags = flags
  BY Recorded DEF Start, Returns, get_pc, Behind
<1>5. UNCHANGED <<scratch_pad_memory, flags, hidden_registers>>
  BY <1>1 DEF ExecuteT1
<1>6. /\ address_stack' = IF next_state = "T1I" THEN get_low_pc_no_inc(address_stack)
                                                 ELSE get_low_pc_and_inc(address_stack)
      /\ io_data_latch' = emitted_low(address_stack')
  BY <1>1 DEF ExecuteT1, KeepsPC
<1>7. Jammed' <=> next_state = "T1I"
  BY <1>2, <1>4 DEF Jammed
<1>8. address_stack \in Rings
  BY DEF Forms
<1>9. /\ address_stack' \in Rings /\ address_stack'.emitted_pc = Start'
      /\ get_pc(address_stack') = IF Jammed' THEN Start' ELSE Inc(Start')
      /\ Behind(address_stack') = Returns'
  BY <1>4, <1>6, <1>7, <1>8, Incremented, NotIncremented
<1>10. First' = IF Jammed' THEN Start' ELSE Inc(Start')
  BY DEF First, Inc
<1>11. get_pc(address_stack)' = First' /\ Behind(address_stack)' = Returns'
  BY <1>9, <1>10 DEF get_pc, Behind
<1>12. Forms'
  BY <1>1, <1>4, <1>5, <1>9 DEF Forms
<1>13. RunningOK'
  <2>1. decoded_instruction \in Decoded /\ decoded_instruction.name \in InstructionName
    BY DecodedHasCycles DEF CycleInv, CycleTyped
  <2>2. 1 \in DOMAIN Cycles
    BY <2>1, ThreeCycles DEF Cycles
  <2>3. Cycles' = Cycles
    BY <1>1 DEF Cycles
  <2> QED
    BY <1>1, <2>2, <2>3 DEF RunningOK
<1>14. Counted' /\ FetchOK' /\ OperandOK(2)' /\ OperandOK(3)'
  BY <1>1, <1>3, <1>4 DEF Counted, FetchOK, OperandOK
<1>15. RingOK'
  BY <1>1, <1>11 DEF RingOK, PcNow
<1>16. From' = "PC" /\ Low8' = address_stack'.emitted_pc % 256
  BY <1>1 DEF From, Low8
<1>17. EmittedOK' /\ HiddenOK' /\ WriteOK'
  BY <1>1, <1>4, <1>9 DEF EmittedOK, PcBefore, HiddenOK, WriteOK
<1>18. PadOK' /\ EndOK'
  BY <1>1, <1>3, <1>4, <1>5 DEF PadOK, EndOK
<1>19. AddressOK'
  BY <1>1, <1>3, <1>6, <1>16 DEF AddressOK, emitted_low
<1> QED
  BY <1>12, <1>13, <1>14, <1>15, <1>17, <1>18, <1>19

(* Register b is only loaded in the T4 of a fetch that another cycle follows *)
(* in LMr, and that T4 ends the cycle.                                       *)
LEMMA SourceThenCycle ==
  ASSUME NEW name \in InstructionName, 2 \in DOMAIN instruction_table[name],
         instruction_table[name][1].t4 = "Source_to_Reg_b"
  PROVE  instruction_table[name][1].last = "T4"
<1> DEFINE cycles == instruction_table[name]
           Short == {"Lrr", "INr", "DCr", "ALU_OPr", "RLC", "RRC", "RAL", "RAR", "HLT", "UNKNOWN",
                     "RET", "RFc", "RTc", "RST"}
           Plain == {"LrM", "LrI", "ALU_OPM", "ALU_OPI", "INP", "OUT", "LMI",
                     "JMP", "JFc", "JTc", "CAL", "CFc", "CTc"}
<1>1. InstructionName = Short \cup Plain \cup {"LMr"}
  BY DEF InstructionName, instruction_table
<1>2. CASE name \in Short
  <2>1. DOMAIN cycles = {1}
    BY <1>2 DEF instruction_table, Lrr, Rotate, FetchOnly, Fetch, Cycle, Return
  <2> QED
    BY <2>1
<1>3. CASE name \in Plain
  <2>1. cycles[1] = FetchOnly
    BY <1>3 DEF instruction_table, Jump, JumpIf
  <2>2. FetchOnly.t4 = "IDLE"
    BY DEF FetchOnly, Fetch, Cycle
  <2> QED
    BY <2>1, <2>2
<1>4. CASE name = "LMr"
  <2>1. cycles[1] = Fetch("Source_to_Reg_b", "IDLE", "T4")
    BY <1>4 DEF instruction_table
  <2> QED
    BY <2>1 DEF Fetch, Cycle
<1> QED
  BY <1>1, <1>2, <1>3, <1>4

(* The T1 of an instruction's second or third cycle. *)
LEMMA NextCycleBegins ==
  ASSUME Settled, IInv, CycleInv, DecidedOK, CPUEnterState, next_state \in {"T1", "T1I"},
         cycle_control # "PCI"
  PROVE  /\ next_state = "T1" /\ phase = "state" /\ AfterData
         /\ memory_cycle \in 0 .. 1 /\ memory_cycle + 2 \in DOMAIN Cycles
         /\ \/ state = "T3" /\ Running.last = "T3"
            \/ state = "T4" /\ Running.last = "T4"
         /\ Running.t4 \notin Moves \/ state = "T3"
         /\ memory_cycle = 1 => Cycles[2].address = "PC"
<1> USE DEF Settled, Steady
<1>1. next_state = "T1" /\ phase = "state" /\ state # "STOPPED" /\ Ahead
  BY DEF CPUEnterState, EnterState, IInv, DecidedBetweenInstructions, Ahead
<1>2. /\ state \in {"T3", "T4"} /\ cycle_ended /\ cycle_control = next_cycle_control
  BY <1>1 DEF DecidedOK
<1>3. AfterData
  BY <1>1, <1>2 DEF AfterData, BeforeData
<1>4. /\ memory_cycle \in 0 .. 2 /\ memory_cycle + 1 \in DOMAIN Cycles
      /\ DOMAIN Cycles = 1 .. Len(Cycles) /\ Len(Cycles) \in 1 .. 3
      /\ \A k \in DOMAIN Cycles : Shape(decoded_instruction.name, Cycles, k)
  BY <1>1, RunningIs
<1>5. memory_cycle + 2 \in DOMAIN Cycles /\ memory_cycle \in 0 .. 1
  <2>1. Is(decoded_instruction, memory_cycle + 1, cycle_control)
    BY <1>1 DEF CycleInv, TableFollowed, Follows
  <2>2. memory_cycle + 2 \in DOMAIN Cycles
    BY <1>4, <2>1 DEF Is, Cycles
  <2> QED
    BY <1>4, <2>2
<1>6. \/ state = "T3" /\ Running.last = "T3"
      \/ state = "T4" /\ Running.last = "T4"
  BY <1>2, <1>3 DEF EndOK
<1>7. Running.t4 \notin Moves \/ state = "T3"
  BY <1>4, <1>6 DEF Shape, MovesOf, Running
<1>8. memory_cycle = 1 => Cycles[2].address = "PC"
  <2>1. memory_cycle = 1 => KindOf(Cycles, 3)
    BY <1>4, <1>5 DEF Shape
  <2> QED
    BY <2>1 DEF KindOf
<1> QED
  BY <1>1, <1>3, <1>5, <1>6, <1>7, <1>8

LEMMA CycleSettled ==
  ASSUME Settled, IInv, CycleInv, DecidedOK, CPUEnterState, next_state \in {"T1", "T1I"},
         cycle_control # "PCI"
  PROVE  Settled'
<1> USE DEF Settled, Steady
<1>1. /\ phase = "state" /\ AfterData /\ next_state = "T1"
      /\ memory_cycle \in 0 .. 1 /\ memory_cycle + 2 \in DOMAIN Cycles
      /\ state \in {"T3", "T4"} /\ (Running.t4 \notin Moves \/ state = "T3")
      /\ memory_cycle = 1 => Cycles[2].address = "PC"
  BY NextCycleBegins
<1>2. /\ phase' = "phase_21" /\ state' = "T1" /\ memory_cycle' = memory_cycle + 1
      /\ UNCHANGED <<program, gar, decoded_instruction, bus, done>>
      /\ begun_by' = "T1"
      /\ ExecuteT1
  BY <1>1 DEF CPUEnterState, EnterState, StateAfter, EnterT1, EnterT3Write, EnterT4, EnterT5,
     EnterOther, Record, BeginsInstruction
<1>3. BeforeData' /\ ~AfterData' /\ ~Latched'
  BY <1>2 DEF BeforeData, AfterData, Latched
<1>4. UNCHANGED <<scratch_pad_memory, flags, hidden_registers>>
  BY <1>2 DEF ExecuteT1
<1>5. /\ Cycles' = Cycles /\ Running' = Cycles[memory_cycle + 2] /\ Start' = Start
      /\ Returns' = Returns
  BY <1>1, <1>2 DEF Cycles, Running, Start, Returns, get_pc, Behind
<1>6. Len(bus) = memory_cycle + 1 /\ bus # <<>>
  BY <1>1 DEF Counted
<1>7. Jammed' = Jammed /\ First' = First
  BY <1>2, <1>5, <1>6 DEF Jammed, First, Inc
<1>8. From' = Cycles[memory_cycle + 2].address
  BY <1>1, <1>2, <1>5 DEF From
<1>9. From' \in {"PC", "HL", "A_b"}
  <2>1. KindOf(Cycles, memory_cycle + 2)
    BY <1>1, RunningIs DEF Shape
  <2> QED
    BY <1>8, <2>1 DEF KindOf
<1>10. /\ address_stack' = IF From' = "PC" THEN get_low_pc_and_inc(address_stack) ELSE address_stack
       /\ io_data_latch' = CASE From' = "PC" -> emitted_low(address_stack')
                             [] From' = "HL" -> scratch_pad_memory[L]
                             [] From' = "A_b" -> scratch_pad_memory[A]
  <2>1. instruction_table[decoded_instruction.name][memory_cycle' + 1].address = From'
    BY <1>1, <1>2, <1>8 DEF Cycles
  <2> QED
    BY <1>2, <2>1 DEF ExecuteT1, KeepsPC
<1>11. get_pc(address_stack) = PcNow /\ Behind(address_stack) = Returns /\ address_stack \in Rings
  BY <1>1 DEF RingOK, Forms
<1>12. PcNow = PcBefore(memory_cycle + 2)
  BY <1>1 DEF PcNow, PcBefore
<1>13. /\ address_stack' \in Rings
       /\ From' = "PC" => address_stack'.emitted_pc = PcBefore(memory_cycle + 2)
       /\ get_pc(address_stack') = IF From' = "PC" THEN Inc(PcNow) ELSE PcNow
       /\ Behind(address_stack') = Returns
  BY <1>10, <1>11, <1>12, Incremented
<1>14. Forms' /\ RunningOK'
  BY <1>1, <1>2, <1>4, <1>5, <1>13 DEF Forms, RunningOK
<1>15. Counted'
  BY <1>1, <1>2, <1>3, <1>6 DEF Counted
<1>16. FetchOK' /\ OperandOK(2)' /\ OperandOK(3)'
  BY <1>2, <1>5, <1>7 DEF FetchOK, OperandOK, AddressAt, PcBefore, Entry
<1>17. PcNow' = IF From' = "PC" THEN Inc(PcNow) ELSE PcNow
  BY <1>1, <1>2, <1>5, <1>7, <1>8 DEF PcNow, Inc
<1>18. get_pc(address_stack)' = PcNow' /\ Behind(address_stack)' = Returns'
  BY <1>5, <1>13, <1>17 DEF get_pc, Behind
<1>19. RingOK'
  BY <1>2, <1>18 DEF RingOK
<1>20. EmittedOK'
  BY <1>1, <1>2, <1>5, <1>7, <1>13 DEF EmittedOK, PcBefore, Inc
<1>21. HiddenOK'
  <2>1. CASE memory_cycle = 0
    <3>1. Running = Cycles[1]
      BY <2>1 DEF Running
    <3>2. Cycles[1].t4 = "Source_to_Reg_b" => state = "T4"
      <4>1. decoded_instruction.name \in InstructionName
        BY <1>1, RunningIs
      <4>2. Cycles[1].t4 = "Source_to_Reg_b" => Cycles[1].last = "T4"
        BY <1>1, <2>1, <4>1, SourceThenCycle DEF Cycles
      <4> QED
        BY <2>1, <3>1, <4>2, NextCycleBegins
    <3> QED
      BY <1>2, <1>4, <1>5, <1>6, <2>1, <3>2 DEF HiddenOK
  <2>2. CASE memory_cycle = 1
    BY <1>2, <1>4, <1>5, <1>6, <2>2 DEF HiddenOK
  <2> QED
    BY <1>1, <2>1, <2>2
<1>22. WriteOK' /\ EndOK'
  BY <1>2 DEF WriteOK, EndOK
<1>23. PadOK'
  BY <1>1, <1>2, <1>4 DEF PadOK
<1>24. AddressOK'
  <2>1. io_data_latch' = Low8'
    BY <1>4, <1>9, <1>10 DEF Low8, emitted_low
  <2> QED
    BY <1>2, <1>3, <2>1 DEF AddressOK
<1> QED
  BY <1>14, <1>15, <1>16, <1>19, <1>20, <1>21, <1>22, <1>23, <1>24

Rotations == {"RLC", "RRC", "RAL", "RAR"}

LEMMA PartsOfDecoded ==
  ASSUME NEW instruction \in Decoded
  PROVE  /\ instruction.medium \in 0 .. 7 /\ instruction.low \in 0 .. 7
         /\ instruction.name \in Rotations => instruction.medium \in 0 .. 3
<1>1. PICK opcode \in Opcode : instruction = Decoding[opcode]
  BY DEF Decoded
<1> DEFINE m == Medium(opcode)
           l == Low(opcode)
           M == Matching(opcode)
<1>2. m \in 0 .. 7 /\ l \in 0 .. 7
  BY PartsOfOpcode
<1>3. CASE M = {}
  BY <1>1, <1>3 DEF Decoding, decode_instruction, unknown_instruction, Rotations
<1>4. CASE M # {}
  <2>1. PICK i \in M :
           Decoding[opcode] =
                IF decoding_table[i].name = "UNKNOWN" THEN unknown_instruction
                ELSE [name |-> decoding_table[i].name, medium |-> m, low |-> l]
    BY <1>4, FirstMatches
  <2>2. i \in Rows /\ m \in decoding_table[i].medium
    BY RowsOfTable DEF Matching
  <2>3. CASE decoding_table[i].name = "UNKNOWN"
    BY <1>1, <2>1, <2>3 DEF unknown_instruction, Rotations
  <2>4. CASE decoding_table[i].name # "UNKNOWN"
    <3> HIDE DEF m, l, M
    <3>1. instruction = [name |-> decoding_table[i].name, medium |-> m, low |-> l]
      BY <1>1, <2>1, <2>4
    <3>2. decoding_table[i].name \in Rotations => i \in 15 .. 18
      BY <2>2, RowsAre DEF Rows, Row, Rotations
    <3>3. i \in 15 .. 18 => decoding_table[i].medium \subseteq 0 .. 3
      BY RowsAre DEF Row
    <3> QED
      BY <1>2, <2>2, <3>1, <3>2, <3>3
  <2> QED
    BY <2>3, <2>4
<1> QED
  BY <1>3, <1>4

(* What the T5 of an instruction's last cycle does, by the instruction. *)
ActionIs(name, t5) ==
  /\ name \in {"Lrr", "LrI", "LrM", "UNKNOWN"} => t5 = "Reg_b_to_Destination"
  /\ name = "INr" => t5 = "Inc_Destination"
  /\ name = "DCr" => t5 = "Dec_Destination"
  /\ name \in {"ALU_OPr", "ALU_OPI", "ALU_OPM"} => t5 = "ALU_Operation_With_RegB"
  /\ name \in Rotations => t5 = "Rotate_A"
  /\ name = "INP" => t5 = "Reg_b_to_A"
  /\ name \notin {"Lrr", "LrI", "LrM", "UNKNOWN", "INr", "DCr", "ALU_OPr", "ALU_OPI", "ALU_OPM",
                  "RLC", "RRC", "RAL", "RAR", "INP"} =>
       t5 \in {"IDLE", "Reg_b_to_PC_L", "Reg_b_to_PC_L_3_to_5"}

LEMMA ActionOfT5 ==
  ASSUME NEW name \in InstructionName, NEW k \in DOMAIN instruction_table[name],
         instruction_table[name][k].last = "T5"
  PROVE  /\ ActionIs(name, instruction_table[name][k].t5)
         /\ name = "UNKNOWN" => k = 1 /\ instruction_table[name][k].t4 = "Source_to_Reg_b"
<1> DEFINE cycles == instruction_table[name]
           One == {"INr", "DCr", "ALU_OPr", "RLC", "RRC", "RAL", "RAR", "HLT", "RET", "RFc", "RTc", "RST"}
           Two == {"LrM", "LMr", "LrI", "ALU_OPM", "ALU_OPI", "INP", "OUT"}
           Long == {"JMP", "JFc", "JTc", "CAL", "CFc", "CTc", "LMI"}
<1>1. InstructionName = {"Lrr", "UNKNOWN"} \cup One \cup Two \cup Long
  BY DEF InstructionName, instruction_table
<1>2. k = Len(cycles)
  BY TableShape DEF Shape, EndOf
<1>3. CASE name \in {"Lrr", "UNKNOWN"}
  <2>1. Len(cycles) = 1 /\ cycles[1].t5 = "Reg_b_to_Destination" /\ cycles[1].t4 = "Source_to_Reg_b"
    BY <1>3 DEF instruction_table, Lrr, Fetch, Cycle
  <2> HIDE DEF cycles
  <2>2. k = 1 /\ cycles[k].t5 = "Reg_b_to_Destination" /\ cycles[k].t4 = "Source_to_Reg_b"
    BY <1>2, <2>1
  <2>3. ActionIs(name, cycles[k].t5)
    BY <1>3, <2>2 DEF ActionIs, Rotations
  <2> QED
    BY <2>2, <2>3 DEF cycles
<1>4. CASE name \in One
  <2>1. /\ Len(cycles) = 1
        /\ name = "INr" => cycles[1].t5 = "Inc_Destination"
        /\ name = "DCr" => cycles[1].t5 = "Dec_Destination"
        /\ name = "ALU_OPr" => cycles[1].t5 = "ALU_Operation_With_RegB"
        /\ name \in {"RLC", "RRC", "RAL", "RAR"} => cycles[1].t5 = "Rotate_A"
        /\ name \in {"HLT", "RET", "RFc", "RTc"} => cycles[1].t5 = "IDLE"
        /\ name = "RST" => cycles[1].t5 = "Reg_b_to_PC_L_3_to_5"
    BY <1>4 DEF instruction_table, Rotate, FetchOnly, Return, Conditional, Fetch, Cycle
  <2> HIDE DEF cycles
  <2>2. ActionIs(name, cycles[1].t5)
    BY <1>4, <2>1 DEF ActionIs, Rotations
  <2> QED
    BY <1>2, <1>4, <2>1, <2>2 DEF cycles
<1>5. CASE name \in Two
  <2>1. /\ Len(cycles) = 2
        /\ name \in {"LrM", "LrI"} => cycles[2].t5 = "Reg_b_to_Destination"
        /\ name \in {"ALU_OPM", "ALU_OPI"} => cycles[2].t5 = "ALU_Operation_With_RegB"
        /\ name = "INP" => cycles[2].t5 = "Reg_b_to_A"
        /\ name \in {"LMr", "OUT"} => cycles[2].t5 = "IDLE"
    BY <1>5 DEF instruction_table, Read, Write, Cycle
  <2> HIDE DEF cycles
  <2>2. ActionIs(name, cycles[2].t5)
    BY <1>5, <2>1 DEF ActionIs, Rotations
  <2> QED
    BY <1>2, <1>5, <2>1, <2>2 DEF cycles
<1>6. CASE name \in Long
  <2>1. Len(cycles) = 3 /\ cycles[3].t5 \in {"IDLE", "Reg_b_to_PC_L"}
    BY <1>6 DEF instruction_table, Jump, JumpIf, ReadHigh, Conditional, Write, Cycle
  <2> HIDE DEF cycles
  <2>2. ActionIs(name, cycles[3].t5)
    BY <1>6, <2>1 DEF ActionIs, Rotations
  <2> QED
    BY <1>2, <1>6, <2>1, <2>2 DEF cycles
<1> QED
  BY <1>1, <1>3, <1>4, <1>5, <1>6

(* T4 and T5. *)
LEMMA AfterMoved ==
  ASSUME Settled, AfterData, memory_cycle \in 0 .. 2, state' \in {"T4", "T5"},
         UNCHANGED <<program, gar, memory_cycle, decoded_instruction, bus, done>>,
         address_stack' \in Rings,
         scratch_pad_memory' = [r \in Register |-> scratch_pad_memory'[r]],
         hidden_registers' = [a |-> hidden_registers'.a, b |-> hidden_registers'.b],
         RingOK', HiddenOK', PadOK', EndOK'
  PROVE  Settled'
<1> USE DEF Settled, Steady
<1>1. AfterData' /\ ~BeforeData'
  BY DEF AfterData, BeforeData
<1>2. bus # <<>>
  <2>1. CASE bus = <<>>
    <3>1. /\ memory_cycle + 1 = Len(bus) /\ Len(bus) = 0
      BY <2>1 DEF Counted
    <3> QED
      BY <3>1, <2>1
  <2> QED
    BY <2>1
<1>3. /\ Cycles' = Cycles /\ Running' = Running /\ First' = First /\ Start' = Start
      /\ Returns' = Returns
  BY <1>2 DEF Cycles, Running, First, Start, Returns, Jammed, get_pc, Behind, Inc
<1>4. Forms' /\ RunningOK' /\ Counted'
  BY <1>1, <1>3 DEF Forms, RunningOK, Counted, AfterData
<1>5. FetchOK' /\ OperandOK(2)' /\ OperandOK(3)'
  BY <1>3 DEF FetchOK, OperandOK, AddressAt, PcBefore, Entry
<1>6. EmittedOK' /\ WriteOK' /\ AddressOK'
  BY <1>1 DEF EmittedOK, WriteOK, AddressOK
<1> QED
  BY <1>4, <1>5, <1>6

(* What the T4 of a cycle that goes on knows. *)
LEMMA GoesOn ==
  ASSUME Settled, CycleInv, DecidedOK, CPUEnterState, next_state \in {"T4", "T5"}
  PROVE  /\ phase = "state" /\ phase' = "phase_21" /\ state' = next_state
         /\ state = IF next_state = "T4" THEN "T3" ELSE "T4"
         /\ AfterData /\ AfterData' /\ ~BeforeData' /\ Len(bus) = memory_cycle + 1 /\ bus # <<>>
         /\ UNCHANGED <<program, gar, memory_cycle, decoded_instruction, bus, done>>
         /\ Cycles' = Cycles /\ Running' = Running /\ Start' = Start /\ First' = First
         /\ Returns' = Returns /\ PcNow' = PcNow /\ (Early' <=> Early)
         /\ ControlAfter(decoded_instruction)' = ControlAfter(decoded_instruction)
         /\ Running.last # "T3" /\ ~Early /\ ~cycle_ended
         /\ next_state = "T5" => Running.last # "T4"
         /\ CycleOf(decoded_instruction) = Running
         /\ decoded_instruction \in Decoded
         /\ decoded_instruction.name \in InstructionName
         /\ memory_cycle \in 0 .. 2 /\ memory_cycle + 1 \in DOMAIN Cycles
         /\ Running = Cycles[memory_cycle + 1]
         /\ \A k \in DOMAIN Cycles : Shape(decoded_instruction.name, Cycles, k)
         /\ DOMAIN Cycles = 1 .. Len(Cycles) /\ Len(Cycles) \in 1 .. 3
         /\ scratch_pad_memory = done.reg /\ flags = done.flags
<1> USE DEF Settled, Steady
<1>1. /\ phase = "state" /\ phase' = "phase_21" /\ state' = next_state
      /\ state = (IF next_state = "T4" THEN "T3" ELSE "T4") /\ ~cycle_ended
  BY DEF CPUEnterState, EnterState, StateAfter, DecidedOK
<1>2. AfterData /\ AfterData' /\ ~BeforeData'
  BY <1>1 DEF AfterData, BeforeData
<1>3. UNCHANGED <<program, gar, memory_cycle, decoded_instruction, bus, done>>
  BY <1>1 DEF CPUEnterState, EnterState, Record, BeginsInstruction, EnterT1, EnterT3Write,
     EnterT4, EnterT5, EnterOther
<1>4. /\ memory_cycle \in 0 .. 2 /\ memory_cycle + 1 \in DOMAIN Cycles
      /\ decoded_instruction.name \in InstructionName
      /\ \A k \in DOMAIN Cycles : Shape(decoded_instruction.name, Cycles, k)
      /\ DOMAIN Cycles = 1 .. Len(Cycles) /\ Len(Cycles) \in 1 .. 3
  BY <1>1, RunningIs
<1>5. Len(bus) = memory_cycle + 1 /\ bus # <<>>
  BY <1>2, <1>4 DEF Counted
<1>6. /\ Cycles' = Cycles /\ Running' = Running /\ Start' = Start /\ Returns' = Returns
      /\ First' = First
  BY <1>3, <1>5 DEF Cycles, Running, Start, Returns, First, Jammed, get_pc, Behind, Inc
<1>7. /\ PcNow' = PcNow /\ (Early' <=> Early)
      /\ ControlAfter(decoded_instruction)' = ControlAfter(decoded_instruction)
  BY <1>3, <1>6 DEF PcNow, Early, Met, ControlAfter
<1>8. Running.last # "T3" /\ ~Early /\ (next_state = "T5" => Running.last # "T4")
  BY <1>1, <1>2 DEF EndOK
<1>9. CycleOf(decoded_instruction) = Running /\ Running = Cycles[memory_cycle + 1]
  BY DEF CycleOf, Running, Cycles
<1>10. decoded_instruction \in Decoded
  BY DEF CycleInv, CycleTyped
<1>11. scratch_pad_memory = done.reg /\ flags = done.flags
  BY <1>1 DEF PadOK
<1> QED
  BY <1>1, <1>2, <1>3, <1>4, <1>5, <1>6, <1>7, <1>8, <1>9, <1>10, <1>11

(* The high byte that a T4 sets. *)
LEMMA HighByte ==
  ASSUME Settled, CycleInv, DecidedOK, CPUEnterState, next_state \in {"T4", "T5"},
         Running.t4 \in Moves
  PROVE  /\ hidden_registers.a \in Nat
         /\ hidden_registers.b \in Nat
         /\ Running.t4 = "Pop_Stack" => memory_cycle = 0
<1> USE DEF Settled, Steady
<1>1. /\ memory_cycle \in 0 .. 2 /\ Len(bus) = memory_cycle + 1 /\ bus # <<>>
      /\ Running = Cycles[memory_cycle + 1]
      /\ memory_cycle + 1 \in DOMAIN Cycles /\ DOMAIN Cycles = 1 .. Len(Cycles)
      /\ \A k \in DOMAIN Cycles : Shape(decoded_instruction.name, Cycles, k)
      /\ decoded_instruction.name \in InstructionName
  BY GoesOn
<1>2. MovesOf(decoded_instruction.name, Cycles, memory_cycle + 1)
  BY <1>1 DEF Shape
<1>3. memory_cycle \in {0, 2} /\ (Running.t4 = "Pop_Stack" => memory_cycle = 0)
  BY <1>1, <1>2 DEF MovesOf
<1>4. CASE memory_cycle = 0
  <2>1. Running = Cycles[1] /\ Cycles[1].t4 # "Source_to_Reg_b"
    BY <1>1, <1>4 DEF Moves
  <2>2. hidden_registers.a = 0 /\ hidden_registers.b = bus[1].data
    BY <1>1, <1>4, <2>1 DEF HiddenOK
  <2>3. bus[1].data \in Opcodes
    BY <1>1 DEF FetchOK
  <2>4. bus[1].data \in Opcode
    BY <2>3, OpcodesAssumption
  <2>5. bus[1].data \in Nat
    BY <2>4 DEF Opcode
  <2> QED
    BY <1>3, <2>2, <2>5
<1>5. CASE memory_cycle = 2
  <2>1. Cycles[3].control = "PCR" /\ Cycles[3].t3 = "Fetch_Data_to_Reg_a"
    BY <1>1, <1>2, <1>5 DEF MovesOf
  <2>2. Cycles[2].control = "PCR"
    BY <1>1, <1>5 DEF Shape, KindOf
  <2>3. hidden_registers.a = bus[3].data /\ hidden_registers.b = bus[2].data
    BY <1>1, <1>5, <2>1 DEF HiddenOK
  <2>4. bus[3].data \in Byte /\ bus[2].data \in Byte
    BY <1>1, <1>5, <2>1, <2>2 DEF OperandOK
  <2> QED
    BY <1>3, <2>3, <2>4 DEF Byte
<1> QED
  BY <1>3, <1>4, <1>5

LEMMA EnterT4Settled ==
  ASSUME Settled, CycleInv, DecidedOK, CPUEnterState, next_state = "T4"
  PROVE  Settled'
<1> USE DEF Settled, Steady
<1>1. /\ state = "T3" /\ state' = "T4" /\ Len(bus) = memory_cycle + 1 /\ AfterData
      /\ UNCHANGED <<program, gar, memory_cycle, decoded_instruction, bus, done>>
      /\ Cycles' = Cycles /\ Running' = Running /\ Start' = Start /\ First' = First
      /\ Returns' = Returns /\ PcNow' = PcNow /\ (Early' <=> Early)
      /\ ControlAfter(decoded_instruction)' = ControlAfter(decoded_instruction)
      /\ Running.last # "T3" /\ ~Early
      /\ CycleOf(decoded_instruction) = Running
      /\ memory_cycle \in 0 .. 2 /\ Running = Cycles[memory_cycle + 1]
      /\ memory_cycle + 1 \in DOMAIN Cycles
      /\ scratch_pad_memory = done.reg /\ flags = done.flags
  BY GoesOn
<1>2. ExecuteT4 /\ ChecksCycleEnd(decoded_instruction, "T4", TRUE)
  BY DEF CPUEnterState, EnterState, EnterT1, EnterT3Write, EnterT4, EnterT5, EnterOther
<1>3. UNCHANGED <<scratch_pad_memory, flags>>
  BY <1>2 DEF ExecuteT4
<1>4. get_pc(address_stack) = PcNow /\ Behind(address_stack) = Returns /\ address_stack \in Rings
  BY <1>1 DEF RingOK, Forms
<1>11. /\ get_pc(address_stack)' = get_pc(address_stack')
       /\ Behind(address_stack)' = Behind(address_stack')
  BY DEF get_pc, Behind
<1>5. EndOK'
  <2>1. (cycle_ended' <=> Running.last = "T4")
        /\ (Running.last = "T4" => next_cycle_control' = ControlAfter(decoded_instruction))
    BY <1>1, <1>2 DEF ChecksCycleEnd
  <2> QED
    BY <1>1, <2>1 DEF EndOK
<1>6. PadOK'
  BY <1>1, <1>3 DEF PadOK
<1>7. hidden_registers' = [a |-> hidden_registers.a,
                           b |-> IF Running.t4 = "Source_to_Reg_b"
                                 THEN done.reg[decoded_instruction.low] ELSE hidden_registers.b]
  <2>1. hidden_registers' = IF Running.t4 = "Source_to_Reg_b"
                            THEN [hidden_registers EXCEPT !.b = scratch_pad_memory[decoded_instruction.low]]
                            ELSE hidden_registers
    BY <1>1, <1>2 DEF ExecuteT4
  <2>2. hidden_registers = [a |-> hidden_registers.a, b |-> hidden_registers.b]
    BY DEF Forms
  <2> QED
    BY <1>1, <2>1, <2>2
<1>8. HiddenOK'
  <2>1. CASE memory_cycle = 0
    <3>1. Running = Cycles[1] /\ Len(bus) = 1
      BY <1>1, <2>1
    <3>2. hidden_registers.a = 0
          /\ (Running.t4 # "Source_to_Reg_b" => hidden_registers.b = bus[1].data)
      BY <3>1 DEF HiddenOK
    <3>3. /\ hidden_registers'.a = 0
          /\ hidden_registers'.b = IF Cycles[1].t4 = "Source_to_Reg_b"
                                   THEN done.reg[decoded_instruction.low] ELSE bus[1].data
      BY <1>7, <3>1, <3>2
    <3>4. memory_cycle' = 0 /\ state' = "T4" /\ Len(bus') = 1 /\ Cycles' = Cycles /\ bus' = bus
          /\ decoded_instruction' = decoded_instruction /\ done' = done
      BY <1>1, <2>1, <3>1
    <3> QED
      BY <3>3, <3>4 DEF HiddenOK
  <2>2. CASE memory_cycle # 0
    <3>1. Running.t4 # "Source_to_Reg_b"
      <4>1. DataOf(decoded_instruction.name, Cycles, memory_cycle + 1) /\ memory_cycle + 1 > 1
        BY <1>1, <2>2, GoesOn DEF Shape
      <4> QED
        BY <1>1, <4>1 DEF DataOf
    <3>2. hidden_registers' = hidden_registers
      BY <1>1, <1>2, <3>1 DEF ExecuteT4
    <3> QED
      BY <1>1, <2>2, <3>2 DEF HiddenOK
  <2> QED
    BY <2>1, <2>2
<1>9. CASE Running.t4 \notin Moves
  <2>1. address_stack' = address_stack
    BY <1>1, <1>2, <1>9 DEF ExecuteT4, Moves
  <2>2. RingOK'
    BY <1>1, <1>4, <1>9, <2>1 DEF RingOK, Moves
  <2> QED
    BY <1>1, <1>3, <1>4, <1>5, <1>6, <1>7, <1>8, <2>1, <2>2, AfterMoved DEF Forms
<1>10. CASE Running.t4 \in Moves
  <2>1. hidden_registers.a \in Nat /\ (Running.t4 = "Pop_Stack" => memory_cycle = 0)
    BY <1>10, HighByte
  <2>2. hidden_registers'.a = hidden_registers.a
    BY <1>7
  <2>3. ASSUME Running.t4 = "Reg_a_to_PC_H" PROVE address_stack' \in Rings /\ RingOK'
    <3>1. address_stack' = set_high_pc(address_stack, hidden_registers.a)
      BY <1>1, <1>2, <2>3 DEF ExecuteT4
    <3>2. /\ address_stack' \in Rings /\ get_pc(address_stack') \div 256 = hidden_registers.a
          /\ Behind(address_stack') = Returns
      BY <1>4, <2>1, <3>1, SetHigh
    <3> QED
      BY <1>1, <1>11, <2>2, <2>3, <3>2 DEF RingOK, Moves
  <2>4. ASSUME Running.t4 = "Push_And_Reg_a_to_PC_H" PROVE address_stack' \in Rings /\ RingOK'
    <3>1. address_stack' = set_high_pc(push(address_stack), hidden_registers.a)
      BY <1>1, <1>2, <2>4 DEF ExecuteT4
    <3>2. /\ push(address_stack) \in Rings
          /\ Behind(push(address_stack)) = <<PcNow>> \o SubSeq(Returns, 1, Depth - 2)
      BY <1>4, Pushed
    <3>3. /\ address_stack' \in Rings /\ get_pc(address_stack') \div 256 = hidden_registers.a
          /\ Behind(address_stack') = <<PcNow>> \o SubSeq(Returns, 1, Depth - 2)
      BY <2>1, <3>1, <3>2, SetHigh, ZenonT(30)
    <3> QED
      BY <1>1, <1>11, <2>2, <2>4, <3>3 DEF RingOK, Moves
  <2>5. ASSUME Running.t4 = "Pop_Stack" PROVE address_stack' \in Rings /\ RingOK'
    <3>1. address_stack' = pop(address_stack)
      BY <1>1, <1>2, <2>5 DEF ExecuteT4
    <3>2. PcNow = First
      BY <2>1, <2>5 DEF PcNow
    <3>3. /\ address_stack' \in Rings /\ get_pc(address_stack') = Returns[1]
          /\ Behind(address_stack') = Append(Tail(Returns), First)
      BY <1>4, <3>1, <3>2, Popped
    <3> QED
      BY <1>1, <1>11, <2>2, <2>5, <3>3 DEF RingOK, Moves
  <2>6. address_stack' \in Rings /\ RingOK'
    BY <1>10, <2>3, <2>4, <2>5 DEF Moves
  <2> QED
    BY <1>1, <1>3, <1>4, <1>5, <1>6, <1>7, <1>8, <2>6, AfterMoved DEF Forms
<1> QED
  BY <1>9, <1>10

(* What the T5 of an instruction computes is what the instruction does. *)
LEMMA ResultIsComputed ==
  ASSUME decoded_instruction \in Decoded, NEW k \in DOMAIN Cycles,
         Cycles[k].last = "T5",
         scratch_pad_memory = [r \in Register |-> scratch_pad_memory[r]],
         decoded_instruction.name = "UNKNOWN" =>
           hidden_registers.b = scratch_pad_memory[decoded_instruction.low]
  PROVE  LET c == Computed(decoded_instruction, scratch_pad_memory, flags, hidden_registers.b) IN
         Result(Cycles[k].t5).pad = c.pad /\ Result(Cycles[k].t5).flags = c.flags
<1> DEFINE i == decoded_instruction
           c == Computed(decoded_instruction, scratch_pad_memory, flags, hidden_registers.b)
           t5 == Cycles[k].t5
<1> SUFFICES Result(t5).pad = c.pad /\ Result(t5).flags = c.flags
  OBVIOUS
<1>1. i.name \in InstructionName /\ ActionIs(i.name, t5)
  BY DecodedHasCycles, ActionOfT5 DEF Cycles
<1>2. i.medium \in 0 .. 7 /\ (i.name \in Rotations => i.medium \in 0 .. 3)
  BY PartsOfDecoded
<1> HIDE DEF t5
<1>3. CASE i.name \in {"Lrr", "LrI", "LrM"}
  <2>1. t5 = "Reg_b_to_Destination"
    BY <1>1, <1>3 DEF ActionIs
  <2> QED
    BY <1>3, <2>1 DEF Result, Computed
<1>4. CASE i.name = "INr"
  <2>1. t5 = "Inc_Destination"
    BY <1>1, <1>4 DEF ActionIs
  <2> QED
    BY <1>4, <2>1 DEF Result, Computed
<1>5. CASE i.name = "DCr"
  <2>1. t5 = "Dec_Destination"
    BY <1>1, <1>5 DEF ActionIs
  <2> QED
    BY <1>5, <2>1 DEF Result, Computed
<1>6. CASE i.name \in {"ALU_OPr", "ALU_OPI", "ALU_OPM"}
  <2>1. t5 = "ALU_Operation_With_RegB"
    BY <1>1, <1>6 DEF ActionIs
  <2> QED
    BY <1>6, <2>1 DEF Result, Computed
<1>7. CASE i.name \in Rotations
  <2>1. i.medium % 4 = i.medium
    BY <1>2, <1>7
  <2>2. t5 = "Rotate_A"
    BY <1>1, <1>7 DEF ActionIs
  <2> QED
    BY <1>7, <2>1, <2>2 DEF Result, Computed, Rotations
<1>8. CASE i.name = "INP"
  <2>1. t5 = "Reg_b_to_A"
    BY <1>1, <1>8 DEF ActionIs
  <2> QED
    BY <1>8, <2>1 DEF Result, Computed
<1>9. CASE i.name = "UNKNOWN"
  <2>1. i.medium = 0 /\ i.low = 0
    BY <1>9, OperandsOfDecoded
  <2>2. t5 = "Reg_b_to_Destination"
    BY <1>1, <1>9 DEF ActionIs
  <2>3. [scratch_pad_memory EXCEPT ![0] = hidden_registers.b] = scratch_pad_memory
    BY <1>9, <2>1
  <2>4. Result(t5).pad = scratch_pad_memory /\ Result(t5).flags = flags
    BY <2>1, <2>2, <2>3 DEF Result
  <2>5. c = [pad |-> scratch_pad_memory, flags |-> flags]
    BY <1>9 DEF Computed
  <2> QED
    BY <2>4, <2>5
<1>10. CASE i.name \notin {"Lrr", "LrI", "LrM", "UNKNOWN", "INr", "DCr", "ALU_OPr", "ALU_OPI",
                           "ALU_OPM", "RLC", "RRC", "RAL", "RAR", "INP"}
  <2>1. t5 \in {"IDLE", "Reg_b_to_PC_L", "Reg_b_to_PC_L_3_to_5"}
    BY <1>1, <1>10 DEF ActionIs
  <2>2. Result(t5) = [pad |-> scratch_pad_memory, flags |-> flags]
    BY <2>1 DEF Result
  <2>3. c = [pad |-> scratch_pad_memory, flags |-> flags]
    BY <1>10 DEF Computed
  <2> QED
    BY <2>2, <2>3
<1> QED
  BY <1>3, <1>4, <1>5, <1>6, <1>7, <1>8, <1>9, <1>10 DEF Rotations

(* The registers stay registers. *)
LEMMA ComputedRegisters ==
  ASSUME NEW i, NEW reg, reg = [r \in Register |-> reg[r]], NEW f, NEW b,
         NEW pad, pad = Computed(i, reg, f, b).pad
  PROVE  pad = [r \in Register |-> pad[r]]
<1>1. pad = reg \/ \E r, value : pad = [reg EXCEPT ![r] = value]
  BY ZenonT(30) DEF Computed
<1>2. ASSUME NEW r, NEW value, pad = [reg EXCEPT ![r] = value]
      PROVE  pad = [q \in Register |-> pad[q]]
  <2>1. pad = [q \in Register |-> IF q = r THEN value ELSE reg[q]]
    BY <1>2
  <2> QED
    BY <2>1
<1> QED
  BY <1>1, <1>2

LEMMA EnterT5Settled ==
  ASSUME Settled, CycleInv, DecidedOK, CPUEnterState, next_state = "T5"
  PROVE  Settled'
<1> USE DEF Settled, Steady
<1>1. /\ state = "T4" /\ state' = "T5" /\ Len(bus) = memory_cycle + 1 /\ AfterData
      /\ UNCHANGED <<program, gar, memory_cycle, decoded_instruction, bus, done>>
      /\ Cycles' = Cycles /\ Running' = Running /\ Start' = Start /\ First' = First
      /\ Returns' = Returns /\ PcNow' = PcNow /\ (Early' <=> Early)
      /\ Running.last # "T3" /\ ~Early /\ Running.last # "T4"
      /\ CycleOf(decoded_instruction) = Running
      /\ memory_cycle \in 0 .. 2 /\ Running = Cycles[memory_cycle + 1]
      /\ memory_cycle + 1 \in DOMAIN Cycles /\ decoded_instruction \in Decoded
      /\ scratch_pad_memory = done.reg /\ flags = done.flags
  BY GoesOn
<1>2. ExecuteT5
  BY DEF CPUEnterState
<1>3. hidden_registers' = hidden_registers
  BY <1>2 DEF ExecuteT5
<1>4. /\ EndOf(decoded_instruction.name, Cycles, memory_cycle + 1)
      /\ MovesOf(decoded_instruction.name, Cycles, memory_cycle + 1)
  BY <1>1, GoesOn DEF Shape
<1>5. Running.last = "T5"
  BY <1>1, <1>4 DEF EndOf
<1>6. EndOK'
  BY <1>1 DEF EndOK
<1>7. HiddenOK'
  BY <1>1, <1>3 DEF HiddenOK
<1>8. scratch_pad_memory = [r \in Register |-> scratch_pad_memory[r]]
  BY DEF Forms
<1>9. PadOK'
  <2>1. decoded_instruction.name = "UNKNOWN" =>
          hidden_registers.b = scratch_pad_memory[decoded_instruction.low]
    <3>1. CASE decoded_instruction.name = "UNKNOWN"
      <4>1. decoded_instruction.name \in InstructionName
        BY DecodedHasCycles, <1>1
      <4>2. memory_cycle + 1 = 1 /\ Running.t4 = "Source_to_Reg_b"
        BY <1>1, <1>5, <3>1, <4>1, ActionOfT5 DEF Cycles
      <4>3. memory_cycle = 0 /\ Len(bus) = 1 /\ Cycles[1].t4 = "Source_to_Reg_b"
        BY <1>1, <4>2
      <4> QED
        BY <1>1, <4>3 DEF HiddenOK
    <3> QED
      BY <3>1
  <2>2. /\ scratch_pad_memory' = Result(Running.t5).pad
        /\ flags' = Result(Running.t5).flags
    BY <1>1, <1>2 DEF ExecuteT5
  <2>3. /\ scratch_pad_memory' = Computed(decoded_instruction, done.reg, done.flags, hidden_registers.b).pad
        /\ flags' = Computed(decoded_instruction, done.reg, done.flags, hidden_registers.b).flags
    BY <1>1, <1>5, <1>8, <2>1, <2>2, ResultIsComputed
  <2> QED
    BY <1>1, <1>3, <2>3 DEF PadOK
<1>10. scratch_pad_memory' = [r \in Register |-> scratch_pad_memory'[r]]
  BY <1>1, <1>8, <1>9, ComputedRegisters DEF PadOK
<1>11. address_stack \in Rings
  BY DEF Forms
<1>12. /\ get_pc(address_stack)' = get_pc(address_stack')
       /\ Behind(address_stack)' = Behind(address_stack')
  BY DEF get_pc, Behind
<1>13. CASE Running.t4 \notin Moves \ {"Pop_Stack"}
  <2>1. Running.t5 \notin {"Reg_b_to_PC_L_3_to_5", "Reg_b_to_PC_L"}
    BY <1>1, <1>4, <1>13 DEF MovesOf
  <2>2. address_stack' = address_stack
    BY <1>1, <1>2, <2>1 DEF ExecuteT5
  <2>3. RingOK'
    BY <1>1, <1>12, <1>13, <2>2 DEF RingOK, Moves
  <2> QED
    BY <1>1, <1>3, <1>6, <1>7, <1>9, <1>10, <1>11, <2>2, <2>3, AfterMoved DEF Forms
<1>14. CASE Running.t4 \in Moves \ {"Pop_Stack"}
  <2>1. hidden_registers.b \in Nat /\ decoded_instruction.medium \in 0 .. 7
    BY <1>1, <1>14, HighByte, PartsOfDecoded
  <2>2. LowByte \in Nat /\ LowByte' = LowByte
    BY <1>1, <1>3, <2>1 DEF LowByte
  <2>3. address_stack' = set_low_pc(address_stack, LowByte)
    BY <1>1, <1>2, <1>4, <1>14 DEF MovesOf, ExecuteT5, LowByte
  <2>4. get_pc(address_stack) \div 256 = hidden_registers.a
    BY <1>1, <1>14 DEF RingOK
  <2>5. /\ address_stack' \in Rings
        /\ get_pc(address_stack') = hidden_registers.a * 256 + LowByte
        /\ Behind(address_stack') = Behind(address_stack)
    BY <1>11, <2>2, <2>3, <2>4, SetLow
  <2>6. RingOK'
    BY <1>1, <1>3, <1>12, <1>14, <2>2, <2>5 DEF RingOK, Moves
  <2> QED
    BY <1>1, <1>3, <1>6, <1>7, <1>9, <1>10, <2>5, <2>6, AfterMoved DEF Forms
<1> QED
  BY <1>13, <1>14

CPUInv == IInv /\ CycleInv /\ ProgramInv

LEMMA InitCPUInv == CPUInit => CPUInv
<1> SUFFICES ASSUME CPUInit PROVE CPUInv
  OBVIOUS
<1>1. /\ phase = "phase_11" /\ state = "STOPPED" /\ next_state = "none"
      /\ program \in Programs /\ bus = <<>>
      /\ address_stack = clear_stack /\ scratch_pad_memory \in PowerOnRegisters
      /\ hidden_registers = [a |-> 0, b |-> 0]
      /\ gar = [low |-> 0, high |-> 0, control |-> "PCI"]
      /\ done.stack = address_stack /\ done.reg = scratch_pad_memory /\ done.flags = flags
  BY DEF CPUInit, Init
<1>2. IInv /\ CycleInv
  BY InitIInv, InitCycleInv DEF CPUInit
<1>3. ~BeforeData /\ ~AfterData
  BY <1>1 DEF BeforeData, AfterData
<1>4. Forms
  <2>1. address_stack \in Rings /\ done.stack \in Rings
    BY <1>1, Cleared
  <2>2. scratch_pad_memory \in [Register -> Byte]
    BY <1>1, RegistersAssumption DEF Register
  <2>3. hidden_registers = [a |-> hidden_registers.a, b |-> hidden_registers.b]
    BY <1>1
  <2> QED
    BY <1>1, <2>1, <2>2, <2>3 DEF Forms
<1>5. RunningOK /\ Counted /\ FetchOK /\ OperandOK(2) /\ OperandOK(3)
  BY <1>1, <1>3 DEF RunningOK, Counted, FetchOK, OperandOK
<1>6. RingOK /\ EmittedOK /\ HiddenOK /\ WriteOK
  BY <1>1, <1>3 DEF RingOK, EmittedOK, HiddenOK, WriteOK, Start, Returns
<1>7. PadOK /\ EndOK
  BY <1>1 DEF PadOK, EndOK
<1>8. AddressOK
  BY <1>1, <1>3 DEF AddressOK
<1>9. DecidedOK
  BY <1>1 DEF DecidedOK
<1> QED
  BY <1>2, <1>4, <1>5, <1>6, <1>7, <1>8, <1>9 DEF CPUInv, ProgramInv, Settled, Steady

(* The clock and its inputs, as CPUControl has them. *)
LEMMA NextControls ==
  ASSUME IInv, CycleInv, Forms, CPUNext
  PROVE  IInv' /\ CycleInv'
<1>1. CASE CPUDataIn
  <2>1. \E instruction \in Decoded : DataIn(instruction, condition_verified(instruction))
    <3>1. CASE IsReading /\ cycle_control = "PCI"
      <4>1. PICK byte \in program.opcodes : DataIn(Decoding[byte], condition_verified(Decoding[byte]))
        BY <1>1, <3>1 DEF CPUDataIn
      <4>2. byte \in Opcode
        BY <4>1, ProgramsAssumption, OpcodesAssumption DEF Forms
      <4>3. Decoding[byte] \in Decoded
        BY <4>2 DEF Decoded
      <4> QED
        BY <4>1, <4>3
    <3>2. CASE ~(IsReading /\ cycle_control = "PCI")
      <4>1. DataIn(decoded_instruction, condition_verified(decoded_instruction))
        BY <1>1, <3>2 DEF CPUDataIn
      <4> QED
        BY <4>1 DEF CycleInv, CycleTyped
    <3> QED
      BY <3>1, <3>2
  <2> QED
    BY <2>1, DataInIInv, DataInCycleInv
<1>2. CASE ~CPUDataIn
  <2>1. Next
    BY <1>2 DEF CPUNext, Next, Clock, CPUPhase21, CPUEnterState, CPUSyncFalls
  <2> QED
    BY <2>1, NextIInv, NextCycleInv
<1> QED
  BY <1>1, <1>2

LEMMA EnterStateSettled ==
  ASSUME Settled, IInv, CycleInv, DecidedOK, CPUEnterState
  PROVE  Settled'
<1>1. next_state \in CpuState \cup {"none"}
  BY DEF IInv, Typed
<1>2. CASE next_state \in {"T1", "T1I"}
  BY <1>2, BeginSettled, CycleSettled DEF BeginsInstruction
<1> QED
  BY <1>1, <1>2, StaySettled, EnterT2Settled, EnterWaitSettled, EnterT3Settled, EnterT4Settled,
     EnterT5Settled, StoppedSettled DEF CpuState

LEMMA NextSettled ==
  ASSUME Settled, IInv, CycleInv, DecidedOK, CPUNext
  PROVE  Settled'
<1>1. CASE Quiet /\ UNCHANGED <<program, registers, gar, history>>
  BY <1>1, QuietSettled
<1>2. CASE CPUEnterState
  BY <1>2, EnterStateSettled
<1>3. CASE CPUDataIn
  BY <1>3, DataInSettled
<1>4. CASE CPUSyncFalls
  BY <1>4, SyncFallsSettled
<1> QED
  BY <1>1, <1>2, <1>3, <1>4 DEF CPUNext, CPUPhase21, Quiet

LEMMA NextCPUInv == CPUInv /\ [CPUNext]_vars => CPUInv'
<1> SUFFICES ASSUME CPUInv, [CPUNext]_vars PROVE CPUInv'
  OBVIOUS
<1> USE DEF CPUInv, ProgramInv
<1>1. CASE CPUNext
  BY <1>1, NextControls, NextSettled, NextDecided DEF Settled, Steady
<1>2. CASE UNCHANGED vars
  <2>1. UNCHANGED control
    BY <1>2 DEF vars
  <2>2. IInv' /\ CycleInv'
    BY <2>1, NextIInv, NextCycleInv
  <2>3. /\ UNCHANGED <<program, registers, gar, begun_by, bus, done>>
        /\ UNCHANGED <<phase, next_state, cycle_control, state, memory_cycle, cycle_ended,
                       next_cycle_control, decoded_instruction>>
    BY <1>2 DEF vars, control, sequencing, history
  <2>4. (BeforeData' <=> BeforeData) /\ (Latched' <=> Latched)
    BY <2>3 DEF BeforeData, Latched
  <2>5. Settled'
    BY <2>3, <2>4, SettledUnmoved
  <2>6. DecidedOK'
    BY <2>3 DEF DecidedOK
  <2> QED
    BY <2>2, <2>5, <2>6
<1> QED
  BY <1>1, <1>2

(* The operators of the instruction set are those of the CPU. *)
LEMMA SameDecoding == ISA!Decoding = Decoding
BY Zenon DEF ISA!Decoding, Decoding, ISA!Opcode, Opcode, ISA!decode_instruction, decode_instruction,
   ISA!Matching, Matching, ISA!decoding_table, decoding_table, ISA!Row, Row, ISA!Any, Any,
   ISA!Below4, Below4, ISA!From4, From4, ISA!High, High, ISA!Medium, Medium, ISA!Low, Low,
   ISA!unknown_instruction, unknown_instruction

LEMMA SameUpdate ==
  ASSUME NEW f, NEW value
  PROVE  ISA!update_flags(f, value) = update_flags(f, value)
BY Zenon DEF ISA!update_flags, update_flags, ISA!BitCount, BitCount, ISA!Bit, Bit

LEMMA SameALU ==
  ASSUME NEW operation, NEW a, NEW b, NEW f
  PROVE  ISA!ALU_Operation(operation, a, b, f) = ALU_Operation(operation, a, b, f)
BY Zenon DEF ISA!ALU_Operation, ALU_Operation, ISA!Intermediate, Intermediate, ISA!And, And,
   ISA!Or, Or, ISA!Xor, Xor, ISA!FromBits, FromBits, ISA!Bit, Bit, ISA!update_flags, update_flags,
   ISA!BitCount, BitCount, ISA!Truth, Truth, ISA!CarryOut, CarryOut

LEMMA SameRotate ==
  ASSUME NEW operation, NEW a, NEW f
  PROVE  ISA!Rotate_A(operation, a, f) = Rotate_A(operation, a, f)
BY Zenon DEF ISA!Rotate_A, Rotate_A, ISA!Truth, Truth

(* What is recorded is what the instruction computes. *)
LEMMA SameCompute ==
  ASSUME NEW i, i.name # "INP", NEW b,
         done'.reg = Computed(i, done.reg, done.flags, b).pad,
         done'.flags = Computed(i, done.reg, done.flags, b).flags
  PROVE  ISA!Compute(i, b)
<1> DEFINE a == done.reg[0]
           inc == (done.reg[i.medium] + 1) % 256
           dec == (done.reg[i.medium] - 1) % 256
           Loads(r, value, f) == done'.reg = [done.reg EXCEPT ![r] = value] /\ done'.flags = f
<1>1. CASE i.name \in {"Lrr", "LrI", "LrM"}
  <2>1. Loads(i.medium, b, done.flags)
    BY <1>1 DEF Computed
  <2> QED
    BY <1>1, <2>1 DEF ISA!Compute
<1>2. CASE i.name = "INr"
  <2>1. Loads(i.medium, inc, ISA!update_flags(done.flags, inc))
    BY <1>2, SameUpdate DEF Computed
  <2> QED
    BY <1>2, <2>1 DEF ISA!Compute
<1>3. CASE i.name = "DCr"
  <2>1. Loads(i.medium, dec, ISA!update_flags(done.flags, dec))
    BY <1>3, SameUpdate DEF Computed
  <2> QED
    BY <1>3, <2>1 DEF ISA!Compute
<1>4. CASE i.name \in {"ALU_OPr", "ALU_OPI", "ALU_OPM"}
  <2>1. Loads(0, ISA!ALU_Operation(i.medium, a, b, done.flags).a,
                 ISA!ALU_Operation(i.medium, a, b, done.flags).flags)
    BY <1>4, SameALU DEF Computed, A
  <2> QED
    BY <1>4, <2>1 DEF ISA!Compute
<1>5. CASE i.name \in Rotations
  <2>1. Loads(0, ISA!Rotate_A(i.medium, a, done.flags).a, ISA!Rotate_A(i.medium, a, done.flags).flags)
    BY <1>5, SameRotate DEF Computed, A, Rotations
  <2> QED
    BY <1>5, <2>1 DEF ISA!Compute, Rotations
<1>6. CASE i.name \notin {"Lrr", "LrI", "LrM", "INr", "DCr", "ALU_OPr", "ALU_OPI", "ALU_OPM"}
            \cup Rotations
  <2>1. done'.reg = done.reg /\ done'.flags = done.flags
    BY <1>6 DEF Computed, Rotations
  <2> QED
    BY <1>6, <2>1 DEF ISA!Compute, Rotations
<1> QED
  BY <1>1, <1>2, <1>3, <1>4, <1>5, <1>6

LEMMA SameHolds ==
  ASSUME NEW i, i.medium \in 0 .. 7
  PROVE  ISA!Holds(i) <=> Met(i, done.flags)
<1>1. ASSUME NEW m \in 0 .. 3, i.medium = m \/ i.medium = m + 4
      PROVE  /\ FlagOf(i.medium) = <<"Carry", "Zero", "Sign", "Parity">>[m + 1]
             /\ i.medium \in 4 .. 7 <=> i.medium >= 4
  <2>1. i.medium % 4 = m
    BY <1>1
  <2> QED
    BY <1>1, <2>1 DEF FlagOf
<1>2. CASE i.medium \in {0, 4}
  <2>1. FlagOf(i.medium) = "Carry" /\ (i.medium \in 4 .. 7 <=> i.medium >= 4)
    BY <1>1, <1>2
  <2>2. ISA!Holds(i) <=> ((i.medium \in 4 .. 7) <=> (done.flags["Carry"] # 0))
    BY <1>2 DEF ISA!Holds
  <2> QED
    BY <2>1, <2>2 DEF Met
<1>3. CASE i.medium \in {1, 5}
  <2>1. FlagOf(i.medium) = "Zero" /\ (i.medium \in 4 .. 7 <=> i.medium >= 4)
    BY <1>1, <1>3
  <2>2. ISA!Holds(i) <=> ((i.medium \in 4 .. 7) <=> (done.flags["Zero"] # 0))
    BY <1>3 DEF ISA!Holds
  <2> QED
    BY <2>1, <2>2 DEF Met
<1>4. CASE i.medium \in {2, 6}
  <2>1. FlagOf(i.medium) = "Sign" /\ (i.medium \in 4 .. 7 <=> i.medium >= 4)
    BY <1>1, <1>4
  <2>2. ISA!Holds(i) <=> ((i.medium \in 4 .. 7) <=> (done.flags["Sign"] # 0))
    BY <1>4 DEF ISA!Holds
  <2> QED
    BY <2>1, <2>2 DEF Met
<1>5. CASE i.medium \in {3, 7}
  <2>1. FlagOf(i.medium) = "Parity" /\ (i.medium \in 4 .. 7 <=> i.medium >= 4)
    BY <1>1, <1>5
  <2>2. ISA!Holds(i) <=> ((i.medium \in 4 .. 7) <=> (done.flags["Parity"] # 0))
    BY <1>5 DEF ISA!Holds
  <2> QED
    BY <2>1, <2>2 DEF Met
<1> QED
  BY <1>2, <1>3, <1>4, <1>5

(* The step that records an instruction, and where it has ended. *)
Records == CPUEnterState /\ (BeginsInstruction \/ next_state = "STOPPED") /\ bus # <<>>

LEMMA OneCycleHLT == Len(instruction_table["HLT"]) = 1
BY DEF instruction_table

LEMMA Completed ==
  ASSUME CPUInv, Records
  PROVE  /\ decoded_instruction \in Decoded /\ decoded_instruction.name \in InstructionName
         /\ Len(bus) = memory_cycle + 1 /\ Len(Cycles) = memory_cycle + 1
         /\ memory_cycle \in 0 .. 2
         /\ Running = Cycles[Len(Cycles)]
         /\ \A k \in 1 .. Len(Cycles) : Shape(decoded_instruction.name, Cycles, k)
         /\ state = IF Running.last = "T3" \/ Early THEN "T3" ELSE "T5"
<1> USE DEF CPUInv, ProgramInv, Settled, Steady
<1>1. /\ phase = "state"
      /\ \/ next_state \in {"T1", "T1I"} /\ cycle_control = "PCI"
         \/ next_state = "STOPPED"
  BY DEF Records, CPUEnterState, EnterState, BeginsInstruction
<1>2. state # "STOPPED"
  BY DEF Records, Counted
<1>3. \/ state \in {"T3", "T4"} /\ cycle_ended /\ next_cycle_control = "PCI"
         /\ decoded_instruction.name # "HLT"
      \/ state = "T3" /\ cycle_ended /\ decoded_instruction.name = "HLT"
      \/ state = "T5"
  BY <1>1, <1>2 DEF DecidedOK
<1>4. AfterData
  BY <1>1, <1>3 DEF AfterData, BeforeData
<1>5. /\ decoded_instruction.name \in InstructionName /\ decoded_instruction \in Decoded
      /\ memory_cycle \in 0 .. 2 /\ memory_cycle + 1 \in DOMAIN Cycles
      /\ DOMAIN Cycles = 1 .. Len(Cycles) /\ Len(Cycles) \in 1 .. 3
      /\ \A k \in DOMAIN Cycles : Shape(decoded_instruction.name, Cycles, k)
  BY <1>2, RunningIs DEF CycleInv, CycleTyped
<1>6. /\ EndOf(decoded_instruction.name, Cycles, memory_cycle + 1)
      /\ Running = Cycles[memory_cycle + 1]
  BY <1>5 DEF Shape, Running
<1>7. ASSUME memory_cycle + 2 =< Len(Cycles)
      PROVE  ControlAfter(decoded_instruction) # "PCI"
  <2>1. memory_cycle + 2 \in DOMAIN Cycles /\ memory_cycle + 2 > 1
    BY <1>5, <1>7
  <2>2. KindOf(Cycles, memory_cycle + 2)
    BY <1>5, <2>1 DEF Shape
  <2>3. Cycles[memory_cycle + 2].control # "PCI"
    BY <2>1, <2>2 DEF KindOf
  <2> QED
    BY <1>7, <2>3 DEF ControlAfter, Cycles
<1>8. CASE state = "T5"
  <2>1. Running.last \notin {"T3", "T4"} /\ ~Early
    BY <1>8 DEF EndOK
  <2>2. Running.last = "T5" /\ memory_cycle + 1 = Len(Cycles)
    BY <1>6, <2>1 DEF EndOf
  <2> QED
    BY <1>4, <1>5, <1>6, <1>8, <2>1, <2>2 DEF Counted
<1>9. CASE state = "T4"
  <2>1. Running.last = "T4" /\ ControlAfter(decoded_instruction) = "PCI"
    BY <1>3, <1>9 DEF EndOK
  <2>2. memory_cycle = 0 /\ decoded_instruction.name = "LMr"
    BY <1>5, <1>6, <2>1 DEF EndOf
  <2>3. Len(Cycles) = 2
    BY <2>2 DEF Cycles, instruction_table
  <2> QED
    BY <1>7, <2>1, <2>2, <2>3
<1>10. CASE state = "T3"
  <2>1. /\ Running.last = "T3" \/ Early
        /\ ~Early => next_cycle_control = ControlAfter(decoded_instruction)
    BY <1>3, <1>4, <1>10 DEF EndOK
  <2>2. memory_cycle + 1 = Len(Cycles)
    <3>1. CASE Early
      <4>1. Running.conditional = TRUE
        BY <1>6, <3>1 DEF EndOf, Early
      <4> QED
        BY <1>6, <4>1 DEF EndOf
    <3>2. CASE ~Early /\ decoded_instruction.name # "HLT"
      <4>1. ControlAfter(decoded_instruction) = "PCI"
        BY <1>3, <1>10, <2>1, <3>2
      <4>2. ~(memory_cycle + 2 =< Len(Cycles))
        BY <1>7, <4>1
      <4>3. memory_cycle + 1 =< Len(Cycles) /\ memory_cycle \in Nat /\ Len(Cycles) \in Nat
        BY <1>5
      <4> QED
        BY <4>2, <4>3
    <3>3. CASE decoded_instruction.name = "HLT"
      BY <1>5, <3>3, OneCycleHLT DEF Cycles
    <3> QED
      BY <3>1, <3>2, <3>3
  <2> QED
    BY <1>4, <1>5, <1>6, <1>10, <2>1, <2>2 DEF Counted
<1> QED
  BY <1>3, <1>8, <1>9, <1>10

(* The cycles of the groups of instructions. *)
LEMMA RegisterCycles ==
  ASSUME NEW name \in {"Lrr", "UNKNOWN", "INr", "DCr", "ALU_OPr", "RLC", "RRC", "RAL", "RAR", "HLT"}
  PROVE  LET c == instruction_table[name] IN
         /\ Len(c) = 1 /\ c[1].conditional = FALSE
         /\ c[1].t4 \in {"IDLE", "Source_to_Reg_b"}
         /\ name \in {"Lrr", "ALU_OPr"} => c[1].t4 = "Source_to_Reg_b"
         /\ c[1].last = IF name = "HLT" THEN "T3" ELSE "T5"
BY DEF instruction_table, Lrr, Rotate, FetchOnly, Fetch, Cycle

LEMMA HighCycle ==
  ASSUME NEW t4
  PROVE  LET c == ReadHigh(t4) IN
         /\ c.control = "PCR" /\ c.address = "PC" /\ c.t3 = "Fetch_Data_to_Reg_a"
         /\ c.last = "T5" /\ c.t4 = t4 /\ c.conditional = FALSE
BY DEF ReadHigh, Cycle

LEMMA ConditionalHighCycle ==
  ASSUME NEW t4
  PROVE  LET c == Conditional(ReadHigh(t4)) IN
         /\ c.control = "PCR" /\ c.address = "PC" /\ c.t3 = "Fetch_Data_to_Reg_a"
         /\ c.last = "T5" /\ c.t4 = t4 /\ c.conditional = TRUE
BY DEF Conditional, ReadHigh, Cycle

LEMMA JumpCycles ==
  ASSUME NEW name \in {"JMP", "JFc", "JTc", "CAL", "CFc", "CTc"}
  PROVE  LET c == instruction_table[name] IN
         /\ Len(c) = 3
         /\ c[2].control = "PCR" /\ c[2].address = "PC"
         /\ c[3].control = "PCR" /\ c[3].address = "PC"
         /\ c[3].t3 = "Fetch_Data_to_Reg_a" /\ c[3].last = "T5"
         /\ c[3].t4 = IF name \in {"JMP", "JFc", "JTc"} THEN "Reg_a_to_PC_H" ELSE "Push_And_Reg_a_to_PC_H"
         /\ c[3].conditional = IF name \in {"JFc", "JTc", "CFc", "CTc"} THEN TRUE ELSE FALSE
<1> DEFINE c == instruction_table[name]
           action == IF name \in {"JMP", "JFc", "JTc"} THEN "Reg_a_to_PC_H" ELSE "Push_And_Reg_a_to_PC_H"
<1>1. /\ Len(c) = 3 /\ c[2] = ReadLow
      /\ name \in {"JMP", "CAL"} => c[3] = ReadHigh(action)
      /\ name \in {"JFc", "JTc", "CFc", "CTc"} => c[3] = Conditional(ReadHigh(action))
  BY DEF instruction_table, Jump, JumpIf
<1>2. ReadLow.control = "PCR" /\ ReadLow.address = "PC"
  BY DEF ReadLow, Cycle
<1> HIDE DEF action, c
<1>3. CASE name \in {"JMP", "CAL"}
  <2>1. c[3] = ReadHigh(action)
    BY <1>1, <1>3
  <2> DEFINE high == ReadHigh(action)
  <2>2. /\ high.control = "PCR" /\ high.address = "PC" /\ high.t3 = "Fetch_Data_to_Reg_a"
        /\ high.last = "T5" /\ high.t4 = action /\ high.conditional = FALSE
    BY HighCycle
  <2> HIDE DEF high
  <2>3. c[3] = high
    BY <2>1 DEF high
  <2>4. /\ c[3].control = "PCR" /\ c[3].address = "PC" /\ c[3].t3 = "Fetch_Data_to_Reg_a"
        /\ c[3].last = "T5" /\ c[3].t4 = action /\ c[3].conditional = FALSE
    BY <2>2, <2>3
  <2> QED
    BY <1>1, <1>2, <1>3, <2>4 DEF c, action
<1>4. CASE name \in {"JFc", "JTc", "CFc", "CTc"}
  <2>1. c[3] = Conditional(ReadHigh(action))
    BY <1>1, <1>4
  <2> DEFINE high == Conditional(ReadHigh(action))
  <2>2. /\ high.control = "PCR" /\ high.address = "PC" /\ high.t3 = "Fetch_Data_to_Reg_a"
        /\ high.last = "T5" /\ high.t4 = action /\ high.conditional = TRUE
    BY ConditionalHighCycle
  <2> HIDE DEF high
  <2>3. c[3] = high
    BY <2>1 DEF high
  <2>4. /\ c[3].control = "PCR" /\ c[3].address = "PC" /\ c[3].t3 = "Fetch_Data_to_Reg_a"
        /\ c[3].last = "T5" /\ c[3].t4 = action /\ c[3].conditional = TRUE
    BY <2>2, <2>3
  <2> QED
    BY <1>1, <1>2, <1>4, <2>4 DEF c, action
<1> QED
  BY <1>3, <1>4

LEMMA ReturnCycles ==
  ASSUME NEW name \in {"RET", "RFc", "RTc", "RST"}
  PROVE  LET c == instruction_table[name] IN
         /\ Len(c) = 1 /\ c[1].last = "T5"
         /\ c[1].t4 = IF name = "RST" THEN "Push_And_Reg_a_to_PC_H" ELSE "Pop_Stack"
         /\ c[1].conditional = IF name \in {"RFc", "RTc"} THEN TRUE ELSE FALSE
<1> DEFINE c == instruction_table[name]
<1>1. /\ Len(c) = 1
      /\ name = "RET" => c[1] = Return
      /\ name \in {"RFc", "RTc"} => c[1] = Conditional(Return)
      /\ name = "RST" => c[1] = Fetch("Push_And_Reg_a_to_PC_H", "Reg_b_to_PC_L_3_to_5", "T5")
  BY DEF instruction_table
<1>2. Return.last = "T5" /\ Return.t4 = "Pop_Stack" /\ Return.conditional = FALSE
  BY DEF Return, Fetch, Cycle
<1>3. /\ Conditional(Return).last = "T5" /\ Conditional(Return).t4 = "Pop_Stack"
      /\ Conditional(Return).conditional = TRUE
  BY DEF Conditional, Return, Fetch, Cycle
<1> DEFINE pushing == Fetch("Push_And_Reg_a_to_PC_H", "Reg_b_to_PC_L_3_to_5", "T5")
<1>4. pushing.last = "T5" /\ pushing.t4 = "Push_And_Reg_a_to_PC_H" /\ pushing.conditional = FALSE
  BY DEF Fetch, Cycle
<1> HIDE DEF c
<1>5. CASE name = "RET"
  BY <1>1, <1>2, <1>5 DEF c
<1>6. CASE name \in {"RFc", "RTc"}
  BY <1>1, <1>3, <1>6 DEF c
<1>7. CASE name = "RST"
  BY <1>1, <1>4, <1>7 DEF c
<1> QED
  BY <1>5, <1>6, <1>7

LEMMA ReadCycles ==
  ASSUME NEW name \in {"LrI", "ALU_OPI", "LrM", "ALU_OPM", "INP"}
  PROVE  LET c == instruction_table[name] IN
         /\ Len(c) = 2 /\ c[2].last = "T5" /\ c[2].conditional = FALSE
         /\ c[2].control = IF name = "INP" THEN "PCC" ELSE "PCR"
         /\ c[2].address = IF name = "INP" THEN "A_b"
                           ELSE IF name \in {"LrI", "ALU_OPI"} THEN "PC" ELSE "HL"
         /\ c[2].t3 = "Fetch_Data_to_Reg_b" /\ c[2].t4 \in {"IDLE", "Out_Conditions_Flags"}
BY DEF instruction_table, Read, Cycle

LEMMA WriteCycles ==
  ASSUME NEW name \in {"LMr", "LMI", "OUT"}
  PROVE  LET c == instruction_table[name] IN
         /\ Len(c) = IF name = "LMI" THEN 3 ELSE 2
         /\ name = "LMI" => c[2].control = "PCR" /\ c[2].address = "PC"
         /\ c[Len(c)].last = "T3" /\ c[Len(c)].conditional = FALSE
         /\ c[Len(c)].control = IF name = "OUT" THEN "PCC" ELSE "PCW"
         /\ c[Len(c)].address = IF name = "OUT" THEN "A_b" ELSE "HL"
<1>1. CASE name = "LMI"
  BY <1>1 DEF instruction_table, Write, ReadLow, Cycle
<1>2. CASE name = "LMr"
  BY <1>2 DEF instruction_table, Write, Cycle
<1>3. CASE name = "OUT"
  BY <1>3 DEF instruction_table, Cycle
<1> QED
  BY <1>1, <1>2, <1>3

(* What the step that records an instruction does to the instruction set's *)
(* variables.                                                              *)
LEMMA RecordedVariables ==
  ASSUME CPUInv, Records
  PROVE  /\ done'.bus = bus /\ done'.reg = scratch_pad_memory /\ done'.flags = flags
         /\ get_pc(done.stack)' = get_pc(address_stack)
         /\ Behind(done.stack)' = Behind(address_stack)
<1>1. done' = [stack |-> address_stack, reg |-> scratch_pad_memory, flags |-> flags, bus |-> bus]
  BY DEF Records, CPUEnterState, Record
<1>2. /\ done'.bus = bus /\ done'.reg = scratch_pad_memory /\ done'.flags = flags
      /\ done'.stack = address_stack
  BY <1>1
<1> QED
  BY <1>2 DEF get_pc, Behind

LEMMA SameAddresses ==
  /\ \A address : ISA!After(address) = Inc(address)
  /\ \A address : ISA!Emitted(address) = address % AddressSpace
  /\ ISA!HL = (done.reg[H] % 64) * 256 + done.reg[L]
  /\ \A kind, address, data : ISA!BusCycle(kind, address, data) = Entry(kind, address, data)
BY DEF ISA!After, Inc, ISA!Emitted, ISA!HL, ISA!BusCycle, Entry, AddressSpace, H, L

(* The fetch of the instruction that is recorded. *)
LEMMA Fetched ==
  ASSUME CPUInv, Records
  PROVE  /\ ISA!Decoding[bus[1].data] = decoded_instruction
         /\ bus[1].data \in Opcodes
         /\ bus[1] = ISA!BusCycle(IF Jammed THEN "T1I" ELSE "PCI",
                                  ISA!Emitted(get_pc(done.stack)), bus[1].data)
         /\ First = IF Jammed THEN get_pc(done.stack) ELSE ISA!After(get_pc(done.stack))
<1>1. bus # <<>> /\ FetchOK
  BY DEF Records, CPUInv, ProgramInv, Settled, Steady
<1>2. /\ bus[1] = Entry(IF bus[1].control = "T1I" THEN "T1I" ELSE "PCI", Start % AddressSpace, bus[1].data)
      /\ bus[1].data \in Opcodes
      /\ decoded_instruction = Decoding[bus[1].data]
  BY <1>1 DEF FetchOK
<1>3. Jammed <=> bus[1].control = "T1I"
  BY <1>1 DEF Jammed
<1> QED
  BY <1>2, <1>3, SameDecoding, SameAddresses DEF First, Start

LEMMA BusTuple ==
  ASSUME Counted
  PROVE  /\ Len(bus) = 1 => bus = <<bus[1]>>
         /\ Len(bus) = 2 => bus = <<bus[1], bus[2]>>
         /\ Len(bus) = 3 => bus = <<bus[1], bus[2], bus[3]>>
<1> DEFINE x == bus[1]
           y == bus[2]
           z == bus[3]
<1>1. bus = <<>> \/ bus = <<x>> \/ bus = <<x, y>> \/ bus = <<x, y, z>>
  BY DEF Counted
<1> HIDE DEF x, y, z
<1>2. /\ Len(<<>>) = 0 /\ Len(<<x>>) = 1 /\ Len(<<x, y>>) = 2 /\ Len(<<x, y, z>>) = 3
  OBVIOUS
<1>3. /\ bus = <<>> => Len(bus) = 0
      /\ bus = <<x>> => Len(bus) = 1
      /\ bus = <<x, y>> => Len(bus) = 2
      /\ bus = <<x, y, z>> => Len(bus) = 3
  BY <1>2, Zenon
<1>4. /\ Len(bus) = 1 => bus = <<x>>
      /\ Len(bus) = 2 => bus = <<x, y>>
      /\ Len(bus) = 3 => bus = <<x, y, z>>
  BY <1>1, <1>3
<1> QED
  BY <1>4 DEF x, y, z

(* The groups of the instruction set. *)
LEMMA Groups ==
  /\ ISA!Group["Register"] =
       {"Lrr", "UNKNOWN", "INr", "DCr", "ALU_OPr", "RLC", "RRC", "RAL", "RAR", "HLT"}
  /\ ISA!Group["Immediate"] = {"LrI", "ALU_OPI"}
  /\ ISA!Group["Memory"] = {"LrM", "ALU_OPM"}
  /\ ISA!Group["Store"] = {"LMr", "LMI"}
  /\ ISA!Group["Jump"] = {"JMP", "JFc", "JTc"}
  /\ ISA!Group["Call"] = {"CAL", "CFc", "CTc"}
  /\ ISA!Group["Return"] = {"RET", "RFc", "RTc"}
BY DEF ISA!Group

LEMMA RegisterStep ==
  ASSUME CPUInv, Records, NEW lo, NEW hi,
         decoded_instruction.name \in
           {"Lrr", "UNKNOWN", "INr", "DCr", "ALU_OPr", "RLC", "RRC", "RAL", "RAR", "HLT"}
  PROVE  ISA!Execute(bus[1].data, Jammed, lo, hi)
<1> DEFINE i == decoded_instruction
           b == IF i.name \in {"Lrr", "ALU_OPr"} THEN done.reg[i.low] ELSE 0
<1>0. i.name \in ISA!Group["Register"]
  BY Groups
<1>1. /\ Len(Cycles) = 1 /\ Cycles[1].conditional = FALSE
      /\ Cycles[1].t4 \in {"IDLE", "Source_to_Reg_b"}
      /\ i.name \in {"Lrr", "ALU_OPr"} => Cycles[1].t4 = "Source_to_Reg_b"
      /\ Cycles[1].last = IF i.name = "HLT" THEN "T3" ELSE "T5"
  BY RegisterCycles DEF Cycles
<1>2. /\ Len(bus) = 1 /\ memory_cycle = 0 /\ Running = Cycles[1]
      /\ state = IF i.name = "HLT" THEN "T3" ELSE "T5"
  BY <1>1, Completed DEF Early
<1>3. bus = <<bus[1]>>
  BY <1>2, BusTuple DEF CPUInv, ProgramInv, Settled, Steady
<1>4. get_pc(address_stack) = First /\ Behind(address_stack) = Behind(done.stack)
  BY <1>1, <1>2 DEF CPUInv, ProgramInv, Settled, Steady, RingOK, PcNow, Moves, Returns
<1>5. i.name \in {"Lrr", "ALU_OPr"} => hidden_registers.b = b
  BY <1>1, <1>2 DEF CPUInv, ProgramInv, Settled, Steady, HiddenOK
<1>6. ISA!Compute(i, b)
  <2>1. /\ scratch_pad_memory = Computed(i, done.reg, done.flags, b).pad
        /\ flags = Computed(i, done.reg, done.flags, b).flags
    <3>1. CASE i.name = "HLT"
      BY <1>2, <3>1 DEF CPUInv, ProgramInv, Settled, Steady, PadOK, Computed
    <3>2. CASE i.name \in {"Lrr", "ALU_OPr"}
      BY <1>2, <1>5, <3>2 DEF CPUInv, ProgramInv, Settled, Steady, PadOK
    <3>3. CASE i.name \in {"UNKNOWN", "INr", "DCr", "RLC", "RRC", "RAL", "RAR"}
      <4>1. Computed(i, done.reg, done.flags, b) = Computed(i, done.reg, done.flags, hidden_registers.b)
        BY <3>3 DEF Computed
      <4> QED
        BY <1>2, <3>3, <4>1 DEF CPUInv, ProgramInv, Settled, Steady, PadOK
    <3> QED
      BY <3>1, <3>2, <3>3
  <2> QED
    BY <2>1, RecordedVariables, SameCompute
<1> QED
  BY <1>0, <1>3, <1>4, <1>6, RecordedVariables, Fetched DEF ISA!Execute

(* The bytes that the second and the third cycles leave on the bus. *)
Operands(lo, hi) ==
  /\ Len(bus) >= 2 => lo = bus[2].data
  /\ Len(bus) >= 3 => hi = bus[3].data

LEMMA ReadStep ==
  ASSUME CPUInv, Records, NEW lo, NEW hi, Operands(lo, hi),
         decoded_instruction.name \in {"LrI", "ALU_OPI", "LrM", "ALU_OPM"}
  PROVE  ISA!Execute(bus[1].data, Jammed, lo, hi)
<1> DEFINE i == decoded_instruction
           immediate == i.name \in {"LrI", "ALU_OPI"}
<1>0. i.name \in ISA!Group[IF immediate THEN "Immediate" ELSE "Memory"]
  BY Groups
<1>1. /\ Len(Cycles) = 2 /\ Cycles[2].last = "T5" /\ Cycles[2].conditional = FALSE
      /\ Cycles[2].control = "PCR"
      /\ Cycles[2].address = IF immediate THEN "PC" ELSE "HL"
      /\ Cycles[2].t3 = "Fetch_Data_to_Reg_b" /\ Cycles[2].t4 \in {"IDLE", "Out_Conditions_Flags"}
  <2> DEFINE c == instruction_table[i.name]
  <2>1. /\ Len(c) = 2 /\ c[2].last = "T5" /\ c[2].conditional = FALSE
        /\ c[2].control = IF i.name = "INP" THEN "PCC" ELSE "PCR"
        /\ c[2].address = IF i.name = "INP" THEN "A_b" ELSE IF immediate THEN "PC" ELSE "HL"
        /\ c[2].t3 = "Fetch_Data_to_Reg_b" /\ c[2].t4 \in {"IDLE", "Out_Conditions_Flags"}
    BY ReadCycles, ZenonT(30)
  <2>2. Cycles = c
    BY DEF Cycles
  <2>3. i.name # "INP"
    OBVIOUS
  <2> HIDE DEF c, i, immediate
  <2> QED
    BY <2>1, <2>2, <2>3
<1> USE DEF CPUInv, ProgramInv, Settled, Steady
<1>2. Len(bus) = 2 /\ memory_cycle = 1 /\ Running = Cycles[2] /\ state = "T5"
  BY <1>1, Completed DEF Early
<1>3. bus = <<bus[1], bus[2]>> /\ lo = bus[2].data
  BY <1>2, BusTuple DEF Operands
<1>4. bus[2] = Entry("PCR", IF immediate THEN First % AddressSpace
                            ELSE (done.reg[H] % 64) * 256 + done.reg[L], lo)
  BY <1>1, <1>2, <1>3 DEF OperandOK, AddressAt, PcBefore
<1>5. /\ get_pc(address_stack) = IF immediate THEN Inc(First) ELSE First
      /\ Behind(address_stack) = Behind(done.stack)
  BY <1>1, <1>2 DEF RingOK, PcNow, Moves, Returns
<1>6. hidden_registers.b = lo
  BY <1>1, <1>2, <1>3 DEF HiddenOK
<1>7. ISA!Compute(i, lo)
  <2>1. /\ scratch_pad_memory = Computed(i, done.reg, done.flags, lo).pad
        /\ flags = Computed(i, done.reg, done.flags, lo).flags
    BY <1>2, <1>6 DEF PadOK
  <2> HIDE DEF CPUInv, ProgramInv, Settled, Steady
  <2> QED
    BY <2>1, RecordedVariables, SameCompute
<1>8. bus[2] = ISA!BusCycle("PCR", IF immediate THEN ISA!Emitted(First) ELSE ISA!HL, lo)
  BY <1>4, SameAddresses
<1>9. get_pc(address_stack) = IF immediate THEN ISA!After(First) ELSE First
  BY <1>5, SameAddresses
<1> HIDE DEF CPUInv, ProgramInv, Settled, Steady
<1> QED
  BY <1>0, <1>3, <1>5, <1>7, <1>8, <1>9, RecordedVariables, Fetched DEF ISA!Execute

LEMMA StoreStep ==
  ASSUME CPUInv, Records, NEW lo, NEW hi, Operands(lo, hi),
         decoded_instruction.name \in {"LMr", "LMI"}
  PROVE  ISA!Execute(bus[1].data, Jammed, lo, hi)
<1> DEFINE i == decoded_instruction
           hl == (done.reg[H] % 64) * 256 + done.reg[L]
<1>0. i.name \in ISA!Group["Store"]
  BY Groups
<1>1. /\ Len(Cycles) = IF i.name = "LMI" THEN 3 ELSE 2
      /\ i.name = "LMI" => Cycles[2].control = "PCR" /\ Cycles[2].address = "PC"
      /\ Cycles[Len(Cycles)].last = "T3" /\ Cycles[Len(Cycles)].conditional = FALSE
      /\ Cycles[Len(Cycles)].control = "PCW" /\ Cycles[Len(Cycles)].address = "HL"
  BY WriteCycles DEF Cycles
<1> USE DEF CPUInv, ProgramInv, Settled, Steady
<1>2. /\ state = "T3" /\ Len(bus) = Len(Cycles) /\ memory_cycle + 1 = Len(Cycles)
      /\ memory_cycle \in Nat
  BY <1>1, Completed
<1>3. scratch_pad_memory = done.reg /\ flags = done.flags
  BY <1>2 DEF PadOK
<1>4. Behind(address_stack) = Behind(done.stack) /\ get_pc(address_stack) = PcNow
  BY <1>2 DEF RingOK, Returns
<1>5. CASE i.name = "LMr"
  <2>1. Len(bus) = 2 /\ memory_cycle = 1 /\ Cycles[2].control = "PCW" /\ Cycles[2].address = "HL"
    BY <1>1, <1>2, <1>5
  <2>2. bus = <<bus[1], bus[2]>> /\ bus[2] = Entry("PCW", hl, done.reg[i.low])
    BY <2>1, BusTuple DEF OperandOK, AddressAt
  <2>3. get_pc(address_stack) = First
    BY <1>4, <2>1 DEF PcNow
  <2>4. bus[2] = ISA!BusCycle("PCW", ISA!HL, done.reg[i.low])
    BY <2>2, SameAddresses
  <2> HIDE DEF CPUInv, ProgramInv, Settled, Steady
  <2> QED
    BY <1>0, <1>3, <1>4, <1>5, <2>2, <2>3, <2>4, RecordedVariables, Fetched DEF ISA!Execute
<1>6. CASE i.name = "LMI"
  <2>1. /\ Len(bus) = 3 /\ memory_cycle = 2
        /\ Cycles[2].control = "PCR" /\ Cycles[2].address = "PC"
        /\ Cycles[3].control = "PCW" /\ Cycles[3].address = "HL"
    BY <1>1, <1>2, <1>6
  <2>2. bus = <<bus[1], bus[2], bus[3]>> /\ lo = bus[2].data
    BY <2>1, BusTuple DEF Operands
  <2>3. bus[2] = Entry("PCR", First % AddressSpace, lo)
    BY <2>1, <2>2 DEF OperandOK, AddressAt, PcBefore
  <2>4. bus[3] = Entry("PCW", hl, lo)
    BY <2>1, <2>2 DEF OperandOK, AddressAt
  <2>5. get_pc(address_stack) = Inc(First)
    BY <1>4, <2>1 DEF PcNow
  <2>6. /\ bus[2] = ISA!BusCycle("PCR", ISA!Emitted(First), lo)
        /\ bus[3] = ISA!BusCycle("PCW", ISA!HL, lo)
        /\ get_pc(address_stack) = ISA!After(First)
    BY <2>3, <2>4, <2>5, SameAddresses
  <2> HIDE DEF CPUInv, ProgramInv, Settled, Steady
  <2> QED
    BY <1>0, <1>3, <1>4, <1>6, <2>2, <2>6, RecordedVariables, Fetched DEF ISA!Execute
<1> QED
  BY <1>5, <1>6

LEMMA PortStep ==
  ASSUME CPUInv, Records, NEW lo, NEW hi, Operands(lo, hi),
         decoded_instruction.name \in {"INP", "OUT"}
  PROVE  ISA!Execute(bus[1].data, Jammed, lo, hi)
<1> DEFINE i == decoded_instruction
           port == (bus[1].data % 64) * 256 + done.reg[0]
<1>1. /\ Len(Cycles) = 2 /\ Cycles[2].conditional = FALSE
      /\ Cycles[2].last = IF i.name = "INP" THEN "T5" ELSE "T3"
      /\ Cycles[2].control = "PCC" /\ Cycles[2].address = "A_b"
      /\ i.name = "INP" => Cycles[2].t3 = "Fetch_Data_to_Reg_b"
                           /\ Cycles[2].t4 \in {"IDLE", "Out_Conditions_Flags"}
  <2>1. CASE i.name = "INP"
    BY <2>1, ReadCycles, ZenonT(30) DEF Cycles
  <2>2. CASE i.name = "OUT"
    <3>1. Len(Cycles) = 2
      BY <2>2, WriteCycles DEF Cycles
    <3> QED
      BY <2>2, <3>1, WriteCycles DEF Cycles
  <2> QED
    BY <2>1, <2>2
<1> USE DEF CPUInv, ProgramInv, Settled, Steady
<1>2. /\ Len(bus) = 2 /\ memory_cycle = 1 /\ Running = Cycles[2]
      /\ state = IF i.name = "INP" THEN "T5" ELSE "T3"
  BY <1>1, Completed DEF Early
<1>3. bus = <<bus[1], bus[2]>> /\ lo = bus[2].data
  BY <1>2, BusTuple DEF Operands
<1>4. bus[2] = Entry("PCC", port, lo)
  BY <1>1, <1>2, <1>3 DEF OperandOK, AddressAt, A
<1>5. get_pc(address_stack) = First /\ Behind(address_stack) = Behind(done.stack)
  BY <1>1, <1>2 DEF RingOK, PcNow, Moves, Returns
<1>6. bus[2] = ISA!BusCycle("PCC", port, lo)
  BY <1>4, SameAddresses
<1>7. CASE i.name = "INP"
  <2>1. hidden_registers.b = lo
    BY <1>1, <1>2, <1>3, <1>7 DEF HiddenOK
  <2>2. scratch_pad_memory = [done.reg EXCEPT ![0] = lo] /\ flags = done.flags
    BY <1>2, <1>7, <2>1 DEF PadOK, Computed, A
  <2> HIDE DEF CPUInv, ProgramInv, Settled, Steady
  <2>3. /\ done'.bus = <<bus[1], bus[2]>> /\ done'.reg = scratch_pad_memory /\ done'.flags = flags
        /\ get_pc(done.stack)' = First /\ Behind(done.stack)' = Behind(done.stack)
    BY <1>3, <1>5, RecordedVariables
  <2> QED
    BY <1>6, <1>7, <2>2, <2>3, Fetched, Zenon DEF ISA!Execute
<1>8. CASE i.name = "OUT"
  <2>1. scratch_pad_memory = done.reg /\ flags = done.flags
    BY <1>2, <1>8 DEF PadOK
  <2> HIDE DEF CPUInv, ProgramInv, Settled, Steady
  <2>3. /\ done'.bus = <<bus[1], bus[2]>> /\ done'.reg = scratch_pad_memory /\ done'.flags = flags
        /\ get_pc(done.stack)' = First /\ Behind(done.stack)' = Behind(done.stack)
    BY <1>3, <1>5, RecordedVariables
  <2> QED
    BY <1>6, <1>8, <2>1, <2>3, Fetched, Zenon DEF ISA!Execute
<1> QED
  BY <1>7, <1>8

(* Whether a condition was met. *)
LEMMA TakenIs ==
  ASSUME CPUInv, Records
  PROVE  ISA!Holds(decoded_instruction) <=> Met(decoded_instruction, done.flags)
BY Completed, PartsOfDecoded, SameHolds

LEMMA ReturnStep ==
  ASSUME CPUInv, Records, NEW lo, NEW hi,
         decoded_instruction.name \in {"RET", "RFc", "RTc"}
  PROVE  ISA!Execute(bus[1].data, Jammed, lo, hi)
<1> DEFINE i == decoded_instruction
           taken == ISA!Taken(i)
<1>0. i.name \in ISA!Group["Return"]
  BY Groups
<1>1. /\ Len(Cycles) = 1 /\ Cycles[1].last = "T5" /\ Cycles[1].t4 = "Pop_Stack"
      /\ Cycles[1].conditional = IF i.name \in {"RFc", "RTc"} THEN TRUE ELSE FALSE
  BY ReturnCycles DEF Cycles
<1> USE DEF CPUInv, ProgramInv, Settled, Steady
<1>2. /\ Len(bus) = 1 /\ memory_cycle = 0 /\ Running = Cycles[1]
      /\ state = IF Early THEN "T3" ELSE "T5"
  BY <1>1, Completed
<1>3. bus = <<bus[1]>>
  BY <1>2, BusTuple
<1>4. Early <=> ~taken
  BY <1>1, <1>2, TakenIs DEF Early, ISA!Taken
<1>5. scratch_pad_memory = done.reg /\ flags = done.flags
  BY <1>2 DEF PadOK, Computed
<1>6. CASE taken
  <2>1. state = "T5"
    BY <1>2, <1>4, <1>6
  <2>2. /\ get_pc(address_stack) = Behind(done.stack)[1]
        /\ Behind(address_stack) = Append(Tail(Behind(done.stack)), First)
    BY <1>1, <1>2, <2>1 DEF RingOK, Returns
  <2> HIDE DEF CPUInv, ProgramInv, Settled, Steady
  <2> QED
    BY <1>0, <1>3, <1>5, <1>6, <2>2, RecordedVariables, Fetched DEF ISA!Execute
<1>7. CASE ~taken
  <2>1. state = "T3"
    BY <1>2, <1>4, <1>7
  <2>2. get_pc(address_stack) = First /\ Behind(address_stack) = Behind(done.stack)
    BY <1>2, <2>1 DEF RingOK, PcNow, Returns
  <2> HIDE DEF CPUInv, ProgramInv, Settled, Steady
  <2> QED
    BY <1>0, <1>3, <1>5, <1>7, <2>2, RecordedVariables, Fetched DEF ISA!Execute
<1> QED
  BY <1>6, <1>7

LEMMA RestartStep ==
  ASSUME CPUInv, Records, NEW lo, NEW hi, decoded_instruction.name = "RST"
  PROVE  ISA!Execute(bus[1].data, Jammed, lo, hi)
<1> DEFINE i == decoded_instruction
<1>1. /\ Len(Cycles) = 1 /\ Cycles[1].last = "T5" /\ Cycles[1].t4 = "Push_And_Reg_a_to_PC_H"
      /\ Cycles[1].conditional = FALSE
  BY ReturnCycles DEF Cycles
<1> USE DEF CPUInv, ProgramInv, Settled, Steady
<1>2. Len(bus) = 1 /\ memory_cycle = 0 /\ Running = Cycles[1] /\ state = "T5"
  BY <1>1, Completed DEF Early
<1>3. bus = <<bus[1]>>
  BY <1>2, BusTuple
<1>4. scratch_pad_memory = done.reg /\ flags = done.flags
  BY <1>2 DEF PadOK, Computed
<1>5. hidden_registers.a = 0 /\ i.medium \in 0 .. 7
  BY <1>2, Completed, PartsOfDecoded DEF HiddenOK
<1>6. /\ get_pc(address_stack) = hidden_registers.a * 256 + LowByte
      /\ Behind(address_stack) = <<PcNow>> \o SubSeq(Behind(done.stack), 1, Depth - 2)
  BY <1>1, <1>2 DEF RingOK, Moves, Returns
<1>7. get_pc(address_stack) = 8 * i.medium
  BY <1>5, <1>6 DEF LowByte
<1>8. PcNow = First
  BY <1>2 DEF PcNow
<1> HIDE DEF CPUInv, ProgramInv, Settled, Steady
<1> QED
  BY <1>3, <1>4, <1>6, <1>7, <1>8, RecordedVariables, Fetched DEF ISA!Execute

LEMMA JumpStep ==
  ASSUME CPUInv, Records, NEW lo, NEW hi, Operands(lo, hi),
         decoded_instruction.name \in {"JMP", "JFc", "JTc", "CAL", "CFc", "CTc"}
  PROVE  ISA!Execute(bus[1].data, Jammed, lo, hi)
<1> DEFINE i == decoded_instruction
           taken == ISA!Taken(i)
           calls == i.name \in {"CAL", "CFc", "CTc"}
<1>0. i.name \in ISA!Group[IF calls THEN "Call" ELSE "Jump"]
  BY Groups
<1>1. /\ Len(Cycles) = 3
      /\ Cycles[2].control = "PCR" /\ Cycles[2].address = "PC"
      /\ Cycles[3].control = "PCR" /\ Cycles[3].address = "PC"
      /\ Cycles[3].t3 = "Fetch_Data_to_Reg_a" /\ Cycles[3].last = "T5"
      /\ Cycles[3].t4 = IF calls THEN "Push_And_Reg_a_to_PC_H" ELSE "Reg_a_to_PC_H"
      /\ Cycles[3].conditional = IF i.name \in {"JFc", "JTc", "CFc", "CTc"} THEN TRUE ELSE FALSE
  <2> DEFINE c == instruction_table[i.name]
  <2>1. /\ Len(c) = 3
        /\ c[2].control = "PCR" /\ c[2].address = "PC"
        /\ c[3].control = "PCR" /\ c[3].address = "PC"
        /\ c[3].t3 = "Fetch_Data_to_Reg_a" /\ c[3].last = "T5"
        /\ c[3].t4 = IF i.name \in {"JMP", "JFc", "JTc"}
                     THEN "Reg_a_to_PC_H" ELSE "Push_And_Reg_a_to_PC_H"
        /\ c[3].conditional = IF i.name \in {"JFc", "JTc", "CFc", "CTc"} THEN TRUE ELSE FALSE
    BY JumpCycles, ZenonT(30)
  <2>2. Cycles = c
    BY DEF Cycles
  <2>3. i.name \in {"JMP", "JFc", "JTc"} <=> ~calls
    OBVIOUS
  <2> HIDE DEF c, calls
  <2> QED
    BY <2>1, <2>2, <2>3
<1> USE DEF CPUInv, ProgramInv, Settled, Steady
<1>2. /\ Len(bus) = 3 /\ memory_cycle = 2 /\ Running = Cycles[3]
      /\ state = IF Early THEN "T3" ELSE "T5"
  BY <1>1, Completed
<1>3. bus = <<bus[1], bus[2], bus[3]>> /\ lo = bus[2].data /\ hi = bus[3].data
  BY <1>2, BusTuple DEF Operands
<1>4. /\ bus[2] = Entry("PCR", First % AddressSpace, lo)
      /\ bus[3] = Entry("PCR", Inc(First) % AddressSpace, hi)
  BY <1>1, <1>2, <1>3 DEF OperandOK, AddressAt, PcBefore
<1>5. Early <=> ~taken
  BY <1>1, <1>2, TakenIs DEF Early, ISA!Taken
<1>6. scratch_pad_memory = done.reg /\ flags = done.flags
  BY <1>2 DEF PadOK, Computed
<1>7. PcNow = Inc(Inc(First))
  BY <1>1, <1>2 DEF PcNow
<1>8. /\ bus[2] = ISA!BusCycle("PCR", ISA!Emitted(First), lo)
      /\ bus[3] = ISA!BusCycle("PCR", ISA!Emitted(ISA!After(First)), hi)
      /\ PcNow = ISA!After(ISA!After(First))
  BY <1>4, <1>7, SameAddresses
<1>9. CASE taken
  <2>1. state = "T5"
    BY <1>2, <1>5, <1>9
  <2>2. LowByte = lo /\ hidden_registers.a = hi
    BY <1>1, <1>2, <1>3 DEF LowByte, HiddenOK
  <2>3. get_pc(address_stack) = hi * 256 + lo
    BY <1>1, <1>2, <2>1, <2>2 DEF RingOK, Moves
  <2>4. CASE calls
    <3>1. Behind(address_stack) = <<PcNow>> \o SubSeq(Behind(done.stack), 1, Depth - 2)
      BY <1>1, <1>2, <2>1, <2>4 DEF RingOK, Returns
    <3> HIDE DEF CPUInv, ProgramInv, Settled, Steady
    <3> QED
      BY <1>0, <1>3, <1>6, <1>8, <1>9, <2>3, <2>4, <3>1, RecordedVariables, Fetched
         DEF ISA!Execute
  <2>5. CASE ~calls
    <3>1. Behind(address_stack) = Behind(done.stack)
      BY <1>1, <1>2, <2>1, <2>5 DEF RingOK, Returns
    <3> HIDE DEF CPUInv, ProgramInv, Settled, Steady
    <3> QED
      BY <1>0, <1>3, <1>6, <1>8, <1>9, <2>3, <2>5, <3>1, RecordedVariables, Fetched
         DEF ISA!Execute
  <2> QED
    BY <2>4, <2>5
<1>10. CASE ~taken
  <2>1. state = "T3"
    BY <1>2, <1>5, <1>10
  <2>2. get_pc(address_stack) = PcNow /\ Behind(address_stack) = Behind(done.stack)
    BY <2>1 DEF RingOK, Returns
  <2> HIDE DEF CPUInv, ProgramInv, Settled, Steady
  <2> QED
    BY <1>0, <1>3, <1>6, <1>8, <1>10, <2>2, RecordedVariables, Fetched DEF ISA!Execute
<1> QED
  BY <1>9, <1>10

(* The instructions, by the bus cycles they make. *)
LEMMA InstructionGroups ==
  InstructionName =
    {"Lrr", "UNKNOWN", "INr", "DCr", "ALU_OPr", "RLC", "RRC", "RAL", "RAR", "HLT"}
    \cup {"LrI", "ALU_OPI", "LrM", "ALU_OPM"} \cup {"LMr", "LMI"} \cup {"INP", "OUT"}
    \cup {"RET", "RFc", "RTc"} \cup {"RST"} \cup {"JMP", "JFc", "JTc", "CAL", "CFc", "CTc"}
BY DEF InstructionName, instruction_table

(* The step that begins the next instruction, or enters STOPPED, is a step *)
(* of the instruction set: the instruction that has just ended.            *)
LEMMA RecordIsAnInstruction ==
  ASSUME CPUInv, Records
  PROVE  ISA!Next
<1> DEFINE lo == ISA!ReadAt(2)
           hi == ISA!ReadAt(3)
<1>1. done'.bus = bus /\ bus # <<>>
  BY RecordedVariables DEF Records
<1>2. DOMAIN bus = 1 .. Len(bus) /\ Len(bus) \in 1 .. 3
  BY <1>1, BusTuple DEF Counted, CPUInv, ProgramInv, Settled, Steady
<1>3. /\ ISA!ReadAt(1) = bus[1].data
      /\ Len(bus) >= 2 => lo = bus[2].data
      /\ Len(bus) >= 3 => hi = bus[3].data
  BY <1>1, <1>2 DEF ISA!ReadAt
<1>4. Operands(lo, hi)
  BY <1>3 DEF Operands
<1> HIDE DEF lo, hi
<1>5. decoded_instruction.name \in InstructionName
  BY Completed
<1>6. ISA!Execute(bus[1].data, Jammed, lo, hi)
  BY <1>4, <1>5, InstructionGroups, RegisterStep, ReadStep, StoreStep, PortStep, ReturnStep,
     RestartStep, JumpStep
<1>7. Jammed \in BOOLEAN /\ bus[1].data \in Opcodes
  BY Fetched DEF Jammed
<1>8. ISA!Execute(ISA!ReadAt(1), Jammed, ISA!ReadAt(2), ISA!ReadAt(3))
  BY <1>3, <1>6 DEF lo, hi
<1> QED
  BY <1>1, <1>3, <1>7, <1>8 DEF ISA!Next

(* Every other T-state, event and signal leaves its variables alone. *)
LEMMA OtherStepsStutter ==
  ASSUME [CPUNext]_vars, ~Records
  PROVE  UNCHANGED ISA!vars
<1>1. done' = done
  <2>1. CASE CPUEnterState
    BY <2>1 DEF CPUEnterState, Record, Records
  <2>2. CASE CPUNext /\ ~CPUEnterState
    BY <2>2 DEF CPUNext, CPUPhase21, CPUDataIn, CPUSyncFalls, history
  <2>3. CASE UNCHANGED vars
    BY <2>3 DEF vars, history
  <2> QED
    BY <2>1, <2>2, <2>3
<1> QED
  BY <1>1 DEF ISA!vars, get_pc, Behind

LEMMA StepImplementsISA == CPUInv /\ [CPUNext]_vars => [ISA!Next]_(ISA!vars)
<1>1. CASE Records
  BY <1>1, RecordIsAnInstruction
<1>2. CASE ~Records
  BY <1>2, OtherStepsStutter
<1> QED
  BY <1>1, <1>2

LEMMA InitImplementsISA == CPUInit => ISA!Init
<1> SUFFICES ASSUME CPUInit PROVE ISA!Init
  OBVIOUS
<1>1. /\ address_stack = clear_stack /\ scratch_pad_memory \in PowerOnRegisters
      /\ flags = ClearFlags
      /\ done = [stack |-> address_stack, reg |-> scratch_pad_memory, flags |-> flags, bus |-> <<>>]
  BY DEF CPUInit
<1>2. /\ done.stack = clear_stack /\ done.reg \in PowerOnRegisters
      /\ done.flags = ClearFlags /\ done.bus = <<>>
  BY <1>1
<1>3. ISA!ClearFlags = ClearFlags
  BY Zenon DEF ISA!ClearFlags, ClearFlags, ISA!Flag, Flag
<1>4. get_pc(done.stack) = 0 /\ Behind(done.stack) = [j \in 1 .. Depth - 1 |-> 0]
  BY <1>2, Cleared
<1> QED
  BY <1>2, <1>3, <1>4 DEF ISA!Init

(* The inductive invariant of the whole CPU: at each point of each T-state *)
(* of each instruction, what the registers, the ring of program counters,  *)
(* the hidden registers and the bus cycles hold, as a function of what     *)
(* they held when the instruction began and of the bytes read since.       *)
THEOREM CPUInvariant == CPUSpec => []CPUInv
BY InitCPUInv, NextCPUInv, PTL DEF CPUSpec

(* The T-state machine implements the instruction set, whatever the ring's *)
(* depth, the programs, the bytes read, the waits and the interrupts: each *)
(* instruction has the effects on the registers, the flags and the program *)
(* counters, and the bus cycles at the addresses, that Isa8008.tla states. *)
THEOREM CPUImplementsISA == CPUSpec => ImplementsISA
BY CPUInvariant, InitImplementsISA, StepImplementsISA, PTL DEF CPUSpec, ImplementsISA, ISA!Spec
===============================================================================
