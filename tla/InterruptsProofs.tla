--------------------------- MODULE InterruptsProofs ---------------------------
(***************************************************************************)
(* Proofs about Interrupts.tla, for any program, any moment of the keys,   *)
(* of the real time clock and of READY.                                    *)
(***************************************************************************)
EXTENDS InterruptsProperties, InstructionProofs, TLAPS

Typed ==
  /\ counter \in 0 .. CountBound
  /\ bus_requests \subseteq Levels
  /\ requested_interrupts \subseteq Levels
  /\ interrupt_pending \in BOOLEAN
  /\ applying_interrupt \in BOOLEAN
  /\ t1i_cycle \in BOOLEAN

(* A T-state is decided by the first edge of phase 1 until it is entered. *)
Decided ==
  IF phase \in {"sync_rises", "state"}
  THEN state \in {"T1", "T1I"} => next_state = "T2"
  ELSE next_state = "none"

(* From T1I until the next T1 the lines are not sampled, and after T1I     *)
(* nothing is being applied: what the jam removes is not what is applied.  *)
Protected ==
  /\ state = "T1I" => instruction_protection > 0 /\ interrupt_owner # "controller"
  /\ t1i_cycle /\ state \notin {"T1", "T1I"} =>
       instruction_protection > 0 /\ ~applying_interrupt
  /\ t1i_cycle /\ state = "T1" => phase \in {"phase_21", "data_in"}

(* The automatic start owns the pin between its two edges only. *)
StartOwns ==
  interrupt_owner = "automatic_start" => counter \in StartEdge .. ReadyEdge - 1

(* The inductive invariant. *)
IInv ==
  Typed /\ Decided /\ Protected /\ StartOwns /\ ClashOnlyAtStart /\ AppliedIsKept

-----------------------------------------------------------------------------
(* The first state of the invariant. *)
LEMMA InitIInv == InterruptsInit => IInv
<1> SUFFICES ASSUME InterruptsInit PROVE IInv
  OBVIOUS
<1>1. /\ phase = "phase_11" /\ state = "STOPPED" /\ next_state = "none"
      /\ interrupt_pending = FALSE /\ counter = 0 /\ interrupt_owner = "nobody"
      /\ bus_requests = {} /\ requested_interrupts = {} /\ applying_interrupt = FALSE
      /\ t1i_cycle = FALSE /\ clash = FALSE
  BY DEF InterruptsInit, Init, CardsInit
<1>2. Typed
  <2>1. counter \in 0 .. CountBound
    BY <1>1 DEF CountBound, ReadyEdge
  <2> QED
    BY <1>1, <2>1 DEF Typed
<1>3. Decided /\ Protected
  BY <1>1 DEF Decided, Protected
<1>4. StartOwns /\ ClashOnlyAtStart /\ AppliedIsKept
  BY <1>1 DEF StartOwns, ClashOnlyAtStart, AppliedIsKept
<1> QED
  BY <1>2, <1>3, <1>4 DEF IInv

(* What is applied, or jammed, is one of the requests. *)
LEMMA LowestIsRequested ==
  ASSUME NEW requested \in SUBSET Levels, masked_requested(requested) # {}
  PROVE  /\ lowest_level_interrupt(requested) \in masked_requested(requested)
         /\ lowest_level_interrupt(requested) \in requested
<1> DEFINE masked == masked_requested(requested)
<1>1. masked \subseteq requested /\ masked \subseteq {0, 7}
  BY DEF masked_requested, Levels, INIT, RTC
<1>2. PICK least \in masked : \A level \in masked : least =< level
  <2>1. CASE 0 \in masked
    BY <1>1, <2>1
  <2>2. CASE 0 \notin masked
    <3>1. masked = {7}
      BY <1>1, <2>2
    <3> QED
      BY <3>1
  <2> QED
    BY <2>1, <2>2
<1>3. Min(masked) \in masked
  BY <1>2 DEF Min
<1> QED
  BY <1>1, <1>3 DEF lowest_level_interrupt

-----------------------------------------------------------------------------
(* The first edge of phase 1 takes the interrupt that is pending, or leaves *)
(* it pending.                                                              *)
LEMMA Phase11IInv ==
  ASSUME IInv, CardsPhase11
  PROVE  IInv'
<1> USE DEF IInv
<1>1. /\ phase = "phase_11" /\ phase' = "sync_rises" /\ state' = state
      /\ UNCHANGED <<counter, interrupt_owner, bus_requests, controller, t1i_cycle, clash>>
  BY DEF CardsPhase11, Phase11
<1>2. interrupt_pending \in BOOLEAN
  BY DEF Typed
<1>3. /\ interrupt_pending' \in BOOLEAN
      /\ state \in {"T1", "T1I"} => next_state' = "T2"
      /\ interrupt_pending => interrupt_pending' \/ next_state' = "T1I"
  <2>1. CASE \/ state \in {"T1", "T1I"} /\ GoTo("T2")
             \/ state = "T2" /\ GoTo(IF ready THEN "T3" ELSE "WAIT")
             \/ state = "WAIT" /\ GoTo(IF ready THEN "T3" ELSE "none")
             \/ state = "T3" /\ ~cycle_ended /\ GoTo("T4")
             \/ state = "T4" /\ ~cycle_ended /\ GoTo("T5")
    BY <1>2, <2>1 DEF GoTo
  <2>2. CASE LeaveStopped
    BY <1>2, <2>2 DEF LeaveStopped
  <2>3. CASE EndCycle
    BY <1>2, <2>3, Zenon DEF EndCycle, NextCycle
  <2>4. CASE EndInstruction
    BY <1>2, <2>4, Zenon DEF EndInstruction, NextCycle
  <2>5. CASE Halt
    BY <1>2, <2>5 DEF Halt
  <2> QED
    BY <2>1, <2>2, <2>3, <2>4, <2>5 DEF CardsPhase11, Phase11
<1>4. next_state = "none"
  BY <1>1 DEF Decided
<1>5. Typed' /\ StartOwns' /\ ClashOnlyAtStart'
  BY <1>1, <1>3 DEF Typed, StartOwns, ClashOnlyAtStart, automatic_start_is_ready, controller
<1>6. Decided' /\ Protected'
  BY <1>1, <1>3 DEF Decided, Protected, controller
<1>7. AppliedIsKept'
  BY <1>1, <1>3, <1>4 DEF AppliedIsKept, controller
<1> QED
  BY <1>5, <1>6, <1>7

(* The automatic start and the controller on the rise of phase 1. *)
LEMMA OnPhase1IInv ==
  ASSUME IInv, ~clash, OnPhase1
  PROVE  IInv'
<1> USE DEF IInv
<1> DEFINE requested == IF is_instruction_protected
                        THEN requested_interrupts
                        ELSE requested_interrupts \cup bus_requests
           applies == ~is_instruction_protected /\ Applies(requested)
           edge == counter + 1
           owner == OwnerAfterStart(edge)
<1>1. /\ requested_interrupts' = requested
      /\ counter' = Min({edge, CountBound})
      /\ applying_interrupt' = (applying_interrupt \/ applies)
      /\ current_interrupt' = IF applies THEN lowest_level_interrupt(requested)
                                         ELSE current_interrupt
      /\ interrupt_owner' = IF applies THEN "controller" ELSE owner
      /\ interrupt_pending' = (interrupt_pending \/ applies \/ edge = StartEdge)
      /\ clash' = \/ edge = StartEdge /\ interrupt_owner = "controller"
                  \/ applies /\ owner = "automatic_start"
  BY DEF OnPhase1
<1>2. UNCHANGED <<phase, sequencing, bus_requests, instruction_protection, t1i_cycle>>
  BY DEF OnPhase1
<1>3. requested \subseteq Levels
  BY DEF Typed
<1>4. applies => /\ ~applying_interrupt /\ ~(instruction_protection > 0)
                 /\ lowest_level_interrupt(requested) \in requested
  BY <1>3, LowestIsRequested DEF Applies, is_instruction_protected
<1>5. /\ counter \in Nat /\ counter' \in 0 .. CountBound
      /\ edge < ReadyEdge => counter' = edge
  <2>1. counter \in 0 .. 23
    BY DEF Typed, CountBound, ReadyEdge
  <2>2. edge \in 1 .. 24
    BY <2>1
  <2>3. counter' \in {edge, 23} /\ counter' =< edge /\ counter' =< 23
    <3>1. \E x \in {edge, 23} : \A y \in {edge, 23} : x =< y
      BY <2>2
    <3>2. counter' = Min({edge, 23})
      BY <1>1 DEF CountBound, ReadyEdge
    <3> HIDE DEF edge
    <3> QED
      BY <3>1, <3>2 DEF Min
  <2> QED
    BY <2>1, <2>2, <2>3 DEF CountBound, ReadyEdge
<1> HIDE DEF requested, applies, owner
<1>6. interrupt_pending' \in BOOLEAN /\ applying_interrupt' \in BOOLEAN
  BY <1>1, Zenon
<1>7. Typed'
  BY <1>1, <1>2, <1>3, <1>5, <1>6 DEF Typed
<1>8. Decided'
  BY <1>2 DEF Decided, sequencing
<1>9. owner = "controller" => interrupt_owner = "controller"
  BY DEF owner, OwnerAfterStart
<1>10. owner = "automatic_start" => edge \in StartEdge .. ReadyEdge - 1
  <2>1. CASE edge = StartEdge
    BY <2>1 DEF StartEdge, ReadyEdge
  <2>2. CASE edge = ReadyEdge
    BY <2>2 DEF owner, OwnerAfterStart, StartEdge, ReadyEdge
  <2>3. CASE edge # StartEdge /\ edge # ReadyEdge
    <3>1. owner = interrupt_owner
      BY <2>3 DEF owner, OwnerAfterStart
    <3> QED
      BY <2>3, <3>1, <1>5 DEF StartOwns, StartEdge, ReadyEdge
  <2> QED
    BY <2>1, <2>2, <2>3
<1>11. Protected'
  <2>1. CASE applies
    BY <1>2, <1>4, <2>1 DEF Protected, sequencing
  <2>2. CASE ~applies
    <3>1. interrupt_owner' = owner /\ (applying_interrupt' <=> applying_interrupt)
      BY <1>1, <2>2
    <3> QED
      BY <1>2, <1>9, <3>1 DEF Protected, sequencing
  <2> QED
    BY <2>1, <2>2
<1>12. StartOwns'
  <2>1. interrupt_owner' = "automatic_start" => owner = "automatic_start"
    BY <1>1
  <2>2. owner = "automatic_start" => counter' = edge
    BY <1>5, <1>10 DEF StartEdge, ReadyEdge
  <2> QED
    BY <1>10, <2>1, <2>2 DEF StartOwns
<1>13. ClashOnlyAtStart'
  <2>1. clash' => edge \in StartEdge .. ReadyEdge - 1
    <3>1. clash' => edge = StartEdge \/ owner = "automatic_start"
      BY <1>1
    <3>2. edge = StartEdge => edge \in StartEdge .. ReadyEdge - 1
      BY DEF StartEdge, ReadyEdge
    <3> QED
      BY <1>10, <3>1, <3>2
  <2> QED
    BY <1>5, <2>1 DEF ClashOnlyAtStart, automatic_start_is_ready, StartEdge, ReadyEdge
<1>14. AppliedIsKept'
  <2>1. CASE applies
    <3>1. applying_interrupt' /\ interrupt_pending'
      BY <1>1, <2>1
    <3> QED
      BY <1>1, <1>4, <2>1, <3>1 DEF AppliedIsKept
  <2>2. CASE ~applies
    <3>1. /\ interrupt_owner' = owner /\ current_interrupt' = current_interrupt
          /\ applying_interrupt' <=> applying_interrupt
          /\ interrupt_pending => interrupt_pending'
      BY <1>1, <2>2
    <3>2. requested_interrupts \subseteq requested_interrupts'
      BY <1>1 DEF requested
    <3> QED
      BY <1>2, <1>9, <3>1, <3>2 DEF AppliedIsKept, sequencing
  <2> QED
    BY <2>1, <2>2
<1> QED
  BY <1>7, <1>8, <1>11, <1>12, <1>13, <1>14

(* The acknowledgements and the protection, as the T-state is entered. *)
LEMMA EnterStateIInv ==
  ASSUME IInv, CardsEnterState
  PROVE  IInv'
<1> USE DEF IInv
<1>1. /\ phase = "state" /\ phase' = "phase_21"
      /\ state' = StateAfter /\ next_state' = "none"
      /\ UNCHANGED <<interrupt_pending, counter, requested_interrupts, current_interrupt,
                     t1i_cycle, clash>>
  BY DEF CardsEnterState, EnterState
<1>2. state \in {"T1", "T1I"} => next_state = "T2"
  BY <1>1 DEF Decided
<1>3. t1i_cycle => state # "T1"
  BY <1>1 DEF Protected
<1>4. Decided'
  BY <1>1 DEF Decided
<1>5. CASE BeginAcknowledge
  <2>1. /\ next_state = "T1I" /\ state' = "T1I"
        /\ instruction_protection' = 1 /\ UNCHANGED applying_interrupt
        /\ interrupt_owner' = IF applying_interrupt THEN "nobody" ELSE interrupt_owner
        /\ bus_requests' \subseteq bus_requests
    BY <1>1, <1>5 DEF BeginAcknowledge, StateAfter
  <2>2. interrupt_owner' # "controller"
    BY <2>1 DEF AppliedIsKept
  <2>3. Typed' /\ StartOwns' /\ ClashOnlyAtStart'
    BY <1>1, <2>1 DEF Typed, StartOwns, ClashOnlyAtStart, automatic_start_is_ready
  <2>4. Protected' /\ AppliedIsKept'
    BY <1>1, <2>1, <2>2 DEF Protected, AppliedIsKept
  <2> QED
    BY <1>4, <2>3, <2>4
<1>6. CASE EndAcknowledge
  <2>1. /\ state = "T1I" /\ state' = "T2" /\ applying_interrupt' = FALSE
        /\ UNCHANGED <<instruction_protection, interrupt_owner>>
        /\ bus_requests' \subseteq bus_requests
    BY <1>1, <1>2, <1>6 DEF EndAcknowledge, StateAfter
  <2>2. instruction_protection > 0 /\ interrupt_owner # "controller"
    BY <2>1 DEF Protected
  <2>3. Typed' /\ StartOwns' /\ ClashOnlyAtStart'
    BY <1>1, <2>1 DEF Typed, StartOwns, ClashOnlyAtStart, automatic_start_is_ready
  <2>4. Protected' /\ AppliedIsKept'
    BY <1>1, <2>1, <2>2 DEF Protected, AppliedIsKept
  <2> QED
    BY <1>4, <2>3, <2>4
<1>7. CASE EndProtection \/ NoAcknowledge
  <2>1. /\ next_state # "T1I" /\ state # "T1I"
        /\ UNCHANGED <<interrupt_owner, bus_requests, applying_interrupt>>
        /\ next_state # "T1" => UNCHANGED instruction_protection
    BY <1>2, <1>7 DEF EndProtection, NoAcknowledge
  <2>2. Typed' /\ StartOwns' /\ ClashOnlyAtStart'
    BY <1>1, <2>1 DEF Typed, StartOwns, ClashOnlyAtStart, automatic_start_is_ready
  <2>3. AppliedIsKept'
    BY <1>1, <2>1 DEF AppliedIsKept
  <2>4. CASE next_state = "T1"
    <3>1. state' = "T1"
      BY <1>1, <2>4 DEF StateAfter
    <3> QED
      BY <1>1, <1>4, <2>2, <2>3, <3>1 DEF Protected
  <2>5. CASE next_state # "T1"
    <3>1. /\ state' \notin {"T1", "T1I"}
          /\ instruction_protection' = instruction_protection
      BY <1>1, <1>2, <2>1, <2>5 DEF StateAfter
    <3>2. t1i_cycle => state \notin {"T1", "T1I"}
      BY <1>3, <2>1
    <3>3. Protected'
      BY <1>1, <2>1, <3>1, <3>2 DEF Protected
    <3> QED
      BY <1>4, <2>2, <2>3, <3>3
  <2> QED
    BY <2>4, <2>5
<1> QED
  BY <1>5, <1>6, <1>7 DEF CardsEnterState

(* A jam removes a request only when nothing is being applied. *)
LEMMA Phase2FallsIInv ==
  ASSUME IInv, OnPhase2Falls,
         phase \in {"data_in", "phase_22"}, phase' \in {"sync_falls", "phase_11"},
         UNCHANGED <<state, next_state, interrupt_pending>>
  PROVE  IInv'
<1> USE DEF IInv
<1>1. /\ requested_interrupts' \subseteq requested_interrupts
      /\ Jams \/ requested_interrupts' = requested_interrupts
      /\ t1i_cycle' = (state = "T1I" \/ (state # "T1" /\ t1i_cycle))
      /\ UNCHANGED <<counter, interrupt_owner, bus_requests, applying_interrupt,
                     current_interrupt, instruction_protection, clash>>
  BY DEF OnPhase2Falls
<1>2. t1i_cycle' \in BOOLEAN
  BY <1>1, Zenon
<1>3. Typed' /\ StartOwns' /\ ClashOnlyAtStart'
  BY <1>1, <1>2 DEF Typed, StartOwns, ClashOnlyAtStart, automatic_start_is_ready
<1>4. Decided'
  BY DEF Decided
<1>5. Protected'
  <2>1. /\ t1i_cycle' /\ state \notin {"T1", "T1I"} => t1i_cycle
        /\ t1i_cycle' => state # "T1"
    BY <1>1
  <2> QED
    BY <1>1, <2>1 DEF Protected
<1>6. AppliedIsKept'
  <2>1. Jams => ~applying_interrupt
    BY DEF Jams, IsReading, Protected
  <2> QED
    BY <1>1, <2>1 DEF AppliedIsKept
<1> QED
  BY <1>3, <1>4, <1>5, <1>6

(* What only moves the phase, READY, the mask, or raises a request line. *)
LEMMA OthersIInv ==
  ASSUME IInv,
         \/ phase' = phase
         \/ phase = "sync_rises" /\ phase' = "state"
         \/ phase = "phase_21" /\ phase' = "data_in"
         \/ phase = "sync_falls" /\ phase' = "phase_22",
         bus_requests' \subseteq Levels,
         UNCHANGED <<state, next_state, interrupt_pending, counter, interrupt_owner,
                     requested_interrupts, applying_interrupt, current_interrupt,
                     instruction_protection, t1i_cycle, clash>>
  PROVE  IInv'
<1> USE DEF IInv
<1>1. Typed' /\ StartOwns' /\ ClashOnlyAtStart' /\ AppliedIsKept'
  BY DEF Typed, StartOwns, ClashOnlyAtStart, automatic_start_is_ready, AppliedIsKept
<1>2. Decided' /\ Protected'
  BY DEF Decided, Protected
<1> QED
  BY <1>1, <1>2

(* Every step keeps the invariant. *)
LEMMA NextIInv == IInv /\ [InterruptsNext]_vars => IInv'
<1> SUFFICES ASSUME IInv, [InterruptsNext]_vars PROVE IInv'
  OBVIOUS
<1>1. bus_requests \subseteq Levels
  BY DEF IInv, Typed
<1>2. ASSUME CardsClock PROVE IInv'
  <2>1. CASE CardsPhase11
    BY <2>1, Phase11IInv
  <2>2. CASE OnPhase1
    BY <1>2, <2>2, OnPhase1IInv DEF CardsClock
  <2>3. CASE CardsSyncRises
    BY <1>1, <2>3, OthersIInv DEF CardsSyncRises, SyncRises, sequencing, cards, controller
  <2>4. CASE CardsEnterState
    BY <2>4, EnterStateIInv
  <2>5. CASE CardsPhase21
    BY <1>1, <2>5, OthersIInv DEF CardsPhase21, Phase21, sequencing, cards, controller
  <2>6. CASE CardsDataIn
    BY <2>6, Phase2FallsIInv DEF CardsDataIn, DataIn
  <2>7. CASE CardsSyncFalls
    BY <1>1, <2>7, OthersIInv DEF CardsSyncFalls, SyncFalls, sequencing
  <2>8. CASE CardsPhase22
    BY <2>8, Phase2FallsIInv DEF CardsPhase22, Phase22, EndPhase22, sequencing
  <2> QED
    BY <1>2, <2>1, <2>2, <2>3, <2>4, <2>5, <2>6, <2>7, <2>8 DEF CardsClock
<1>3. ASSUME Outside PROVE IInv'
  <2>1. CASE PressInterrupt \/ RtcTicks
    BY <1>1, <2>1, OthersIInv
    DEF PressInterrupt, RtcTicks, control, sequencing, controller, Levels
  <2>2. CASE ConsoleHolds \/ ConsoleAdvances
    BY <1>1, <2>2, OthersIInv
    DEF ConsoleHolds, ConsoleAdvances, SetReady, sequencing, cards, controller
  <2> QED
    BY <1>3, <2>1, <2>2 DEF Outside
<1>4. CASE UNCHANGED vars
  BY <1>1, <1>4, OthersIInv DEF vars, control, sequencing, cards, controller
<1> QED
  BY <1>2, <1>3, <1>4 DEF InterruptsNext

-----------------------------------------------------------------------------
(* The invariant of the interrupts, for any set of opcodes. *)
THEOREM InterruptsInvariant == InterruptsSpec => []IInv
BY InitIInv, NextIInv, PTL DEF InterruptsSpec

(* The automatic start and the controller only collide on the interrupt    *)
(* pin while the automatic start is running.                               *)
THEOREM StartClashes == InterruptsSpec => []ClashOnlyAtStart
<1>1. IInv => ClashOnlyAtStart
  BY DEF IInv
<1> QED
  BY <1>1, InterruptsInvariant, PTL

(* An interrupt that the controller applies stays pending in the CPU, and  *)
(* requested in the controller, until it is acknowledged.                  *)
THEOREM AppliedKept == InterruptsSpec => []AppliedIsKept
<1>1. IInv => AppliedIsKept
  BY DEF IInv
<1> QED
  BY <1>1, InterruptsInvariant, PTL

(* A T1I that the controller asks for never follows another, before an     *)
(* instruction of the program.                                             *)
THEOREM InstructionProtected == InterruptsSpec => ProtectedInstruction
<1>1. IInv /\ [InterruptsNext]_vars
        => [t1i_cycle /\ next_state = "none" /\ next_state' = "T1I"
              => ~applying_interrupt]_vars
  <2> SUFFICES ASSUME IInv, InterruptsNext, t1i_cycle,
                      next_state = "none", next_state' = "T1I"
               PROVE  ~applying_interrupt
    OBVIOUS
  <2>1. CardsPhase11
    BY DEF InterruptsNext, CardsClock, Outside, OnPhase1, CardsSyncRises, SyncRises,
       CardsEnterState, EnterState, CardsPhase21, Phase21, CardsDataIn, DataIn,
       CardsSyncFalls, SyncFalls, CardsPhase22, Phase22, EndPhase22, PressInterrupt, RtcTicks,
       ConsoleHolds, ConsoleAdvances, SetReady, control, sequencing
  <2>2. phase = "phase_11" /\ state \notin {"T1", "T1I"}
    BY <2>1 DEF CardsPhase11, Phase11, GoTo, LeaveStopped, EndCycle, EndInstruction, Halt
  <2> QED
    BY <2>2 DEF IInv, Protected
<1> QED
  BY <1>1, InterruptsInvariant, PTL DEF InterruptsSpec, ProtectedInstruction

-----------------------------------------------------------------------------
(* What the jam gives. *)

LEMMA RSTDecodes ==
  ASSUME NEW level \in Levels
  PROVE  /\ RST(level) \in Opcode
         /\ Decoding[RST(level)].name = "RST"
         /\ Decoding[RST(level)].medium = level
<1> DEFINE opcode == RST(level)
<1>1. opcode \in Opcode /\ High(opcode) = 0 /\ Medium(opcode) = level /\ Low(opcode) = 5
  BY DEF Levels, INIT, RTC, RST, Opcode, High, Medium, Low
<1>2. level \in Any /\ DOMAIN decoding_table = 1 .. 30
  BY DEF Levels, INIT, RTC, Any, decoding_table
<1>3. Matching(opcode) = {28}
  <2>1. \A i \in 1 .. 30 : decoding_table[i].high = 0 /\ 5 \in decoding_table[i].low <=> i = 28
    BY DEF decoding_table, Row, Any, Below4, From4
  <2>2. decoding_table[28] = Row("RST", 0, Any, {5})
    BY DEF decoding_table
  <2> QED
    BY <1>1, <1>2, <2>1, <2>2 DEF Matching, Row
<1>4. decoding_table[28].name = "RST"
  BY DEF decoding_table, Row
<1> HIDE DEF opcode
<1>5. (CHOOSE i \in Matching(opcode) : \A j \in Matching(opcode) : i <= j) = 28
  BY <1>3
<1>6. decode_instruction(opcode) = [name |-> "RST", medium |-> level, low |-> 5]
  BY <1>1, <1>3, <1>4, <1>5 DEF decode_instruction
<1> QED
  BY <1>1, <1>6 DEF Decoding, opcode

(* The cycle that is jammed is a fetch, from its T1I on. *)
NextFollows ==
  phase \in {"sync_rises", "state"} =>
    /\ next_state = "T2" => state \in {"T1", "T1I"}
    /\ next_state = "WAIT" => state = "T2"
    /\ next_state = "T3" => state \in {"T2", "WAIT"}
    /\ next_state = "none" => state \in {"WAIT", "STOPPED"}
Between ==
  state \in {"T1I", "STOPPED"} \/ next_state \in {"T1I", "STOPPED"} => cycle_control = "PCI"
JammedFetch ==
  t1i_cycle =>
    /\ state \in {"T2", "WAIT"} => cycle_control = "PCI"
    /\ state = "T3" /\ phase \notin {"sync_rises", "state"} => cycle_control = "PCI"

(* What the first falling edge of phase 2 leaves to the second. *)
JamLeaves ==
  /\ t1i_cycle /\ state = "T3" /\ phase \in {"sync_falls", "phase_22"}
  /\ masked_requested(requested_interrupts) # {}
  => decoded_instruction.name = "RST" /\ decoded_instruction.medium = INIT

JamInv == NextFollows /\ Between /\ JammedFetch /\ JamLeaves

LEMMA InitJamInv == InterruptsInit => JamInv
BY DEF InterruptsInit, Init, CardsInit, JamInv, NextFollows, Between, JammedFetch, JamLeaves

LEMMA Phase11JamInv ==
  ASSUME JamInv, CardsPhase11
  PROVE  JamInv'
<1> USE DEF JamInv
<1>1. /\ phase = "phase_11" /\ phase' = "sync_rises" /\ state' = state
      /\ t1i_cycle' = t1i_cycle
  BY DEF CardsPhase11, Phase11
<1>2. /\ NextFollows' /\ Between'
      /\ state \in {"T2", "WAIT"} => cycle_control' = cycle_control
  <2>1. CASE \/ state \in {"T1", "T1I"} /\ GoTo("T2")
             \/ state = "T2" /\ GoTo(IF ready THEN "T3" ELSE "WAIT")
             \/ state = "WAIT" /\ GoTo(IF ready THEN "T3" ELSE "none")
             \/ state = "T3" /\ ~cycle_ended /\ GoTo("T4")
             \/ state = "T4" /\ ~cycle_ended /\ GoTo("T5")
    BY <1>1, <2>1 DEF GoTo, NextFollows, Between
  <2>2. CASE LeaveStopped
    BY <1>1, <2>2 DEF LeaveStopped, NextFollows, Between
  <2>3. CASE EndCycle
    BY <1>1, <2>3 DEF EndCycle, NextCycle, is_instruction_complete, NextFollows, Between
  <2>4. CASE EndInstruction
    BY <1>1, <2>4 DEF EndInstruction, NextCycle, NextFollows, Between
  <2>5. CASE Halt
    BY <1>1, <2>5 DEF Halt, NextFollows, Between
  <2> QED
    BY <2>1, <2>2, <2>3, <2>4, <2>5 DEF CardsPhase11, Phase11
<1>3. JammedFetch' /\ JamLeaves'
  BY <1>1, <1>2 DEF JammedFetch, JamLeaves
<1> QED
  BY <1>2, <1>3

LEMMA EnterStateJamInv ==
  ASSUME IInv, JamInv, CardsEnterState
  PROVE  JamInv'
<1> USE DEF JamInv
<1>1. /\ phase = "state" /\ phase' = "phase_21"
      /\ state' = StateAfter /\ next_state' = "none"
      /\ UNCHANGED <<cycle_control, t1i_cycle>>
  BY DEF CardsEnterState, EnterState
<1>2. NextFollows' /\ Between' /\ JamLeaves'
  BY <1>1 DEF NextFollows, Between, JamLeaves, StateAfter
<1>3. t1i_cycle => state # "T1"
  BY <1>1 DEF IInv, Protected
<1>4. ASSUME t1i_cycle, state' \in {"T2", "WAIT", "T3"} PROVE cycle_control = "PCI"
  <2>1. \/ next_state = "T2" /\ state \in {"T1", "T1I"}
        \/ state \in {"T2", "WAIT"}
    BY <1>1, <1>4 DEF NextFollows, StateAfter
  <2>2. CASE state = "T1I"
    BY <2>2 DEF Between
  <2>3. CASE state \in {"T2", "WAIT"}
    BY <1>4, <2>3 DEF JammedFetch
  <2> QED
    BY <1>3, <1>4, <2>1, <2>2, <2>3
<1>5. JammedFetch'
  BY <1>1, <1>4 DEF JammedFetch
<1> QED
  BY <1>2, <1>5

LEMMA DataInJamInv ==
  ASSUME IInv, JamInv, CardsDataIn
  PROVE  /\ JamInv'
         /\ \A level \in requested_interrupts \ requested_interrupts' :
              decoded_instruction'.name = "RST" /\ decoded_instruction'.medium = level
<1> USE DEF JamInv
<1> DEFINE level == lowest_level_interrupt(requested_interrupts)
           byte == IF Jams THEN RST(level) ELSE data_bus_md
<1>1. /\ phase = "data_in" /\ phase' = "sync_falls"
      /\ UNCHANGED <<state, next_state, cycle_control>>
      /\ IsReading /\ cycle_control = "PCI" => decoded_instruction' = Decoding[byte]
  BY DEF CardsDataIn, DataIn
<1>2. /\ requested_interrupts' = IF Jams THEN requested_interrupts \ {level}
                                         ELSE requested_interrupts
      /\ t1i_cycle' = (state = "T1I" \/ (state # "T1" /\ t1i_cycle))
      /\ UNCHANGED enabled_interrupts_mask
  BY DEF CardsDataIn, OnPhase2Falls
<1>3. /\ NextFollows' /\ Between' /\ JammedFetch'
  BY <1>1, <1>2 DEF NextFollows, Between, JammedFetch
<1>4. ASSUME Jams
      PROVE  /\ level \in masked_requested(requested_interrupts)
             /\ decoded_instruction'.name = "RST" /\ decoded_instruction'.medium = level
  <2>1. level \in requested_interrupts /\ level \in masked_requested(requested_interrupts)
    BY <1>4, LowestIsRequested DEF IInv, Typed, Jams
  <2>2. level \in Levels
    BY <2>1 DEF IInv, Typed
  <2>3. IsReading /\ cycle_control = "PCI"
    BY <1>1, <1>4 DEF Jams, IsReading, JammedFetch
  <2> QED
    BY <1>1, <1>4, <2>1, <2>2, <2>3, RSTDecodes
<1>5. JamLeaves'
  <2> SUFFICES ASSUME t1i_cycle', state = "T3",
                      masked_requested(requested_interrupts)' # {}
               PROVE  decoded_instruction'.name = "RST" /\ decoded_instruction'.medium = INIT
    BY <1>1 DEF JamLeaves
  <2>1. masked_requested(requested_interrupts)' \subseteq masked_requested(requested_interrupts)
    BY <1>2 DEF masked_requested
  <2>2. Jams
    BY <1>1, <1>2, <2>1 DEF Jams, IsReading, JammedFetch
  <2>3. PICK other \in masked_requested(requested_interrupts) : other # level
    BY <1>2, <2>2 DEF masked_requested
  <2>4. level \in {0, 7} /\ other \in {0, 7} /\ level =< other
    <3>1. masked_requested(requested_interrupts) \subseteq {0, 7}
      BY DEF masked_requested, IInv, Typed, Levels, INIT, RTC
    <3>2. PICK least \in masked_requested(requested_interrupts) :
            \A x \in masked_requested(requested_interrupts) : least =< x
      <4>1. CASE 0 \in masked_requested(requested_interrupts)
        BY <3>1, <4>1
      <4>2. CASE 0 \notin masked_requested(requested_interrupts)
        BY <2>3, <3>1, <4>2
      <4> QED
        BY <4>1, <4>2
    <3>3. \A x \in masked_requested(requested_interrupts) : level =< x
      BY <3>2 DEF lowest_level_interrupt, Min
    <3> QED
      BY <1>4, <2>2, <3>1, <3>3
  <2>5. level = INIT
    BY <2>3, <2>4 DEF INIT
  <2> QED
    BY <1>4, <2>2, <2>5
<1> QED
  BY <1>2, <1>3, <1>4, <1>5

(* Whatever keeps the fetch and what is left of the jam. *)
LEMMA OthersJamInv ==
  ASSUME JamInv,
         \/ phase' = phase
         \/ phase = "sync_rises" /\ phase' = "state"
         \/ phase = "phase_21" /\ phase' = "data_in"
         \/ phase = "sync_falls" /\ phase' = "phase_22",
         UNCHANGED <<sequencing, t1i_cycle>>,
         t1i_cycle /\ state = "T3" =>
           UNCHANGED <<requested_interrupts, enabled_interrupts_mask>>
  PROVE  JamInv'
<1> USE DEF JamInv
<1>1. NextFollows' /\ Between' /\ JammedFetch'
  BY DEF NextFollows, Between, JammedFetch, sequencing
<1>2. JamLeaves'
  BY DEF JamLeaves, sequencing, masked_requested
<1> QED
  BY <1>1, <1>2

LEMMA NextJamInv ==
  ASSUME IInv, JamInv, [InterruptsNext]_vars
  PROVE  /\ JamInv'
         /\ \A level \in requested_interrupts \ requested_interrupts' :
              /\ decoded_instruction'.name = "RST"
              /\ decoded_instruction'.medium \in {level, INIT}
<1>1. CASE CardsPhase11
  BY <1>1, Phase11JamInv DEF CardsPhase11, controller
<1>2. CASE OnPhase1
  <2>1. /\ requested_interrupts \subseteq requested_interrupts'
        /\ t1i_cycle /\ state = "T3" => UNCHANGED requested_interrupts
    BY <1>2 DEF OnPhase1, IInv, Protected, is_instruction_protected
  <2> QED
    BY <1>2, <2>1, OthersJamInv DEF OnPhase1
<1>3. CASE CardsSyncRises
  BY <1>3, OthersJamInv DEF CardsSyncRises, SyncRises, cards, controller
<1>4. CASE CardsEnterState
  BY <1>4, EnterStateJamInv DEF CardsEnterState
<1>5. CASE CardsPhase21
  BY <1>5, OthersJamInv DEF CardsPhase21, Phase21, cards, controller
<1>6. CASE CardsDataIn
  BY <1>6, DataInJamInv
<1>7. CASE CardsSyncFalls
  BY <1>7, OthersJamInv DEF CardsSyncFalls, SyncFalls
<1>8. CASE CardsPhase22
  <2>1. /\ phase = "phase_22" /\ phase' = "phase_11" /\ UNCHANGED sequencing
        /\ t1i_cycle' = (state = "T1I" \/ (state # "T1" /\ t1i_cycle))
        /\ Jams \/ UNCHANGED requested_interrupts
        /\ requested_interrupts \ requested_interrupts'
             \subseteq requested_interrupts
    BY <1>8 DEF CardsPhase22, Phase22, EndPhase22, OnPhase2Falls
  <2>2. JamInv'
    BY <2>1 DEF JamInv, NextFollows, Between, JammedFetch, JamLeaves, sequencing
  <2>3. Jams => decoded_instruction.name = "RST" /\ decoded_instruction.medium = INIT
    BY <2>1 DEF Jams, IsReading, JamInv, JamLeaves
  <2> QED
    BY <2>1, <2>2, <2>3 DEF sequencing
<1>9. CASE Outside
  BY <1>9, OthersJamInv
  DEF Outside, PressInterrupt, RtcTicks, ConsoleHolds, ConsoleAdvances, SetReady,
      control, cards, controller
<1>10. CASE UNCHANGED vars
  BY <1>10, OthersJamInv DEF vars, control, cards, controller
<1> QED
  BY <1>1, <1>2, <1>3, <1>4, <1>5, <1>6, <1>7, <1>8, <1>9, <1>10
  DEF InterruptsNext, CardsClock

(* A request is only dropped by the jam of its RST, or after that of INIT. *)
THEOREM DroppedByJam == InterruptsSpec => DroppedByItsJam
<1>1. InterruptsInit => IInv /\ JamInv
  BY InitIInv, InitJamInv
<1>2. IInv /\ JamInv /\ [InterruptsNext]_vars => IInv' /\ JamInv'
  BY NextIInv, NextJamInv
<1>3. IInv /\ JamInv /\ [InterruptsNext]_vars
        => [\A level \in requested_interrupts \ requested_interrupts' :
              /\ decoded_instruction'.name = "RST"
              /\ decoded_instruction'.medium \in {level, INIT}]_vars
  BY NextJamInv
<1> QED
  BY <1>1, <1>2, <1>3, PTL DEF InterruptsSpec, DroppedByItsJam

-----------------------------------------------------------------------------
(* The types of the variables. *)

SequenceTyped ==
  /\ phase \in Phase
  /\ state \in CpuState
  /\ next_state \in CpuState \cup {"none"}
  /\ decoded_instruction \in Decoded

ControllerTyped ==
  /\ interrupt_owner \in {"nobody", "automatic_start", "controller"}
  /\ enabled_interrupts_mask \subseteq Levels \ {INIT}
  /\ interruption_are_enabled \in BOOLEAN
  /\ current_interrupt \in Levels
  /\ pending_out_17 \in BOOLEAN
  /\ instruction_protection \in {0, 1}
  /\ data_bus_md \in Opcodes \cup {0}

FlagsTyped == sampling \in BOOLEAN /\ clash \in BOOLEAN

LEMMA InitTypes == InterruptsInit => SequenceTyped /\ ControllerTyped /\ FlagsTyped
<1> SUFFICES ASSUME InterruptsInit PROVE SequenceTyped /\ ControllerTyped /\ FlagsTyped
  OBVIOUS
<1>1. SequenceTyped
  BY UnknownIsDecoded DEF InterruptsInit, Init, SequenceTyped, Phase, CpuState
<1>2. ControllerTyped
  BY DEF InterruptsInit, CardsInit, ControllerTyped, Levels, INIT
<1>3. FlagsTyped
  BY DEF InterruptsInit, CardsInit, FlagsTyped
<1> QED
  BY <1>1, <1>2, <1>3

LEMMA SequenceTypes ==
  ASSUME IInv, SequenceTyped, ControllerTyped, [InterruptsNext]_vars
  PROVE  SequenceTyped'
<1> USE DEF SequenceTyped
<1>1. CASE CardsPhase11
  <2>1. next_state' \in CpuState \cup {"none"}
    BY <1>1 DEF CardsPhase11, Phase11, GoTo, LeaveStopped, EndCycle, EndInstruction, Halt,
       NextCycle, CpuState
  <2> QED
    BY <1>1, <2>1 DEF CardsPhase11, Phase11, Phase
<1>2. CASE CardsEnterState
  BY <1>2 DEF CardsEnterState, EnterState, StateAfter, Phase
<1>3. CASE CardsDataIn
  <2> DEFINE level == lowest_level_interrupt(requested_interrupts)
             byte == IF Jams THEN RST(level) ELSE data_bus_md
  <2>1. Jams => level \in Levels
    BY LowestIsRequested DEF IInv, Typed, Jams
  <2>2. byte \in Opcode
    BY <2>1, RSTDecodes, OpcodesAssumption DEF ControllerTyped, Opcode
  <2>3. Decoding[byte] \in Decoded
    BY <2>2 DEF Decoded
  <2>4. decoded_instruction' \in {Decoding[byte], decoded_instruction}
    BY <1>3 DEF CardsDataIn, DataIn
  <2> QED
    BY <1>3, <2>3, <2>4 DEF CardsDataIn, DataIn, Phase
<1>4. CASE CardsSyncRises \/ CardsPhase21 \/ CardsSyncFalls \/ CardsPhase22
  BY <1>4 DEF CardsSyncRises, SyncRises, CardsPhase21, Phase21, CardsSyncFalls, SyncFalls,
     CardsPhase22, Phase22, EndPhase22, sequencing, Phase
<1>5. CASE OnPhase1 \/ Outside \/ UNCHANGED vars
  BY <1>5 DEF OnPhase1, Outside, PressInterrupt, RtcTicks, ConsoleHolds, ConsoleAdvances,
     SetReady, vars, control, sequencing
<1> QED
  BY <1>1, <1>2, <1>3, <1>4, <1>5 DEF InterruptsNext, CardsClock

LEMMA ControllerTypes ==
  ASSUME IInv, ControllerTyped, [InterruptsNext]_vars
  PROVE  ControllerTyped'
<1> USE DEF ControllerTyped
<1>1. CASE OnPhase1
  <2> DEFINE requested == IF is_instruction_protected
                          THEN requested_interrupts
                          ELSE requested_interrupts \cup bus_requests
             applies == ~is_instruction_protected /\ Applies(requested)
  <2>1. requested \in SUBSET Levels
    BY DEF IInv, Typed
  <2>2. applies => lowest_level_interrupt(requested) \in Levels
    BY <2>1, LowestIsRequested DEF Applies
  <2>3. /\ current_interrupt' = IF applies THEN lowest_level_interrupt(requested)
                                           ELSE current_interrupt
        /\ interrupt_owner' = IF applies THEN "controller" ELSE OwnerAfterStart(counter + 1)
        /\ UNCHANGED <<enabled_interrupts_mask, interruption_are_enabled, pending_out_17,
                       instruction_protection, data_bus_md>>
    BY <1>1 DEF OnPhase1
  <2>4. OwnerAfterStart(counter + 1) \in {"nobody", "automatic_start", "controller"}
    BY DEF OwnerAfterStart
  <2> HIDE DEF requested, applies
  <2> QED
    BY <2>2, <2>3, <2>4
<1>2. CASE CardsEnterState
  <2>1. UNCHANGED <<enabled_interrupts_mask, current_interrupt>>
    BY <1>2 DEF CardsEnterState
  <2>2. /\ data_bus_md' \in Opcodes \cup {0}
        /\ interruption_are_enabled' \in BOOLEAN
        /\ pending_out_17' \in BOOLEAN
    <3>1. CASE state = "T2" /\ cycle_control = "PCI"
      <4>1. PICK byte \in Opcodes : Decodes(byte)
        BY <1>2, <3>1 DEF CardsEnterState, T3Prime
      <4>2. data_bus_md' \in Opcodes /\ interruption_are_enabled' \in BOOLEAN
        BY <4>1 DEF Decodes
      <4>3. pending_out_17' \in BOOLEAN
        BY <4>1, Zenon DEF Decodes
      <4> QED
        BY <4>2, <4>3
    <3>2. CASE ~(state = "T2" /\ cycle_control = "PCI")
      BY <1>2, <3>2 DEF CardsEnterState, T3Prime
    <3> QED
      BY <3>1, <3>2
  <2>3. /\ instruction_protection' \in {0, 1}
        /\ interrupt_owner' \in {"nobody", "automatic_start", "controller"}
    <3>1. CASE EndProtection
      <4>1. instruction_protection - 1 \in {-1, 0}
        OBVIOUS
      <4>2. Max({0, instruction_protection - 1}) = 0
        BY <4>1 DEF Max
      <4> QED
        BY <3>1, <4>2 DEF EndProtection
    <3>2. CASE BeginAcknowledge \/ EndAcknowledge \/ NoAcknowledge
      BY <3>2 DEF BeginAcknowledge, EndAcknowledge, NoAcknowledge
    <3> QED
      BY <1>2, <3>1, <3>2 DEF CardsEnterState
  <2> QED
    BY <2>1, <2>2, <2>3
<1>3. CASE CardsSyncFalls
  <2>1. /\ enabled_interrupts_mask' \subseteq Levels \ {INIT}
        /\ pending_out_17' \in BOOLEAN
    <3>1. \A mask \in MasksOnDataBus : mask \subseteq Levels \ {INIT}
      BY DEF MasksOnDataBus, Levels, INIT, RTC
    <3> QED
      BY <1>3, <3>1 DEF CardsSyncFalls
  <2> QED
    BY <1>3, <2>1 DEF CardsSyncFalls
<1>4. CASE \/ CardsPhase11 \/ CardsSyncRises \/ CardsPhase21 \/ CardsDataIn \/ CardsPhase22
           \/ Outside \/ UNCHANGED vars
  BY <1>4 DEF CardsPhase11, CardsSyncRises, CardsPhase21, CardsDataIn, CardsPhase22,
     OnPhase2Falls, Outside, PressInterrupt, RtcTicks, ConsoleHolds, ConsoleAdvances,
     vars, cards, controller
<1> QED
  BY <1>1, <1>2, <1>3, <1>4 DEF InterruptsNext, CardsClock

LEMMA FlagTypes ==
  ASSUME FlagsTyped, [InterruptsNext]_vars
  PROVE  FlagsTyped'
<1> USE DEF FlagsTyped
<1>1. CASE OnPhase1
  <2>1. clash' \in BOOLEAN
    BY <1>1, Zenon DEF OnPhase1
  <2> QED
    BY <1>1, <2>1 DEF OnPhase1
<1>2. CASE ~OnPhase1
  BY <1>2 DEF InterruptsNext, CardsClock, CardsPhase11, CardsSyncRises, CardsEnterState,
     CardsPhase21, CardsDataIn, CardsSyncFalls, CardsPhase22, OnPhase2Falls, Outside,
     PressInterrupt, RtcTicks, ConsoleHolds, ConsoleAdvances, vars, cards
<1> QED
  BY <1>1, <1>2

(* The types of the CPU and of the cards: what is jammed is decoded, the    *)
(* protection never goes below zero, and the mask never holds INIT.         *)
THEOREM InterruptsTypeOK == InterruptsSpec => []TypeOK
<1> DEFINE Types == SequenceTyped /\ ControllerTyped /\ FlagsTyped
<1>1. InterruptsInit => IInv /\ Types
  BY InitIInv, InitTypes
<1>2. IInv /\ Types /\ [InterruptsNext]_vars => IInv' /\ Types'
  BY NextIInv, SequenceTypes, ControllerTypes, FlagTypes
<1>3. IInv /\ Types => TypeOK
  BY DEF IInv, Typed, SequenceTyped, ControllerTyped, FlagsTyped, TypeOK
<1> HIDE DEF Types
<1> QED
  BY <1>1, <1>2, <1>3, PTL DEF InterruptsSpec
===============================================================================
