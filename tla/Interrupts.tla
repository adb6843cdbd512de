----------------------------- MODULE Interrupts -----------------------------
(***************************************************************************)
(* The interrupts of the Processor Card: InterruptController.cpp,          *)
(* AutomaticStart.cpp, InterruptCircuit.cpp, the jamming of the RST in     *)
(* ProcessorCard.cpp and the INIT key of ConsoleCard.cpp, around the CPU   *)
(* of CPUControl.  Each clock edge or CPU event runs the handlers of the   *)
(* cards that listen to it, in the order of their subscriptions.           *)
(*                                                                         *)
(* The lines 1 to 6 exist on the bus but no card of the emulator raises    *)
(* them (the interrupts of the I/O cards are in TODO.md): the levels are   *)
(* INIT and the real time clock.  The interrupt pin of the CPU is HIGH     *)
(* exactly when somebody owns it, and an acknowledge line exactly when     *)
(* its interrupt is applied in a T1I.                                      *)
(***************************************************************************)
EXTENDS CPUControl, FiniteSetsExt

VARIABLES
  sampling,                  (* the handlers of the next rise of phase 1 are due   *)
  counter,                   (* AutomaticStart::counter                            *)
  interrupt_owner,           (* the owner of cpu->input_pins.interrupt             *)
  bus_requests,              (* the levels whose request line is HIGH on the bus   *)
  requested_interrupts,
  enabled_interrupts_mask,   (* the levels other than 0 that the mask lets through *)
  interruption_are_enabled,
  applying_interrupt,
  current_interrupt,
  pending_out_17,
  instruction_protection,
  t1i_cycle,
  data_bus_md,               (* the byte of the fetch on the memory data bus       *)
  clash                      (* an OwnedSignal has thrown: the emulation is over   *)

controller == <<requested_interrupts, enabled_interrupts_mask, interruption_are_enabled,
                applying_interrupt, current_interrupt, pending_out_17,
                instruction_protection>>
cards == <<sampling, counter, interrupt_owner, bus_requests, controller, t1i_cycle,
           data_bus_md, clash>>
vars == <<control, cards>>

INIT == 0
RTC == 7
Levels == {INIT, RTC}

MAS_INSTRUCTION == 210
DMS_INSTRUCTION == 246
REI_INSTRUCTION == 31
OUT17_INSTRUCTION == 127

StartEdge == 20     (* AutomaticStart raises the pin on this edge ... *)
ReadyEdge == 22     (* ... and lowers it on this one                  *)
CountBound == ReadyEdge + 1   (* a bound on the counter: it has no effect any more *)

automatic_start_is_ready == counter >= ReadyEdge

CardsInit ==
  /\ sampling = FALSE
  /\ counter = 0
  /\ interrupt_owner = "nobody"
  /\ bus_requests = {}
  /\ requested_interrupts = {}
  /\ enabled_interrupts_mask = {}
  /\ interruption_are_enabled = FALSE
  /\ applying_interrupt = FALSE
  /\ current_interrupt = 0
  /\ pending_out_17 = FALSE
  /\ instruction_protection = 0
  /\ t1i_cycle = FALSE
  /\ data_bus_md = 0
  /\ clash = FALSE

-----------------------------------------------------------------------------
(* What the controller decides from the requests it has registered. *)

masked_requested(requested) == requested \cap ({INIT} \cup enabled_interrupts_mask)
lowest_level_interrupt(requested) == Min(masked_requested(requested))

(* on_phase_1, but for what depends on the lines: whether an interrupt is   *)
(* to be applied.                                                           *)
Applies(requested) ==
  /\ ~applying_interrupt
  /\ masked_requested(requested) # {}
  /\ interruption_are_enabled \/ lowest_level_interrupt(requested) = INIT

(* Mutant: AutomaticStart leaves the pin HIGH. *)
StartKeepsPin(edge) == IF edge = StartEdge THEN "automatic_start" ELSE interrupt_owner

(* The owner of the pin after AutomaticStart::on_phase_1. *)
OwnerAfterStart(edge) ==
  CASE edge = StartEdge -> "automatic_start"
    [] edge = ReadyEdge -> "nobody"
    [] OTHER -> interrupt_owner

(* Mutant: the controller samples the lines all the time. *)
NeverProtected == FALSE

is_instruction_protected == instruction_protection > 0

(* AutomaticStart::on_phase_1 runs first, then InterruptController::on_phase_1. *)
OnPhase1 ==
  LET requested == IF is_instruction_protected
                   THEN requested_interrupts
                   ELSE requested_interrupts \cup bus_requests
      applies == ~is_instruction_protected /\ Applies(requested)
      edge == counter + 1
      owner == OwnerAfterStart(edge)
  IN
  /\ sampling
  /\ sampling' = FALSE
  /\ counter' = Min({edge, CountBound})
  /\ requested_interrupts' = requested
  /\ applying_interrupt' = (applying_interrupt \/ applies)
  /\ current_interrupt' = IF applies THEN lowest_level_interrupt(requested)
                                     ELSE current_interrupt
  /\ interrupt_owner' = IF applies THEN "controller" ELSE owner
  /\ interrupt_pending' = (interrupt_pending \/ applies \/ edge = StartEdge)
  /\ clash' = \/ edge = StartEdge /\ interrupt_owner = "controller"
              \/ applies /\ owner = "automatic_start"
  /\ UNCHANGED <<phase, sequencing, ready, driving, bus_requests, enabled_interrupts_mask,
                 interruption_are_enabled, pending_out_17, instruction_protection,
                 t1i_cycle, data_bus_md>>

CardsPhase11 ==
  /\ ~sampling
  /\ Phase11
  /\ sampling' = TRUE
  /\ UNCHANGED <<counter, interrupt_owner, bus_requests, controller, t1i_cycle,
                 data_bus_md, clash>>

CardsSyncRises ==
  /\ ~sampling
  /\ SyncRises
  /\ UNCHANGED cards

-----------------------------------------------------------------------------
(* InterruptController::cpu_state_changed. *)

(* Mutant: the circuit of the clock does not lower its request. *)
BeginAcknowledgeOnly ==
  /\ next_state = "T1I"
  /\ instruction_protection' = 1
  /\ interrupt_owner' = IF applying_interrupt THEN "nobody" ELSE interrupt_owner
  /\ UNCHANGED <<bus_requests, applying_interrupt>>

BeginAcknowledge ==
  /\ next_state = "T1I"
  /\ instruction_protection' = 1
  /\ interrupt_owner' = IF applying_interrupt THEN "nobody" ELSE interrupt_owner
  /\ bus_requests' = IF applying_interrupt /\ current_interrupt = RTC
                     THEN bus_requests \ {RTC}      (* InterruptCircuit *)
                     ELSE bus_requests
  /\ UNCHANGED applying_interrupt

EndAcknowledge ==
  /\ state = "T1I"
  /\ bus_requests' = IF applying_interrupt /\ current_interrupt = INIT
                     THEN bus_requests \ {INIT}     (* ConsoleCard::on_rzgi *)
                     ELSE bus_requests
  /\ applying_interrupt' = FALSE
  /\ UNCHANGED <<instruction_protection, interrupt_owner>>

(* Mutant: the protection is never lifted. *)
NeverEndProtection ==
  /\ next_state = "T1"
  /\ UNCHANGED <<instruction_protection, interrupt_owner, bus_requests, applying_interrupt>>

(* Mutant: the protection wraps below zero. *)
EndProtectionBelowZero ==
  /\ next_state = "T1"
  /\ instruction_protection' = instruction_protection - 1
  /\ UNCHANGED <<interrupt_owner, bus_requests, applying_interrupt>>

EndProtection ==
  /\ next_state = "T1"
  /\ instruction_protection' = Max({0, instruction_protection - 1})
  /\ UNCHANGED <<interrupt_owner, bus_requests, applying_interrupt>>

NoAcknowledge ==
  /\ next_state \notin {"T1I", "T1"}
  /\ state # "T1I"
  /\ UNCHANGED <<instruction_protection, interrupt_owner, bus_requests, applying_interrupt>>

(* T'3 rises 500 ns after T2, whatever follows.  The memory has placed the  *)
(* byte of the fetch 200 ns after T2: the controller decodes it.            *)
Decodes(byte) ==
  /\ data_bus_md' = byte
  /\ interruption_are_enabled' = CASE byte = MAS_INSTRUCTION -> FALSE
                                   [] byte \in {DMS_INSTRUCTION, REI_INSTRUCTION} -> TRUE
                                   [] OTHER -> interruption_are_enabled
  /\ pending_out_17' = (pending_out_17 \/ byte = OUT17_INSTRUCTION)

T3Prime ==
  IF state = "T2" /\ cycle_control = "PCI"
  THEN \E byte \in Opcodes : Decodes(byte)
  ELSE /\ data_bus_md' = IF state = "T3" /\ next_state # "none" THEN 0 ELSE data_bus_md
       /\ UNCHANGED <<interruption_are_enabled, pending_out_17>>

CardsEnterState ==
  /\ ~sampling
  /\ EnterState
  /\ BeginAcknowledge \/ EndAcknowledge \/ EndProtection \/ NoAcknowledge
  /\ T3Prime
  /\ UNCHANGED <<sampling, counter, requested_interrupts, enabled_interrupts_mask,
                 current_interrupt, t1i_cycle, clash>>

-----------------------------------------------------------------------------
(* Mutant: a pending interrupt is jammed into any cycle. *)
JamsAnyCycle == IsReading /\ masked_requested(requested_interrupts) # {}

Jams == IsReading /\ t1i_cycle /\ masked_requested(requested_interrupts) # {}
RST(level) == 5 + 8 * level

(* ProcessorCard::on_phase_2, on both falling edges of a T-state. *)
OnPhase2Falls ==
  /\ requested_interrupts' =
       IF Jams THEN requested_interrupts \ {lowest_level_interrupt(requested_interrupts)}
               ELSE requested_interrupts
  /\ t1i_cycle' = (state = "T1I" \/ (state # "T1" /\ t1i_cycle))
  /\ UNCHANGED <<counter, interrupt_owner, bus_requests, enabled_interrupts_mask,
                 interruption_are_enabled, applying_interrupt, current_interrupt,
                 pending_out_17, instruction_protection, data_bus_md, clash>>

CardsPhase21 ==
  /\ Phase21
  /\ UNCHANGED cards

CardsDataIn ==
  LET byte == IF Jams THEN RST(lowest_level_interrupt(requested_interrupts)) ELSE data_bus_md
  IN
  /\ \E holds \in BOOLEAN : DataIn(Decoding[byte], holds)
  /\ OnPhase2Falls
  /\ sampling' = TRUE

(* What the CPU, or else the last that did, drives on the data bus, as a    *)
(* mask: the accumulator or an address in T1, and otherwise the high byte   *)
(* of the address of a fetch or an opcode, whose bit RTC is low.            *)
MasksOnDataBus == IF state \in {"T1", "T1I"} THEN SUBSET {RTC} ELSE {{}}

(* InterruptController::on_sync. *)
CardsSyncFalls ==
  /\ ~sampling
  /\ SyncFalls
  /\ IF pending_out_17 /\ state \notin {"T2", "T3"}
     THEN enabled_interrupts_mask' \in MasksOnDataBus /\ pending_out_17' = FALSE
     ELSE UNCHANGED <<enabled_interrupts_mask, pending_out_17>>
  /\ UNCHANGED <<sampling, counter, interrupt_owner, bus_requests, requested_interrupts,
                 interruption_are_enabled, applying_interrupt, current_interrupt,
                 instruction_protection, t1i_cycle, data_bus_md, clash>>

CardsPhase22 ==
  /\ Phase22
  /\ OnPhase2Falls
  /\ UNCHANGED sampling

-----------------------------------------------------------------------------
(* The INIT key: ConsoleCard::on_phase_2 raises the line on a rise of phase 2. *)
PressInterrupt ==
  /\ phase \in {"phase_21", "phase_22"}
  /\ bus_requests' = bus_requests \cup {INIT}
  /\ UNCHANGED <<control, sampling, counter, interrupt_owner, controller, t1i_cycle,
                 data_bus_md, clash>>

(* The edge of the real time clock, at any time. *)
RtcTicks ==
  /\ automatic_start_is_ready
  /\ bus_requests' = bus_requests \cup {RTC}
  /\ UNCHANGED <<control, sampling, counter, interrupt_owner, controller, t1i_cycle,
                 data_bus_md, clash>>

(* The console, in its stepping mode or on its trap, lowers READY at the    *)
(* end of T2 ...                                                            *)
ConsoleHolds ==
  /\ phase = "phase_22"
  /\ state = "T2"
  /\ SetReady(FALSE)
  /\ UNCHANGED cards

(* ... and AV, INIT or the automatic mode raises it again. *)
ConsoleAdvances ==
  /\ SetReady(TRUE)
  /\ UNCHANGED cards

CardsClock ==
  /\ ~clash
  /\ \/ CardsPhase11
     \/ OnPhase1
     \/ CardsSyncRises
     \/ CardsEnterState
     \/ CardsPhase21
     \/ CardsDataIn
     \/ CardsSyncFalls
     \/ CardsPhase22

Outside ==
  /\ ~clash
  /\ PressInterrupt \/ RtcTicks \/ ConsoleHolds \/ ConsoleAdvances

InterruptsInit == Init /\ CardsInit
InterruptsNext == CardsClock \/ Outside
InterruptsSpec == InterruptsInit /\ [][InterruptsNext]_vars
FairInterrupts == InterruptsSpec /\ WF_vars(CardsClock)
==============================================================================
