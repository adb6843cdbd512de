------------------------ MODULE InterruptsProperties ------------------------
(***************************************************************************)
(* What Interrupts.tla is checked against.                                 *)
(***************************************************************************)
EXTENDS Interrupts

(* The bytes of the programs: for the CPU, HLT, instructions of one to     *)
(* three cycles and a conditional one (LAI, LAA, JFC); and those that the  *)
(* controller decodes.                                                     *)
ProgramBytes == {0, 6, 192, 64,
                 MAS_INSTRUCTION, DMS_INSTRUCTION, REI_INSTRUCTION, OUT17_INSTRUCTION}

(* TypeOK: the types of the variables. *)
TypeOK ==
  /\ phase \in Phase
  /\ state \in CpuState
  /\ next_state \in CpuState \cup {"none"}
  /\ decoded_instruction \in Decoded
  /\ sampling \in BOOLEAN
  /\ counter \in 0 .. CountBound
  /\ interrupt_owner \in {"nobody", "automatic_start", "controller"}
  /\ bus_requests \subseteq Levels
  /\ requested_interrupts \subseteq Levels
  /\ enabled_interrupts_mask \subseteq Levels \ {INIT}
  /\ interruption_are_enabled \in BOOLEAN
  /\ applying_interrupt \in BOOLEAN
  /\ current_interrupt \in Levels
  /\ pending_out_17 \in BOOLEAN
  /\ instruction_protection \in 0 .. 1
  /\ t1i_cycle \in BOOLEAN
  /\ data_bus_md \in Opcodes \cup {0}
  /\ clash \in BOOLEAN

(* The controller and the automatic start both drive the interrupt pin of  *)
(* the CPU, and an OwnedSignal throws when it is requested while another   *)
(* owns it.  The INIT key can make them collide while the automatic start  *)
(* is running; once it is ready they never do.                             *)
ClashOnlyAtStart == clash => ~automatic_start_is_ready

(* From the edge on which an interrupt is applied to its acknowledgement,  *)
(* at the end of an instruction of any length and of any number of WAITs,  *)
(* the CPU remembers it and the controller keeps its request: the jam      *)
(* always has something to jam for it, the mask apart.                     *)
AppliedIsKept ==
  /\ applying_interrupt => current_interrupt \in requested_interrupts
  /\ interrupt_owner = "controller" =>
       applying_interrupt /\ (interrupt_pending \/ next_state = "T1I")

(* A registered request is dropped by the jam of its own RST only, or right *)
(* after that of INIT: the second falling edge of phase 2 in T3 drops one  *)
(* more.  The clock's interrupt is then registered again if its line still *)
(* asks; if it was acknowledged before INIT came, that tick is lost.       *)
DroppedByItsJam ==
  [][\A level \in requested_interrupts \ requested_interrupts' :
       /\ decoded_instruction'.name = "RST"
       /\ decoded_instruction'.medium \in {level, INIT}]_vars

(* "Instruction protection after an interruption routine"                  *)
(* (InterruptController.h): an interrupt that the controller applies never *)
(* comes right after another, before an instruction of the program.        *)
ProtectedInstruction ==
  [][t1i_cycle /\ next_state = "none" /\ next_state' = "T1I" => ~applying_interrupt]_vars

(* "The interrupt controller looks at what the CPU is pushing on the data  *)
(* bus" (InterruptController.cpp:116): the mask is latched while the CPU   *)
(* drives the bus.                                                         *)
MaskFromCPU == [][pending_out_17 /\ ~pending_out_17' => driving]_vars

(* A HLT in a T1I cycle that was not jammed leaves the protection on with  *)
(* no T1 to come: the lines are never sampled again.                       *)
StoppedForGood == state = "STOPPED" /\ instruction_protection > 0

(* INIT is acknowledged in the end, from any state of the program and of   *)
(* the controller, unless the CPU is stopped for good.                     *)
InitIsServed ==
  <>[]ready =>
    (INIT \in bus_requests ~> INIT \notin bus_requests \/ StoppedForGood \/ clash)

(* "INT $0 Cannot be masked" (InterruptController.cpp:69): INIT is always  *)
(* acknowledged in the end.                                                *)
InitCannotBeMasked ==
  <>[]ready /\ [](~clash) => (INIT \in bus_requests ~> INIT \notin bus_requests)

(* When the program leaves it enabled and the INIT key is left alone, the  *)
(* clock's interrupt is acknowledged in the end.                           *)
RtcIsServed ==
  /\ <>[](ready /\ interruption_are_enabled /\ enabled_interrupts_mask = {RTC})
  /\ <>[](INIT \notin bus_requests)
  => (RTC \in bus_requests ~> RTC \notin bus_requests \/ StoppedForGood)

(* Both: an interrupt that is asked for is served in the end.              *)
InterruptsAreServed == InitIsServed /\ RtcIsServed
==============================================================================
