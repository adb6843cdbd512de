------------------------------- MODULE Console -------------------------------
(***************************************************************************)
(* devices/src/ConsoleCard.cpp: the modes of the console (AUTOMATIC,       *)
(* STEPPING by CYCLE or by INSTRUCTION, TRAP, ADVANCE, INIT and the mode   *)
(* of start) that hold the CPU by READY, with the CPU of CPUControl and    *)
(* the substitution of DataBus.                                            *)
(*                                                                         *)
(* The window presses the keys between two steps of the scheduler.  They   *)
(* are looked at: SUBSTITUTION when SYNC falls; the data switches then, and *)
(* in the action of the console 20 ns after SUB has risen; the modes and   *)
(* READY when phase 2 falls and then on the first edge of phase 1.  A key  *)
(* pressed just before stands for one pressed at any moment since the last *)
(* time it was looked at.                                                  *)
(***************************************************************************)
EXTENDS DataBus

VARIABLES
  start_mode,        (* "Automatic" or "Manual"                               *)
  stepping,          (* status.stepping; status.automatic is its contrary     *)
  step_mode,         (* "Instruction" or "Cycle"                              *)
  trap,
  init,              (* the line INIT is HIGH                                 *)
  passed,            (* history: what went through T2 since the last key that *)
                     (* lets the CPU go or changes the mode: cycles when      *)
                     (* stepping by CYCLE, or else fetches; up to PassedBound *)
  trapped            (* history: held by the trap, and no key pressed since   *)

modes == <<start_mode, stepping, step_mode, trap, init>>
history == <<passed, trapped>>
console == <<modes, history>>
vars == <<control, data_bus, console>>

PassedBound == 2

ConsoleInit ==
  /\ Init
  /\ BusInit
  /\ start_mode \in {"Automatic", "Manual"}
  /\ ready = (start_mode = "Automatic")
  /\ stepping = (start_mode = "Manual")
  /\ step_mode = "Instruction"
  /\ trap = FALSE
  /\ init = FALSE
  /\ passed = 0
  /\ trapped = FALSE

-----------------------------------------------------------------------------
(* on_phase_2 in T2: whether the console holds the CPU there. *)

(* Mutants: only fetches are held; only the CYCLE mode holds. *)
StepHoldsFetches == stepping /\ cycle_control = "PCI"
StepHoldsByCycle == stepping /\ step_mode = "Cycle"

StepHolds == stepping /\ (step_mode = "Cycle" \/ cycle_control = "PCI")

TrapHolds(matches) == ~stepping /\ trap /\ matches /\ cycle_control = "PCI"

(* Whether the address is the one of the switches is any Boolean. The first *)
(* fall of phase 2 does not count: SYNC is HIGH.                            *)
ConsolePhase22 ==
  /\ Settled
  /\ EndPhase22
  /\ IF state = "T2"
     THEN \E matches \in IF trap THEN BOOLEAN ELSE {FALSE} :
            /\ ready' = IF stepping THEN ~StepHolds ELSE ready /\ ~TrapHolds(matches)
            /\ stepping' = (stepping \/ TrapHolds(matches))
            /\ trapped' = (trapped \/ TrapHolds(matches))
     ELSE UNCHANGED <<ready, stepping, trapped>>
  /\ t1i_cycle' = InT1ICycle
  /\ UNCHANGED <<bus, console_sub, answer, shown, start_mode, step_mode, trap, init, passed>>

(* History: what the console has let through. *)
Record ==
  passed' = IF /\ stepping
               /\ state \in {"T2", "WAIT"} /\ next_state = "T3"
               /\ step_mode = "Cycle" \/ cycle_control = "PCI"
            THEN IF passed = PassedBound THEN passed ELSE passed + 1
            ELSE passed

(* INIT falls on its acknowledgement (on_rzgi), unless the T1I was of       *)
(* another level.                                                           *)
ConsoleEnterState ==
  /\ BusEnterState
  /\ Record
  /\ init' \in IF state = "T1I" THEN {FALSE, init} ELSE {init}
  /\ UNCHANGED <<start_mode, stepping, step_mode, trap, trapped>>

-----------------------------------------------------------------------------
(* The keys. *)

LetGo == passed' = 0 /\ trapped' = FALSE

(* press_automatic *)
PressAutomatic ==
  /\ stepping' = FALSE
  /\ SetReady(TRUE)
  /\ LetGo
  /\ UNCHANGED <<data_bus, start_mode, step_mode, trap, init>>

(* Mutant: STEPPING gives READY back, like ADVANCE. *)
PressSteppingAdvances ==
  /\ stepping' = TRUE
  /\ SetReady(TRUE)
  /\ passed' = IF stepping THEN passed ELSE 0
  /\ UNCHANGED <<data_bus, start_mode, step_mode, trap, init, trapped>>

(* press_stepping: READY stays as it is. *)
PressStepping ==
  /\ stepping' = TRUE
  /\ passed' = IF stepping THEN passed ELSE 0
  /\ UNCHANGED <<control, data_bus, start_mode, step_mode, trap, init, trapped>>

(* press_av *)
PressAv ==
  /\ stepping
  /\ SetReady(TRUE)
  /\ LetGo
  /\ UNCHANGED <<data_bus, modes>>

(* press_instruction and press_cycle *)
PressStepMode(mode) ==
  /\ step_mode # mode
  /\ step_mode' = mode
  /\ passed' = 0
  /\ UNCHANGED <<control, data_bus, start_mode, stepping, trap, init, trapped>>

(* press_trap *)
PressTrap ==
  /\ trap' = ~trap
  /\ UNCHANGED <<control, data_bus, start_mode, stepping, step_mode, init, history>>

(* set_start_mode *)
SetStartMode(mode) ==
  /\ start_mode' = mode
  /\ UNCHANGED <<control, data_bus, stepping, step_mode, trap, init, history>>

(* Mutant: INIT puts the mode back but not READY. *)
InitRisesOnly ==
  /\ phase = "phase_22"
  /\ ~init
  /\ init' = TRUE
  /\ stepping' = (start_mode = "Manual")
  /\ LetGo
  /\ UNCHANGED <<control, data_bus, start_mode, step_mode, trap>>

(* press_interrupt, up to the rise of phase 2 that raises INIT: on_init     *)
(* puts the console in its mode of start.                                   *)
InitRises ==
  /\ phase = "phase_22"
  /\ ~init
  /\ init' = TRUE
  /\ stepping' = (start_mode = "Manual")
  /\ IF start_mode = "Automatic" THEN SetReady(TRUE) /\ LetGo
     ELSE /\ passed' = IF stepping THEN passed ELSE 0
          /\ UNCHANGED <<control, trapped>>
  /\ UNCHANGED <<data_bus, start_mode, step_mode, trap>>

SubstitutionKeys ==
  /\ \/ phase = "sync_falls" /\ PressSubstitution
     \/ /\ phase = "sync_falls" \/ console_placing
        /\ \E byte \in SwitchBytes : SetSwitchData(byte)
  /\ UNCHANGED console

ModeKeys ==
  /\ phase \in {"phase_22", "phase_11"}
  /\ Settled
  /\ \/ PressAutomatic
     \/ PressStepping
     \/ PressAv
     \/ \E mode \in {"Instruction", "Cycle"} : PressStepMode(mode)
     \/ PressTrap
     \/ \E mode \in {"Automatic", "Manual"} : SetStartMode(mode)
     \/ InitRises

Keys == SubstitutionKeys \/ ModeKeys

-----------------------------------------------------------------------------
(* The interrupt of the CPU, which it samples on the first edge of phase 1. *)
Interrupted ==
  /\ phase = "phase_11"
  /\ ~interrupt_pending
  /\ Interrupt
  /\ UNCHANGED <<data_bus, console>>

Undisturbed ==
  /\ Settled
  /\ Phase11 \/ SyncRises \/ Phase21
  /\ UNCHANGED <<data_bus, console>>

ConsoleClock ==
  /\ ~clash
  /\ \/ Undisturbed
     \/ ConsoleEnterState
     \/ BusDataIn /\ UNCHANGED console
     \/ BusSyncFalls /\ UNCHANGED console
     \/ ConsolePhase22
     \/ (\E card \in Cards : PlaceData(card)) /\ UNCHANGED console
     \/ ConsolePlaces /\ UNCHANGED console

ConsoleNext ==
  \/ ConsoleClock
  \/ ~clash /\ (Keys \/ Interrupted)

ConsoleSpec == ConsoleInit /\ [][ConsoleNext]_vars
FairConsole == ConsoleSpec /\ WF_vars(ConsoleClock)
==============================================================================
