----------------------------- MODULE SchedulerMC -----------------------------
(***************************************************************************)
(* The instance of the scheduler for TLC, with its fairness.               *)
(*                                                                         *)
(* Nothing in the scheduler prevents devices that wake one another at the  *)
(* current date from stopping time for ever. The devices of the emulator   *)
(* do not: each wakes another in no time a bounded number of times. Here   *)
(* either they ask for any date, or they are patient and never ask for the *)
(* current one, and then time advances.                                    *)
(***************************************************************************)
EXTENDS SchedulerProperties

VARIABLE patient   (* the devices never ask for the current date *)

OneLaunched == \A s, r \in OneShot : s # r =>
  Unscheduled \in {next_activation_time'[s], next_activation_time'[r]}

(* The bound of the patient runs: one one-shot is launched at a time. *)
Patience ==
  /\ UNCHANGED patient
  /\ patient =>
       /\ OneLaunched
       /\ \A s \in Schedulable :
            next_activation_time'[s] # next_activation_time[s] \/ (s = stepping /\ stepping' = None)
              => next_activation_time'[s] > executed_time

(* The scheduler's own steps: a device is added, run, or returns. *)
OwnStep ==
  \/ \E s \in Schedulable : Add(s)
  \/ BeginStep
  \/ \E t \in Dates \cup {Unscheduled} : EndStep(t)

MCInit == Init /\ patient \in BOOLEAN

(* The constructor of the Simulator ends, the main loop calls step again and *)
(* again, and a device's step returns. *)
MCSpec ==
  /\ MCInit
  /\ [][Next /\ Patience]_<<vars, patient>>
  /\ WF_<<vars, patient>>(patient /\ OwnStep /\ Patience)

(* A clock or a launched one-shot with a date before the bound of the      *)
(* model is eventually run by Scheduler::step, whatever the others         *)
(* schedule meanwhile (the CPU's date may be moved away by the clock).     *)
DueIsRun ==
  \A s \in OneShot \cup Periodic :
    (patient /\ s \in Registered /\ next_activation_time[s] < Horizon) ~> (stepping = s)
==============================================================================
