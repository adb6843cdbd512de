------------------------------ MODULE EventLoop ------------------------------
(***************************************************************************)
(* What emulation_core promises to the devices: a discrete-event loop.     *)
(* Each device has at most one date at which it is due; the loop always    *)
(* runs a device whose date is the earliest, time never goes back, and a   *)
(* device that has no date is never run.  Nothing is said of how the       *)
(* earliest date is found, nor of the order of equal dates.                *)
(*                                                                         *)
(* Scheduler.tla is the detailed specification shown to implement it.      *)
(***************************************************************************)
EXTENDS Naturals

CONSTANTS
  Schedulable,    (* the devices                                            *)
  Unscheduled,    (* the date that stands for "never"                       *)
  None            (* no device is running                                   *)

VARIABLES
  due,            (* due[s]: the date at which s wants to run               *)
  now,            (* the date of the last run                               *)
  running         (* the device being run, or None                          *)

vars == <<due, now, running>>

Init ==
  /\ due = [s \in Schedulable |-> Unscheduled]
  /\ now = 0
  /\ running = None

(* A device other than the running one gets a date that is not in the past. *)
Arm(s, t) ==
  /\ running # s
  /\ t >= now
  /\ due' = [due EXCEPT ![s] = t]
  /\ UNCHANGED <<now, running>>

(* The loop runs a device that has a date, and nobody has an earlier one. *)
Dispatch(s) ==
  /\ running = None
  /\ due[s] # Unscheduled
  /\ \A other \in Schedulable : due[s] <= due[other]
  /\ now' = due[s]
  /\ running' = s
  /\ UNCHANGED due

(* The running device returns, with its next date. *)
Finish(t) ==
  /\ running # None
  /\ t >= now
  /\ due' = [due EXCEPT ![running] = t]
  /\ running' = None
  /\ UNCHANGED now

Next ==
  \/ \E s \in Schedulable, t \in 0 .. Unscheduled : Arm(s, t)
  \/ \E s \in Schedulable : Dispatch(s)
  \/ \E t \in 0 .. Unscheduled : Finish(t)

Spec == Init /\ [][Next]_vars
==============================================================================
