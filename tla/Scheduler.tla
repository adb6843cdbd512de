------------------------------ MODULE Scheduler ------------------------------
(***************************************************************************)
(* emulation_core/src/Scheduler.cpp: the pool of schedulables, the prefix  *)
(* of the pool that is known to hold every scheduled one, and the step     *)
(* that sorts this prefix only.                                            *)
(*                                                                         *)
(* A call to Scheduler::step is cut in two, BeginStep and EndStep, because *)
(* the device that is stepped runs callbacks that call back into           *)
(* Scheduler::change_schedule (Launch, Retime) while `front` is held by    *)
(* reference.                                                              *)
(*                                                                         *)
(* std::sort is not stable: the order of equal dates is left open.         *)
(* A call that throws ends the program, so it is not a step.               *)
(***************************************************************************)
EXTENDS Naturals, Sequences

CONSTANTS
  Schedulable,    (* every device the Simulator adds, subs included          *)
  Periodic,       (* those that always ask for another date (the clocks)     *)
  OneShot,        (* ScheduledAction, ScheduledSignal: launched when idle     *)
  Unscheduled,    (* Scheduling::unscheduled(): the largest counter value    *)
  Delays,         (* the delays devices ask for                              *)
  Horizon,        (* bound: no step begins once this date is reached         *)
  None            (* no device is being stepped                              *)

ASSUME SchedulerAssumption ==
  /\ Periodic \subseteq Schedulable
  /\ OneShot \subseteq Schedulable
  /\ Periodic \cap OneShot = {}
  /\ None \notin Schedulable
  /\ Unscheduled \in Nat \ {0}
  /\ Delays \subseteq Nat

VARIABLES
  pool,                   (* schedulable_pool: the cached date and the device *)
  scheduled_count,        (* length of the prefix holding the scheduled ones  *)
  next_activation_time,   (* each device's own date (SchedulableImpl)         *)
  executed_time,          (* date of the last step; `counter` is equal to it  *)
  stepping                (* the device step() is calling, or None            *)

vars == <<pool, scheduled_count, next_activation_time, executed_time, stepping>>

Time == 0 .. Unscheduled
Entry == [time : Time, who : Schedulable]

Registered == {pool[i].who : i \in DOMAIN pool}

-----------------------------------------------------------------------------
(* The permutations of 1..len that leave everything after position n alone. *)
PrefixPermutations(len, n) ==
  {f \in [1 .. len -> 1 .. len] :
     /\ \A i, j \in 1 .. len : f[i] = f[j] => i = j
     /\ \A j \in 1 .. len : \E i \in 1 .. len : f[i] = j
     /\ \A i \in 1 .. len : i > n => f[i] = i}

(* What std::sort may leave of p when it sorts its first n entries by date. *)
SortedPrefixes(p, n) ==
  {q \in {[i \in 1 .. Len(p) |-> p[f[i]]] : f \in PrefixPermutations(Len(p), n)} :
     \A i, j \in 1 .. Len(p) : i < j /\ j <= n => q[i].time <= q[j].time}

(* k entries of p come before the first one whose cached date is "never". *)
FirstUnscheduledAfter(p, k) ==
  /\ \A i \in 1 .. k : p[i].time # Unscheduled
  /\ k < Len(p) => p[k + 1].time = Unscheduled

(* Mutant: the last entry of the prefix is left out of the sort. *)
SortAllButLast(p, n) ==
  /\ pool' \in SortedPrefixes(p, IF n > 0 THEN n - 1 ELSE 0)
  /\ scheduled_count' \in 0 .. Len(p)
  /\ FirstUnscheduledAfter(pool', scheduled_count')

(* Scheduler::sort_everything on a pool p whose prefix is n long. *)
SortEverything(p, n) ==
  /\ pool' \in SortedPrefixes(p, n)
  /\ scheduled_count' \in 0 .. Len(p)
  /\ FirstUnscheduledAfter(pool', scheduled_count')

-----------------------------------------------------------------------------
(* SchedulableImpl's date is 0 until the constructor changes it: the clocks *)
(* and the CPU keep it, the one-shots start unscheduled.                    *)
Init ==
  /\ pool = <<>>
  /\ scheduled_count = 0
  /\ next_activation_time =
       [s \in Schedulable |-> IF s \in OneShot THEN Unscheduled ELSE 0]
  /\ executed_time = 0
  /\ stepping = None

(* Mutant: no full reschedule is forced for the added device. *)
AddWithoutReschedule(s) ==
  LET grown == Append(pool, [time |-> next_activation_time[s], who |-> s])
  IN
  /\ stepping = None
  /\ s \notin Registered
  /\ SortEverything(grown, scheduled_count)
  /\ UNCHANGED <<next_activation_time, executed_time, stepping>>

(* Scheduler::add, called from the constructor of the Simulator.  Subs are   *)
(* added by the same routine and are devices of their own here.              *)
Add(s) ==
  LET grown == Append(pool, [time |-> next_activation_time[s], who |-> s])
  IN
  /\ stepping = None
  /\ s \notin Registered
  /\ SortEverything(grown, IF next_activation_time[s] # Unscheduled
                             THEN Len(grown) ELSE scheduled_count)
  /\ UNCHANGED <<next_activation_time, executed_time, stepping>>

(* Scheduler::step up to the call of the front device. The Simulator is     *)
(* only stepped once it is constructed.                                     *)
BeginStep ==
  /\ stepping = None
  /\ Registered = Schedulable
  /\ executed_time < Horizon
  /\ pool # <<>>
  /\ SortEverything(pool, scheduled_count)
  /\ executed_time' = pool'[1].time
  /\ stepping' = pool'[1].who
  /\ UNCHANGED next_activation_time

Position(s) == CHOOSE k \in DOMAIN pool : pool[k].who = s

(* Mutant: the entry is copied at the end of the prefix, not swapped. *)
ChangeScheduleCopies(s, t) ==
  LET written == [pool EXCEPT ![Position(s)].time = t]
      wakes == pool[Position(s)].time = Unscheduled /\ t # Unscheduled
  IN
  /\ pool' = IF wakes /\ scheduled_count < Len(pool)
             THEN [written EXCEPT ![scheduled_count + 1] = written[Position(s)]]
             ELSE written
  /\ scheduled_count' = IF wakes THEN scheduled_count + 1 ELSE scheduled_count

(* Mutant: the prefix grows, but the entry stays where it was. *)
ChangeScheduleStays(s, t) ==
  LET wakes == pool[Position(s)].time = Unscheduled /\ t # Unscheduled
  IN
  /\ pool' = [pool EXCEPT ![Position(s)].time = t]
  /\ scheduled_count' = IF wakes THEN scheduled_count + 1 ELSE scheduled_count

(* Mutant: an entry that already has a date keeps its cached date. *)
ChangeScheduleOnlyWakes(s, t) ==
  LET i == Position(s)
      boundary == scheduled_count + 1
      written == [pool EXCEPT ![i].time = t]
  IN
  IF pool[i].time = Unscheduled /\ t # Unscheduled
  THEN /\ pool' = [written EXCEPT ![boundary] = written[i], ![i] = written[boundary]]
       /\ scheduled_count' = boundary
  ELSE UNCHANGED <<pool, scheduled_count>>

(* Mutant: the pool is sorted at once, in the middle of a step. *)
ChangeScheduleSorts(s, t) ==
  SortEverything([pool EXCEPT ![Position(s)].time = t], Len(pool))

(* Scheduler::change_schedule: the cached date of s follows its own date    *)
(* (already set to t); if s was unscheduled it is swapped with the first    *)
(* entry after the prefix, and the prefix grows.                            *)
ChangeSchedule(s, t) ==
  LET i == Position(s)
      written == [pool EXCEPT ![i].time = t]
      boundary == scheduled_count + 1
  IN
  IF pool[i].time = Unscheduled /\ t # Unscheduled
  THEN
    /\ pool' = IF scheduled_count < Len(pool)
               THEN [written EXCEPT ![boundary] = written[i], ![i] = written[boundary]]
               ELSE written
    /\ scheduled_count' = boundary
  ELSE
    /\ pool' = written
    /\ UNCHANGED scheduled_count

(* A device gets a date from outside its own step: the change_schedule      *)
(* callback follows at once.  The date is not in the past (it would throw). *)
SetDate(s, t) ==
  /\ s \in Registered
  /\ t >= executed_time
  /\ t < Unscheduled
  /\ next_activation_time' = [next_activation_time EXCEPT ![s] = t]
  /\ ChangeSchedule(s, t)
  /\ UNCHANGED <<executed_time, stepping>>

(* ScheduledAction::schedule, ScheduledSignal::launch: refused (exception,  *)
(* assertion) unless the one-shot is idle; it is not idle in its own step.  *)
(* Every launch is made by a callback of the device being stepped.          *)
Launch(s, t) ==
  /\ s \in OneShot
  /\ stepping # None
  /\ next_activation_time[s] = Unscheduled
  /\ SetDate(s, t)

(* CPU8008::schedule_next_event, ProcessorCard::cpu_state_changed: called    *)
(* from the step of another device (CPU8008::on_vdd: from the constructor of *)
(* the Simulator), the date may move either way.                             *)
Retime(s, t) ==
  /\ s \in Schedulable \ (OneShot \cup Periodic)
  /\ s # stepping
  /\ stepping = None => executed_time = 0
  /\ SetDate(s, t)

(* The stepped device returns from step() with its next date t, which the   *)
(* scheduler copies in front(), and everything is sorted.                    *)
EndStep(t) ==
  LET written == [pool EXCEPT ![1].time = t]
  IN
  /\ stepping # None
  /\ t >= executed_time
  /\ stepping \in Periodic => t < Unscheduled
  /\ next_activation_time' = [next_activation_time EXCEPT ![stepping] = t]
  /\ SortEverything(written, scheduled_count)
  /\ stepping' = None
  /\ UNCHANGED executed_time

(* Mutant: the delay is added to the date of an idle device. *)
DatesAfterNever == {Unscheduled + d : d \in Delays}

(* The dates a device asks for: a delay after the current edge. *)
Dates == {executed_time + d : d \in Delays} \cap Time

Next ==
  \/ \E s \in Schedulable : Add(s)
  \/ BeginStep
  \/ \E s \in Schedulable, t \in Dates : Launch(s, t) \/ Retime(s, t)
  \/ \E t \in Dates \cup {Unscheduled} : EndStep(t)

Spec == Init /\ [][Next]_vars
==============================================================================
