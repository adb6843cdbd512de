------------------------- MODULE SchedulerProperties -------------------------
(***************************************************************************)
(* What Scheduler.tla is checked against.                                  *)
(***************************************************************************)
EXTENDS Scheduler

(* TypeOK: the types of the variables. *)
TypeOK ==
  /\ pool \in Seq(Entry)
  /\ scheduled_count \in Nat
  /\ next_activation_time \in [Schedulable -> Time]
  /\ executed_time \in Time
  /\ stepping \in Schedulable \cup {None}

(* No device enters the pool twice: Scheduler::add asserts it, and every   *)
(* later swap and sort must only move the entries.                         *)
NoDuplicates ==
  \A i, j \in DOMAIN pool : pool[i].who = pool[j].who => i = j

(* Scheduler::sort_everything only sorts the first scheduled_count entries *)
(* and takes the front as the earliest of all, so at any moment, in the    *)
(* middle of a step included, an entry is in this prefix exactly when it   *)
(* has a date: one left after it would never be run, one counted twice     *)
(* would push the prefix past the end of the pool, which std::sort would   *)
(* overrun.                                                                *)
PrefixIsScheduled ==
  /\ scheduled_count <= Len(pool)
  /\ \A i \in DOMAIN pool : i <= scheduled_count <=> pool[i].time # Unscheduled

(* The pool's copy of a date is the device's own date, whatever was moved  *)
(* by sorts and swaps in between (the device being stepped changes its own *)
(* when it returns).                                                       *)
CacheCoherent ==
  \A i \in DOMAIN pool : pool[i].time = next_activation_time[pool[i].who]

(* The pool is a faithful mirror of the devices: each once, with its own   *)
(* date, whatever sorts, swaps and callbacks moved it.                     *)
PoolMirrorsDevices == NoDuplicates /\ CacheCoherent

(* The device being stepped stays at the front of the pool, whatever its   *)
(* callbacks schedule: step() writes its next date there through a         *)
(* reference taken before (the assertion "The pool probably has been       *)
(* sorted out while stepping").                                            *)
FrontPinned ==
  stepping # None =>
    pool # <<>> /\ pool[1].who = stepping /\ pool[1].time = executed_time

(* No device is left behind with a date that is already past: the          *)
(* assertions of step() and of sort_everything().                          *)
NothingOverdue ==
  \A s \in Registered : next_activation_time[s] >= executed_time

(* The scheduler implements the event loop: whatever the sorts and swaps   *)
(* did before, the device it runs is due the earliest of all.              *)
EL == INSTANCE EventLoop WITH
  due <- [s \in Schedulable |->
            IF s \in Registered THEN next_activation_time[s] ELSE Unscheduled],
  now <- executed_time,
  running <- stepping

ImplementsEventLoop == EL!Spec

(* emulation_core/README.md: "a Schedulable whose next even is scheduled   *)
(* at this pseudo-time will never be called by the Scheduler".             *)
NeverRunsUnscheduled ==
  stepping # None => next_activation_time[stepping] # Unscheduled
==============================================================================
