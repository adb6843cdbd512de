--------------------------- MODULE SchedulerProofs ---------------------------
(***************************************************************************)
(* Proofs that Scheduler.tla keeps its pool in order and implements the    *)
(* event loop, for every set of devices with a clock among them.           *)
(***************************************************************************)
EXTENDS SchedulerProperties, TLAPS

(* Devices are added before the first step is made. *)
RegistrationFirst ==
  Registered # Schedulable => executed_time = 0 /\ stepping = None

(* A clock always has a date. *)
PeriodicScheduled ==
  \A s \in Periodic : next_activation_time[s] # Unscheduled

(* The inductive invariant. *)
IInv ==
  /\ TypeOK
  /\ NoDuplicates
  /\ PrefixIsScheduled
  /\ CacheCoherent
  /\ FrontPinned
  /\ NothingOverdue
  /\ RegistrationFirst
  /\ PeriodicScheduled

-----------------------------------------------------------------------------
(* A sorted pool holds the entries of the pool it comes from, each at one   *)
(* place, and those after the prefix have not moved.                        *)
LEMMA SortMoves ==
  ASSUME NEW p \in Seq(Entry), NEW n \in Nat, NEW q \in SortedPrefixes(p, n)
  PROVE  /\ q \in Seq(Entry)
         /\ Len(q) = Len(p)
         /\ \E f \in [1 .. Len(p) -> 1 .. Len(p)] :
              /\ \A i \in 1 .. Len(p) : q[i] = p[f[i]]
              /\ \A i, j \in 1 .. Len(p) : f[i] = f[j] => i = j
              /\ \A j \in 1 .. Len(p) : \E i \in 1 .. Len(p) : f[i] = j
              /\ \A i \in 1 .. Len(p) : i > n => f[i] = i
         /\ \A i, j \in 1 .. Len(p) : i < j /\ j <= n => q[i].time <= q[j].time
<1>1. PICK f \in PrefixPermutations(Len(p), n) : q = [i \in 1 .. Len(p) |-> p[f[i]]]
  BY DEF SortedPrefixes
<1>2. Len(p) \in Nat /\ DOMAIN p = 1 .. Len(p) /\ \A i \in 1 .. Len(p) : p[i] \in Entry
  OBVIOUS
<1>3. f \in [1 .. Len(p) -> 1 .. Len(p)]
  BY DEF PrefixPermutations
<1>4. \A i \in 1 .. Len(p) : q[i] = p[f[i]] /\ q[i] \in Entry
  BY <1>1, <1>2, <1>3
<1>5. q \in Seq(Entry) /\ Len(q) = Len(p)
  BY <1>1, <1>2, <1>4
<1>6. \A i, j \in 1 .. Len(p) : i < j /\ j <= n => q[i].time <= q[j].time
  BY DEF SortedPrefixes
<1> QED
  BY <1>3, <1>4, <1>5, <1>6 DEF PrefixPermutations

(* Scheduler::sort_everything keeps the devices and their cached dates,     *)
(* and leaves the prefix exact when nothing after the old one had a date.   *)
LEMMA SortKeeps ==
  ASSUME SchedulerAssumption,
         NEW p \in Seq(Entry), NEW n \in Nat, n <= Len(p),
         \A i, j \in DOMAIN p : p[i].who = p[j].who => i = j,
         \A i \in DOMAIN p : i > n => p[i].time = Unscheduled,
         SortEverything(p, n)
  PROVE  /\ pool' \in Seq(Entry)
         /\ scheduled_count' \in Nat
         /\ Len(pool') = Len(p)
         /\ NoDuplicates'
         /\ PrefixIsScheduled'
         /\ \A i \in DOMAIN pool' : \E j \in DOMAIN p : pool'[i] = p[j]
         /\ \A j \in DOMAIN p : \E i \in DOMAIN pool' : pool'[i] = p[j]
         /\ \A i \in DOMAIN pool' : pool'[1].time <= pool'[i].time
<1> DEFINE L == Len(p)
<1>1. pool' \in SortedPrefixes(p, n)
  BY DEF SortEverything
<1>2. /\ pool' \in Seq(Entry)
      /\ Len(pool') = L
      /\ \A i, j \in 1 .. L : i < j /\ j <= n => pool'[i].time <= pool'[j].time
  BY <1>1, SortMoves
<1>3. PICK f \in [1 .. L -> 1 .. L] :
        /\ \A i \in 1 .. L : pool'[i] = p[f[i]]
        /\ \A i, j \in 1 .. L : f[i] = f[j] => i = j
        /\ \A j \in 1 .. L : \E i \in 1 .. L : f[i] = j
        /\ \A i \in 1 .. L : i > n => f[i] = i
  BY <1>1, SortMoves
<1>4. L \in Nat /\ DOMAIN p = 1 .. L /\ DOMAIN pool' = 1 .. L
  BY <1>2
<1>5. NoDuplicates'
  <2> SUFFICES ASSUME NEW i \in 1 .. L, NEW j \in 1 .. L, pool'[i].who = pool'[j].who
               PROVE  i = j
    BY <1>4 DEF NoDuplicates
  <2>1. f[i] \in 1 .. L /\ f[j] \in 1 .. L /\ p[f[i]].who = p[f[j]].who
    BY <1>3
  <2>2. f[i] = f[j]
    BY <2>1, <1>4
  <2> QED
    BY <2>2, <1>3
<1>6. /\ \A i \in DOMAIN pool' : \E j \in DOMAIN p : pool'[i] = p[j]
      /\ \A j \in DOMAIN p : \E i \in DOMAIN pool' : pool'[i] = p[j]
  <2>1. \A i \in 1 .. L : f[i] \in 1 .. L /\ pool'[i] = p[f[i]]
    BY <1>3
  <2>2. \A j \in 1 .. L : \E i \in 1 .. L : f[i] = j
    BY <1>3
  <2>3. \A j \in 1 .. L : \E i \in 1 .. L : pool'[i] = p[j]
    <3> TAKE j \in 1 .. L
    <3>1. PICK i \in 1 .. L : f[i] = j
      BY <2>2
    <3>2. pool'[i] = p[j]
      BY <2>1, <3>1
    <3> QED
      BY <3>2
  <2> QED
    BY <2>1, <2>3, <1>4, Zenon
<1>7. \A i \in 1 .. L : pool'[i].time \in Nat /\ pool'[i].time <= Unscheduled
  <2>1. \A i \in 1 .. L : pool'[i] \in Entry
    BY <1>2, <1>4
  <2> QED
    BY <2>1 DEF Entry, Time, SchedulerAssumption
<1>8. \A i \in 1 .. L : i > n => pool'[i].time = Unscheduled
  <2> SUFFICES ASSUME NEW i \in 1 .. L, i > n PROVE pool'[i].time = Unscheduled
    OBVIOUS
  <2>1. f[i] = i /\ pool'[i] = p[f[i]]
    BY <1>3
  <2>2. p[i].time = Unscheduled
    BY <1>4
  <2> QED
    BY <2>1, <2>2
<1>9. \A i, j \in 1 .. L : i < j => pool'[i].time <= pool'[j].time
  BY <1>2, <1>7, <1>8, <1>4
<1>10. PICK c \in 0 .. L : c = scheduled_count'
  BY DEF SortEverything
<1>11. /\ \A i \in 1 .. c : pool'[i].time # Unscheduled
       /\ c < L => pool'[c + 1].time = Unscheduled
  BY <1>2, <1>10 DEF SortEverything, FirstUnscheduledAfter
<1>12. PrefixIsScheduled'
  <2>1. ASSUME NEW i \in 1 .. L, i > c
        PROVE  pool'[i].time = Unscheduled
    <3>1. c + 1 \in 1 .. L /\ c < L
      BY <2>1, <1>4
    <3>2. CASE i = c + 1
      BY <3>1, <3>2, <1>11
    <3>3. CASE i # c + 1
      <4>1. c + 1 < i
        BY <2>1, <3>3
      <4>2. pool'[c + 1].time <= pool'[i].time
        BY <4>1, <3>1, <1>9
      <4> QED
        BY <4>2, <3>1, <1>11, <1>7 DEF SchedulerAssumption
    <3> QED
      BY <3>2, <3>3
  <2>2. \A i \in 1 .. L : i <= c <=> pool'[i].time # Unscheduled
    BY <2>1, <1>11, <1>4
  <2>3. c <= Len(pool')
    BY <1>2, <1>4
  <2> QED
    BY <2>2, <2>3, <1>10, <1>4 DEF PrefixIsScheduled
<1>13. \A i \in DOMAIN pool' : pool'[1].time <= pool'[i].time
  <2> SUFFICES ASSUME NEW i \in 1 .. L PROVE pool'[1].time <= pool'[i].time
    BY <1>4
  <2>1. 1 \in 1 .. L
    BY <1>4
  <2> QED
    BY <2>1, <1>9, <1>7, <1>4
<1> QED
  BY <1>2, <1>4, <1>5, <1>6, <1>10, <1>12, <1>13

-----------------------------------------------------------------------------
(* The devices of the pool are devices. *)
LEMMA RegisteredAreDevices ==
  ASSUME pool \in Seq(Entry)
  PROVE  /\ Registered \subseteq Schedulable
         /\ \A m \in DOMAIN pool : pool[m].who \in Schedulable
<1>1. \A m \in DOMAIN pool : pool[m] \in Entry
  OBVIOUS
<1>2. \A m \in DOMAIN pool : pool[m].who \in Schedulable
  BY <1>1 DEF Entry
<1> QED
  BY <1>2 DEF Registered

(* A pool with the devices of p, in whatever order, registers them.         *)
LEMMA SameDevices ==
  ASSUME NEW p,
         \A i \in DOMAIN pool' : \E j \in DOMAIN p : pool'[i].who = p[j].who,
         \A j \in DOMAIN p : \E i \in DOMAIN pool' : pool'[i].who = p[j].who
  PROVE  Registered' = {p[j].who : j \in DOMAIN p}
BY DEF Registered

(* So does a sort.                                                          *)
LEMMA SortKeepsRegistered ==
  ASSUME NEW p,
         \A i \in DOMAIN pool' : \E j \in DOMAIN p : pool'[i] = p[j],
         \A j \in DOMAIN p : \E i \in DOMAIN pool' : pool'[i] = p[j]
  PROVE  Registered' = {p[j].who : j \in DOMAIN p}
BY DEF Registered

(* The first step of the invariant. *)
LEMMA InitIInv == SchedulerAssumption /\ Init => IInv
<1> SUFFICES ASSUME SchedulerAssumption, Init PROVE IInv
  OBVIOUS
<1>1. pool = <<>> /\ DOMAIN pool = {} /\ Len(pool) = 0 /\ Registered = {}
  BY DEF Init, Registered
<1>2. TypeOK
  BY <1>1 DEF Init, TypeOK, SchedulerAssumption, Time
<1>3. NoDuplicates /\ PrefixIsScheduled /\ CacheCoherent /\ FrontPinned
  BY <1>1 DEF Init, NoDuplicates, PrefixIsScheduled, CacheCoherent, FrontPinned
<1>4. NothingOverdue /\ RegistrationFirst
  BY <1>1 DEF Init, NothingOverdue, RegistrationFirst
<1>5. PeriodicScheduled
  BY DEF Init, PeriodicScheduled, SchedulerAssumption
<1> QED
  BY <1>2, <1>3, <1>4, <1>5 DEF IInv

(* Scheduler::add keeps the invariant. *)
LEMMA AddIInv ==
  ASSUME SchedulerAssumption, IInv, NEW s \in Schedulable, Add(s)
  PROVE  IInv' /\ Registered' = Registered \cup {s}
<1> DEFINE e == [time |-> next_activation_time[s], who |-> s]
           p == Append(pool, e)
           n == IF next_activation_time[s] # Unscheduled THEN Len(p) ELSE scheduled_count
<1>1. /\ pool \in Seq(Entry) /\ Len(pool) \in Nat /\ e \in Entry
      /\ DOMAIN pool = 1 .. Len(pool)
      /\ scheduled_count \in Nat /\ scheduled_count <= Len(pool)
  BY DEF IInv, TypeOK, PrefixIsScheduled, Entry
<1>2. /\ p \in Seq(Entry) /\ Len(p) = Len(pool) + 1 /\ DOMAIN p = 1 .. Len(pool) + 1
      /\ \A i \in 1 .. Len(pool) : p[i] = pool[i]
      /\ p[Len(pool) + 1] = e
  BY <1>1
<1>3. \A i \in 1 .. Len(pool) : pool[i].who # s
  BY <1>1 DEF Add, Registered
<1>4. \A i, j \in DOMAIN p : p[i].who = p[j].who => i = j
  <2> SUFFICES ASSUME NEW i \in DOMAIN p, NEW j \in DOMAIN p, p[i].who = p[j].who
               PROVE i = j
    OBVIOUS
  <2>1. CASE i \in 1 .. Len(pool) /\ j \in 1 .. Len(pool)
    BY <2>1, <1>1, <1>2 DEF IInv, NoDuplicates
  <2>2. CASE i = Len(pool) + 1 /\ j = Len(pool) + 1
    BY <2>2
  <2>3. CASE i = Len(pool) + 1 /\ j \in 1 .. Len(pool)
    BY <2>3, <1>2, <1>3
  <2>4. CASE i \in 1 .. Len(pool) /\ j = Len(pool) + 1
    BY <2>4, <1>2, <1>3
  <2> QED
    BY <2>1, <2>2, <2>3, <2>4, <1>1, <1>2
<1>5. n \in Nat /\ n <= Len(p)
  BY <1>1, <1>2
<1>6. \A i \in DOMAIN p : i > n => p[i].time = Unscheduled
  BY <1>1, <1>2 DEF IInv, PrefixIsScheduled
<1>7. /\ SortEverything(p, n) /\ stepping = None /\ s \notin Registered
      /\ UNCHANGED <<next_activation_time, executed_time, stepping>>
  BY DEF Add
<1> HIDE DEF p, n
<1>8. /\ pool' \in Seq(Entry)
      /\ scheduled_count' \in Nat
      /\ NoDuplicates'
      /\ PrefixIsScheduled'
      /\ \A i \in DOMAIN pool' : \E j \in DOMAIN p : pool'[i] = p[j]
      /\ \A j \in DOMAIN p : \E i \in DOMAIN pool' : pool'[i] = p[j]
  BY <1>2, <1>4, <1>5, <1>6, <1>7, SortKeeps
<1>9. Registered' = {p[j].who : j \in DOMAIN p}
  BY <1>8, SortKeepsRegistered
<1>10. Registered' = Registered \cup {s}
  <2>1. \A x : x \in Registered' <=> \E j \in 1 .. Len(pool) + 1 : p[j].who = x
    BY <1>9, <1>2
  <2>2. \A x : x \in Registered <=> \E j \in 1 .. Len(pool) : pool[j].who = x
    BY <1>1 DEF Registered
  <2>3. p[Len(pool) + 1].who = s
    BY <1>2
  <2>4. \A j \in 1 .. Len(pool) + 1 : j \in 1 .. Len(pool) \/ j = Len(pool) + 1
    BY <1>1
  <2>5. 1 .. Len(pool) \subseteq 1 .. Len(pool) + 1 /\ Len(pool) + 1 \in 1 .. Len(pool) + 1
    BY <1>1
  <2>6. \A j \in 1 .. Len(pool) : p[j].who = pool[j].who
    BY <1>2
  <2>7. ASSUME NEW x PROVE x \in Registered' <=> x \in Registered \/ x = s
    BY <2>1, <2>2, <2>3, <2>4, <2>5, <2>6, Zenon
  <2> QED
    BY <2>7, Zenon
<1>11. executed_time = 0
  BY <1>7 DEF IInv, RegistrationFirst
<1>12. TypeOK'
  BY <1>7, <1>8 DEF IInv, TypeOK
<1>13. CacheCoherent'
  <2>1. \A j \in DOMAIN p : p[j].time = next_activation_time[p[j].who]
    BY <1>1, <1>2 DEF IInv, CacheCoherent
  <2> QED
    BY <2>1, <1>7, <1>8 DEF CacheCoherent
<1>14. FrontPinned'
  BY <1>7 DEF FrontPinned
<1>15. NothingOverdue'
  <2>1. Registered' \subseteq Schedulable
    <3>1. \A k \in DOMAIN pool' : pool'[k] \in Entry
      BY <1>8
    <3> QED
      BY <3>1 DEF Registered, Entry
  <2> QED
    BY <2>1, <1>7, <1>11 DEF NothingOverdue, IInv, TypeOK, Time
<1>16. RegistrationFirst' /\ PeriodicScheduled'
  BY <1>7, <1>11 DEF IInv, RegistrationFirst, PeriodicScheduled
<1> QED
  BY <1>8, <1>10, <1>12, <1>13, <1>14, <1>15, <1>16 DEF IInv

(* Where an unscheduled device gets a date, change_schedule swaps its entry *)
(* with the first one after the prefix; otherwise the entry is overwritten. *)
(* Either way the pool holds the same devices, and only the date of s is    *)
(* another.                                                                 *)
LEMMA ChangeScheduleKeeps ==
  ASSUME SchedulerAssumption, IInv,
         NEW s \in Registered, NEW t \in Time, t # Unscheduled,
         ChangeSchedule(s, t)
  PROVE  /\ pool' \in Seq(Entry)
         /\ scheduled_count' \in Nat
         /\ Len(pool') = Len(pool)
         /\ NoDuplicates'
         /\ PrefixIsScheduled'
         /\ \A k \in DOMAIN pool' : \E m \in DOMAIN pool :
              /\ pool'[k].who = pool[m].who
              /\ pool'[k].time = IF pool[m].who = s THEN t ELSE pool[m].time
         /\ \A m \in DOMAIN pool : \E k \in DOMAIN pool' : pool'[k].who = pool[m].who
         /\ 1 \in DOMAIN pool /\ pool[1].who # s /\ pool[1].time # Unscheduled
              => pool'[1] = pool[1]
<1> DEFINE i == CHOOSE k \in DOMAIN pool : pool[k].who = s
           written == [pool EXCEPT ![i].time = t]
           b == scheduled_count + 1
           L == Len(pool)
<1>1. /\ pool \in Seq(Entry) /\ L \in Nat /\ DOMAIN pool = 1 .. L
      /\ scheduled_count \in Nat /\ scheduled_count <= L
      /\ \A k \in 1 .. L : pool[k] \in Entry
  BY DEF IInv, TypeOK, PrefixIsScheduled
<1>2. i \in 1 .. L /\ pool[i].who = s
  BY <1>1 DEF Registered
<1>3. \A k \in 1 .. L : pool[k].who = s <=> k = i
  BY <1>1, <1>2 DEF IInv, NoDuplicates
<1>4. \A k \in 1 .. L : k <= scheduled_count <=> pool[k].time # Unscheduled
  BY <1>1 DEF IInv, PrefixIsScheduled
<1>5. /\ written \in Seq(Entry) /\ Len(written) = L /\ DOMAIN written = 1 .. L
      /\ written[i] = [time |-> t, who |-> s]
      /\ \A k \in 1 .. L : k # i => written[k] = pool[k]
  BY <1>1, <1>2 DEF Entry
<1>6. ChangeSchedule(s, t) <=>
        IF pool[i].time = Unscheduled /\ t # Unscheduled
        THEN /\ pool' = IF scheduled_count < L
                        THEN [written EXCEPT ![b] = written[i], ![i] = written[b]]
                        ELSE written
             /\ scheduled_count' = b
        ELSE pool' = written /\ UNCHANGED scheduled_count
  BY DEF ChangeSchedule, Position
<1>7. \A k \in 1 .. L : pool[k].time = (IF k = i THEN pool[i].time ELSE written[k].time)
  BY <1>5
<1> HIDE DEF i, written
<1>8. CASE pool[i].time # Unscheduled
  <2>1. pool' = written /\ scheduled_count' = scheduled_count
    BY <1>6, <1>8
  <2>2. NoDuplicates'
    BY <2>1, <1>3, <1>5, <1>1 DEF NoDuplicates, IInv
  <2>3. PrefixIsScheduled'
    <3> SUFFICES ASSUME NEW k \in 1 .. L
                 PROVE  k <= scheduled_count <=> written[k].time # Unscheduled
      BY <2>1, <1>5, <1>1 DEF PrefixIsScheduled
    <3> QED
      BY <1>4, <1>5, <1>8
  <2>4. \A k \in 1 .. L : /\ pool'[k].who = pool[k].who
                         /\ pool'[k].time = IF pool[k].who = s THEN t ELSE pool[k].time
    BY <2>1, <1>2, <1>3, <1>5
  <2>5. pool[1].who # s /\ 1 \in 1 .. L => pool'[1] = pool[1]
    BY <2>1, <1>2, <1>5
  <2> QED
    BY <2>1, <2>2, <2>3, <2>4, <2>5, <1>1, <1>5
<1>9. CASE pool[i].time = Unscheduled
  <2>1. i > scheduled_count /\ b \in 1 .. L /\ scheduled_count < L
    BY <1>1, <1>2, <1>4, <1>9
  <2>2. pool' = [written EXCEPT ![b] = written[i], ![i] = written[b]] /\ scheduled_count' = b
    BY <1>6, <1>9, <2>1
  <2>3. /\ pool' \in Seq(Entry) /\ Len(pool') = L /\ DOMAIN pool' = 1 .. L
        /\ pool'[i] = written[b] /\ (b # i => pool'[b] = written[i])
        /\ \A k \in 1 .. L : k # b /\ k # i => pool'[k] = written[k]
    BY <2>1, <2>2, <1>2, <1>5
  <2>4. pool'[b] = [time |-> t, who |-> s]
    BY <2>3, <1>5
  <2>5. b # i => pool'[i] = pool[b]
    BY <2>3, <2>1, <1>5
  <2>6. \A k \in 1 .. L : k # b /\ k # i => pool'[k] = pool[k]
    BY <2>3, <1>5
  <2>7. NoDuplicates'
    <3> SUFFICES ASSUME NEW k \in 1 .. L, NEW m \in 1 .. L, pool'[k].who = pool'[m].who
                 PROVE  k = m
      BY <2>3 DEF NoDuplicates
    <3> DEFINE from(x) == IF x = b THEN i ELSE IF x = i THEN b ELSE x
    <3>1. \A x \in 1 .. L : from(x) \in 1 .. L /\ pool'[x].who = pool[from(x)].who
      BY <2>4, <2>5, <2>6, <2>1, <1>2
    <3>2. from(k) = from(m)
      BY <3>1, <1>1 DEF IInv, NoDuplicates
    <3> QED
      BY <3>2
  <2>8. PrefixIsScheduled'
    <3> SUFFICES ASSUME NEW k \in 1 .. L
                 PROVE  k <= b <=> pool'[k].time # Unscheduled
      BY <2>1, <2>2, <2>3 DEF PrefixIsScheduled
    <3>1. CASE k = b
      BY <3>1, <2>4
    <3>2. CASE k = i /\ k # b
      BY <3>2, <2>1, <2>5, <1>1, <1>4
    <3>3. CASE k # i /\ k # b
      BY <3>3, <2>1, <2>6, <1>1, <1>4
    <3> QED
      BY <3>1, <3>2, <3>3
  <2>9. \A k \in 1 .. L : \E m \in 1 .. L :
          /\ pool'[k].who = pool[m].who
          /\ pool'[k].time = IF pool[m].who = s THEN t ELSE pool[m].time
    <3> TAKE k \in 1 .. L
    <3>1. CASE k = b
      BY <3>1, <2>4, <1>2
    <3>2. CASE k = i /\ k # b
      BY <3>2, <2>1, <2>5, <1>3
    <3>3. CASE k # i /\ k # b
      BY <3>3, <2>6, <1>3
    <3> QED
      BY <3>1, <3>2, <3>3
  <2>10. \A m \in 1 .. L : \E k \in 1 .. L : pool'[k].who = pool[m].who
    <3> TAKE m \in 1 .. L
    <3>1. CASE m = i
      BY <3>1, <2>1, <2>4, <1>2
    <3>2. CASE m = b /\ m # i
      BY <3>2, <1>2, <2>5
    <3>3. CASE m # i /\ m # b
      BY <3>3, <2>6
    <3> QED
      BY <3>1, <3>2, <3>3
  <2>11. 1 \in 1 .. L /\ pool[1].who # s /\ pool[1].time # Unscheduled => pool'[1] = pool[1]
    BY <2>1, <2>6, <1>1, <1>2, <1>4
  <2>12. scheduled_count' \in Nat
    BY <2>2, <1>1
  <2> QED
    BY <2>3, <2>7, <2>8, <2>9, <2>10, <2>11, <2>12, <1>1, ZenonT(30)
<1> QED
  BY <1>8, <1>9

(* Scheduler::step up to the call keeps the invariant, and the device it    *)
(* calls is due the earliest of all.                                        *)
LEMMA BeginStepIInv ==
  ASSUME SchedulerAssumption, Periodic # {}, IInv, BeginStep
  PROVE  /\ IInv'
         /\ Registered' = Registered
         /\ stepping' \in Schedulable
         /\ executed_time' = next_activation_time[stepping']
         /\ executed_time' # Unscheduled
         /\ \A s \in Schedulable : executed_time' <= next_activation_time[s]
<1>1. /\ pool \in Seq(Entry) /\ Len(pool) \in Nat /\ DOMAIN pool = 1 .. Len(pool)
      /\ scheduled_count \in Nat /\ scheduled_count <= Len(pool)
      /\ \A i, j \in DOMAIN pool : pool[i].who = pool[j].who => i = j
      /\ \A i \in DOMAIN pool : i > scheduled_count => pool[i].time = Unscheduled
  BY DEF IInv, TypeOK, PrefixIsScheduled, NoDuplicates
<1>2. /\ SortEverything(pool, scheduled_count)
      /\ executed_time' = pool'[1].time /\ stepping' = pool'[1].who
      /\ next_activation_time' = next_activation_time
      /\ Registered = Schedulable /\ pool # <<>>
  BY DEF BeginStep
<1>3. /\ pool' \in Seq(Entry)
      /\ scheduled_count' \in Nat
      /\ Len(pool') = Len(pool)
      /\ NoDuplicates'
      /\ PrefixIsScheduled'
      /\ \A i \in DOMAIN pool' : \E j \in DOMAIN pool : pool'[i] = pool[j]
      /\ \A j \in DOMAIN pool : \E i \in DOMAIN pool' : pool'[i] = pool[j]
      /\ \A i \in DOMAIN pool' : pool'[1].time <= pool'[i].time
  BY <1>1, <1>2, SortKeeps
<1>4. Registered' = Registered
  BY <1>3, SortKeepsRegistered DEF Registered
<1>5. 1 \in DOMAIN pool' /\ DOMAIN pool' = 1 .. Len(pool') /\ pool'[1] \in Entry /\ pool' # <<>>
  BY <1>1, <1>2, <1>3
<1>6. stepping' \in Schedulable /\ executed_time' \in Time
  BY <1>2, <1>5 DEF Entry
<1>7. CacheCoherent'
  <2>1. \A j \in DOMAIN pool : pool[j].time = next_activation_time[pool[j].who]
    BY DEF IInv, CacheCoherent
  <2>2. ASSUME NEW i \in DOMAIN pool'
        PROVE  pool'[i].time = next_activation_time[pool'[i].who]
    <3>1. PICK j \in DOMAIN pool : pool'[i] = pool[j]
      BY <2>2, <1>3
    <3> QED
      BY <3>1, <2>1
  <2> QED
    BY <2>2, <1>2 DEF CacheCoherent
<1>8. executed_time' = next_activation_time[stepping']
  BY <1>2, <1>5, <1>7 DEF CacheCoherent
<1>9. \A s \in Schedulable : executed_time' <= next_activation_time[s]
  <2> TAKE s \in Schedulable
  <2>1. PICK i \in DOMAIN pool' : pool'[i].who = s
    BY <1>2, <1>4 DEF Registered
  <2>2. pool'[i].time = next_activation_time[s]
    BY <2>1, <1>2, <1>7 DEF CacheCoherent
  <2> QED
    BY <2>2, <1>2, <1>3
<1>10. executed_time' # Unscheduled
  <2>1. PICK s \in Periodic : TRUE
    OBVIOUS
  <2>2. s \in Schedulable /\ next_activation_time[s] # Unscheduled
    BY DEF SchedulerAssumption, IInv, PeriodicScheduled
  <2>3. next_activation_time[s] \in Time
    BY <2>2 DEF IInv, TypeOK
  <2>4. executed_time' <= next_activation_time[s]
    BY <2>2, <1>9
  <2> QED
    BY <2>2, <2>3, <2>4, <1>6 DEF Time, SchedulerAssumption
<1>11. TypeOK'
  BY <1>2, <1>3, <1>6 DEF IInv, TypeOK
<1>12. FrontPinned'
  BY <1>2, <1>5 DEF FrontPinned
<1>13. NothingOverdue'
  <2> SUFFICES ASSUME NEW s \in Schedulable PROVE next_activation_time[s] >= executed_time'
    BY <1>2, <1>4 DEF NothingOverdue
  <2>1. next_activation_time[s] \in Nat /\ executed_time' \in Nat
    BY <1>6 DEF IInv, TypeOK, Time
  <2> QED
    BY <2>1, <1>9
<1>14. RegistrationFirst' /\ PeriodicScheduled'
  BY <1>2, <1>4 DEF IInv, RegistrationFirst, PeriodicScheduled
<1> QED
  BY <1>3, <1>4, <1>6, <1>7, <1>8, <1>9, <1>10, <1>11, <1>12, <1>13, <1>14 DEF IInv

(* A change of schedule from outside the step of the device keeps the       *)
(* invariant.                                                               *)
LEMMA SetDateIInv ==
  ASSUME SchedulerAssumption, IInv,
         NEW s \in Schedulable, NEW t \in Time, s # stepping, SetDate(s, t)
  PROVE  IInv' /\ Registered' = Registered
<1>1. /\ s \in Registered /\ t >= executed_time /\ t < Unscheduled
      /\ next_activation_time' = [next_activation_time EXCEPT ![s] = t]
      /\ ChangeSchedule(s, t)
      /\ executed_time' = executed_time /\ stepping' = stepping
  BY DEF SetDate
<1>2. t # Unscheduled
  BY <1>1 DEF Time, SchedulerAssumption
<1>3. /\ pool' \in Seq(Entry)
      /\ scheduled_count' \in Nat
      /\ Len(pool') = Len(pool)
      /\ NoDuplicates'
      /\ PrefixIsScheduled'
      /\ \A k \in DOMAIN pool' : \E m \in DOMAIN pool :
           /\ pool'[k].who = pool[m].who
           /\ pool'[k].time = IF pool[m].who = s THEN t ELSE pool[m].time
      /\ \A m \in DOMAIN pool : \E k \in DOMAIN pool' : pool'[k].who = pool[m].who
      /\ 1 \in DOMAIN pool /\ pool[1].who # s /\ pool[1].time # Unscheduled
           => pool'[1] = pool[1]
  BY <1>1, <1>2, ChangeScheduleKeeps
<1>4. Registered' = Registered
  <2>2. \A k \in DOMAIN pool' : \E m \in DOMAIN pool : pool'[k].who = pool[m].who
    BY <1>3
  <2>3. \A m \in DOMAIN pool : \E k \in DOMAIN pool' : pool'[k].who = pool[m].who
    BY <1>3
  <2>1. Registered' = {pool[j].who : j \in DOMAIN pool}
    BY <2>2, <2>3, SameDevices
  <2> QED
    BY <2>1 DEF Registered
<1>5. next_activation_time \in [Schedulable -> Time]
  BY DEF IInv, TypeOK
<1>6. TypeOK'
  BY <1>1, <1>3, <1>5 DEF IInv, TypeOK
<1>7. CacheCoherent'
  <2> SUFFICES ASSUME NEW k \in DOMAIN pool'
               PROVE  pool'[k].time = next_activation_time'[pool'[k].who]
    BY DEF CacheCoherent
  <2>1. PICK m \in DOMAIN pool :
          /\ pool'[k].who = pool[m].who
          /\ pool'[k].time = IF pool[m].who = s THEN t ELSE pool[m].time
    BY <1>3
  <2>2. pool[m].who \in Schedulable
    BY RegisteredAreDevices DEF IInv, TypeOK
  <2>3. pool[m].time = next_activation_time[pool[m].who]
    BY DEF IInv, CacheCoherent
  <2> QED
    BY <2>1, <2>2, <2>3, <1>1, <1>5
<1>8. FrontPinned'
  <2> SUFFICES ASSUME stepping # None
               PROVE  pool' # <<>> /\ pool'[1].who = stepping /\ pool'[1].time = executed_time
    BY <1>1 DEF FrontPinned
  <2>1. /\ pool # <<>> /\ pool[1].who = stepping /\ pool[1].time = executed_time
        /\ pool \in Seq(Entry)
    BY DEF IInv, FrontPinned, TypeOK
  <2>2. 1 \in DOMAIN pool /\ pool' # <<>>
    BY <2>1, <1>3
  <2>3. pool[1].time # Unscheduled
    BY <2>1, <1>1 DEF IInv, TypeOK, Time, SchedulerAssumption
  <2> QED
    BY <2>1, <2>2, <2>3, <1>3
<1>9. NothingOverdue'
  <2> SUFFICES ASSUME NEW d \in Registered
               PROVE  next_activation_time'[d] >= executed_time
    BY <1>1, <1>4 DEF NothingOverdue
  <2>1. d \in Schedulable
    BY RegisteredAreDevices DEF IInv, TypeOK
  <2>2. next_activation_time[d] >= executed_time
    BY DEF IInv, NothingOverdue
  <2> QED
    BY <2>1, <2>2, <1>1, <1>5
<1>10. RegistrationFirst' /\ PeriodicScheduled'
  BY <1>1, <1>2, <1>4, <1>5 DEF IInv, RegistrationFirst, PeriodicScheduled, SchedulerAssumption
<1> QED
  BY <1>3, <1>4, <1>6, <1>7, <1>8, <1>9, <1>10 DEF IInv

(* The return of the stepped device and the sort that follows keep the      *)
(* invariant.                                                               *)
LEMMA EndStepIInv ==
  ASSUME SchedulerAssumption, IInv, NEW t \in Time, EndStep(t)
  PROVE  IInv' /\ Registered' = Registered
<1> DEFINE written == [pool EXCEPT ![1].time = t]
<1>1. /\ stepping # None /\ t >= executed_time
      /\ stepping \in Periodic => t < Unscheduled
      /\ next_activation_time' = [next_activation_time EXCEPT ![stepping] = t]
      /\ SortEverything(written, scheduled_count)
      /\ stepping' = None /\ executed_time' = executed_time
  BY DEF EndStep
<1>2. /\ pool \in Seq(Entry) /\ Len(pool) \in Nat /\ DOMAIN pool = 1 .. Len(pool)
      /\ pool # <<>> /\ pool[1].who = stepping
      /\ stepping \in Schedulable
      /\ scheduled_count \in Nat /\ scheduled_count <= Len(pool)
      /\ next_activation_time \in [Schedulable -> Time]
      /\ pool[1].time = executed_time
  BY <1>1 DEF IInv, TypeOK, PrefixIsScheduled, FrontPinned
<1>3. 1 \in 1 .. Len(pool) /\ \A i \in 1 .. Len(pool) : pool[i] \in Entry
  BY <1>2
<1>4. /\ written \in Seq(Entry) /\ Len(written) = Len(pool) /\ DOMAIN written = 1 .. Len(pool)
      /\ written[1] = [time |-> t, who |-> stepping]
      /\ \A i \in 1 .. Len(pool) : i # 1 => written[i] = pool[i]
  BY <1>2, <1>3 DEF Entry
<1> HIDE DEF written
<1>5. \A i \in 1 .. Len(pool) : written[i].who = pool[i].who
  BY <1>2, <1>4
<1>6. \A i, j \in DOMAIN written : written[i].who = written[j].who => i = j
  BY <1>2, <1>4, <1>5 DEF IInv, NoDuplicates
<1>7. \A i \in DOMAIN written : i > scheduled_count => written[i].time = Unscheduled
  <2> SUFFICES ASSUME NEW i \in 1 .. Len(pool), i > scheduled_count
               PROVE  written[i].time = Unscheduled
    BY <1>4
  <2>1. pool[i].time = Unscheduled
    BY <1>2 DEF IInv, PrefixIsScheduled
  <2>2. CASE i = 1
    <3>1. executed_time = Unscheduled
      BY <2>1, <2>2, <1>2
    <3> QED
      BY <3>1, <2>2, <1>1, <1>4 DEF Time, SchedulerAssumption
  <2>3. CASE i # 1
    BY <2>1, <2>3, <1>4
  <2> QED
    BY <2>2, <2>3
<1>8. /\ pool' \in Seq(Entry)
      /\ scheduled_count' \in Nat
      /\ NoDuplicates'
      /\ PrefixIsScheduled'
      /\ \A i \in DOMAIN pool' : \E j \in DOMAIN written : pool'[i] = written[j]
      /\ \A j \in DOMAIN written : \E i \in DOMAIN pool' : pool'[i] = written[j]
  BY <1>1, <1>2, <1>4, <1>6, <1>7, SortKeeps
<1>9. Registered' = Registered
  <2>1. Registered' = {written[j].who : j \in DOMAIN written}
    BY <1>8, SortKeepsRegistered
  <2>2. {written[j].who : j \in DOMAIN written} = {pool[j].who : j \in DOMAIN pool}
    BY <1>2, <1>4, <1>5
  <2> QED
    BY <2>1, <2>2 DEF Registered
<1>10. TypeOK'
  BY <1>1, <1>2, <1>8 DEF IInv, TypeOK
<1>11. CacheCoherent'
  <2>1. \A j \in 1 .. Len(pool) : written[j].time = next_activation_time'[written[j].who]
    <3> TAKE j \in 1 .. Len(pool)
    <3>1. CASE j = 1
      BY <3>1, <1>1, <1>2, <1>4
    <3>2. CASE j # 1
      <4>1. pool[j].who # stepping /\ pool[j].who \in Schedulable
        BY <3>2, <1>2, <1>3 DEF IInv, NoDuplicates, Entry
      <4>2. pool[j].time = next_activation_time[pool[j].who]
        BY <1>2 DEF IInv, CacheCoherent
      <4> QED
        BY <4>1, <4>2, <3>2, <1>1, <1>2, <1>4
    <3> QED
      BY <3>1, <3>2
  <2> QED
    BY <2>1, <1>4, <1>8 DEF CacheCoherent
<1>12. FrontPinned'
  BY <1>1 DEF FrontPinned
<1>13. NothingOverdue'
  <2> SUFFICES ASSUME NEW d \in Registered
               PROVE  next_activation_time'[d] >= executed_time
    BY <1>1, <1>9 DEF NothingOverdue
  <2>1. d \in Schedulable
    BY RegisteredAreDevices DEF IInv, TypeOK
  <2>2. next_activation_time[d] >= executed_time
    BY DEF IInv, NothingOverdue
  <2> QED
    BY <2>1, <2>2, <1>1, <1>2
<1>14. RegistrationFirst'
  BY <1>1, <1>9 DEF IInv, RegistrationFirst
<1>15. PeriodicScheduled'
  <2> SUFFICES ASSUME NEW s \in Periodic PROVE next_activation_time'[s] # Unscheduled
    BY DEF PeriodicScheduled
  <2>1. s \in Schedulable /\ next_activation_time[s] # Unscheduled
    BY DEF IInv, PeriodicScheduled, SchedulerAssumption
  <2> QED
    BY <2>1, <1>1, <1>2 DEF Time, SchedulerAssumption
<1> QED
  BY <1>8, <1>9, <1>10, <1>11, <1>12, <1>13, <1>14, <1>15 DEF IInv

(* The dates a device asks for are dates. *)
LEMMA DatesAreTimes == Dates \subseteq Time
BY DEF Dates

(* Every step of the scheduler keeps the invariant and is a step of the     *)
(* event loop.                                                              *)
LEMMA NextIInv ==
  ASSUME SchedulerAssumption, Periodic # {}, IInv, [Next]_vars
  PROVE  IInv' /\ [EL!Next]_EL!vars
<1> DEFINE due == [s \in Schedulable |->
                     IF s \in Registered THEN next_activation_time[s] ELSE Unscheduled]
           dueNext == [s \in Schedulable |->
                     IF s \in Registered' THEN next_activation_time'[s] ELSE Unscheduled]
<1>1. next_activation_time \in [Schedulable -> Time] /\ executed_time \in Time
  BY DEF IInv, TypeOK
<1>2. Registered \subseteq Schedulable
  BY RegisteredAreDevices DEF IInv, TypeOK
<1>3. ASSUME NEW s \in Schedulable, Add(s)
      PROVE  IInv' /\ [EL!Next]_EL!vars
  <2>1. IInv' /\ Registered' = Registered \cup {s}
    BY <1>3, AddIInv
  <2>2. s \notin Registered /\ stepping = None
        /\ UNCHANGED <<next_activation_time, executed_time, stepping>>
    BY <1>3 DEF Add
  <2>3. executed_time = 0
    BY <2>2 DEF IInv, RegistrationFirst
  <2>4. PICK t \in Time : t = next_activation_time[s]
    BY <1>1
  <2>5. dueNext = [due EXCEPT ![s] = t]
    BY <2>1, <2>2, <2>4
  <2>7. t >= executed_time
    BY <2>3 DEF Time
  <2>6. EL!Arm(s, t)
    BY <2>2, <2>5, <2>7 DEF EL!Arm, SchedulerAssumption
  <2> QED
    BY <2>1, <2>6 DEF EL!Next, Time
<1>4. ASSUME BeginStep
      PROVE  IInv' /\ [EL!Next]_EL!vars
  <2>1. /\ IInv'
        /\ Registered' = Registered
        /\ stepping' \in Schedulable
        /\ executed_time' = next_activation_time[stepping']
        /\ executed_time' # Unscheduled
        /\ \A s \in Schedulable : executed_time' <= next_activation_time[s]
    BY <1>4, BeginStepIInv
  <2>2. stepping = None /\ Registered = Schedulable
        /\ next_activation_time' = next_activation_time
    BY <1>4 DEF BeginStep
  <2>3. dueNext = due
    BY <2>1, <2>2
  <2>4. \A s \in Schedulable : due[s] = next_activation_time[s]
    BY <2>2
  <2>5. EL!Dispatch(stepping')
    BY <2>1, <2>2, <2>3, <2>4 DEF EL!Dispatch
  <2> QED
    BY <2>1, <2>5 DEF EL!Next
<1>5. ASSUME NEW s \in Schedulable, NEW t \in Time, s # stepping, SetDate(s, t)
      PROVE  IInv' /\ [EL!Next]_EL!vars
  <2>1. IInv' /\ Registered' = Registered
    BY <1>5, SetDateIInv
  <2>2. /\ s \in Registered /\ t >= executed_time
        /\ next_activation_time' = [next_activation_time EXCEPT ![s] = t]
        /\ executed_time' = executed_time /\ stepping' = stepping
    BY <1>5 DEF SetDate
  <2>3. dueNext = [due EXCEPT ![s] = t]
    BY <2>1, <2>2, <1>1, <1>2
  <2>4. EL!Arm(s, t)
    BY <1>5, <2>2, <2>3 DEF EL!Arm
  <2> QED
    BY <2>1, <2>4 DEF EL!Next, Time
<1>6. ASSUME NEW s \in Schedulable, NEW t \in Dates, Launch(s, t)
      PROVE  IInv' /\ [EL!Next]_EL!vars
  <2>1. s \in OneShot /\ next_activation_time[s] = Unscheduled /\ SetDate(s, t) /\ stepping # None
    BY <1>6 DEF Launch
  <2>2. t \in Time /\ executed_time <= t /\ t < Unscheduled
    BY <2>1, <1>1, DatesAreTimes DEF SetDate, Time, SchedulerAssumption
  <2>3. s # stepping
    <3>1. stepping \in Schedulable /\ pool # <<>> /\ pool[1].who = stepping
          /\ pool[1].time = executed_time /\ pool \in Seq(Entry)
      BY <2>1 DEF IInv, TypeOK, FrontPinned
    <3>2. 1 \in DOMAIN pool
      BY <3>1
    <3>3. next_activation_time[stepping] = executed_time
      BY <3>1, <3>2 DEF IInv, CacheCoherent
    <3> QED
      BY <3>3, <2>1, <2>2, <1>1 DEF Time, SchedulerAssumption
  <2> QED
    BY <2>1, <2>2, <2>3, <1>5
<1>7. ASSUME NEW s \in Schedulable, NEW t \in Dates, Retime(s, t)
      PROVE  IInv' /\ [EL!Next]_EL!vars
  <2>1. SetDate(s, t) /\ s # stepping /\ t \in Time
    BY <1>7, DatesAreTimes DEF Retime
  <2> QED
    BY <2>1, <1>5
<1>8. ASSUME NEW t \in Dates \cup {Unscheduled}, EndStep(t)
      PROVE  IInv' /\ [EL!Next]_EL!vars
  <2>1. t \in Time
    BY DatesAreTimes DEF Time, SchedulerAssumption
  <2>2. IInv' /\ Registered' = Registered
    BY <1>8, <2>1, EndStepIInv
  <2>3. /\ stepping # None /\ t >= executed_time
        /\ next_activation_time' = [next_activation_time EXCEPT ![stepping] = t]
        /\ stepping' = None /\ executed_time' = executed_time
    BY <1>8 DEF EndStep
  <2>4. stepping \in Registered
    <3>1. pool # <<>> /\ pool[1].who = stepping /\ pool \in Seq(Entry)
      BY <2>3 DEF IInv, TypeOK, FrontPinned
    <3>2. 1 \in DOMAIN pool
      BY <3>1
    <3> QED
      BY <3>1, <3>2 DEF Registered
  <2>5. dueNext = [due EXCEPT ![stepping] = t]
    BY <2>2, <2>3, <2>4, <1>1, <1>2
  <2>6. EL!Finish(t)
    BY <2>3, <2>5 DEF EL!Finish
  <2> QED
    BY <2>1, <2>2, <2>6 DEF EL!Next, Time
<1>9. ASSUME UNCHANGED vars
      PROVE  IInv' /\ [EL!Next]_EL!vars
  <2>1. Registered' = Registered
    BY <1>9 DEF vars, Registered
  <2>2. IInv'
    BY <1>9, <2>1 DEF vars, IInv, TypeOK, NoDuplicates, PrefixIsScheduled, CacheCoherent,
                      FrontPinned, NothingOverdue, RegistrationFirst, PeriodicScheduled
  <2>3. UNCHANGED EL!vars
    BY <1>9, <2>1 DEF vars, EL!vars
  <2> QED
    BY <2>2, <2>3
<1> QED
  BY <1>3, <1>4, <1>6, <1>7, <1>8, <1>9 DEF Next

(* With a clock among the devices, the pool, the prefix, the cached dates   *)
(* and the front of Scheduler.cpp stay in order at every moment.            *)
THEOREM SchedulerInvariant ==
  ASSUME Periodic # {}
  PROVE  Spec => []IInv
<1>1. Init => IInv
  BY InitIInv, SchedulerAssumption
<1>2. IInv /\ [Next]_vars => IInv'
  BY NextIInv, SchedulerAssumption
<1> QED
  BY <1>1, <1>2, PTL DEF Spec

(* The type invariant, for every set of devices. *)
THEOREM SchedulerTypeOK ==
  ASSUME Periodic # {}
  PROVE  Spec => []TypeOK
<1>1. IInv => TypeOK
  BY DEF IInv
<1> QED
  BY <1>1, SchedulerInvariant, PTL

(* No scheduled device is ever outside the prefix that is sorted, and the   *)
(* prefix never overruns the pool.                                          *)
THEOREM SchedulerPrefix ==
  ASSUME Periodic # {}
  PROVE  Spec => []PrefixIsScheduled
<1>1. IInv => PrefixIsScheduled
  BY DEF IInv
<1> QED
  BY <1>1, SchedulerInvariant, PTL

(* The pool holds each registered device once, with the device's own date,  *)
(* in the middle of a step too. *)
THEOREM SchedulerMirror ==
  ASSUME Periodic # {}
  PROVE  Spec => []PoolMirrorsDevices
<1>1. IInv => PoolMirrorsDevices
  BY DEF IInv, PoolMirrorsDevices
<1> QED
  BY <1>1, SchedulerInvariant, PTL

(* The reference step() holds to the front of the pool stays on the device  *)
(* being stepped. *)
THEOREM SchedulerFront ==
  ASSUME Periodic # {}
  PROVE  Spec => []FrontPinned
<1>1. IInv => FrontPinned
  BY DEF IInv
<1> QED
  BY <1>1, SchedulerInvariant, PTL

(* No date of a device is ever left in the past. *)
THEOREM SchedulerInTime ==
  ASSUME Periodic # {}
  PROVE  Spec => []NothingOverdue
<1>1. IInv => NothingOverdue
  BY DEF IInv
<1> QED
  BY <1>1, SchedulerInvariant, PTL

(* The scheduler with its partial sort implements the event loop that       *)
(* always runs a device whose date is the earliest.                         *)
THEOREM SchedulerRefinement ==
  ASSUME Periodic # {}
  PROVE  Spec => ImplementsEventLoop
<1>1. Init => EL!Init
  <2> SUFFICES ASSUME Init PROVE EL!Init
    OBVIOUS
  <2>1. Registered = {}
    BY DEF Init, Registered
  <2> QED
    BY <2>1 DEF Init, EL!Init
<1>2. IInv /\ [Next]_vars => [EL!Next]_EL!vars
  BY NextIInv, SchedulerAssumption
<1> QED
  BY <1>1, <1>2, SchedulerInvariant, PTL DEF Spec, ImplementsEventLoop, EL!Spec
==============================================================================
