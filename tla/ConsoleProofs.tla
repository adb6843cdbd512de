---------------------------- MODULE ConsoleProofs ----------------------------
(***************************************************************************)
(* Proofs about DataBus.tla and Console.tla, for every byte the memory,    *)
(* the inputs and the switches may hold.                                   *)
(***************************************************************************)
EXTENDS ConsoleProperties, FiniteSetTheorems, TLAPS

(* What the first edge of phase 1 decides, until the T-state is entered. *)
Decided ==
  phase \in {"sync_rises", "state"} =>
    /\ state = "T2" => next_state \in {"T3", "WAIT"}
    /\ state = "WAIT" => next_state \in {"T3", "none"}
    /\ state = "T3" => next_state # "none"
    /\ next_state = "WAIT" => state = "T2"

-----------------------------------------------------------------------------
(* The bus. *)

BusTyped ==
  /\ md_owner \in Cards \cup {Console, Nobody}
  /\ latched_data \in [Cards -> Opcode \cup {NoData}]
  /\ {sub, substitution, release_data_bus, console_placing} \subseteq BOOLEAN
  /\ ready_owner \in owns_bus \cup {Nobody}
  /\ owns_bus \subseteq Cards
  /\ placing \subseteq owns_bus

(* When the scheduled actions may still have to run, and when a card has   *)
(* something to send.                                                      *)
Moments ==
  /\ phase \notin {"phase_21", "phase_22"} => Settled
  /\ phase # "phase_22" => ~console_placing
  /\ Sending # {} => state \in {"WAIT", "T3"}

(* One card sends at a time; it believes it owns the bus exactly when it   *)
(* does, and leaves it to the console while SUB is HIGH.                   *)
OneCardSends == \A card, other \in Sending : card = other
OwnersKnow == \A card \in Cards : card \in owns_bus <=> md_owner = card
CardsOwn == owns_bus = IF sub THEN {} ELSE Sending
ConsoleOwns ==
  /\ release_data_bus = (sub /\ ~substitution)
  /\ sub => md_owner = IF console_placing THEN Nobody ELSE Console
  /\ ~sub => md_owner # Console /\ ~console_placing

(* What is on the bus. *)
CardsPlace == \A card \in owns_bus \ placing : md_bus = latched_data[card]
CardsAnswer ==
  /\ Sending = {} => answer = Empty
  /\ \A card \in Sending : answer = latched_data[card]
ConsoleShows ==
  /\ md_owner = Nobody => md_bus = Empty
  /\ sub /\ ~console_placing => md_bus = shown

Ownership == OneCardSends /\ OwnersKnow /\ CardsOwn /\ ConsoleOwns
Values == CardsPlace /\ CardsAnswer /\ ConsoleShows

BusInv == clash = FALSE /\ BusTyped /\ Moments /\ Ownership /\ Values

-----------------------------------------------------------------------------
(* The steps of the console. *)

(* Where a T2 is held: from the fall of phase 2 that decides it. *)
MayBeHeld == \/ state = "T2" /\ phase \in {"phase_11", "sync_rises", "state"}
             \/ state = "WAIT"
Held == ~ready /\ (phase \in {"sync_rises", "state"} => next_state # "T3")

Stops == step_mode = "Cycle" \/ cycle_control = "PCI"

StepTyped ==
  /\ ready \in BOOLEAN
  /\ stepping \in BOOLEAN
  /\ trapped \in BOOLEAN
  /\ passed \in {0, 1}

StartTyped == start_mode \in {"Automatic", "Manual"}

(* What has been let through is followed by what is held. *)
OnePasses ==
  /\ ~stepping => passed = 0
  /\ stepping /\ passed = 1 /\ Stops /\ MayBeHeld => Held

TrapKeeps == trapped => stepping /\ MayBeHeld /\ Held

StepInv == StepTyped /\ OnePasses /\ TrapKeeps /\ AutomaticRuns

(* The inductive invariant. *)
IInv == Decided /\ StartTyped /\ BusInv /\ StepInv

-----------------------------------------------------------------------------
(* The first state of the invariant. *)
LEMMA InitIInv == ConsoleInit => IInv
<1> SUFFICES ASSUME ConsoleInit PROVE IInv
  OBVIOUS
<1>1. Decided
  BY DEF ConsoleInit, Init, Decided
<1>2. /\ owns_bus = {} /\ placing = {} /\ ready_owner = Nobody
      /\ md_owner = Nobody /\ md_bus = Empty /\ answer = Empty /\ clash = FALSE
      /\ sub = FALSE /\ substitution = FALSE /\ release_data_bus = FALSE
      /\ console_placing = FALSE
      /\ latched_data = [card \in Cards |-> NoData]
  BY DEF ConsoleInit, BusInit
<1>3. Sending = {}
  BY <1>2 DEF Sending
<1>4. BusTyped
  BY <1>2 DEF BusTyped
<1>5. Moments
  BY <1>2, <1>3 DEF Moments, Settled
<1>6. Ownership
  BY <1>2, <1>3, DataBusAssumption
  DEF Ownership, OneCardSends, OwnersKnow, CardsOwn, ConsoleOwns
<1>7. Values
  BY <1>2, <1>3 DEF Values, CardsPlace, CardsAnswer, ConsoleShows
<1>8. StepInv
  <2>1. /\ trapped = FALSE /\ passed = 0
        /\ start_mode \in {"Automatic", "Manual"}
        /\ ready = (start_mode = "Automatic")
        /\ stepping = (start_mode = "Manual")
    BY DEF ConsoleInit
  <2>2. StepTyped
    BY <2>1 DEF StepTyped
  <2>3. OnePasses /\ TrapKeeps
    BY <2>1 DEF OnePasses, TrapKeeps
  <2>4. AutomaticRuns
    BY <2>1 DEF AutomaticRuns
  <2> QED
    BY <2>2, <2>3, <2>4 DEF StepInv
<1> QED
  BY <1>1, <1>2, <1>4, <1>5, <1>6, <1>7, <1>8 DEF IInv, BusInv, StartTyped, ConsoleInit

-----------------------------------------------------------------------------
(* What the clock does to the T-state, whatever else happens on its edges. *)

(* Outside the first edge of phase 1 and the change of state, the sequence *)
(* of the CPU does not move.                                               *)
SameState == UNCHANGED <<state, next_state, cycle_control>>

LEMMA Phase11Decides ==
  ASSUME Phase11
  PROVE  Decided' /\ state' = state /\ phase = "phase_11" /\ phase' = "sync_rises"
<1>1. state' = state /\ phase = "phase_11" /\ phase' = "sync_rises"
  BY DEF Phase11
<1>2. state = "T2" => next_state' \in {"T3", "WAIT"}
  BY DEF Phase11, GoTo, LeaveStopped, EndCycle, EndInstruction, Halt
<1>3. state = "WAIT" => next_state' \in {"T3", "none"}
  BY DEF Phase11, GoTo, LeaveStopped, EndCycle, EndInstruction, Halt
<1>4. state = "T3" => next_state' # "none"
  BY DEF Phase11, GoTo, LeaveStopped, EndCycle, EndInstruction, Halt, NextCycle
<1>5. next_state' = "WAIT" => state = "T2"
  BY DEF Phase11, GoTo, LeaveStopped, EndCycle, EndInstruction, Halt, NextCycle
<1> QED
  BY <1>1, <1>2, <1>3, <1>4, <1>5 DEF Decided

LEMMA DecidedNext ==
  ASSUME Decided, [ConsoleNext]_vars
  PROVE  Decided'
<1>1. CASE Phase11
  BY <1>1, Phase11Decides
<1>2. CASE phase' \notin {"sync_rises", "state"}
  BY <1>2 DEF Decided
<1>3. CASE SameState /\ (phase' = phase \/ phase = "sync_rises")
  BY <1>3 DEF Decided, SameState
<1>4. CASE Undisturbed
  BY <1>1, <1>2, <1>3, <1>4 DEF Undisturbed, SyncRises, Phase21, sequencing, SameState
<1>5. CASE ConsoleEnterState \/ BusDataIn \/ BusSyncFalls \/ ConsolePhase22
  BY <1>2, <1>5 DEF ConsoleEnterState, BusEnterState, EnterState, BusDataIn, DataIn,
     BusSyncFalls, SyncFalls, ConsolePhase22, EndPhase22
<1>6. CASE (\E card \in Cards : PlaceData(card)) \/ ConsolePlaces
  BY <1>3, <1>6 DEF PlaceData, ConsolePlaces, control, sequencing, SameState
<1>7. CASE SubstitutionKeys
  BY <1>3, <1>7 DEF SubstitutionKeys, PressSubstitution, SetSwitchData, control, sequencing,
     SameState
<1>8. CASE ModeKeys
  BY <1>3, <1>8 DEF ModeKeys, PressAutomatic, PressStepping, PressAv, PressStepMode, PressTrap,
     SetStartMode, InitRises, SetReady, control, sequencing, SameState
<1>9. CASE Interrupted
  BY <1>3, <1>9 DEF Interrupted, Interrupt, sequencing, SameState
<1>10. CASE UNCHANGED vars
  BY <1>3, <1>10 DEF vars, control, sequencing, SameState
<1> QED
  BY <1>4, <1>5, <1>6, <1>7, <1>8, <1>9, <1>10 DEF ConsoleNext, ConsoleClock, Keys

-----------------------------------------------------------------------------
(* The bus: one lemma per step that moves it. *)

USE DEF BusInv, Ownership, Values

LEMMA BusFrame ==
  ASSUME BusInv, UNCHANGED <<bus, console_sub, answer, shown>>, state' = state,
         Settled \/ phase' = phase
  PROVE  BusInv'
<1> USE DEF bus, holders, console_sub
<1>1. BusTyped' /\ clash' = FALSE
  BY DEF BusTyped
<1>2. Moments'
  BY DEF Moments, Settled, Sending
<1>3. Ownership'
  BY DEF OneCardSends, OwnersKnow, CardsOwn, ConsoleOwns, Sending
<1>4. Values'
  BY DEF CardsPlace, CardsAnswer, ConsoleShows, Sending
<1> QED
  BY <1>1, <1>2, <1>3, <1>4

(* place_data: the card owns the bus, for nothing has taken it since T2. *)
LEMMA PlaceDataBus ==
  ASSUME BusInv, NEW card \in Cards, PlaceData(card)
  PROVE  BusInv'
<1>1. /\ card \in placing /\ placing' = placing \ {card}
      /\ UNCHANGED <<control, md_owner, latched_data, owns_bus, sub, substitution,
                     release_data_bus, switch_data, console_placing, answer, shown>>
  BY DEF PlaceData, console_sub
<1>2. card \in owns_bus /\ md_owner = card
  BY <1>1 DEF BusTyped, OwnersKnow
<1>3. /\ md_bus' = latched_data[card]
      /\ ready_owner' = card
      /\ clash' = (clash \/ md_owner # card \/ ready_owner \notin {Nobody, card})
  BY <1>2 DEF PlaceData
<1>4. \A other \in owns_bus : other = card
  BY <1>2 DEF OwnersKnow, BusTyped
<1>5. clash' = FALSE
  BY <1>2, <1>3, <1>4 DEF BusTyped
<1>6. BusTyped'
  BY <1>1, <1>2, <1>3 DEF BusTyped
<1>7. Moments'
  BY <1>1 DEF Moments, Settled, Sending, control, sequencing
<1>8. Ownership'
  BY <1>1 DEF OneCardSends, OwnersKnow, CardsOwn, ConsoleOwns, Sending
<1>9. Values'
  <2>1. CardsPlace'
    BY <1>1, <1>3, <1>4 DEF CardsPlace
  <2>2. CardsAnswer'
    BY <1>1 DEF CardsAnswer, Sending
  <2>3. ~sub /\ ~console_placing /\ md_owner # Nobody
    BY <1>2, DataBusAssumption DEF CardsOwn, ConsoleOwns
  <2>4. ConsoleShows'
    BY <1>1, <2>3 DEF ConsoleShows
  <2> QED
    BY <2>1, <2>2, <2>4
<1> QED
  BY <1>5, <1>6, <1>7, <1>8, <1>9

(* The console's action: the holders have left the bus. *)
LEMMA ConsolePlacesBus ==
  ASSUME BusInv, ConsolePlaces
  PROVE  BusInv'
<1>1. /\ console_placing /\ console_placing' = FALSE
      /\ md_owner' = Console /\ md_bus' = switch_data
      /\ clash' = (clash \/ md_owner \notin {Nobody, Console})
      /\ shown' = switch_data
      /\ UNCHANGED <<control, holders, sub, substitution, release_data_bus, switch_data,
                     answer>>
  BY DEF ConsolePlaces
<1>2. sub /\ md_owner = Nobody /\ owns_bus = {} /\ placing = {}
  BY <1>1 DEF ConsoleOwns, CardsOwn, BusTyped
<1>3. BusTyped' /\ clash' = FALSE
  BY <1>1, <1>2 DEF BusTyped, holders
<1>4. Moments'
  BY <1>1 DEF Moments, Settled, Sending, control, sequencing, holders
<1>5. OwnersKnow'
  BY <1>1, <1>2, DataBusAssumption DEF OwnersKnow, holders
<1>6. OneCardSends' /\ CardsOwn' /\ ConsoleOwns'
  BY <1>1, <1>2 DEF OneCardSends, CardsOwn, ConsoleOwns, Sending, holders
<1>7. Values'
  <2>1. Console # Nobody
    BY DataBusAssumption
  <2>2. CardsPlace' /\ CardsAnswer'
    BY <1>1, <1>2 DEF CardsPlace, CardsAnswer, Sending, holders
  <2> QED
    BY <1>1, <1>2, <2>1, <2>2 DEF ConsoleShows
<1> QED
  BY <1>3, <1>4, <1>5, <1>6, <1>7

(* The card addressed in T2 takes a bus that nobody else has, or keeps its *)
(* byte for when the console gives the bus back.                           *)
LEMMA T2FallsBus ==
  ASSUME BusInv, Decided, BusEnterState, T2Falls
  PROVE  BusInv'
<1>1. /\ phase = "state" /\ phase' = "phase_21"
      /\ state = "T2" /\ state' \in {"WAIT", "T3"}
      /\ UNCHANGED <<sub, substitution, release_data_bus, switch_data, console_placing, shown>>
  BY DEF BusEnterState, EnterState, T2Falls, StateAfter, Decided, console_sub
<1>2. Sending = {} /\ owns_bus = {} /\ placing = {} /\ ready_owner = Nobody
      /\ answer = Empty /\ ~console_placing
  BY <1>1 DEF Moments, CardsOwn, BusTyped, CardsAnswer
<1>3. CASE NobodyAnswers
  BY <1>1, <1>2, <1>3
  DEF NobodyAnswers, bus, holders, BusTyped, Moments, Settled, OneCardSends, OwnersKnow,
      CardsOwn, ConsoleOwns, CardsPlace, CardsAnswer, ConsoleShows, Sending
<1>4. ASSUME NEW card \in Answering, NEW byte \in AnswersOf(card), Place(card, byte)
      PROVE  BusInv'
  <2>1. card \in Cards /\ byte \in Opcode /\ byte # NoData
    BY <1>4, DataBusAssumption DEF Answering, AnswersOf
  <2>2. /\ answer' = byte
        /\ latched_data' = [latched_data EXCEPT ![card] = byte]
        /\ UNCHANGED <<md_bus, ready_owner>>
    BY <1>4 DEF Place
  <2>3. \A other \in Cards : latched_data[other] = NoData
    BY <1>2 DEF Sending
  <2>4. /\ latched_data' \in [Cards -> Opcode \cup {NoData}]
        /\ latched_data'[card] = byte
        /\ \A other \in Cards \ {card} : latched_data'[other] = NoData
    BY <2>1, <2>2, <2>3 DEF BusTyped
  <2>5. Sending' = {card}
    BY <2>1, <2>4 DEF Sending
  <2>6. OneCardSends' /\ CardsAnswer'
    BY <2>2, <2>4, <2>5 DEF OneCardSends, CardsAnswer
  <2>7. CASE sub
    <3>1. UNCHANGED <<md_owner, owns_bus, placing, clash>>
      BY <1>4, <2>7 DEF Place
    <3>2. BusTyped' /\ Moments'
      BY <1>1, <1>2, <2>2, <2>4, <3>1 DEF BusTyped, Moments, Settled
    <3>3. OwnersKnow' /\ CardsOwn' /\ ConsoleOwns'
      BY <1>1, <1>2, <2>7, <3>1 DEF OwnersKnow, CardsOwn, ConsoleOwns
    <3>4. CardsPlace' /\ ConsoleShows'
      BY <1>1, <1>2, <2>2, <3>1 DEF CardsPlace, ConsoleShows
    <3> QED
      BY <2>6, <3>1, <3>2, <3>3, <3>4
  <2>8. CASE ~sub
    <3>1. md_owner = Nobody /\ card # Nobody /\ card # Console
      BY <1>2, <2>1, <2>8, DataBusAssumption DEF OwnersKnow, ConsoleOwns, BusTyped
    <3>2. /\ md_owner' = card /\ owns_bus' = {card} /\ placing' = {card}
          /\ clash' = FALSE
      BY <1>2, <1>4, <2>8, <3>1 DEF Place
    <3>3. BusTyped' /\ Moments'
      BY <1>1, <1>2, <2>1, <2>2, <2>4, <3>2 DEF BusTyped, Moments, Settled
    <3>4. OwnersKnow' /\ CardsOwn' /\ ConsoleOwns'
      BY <1>1, <2>5, <2>8, <3>1, <3>2 DEF OwnersKnow, CardsOwn, ConsoleOwns
    <3>5. CardsPlace' /\ ConsoleShows'
      BY <1>1, <1>2, <2>8, <3>1, <3>2 DEF CardsPlace, ConsoleShows
    <3> QED
      BY <2>6, <3>2, <3>3, <3>4, <3>5
  <2> QED
    BY <2>7, <2>8 DEF BusTyped
<1> QED
  BY <1>3, <1>4 DEF T2Falls

(* T3 empties every holder, and its owner leaves the bus. *)
LEMMA T3FallsBus ==
  ASSUME BusInv, BusEnterState, T3Falls
  PROVE  BusInv'
<1>1. /\ phase = "state" /\ phase' = "phase_21"
      /\ latched_data' = [card \in Cards |-> NoData]
      /\ answer' = Empty
      /\ UNCHANGED <<placing, sub, substitution, release_data_bus, switch_data,
                     console_placing, shown>>
      /\ ReleaseBus(Sending \cap owns_bus)
  BY DEF BusEnterState, EnterState, T3Falls, console_sub
<1>2. placing = {} /\ ~console_placing /\ Sending \cap owns_bus = owns_bus
  BY <1>1 DEF Moments, Settled, CardsOwn
<1>3. \A card \in owns_bus : md_owner = card /\ ready_owner \in {Nobody, card}
  BY DEF OwnersKnow, BusTyped
<1>4. owns_bus' = {} /\ clash' = FALSE /\ ready_owner' = Nobody
  BY <1>1, <1>2, <1>3 DEF ReleaseBus, BusTyped
<1>5. owns_bus # {} => ~sub /\ md_owner' = Nobody /\ md_bus' = Empty
  BY <1>1, <1>2 DEF ReleaseBus, CardsOwn
<1>6. owns_bus = {} => UNCHANGED <<md_owner, md_bus>>
  BY <1>1, <1>2 DEF ReleaseBus
<1>7. Sending' = {}
  BY <1>1 DEF Sending
<1>8. BusTyped' /\ Moments'
  BY <1>1, <1>2, <1>4, <1>5, <1>6, <1>7 DEF BusTyped, Moments, Settled
<1>9. OneCardSends' /\ CardsOwn' /\ CardsPlace' /\ CardsAnswer'
  BY <1>1, <1>4, <1>7 DEF OneCardSends, CardsOwn, CardsPlace, CardsAnswer
<1>10. OwnersKnow' /\ ConsoleOwns' /\ ConsoleShows'
  BY <1>1, <1>2, <1>4, <1>5, <1>6, DataBusAssumption DEF OwnersKnow, ConsoleOwns, ConsoleShows
<1> QED
  BY <1>4, <1>8, <1>9, <1>10

(* The other changes of state: no byte is waiting but in a T2 that waits. *)
LEMMA NoFallBus ==
  ASSUME BusInv, Decided, BusEnterState, NoFall
  PROVE  BusInv'
<1>1. /\ phase = "state" /\ phase' = "phase_21"
      /\ UNCHANGED <<bus, answer, console_sub, shown>>
      /\ state' = StateAfter
  BY DEF BusEnterState, EnterState, NoFall
<1>2. Sending # {} => state' \in {"WAIT", "T3"}
  <2>1. state = "WAIT" => state' \in {"WAIT", "T3"}
    BY <1>1 DEF Decided, StateAfter
  <2>2. state = "T3" => state' = "T3"
    BY <1>1 DEF NoFall, StateAfter
  <2> QED
    BY <2>1, <2>2 DEF Moments
<1>3. Moments'
  BY <1>1, <1>2 DEF Moments, Settled, Sending, bus, holders, console_sub
<1>4. BusTyped' /\ clash' = FALSE
  BY <1>1 DEF BusTyped, bus, holders, console_sub
<1>5. Ownership' /\ Values'
  BY <1>1 DEF OneCardSends, OwnersKnow, CardsOwn, ConsoleOwns, CardsPlace, CardsAnswer,
     ConsoleShows, Sending, bus, holders, console_sub
<1> QED
  BY <1>3, <1>4, <1>5

(* SYNC falls and SUB stays: the console shows its switches again.         *)
LEMMA SubStaysBus ==
  ASSUME BusInv, BusSyncFalls, SubStays
  PROVE  BusInv'
<1>1. /\ phase = "sync_falls" /\ phase' = "phase_22" /\ state' = state
      /\ release_data_bus' = FALSE /\ shown' = switch_data
      /\ UNCHANGED <<holders, sub, console_placing, substitution, switch_data, answer>>
      /\ sub = substitution
  BY DEF BusSyncFalls, SyncFalls, sequencing, SubStays
<1>2. /\ ~release_data_bus /\ ~console_placing /\ placing = {}
      /\ sub => md_owner = Console
  BY <1>1 DEF ConsoleOwns, Moments, Settled
<1>3. /\ md_owner' = md_owner
      /\ md_bus' = IF sub THEN switch_data ELSE md_bus
      /\ clash' = FALSE
  BY <1>1, <1>2 DEF SubStays, OwnerAfterConsole, ValueAfterConsole, ConsoleClash
<1>4. BusTyped' /\ Moments'
  BY <1>1, <1>2, <1>3 DEF BusTyped, Moments, Settled, Sending, holders
<1>5. Ownership'
  BY <1>1, <1>2, <1>3 DEF OneCardSends, OwnersKnow, CardsOwn, ConsoleOwns, Sending, holders
<1>6. CardsPlace' /\ CardsAnswer'
  BY <1>1, <1>3 DEF CardsPlace, CardsAnswer, CardsOwn, Sending, holders
<1>7. ConsoleShows'
  BY <1>1, <1>2, <1>3, DataBusAssumption DEF ConsoleShows
<1> QED
  BY <1>3, <1>4, <1>5, <1>6, <1>7

(* SUB rises: the card that owns the bus leaves it before the console's    *)
(* action takes it, and no card takes it.                                  *)
LEMMA SubRisesBus ==
  ASSUME BusInv, BusSyncFalls, SubMoves, substitution
  PROVE  BusInv'
<1>1. /\ phase = "sync_falls" /\ phase' = "phase_22" /\ state' = state
      /\ release_data_bus' = FALSE /\ shown' = switch_data
      /\ UNCHANGED <<latched_data, substitution, switch_data, answer>>
      /\ sub # substitution /\ sub' = substitution
  BY DEF BusSyncFalls, SyncFalls, sequencing, SubMoves
<1>2. ~sub /\ ~release_data_bus /\ ~console_placing /\ placing = {} /\ owns_bus = Sending
  BY <1>1 DEF BusTyped, ConsoleOwns, Moments, Settled, CardsOwn
<1>3. Taking(owns_bus) = {}
  BY <1>2 DEF Taking
<1>4. Cardinality({}) = 0
  BY FS_EmptySet
<1>5. /\ OwnerAfterConsole = md_owner /\ ValueAfterConsole = md_bus /\ ~ConsoleClash
  BY <1>2 DEF OwnerAfterConsole, ValueAfterConsole, ConsoleClash
<1>6. \A card \in owns_bus : md_owner = card /\ ready_owner \in {Nobody, card}
  BY DEF OwnersKnow, BusTyped
<1>7. owns_bus = {} => md_owner = Nobody /\ md_bus = Empty /\ ready_owner = Nobody
  BY <1>2 DEF OwnersKnow, ConsoleOwns, BusTyped, ConsoleShows
<1>8. /\ console_placing' = TRUE /\ owns_bus' = {} /\ placing' = {}
      /\ md_owner' = Nobody /\ md_bus' = Empty /\ ready_owner' = Nobody
  BY <1>2, <1>3, <1>5, <1>7 DEF SubMoves
<1>9. clash' = FALSE
  BY <1>2, <1>3, <1>4, <1>5, <1>6 DEF SubMoves
<1>10. substitution = TRUE
  BY DEF BusTyped
<1>11. BusTyped' /\ Moments'
  BY <1>1, <1>8, <1>10 DEF BusTyped, Moments, Settled, Sending
<1>12. Ownership'
  BY <1>1, <1>8, <1>10, DataBusAssumption
  DEF OneCardSends, OwnersKnow, CardsOwn, ConsoleOwns, Sending
<1>13. Values'
  BY <1>1, <1>8 DEF CardsPlace, CardsAnswer, ConsoleShows, Sending
<1> QED
  BY <1>9, <1>11, <1>12, <1>13

(* SUB falls: the console leaves the bus, and then the card whose byte has *)
(* waited takes it.                                                        *)
LEMMA SubFallsBus ==
  ASSUME BusInv, BusSyncFalls, SubMoves, ~substitution
  PROVE  BusInv'
<1>1. /\ phase = "sync_falls" /\ phase' = "phase_22" /\ state' = state
      /\ release_data_bus' = FALSE /\ shown' = switch_data
      /\ UNCHANGED <<latched_data, substitution, switch_data, answer>>
      /\ sub # substitution /\ sub' = substitution
  BY DEF BusSyncFalls, SyncFalls, sequencing, SubMoves
<1>2. /\ sub /\ release_data_bus /\ ~console_placing /\ placing = {} /\ owns_bus = {}
      /\ md_owner = Console /\ ready_owner = Nobody
  BY <1>1 DEF BusTyped, ConsoleOwns, Moments, Settled, CardsOwn
<1>3. OwnerAfterConsole = Nobody /\ ValueAfterConsole = Empty /\ ~ConsoleClash
  BY <1>2 DEF OwnerAfterConsole, ValueAfterConsole, ConsoleClash
<1>4. Taking({}) = Sending
  BY DEF Taking
<1>5. /\ console_placing' = FALSE /\ owns_bus' = Sending /\ placing' = Sending
      /\ Sending = {} => md_owner' = Nobody
      /\ Sending # {} => md_owner' \in Sending
      /\ md_bus' = Empty /\ ready_owner' = Nobody
  <2>1. /\ console_placing' = (console_placing \/ substitution)
        /\ owns_bus' = (owns_bus \ {}) \cup Taking({})
        /\ placing' = placing \cup Taking({})
        /\ md_owner' = IF Taking({}) = {} THEN OwnerAfterConsole
                       ELSE CHOOSE card \in Taking({}) : TRUE
        /\ md_bus' = ValueAfterConsole
        /\ ready_owner' = ready_owner
    BY DEF SubMoves
  <2>2. console_placing' = FALSE
    BY <1>2, <2>1
  <2>3. Sending = {} => md_owner' = Nobody
    BY <1>3, <1>4, <2>1
  <2>4. ASSUME Sending # {} PROVE md_owner' \in Sending
    BY <1>4, <2>1, <2>4
  <2> QED
    BY <1>2, <1>3, <1>4, <2>1, <2>2, <2>3, <2>4
<1>6. Cardinality(Sending) \in {0, 1}
  <2>1. CASE Sending = {}
    BY <2>1, FS_EmptySet
  <2>2. CASE Sending # {}
    <3>1. PICK card \in Sending : TRUE
      BY <2>2
    <3>2. Sending = {card}
      BY <3>1 DEF OneCardSends
    <3> QED
      BY <3>2, FS_Singleton
  <2> QED
    BY <2>1, <2>2
<1>7. clash' = FALSE
  BY <1>2, <1>3, <1>4, <1>6 DEF SubMoves
<1>8. Sending' = Sending /\ Sending \subseteq Cards
  BY <1>1 DEF Sending
<1>9. /\ md_owner' \in Sending \cup {Nobody}
      /\ \A card \in Sending : md_owner' = card
  BY <1>5 DEF OneCardSends
<1>10. sub' = FALSE
  BY <1>1 DEF BusTyped
<1>11. BusTyped' /\ Moments'
  BY <1>1, <1>5, <1>8, <1>9, <1>10 DEF BusTyped, Moments, Settled
<1>12. OwnersKnow'
  BY <1>5, <1>8, <1>9, DataBusAssumption DEF OwnersKnow
<1>13. OneCardSends' /\ CardsOwn' /\ ConsoleOwns'
  BY <1>1, <1>5, <1>8, <1>9, <1>10, DataBusAssumption DEF OneCardSends, CardsOwn, ConsoleOwns
<1>14. Values'
  BY <1>1, <1>5, <1>8, <1>10 DEF CardsPlace, CardsAnswer, ConsoleShows
<1> QED
  BY <1>7, <1>11, <1>12, <1>13, <1>14

(* SUBSTITUTION acts when SYNC falls, and the switches until the console   *)
(* has placed them: neither moves the bus by itself.                       *)
LEMMA SubstitutionKeysBus ==
  ASSUME BusInv, SubstitutionKeys
  PROVE  BusInv'
<1>1. UNCHANGED <<bus, control, sub, console_placing, answer, shown>>
  BY DEF SubstitutionKeys, PressSubstitution, SetSwitchData
<1>2. /\ substitution' \in BOOLEAN /\ release_data_bus' \in BOOLEAN
      /\ release_data_bus' = (sub /\ ~substitution')
  <2>1. CASE PressSubstitution
    BY <2>1 DEF PressSubstitution, BusTyped, ConsoleOwns
  <2>2. CASE \E byte \in SwitchBytes : SetSwitchData(byte)
    BY <2>2 DEF SetSwitchData, BusTyped, ConsoleOwns
  <2> QED
    BY <2>1, <2>2 DEF SubstitutionKeys
<1>3. BusTyped' /\ Moments' /\ clash' = FALSE
  BY <1>1, <1>2 DEF BusTyped, Moments, Settled, Sending, bus, holders, control, sequencing
<1>4. Ownership'
  BY <1>1, <1>2 DEF OneCardSends, OwnersKnow, CardsOwn, ConsoleOwns, Sending, bus, holders
<1>5. Values'
  BY <1>1 DEF CardsPlace, CardsAnswer, ConsoleShows, Sending, bus, holders
<1> QED
  BY <1>3, <1>4, <1>5

LEMMA BusNext ==
  ASSUME BusInv, Decided, [ConsoleNext]_vars
  PROVE  BusInv'
<1> USE DEF data_bus, control, sequencing
<1>1. CASE Undisturbed
  BY <1>1, BusFrame DEF Undisturbed, Phase11, SyncRises, Phase21
<1>2. CASE ConsoleEnterState
  BY <1>2, T2FallsBus, T3FallsBus, NoFallBus DEF ConsoleEnterState, BusEnterState
<1>3. CASE BusDataIn
  BY <1>3, BusFrame DEF BusDataIn, DataIn
<1>4. CASE BusSyncFalls
  BY <1>4, SubStaysBus, SubRisesBus, SubFallsBus DEF BusSyncFalls
<1>5. CASE ConsolePhase22
  BY <1>5, BusFrame DEF ConsolePhase22, EndPhase22
<1>6. CASE (\E card \in Cards : PlaceData(card)) \/ ConsolePlaces
  BY <1>6, PlaceDataBus, ConsolePlacesBus
<1>7. CASE SubstitutionKeys
  BY <1>7, SubstitutionKeysBus
<1>8. CASE ModeKeys
  BY <1>8, BusFrame DEF ModeKeys, PressAutomatic, PressStepping, PressAv, PressStepMode,
     PressTrap, SetStartMode, InitRises, SetReady
<1>9. CASE Interrupted
  BY <1>9, BusFrame DEF Interrupted, Interrupt
<1>10. CASE UNCHANGED vars
  BY <1>10, BusFrame DEF vars
<1> QED
  BY <1>1, <1>2, <1>3, <1>4, <1>5, <1>6, <1>7, <1>8, <1>9, <1>10
  DEF ConsoleNext, ConsoleClock, Keys

-----------------------------------------------------------------------------
(* The steps of the console: one lemma per edge or key that matters. *)

USE DEF StepInv

StepFrame == UNCHANGED <<ready, stepping, trapped, passed, step_mode>>

LEMMA StepUnchanged ==
  ASSUME StepInv, StepFrame, SameState,
         \/ phase' = phase
         \/ phase = "sync_rises" /\ phase' = "state"
         \/ phase = "phase_21" /\ phase' = "data_in"
         \/ phase = "data_in" /\ phase' = "sync_falls"
         \/ phase = "sync_falls" /\ phase' = "phase_22"
  PROVE  StepInv'
<1>1. StepTyped' /\ AutomaticRuns'
  BY DEF StepFrame, StepTyped, AutomaticRuns
<1>2. (MayBeHeld' => MayBeHeld) /\ (Held => Held') /\ Stops' = Stops
  BY DEF StepFrame, SameState, MayBeHeld, Held, Stops
<1>3. MayBeHeld => MayBeHeld'
  BY DEF SameState, MayBeHeld
<1>4. OnePasses'
  BY <1>2 DEF StepFrame, OnePasses
<1>5. TrapKeeps'
  BY <1>2, <1>3 DEF StepFrame, TrapKeeps
<1> QED
  BY <1>1, <1>4, <1>5

(* READY is LOW for what is held: T2 goes to WAIT, and WAIT stays.         *)
LEMMA StepPhase11 ==
  ASSUME StepInv, Phase11, StepFrame
  PROVE  StepInv'
<1>1. phase = "phase_11" /\ phase' = "sync_rises" /\ state' = state
  BY DEF Phase11
<1>2. state \in {"T2", "WAIT"} => cycle_control' = cycle_control
  BY DEF Phase11, GoTo, LeaveStopped, EndCycle, EndInstruction, Halt
<1>3. state \in {"T2", "WAIT"} /\ ~ready => next_state' # "T3"
  BY DEF Phase11, GoTo, LeaveStopped, EndCycle, EndInstruction, Halt
<1>4. MayBeHeld' => /\ state \in {"T2", "WAIT"} /\ MayBeHeld
                    /\ (Held => Held') /\ Stops' = Stops
  BY <1>1, <1>2, <1>3 DEF MayBeHeld, Held, Stops, StepFrame
<1>5. MayBeHeld => MayBeHeld'
  BY <1>1 DEF MayBeHeld
<1>6. OnePasses'
  BY <1>4 DEF OnePasses, StepFrame
<1>7. TrapKeeps'
  <2>1. trapped' = trapped /\ stepping' = stepping
    BY DEF StepFrame
  <2>2. trapped => stepping /\ MayBeHeld /\ Held
    BY DEF TrapKeeps
  <2>3. MayBeHeld /\ Held => MayBeHeld' /\ Held'
    BY <1>4, <1>5
  <2> QED
    BY <2>1, <2>2, <2>3 DEF TrapKeeps
<1> QED
  BY <1>6, <1>7 DEF StepFrame, StepTyped, AutomaticRuns

(* A T3 entered in the stepping mode was not held, so nothing had passed.  *)
LEMMA StepEnterState ==
  ASSUME StepInv, Decided, ConsoleEnterState
  PROVE  StepInv'
<1>1. /\ phase = "state" /\ phase' = "phase_21" /\ state' = StateAfter
      /\ next_state' = "none"
      /\ UNCHANGED <<cycle_control, ready, stepping, trapped, step_mode>>
  BY DEF ConsoleEnterState, BusEnterState, EnterState
<1>2. CASE /\ stepping /\ state \in {"T2", "WAIT"} /\ next_state = "T3" /\ Stops
  <2>1. passed = 0
    BY <1>1, <1>2 DEF StepTyped, OnePasses, MayBeHeld, Held
  <2>2. passed' = 1
    BY <1>2, <2>1 DEF ConsoleEnterState, Record, Stops, PassedBound
  <2>3. state' = "T3" /\ ~MayBeHeld'
    BY <1>1, <1>2 DEF StateAfter, MayBeHeld
  <2>4. ~trapped
    BY <1>1, <1>2 DEF TrapKeeps, Held
  <2>5. StepTyped'
    BY <1>1, <2>2 DEF StepTyped
  <2>6. OnePasses' /\ TrapKeeps' /\ AutomaticRuns'
    BY <1>1, <1>2, <2>3, <2>4 DEF OnePasses, TrapKeeps, AutomaticRuns
  <2> QED
    BY <2>5, <2>6
<1>3. CASE ~(stepping /\ state \in {"T2", "WAIT"} /\ next_state = "T3" /\ Stops)
  <2>1. passed' = passed
    BY <1>3 DEF ConsoleEnterState, Record, Stops
  <2>2. Stops' = Stops
    BY <1>1 DEF Stops
  <2>3. MayBeHeld' => MayBeHeld
    BY <1>1 DEF MayBeHeld, StateAfter, Decided
  <2>4. StepTyped' /\ AutomaticRuns'
    BY <1>1, <2>1 DEF StepTyped, AutomaticRuns
  <2>5. TrapKeeps'
    <3>1. MayBeHeld /\ Held => MayBeHeld' /\ Held'
      BY <1>1 DEF MayBeHeld, Held, StateAfter, Decided
    <3> QED
      BY <1>1, <3>1 DEF TrapKeeps
  <2>6. OnePasses'
    <3>1. Held => Held'
      BY <1>1 DEF Held
    <3> QED
      BY <1>1, <2>1, <2>2, <2>3, <3>1 DEF OnePasses
  <2> QED
    BY <2>4, <2>5, <2>6
<1> QED
  BY <1>2, <1>3

(* The fall of phase 2 in T2 decides: READY, and the mode of the trap.     *)
LEMMA StepPhase22 ==
  ASSUME StepInv, ConsolePhase22
  PROVE  StepInv'
<1>1. /\ phase = "phase_22" /\ phase' = "phase_11"
      /\ UNCHANGED <<state, next_state, cycle_control, step_mode, passed>>
  BY DEF ConsolePhase22, EndPhase22, sequencing
<1>2. ~trapped \/ state = "WAIT"
  BY <1>1 DEF TrapKeeps, MayBeHeld
<1>3. Stops' = Stops
  BY <1>1 DEF Stops
<1>4. CASE state = "T2" /\ stepping
  <2>1. ready' = ~StepHolds /\ stepping' = TRUE /\ trapped' = trapped
    BY <1>4 DEF ConsolePhase22, TrapHolds, StepTyped
  <2>2. ready' = ~Stops
    BY <1>4, <2>1 DEF StepHolds, Stops
  <2>3. Stops' => Held'
    BY <1>1, <1>3, <2>2 DEF Held
  <2>4. ~trapped'
    BY <1>2, <1>4, <2>1
  <2>5. StepTyped'
    BY <1>1, <2>1, <2>2 DEF StepTyped
  <2> QED
    BY <2>1, <2>3, <2>4, <2>5 DEF OnePasses, TrapKeeps, AutomaticRuns
<1>5. CASE state = "T2" /\ ~stepping
  <2>1. PICK matches \in BOOLEAN :
          /\ ready' = (ready /\ ~TrapHolds(matches))
          /\ stepping' = (stepping \/ TrapHolds(matches))
          /\ trapped' = (trapped \/ TrapHolds(matches))
    BY <1>5 DEF ConsolePhase22
  <2>2. ready = TRUE /\ passed = 0 /\ ~trapped
    BY <1>2, <1>5 DEF AutomaticRuns, OnePasses, StepTyped
  <2>3. CASE TrapHolds(matches)
    <3>1. ready' = FALSE /\ stepping' = TRUE /\ trapped' = TRUE
      BY <2>1, <2>3
    <3>2. MayBeHeld' /\ Held'
      BY <1>1, <1>5, <3>1 DEF MayBeHeld, Held
    <3> QED
      BY <1>1, <2>2, <3>1, <3>2 DEF StepTyped, OnePasses, TrapKeeps, AutomaticRuns
  <2>4. CASE ~TrapHolds(matches)
    <3>1. ready' = TRUE /\ stepping' = FALSE /\ trapped' = FALSE
      BY <1>5, <2>1, <2>2, <2>4 DEF StepTyped
    <3> QED
      BY <1>1, <2>2, <3>1 DEF StepTyped, OnePasses, TrapKeeps, AutomaticRuns
  <2> QED
    BY <2>3, <2>4
<1>6. CASE state # "T2"
  <2>1. UNCHANGED <<ready, stepping, trapped>>
    BY <1>6 DEF ConsolePhase22
  <2>2. MayBeHeld' <=> MayBeHeld
    BY <1>1, <1>6 DEF MayBeHeld
  <2>3. Held => Held'
    BY <1>1, <2>1 DEF Held
  <2>4. StepTyped' /\ AutomaticRuns'
    BY <1>1, <2>1 DEF StepTyped, AutomaticRuns
  <2>5. OnePasses'
    BY <1>1, <1>3, <2>1, <2>2, <2>3 DEF OnePasses
  <2>6. TrapKeeps'
    BY <2>1, <2>2, <2>3 DEF TrapKeeps
  <2> QED
    BY <2>4, <2>5, <2>6
<1> QED
  BY <1>4, <1>5, <1>6

(* The keys: the one that gives READY back forgets what has passed, and    *)
(* the others leave what is held as it is.                                 *)
LEMMA StepModeKeys ==
  ASSUME StepInv, StartTyped, ModeKeys
  PROVE  StepInv'
<1>1. UNCHANGED <<phase, state, next_state, cycle_control>>
  BY DEF ModeKeys, PressAutomatic, PressStepping, PressAv, PressStepMode, PressTrap,
     SetStartMode, InitRises, SetReady, control, sequencing
<1>2. MayBeHeld' <=> MayBeHeld
  BY <1>1 DEF MayBeHeld
<1>3. ASSUME ready' = TRUE, stepping' \in BOOLEAN, LetGo
      PROVE  StepInv'
  <2>1. passed' = 0 /\ trapped' = FALSE
    BY <1>3 DEF LetGo
  <2>2. StepTyped'
    BY <1>3, <2>1 DEF StepTyped
  <2>3. OnePasses' /\ TrapKeeps'
    BY <2>1 DEF OnePasses, TrapKeeps
  <2> QED
    BY <1>3, <2>2, <2>3 DEF AutomaticRuns
<1>4. ASSUME UNCHANGED <<ready, trapped>>, stepping' = TRUE,
             passed' = IF stepping THEN passed ELSE 0, step_mode' = step_mode
      PROVE  StepInv'
  <2>1. (Held => Held') /\ (Stops' => Stops)
    BY <1>1, <1>4 DEF Held, Stops
  <2>2. StepTyped' /\ AutomaticRuns'
    BY <1>4 DEF StepTyped, AutomaticRuns
  <2>3. OnePasses'
    BY <1>2, <1>4, <2>1 DEF OnePasses
  <2>4. TrapKeeps'
    BY <1>2, <1>4, <2>1 DEF TrapKeeps
  <2> QED
    BY <2>2, <2>3, <2>4
<1>5. ASSUME UNCHANGED <<ready, trapped, stepping>>, passed' = 0
      PROVE  StepInv'
  <2>1. Held => Held'
    BY <1>1, <1>5 DEF Held
  <2>2. StepTyped' /\ AutomaticRuns' /\ OnePasses'
    BY <1>5 DEF StepTyped, AutomaticRuns, OnePasses
  <2>3. TrapKeeps'
    BY <1>2, <1>5, <2>1 DEF TrapKeeps
  <2> QED
    BY <2>2, <2>3
<1>6. ASSUME StepFrame PROVE StepInv'
  BY <1>1, <1>6, StepUnchanged DEF SameState
<1>7. CASE PressAutomatic \/ PressAv
  <2>1. ready' = TRUE /\ LetGo
    BY <1>7 DEF PressAutomatic, PressAv, SetReady
  <2>2. stepping' \in BOOLEAN
    BY <1>7 DEF PressAutomatic, PressAv, modes, StepTyped
  <2> QED
    BY <1>3, <2>1, <2>2
<1>8. CASE PressStepping
  BY <1>4, <1>8 DEF PressStepping, control
<1>9. CASE \E mode \in {"Instruction", "Cycle"} : PressStepMode(mode)
  BY <1>5, <1>9 DEF PressStepMode, control
<1>10. CASE PressTrap \/ \E mode \in {"Automatic", "Manual"} : SetStartMode(mode)
  BY <1>6, <1>10 DEF PressTrap, SetStartMode, StepFrame, control, history
<1>11. CASE InitRises
  <2>1. stepping' = (start_mode = "Manual") /\ step_mode' = step_mode
    BY <1>11 DEF InitRises
  <2>2. CASE start_mode = "Automatic"
    BY <1>3, <1>11, <2>1, <2>2 DEF InitRises, SetReady
  <2>3. CASE start_mode = "Manual"
    <3>1. /\ UNCHANGED <<ready, trapped>> /\ stepping' = TRUE
          /\ passed' = IF stepping THEN passed ELSE 0
      BY <1>11, <2>1, <2>3 DEF InitRises, control
    <3> QED
      BY <1>4, <2>1, <3>1
  <2> QED
    BY <2>2, <2>3 DEF StartTyped
<1> QED
  BY <1>7, <1>8, <1>9, <1>10, <1>11 DEF ModeKeys

LEMMA StepNext ==
  ASSUME StepInv, StartTyped, Decided, [ConsoleNext]_vars
  PROVE  StepInv' /\ StartTyped'
<1> USE DEF control, sequencing, console, modes, history, StepFrame, SameState
<1>1. CASE Undisturbed
  <2>1. StepFrame \/ ~Undisturbed
    BY <1>1 DEF Undisturbed, Phase11, SyncRises, Phase21
  <2>2. CASE Phase11
    BY <1>1, <2>1, <2>2, StepPhase11 DEF Undisturbed, StartTyped
  <2>3. CASE SyncRises \/ Phase21
    BY <1>1, <2>1, <2>3, StepUnchanged DEF Undisturbed, SyncRises, Phase21, StartTyped
  <2> QED
    BY <1>1, <2>2, <2>3 DEF Undisturbed
<1>2. CASE ConsoleEnterState
  BY <1>2, StepEnterState DEF ConsoleEnterState, StartTyped
<1>3. CASE (BusDataIn \/ BusSyncFalls) /\ UNCHANGED console
  <2>1. /\ UNCHANGED <<state, next_state, cycle_control, ready>>
        /\ \/ phase = "data_in" /\ phase' = "sync_falls"
           \/ phase = "sync_falls" /\ phase' = "phase_22"
    BY <1>3 DEF BusDataIn, DataIn, BusSyncFalls, SyncFalls
  <2> QED
    BY <1>3, <2>1, StepUnchanged DEF StartTyped
<1>4. CASE ConsolePhase22
  BY <1>4, StepPhase22 DEF ConsolePhase22, StartTyped
<1>5. CASE ((\E card \in Cards : PlaceData(card)) \/ ConsolePlaces) /\ UNCHANGED console
  BY <1>5, StepUnchanged DEF PlaceData, ConsolePlaces, StartTyped
<1>6. CASE SubstitutionKeys
  BY <1>6, StepUnchanged DEF SubstitutionKeys, PressSubstitution, SetSwitchData, StartTyped
<1>7. CASE ModeKeys
  <2>1. StartTyped'
    BY <1>7 DEF ModeKeys, PressAutomatic, PressStepping, PressAv, PressStepMode, PressTrap,
       SetStartMode, InitRises, StartTyped
  <2> QED
    BY <1>7, <2>1, StepModeKeys
<1>8. CASE Interrupted
  BY <1>8, StepUnchanged DEF Interrupted, Interrupt, StartTyped
<1>9. CASE UNCHANGED vars
  BY <1>9, StepUnchanged DEF vars, StartTyped
<1> QED
  BY <1>1, <1>2, <1>3, <1>4, <1>5, <1>6, <1>7, <1>8, <1>9
  DEF ConsoleNext, ConsoleClock, Keys

-----------------------------------------------------------------------------
(* The theorems. *)

LEMMA NextIInv == IInv /\ [ConsoleNext]_vars => IInv'
BY DecidedNext, BusNext, StepNext DEF IInv

(* The inductive invariant: who owns the bus and with what byte, what the  *)
(* scheduled actions have still to do, and what the console holds.         *)
THEOREM ConsoleInvariant == ConsoleSpec => []IInv
BY InitIInv, NextIInv, PTL DEF ConsoleSpec

(* No request, set or release of the bus or of READY ever throws, whatever *)
(* the moments at which SUBSTITUTION is pressed.                           *)
THEOREM OneOwner == ConsoleSpec => []NoClash
<1>1. IInv => NoClash
  BY DEF IInv, NoClash
<1> QED
  BY <1>1, ConsoleInvariant, PTL

(* The CPU reads the byte of the card of its own cycle, or the switches,   *)
(* and the bus is free between two of them.                                *)
THEOREM ReadsItsByte == ConsoleSpec => []BusCarriesTheByte
<1>1. IInv => BusCarriesTheByte
  <2> SUFFICES ASSUME IInv PROVE BusCarriesTheByte
    OBVIOUS
  <2> USE DEF IInv
  <2>1. ASSUME phase = "data_in" PROVE md_bus = IF sub THEN shown ELSE answer
    <3>1. placing = {} /\ ~console_placing
      BY <2>1 DEF Moments, Settled
    <3>2. CASE sub
      BY <3>1, <3>2 DEF ConsoleShows
    <3>3. CASE ~sub /\ Sending = {}
      BY <3>3 DEF CardsOwn, OwnersKnow, ConsoleOwns, ConsoleShows, CardsAnswer, BusTyped
    <3>4. CASE ~sub /\ Sending # {}
      BY <3>1, <3>4 DEF CardsOwn, CardsPlace, CardsAnswer
    <3> QED
      BY <3>2, <3>3, <3>4
  <2>2. ASSUME ~sub, state \notin {"WAIT", "T3"}
        PROVE  md_owner = Nobody /\ md_bus = Empty
    BY <2>2 DEF Moments, CardsOwn, OwnersKnow, ConsoleOwns, ConsoleShows, BusTyped
  <2> QED
    BY <2>1, <2>2 DEF BusCarriesTheByte
<1> QED
  BY <1>1, ConsoleInvariant, PTL

(* A press of ADVANCE lets one cycle or one fetch through, and what the    *)
(* trap holds waits for a key.                                             *)
THEOREM StepsAsAsked == ConsoleSpec => []HoldsAsAsked
<1>1. IInv => HoldsAsAsked
  BY DEF IInv, StepTyped, TrapKeeps, MayBeHeld, HoldsAsAsked
<1> QED
  BY <1>1, ConsoleInvariant, PTL

(* READY is never left LOW in the automatic mode.                          *)
THEOREM RunsInAutomatic == ConsoleSpec => []AutomaticRuns
<1>1. IInv => AutomaticRuns
  BY DEF IInv
<1> QED
  BY <1>1, ConsoleInvariant, PTL

-----------------------------------------------------------------------------
(* The bytes that go over the bus, and the rest of the types.               *)

BytesTyped ==
  /\ md_bus \in Bytes
  /\ answer \in Bytes
  /\ latched_data \in [Cards -> Bytes \cup {NoData}]
  /\ switch_data \in SwitchBytes
  /\ shown \in SwitchBytes

ModesTyped ==
  /\ t1i_cycle \in BOOLEAN
  /\ trap \in BOOLEAN
  /\ init \in BOOLEAN
  /\ step_mode \in {"Instruction", "Cycle"}

LEMMA InitBytes == ConsoleInit => BytesTyped /\ ModesTyped
<1> SUFFICES ASSUME ConsoleInit PROVE BytesTyped /\ ModesTyped
  OBVIOUS
<1>1. BytesTyped
  BY DEF ConsoleInit, BusInit, BytesTyped, Bytes
<1>2. ModesTyped
  BY DEF ConsoleInit, BusInit, ModesTyped
<1> QED
  BY <1>1, <1>2

LEMMA AnswersAreBytes ==
  \A card \in Cards : AnswersOf(card) \subseteq Bytes
BY DEF AnswersOf, Bytes

(* The cards at the fall of T2 and of T3. *)
LEMMA BytesEnterState ==
  ASSUME BytesTyped, BusEnterState
  PROVE  BytesTyped'
<1>1. UNCHANGED <<switch_data, shown>>
  BY DEF BusEnterState, console_sub
<1>2. CASE NoFall \/ NobodyAnswers
  BY <1>1, <1>2 DEF NoFall, NobodyAnswers, bus, holders, BytesTyped, Bytes
<1>3. ASSUME NEW card \in Answering, NEW byte \in AnswersOf(card), Place(card, byte)
      PROVE  BytesTyped'
  <2>1. card \in Cards
    BY <1>3, DataBusAssumption DEF Answering
  <2>2. byte \in Bytes
    BY <1>3, <2>1, AnswersAreBytes
  <2>3. /\ answer' = byte /\ md_bus' = md_bus
        /\ latched_data' = [latched_data EXCEPT ![card] = byte]
    BY <1>3 DEF Place
  <2>4. latched_data' \in [Cards -> Bytes \cup {NoData}]
    BY <2>2, <2>3 DEF BytesTyped
  <2> QED
    BY <1>1, <2>2, <2>3, <2>4 DEF BytesTyped
<1>4. CASE T3Falls
  <2>1. latched_data' = [card \in Cards |-> NoData] /\ answer' = Empty
    BY <1>4 DEF T3Falls
  <2>2. md_bus' = md_bus \/ md_bus' = Empty
    BY <1>4 DEF T3Falls, ReleaseBus
  <2> QED
    BY <1>1, <2>1, <2>2 DEF BytesTyped, Bytes
<1> QED
  BY <1>2, <1>3, <1>4 DEF BusEnterState, T2Falls

(* The bus is only given a byte that a card has latched, or the switches. *)
LEMMA BytesNext ==
  ASSUME BusInv, BytesTyped, [ConsoleNext]_vars
  PROVE  BytesTyped'
<1>1. CASE UNCHANGED <<md_bus, answer, latched_data, switch_data, shown>>
  BY <1>1 DEF BytesTyped
<1>2. CASE Undisturbed \/ ConsolePhase22 \/ BusDataIn \/ Interrupted \/ UNCHANGED vars
  BY <1>1, <1>2 DEF Undisturbed, ConsolePhase22, BusDataIn, Interrupted, vars, data_bus, bus,
     holders, console_sub
<1>3. CASE ConsoleEnterState
  BY <1>3, BytesEnterState DEF ConsoleEnterState
<1>4. CASE BusSyncFalls
  <2>1. md_bus' = md_bus \/ md_bus' = Empty \/ md_bus' = switch_data
    BY <1>4 DEF BusSyncFalls, SubStays, SubMoves, ValueAfterConsole
  <2>2. shown' = switch_data /\ UNCHANGED <<switch_data, answer, latched_data>>
    BY <1>4 DEF BusSyncFalls, SubStays, SubMoves, holders
  <2> QED
    BY <2>1, <2>2 DEF BytesTyped, Bytes
<1>5. ASSUME NEW card \in Cards, PlaceData(card) PROVE BytesTyped'
  <2>1. UNCHANGED <<switch_data, shown, answer, latched_data>>
    BY <1>5 DEF PlaceData, console_sub
  <2>2. md_bus' = md_bus \/ (card \in owns_bus /\ md_bus' = latched_data[card])
    BY <1>5 DEF PlaceData
  <2>3. card \in owns_bus => latched_data[card] # NoData
    BY DEF BusInv, Ownership, CardsOwn, Sending
  <2>4. md_bus' \in Bytes
    BY <2>2, <2>3 DEF BytesTyped
  <2> QED
    BY <2>1, <2>4 DEF BytesTyped
<1>6. CASE ConsolePlaces
  <2>1. /\ md_bus' = switch_data /\ shown' = switch_data
        /\ UNCHANGED <<switch_data, answer, latched_data>>
    BY <1>6 DEF ConsolePlaces, holders
  <2> QED
    BY <2>1 DEF BytesTyped, Bytes
<1>7. CASE SubstitutionKeys
  BY <1>7 DEF SubstitutionKeys, PressSubstitution, SetSwitchData, bus, holders, BytesTyped
<1>8. CASE ModeKeys
  BY <1>1, <1>8 DEF ModeKeys, PressAutomatic, PressStepping, PressAv, PressStepMode, PressTrap,
     SetStartMode, InitRises, data_bus, bus, holders, console_sub
<1> QED
  BY <1>2, <1>3, <1>4, <1>5, <1>6, <1>7, <1>8 DEF ConsoleNext, ConsoleClock, Keys

LEMMA ModesNext ==
  ASSUME ModesTyped, [ConsoleNext]_vars
  PROVE  ModesTyped'
<1> USE DEF modes, console, data_bus, history
<1>1. CASE UNCHANGED <<t1i_cycle, modes>>
  BY <1>1 DEF ModesTyped
<1>2. CASE Undisturbed \/ Interrupted \/ UNCHANGED vars
  BY <1>1, <1>2 DEF Undisturbed, Interrupted, vars
<1>3. CASE ConsoleEnterState
  BY <1>3 DEF ConsoleEnterState, BusEnterState, ModesTyped
<1>4. CASE BusDataIn /\ UNCHANGED console
  <2>1. t1i_cycle' = InT1ICycle /\ UNCHANGED modes
    BY <1>4 DEF BusDataIn
  <2>2. InT1ICycle \in BOOLEAN
    BY DEF InT1ICycle
  <2>3. t1i_cycle' \in BOOLEAN
    BY <2>1, <2>2
  <2> QED
    BY <2>1, <2>3 DEF ModesTyped
<1>5. CASE ConsolePhase22
  <2>1. t1i_cycle' = InT1ICycle /\ UNCHANGED <<trap, init, step_mode>>
    BY <1>5 DEF ConsolePhase22
  <2>2. InT1ICycle \in BOOLEAN
    BY DEF InT1ICycle
  <2>3. t1i_cycle' \in BOOLEAN
    BY <2>1, <2>2
  <2> QED
    BY <2>1, <2>3 DEF ModesTyped
<1>6. CASE BusSyncFalls /\ UNCHANGED console
  BY <1>1, <1>6 DEF BusSyncFalls
<1>7. CASE ((\E card \in Cards : PlaceData(card)) \/ ConsolePlaces) /\ UNCHANGED console
  BY <1>1, <1>7 DEF PlaceData, ConsolePlaces
<1>8. CASE SubstitutionKeys
  BY <1>1, <1>8 DEF SubstitutionKeys, PressSubstitution, SetSwitchData
<1>9. CASE ModeKeys
  <2>1. t1i_cycle' = t1i_cycle
    BY <1>9 DEF ModeKeys, PressAutomatic, PressStepping, PressAv, PressStepMode, PressTrap,
       SetStartMode, InitRises
  <2>2. step_mode' = step_mode \/ step_mode' \in {"Instruction", "Cycle"}
    BY <1>9 DEF ModeKeys, PressAutomatic, PressStepping, PressAv, PressStepMode, PressTrap,
       SetStartMode, InitRises
  <2>3. (trap' = trap \/ trap' = ~trap) /\ (init' = init \/ init' = TRUE)
    BY <1>9, Zenon DEF ModeKeys, PressAutomatic, PressStepping, PressAv, PressStepMode, PressTrap,
       SetStartMode, InitRises
  <2>4. trap' \in BOOLEAN /\ init' \in BOOLEAN
    BY <2>3 DEF ModesTyped
  <2> QED
    BY <2>1, <2>2, <2>4 DEF ModesTyped
<1> QED
  BY <1>2, <1>3, <1>4, <1>5, <1>6, <1>7, <1>8, <1>9 DEF ConsoleNext, ConsoleClock, Keys

(* The types of what is around the CPU: the bytes that go over the bus, and *)
(* who may own it and READY. *)
THEOREM ConsoleTypeOK == ConsoleSpec => []TypeOK
<1>1. ConsoleInit => BytesTyped /\ ModesTyped
  BY InitBytes
<1>2. IInv /\ BytesTyped /\ ModesTyped /\ [ConsoleNext]_vars => (BytesTyped /\ ModesTyped)'
  BY BytesNext, ModesNext DEF IInv
<1>3. ASSUME IInv, BytesTyped, ModesTyped PROVE TypeOK
  <2> USE <1>3 DEF IInv
  <2>1. /\ md_owner \in Cards \cup {Console, Nobody} /\ ready_owner \in Cards \cup {Nobody}
        /\ owns_bus \subseteq Cards /\ placing \subseteq Cards
    BY DEF BusInv, BusTyped
  <2>2. {sub, substitution, release_data_bus, console_placing, t1i_cycle, clash} \subseteq BOOLEAN
    BY DEF BusInv, BusTyped, ModesTyped
  <2>3. {switch_data, shown} \subseteq SwitchBytes
    BY DEF BytesTyped
  <2>4. {stepping, trap, init, trapped} \subseteq BOOLEAN
    BY DEF StepTyped, ModesTyped, StepInv
  <2>5. passed \in 0 .. PassedBound
    BY DEF StepTyped, PassedBound, StepInv
  <2> QED
    BY <2>1, <2>2, <2>3, <2>4, <2>5 DEF TypeOK, BytesTyped, ModesTyped, StartTyped
<1> QED
  BY <1>1, <1>2, <1>3, ConsoleInvariant, PTL DEF ConsoleSpec
==============================================================================
