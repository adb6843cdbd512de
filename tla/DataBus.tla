------------------------------- MODULE DataBus -------------------------------
(***************************************************************************)
(* Who drives the memory data bus (MD) of the Pluribus: the cards, by the  *)
(* DataOnMDBusHolder of each (devices/src/DataOnMDBusHolder.cpp), and the  *)
(* console when it substitutes its switches for them (SUB).  The bus is an *)
(* OwnedValue: a request by one while another owns it, or a set by one who *)
(* does not own it, throws, and that is the end of the emulation (clash).  *)
(*                                                                         *)
(* The actions that the holders and the console schedule (200, 20 and      *)
(* 20 ns) run before the next edge of the clock, 675 ns after the T-state  *)
(* has changed and 880 ns after SYNC has fallen: the clock waits for them. *)
(***************************************************************************)
EXTENDS CPUControl, FiniteSets

CONSTANTS
  Cards,       (* the holders: one for each kind of card that answers reads *)
  MemoryBytes, (* what the memory can answer                                *)
  IOBytes,     (* what an input can answer                                  *)
  SwitchBytes, (* what the data switches of the console can be set to       *)
  Nobody,      (* no owner                                                  *)
  NoData,      (* a holder has nothing to send                              *)
  Memory,
  InputCard,
  Console

Empty == 0     (* what the bus reads when it has been released *)

ASSUME DataBusAssumption ==
  /\ Cards = {Memory, InputCard}
  /\ Console \notin Cards
  /\ Nobody \notin Cards \cup {Console}
  /\ MemoryBytes \cup IOBytes \cup SwitchBytes \subseteq Opcode
  /\ NoData \notin Opcode

VARIABLES
  md_owner,           (* owner of data_bus_md0_7                             *)
  md_bus,             (* its value                                           *)
  ready_owner,        (* owner of pluribus->ready, which is always HIGH      *)
  latched_data,       (* each holder: its byte while has_data_to_send        *)
  owns_bus,           (* the holders that believe they own the bus           *)
  placing,            (* the holders whose place_data is scheduled           *)
  sub,                (* the line SUB is HIGH                                *)
  substitution,       (* status.substitution of the console                  *)
  release_data_bus,
  switch_data,
  console_placing,    (* the console's action is scheduled                   *)
  t1i_cycle,          (* ProcessorCard: the cycle was begun by a T1I         *)
  clash,              (* an OwnedValue, an OwnedSignal or a ScheduledAction has thrown *)
  answer,             (* history: what the card addressed answered at the end of T2    *)
  shown               (* history: the data switches when the console last looked at them *)

holders == <<ready_owner, latched_data, owns_bus, placing>>
bus == <<md_owner, md_bus, holders, clash>>
console_sub == <<sub, substitution, release_data_bus, switch_data, console_placing>>
data_bus == <<bus, console_sub, t1i_cycle, answer, shown>>

Bytes == MemoryBytes \cup IOBytes \cup SwitchBytes \cup {Empty}
Sending == {card \in Cards : latched_data[card] # NoData}

BusInit ==
  /\ md_owner = Nobody
  /\ md_bus = Empty
  /\ ready_owner = Nobody
  /\ latched_data = [card \in Cards |-> NoData]
  /\ owns_bus = {}
  /\ placing = {}
  /\ sub = FALSE
  /\ substitution = FALSE
  /\ release_data_bus = FALSE
  /\ switch_data \in SwitchBytes
  /\ console_placing = FALSE
  /\ t1i_cycle = FALSE
  /\ clash = FALSE
  /\ answer = Empty
  /\ shown = switch_data

-----------------------------------------------------------------------------
(* The actions the holders and the console have scheduled. *)

Settled == placing = {} /\ ~console_placing

(* place_data *)
PlaceData(card) ==
  /\ card \in placing
  /\ placing' = placing \ {card}
  /\ IF card \in owns_bus
     THEN /\ md_bus' = latched_data[card]
          /\ ready_owner' = card
          /\ clash' = (clash \/ md_owner # card \/ ready_owner \notin {Nobody, card})
     ELSE UNCHANGED <<md_bus, ready_owner, clash>>
  /\ UNCHANGED <<control, md_owner, latched_data, owns_bus, console_sub, t1i_cycle,
                 answer, shown>>

(* Mutant: the switches are those that SYNC saw as it fell. *)
ConsolePlacesShown ==
  /\ console_placing
  /\ console_placing' = FALSE
  /\ md_owner' = Console
  /\ md_bus' = shown
  /\ clash' = (clash \/ md_owner \notin {Nobody, Console})
  /\ shown' = switch_data
  /\ UNCHANGED <<control, holders, sub, substitution, release_data_bus, switch_data,
                 t1i_cycle, answer>>

(* The action of ConsoleCard::on_sub: the switches are those of its date.   *)
ConsolePlaces ==
  /\ console_placing
  /\ console_placing' = FALSE
  /\ md_owner' = Console
  /\ md_bus' = switch_data
  /\ clash' = (clash \/ md_owner \notin {Nobody, Console})
  /\ shown' = switch_data
  /\ UNCHANGED <<control, holders, sub, substitution, release_data_bus, switch_data,
                 t1i_cycle, answer>>

-----------------------------------------------------------------------------
(* The edges of T2 and T3, when the CPU changes state. *)

(* MemoryCard::on_t2 and IOCommunicator::on_t2: the cards that may be       *)
(* addressed by the cycle; none when no card is at the address.             *)
Answering ==
  CASE cycle_control \in {"PCI", "PCR"} -> {Memory}
    [] cycle_control = "PCC" /\ decoded_instruction.name = "INP" -> {InputCard}
    [] OTHER -> {}

AnswersOf(card) == IF card = Memory THEN MemoryBytes ELSE IOBytes

(* Mutant: the holder of a card that is not addressed sends what it has. *)
NobodyPlaces ==
  /\ answer' = Empty
  /\ md_bus' = latched_data[Memory]
  /\ UNCHANGED <<md_owner, holders, clash>>

NobodyAnswers ==
  /\ answer' = Empty
  /\ UNCHANGED bus

(* place: the data are kept, and the bus is taken unless SUB is HIGH. *)
Place(card, byte) ==
  /\ answer' = byte
  /\ latched_data' = [latched_data EXCEPT ![card] = byte]
  /\ IF sub
     THEN UNCHANGED <<md_owner, owns_bus, placing, clash>>
     ELSE /\ md_owner' = card
          /\ owns_bus' = owns_bus \cup {card}
          /\ placing' = placing \cup {card}
          /\ clash' = (clash \/ md_owner \notin {Nobody, card} \/ card \in placing)
  /\ UNCHANGED <<md_bus, ready_owner>>

T2Falls ==
  /\ state = "T2"
  /\ next_state # "none"
  /\ \/ NobodyAnswers
     \/ \E card \in Answering : \E byte \in AnswersOf(card) : Place(card, byte)

(* release_bus, by the holders of `cards`. *)
ReleaseBus(cards) ==
  IF cards = {}
  THEN UNCHANGED <<md_owner, md_bus, ready_owner, owns_bus, clash>>
  ELSE /\ md_owner' = Nobody
       /\ md_bus' = Empty
       /\ ready_owner' = Nobody
       /\ owns_bus' = owns_bus \ cards
       /\ clash' = \/ clash
                   \/ \E card \in cards : md_owner # card \/ ready_owner \notin {Nobody, card}

(* Mutant: a holder that does not own the bus keeps its data after T3. *)
T3FallsKeeps ==
  /\ state = "T3"
  /\ next_state # "none"
  /\ ReleaseBus(Sending \cap owns_bus)
  /\ latched_data' = [card \in Cards |-> IF card \in owns_bus THEN NoData
                                                              ELSE latched_data[card]]
  /\ answer' = Empty
  /\ UNCHANGED placing

(* on_t3 *)
T3Falls ==
  /\ state = "T3"
  /\ next_state # "none"
  /\ ReleaseBus(Sending \cap owns_bus)
  /\ latched_data' = [card \in Cards |-> NoData]
  /\ answer' = Empty
  /\ UNCHANGED placing

NoFall ==
  /\ state \notin {"T2", "T3"} \/ next_state = "none"
  /\ UNCHANGED <<bus, answer>>

BusEnterState ==
  /\ EnterState
  /\ T2Falls \/ T3Falls \/ NoFall
  /\ UNCHANGED <<console_sub, t1i_cycle, shown>>

-----------------------------------------------------------------------------
(* ProcessorCard::on_phase_2: the CPU reads the bus, but in a fetch that a  *)
(* T1I began, in which the interrupt controller may jam a RST.              *)
RST0 == 5

BytesRead == {md_bus} \cup IF t1i_cycle /\ cycle_control = "PCI" THEN {RST0} ELSE {}

InT1ICycle == state = "T1I" \/ (state # "T1" /\ t1i_cycle)

BusDataIn ==
  /\ Settled
  /\ \E byte \in BytesRead, holds \in BOOLEAN : DataIn(Decoding[byte], holds)
  /\ t1i_cycle' = InT1ICycle
  /\ UNCHANGED <<bus, console_sub, answer, shown>>

-----------------------------------------------------------------------------
(* The fall of SYNC: ConsoleCard::on_sync, and on_sub of the console and of *)
(* the holders when it moves SUB.                                           *)

(* The owner and the value of the bus once the console has released it, or  *)
(* has shown its switches again.                                            *)
OwnerAfterConsole == IF release_data_bus THEN Nobody ELSE md_owner
ValueAfterConsole == IF release_data_bus THEN Empty ELSE IF sub THEN switch_data ELSE md_bus
ConsoleClash == (release_data_bus \/ sub) /\ md_owner # Console

SubStays ==
  /\ sub = substitution
  /\ md_owner' = OwnerAfterConsole
  /\ md_bus' = ValueAfterConsole
  /\ clash' = (clash \/ ConsoleClash)
  /\ UNCHANGED <<holders, sub, console_placing>>

(* Mutant: a holder that has had to leave the bus does not take it again. *)
TakingNone(leaving) == {}

(* A holder that does not leave and has data takes the bus: the else branch *)
(* of on_sub does not look at the edge.                                     *)
Taking(leaving) == Sending \ leaving

(* When SUB rises, the holders that own the bus leave it. *)
SubMoves ==
  LET leaving == IF substitution THEN owns_bus ELSE {}
      taking == Taking(leaving)
      owner == IF leaving = {} THEN OwnerAfterConsole ELSE Nobody
  IN
  /\ sub # substitution
  /\ sub' = substitution
  /\ console_placing' = (console_placing \/ substitution)
  /\ md_owner' = IF taking = {} THEN owner ELSE CHOOSE card \in taking : TRUE
  /\ md_bus' = IF leaving = {} THEN ValueAfterConsole ELSE Empty
  /\ ready_owner' = IF leaving = {} THEN ready_owner ELSE Nobody
  /\ owns_bus' = (owns_bus \ leaving) \cup taking
  /\ placing' = placing \cup taking
  /\ clash' = \/ clash
              \/ ConsoleClash
              \/ substitution /\ console_placing
              \/ \E card \in leaving : OwnerAfterConsole # card
                                       \/ ready_owner \notin {Nobody, card}
              \/ \E card \in taking : owner \notin {Nobody, card} \/ card \in placing
              \/ Cardinality(taking) > 1
  /\ UNCHANGED latched_data

BusSyncFalls ==
  /\ SyncFalls
  /\ SubStays \/ SubMoves
  /\ release_data_bus' = FALSE
  /\ shown' = switch_data
  /\ UNCHANGED <<substitution, switch_data, t1i_cycle, answer>>

-----------------------------------------------------------------------------
(* Mutant: the console keeps the bus when the key is released. *)
PressSubstitutionKeeps ==
  /\ substitution' = ~substitution
  /\ UNCHANGED <<control, bus, sub, release_data_bus, switch_data, console_placing, t1i_cycle,
                 answer, shown>>

(* press_substitution *)
PressSubstitution ==
  /\ substitution' = ~substitution
  /\ release_data_bus' = IF sub THEN substitution ELSE release_data_bus
  /\ UNCHANGED <<control, bus, sub, switch_data, console_placing, t1i_cycle, answer, shown>>

(* set_switch_data *)
SetSwitchData(byte) ==
  /\ switch_data' = byte
  /\ UNCHANGED <<control, bus, sub, substitution, release_data_bus, console_placing,
                 t1i_cycle, answer, shown>>
==============================================================================
