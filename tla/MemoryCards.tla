----------------------------- MODULE MemoryCards -----------------------------
(***************************************************************************)
(* The memory: the cards that emulator/src/Simulator.cpp installs, how     *)
(* devices/src/MemoryCard.cpp decodes their addresses and answers a cycle  *)
(* of the bus, and the view of the memory that the windows are given.      *)
(*                                                                         *)
(* A card of 4k may have 256 bytes of ROM that hide its first page until   *)
(* it sees RST 0 in T3 of a fetch on the MD bus.  The interrupt controller *)
(* jams its RST on the other bus, so that the one of INIT does not count.  *)
(*                                                                         *)
(* PAGE_SIZE scales the 14 bits of an address: three of selection, three   *)
(* for the page in 2k, and those in the page.                              *)
(***************************************************************************)
EXTENDS Naturals, Sequences, FiniteSets, FiniteSetsExt

CONSTANTS
  PAGE_SIZE,       (* 256                                                    *)
  BootImage,       (* the files of the ROMs                                  *)
  MonitorImage,
  Visited,         (* bound: the addresses where the program reads           *)
  Written,         (* bound: those where it writes                           *)
  WrittenBytes     (* bound: what it writes there, and the data switches     *)

Byte == 0 .. 255

ASSUME MemoryAssumption ==
  /\ PAGE_SIZE \in Nat \ {0}
  /\ {BootImage, MonitorImage} \subseteq Seq(Byte)
  /\ WrittenBytes \subseteq Byte
  /\ Written \subseteq Visited /\ Visited \subseteq 0 .. 64 * PAGE_SIZE - 1

VARIABLES
  rom_config,      (* the configuration chosen on the command line           *)
  buffer,          (* the bytes of each card                                 *)
  page_0,          (* page_readers[0] of the card of 4k reads "masked_rom" or "buffer" *)
  address,         (* the address and the kind of the cycle on the bus       *)
  cycle_control,
  md_bus,          (* data_bus_md0_7                                         *)
  t3,              (* the line T3: "LOW", "HIGH", and "sampled" once phase 2 *)
                   (* has risen with T3 HIGH and SYNC LOW                    *)
  last_cycle       (* history: the last cycle, its address and its byte      *)

memory == <<buffer, page_0>>
memory_vars == <<rom_config, memory, address, cycle_control, md_bus, t3, last_cycle>>

-----------------------------------------------------------------------------
(* Simulator::create_memory_cards. *)
rom_2k(mask) == [size |-> "Card2k", access |-> "ROM", mask |-> mask]
ram_2k(mask) == [size |-> "Card2k", access |-> "RAM", mask |-> mask]
masked_rom_ram_4k(mask) == [size |-> "Card4k", access |-> "ROM_RAM_256", mask |-> mask]

(* Mutant: RAM is also installed at the mask of the monitor's ROM. *)
CardsOnceMore(config) ==
  IF config = "MICRAL_N"
  THEN {masked_rom_ram_4k(0), rom_2k(7)} \cup {ram_2k(mask) : mask \in 2 .. 7}
  ELSE {rom_2k(0)} \cup {ram_2k(mask) : mask \in 2 .. 7}

CardsOf(config) ==
  IF config = "MICRAL_N"
  THEN {masked_rom_ram_4k(0), rom_2k(7)} \cup {ram_2k(mask) : mask \in 2 .. 6}
  ELSE {rom_2k(0)} \cup {ram_2k(mask) : mask \in 2 .. 7}

Cards == CardsOf(rom_config)

Block == 8 * PAGE_SIZE      (* 2k *)
Addresses == 0 .. 8 * Block - 1

Length(card) == IF card.size = "Card2k" THEN Block ELSE 2 * Block

is_addressed(card, a) ==
  /\ card.size = "Card2k" => (a \div Block) % 2 = card.mask % 2
  /\ (a \div (2 * Block)) % 4 = card.mask \div 2

start_address(card) ==
  IF card.size = "Card4k" THEN (card.mask \div 2) * 2 * Block ELSE card.mask * Block

Decoder ==
  [config \in {"MICRAL_N", "OTHER"} |->
     [a \in Addresses |-> {card \in CardsOf(config) : is_addressed(card, a)}]]

Addressed(a) == Decoder[rom_config][a]

(* load_data: what a file leaves in a memory of that size. *)
Loaded(image, size) == [i \in 0 .. size - 1 |-> IF i < Len(image) THEN image[i + 1] ELSE 0]

masked_rom == Loaded(BootImage, PAGE_SIZE)

(* Mutant: the RAM hidden by the ROM cannot be written. *)
WritesRamOnly(card, local) == card.access = "RAM"

(* create_memory_pages: which pages have a writer. *)
Writes(card, local) == card.access # "ROM"

read_data(card, a) ==
  LET local == a - start_address(card)
  IN IF card.access = "ROM_RAM_256" /\ page_0 = "masked_rom" /\ local < PAGE_SIZE
     THEN masked_rom[local]
     ELSE buffer[card][local]

-----------------------------------------------------------------------------
Empty == 0     (* what the MD bus reads when no card drives it *)
RST_0 == 5

NoCycle == [kind |-> "none", address |-> 0, byte |-> 0]

MemoryInit ==
  /\ rom_config \in {"MICRAL_N", "OTHER"}
  /\ buffer = [card \in Cards |->
       Loaded(IF card.access = "ROM" THEN MonitorImage ELSE <<>>, Length(card))]
  /\ page_0 = IF rom_config = "MICRAL_N" THEN "masked_rom" ELSE "buffer"
  /\ address = 0
  /\ cycle_control = "PCI"
  /\ md_bus = Empty
  /\ t3 = "LOW"
  /\ last_cycle = NoCycle

(* on_t2: the cards that are addressed place their byte, or the console its *)
(* switches in their stead. *)
ReadT2Falls(control, a, byte) ==
  /\ t3 = "LOW"
  /\ t3' = "HIGH"
  /\ cycle_control' = control
  /\ address' = a
  /\ md_bus' = byte
  /\ UNCHANGED <<rom_config, memory, last_cycle>>

ReadCycle ==
  \E control \in {"PCI", "PCR"}, a \in Visited :
    \/ Addressed(a) = {} /\ ReadT2Falls(control, a, Empty)
    \/ \E card \in Addressed(a) : ReadT2Falls(control, a, read_data(card, a))

(* The address does not matter then. *)
SubstitutedCycle == \E byte \in WrittenBytes : ReadT2Falls("Substituted", 0, byte)

(* A cycle that writes: on_t3prime, at the end of T3. *)
WriteCycle ==
  \E a \in Written, byte \in WrittenBytes :
    /\ t3 = "LOW"
    /\ buffer' = [card \in Cards |->
         IF is_addressed(card, a) /\ Writes(card, a - start_address(card))
         THEN [buffer[card] EXCEPT ![a - start_address(card)] = byte]
         ELSE buffer[card]]
    /\ last_cycle' = [kind |-> "PCW", address |-> a, byte |-> byte]
    /\ UNCHANGED <<rom_config, page_0, address, cycle_control, md_bus, t3>>

(* Mutant: any read of the byte of RST 0 shows the RAM. *)
SwitchesOnAnyRead == md_bus = RST_0

(* on_phase_2, with SYNC LOW and T3 HIGH. *)
Switches == cycle_control \in {"PCI", "Substituted"} /\ md_bus = RST_0

Phase2Rises ==
  /\ t3 # "LOW"
  /\ t3' = "sampled"
  /\ page_0' = IF Switches THEN "buffer" ELSE page_0
  /\ last_cycle' = IF cycle_control = "Substituted" THEN last_cycle
                   ELSE [kind |-> cycle_control, address |-> address, byte |-> md_bus]
  /\ UNCHANGED <<rom_config, buffer, address, cycle_control, md_bus>>

(* The bus is released. *)
T3Falls ==
  /\ t3 = "sampled"
  /\ t3' = "LOW"
  /\ md_bus' = Empty
  /\ address' = 0
  /\ cycle_control' = "PCI"
  /\ UNCHANGED <<rom_config, memory, last_cycle>>

MemoryNext == ReadCycle \/ SubstitutedCycle \/ WriteCycle \/ Phase2Rises \/ T3Falls

-----------------------------------------------------------------------------
(* SimulatorMemoryView: the cards in the order of their start addresses. *)
view_get(a) ==
  LET holding == {card \in Cards : start_address(card) <= a
                                   /\ a < start_address(card) + Length(card)}
      First == CHOOSE card \in holding :
                 \A other \in holding : start_address(card) <= start_address(other)
  IN IF holding = {} THEN 0 ELSE read_data(First, a)

view_size == 8 * Block
===============================================================================
