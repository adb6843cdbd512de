------------------------------ MODULE FlatMemory ------------------------------
(***************************************************************************)
(* What the programs are promised of the memory: one flat array of bytes,  *)
(* some of them read-only, whose first bytes are those of the boot ROM     *)
(* until RST 0 is fetched.  Nothing is said of cards, masks or pages.      *)
(*                                                                         *)
(* MemoryCards.tla is the detailed specification shown to implement it.    *)
(***************************************************************************)
EXTENDS Naturals

CONSTANTS
  Addresses,      (* the addresses of the bus                               *)
  Byte,
  RST_0           (* the opcode of RST 0                                    *)

VARIABLES
  read_only,      (* where nothing can be written; it does not change       *)
  boot_rom,       (* the boot ROM, a function over the addresses it hides;  *)
                  (* it does not change                                     *)
  bytes,          (* the memory, behind the boot ROM too                    *)
  booting,        (* the boot ROM hides it                                  *)
  last_cycle      (* the last one: its kind, its address and its byte       *)

vars == <<read_only, boot_rom, bytes, booting, last_cycle>>

Init ==
  /\ read_only \subseteq Addresses
  /\ bytes \in [Addresses -> Byte]
  /\ booting = (DOMAIN boot_rom # {})
  /\ last_cycle = [kind |-> "none", address |-> 0, byte |-> 0]

Contents(address) ==
  IF booting /\ address \in DOMAIN boot_rom THEN boot_rom[address] ELSE bytes[address]

(* A fetch of RST 0 ends the boot. *)
Fetch(address) ==
  /\ last_cycle' = [kind |-> "PCI", address |-> address, byte |-> Contents(address)]
  /\ booting' = (booting /\ Contents(address) # RST_0)
  /\ UNCHANGED <<read_only, boot_rom, bytes>>

(* So does one that the switches of the console give in place of the memory. *)
Substituted(byte) ==
  /\ booting' = (booting /\ byte # RST_0)
  /\ UNCHANGED <<read_only, boot_rom, bytes, last_cycle>>

Read(address) ==
  /\ last_cycle' = [kind |-> "PCR", address |-> address, byte |-> Contents(address)]
  /\ UNCHANGED <<read_only, boot_rom, bytes, booting>>

Write(address, byte) ==
  /\ last_cycle' = [kind |-> "PCW", address |-> address, byte |-> byte]
  /\ bytes' = IF address \in read_only THEN bytes ELSE [bytes EXCEPT ![address] = byte]
  /\ UNCHANGED <<read_only, boot_rom, booting>>

Next ==
  \/ \E address \in Addresses :
       \/ Fetch(address)
       \/ Read(address)
       \/ \E byte \in Byte : Write(address, byte)
  \/ \E byte \in Byte : Substituted(byte)

Spec == Init /\ [][Next]_vars
===============================================================================
