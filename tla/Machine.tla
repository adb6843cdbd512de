------------------------------- MODULE Machine -------------------------------
(***************************************************************************)
(* The parts of the machine that answer an address or give bytes, side by  *)
(* side: the memory cards and the I/O cards of the bus, the walk of the    *)
(* disassembler, and the bytes of the disk.  They share nothing, so that a *)
(* behaviour is one of them alone (subject).                               *)
(***************************************************************************)
EXTENDS MemoryCards, IOMap, Disassembler, VirtualDisk

VARIABLES
  subject,       (* the part that runs                                       *)
  io_address     (* the address of an I/O cycle: the opcode, the accumulator *)

vars == <<subject, memory_vars, io_address, listing_vars, disk_vars>>

Subjects == {"memory", "io", "listing", "disk"}

(* The address of an I/O cycle: the six low bits of the opcode, and A. *)
IOAddresses ==
  {(opcode % 64) * 256 + a :
     opcode \in {code \in Opcode : Decoding[code].name \in {"INP", "OUT"}}, a \in Byte}

Chosen(S) == CHOOSE x \in S : TRUE

(* The parts that do not run stay in one of their states. *)
MachineInit ==
  /\ subject \in Subjects
  /\ io_address = 0
  /\ subject = "memory" \/ rom_config = "MICRAL_N"
  /\ subject = "listing" \/ file = Chosen(Files)
  /\ subject = "disk" \/ (data = Chosen(Disks) /\ reading = Chosen(Sectors))
  /\ MemoryInit /\ ListingInit /\ DiskInit

IOCycle ==
  /\ io_address = 0
  /\ io_address' \in IOAddresses

MachineNext ==
  \/ /\ subject = "memory"
     /\ MemoryNext
     /\ UNCHANGED <<subject, io_address, listing_vars, disk_vars>>
  \/ /\ subject = "io"
     /\ IOCycle
     /\ UNCHANGED <<subject, memory_vars, listing_vars, disk_vars>>
  \/ /\ subject = "listing"
     /\ PrintLine
     /\ UNCHANGED <<subject, memory_vars, io_address, disk_vars>>
  \/ /\ subject = "disk"
     /\ ReadByte \/ Seek
     /\ UNCHANGED <<subject, memory_vars, io_address, listing_vars>>

MachineSpec == MachineInit /\ [][MachineNext]_vars
===============================================================================
