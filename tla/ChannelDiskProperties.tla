------------------------ MODULE ChannelDiskProperties ------------------------
(***************************************************************************)
(* What ChannelDisk.tla is checked against.                                *)
(***************************************************************************)
EXTENDS ChannelDisk

(* TypeOK: the types of the variables. *)
TypeOK ==
  /\ data \in [Slot -> Byte]
  /\ data_pointer \in Slot
  /\ data_counter \in Nat
  /\ data_counter > 0 => \E count \in Counts : data_counter <= count + 1
  /\ current_pointer_address \in Slot
  /\ transfer_allowed \in BOOLEAN
  /\ end_of_transfer \in BOOLEAN
  /\ direction \in BOOLEAN
  /\ output_data \in Byte
  /\ pointer_value_to_send \in Slot
  /\ counter_value \in Counts \cup {0}
  /\ sending_to_channel \in BOOLEAN
  /\ card_status \in [track_00 : BOOLEAN, transferring : BOOLEAN]
  /\ step \in BOOLEAN
  /\ dir \in BOOLEAN
  /\ track \in Track
  /\ sector \in Sector
  /\ index_in_sector \in Index
  /\ pulse \in [Signals -> {"idle", "launched", "high"}]

(* A byte has been read from the disk and is not in the memory yet. *)
InFlight == pulse["available_data"] = "launched"

Copy == INSTANCE SectorCopy WITH
  memory <- data,
  pointer <- data_pointer,
  remaining <- data_counter,
  activated <- direction,
  head <- IF InFlight THEN output_data
          ELSE [track |-> track, sector |-> sector, index |-> index_in_sector]

(* The handshake of T3, transfer_allowed, available_data and data_transfer *)
(* copies each byte once and in order, whatever command comes between two  *)
(* bytes, and aborts the rest where the program stops it.                  *)
ImplementsSectorCopy == Copy!Spec

(* The program polls the status of the disk to know that the transfer is   *)
(* over: when it is no longer transferring, the last byte is in memory.    *)
EndIsNotEarly ==
  [][card_status.transferring /\ ~card_status'.transferring => data_counter' = 0]_vars

(* The program reads the pointer back from current_pointer_address. LOAD  *)
(* does not go through it: it is late only as long as the memory is at the *)
(* pointer that was loaded.                                                *)
PointerReadBack ==
  Quiet /\ current_pointer_address /= data_pointer => data_pointer = pointer_value_to_send

(* If the program leaves the cards alone, a transfer comes to its end.     *)
TransferEnds ==
  <>[][Cards]_vars => (data_counter > 0 ~> data_counter = 0)

(* end_of_transfer "allows it to understand the asked transfer is          *)
(* finished" (StackChannelCard.h:53): after the last byte the disk no      *)
(* longer says that it is transferring.                                    *)
DiskLearnsTheEnd ==
  [][AvailableData /\ data_counter' = 0 => ~sending_to_channel']_vars
==============================================================================
