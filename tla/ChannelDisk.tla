---------------------------- MODULE ChannelDisk ----------------------------
(***************************************************************************)
(* The transfer of a sector from the disk to the memory of the Stack       *)
(* Channel card: StackChannelCard.cpp (in Channel mode), the               *)
(* DiskControllerCard.cpp with its DiskReader.cpp, and the wires between   *)
(* them, connectors/StackChannel_To_DiskController.cpp.                    *)
(*                                                                         *)
(* The program commands the cards by OUT and INP; a card that answers      *)
(* another one raises a ScheduledSignal, which is an event of its own and  *)
(* is LOW again 100 ns later.  The falls of T2, where the program's        *)
(* commands reach the cards, and of T3 are more than 1 us from each other, *)
(* so they find these signals LOW.                                         *)
(***************************************************************************)
EXTENDS Naturals

CONSTANTS
  MemorySize,   (* configuration.memory_size: 256                           *)
  TrackCount,   (* 10                                                       *)
  SectorCount,  (* 32, the 5 bits of the command                            *)
  ByteCount,    (* 256: the data provider takes its index on 8 bits         *)
  Counts,       (* the values the program gives to the counter              *)
  FromProgram,  (* a byte that the program pushed                           *)
  Zero          (* a byte of the memory at power on                         *)

ASSUME SizesAssumption ==
  /\ MemorySize \in Nat \ {0}
  /\ TrackCount \in Nat \ {0}
  /\ SectorCount \in Nat \ {0}
  /\ ByteCount \in Nat \ {0}
  /\ Counts \subseteq Nat

VARIABLES
  (* StackChannelCard *)
  data, data_pointer, data_counter,
  current_pointer_address,   (* wired to received_pointer_value of the disk *)
  transfer_allowed,          (* wired to start_data_transfer of the disk *)
  end_of_transfer,           (* wired to stop_data_transfer of the disk  *)
  (* DiskControllerCard *)
  direction,
  output_data,
  pointer_value_to_send,
  counter_value,
  sending_to_channel,        (* status.reading is always the same        *)
  card_status,
  step, dir,
  track, sector, index_in_sector,     (* DiskReader *)
  pulse                      (* the state of each ScheduledSignal        *)

channel == <<data, data_pointer, data_counter, current_pointer_address,
             transfer_allowed, end_of_transfer>>
reader == <<track, sector, index_in_sector>>
disk == <<direction, output_data, pointer_value_to_send, counter_value,
          sending_to_channel, card_status, step, dir, reader>>
vars == <<channel, disk, pulse>>

Slot == 0 .. MemorySize - 1
Track == 0 .. TrackCount - 1
Sector == 0 .. SectorCount - 1
Index == 0 .. ByteCount - 1

(* A byte is where it comes from: the disk, the program or the power on. *)
ByteAt(t, s, i) == [track |-> t, sector |-> s, index |-> i]
Byte == [track : Track, sector : Sector, index : Index] \cup {FromProgram, Zero}

Signals == {"available_data", "change_pointer", "change_counter"}
Launch(signal) == pulse' = [pulse EXCEPT ![signal] = "launched"]
Quiet == \A signal \in Signals : pulse[signal] = "idle"

Status(t, sending) == [track_00 |-> t = 0, transferring |-> sending]

Init ==
  /\ data = [slot \in Slot |-> Zero]
  /\ data_pointer = 0
  /\ data_counter = 0
  /\ current_pointer_address = 0
  /\ transfer_allowed = FALSE
  /\ end_of_transfer = FALSE
  /\ direction = FALSE
  /\ output_data = Zero
  /\ pointer_value_to_send = 0
  /\ counter_value = 0
  /\ sending_to_channel = FALSE
  /\ card_status = [track_00 |-> FALSE, transferring |-> FALSE]
  /\ step = FALSE
  /\ dir = FALSE
  /\ track = 0
  /\ sector = 0
  /\ index_in_sector = 0
  /\ pulse = [signal \in Signals |-> "idle"]

-----------------------------------------------------------------------------
(* StackChannelCard *)

(* set_new_pointer *)
SetNewPointer(pointer) ==
  /\ data_pointer' = pointer
  /\ current_pointer_address' = pointer

(* Mutant: the pointer is not output. *)
PushDataSilently(byte) ==
  /\ data' = [data EXCEPT ![data_pointer] = byte]
  /\ data_pointer' = (data_pointer + 1) % MemorySize
  /\ UNCHANGED current_pointer_address

(* push_data *)
PushData(byte) ==
  /\ data' = [data EXCEPT ![data_pointer] = byte]
  /\ SetNewPointer((data_pointer + 1) % MemorySize)

(* Mutant: the pointer does not wrap. *)
PopPointerNoWrap == data_pointer - 1

(* pop_data *)
PopPointer == IF data_pointer > 0 THEN data_pointer - 1 ELSE MemorySize - 1

(* Mutant: the rest of the transfer is not abandoned. *)
StopTransferOnly ==
  /\ transfer_allowed' = FALSE
  /\ UNCHANGED data_counter

(* data_counter = 0 and stop_transfer_state *)
StopTransfer ==
  /\ data_counter' = 0
  /\ transfer_allowed' = FALSE

(* push_data_from_bus, the OUT of the channel *)
PushFromBus ==
  /\ Quiet
  /\ StopTransfer
  /\ PushData(FromProgram)
  /\ UNCHANGED <<end_of_transfer, disk, pulse>>

(* pop_data_to_bus, the INP of the channel *)
PopToBus ==
  /\ Quiet
  /\ StopTransfer
  /\ SetNewPointer(PopPointer)
  /\ UNCHANGED <<data, end_of_transfer, disk, pulse>>

(* Mutant: the end is signalled one byte too soon. *)
EndSignalEarly(left) == left <= 1

EndSignal(left) == left = 0

(* Mutant: transfer_allowed stays high. *)
DataTransferHeld ==
  IF data_counter = 0
  THEN UNCHANGED channel
  ELSE /\ data_counter' = data_counter - 1
       /\ IF direction
          THEN PushData(output_data)
          ELSE UNCHANGED <<data, data_pointer, current_pointer_address>>
       /\ end_of_transfer' = EndSignal(data_counter - 1)
       /\ UNCHANGED transfer_allowed

(* on_data_transfer: nothing is stored unless the disk has been activated. *)
DataTransfer ==
  IF data_counter = 0
  THEN UNCHANGED channel
  ELSE /\ data_counter' = data_counter - 1
       /\ IF direction
          THEN PushData(output_data)
          ELSE UNCHANGED <<data, data_pointer, current_pointer_address>>
       /\ transfer_allowed' = FALSE
       /\ end_of_transfer' = EndSignal(data_counter - 1)

-----------------------------------------------------------------------------
(* DiskControllerCard *)

(* on_set_pointer *)
SetPointer(value) ==
  /\ Quiet
  /\ pointer_value_to_send' = value
  /\ Launch("change_pointer")
  /\ UNCHANGED <<channel, direction, output_data, counter_value, sending_to_channel,
                 card_status, step, dir, reader>>

(* on_set_counter *)
SetCounter(value) ==
  /\ Quiet
  /\ counter_value' = value
  /\ Launch("change_counter")
  /\ UNCHANGED <<channel, direction, output_data, pointer_value_to_send,
                 sending_to_channel, card_status, step, dir, reader>>

(* on_activate *)
Activate ==
  /\ Quiet
  /\ direction' = TRUE
  /\ card_status' = Status(track, sending_to_channel)
  /\ UNCHANGED <<channel, output_data, pointer_value_to_send, counter_value,
                 sending_to_channel, step, dir, reader, pulse>>

(* seek_sector *)
IndexAfterSeek(s) == IF s = sector THEN index_in_sector ELSE 0

(* on_step, when the step signal falls, with the direction of the command before. *)
TrackAfterStep(signal_for_step) ==
  IF step /\ ~signal_for_step
  THEN (IF dir THEN track + 1 ELSE track + TrackCount - 1) % TrackCount
  ELSE track

(* on_command *)
Command(s, signal_for_step, dir_status) ==
  /\ Quiet
  /\ sector' = s
  /\ index_in_sector' = IndexAfterSeek(s)
  /\ track' = TrackAfterStep(signal_for_step)
  /\ step' = signal_for_step
  /\ dir' = dir_status
  /\ card_status' = Status(track', sending_to_channel)
  /\ UNCHANGED <<channel, direction, output_data, pointer_value_to_send, counter_value,
                 sending_to_channel, pulse>>

(* on_transfer_enabled: the disk reads a byte and offers it. *)
TransferEnabled ==
  /\ output_data' = ByteAt(track, sector, index_in_sector)
  /\ index_in_sector' = (index_in_sector + 1) % ByteCount
  /\ Launch("available_data")
  /\ sending_to_channel' = TRUE
  /\ card_status' = Status(track, TRUE)
  /\ UNCHANGED <<direction, pointer_value_to_send, counter_value, step, dir, track, sector>>

(* on_end_of_transfer, on the rise of end_of_transfer. *)
EndOfTransfer ==
  /\ IF end_of_transfer' /\ ~end_of_transfer /\ sending_to_channel
     THEN /\ sending_to_channel' = FALSE
          /\ card_status' = Status(track, FALSE)
     ELSE UNCHANGED <<sending_to_channel, card_status>>
  /\ UNCHANGED <<direction, output_data, pointer_value_to_send, counter_value, step, dir,
                 reader>>

-----------------------------------------------------------------------------
(* T3 falls at the end of every cycle of the CPU: StackChannelCard::on_t3.  *)
T3Falls ==
  /\ Quiet
  /\ data_counter > 0
  /\ ~transfer_allowed
  /\ transfer_allowed' = TRUE
  /\ TransferEnabled
  /\ UNCHANGED <<data, data_pointer, data_counter, current_pointer_address, end_of_transfer>>

Raises(signal) ==
  /\ pulse[signal] = "launched"
  /\ pulse' = [pulse EXCEPT ![signal] = "high"]

AvailableData ==
  /\ Raises("available_data")
  /\ DataTransfer
  /\ EndOfTransfer

(* on_apply_pointer_address, then on_apply_pointer *)
ChangePointer ==
  /\ Raises("change_pointer")
  /\ data_pointer' = pointer_value_to_send
  /\ StopTransfer
  /\ UNCHANGED <<data, current_pointer_address, end_of_transfer, disk>>

(* on_apply_counter, in Channel mode: one byte more than what is asked. *)
ChangeCounter ==
  /\ Raises("change_counter")
  /\ data_counter' = counter_value + 1
  /\ UNCHANGED <<data, data_pointer, current_pointer_address, transfer_allowed,
                 end_of_transfer, disk>>

PulseEnds ==
  /\ \E signal \in Signals :
       /\ pulse[signal] = "high"
       /\ pulse' = [pulse EXCEPT ![signal] = "idle"]
  /\ UNCHANGED <<channel, disk>>

Cards == T3Falls \/ AvailableData \/ ChangePointer \/ ChangeCounter \/ PulseEnds

Program ==
  \/ PushFromBus
  \/ PopToBus
  \/ \E value \in Slot : SetPointer(value)
  \/ \E value \in Counts : SetCounter(value)
  \/ Activate
  \/ \E s \in Sector, signal_for_step, dir_status \in BOOLEAN :
       Command(s, signal_for_step, dir_status)

Next == Cards \/ Program

Spec == Init /\ [][Next]_vars

(* The CPU runs cycle after cycle and the scheduler runs the signals. *)
FairSpec == Spec /\ WF_vars(Cards)
==============================================================================
