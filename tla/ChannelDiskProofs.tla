-------------------------- MODULE ChannelDiskProofs --------------------------
(***************************************************************************)
(* Proofs that the two cards of ChannelDisk.tla copy a sector as           *)
(* SectorCopy.tla says, for every size of the memory and of the disk and   *)
(* every count.                                                            *)
(***************************************************************************)
EXTENDS ChannelDiskProperties, TLAPS

(* The commands of the program, which wait for T2, and the handshake, which *)
(* waits for T3, never have two pulses on the wires at once.                *)
OnePulse ==
  \A a, b \in Signals : pulse[a] # "idle" /\ pulse[b] # "idle" => a = b

(* The byte in flight is the one the head has just left, and it is counted. *)
CountedInFlight ==
  InFlight =>
    /\ data_counter > 0
    /\ \E i \in Index :
         /\ output_data = ByteAt(track, sector, i)
         /\ index_in_sector = (i + 1) % ByteCount

(* current_pointer_address is behind the pointer only after a LOAD. *)
LateAfterLoad ==
  /\ pulse["change_pointer"] # "launched"
  /\ current_pointer_address /= data_pointer
  => data_pointer = pointer_value_to_send

(* The counter that is applied is one that the program gave. *)
CountIsGiven == pulse["change_counter"] = "launched" => counter_value \in Counts

(* The status that the program polls is the one of the card. *)
StatusIsKnown == card_status.transferring = sending_to_channel

(* The inductive invariant. *)
IInv ==
  /\ TypeOK
  /\ OnePulse
  /\ CountedInFlight
  /\ LateAfterLoad
  /\ CountIsGiven
  /\ StatusIsKnown

-----------------------------------------------------------------------------
(* A remainder is below its divisor: pointers and indexes stay in range. *)
LEMMA RemainderInRange ==
  ASSUME NEW a \in Nat, NEW b \in Nat \ {0}
  PROVE  a % b \in 0 .. b - 1
OBVIOUS

(* The pointer of push_data and of pop_data stays in the memory. *)
LEMMA PointerInRange ==
  ASSUME SizesAssumption, data_pointer \in Slot
  PROVE  /\ (data_pointer + 1) % MemorySize \in Slot
         /\ PopPointer \in Slot
<1>1. data_pointer + 1 \in Nat /\ MemorySize \in Nat \ {0}
  BY DEF SizesAssumption, Slot
<1>2. (data_pointer + 1) % MemorySize \in Slot
  BY <1>1, RemainderInRange DEF Slot
<1>3. PopPointer \in Slot
  BY <1>1 DEF Slot, PopPointer
<1> QED
  BY <1>2, <1>3

(* The index of read_data stays in the sector. *)
LEMMA IndexInRange ==
  ASSUME SizesAssumption, NEW i \in Index
  PROVE  (i + 1) % ByteCount \in Index
<1>1. i + 1 \in Nat /\ ByteCount \in Nat \ {0}
  BY DEF SizesAssumption, Index
<1> QED
  BY <1>1, RemainderInRange DEF Index

(* The track of step_track stays on the disk. *)
LEMMA TrackInRange ==
  ASSUME SizesAssumption, track \in Track, dir \in BOOLEAN, NEW signal_for_step \in BOOLEAN
  PROVE  TrackAfterStep(signal_for_step) \in Track
<1>1. /\ track + 1 \in Nat
      /\ track + TrackCount - 1 \in Nat
      /\ TrackCount \in Nat \ {0}
  BY DEF SizesAssumption, Track
<1>2. (track + 1) % TrackCount \in Track /\ (track + TrackCount - 1) % TrackCount \in Track
  BY <1>1, RemainderInRange DEF Track
<1> QED
  BY <1>2 DEF TrackAfterStep

-----------------------------------------------------------------------------
(* The parts of the type invariant. *)
ChannelTyped ==
  /\ data \in [Slot -> Byte]
  /\ data_pointer \in Slot
  /\ data_counter \in Nat
  /\ data_counter > 0 => \E count \in Counts : data_counter <= count + 1
  /\ current_pointer_address \in Slot
  /\ transfer_allowed \in BOOLEAN
  /\ end_of_transfer \in BOOLEAN

DiskTyped ==
  /\ direction \in BOOLEAN
  /\ output_data \in Byte
  /\ pointer_value_to_send \in Slot
  /\ counter_value \in Counts \cup {0}
  /\ sending_to_channel \in BOOLEAN
  /\ step \in BOOLEAN
  /\ dir \in BOOLEAN
  /\ track \in Track
  /\ sector \in Sector
  /\ index_in_sector \in Index

StatusTyped == card_status \in [track_00 : BOOLEAN, transferring : BOOLEAN]

PulseTyped == pulse \in [Signals -> {"idle", "launched", "high"}]

(* The type invariant is these parts ... *)
LEMMA TypeParts == TypeOK <=> ChannelTyped /\ DiskTyped /\ StatusTyped /\ PulseTyped
BY DEF TypeOK, ChannelTyped, DiskTyped, StatusTyped, PulseTyped

(* ... and with the others they make the invariant after a step. *)
LEMMA IInvParts ==
  ASSUME ChannelTyped', DiskTyped', StatusTyped', PulseTyped',
         OnePulse', CountedInFlight', LateAfterLoad', CountIsGiven', StatusIsKnown'
  PROVE  IInv'
BY DEF IInv, TypeOK, ChannelTyped, DiskTyped, StatusTyped, PulseTyped

(* The status of update_card_status is one. *)
LEMMA StatusIsTyped ==
  ASSUME NEW t \in Track, NEW sending \in BOOLEAN
  PROVE  /\ Status(t, sending) \in [track_00 : BOOLEAN, transferring : BOOLEAN]
         /\ Status(t, sending).transferring = sending
BY DEF Status

(* The first state of the invariant. *)
LEMMA InitIInv == SizesAssumption /\ Init => IInv
<1> SUFFICES ASSUME SizesAssumption, Init PROVE IInv
  OBVIOUS
<1>1. 0 \in Slot /\ 0 \in Track /\ 0 \in Sector /\ 0 \in Index /\ Zero \in Byte
  BY DEF SizesAssumption, Slot, Track, Sector, Index, Byte
<1>2. ChannelTyped
  <2>1. data \in [Slot -> Byte]
    BY <1>1 DEF Init
  <2>2. data_pointer \in Slot /\ current_pointer_address \in Slot
    BY <1>1 DEF Init
  <2>3. data_counter \in Nat /\ ~(data_counter > 0)
    BY DEF Init
  <2>4. transfer_allowed \in BOOLEAN /\ end_of_transfer \in BOOLEAN
    BY DEF Init
  <2> QED
    BY <2>1, <2>2, <2>3, <2>4 DEF ChannelTyped
<1>3. DiskTyped
  BY <1>1 DEF Init, DiskTyped
<1>4. StatusTyped /\ StatusIsKnown
  BY DEF Init, StatusTyped, StatusIsKnown
<1>5. PulseTyped
  BY DEF Init, PulseTyped
<1>6. \A signal \in Signals : pulse[signal] = "idle"
  BY DEF Init
<1>7. OnePulse /\ CountIsGiven /\ ~InFlight
  BY <1>6 DEF OnePulse, CountIsGiven, InFlight, Signals
<1>8. LateAfterLoad
  BY DEF Init, LateAfterLoad
<1> QED
  BY <1>2, <1>3, <1>4, <1>5, <1>7, <1>8, TypeParts DEF IInv, CountedInFlight

-----------------------------------------------------------------------------
(* A step that leaves the card unchanged leaves its types. *)
LEMMA ChannelKeepsTypes == ChannelTyped /\ UNCHANGED channel => ChannelTyped'
BY DEF ChannelTyped, channel

(* The same of the disk. *)
LEMMA DiskKeepsTypes ==
  DiskTyped /\ UNCHANGED <<direction, output_data, pointer_value_to_send, counter_value,
                           sending_to_channel, step, dir, reader>> => DiskTyped'
BY DEF DiskTyped, reader

(* A push stores a byte and outputs the pointer after it. *)
LEMMA PushKeepsTypes ==
  ASSUME SizesAssumption, data \in [Slot -> Byte], data_pointer \in Slot,
         NEW byte \in Byte, PushData(byte)
  PROVE  /\ data' \in [Slot -> Byte]
         /\ data_pointer' \in Slot
         /\ current_pointer_address' = data_pointer'
BY PointerInRange DEF PushData, SetNewPointer

(* A pulse begins when all are quiet ... *)
LEMMA LaunchKeepsOnePulse ==
  ASSUME PulseTyped, Quiet, NEW signal \in Signals, Launch(signal)
  PROVE  /\ PulseTyped'
         /\ OnePulse'
         /\ pulse'[signal] = "launched"
         /\ \A other \in Signals \ {signal} : pulse'[other] = "idle"
BY DEF PulseTyped, Quiet, Launch, OnePulse

(* ... it is raised while the others are quiet ... *)
LEMMA RaiseKeepsOnePulse ==
  ASSUME PulseTyped, OnePulse, NEW signal \in Signals, Raises(signal)
  PROVE  /\ PulseTyped'
         /\ OnePulse'
         /\ \A other \in Signals : pulse'[other] # "launched"
         /\ \A other \in Signals \ {signal} : pulse[other] = "idle"
<1>1. pulse' = [pulse EXCEPT ![signal] = "high"] /\ pulse[signal] = "launched"
  BY DEF Raises
<1>2. \A other \in Signals \ {signal} : pulse[other] = "idle"
  BY <1>1 DEF OnePulse
<1> QED
  BY <1>1, <1>2 DEF PulseTyped, OnePulse

(* ... and its end leaves no new one. *)
LEMMA EndKeepsOnePulse ==
  ASSUME PulseTyped, OnePulse, NEW signal \in Signals, pulse[signal] = "high",
         pulse' = [pulse EXCEPT ![signal] = "idle"]
  PROVE  /\ PulseTyped'
         /\ OnePulse'
         /\ \A other \in Signals : pulse'[other] = "launched" <=> pulse[other] = "launched"
BY DEF PulseTyped, OnePulse

-----------------------------------------------------------------------------
(* The byte in flight stays the counted one where neither the reader, the   *)
(* counter nor the pulse of available_data moves.                           *)
LEMMA CountedInFlightKept ==
  ASSUME CountedInFlight, InFlight' => InFlight,
         UNCHANGED <<data_counter, output_data, reader>>
  PROVE  CountedInFlight'
BY DEF CountedInFlight, reader, ByteAt

(* Every step of the cards keeps the invariant and is a step of the copy.   *)
LEMMA CardsIInv ==
  ASSUME SizesAssumption, IInv, Cards
  PROVE  IInv' /\ [Copy!Next]_(Copy!vars)
<1>1. ChannelTyped /\ DiskTyped /\ StatusTyped /\ PulseTyped
  BY TypeParts DEF IInv
<1>2. OnePulse /\ CountedInFlight /\ LateAfterLoad /\ CountIsGiven /\ StatusIsKnown
  BY DEF IInv
<1>3. CASE T3Falls
  <2>1. Quiet /\ Launch("available_data") /\ UNCHANGED data_counter /\ data_counter > 0
    BY <1>3 DEF T3Falls, TransferEnabled
  <2>2. /\ PulseTyped' /\ OnePulse'
        /\ pulse'["available_data"] = "launched"
        /\ pulse'["change_pointer"] = "idle"
        /\ CountIsGiven'
    BY <1>1, <2>1, LaunchKeepsOnePulse DEF Signals, CountIsGiven
  <2>3. ChannelTyped'
    BY <1>1, <1>3 DEF ChannelTyped, T3Falls
  <2>4. ByteAt(track, sector, index_in_sector) \in Byte
    BY <1>1 DEF DiskTyped, ByteAt, Byte
  <2>5. DiskTyped'
    BY <1>1, <1>3, <2>4, IndexInRange DEF DiskTyped, T3Falls, TransferEnabled
  <2>6. StatusTyped' /\ StatusIsKnown'
    BY <1>1, <1>3, StatusIsTyped DEF StatusTyped, StatusIsKnown, DiskTyped, T3Falls,
       TransferEnabled
  <2>7. CountedInFlight'
    <3>1. index_in_sector \in Index
      BY <1>1 DEF DiskTyped
    <3>2. /\ output_data' = ByteAt(track', sector', index_in_sector)
          /\ index_in_sector' = (index_in_sector + 1) % ByteCount
      BY <1>3 DEF T3Falls, TransferEnabled
    <3> QED
      BY <2>1, <3>1, <3>2 DEF CountedInFlight, ByteAt
  <2>8. LateAfterLoad'
    BY <1>2, <1>3, <2>1 DEF LateAfterLoad, T3Falls, TransferEnabled, Quiet, Signals
  <2>9. UNCHANGED Copy!vars
    <3>1. ~InFlight /\ InFlight'
      BY <2>1, <2>2 DEF InFlight, Quiet, Signals
    <3>2. UNCHANGED <<data, data_pointer, data_counter, direction>>
      BY <1>3 DEF T3Falls, TransferEnabled
    <3>3. output_data' = [track |-> track, sector |-> sector, index |-> index_in_sector]
      BY <1>3 DEF T3Falls, TransferEnabled, ByteAt
    <3> QED
      BY <3>1, <3>2, <3>3 DEF Copy!vars
  <2>10. IInv'
    BY <2>2, <2>3, <2>5, <2>6, <2>7, <2>8, IInvParts
  <2> QED
    BY <2>9, <2>10
<1>4. CASE AvailableData
  <2>1. Raises("available_data") /\ InFlight /\ data_counter > 0
    BY <1>2, <1>4 DEF AvailableData, Raises, InFlight, CountedInFlight
  <2>2. PulseTyped' /\ OnePulse' /\ CountIsGiven' /\ ~InFlight' /\ pulse["change_pointer"] = "idle"
    BY <1>1, <1>2, <2>1, RaiseKeepsOnePulse DEF Signals, InFlight, CountIsGiven
  <2>3. /\ data_counter' = data_counter - 1
        /\ transfer_allowed' = FALSE
        /\ end_of_transfer' \in BOOLEAN
        /\ IF direction THEN PushData(output_data)
                        ELSE UNCHANGED <<data, data_pointer, current_pointer_address>>
    <3>1. DataTransfer /\ data_counter # 0
      BY <1>1, <1>4, <2>1 DEF AvailableData, ChannelTyped
    <3> QED
      BY <3>1, Zenon DEF DataTransfer, EndSignal
  <2>4. /\ data' \in [Slot -> Byte]
        /\ data_pointer' \in Slot
        /\ current_pointer_address' \in Slot
    BY <1>1, <2>3, PushKeepsTypes DEF ChannelTyped, DiskTyped
  <2>5. ChannelTyped'
    <3>1. data_counter \in Nat /\ \E count \in Counts : data_counter <= count + 1
      BY <1>1, <2>1 DEF ChannelTyped
    <3>2. data_counter' \in Nat /\ \E count \in Counts : data_counter' <= count + 1
      BY <2>1, <2>3, <3>1 DEF SizesAssumption
    <3> QED
      BY <2>3, <2>4, <3>2 DEF ChannelTyped
  <2>6. /\ UNCHANGED <<direction, output_data, pointer_value_to_send, counter_value, step,
                       dir, reader>>
        /\ sending_to_channel' \in BOOLEAN
    BY <1>1, <1>4 DEF AvailableData, EndOfTransfer, DiskTyped
  <2>7. DiskTyped'
    BY <1>1, <2>6 DEF DiskTyped, reader
  <2>8. StatusTyped' /\ StatusIsKnown'
    BY <1>1, <1>2, <1>4, StatusIsTyped DEF AvailableData, EndOfTransfer, StatusTyped,
       StatusIsKnown, DiskTyped
  <2>9. LateAfterLoad'
    <3>1. CASE direction
      BY <2>3, <3>1 DEF PushData, SetNewPointer, LateAfterLoad
    <3>2. CASE ~direction
      BY <1>2, <2>2, <2>3, <2>6, <3>2 DEF LateAfterLoad
    <3> QED
      BY <1>1, <3>1, <3>2 DEF DiskTyped
  <2>10. Copy!CopyByte
    <3>1. PICK i \in Index : /\ output_data = ByteAt(track, sector, i)
                             /\ index_in_sector = (i + 1) % ByteCount
      BY <1>2, <2>1 DEF CountedInFlight
    <3>2. [track |-> track', sector |-> sector', index |-> index_in_sector']
            = [output_data EXCEPT !.index = (@ + 1) % ByteCount]
      BY <2>6, <3>1 DEF ByteAt, reader
    <3>3. IF direction
          THEN Copy!Store(output_data)
          ELSE UNCHANGED <<data, data_pointer>>
      BY <2>3 DEF Copy!Store, PushData, SetNewPointer
    <3> QED
      BY <2>1, <2>2, <2>3, <2>6, <3>2, <3>3 DEF Copy!CopyByte, Copy!Store
  <2>11. CountedInFlight'
    BY <2>2 DEF CountedInFlight
  <2>12. IInv'
    BY <2>2, <2>5, <2>7, <2>8, <2>9, <2>11, IInvParts
  <2> QED
    BY <2>10, <2>12 DEF Copy!Next
<1>5. CASE ChangePointer
  <2>1. Raises("change_pointer") /\ data_pointer' = pointer_value_to_send
    BY <1>5 DEF ChangePointer
  <2>2. PulseTyped' /\ OnePulse' /\ CountIsGiven' /\ ~InFlight' /\ pulse["available_data"] = "idle"
    BY <1>1, <1>2, <2>1, RaiseKeepsOnePulse DEF Signals, InFlight, CountIsGiven
  <2>3. DiskTyped' /\ StatusTyped' /\ StatusIsKnown'
    BY <1>1, <1>2, <1>5 DEF ChangePointer, disk, reader, DiskTyped, StatusTyped, StatusIsKnown
  <2>4. ChannelTyped'
    <3>1. /\ UNCHANGED <<data, current_pointer_address, end_of_transfer>>
          /\ data_counter' = 0 /\ transfer_allowed' = FALSE
      BY <1>5 DEF ChangePointer, StopTransfer
    <3>2. data_pointer' \in Slot
      BY <1>1, <2>1 DEF DiskTyped
    <3>3. data_counter' \in Nat /\ ~(data_counter' > 0)
      BY <3>1
    <3>4. transfer_allowed' \in BOOLEAN
      BY <3>1
    <3> QED
      BY <1>1, <3>1, <3>2, <3>3, <3>4 DEF ChannelTyped
  <2>5. CountedInFlight'
    BY <2>2 DEF CountedInFlight
  <2>6. LateAfterLoad'
    BY <1>5, <2>1 DEF LateAfterLoad, ChangePointer, disk
  <2>7. Copy!Load(pointer_value_to_send)
    <3>1. ~InFlight
      BY <2>2 DEF InFlight
    <3> QED
      BY <1>5, <2>2, <3>1 DEF Copy!Load, ChangePointer, StopTransfer, disk, reader
  <2>8. Copy!Next
    BY <1>1, <2>7 DEF Copy!Next, DiskTyped, Slot
  <2>9. IInv'
    BY <2>2, <2>3, <2>4, <2>5, <2>6, IInvParts
  <2> QED
    BY <2>8, <2>9
<1>6. CASE ChangeCounter
  <2>1. Raises("change_counter") /\ data_counter' = counter_value + 1
    BY <1>6 DEF ChangeCounter
  <2>2. /\ PulseTyped' /\ OnePulse' /\ CountIsGiven' /\ ~InFlight' /\ pulse["available_data"] = "idle"
        /\ pulse["change_pointer"] = "idle"
    BY <1>1, <1>2, <2>1, RaiseKeepsOnePulse DEF Signals, InFlight, CountIsGiven
  <2>3. DiskTyped' /\ StatusTyped' /\ StatusIsKnown'
    BY <1>1, <1>2, <1>6 DEF ChangeCounter, disk, reader, DiskTyped, StatusTyped, StatusIsKnown
  <2>4. counter_value \in Counts
    BY <1>2, <2>1 DEF Raises, CountIsGiven
  <2>5. ChannelTyped'
    BY <1>1, <1>6, <2>1, <2>4 DEF ChangeCounter, ChannelTyped, SizesAssumption
  <2>6. CountedInFlight'
    BY <2>2 DEF CountedInFlight
  <2>7. LateAfterLoad'
    BY <1>2, <1>6, <2>2 DEF LateAfterLoad, ChangeCounter, disk
  <2>8. Copy!Count(counter_value)
    <3>1. ~InFlight
      BY <2>2 DEF InFlight
    <3> QED
      BY <1>6, <2>2, <3>1 DEF Copy!Count, ChangeCounter, disk, reader
  <2>9. Copy!Next
    BY <2>4, <2>8 DEF Copy!Next
  <2>10. IInv'
    BY <2>2, <2>3, <2>5, <2>6, <2>7, IInvParts
  <2> QED
    BY <2>9, <2>10
<1>7. CASE PulseEnds
  <2>1. PICK signal \in Signals : /\ pulse[signal] = "high"
                                  /\ pulse' = [pulse EXCEPT ![signal] = "idle"]
    BY <1>7 DEF PulseEnds
  <2>2. /\ PulseTyped' /\ OnePulse'
        /\ \A other \in Signals : pulse'[other] = "launched" <=> pulse[other] = "launched"
    BY <1>1, <1>2, <2>1, EndKeepsOnePulse
  <2>3. UNCHANGED <<channel, disk>>
    BY <1>7 DEF PulseEnds
  <2>4. InFlight' <=> InFlight
    BY <2>2 DEF InFlight, Signals
  <2>5. ChannelTyped' /\ DiskTyped' /\ StatusTyped' /\ StatusIsKnown'
    BY <1>1, <1>2, <2>3, ChannelKeepsTypes, DiskKeepsTypes DEF disk, StatusTyped, StatusIsKnown
  <2>6. CountedInFlight'
    BY <1>2, <2>3, <2>4, CountedInFlightKept DEF channel, disk
  <2>7. LateAfterLoad' /\ CountIsGiven'
    BY <1>2, <2>2, <2>3 DEF LateAfterLoad, CountIsGiven, channel, disk, Signals
  <2>8. UNCHANGED Copy!vars
    BY <2>3, <2>4 DEF Copy!vars, channel, disk, reader
  <2>9. IInv'
    BY <2>2, <2>5, <2>6, <2>7, IInvParts
  <2> QED
    BY <2>8, <2>9
<1> QED
  BY <1>3, <1>4, <1>5, <1>6, <1>7 DEF Cards

-----------------------------------------------------------------------------
(* A push or a pop of the program stops the transfer. *)
LEMMA PushAndPopIInv ==
  ASSUME SizesAssumption, IInv, PushFromBus \/ PopToBus
  PROVE  IInv' /\ Copy!Next
<1>1. ChannelTyped /\ DiskTyped /\ StatusTyped /\ PulseTyped
  BY TypeParts DEF IInv
<1>2. OnePulse /\ LateAfterLoad /\ CountIsGiven /\ StatusIsKnown
  BY DEF IInv
<1>3. /\ Quiet /\ UNCHANGED <<end_of_transfer, disk, pulse>>
      /\ data_counter' = 0 /\ transfer_allowed' = FALSE
  BY DEF PushFromBus, PopToBus, StopTransfer
<1>4. ~InFlight /\ ~InFlight'
  BY <1>3 DEF Quiet, InFlight, Signals
<1>5. PulseTyped' /\ OnePulse' /\ CountIsGiven' /\ CountedInFlight'
  BY <1>1, <1>2, <1>3, <1>4 DEF PulseTyped, OnePulse, CountIsGiven, CountedInFlight, disk
<1>6. DiskTyped' /\ StatusTyped' /\ StatusIsKnown'
  BY <1>1, <1>2, <1>3, DiskKeepsTypes DEF disk, StatusTyped, StatusIsKnown
<1>7. data_pointer \in Slot /\ data \in [Slot -> Byte] /\ FromProgram \in Byte
  BY <1>1 DEF ChannelTyped, Byte
<1>8. /\ data' \in [Slot -> Byte]
      /\ data_pointer' \in Slot
      /\ current_pointer_address' = data_pointer'
  <2>1. CASE PushFromBus
    BY <1>7, <2>1, PushKeepsTypes DEF PushFromBus
  <2>2. CASE PopToBus
    BY <1>7, <2>2, PointerInRange DEF PopToBus, SetNewPointer
  <2> QED
    BY <2>1, <2>2
<1>9. ChannelTyped'
  <2>1. data_counter' \in Nat /\ ~(data_counter' > 0)
    BY <1>3
  <2>2. transfer_allowed' \in BOOLEAN /\ end_of_transfer' \in BOOLEAN
    BY <1>1, <1>3 DEF ChannelTyped
  <2> QED
    BY <1>8, <2>1, <2>2 DEF ChannelTyped
<1>10. LateAfterLoad'
  BY <1>8 DEF LateAfterLoad
<1>11. Copy!Push \/ Copy!Pop
  <2>1. CASE PushFromBus
    <3>1. Copy!Store(FromProgram)
      BY <2>1 DEF PushFromBus, PushData, SetNewPointer, Copy!Store
    <3> QED
      BY <1>3, <1>4, <3>1 DEF Copy!Push, disk, reader
  <2>2. CASE PopToBus
    <3>1. data_pointer' = IF data_pointer = 0 THEN MemorySize - 1 ELSE data_pointer - 1
      BY <1>7, <2>2 DEF PopToBus, SetNewPointer, PopPointer, Slot, SizesAssumption
    <3> QED
      BY <1>3, <1>4, <2>2, <3>1 DEF Copy!Pop, PopToBus, disk, reader
  <2> QED
    BY <2>1, <2>2
<1> QED
  BY <1>5, <1>6, <1>9, <1>10, <1>11, IInvParts DEF Copy!Next

(* A command to the disk controller leaves the memory as it is. *)
LEMMA CommandsIInv ==
  ASSUME SizesAssumption, IInv,
         \/ \E value \in Slot : SetPointer(value)
         \/ \E value \in Counts : SetCounter(value)
         \/ Activate
         \/ \E s \in Sector, signal_for_step, dir_status \in BOOLEAN :
              Command(s, signal_for_step, dir_status)
  PROVE  IInv' /\ [Copy!Next]_(Copy!vars)
<1>1. ChannelTyped /\ DiskTyped /\ StatusTyped /\ PulseTyped
  BY TypeParts DEF IInv
<1>2. OnePulse /\ LateAfterLoad /\ CountIsGiven /\ StatusIsKnown
  BY DEF IInv
<1>3. Quiet /\ UNCHANGED channel
  BY DEF SetPointer, SetCounter, Activate, Command
<1>4. ChannelTyped' /\ ~InFlight /\ pulse["change_pointer"] = "idle"
  BY <1>1, <1>3, ChannelKeepsTypes DEF Quiet, InFlight, Signals
<1>5. ASSUME NEW value \in Slot, SetPointer(value)
      PROVE  IInv' /\ UNCHANGED Copy!vars
  <2>1. PulseTyped' /\ OnePulse' /\ ~InFlight' /\ CountIsGiven' /\ LateAfterLoad'
    <3>1. /\ PulseTyped' /\ OnePulse'
          /\ pulse'["change_pointer"] = "launched"
          /\ pulse'["available_data"] = "idle" /\ pulse'["change_counter"] = "idle"
      BY <1>1, <1>3, <1>5, LaunchKeepsOnePulse DEF SetPointer, Signals
    <3> QED
      BY <3>1 DEF InFlight, CountIsGiven, LateAfterLoad
  <2>2. DiskTyped' /\ StatusTyped' /\ StatusIsKnown'
    BY <1>1, <1>2, <1>5 DEF SetPointer, DiskTyped, StatusTyped, StatusIsKnown, reader
  <2>3. UNCHANGED Copy!vars
    BY <1>3, <1>4, <1>5, <2>1 DEF Copy!vars, SetPointer, channel, reader
  <2> QED
    BY <1>4, <2>1, <2>2, <2>3, IInvParts DEF CountedInFlight
<1>6. ASSUME NEW value \in Counts, SetCounter(value)
      PROVE  IInv' /\ UNCHANGED Copy!vars
  <2>1. /\ PulseTyped' /\ OnePulse'
        /\ pulse'["available_data"] = "idle" /\ pulse'["change_pointer"] = "idle"
    BY <1>1, <1>3, <1>6, LaunchKeepsOnePulse DEF SetCounter, Signals
  <2>2. ~InFlight' /\ CountIsGiven' /\ LateAfterLoad'
    BY <1>2, <1>3, <1>4, <1>6, <2>1
       DEF InFlight, CountIsGiven, LateAfterLoad, SetCounter, channel
  <2>3. DiskTyped' /\ StatusTyped' /\ StatusIsKnown'
    BY <1>1, <1>2, <1>6 DEF SetCounter, DiskTyped, StatusTyped, StatusIsKnown, reader
  <2>4. UNCHANGED Copy!vars
    BY <1>3, <1>4, <1>6, <2>2 DEF Copy!vars, SetCounter, channel, reader
  <2> QED
    BY <1>4, <2>1, <2>2, <2>3, <2>4, IInvParts DEF CountedInFlight
<1>7. ASSUME Activate PROVE IInv' /\ Copy!Next
  <2>1. /\ PulseTyped' /\ OnePulse' /\ ~InFlight' /\ CountIsGiven' /\ LateAfterLoad'
    BY <1>1, <1>2, <1>3, <1>4, <1>7
       DEF Activate, PulseTyped, OnePulse, InFlight, CountIsGiven, LateAfterLoad, channel
  <2>2. DiskTyped'
    BY <1>1, <1>7 DEF Activate, DiskTyped, reader
  <2>3. StatusTyped' /\ StatusIsKnown'
    BY <1>1, <1>7, StatusIsTyped DEF Activate, StatusTyped, StatusIsKnown, DiskTyped
  <2>4. Copy!Activate
    BY <1>3, <1>4, <1>7, <2>1 DEF Copy!Activate, Activate, channel, reader
  <2> QED
    BY <1>4, <2>1, <2>2, <2>3, <2>4, IInvParts DEF CountedInFlight, Copy!Next
<1>8. ASSUME NEW s \in Sector, NEW signal_for_step \in BOOLEAN, NEW dir_status \in BOOLEAN,
             Command(s, signal_for_step, dir_status)
      PROVE  IInv' /\ Copy!Next
  <2>1. PulseTyped' /\ OnePulse' /\ ~InFlight' /\ CountIsGiven' /\ LateAfterLoad'
    BY <1>1, <1>2, <1>3, <1>4, <1>8
       DEF Command, PulseTyped, OnePulse, InFlight, CountIsGiven, LateAfterLoad, channel
  <2>2. track' \in Track /\ IndexAfterSeek(s) \in Index
    BY <1>1, <1>8, TrackInRange
       DEF Command, DiskTyped, IndexAfterSeek, Index, SizesAssumption
  <2>3. DiskTyped'
    BY <1>1, <1>8, <2>2 DEF Command, DiskTyped
  <2>4. StatusTyped' /\ StatusIsKnown'
    BY <1>1, <1>8, <2>2, StatusIsTyped DEF Command, StatusTyped, StatusIsKnown, DiskTyped
  <2>5. Copy!Seek(track', s)
    BY <1>3, <1>4, <1>8, <2>1 DEF Copy!Seek, Command, IndexAfterSeek, channel
  <2>6. Copy!Next
    BY <2>2, <2>5 DEF Copy!Next, Track, Sector
  <2> QED
    BY <1>4, <2>1, <2>3, <2>4, <2>6, IInvParts DEF CountedInFlight
<1> QED
  BY <1>5, <1>6, <1>7, <1>8

(* Every step keeps the invariant and is a step of the copy, or none. *)
LEMMA NextIInv ==
  ASSUME SizesAssumption, IInv, [Next]_vars
  PROVE  IInv' /\ [Copy!Next]_(Copy!vars)
<1>1. CASE Cards
  BY <1>1, CardsIInv
<1>2. CASE Program
  BY <1>2, PushAndPopIInv, CommandsIInv DEF Program
<1>3. CASE UNCHANGED vars
  <2>1. UNCHANGED <<channel, disk, pulse>>
    BY <1>3 DEF vars
  <2>2. IInv'
    BY <2>1 DEF IInv, TypeOK, OnePulse, CountedInFlight, InFlight, LateAfterLoad,
       CountIsGiven, StatusIsKnown, channel, disk, reader
  <2>3. UNCHANGED Copy!vars
    BY <2>1 DEF Copy!vars, InFlight, channel, disk, reader
  <2> QED
    BY <2>2, <2>3
<1> QED
  BY <1>1, <1>2, <1>3 DEF Next

-----------------------------------------------------------------------------
(* The invariant of the two cards, for every size and every count. *)
THEOREM ChannelInvariant == Spec => []IInv
<1>1. Init => IInv
  BY InitIInv, SizesAssumption
<1>2. IInv /\ [Next]_vars => IInv'
  BY NextIInv, SizesAssumption
<1> QED
  BY <1>1, <1>2, PTL DEF Spec

(* The types: no pointer or index ever leaves its range, and no transfer is *)
(* longer than a count the program gave.                                    *)
THEOREM ChannelTypeOK == Spec => []TypeOK
<1>1. IInv => TypeOK
  BY DEF IInv
<1> QED
  BY <1>1, ChannelInvariant, PTL

(* The pointer that the program reads back is late only after a LOAD. *)
THEOREM ChannelPointerReadBack == Spec => []PointerReadBack
<1>1. IInv => PointerReadBack
  BY DEF IInv, LateAfterLoad, PointerReadBack, Quiet, Signals
<1> QED
  BY <1>1, ChannelInvariant, PTL

(* The handshake implements the copy of a sector: each byte once and in     *)
(* order, whatever the program does between two bytes.                      *)
THEOREM ChannelRefinement == Spec => ImplementsSectorCopy
<1>1. Init => Copy!Init
  BY DEF Init, Copy!Init, InFlight, Signals, Slot
<1>2. IInv /\ [Next]_vars => [Copy!Next]_(Copy!vars)
  BY NextIInv, SizesAssumption
<1> QED
  BY <1>1, <1>2, ChannelInvariant, PTL DEF Spec, ImplementsSectorCopy, Copy!Spec

(* Only a byte after which the counter is 0 clears the status, and the      *)
(* commands that output the status again output the same one.               *)
LEMMA EndStep ==
  ASSUME IInv, [Next]_vars, card_status.transferring, ~card_status'.transferring
  PROVE  data_counter' = 0
<1>1. /\ OnePulse /\ StatusIsKnown /\ CountedInFlight
      /\ track \in Track /\ sending_to_channel \in BOOLEAN
  BY DEF IInv, TypeOK
<1>2. sending_to_channel
  BY <1>1 DEF StatusIsKnown
<1>3. \A t : Status(t, sending_to_channel).transferring = sending_to_channel
  BY DEF Status
<1>4. card_status' # card_status
  OBVIOUS
<1>5. AvailableData
  <2>1. ~T3Falls
    <3>1. SUFFICES ASSUME T3Falls PROVE FALSE
      OBVIOUS
    <3>2. card_status' = Status(track, TRUE)
      BY <3>1 DEF T3Falls, TransferEnabled
    <3> QED
      BY <3>2 DEF Status
  <2>2. ~ChangePointer /\ ~ChangeCounter /\ ~PulseEnds /\ ~PushFromBus /\ ~PopToBus
    BY <1>4 DEF ChangePointer, ChangeCounter, PulseEnds, PushFromBus, PopToBus, disk
  <2>3. /\ \A value \in Slot : ~SetPointer(value)
        /\ \A value \in Counts : ~SetCounter(value)
    BY <1>4 DEF SetPointer, SetCounter
  <2>4. ~Activate
    BY <1>2, <1>3 DEF Activate
  <2>5. \A s \in Sector, signal_for_step, dir_status \in BOOLEAN :
          ~Command(s, signal_for_step, dir_status)
    BY <1>2, <1>3 DEF Command
  <2>6. ~UNCHANGED vars
    BY <1>4 DEF vars, disk
  <2> QED
    BY <2>1, <2>2, <2>3, <2>4, <2>5, <2>6 DEF Next, Cards, Program
<1>6. DataTransfer /\ end_of_transfer' /\ ~end_of_transfer
  BY <1>4, <1>5 DEF AvailableData, EndOfTransfer
<1>7. data_counter # 0
  BY <1>6 DEF DataTransfer, channel
<1>8. data_counter' = data_counter - 1 /\ data_counter - 1 = 0
  BY <1>6, <1>7 DEF DataTransfer, EndSignal
<1> QED
  BY <1>8

(* The disk does not say that a transfer is over before its last byte.      *)
THEOREM ChannelEndIsNotEarly == Spec => EndIsNotEarly
<1>1. IInv /\ [Next]_vars
        => [card_status.transferring /\ ~card_status'.transferring => data_counter' = 0]_vars
  BY EndStep
<1> QED
  BY <1>1, ChannelInvariant, PTL DEF Spec, EndIsNotEarly
==============================================================================
