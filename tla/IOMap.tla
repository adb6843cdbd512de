-------------------------------- MODULE IOMap --------------------------------
(***************************************************************************)
(* The inputs and outputs: how the cards installed by                      *)
(* emulator/src/Simulator.cpp decode the 14 bits of the address in an I/O  *)
(* cycle, whose high bits are the opcode and low byte the accumulator.     *)
(***************************************************************************)
EXTENDS Integers

(* The weight of each bit of an address. *)
Weight == [bit \in 0 .. 14 |->
  <<1, 2, 4, 8, 16, 32, 64, 128, 256, 512, 1024, 2048, 4096, 8192, 16384>>[bit + 1]]

(* Bits first to last of a number. *)
Bits(n, first, last) == (n \div Weight[first]) % Weight[last - first + 1]

is_io_input_address(address) == Bits(address, 12, 13) = 0

InputGroup(address) == Bits(address, 9, 11)
OutputPort(address) == (Bits(address, 9, 13) + 248) % 256   (* - 8, on 8 bits *)

(* IOCard::is_addressed. *)
IOCardAddressed(mode, selection, address) ==
  CASE mode = "Input_32_Output_32" ->
         IF is_io_input_address(address)
         THEN InputGroup(address) = 0 /\ Bits(address, 2, 2) = selection % 2
         ELSE Bits(address, 11, 13) = Bits(selection, 5, 7)
    [] mode = "Input_64" ->
         Bits(address, 9, 11) * 32 + Bits(address, 3, 7) = selection
    [] mode = "Output_64" -> Bits(address, 12, 13) * 64 = selection

(* address_to_output_number and send_to_peripheral: the terminal that an    *)
(* output drives, and the one that an input reads.                          *)
OutputTerminal(mode, address) ==
  IF mode = "Input_32_Output_32" THEN Bits(address, 9, 10) + 4 ELSE Bits(address, 9, 11)

InputTerminal(mode, selection, address) ==
  IF mode = "Input_32_Output_32" /\ selection % 2 = 1
  THEN (Bits(address, 0, 2) + 252) % 256
  ELSE Bits(address, 0, 2)

first_owned_terminal(mode) ==
  CASE mode = "Input_32_Output_32" -> 4
    [] mode = "Input_64" -> 8
    [] mode = "Output_64" -> 0

(* Mutant: the disk answers both addresses under its own on the input group. *)
DiskFourBytes(selection, address) ==
  IF is_io_input_address(address)
  THEN InputGroup(address) = 0 /\ Bits(address, 0, 7) >= 248
  ELSE Bits(address, 11, 13) = Bits(selection, 5, 7)

(* DiskControllerCard::is_addressed. *)
DiskAddressed(selection, address) ==
  IF is_io_input_address(address)
  THEN InputGroup(address) = 0 /\ Bits(address, 0, 7) \in {254, 255}
  ELSE Bits(address, 11, 13) = Bits(selection, 5, 7)

(* StackChannelCard::is_addressed. *)
StackChannelAddressed(input, output, address) ==
  IF is_io_input_address(address)
  THEN InputGroup(address) = input
  ELSE OutputPort(address) = output

-----------------------------------------------------------------------------
(* The cards of the Simulator that an address of an I/O cycle selects. *)
serial_mode == "Input_32_Output_32"
serial_selection == 64
disk_selection == 161

IOCards == {"serial", "disk", "channel_5", "stack_6"}

IOAnswers(card, address) ==
  CASE card = "serial" -> IOCardAddressed(serial_mode, serial_selection, address)
    [] card = "disk" -> DiskAddressed(disk_selection, address)
    [] card = "channel_5" -> StackChannelAddressed(5, 21, address)
    [] card = "stack_6" -> StackChannelAddressed(6, 22, address)

IOSelected(address) == {card \in IOCards : IOAnswers(card, address)}
===============================================================================
