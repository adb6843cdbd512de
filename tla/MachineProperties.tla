--------------------------- MODULE MachineProperties ---------------------------
(***************************************************************************)
(* What Machine.tla and its parts are checked against.                     *)
(***************************************************************************)
EXTENDS Machine

-----------------------------------------------------------------------------
(* The memory as a flat array. *)

ReadOnly == {a \in Visited : \A card \in Addressed(a) : card.access = "ROM"}

Behind(a) ==
  IF Addressed(a) = {} THEN Empty
  ELSE LET card == Chosen(Addressed(a)) IN buffer[card][a - start_address(card)]

(* Every byte that the program can meet. *)
BytesMet ==
  {Empty} \cup WrittenBytes \cup {BootImage[i] : i \in DOMAIN BootImage}
    \cup {MonitorImage[i] : i \in DOMAIN MonitorImage}

Flat == INSTANCE FlatMemory WITH
  Addresses <- Visited,
  Byte <- BytesMet,
  read_only <- ReadOnly,
  boot_rom <- IF rom_config = "MICRAL_N" THEN masked_rom ELSE <<>>,
  bytes <- [a \in Visited |-> Behind(a)],
  booting <- page_0 = "masked_rom"

(* The cards, each with its mask, its pages and its ROM, are one flat       *)
(* memory behind the boot ROM: a byte written while the ROM hides it is     *)
(* there once it does not, the ROM never comes back, and only a RST 0       *)
(* fetched on the MD bus (by the switches of the console too) removes it,   *)
(* not one read as data. *)
ImplementsFlatMemory == Flat!Spec

(* At every address exactly one card answers, or none where none is         *)
(* installed, or the MD bus would throw; and the windows are shown what the *)
(* processor would read there.  An I/O address selects at most one card,    *)
(* and the serial line's never makes an input of a terminal that its card   *)
(* drives, nor an output of one that it reads (assertions of IOCard).       *)
OneCardAnswers ==
  /\ subject = "memory" => \A a \in Addresses :
       /\ Cardinality(Addressed(a)) <= 1
       /\ Addressed(a) = {} => view_get(a) = Empty
       /\ \A card \in Addressed(a) : view_get(a) = read_data(card, a)
  /\ io_address # 0 =>
       /\ Cardinality(IOSelected(io_address)) <= 1
       /\ "serial" \in IOSelected(io_address) =>
            IF is_io_input_address(io_address)
            THEN InputTerminal(serial_mode, serial_selection, io_address)
                   < first_owned_terminal(serial_mode)
            ELSE OutputTerminal(serial_mode, io_address)
                   \in first_owned_terminal(serial_mode) .. 7

-----------------------------------------------------------------------------
(* The bytes that the CPU fetches for an instruction: one for each cycle    *)
(* that takes its address in PC. *)
BytesFetched(opcode) ==
  IF Decoding[opcode].name = "UNKNOWN" THEN 1
  ELSE LET cycles == instruction_table[Decoding[opcode].name]
       IN Cardinality({i \in DOMAIN cycles : cycles[i].address = "PC"})

(* What InterruptController.cpp looks for on the bus. *)
NameAtController(opcode) ==
  CASE opcode = 210 -> "MAS" [] opcode = 246 -> "DMS" [] opcode = 31 -> "REI"
    [] OTHER -> "none"

(* The walk never passes the end of the file nor its 16-bit addresses, and  *)
(* the lines follow one another without a gap; each has the bytes that the  *)
(* CPU fetches.                                                             *)
LinesFollow ==
  /\ walk_address <= Len(file)
  /\ walk_address < AddressSpan
  /\ listing = <<>> => walk_address = 0
  /\ listing # <<>> =>
       LET last == listing[Len(listing)]
           opcode == ByteOf(last.address)
       IN
       /\ walk_address = last.address + last.size
       /\ last.address = (IF Len(listing) = 1 THEN 0
                          ELSE listing[Len(listing) - 1].address + listing[Len(listing) - 1].size)
       /\ IF last.address + BytesFetched(opcode) <= Len(file)
          THEN last.size = BytesFetched(opcode)
          ELSE last.size = 1 /\ last.mnemonic = "???"
       /\ \A name \in {"MAS", "DMS", "REI"} :
            last.mnemonic = name <=> NameAtController(opcode) = name
       /\ last.mnemonic = "INP" => last.operand = InputGroup((opcode % 64) * 256)
       /\ last.mnemonic = "OUT" => last.operand = OutputPort((opcode % 64) * 256)

(* The lines of the listing follow one another without a gap and never pass *)
(* the end of the file; each holds the bytes that the CPU fetches for the   *)
(* instruction, unless they are missing, and names the instructions of the  *)
(* interrupt controller, and the port of an I/O cycle, as those cards       *)
(* decode them. A file shorter than the span of the addresses (64 KiB) is   *)
(* listed to its end; in a longer one the walk stops for ever at the line   *)
(* that reaches the last address, and never lists the first bytes again.    *)
ListsWhatIsFetched ==
  /\ LinesFollow
  /\ Len(file) < AddressSpan /\ walk_address < Len(file) => LineEnds

-----------------------------------------------------------------------------
Signed(byte) == IF byte < 128 THEN byte ELSE byte - 256

(* The sum of the first n bytes of data in a sector that has been read, one *)
(* more at each step where the signed sum does not fit. *)
SumsOf(bytes) ==
  LET sum[n \in 0 .. sector_size] ==
        IF n = 0 THEN 0
        ELSE LET byte == Signed(bytes[n + 2])
                 before == Signed(sum[n - 1])
             IN (byte + before + (IF byte + before \in -128 .. 127 THEN 0 ELSE 1)) % 256
  IN sum

(* The last byte of a sector is the sum of the bytes that were given before *)
(* it, with the carries that the program adds as it reads them: also in the *)
(* sector where the image ends, and in those after it. *)
ChecksumOfWhatIsRead ==
  Len(read) = sector_size + 3 =>
    /\ SubSeq(read, 1, 2) = <<255, 254>>
    /\ read[sector_size + 3] = SumsOf(read)[sector_size]
===============================================================================
