----------------------------- MODULE Disassembler -----------------------------
(***************************************************************************)
(* i8008/src/Disassemble8008.cpp and the walk of disassembler/src/main.cpp *)
(* through a file: one line of text for each instruction, here its         *)
(* address, mnemonic, operand and size.                                    *)
(***************************************************************************)
EXTENDS Instructions8008, Integers

CONSTANTS
  Files,         (* the binary files                                         *)
  AddressSpan    (* 65536: the addresses of the walk are uint16_t            *)

ASSUME DisassemblerAssumption ==
  /\ Files \subseteq Seq(Opcode) \ {<<>>}
  /\ AddressSpan \in Nat \ {0}

VARIABLES
  file,
  walk_address,
  listing        (* the lines printed                                        *)

listing_vars == <<file, walk_address, listing>>

Line(mnemonic, operand, size) ==
  [address |-> walk_address, mnemonic |-> mnemonic, operand |-> operand, size |-> size]

NoOperand == -1
DECODING_ERROR == Line("???", NoOperand, 1)

(* RomView::get, whose argument is an uint16_t. *)
ByteOf(address) == file[(address % AddressSpan) + 1]

(* Mutant: an immediate written to memory has no operand. *)
ImmediatesButM == {"LrI", "ALU_OPI"}

Immediates == {"LrI", "LMI", "ALU_OPI"}

Jumps == {"JMP", "JFc", "JTc", "CAL", "CFc", "CTc"}

(* The three instructions of one byte that are shown by another name. *)
Renamed(decoded) ==
  CASE decoded.name = "RET" /\ decoded.medium = 3 -> "REI"
    [] decoded.name = "Lrr" /\ decoded.medium = 6 /\ decoded.low = 6 -> "DMS"
    [] decoded.name = "Lrr" /\ decoded.medium = 2 /\ decoded.low = 2 -> "MAS"
    [] OTHER -> decoded.name

ShortOperand(decoded, byte) ==
  CASE decoded.name = "RST" -> decoded.medium * 8
    [] decoded.name = "INP" -> (byte \div 2) % 8
    [] decoded.name = "OUT" -> ((byte \div 2) % 32) - 8
    [] OTHER -> NoOperand

(* Disassemble8008::get_extended, at the address of the walk. *)
get_extended ==
  LET byte == ByteOf(walk_address)
      decoded == Decoding[byte]
      Shown(operand, size) == Line(Renamed(decoded), operand, size)
      last == walk_address + 2
  IN
  CASE decoded.name = "UNKNOWN" -> DECODING_ERROR
    [] decoded.name \in Immediates ->
         IF walk_address + 1 >= Len(file) THEN DECODING_ERROR
         ELSE Shown(ByteOf(walk_address + 1), 2)
    [] decoded.name \in Jumps ->
         IF last >= Len(file) THEN DECODING_ERROR
         ELSE Shown(ByteOf(last) * 256 + ByteOf(last - 1), 3)
    [] OTHER -> Shown(ShortOperand(decoded, byte), 1)

ListingInit ==
  /\ file \in Files
  /\ walk_address = 0
  /\ listing = <<>>

(* Mutants: the count of the bytes is wider than the address; it stops one *)
(* byte too early. *)
LineAlwaysEnds == TRUE
LineEndsEarly == walk_address + get_extended.size + 1 < AddressSpan

(* OutputLine::get_bytes: an uint16_t counts up to the end of the line, and *)
(* has no end when the line reaches the last address or passes it.          *)
LineEnds == walk_address + get_extended.size < AddressSpan

(* One turn of the loop of disassemble_file. A line that does not end is    *)
(* the end of the walk: its bytes are gathered for ever.                    *)
PrintLine ==
  /\ walk_address < Len(file)
  /\ LineEnds
  /\ listing' = Append(listing, get_extended)
  /\ walk_address' = (walk_address + get_extended.size) % AddressSpan
  /\ UNCHANGED file
===============================================================================
