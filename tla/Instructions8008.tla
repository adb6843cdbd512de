--------------------------- MODULE Instructions8008 ---------------------------
(***************************************************************************)
(* i8008/src/Instructions8008.cpp: how the byte of an opcode is decoded,   *)
(* and what each instruction does in each T-state of its cycles.           *)
(***************************************************************************)
EXTENDS Naturals, Sequences

Opcode == 0 .. 255

(* The three parts of an opcode. *)
High(opcode) == opcode \div 64
Medium(opcode) == (opcode \div 8) % 8
Low(opcode) == opcode % 8

(* A row matches one high part, and the medium and low parts of two sets:  *)
(* those the mask and the value of the code let through.                   *)
Row(name, high, medium, low) ==
  [name |-> name, high |-> high, medium |-> medium, low |-> low]

Any == 0 .. 7
Below4 == 0 .. 3        (* 0b100'000 *)
From4 == 4 .. 7         (* 0b100'100 *)

decoding_table == <<
  Row("HLT", 0, {0}, {0, 1}),
  Row("HLT", 3, {7}, {7}),
  Row("LrM", 3, Any, {7}),
  Row("LMr", 3, {7}, Any),
  Row("Lrr", 3, Any, Any),
  Row("LMI", 0, {7}, {6}),
  Row("LrI", 0, Any, {6}),
  Row("UNKNOWN", 0, {7}, {0}),
  Row("UNKNOWN", 0, {7}, {1}),
  Row("INr", 0, Any, {0}),
  Row("DCr", 0, Any, {1}),
  Row("ALU_OPM", 2, Any, {7}),
  Row("ALU_OPr", 2, Any, Any),
  Row("ALU_OPI", 0, Any, {4}),
  Row("RLC", 0, {0}, {2}),
  Row("RRC", 0, {1}, {2}),
  Row("RAL", 0, {2}, {2}),
  Row("RAR", 0, {3}, {2}),
  Row("JMP", 1, Any, {4}),
  Row("JFc", 1, Below4, {0}),
  Row("JTc", 1, From4, {0}),
  Row("CAL", 1, Any, {6}),
  Row("CFc", 1, Below4, {2}),
  Row("CTc", 1, From4, {2}),
  Row("RET", 0, Any, {7}),
  Row("RFc", 0, Below4, {3}),
  Row("RTc", 0, From4, {3}),
  Row("RST", 0, Any, {5}),
  Row("INP", 1, {0, 1}, {1, 3, 5, 7}),
  Row("OUT", 1, Any, {1, 3, 5, 7})
>>

Matching(opcode) ==
  {i \in DOMAIN decoding_table :
     /\ decoding_table[i].high = High(opcode)
     /\ Medium(opcode) \in decoding_table[i].medium
     /\ Low(opcode) \in decoding_table[i].low}

unknown_instruction == [name |-> "UNKNOWN", medium |-> 0, low |-> 0]

(* Mutant: the last row that matches is taken, not the first. *)
DecodesLast(opcode) ==
  IF Matching(opcode) = {}
  THEN unknown_instruction
  ELSE LET row == CHOOSE i \in Matching(opcode) : \A j \in Matching(opcode) : i >= j
       IN  [name |-> decoding_table[row].name,
            medium |-> Medium(opcode), low |-> Low(opcode)]

(* The first row that matches decides. *)
decode_instruction(opcode) ==
  LET first == CHOOSE i \in Matching(opcode) : \A j \in Matching(opcode) : i <= j
  IN
  IF Matching(opcode) = {} \/ decoding_table[first].name = "UNKNOWN"
  THEN unknown_instruction
  ELSE [name |-> decoding_table[first].name,
        medium |-> Medium(opcode), low |-> Low(opcode)]

(* decode_instruction as a function. *)
Decoding == [opcode \in Opcode |-> decode_instruction(opcode)]

(* Everything decode_instruction returns. *)
Decoded == {Decoding[opcode] : opcode \in Opcode}

-----------------------------------------------------------------------------
(* A cycle: what it tells the bus, what each T-state does, the last T-state *)
(* (CYCLE_END), and whether T3 may end it early (CONDITIONAL_END).          *)
CycleControl == {"PCI", "PCR", "PCC", "PCW"}

Cycle(control, address, t3, t4, t5, last) ==
  [control |-> control, address |-> address, t3 |-> t3, t4 |-> t4, t5 |-> t5,
   last |-> last, conditional |-> FALSE]

(* The T1 and T2 actions always go by pairs: out of PC, of HL, of A and b. *)
Fetch(t4, t5, last) == Cycle("PCI", "PC", "Fetch_IR_And_Reg_b", t4, t5, last)
FetchOnly == Fetch("IDLE", "IDLE", "T3")
Read(address, t5) ==
  Cycle("PCR", address, "Fetch_Data_to_Reg_b", "IDLE", t5, "T5")
ReadLow == Cycle("PCR", "PC", "Fetch_Data_to_Reg_b", "IDLE", "IDLE", "T3")
ReadHigh(t4) == Cycle("PCR", "PC", "Fetch_Data_to_Reg_a", t4, "Reg_b_to_PC_L", "T5")
Write == Cycle("PCW", "HL", "Out_Reg_b", "IDLE", "IDLE", "T3")
Conditional(cycle) == [cycle EXCEPT !.conditional = TRUE]

Lrr == <<Fetch("Source_to_Reg_b", "Reg_b_to_Destination", "T5")>>
Rotate == <<Fetch("IDLE", "Rotate_A", "T5")>>
Jump(t4) == <<FetchOnly, ReadLow, ReadHigh(t4)>>
JumpIf(t4) == <<FetchOnly, ReadLow, Conditional(ReadHigh(t4))>>
Return == Fetch("Pop_Stack", "IDLE", "T5")

(* An unknown instruction is made of zeroes, and these are the actions of Lrr. *)
instruction_table == [
  Lrr |-> Lrr,
  LrM |-> <<FetchOnly, Read("HL", "Reg_b_to_Destination")>>,
  LMr |-> <<Fetch("Source_to_Reg_b", "IDLE", "T4"), Write>>,
  LrI |-> <<FetchOnly, Read("PC", "Reg_b_to_Destination")>>,
  LMI |-> <<FetchOnly, ReadLow, Write>>,
  INr |-> <<Fetch("IDLE", "Inc_Destination", "T5")>>,
  DCr |-> <<Fetch("IDLE", "Dec_Destination", "T5")>>,
  ALU_OPr |-> <<Fetch("Source_to_Reg_b", "ALU_Operation_With_RegB", "T5")>>,
  ALU_OPM |-> <<FetchOnly, Read("HL", "ALU_Operation_With_RegB")>>,
  ALU_OPI |-> <<FetchOnly, Read("PC", "ALU_Operation_With_RegB")>>,
  RLC |-> Rotate, RRC |-> Rotate, RAL |-> Rotate, RAR |-> Rotate,
  JMP |-> Jump("Reg_a_to_PC_H"),
  JFc |-> JumpIf("Reg_a_to_PC_H"),
  JTc |-> JumpIf("Reg_a_to_PC_H"),
  CAL |-> Jump("Push_And_Reg_a_to_PC_H"),
  CFc |-> JumpIf("Push_And_Reg_a_to_PC_H"),
  CTc |-> JumpIf("Push_And_Reg_a_to_PC_H"),
  RET |-> <<Return>>,
  RFc |-> <<Conditional(Return)>>,
  RTc |-> <<Conditional(Return)>>,
  RST |-> <<Fetch("Push_And_Reg_a_to_PC_H", "Reg_b_to_PC_L_3_to_5", "T5")>>,
  INP |-> <<FetchOnly,
            Cycle("PCC", "A_b", "Fetch_Data_to_Reg_b", "Out_Conditions_Flags",
                  "Reg_b_to_A", "T5")>>,
  OUT |-> <<FetchOnly, Cycle("PCC", "A_b", "IDLE", "IDLE", "IDLE", "T3")>>,
  HLT |-> <<FetchOnly>>,
  UNKNOWN |-> Lrr
]

InstructionName == DOMAIN instruction_table
==============================================================================
