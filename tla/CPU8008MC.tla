------------------------------ MODULE CPU8008MC ------------------------------
(***************************************************************************)
(* Instances of CPU8008 for TLC.                                           *)
(***************************************************************************)
EXTENDS CPU8008Properties

(* Registers that all differ, with HL pointing across a page and two bits  *)
(* of H that the bus does not take.                                        *)
DistinctRegisters == {<<200, 1, 2, 127, 4, 193, 255>>}
OneRegisterFile == {[r \in Register |-> file[r + 1]] : file \in DistinctRegisters}

(* One to four opcodes of each row of the decoding table, and one that is   *)
(* unknown: the operands are A, L, H, M and register 1; the conditions the  *)
(* four flags, false or true; every operation of the ALU on a register.     *)
RowOpcodes ==
  {0, 255, 199, 206, 248, 254, 200, 193, 62, 6, 14, 56, 8, 48, 9, 49,
   128, 137, 146, 155, 164, 173, 182, 191, 4, 44, 2, 10, 18, 26,
   68, 64, 72, 96, 112, 70, 66, 82, 106, 122, 7, 63, 3, 19, 43, 59,
   5, 61, 65, 79, 81, 127}

(* Calls, jumps and returns, taken or not: RET, RTZ, RST 1, CAL, CTZ, JMP,  *)
(* JFC, ADA and HLT. *)
FlowOpcodes == {7, 43, 13, 70, 106, 68, 64, 128, 255}

(* Every opcode; two instructions of every kind, one after the other; three *)
(* calls, jumps or returns: enough to go round a ring of three. *)
AllPrograms ==
  {[opcodes |-> Opcode, data |-> {0, 255}, length |-> 1],
   [opcodes |-> RowOpcodes, data |-> {0, 255}, length |-> 2],
   [opcodes |-> FlowOpcodes, data |-> {63, 255}, length |-> 3]}
==============================================================================
