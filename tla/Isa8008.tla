------------------------------- MODULE Isa8008 -------------------------------
(***************************************************************************)
(* The instruction set of the 8008, one whole instruction per step: what   *)
(* a program can rely on, whatever the T-states, the memory cycles, the    *)
(* waits and the interrupts.                                               *)
(*                                                                         *)
(* An instruction is either the one PC points to, or one that is jammed by *)
(* an interrupt and leaves PC where it was.  `bus` is the list of the bus  *)
(* cycles of the last instruction: the kind, the address and the data of   *)
(* each; the kind of a jammed fetch is T1I.                                *)
(*                                                                         *)
(* CPU8008.tla is the detailed specification shown to implement it.        *)
(***************************************************************************)
EXTENDS Instructions8008, ALU8008

CONSTANTS
  Opcodes,            (* the bytes that can be fetched as opcodes *)
  Depth,              (* program counters: the current one, and the others *)
  InitialRegisters    (* what the registers may hold at power on  *)

VARIABLES
  pc,             (* address of the next instruction            *)
  returns,        (* the other program counters, newest first *)
  reg,            (* A, B, C, D, E, H, L: 0..6                  *)
  flags,
  bus

vars == <<pc, returns, reg, flags, bus>>

After(address) == (address + 1) % 16384
Emitted(address) == address % 16384
HL == (reg[5] % 64) * 256 + reg[6]

Init ==
  /\ pc = 0
  /\ returns = [i \in 1 .. Depth - 1 |-> 0]
  /\ reg \in InitialRegisters
  /\ flags = ClearFlags
  /\ bus = <<>>

BusCycle(kind, address, data) == [control |-> kind, address |-> address, data |-> data]

(* Conditional instructions name a flag, and say whether it must be set. *)
Holds(i) ==
  LET flag == CASE i.medium \in {0, 4} -> "Carry"
                [] i.medium \in {1, 5} -> "Zero"
                [] i.medium \in {2, 6} -> "Sign"
                [] i.medium \in {3, 7} -> "Parity"
  IN  (i.medium \in 4 .. 7) = (flags[flag] # 0)

Taken(i) == i.name \in {"JMP", "CAL", "RET", "RST"} \/ Holds(i)

Group == [
  Register |-> {"Lrr", "UNKNOWN", "INr", "DCr", "ALU_OPr", "RLC", "RRC", "RAL", "RAR", "HLT"},
  Immediate |-> {"LrI", "ALU_OPI"},
  Memory |-> {"LrM", "ALU_OPM"},
  Store |-> {"LMr", "LMI"},
  Jump |-> {"JMP", "JFc", "JTc"},
  Call |-> {"CAL", "CFc", "CTc"},
  Return |-> {"RET", "RFc", "RTc"}
]

(* The registers and flags after an instruction whose operand is b. *)
Compute(i, b) ==
  LET a == reg[0]
      Load(r, value, f) == reg' = [reg EXCEPT ![r] = value] /\ flags' = f
  IN
  CASE i.name \in {"Lrr", "LrI", "LrM"} -> Load(i.medium, b, flags)
    [] i.name = "INr" ->
         LET n == (reg[i.medium] + 1) % 256 IN Load(i.medium, n, update_flags(flags, n))
    [] i.name = "DCr" ->
         LET n == (reg[i.medium] - 1) % 256 IN Load(i.medium, n, update_flags(flags, n))
    [] i.name \in {"ALU_OPr", "ALU_OPI", "ALU_OPM"} ->
         LET r == ALU_Operation(i.medium, a, b, flags) IN Load(0, r.a, r.flags)
    [] i.name \in {"RLC", "RRC", "RAL", "RAR"} ->
         LET r == Rotate_A(i.medium, a, flags) IN Load(0, r.a, r.flags)
    [] OTHER -> UNCHANGED <<reg, flags>>

(* One instruction: `opcode`, then the bytes lo and hi if it reads any.     *)
Execute(opcode, jammed, lo, hi) ==
  LET i == Decoding[opcode]
      first == IF jammed THEN pc ELSE After(pc)     (* where operands are *)
      second == After(first)
      target == hi * 256 + lo
      fetch == BusCycle(IF jammed THEN "T1I" ELSE "PCI", Emitted(pc), opcode)
      read == BusCycle("PCR", Emitted(first), lo)
      operands == <<fetch, read, BusCycle("PCR", Emitted(second), hi)>>
      In(group) == i.name \in Group[group]
  IN
  \/ /\ In("Register")
     /\ pc' = first
     /\ bus' = <<fetch>>
     /\ Compute(i, IF i.name \in {"Lrr", "ALU_OPr"} THEN reg[i.low] ELSE 0)
     /\ UNCHANGED returns
  \/ /\ In("Immediate")
     /\ pc' = second
     /\ bus' = <<fetch, read>>
     /\ Compute(i, lo)
     /\ UNCHANGED returns
  \/ /\ In("Memory")
     /\ pc' = first
     /\ bus' = <<fetch, BusCycle("PCR", HL, lo)>>
     /\ Compute(i, lo)
     /\ UNCHANGED returns
  \/ /\ In("Store")
     /\ pc' = IF i.name = "LMI" THEN second ELSE first
     /\ bus' = IF i.name = "LMI"
               THEN <<fetch, read, BusCycle("PCW", HL, lo)>>
               ELSE <<fetch, BusCycle("PCW", HL, reg[i.low])>>
     /\ UNCHANGED <<returns, reg, flags>>
  \/ /\ In("Jump")
     /\ pc' = IF Taken(i) THEN target ELSE After(second)
     /\ bus' = operands
     /\ UNCHANGED <<returns, reg, flags>>
  \/ /\ In("Call")
     /\ pc' = IF Taken(i) THEN target ELSE After(second)
     /\ returns' = IF Taken(i) THEN <<After(second)>> \o SubSeq(returns, 1, Depth - 2) ELSE returns
     /\ bus' = operands
     /\ UNCHANGED <<reg, flags>>
  \/ /\ In("Return")
     /\ pc' = IF Taken(i) THEN returns[1] ELSE first
     /\ returns' = IF Taken(i) THEN Append(Tail(returns), first) ELSE returns
     /\ bus' = <<fetch>>
     /\ UNCHANGED <<reg, flags>>
  \/ /\ i.name = "RST"
     /\ pc' = 8 * i.medium
     /\ returns' = <<first>> \o SubSeq(returns, 1, Depth - 2)
     /\ bus' = <<fetch>>
     /\ UNCHANGED <<reg, flags>>
  \/ /\ i.name = "INP"
     /\ pc' = first
     /\ bus' = <<fetch, BusCycle("PCC", (opcode % 64) * 256 + reg[0], lo)>>
     /\ reg' = [reg EXCEPT ![0] = lo]
     /\ UNCHANGED <<returns, flags>>
  \/ /\ i.name = "OUT"
     /\ pc' = first
     /\ bus' = <<fetch, BusCycle("PCC", (opcode % 64) * 256 + reg[0], lo)>>
     /\ UNCHANGED <<returns, reg, flags>>

(* The bytes an instruction reads are those of its bus cycles. *)
ReadAt(k) == IF k \in DOMAIN bus' THEN bus'[k].data ELSE 0

Next ==
  /\ bus' # <<>>
  /\ ReadAt(1) \in Opcodes
  /\ \E jammed \in BOOLEAN : Execute(ReadAt(1), jammed, ReadAt(2), ReadAt(3))

Spec == Init /\ [][Next]_vars
==============================================================================
