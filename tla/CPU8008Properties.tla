-------------------------- MODULE CPU8008Properties --------------------------
(***************************************************************************)
(* What CPU8008.tla is checked against: the instruction set, and what the  *)
(* bus sees of it.                                                         *)
(***************************************************************************)
EXTENDS CPU8008

(* The program counters behind a ring's current one, newest first. *)
Behind(s) ==
  [j \in 1 .. Depth - 1 |-> s.stack[(s.stack_index + Depth - j) % Depth]]

ISA == INSTANCE Isa8008 WITH
  InitialRegisters <- PowerOnRegisters,
  pc <- get_pc(done.stack),
  returns <- Behind(done.stack),
  reg <- done.reg,
  flags <- done.flags,
  bus <- done.bus

(* Instruction by instruction the CPU does what the instruction set says,  *)
(* with the right bus cycles at the right addresses: whatever T-states the *)
(* instruction takes, however long it waits, and wherever it is            *)
(* interrupted. In particular a jammed instruction does not advance PC, so *)
(* that a RST then a RET come back to the instruction interrupted.         *)
ImplementsISA == ISA!Spec
==============================================================================
