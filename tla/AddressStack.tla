----------------------------- MODULE AddressStack -----------------------------
(***************************************************************************)
(* devices/src/AddressStack.cpp: a ring of program counters. A call leaves *)
(* the current one behind and goes on in the next slot of the ring.        *)
(*                                                                         *)
(* A slot is 16 bits wide: the jump sets its high byte as it is, the 14    *)
(* bits of an address are only taken when it is emitted or incremented.    *)
(***************************************************************************)
EXTENDS Naturals

CONSTANT Depth   (* slots of the ring: 8 *)

ASSUME DepthAssumption == Depth \in Nat \ {0, 1}

Byte == 0 .. 255
AddressSpace == 16384

Slots == 0 .. Depth - 1
Stacks == [stack : [Slots -> 0 .. 65535], stack_index : Slots, emitted_pc : 0 .. 65535]

clear_stack == [stack |-> [i \in Slots |-> 0], stack_index |-> 0, emitted_pc |-> 0]

get_pc(s) == s.stack[s.stack_index]

get_low_pc_and_inc(s) ==
  [s EXCEPT !.emitted_pc = get_pc(s),
            !.stack[s.stack_index] = (@ + 1) % AddressSpace]

get_low_pc_no_inc(s) == [s EXCEPT !.emitted_pc = get_pc(s)]

(* What the two calls above return, and then get_high_pc. *)
emitted_low(s) == s.emitted_pc % 256
get_high_pc(s) == (s.emitted_pc % AddressSpace) \div 256

push(s) == [s EXCEPT !.stack_index = (@ + 1) % Depth]

(* Mutant: the index does not wrap below the first slot. *)
pop_no_wrap(s) == [s EXCEPT !.stack_index = IF @ > 0 THEN @ - 1 ELSE 0]

pop(s) == [s EXCEPT !.stack_index = IF @ > 0 THEN @ - 1 ELSE Depth - 1]

set_low_pc(s, value) == [s EXCEPT !.stack[s.stack_index] = (@ \div 256) * 256 + value]
set_high_pc(s, value) == [s EXCEPT !.stack[s.stack_index] = (@ % 256) + value * 256]
==============================================================================
