------------------------------- MODULE ALU8008 -------------------------------
(***************************************************************************)
(* devices/src/CPU8008.cpp: what execute_t5 computes on the accumulator    *)
(* and on the flags.  A flag is a byte: the sign is stored as 0 or 0x80.   *)
(***************************************************************************)
EXTENDS Integers

Flag == {"Carry", "Zero", "Sign", "Parity"}
ClearFlags == [f \in Flag |-> 0]

Bit(n, i) == (n \div 2 ^ i) % 2
FromBits(bit(_)) ==
  bit(0) + 2 * bit(1) + 4 * bit(2) + 8 * bit(3)
  + 16 * bit(4) + 32 * bit(5) + 64 * bit(6) + 128 * bit(7)
And(x, y) == LET bit(i) == Bit(x, i) * Bit(y, i) IN FromBits(bit)
Or(x, y) == x + y - And(x, y)
Xor(x, y) == x + y - 2 * And(x, y)

BitCount(n) ==
  Bit(n, 0) + Bit(n, 1) + Bit(n, 2) + Bit(n, 3) + Bit(n, 4) + Bit(n, 5) + Bit(n, 6) + Bit(n, 7)

(* update_flags: all but the carry. *)
update_flags(flags, value) ==
  [flags EXCEPT !["Zero"] = IF value = 0 THEN 1 ELSE 0,
                !["Sign"] = IF value >= 128 THEN 128 ELSE 0,
                !["Parity"] = IF BitCount(value) % 2 = 0 THEN 1 ELSE 0]

Truth(flag) == IF flag # 0 THEN 1 ELSE 0

(* The 9-bit or signed intermediate value of operation 0..3 and 7. *)
Intermediate(operation, a, b, flags) ==
  LET carry == Truth(flags["Carry"])
  IN
  CASE operation = 0 -> a + b
    [] operation = 1 -> a + b + carry
    [] operation \in {2, 7} -> a - b
    [] operation = 3 -> a - b - carry

CarryOut(n) == IF n > 255 \/ n < 0 THEN 1 ELSE 0

(* ALU_Operation_With_RegB: the accumulator and the flags. *)
ALU_Operation(operation, a, b, flags) ==
  LET n == Intermediate(operation, a, b, flags)
      logical == CASE operation = 4 -> And(a, b)
                   [] operation = 5 -> Xor(a, b)
                   [] operation = 6 -> Or(a, b)
  IN
  IF operation \in {4, 5, 6}
  THEN [a |-> logical,
        flags |-> [update_flags(flags, logical) EXCEPT !["Carry"] = 0]]
  ELSE [a |-> IF operation = 7 THEN a ELSE n % 256,
        flags |-> [update_flags(flags, n % 256) EXCEPT !["Carry"] = CarryOut(n)]]

(* Rotate_A: only the carry changes. *)
Rotate_A(operation, a, flags) ==
  LET out == IF operation \in {0, 2} THEN a \div 128 ELSE a % 2
      in == IF operation \in {0, 1} THEN out ELSE Truth(flags["Carry"])
  IN
  [a |-> IF operation \in {0, 2} THEN ((a * 2) % 256) + in ELSE a \div 2 + 128 * in,
   flags |-> [flags EXCEPT !["Carry"] = out]]
==============================================================================
