-------------------------------- MODULE Pipe --------------------------------
(***************************************************************************)
(* What the keyboard of the terminal promises to the program: whole lines  *)
(* go in, each with its carriage return, and characters come out one by    *)
(* one, in the same order, each once.  Terminal.tla is shown to implement  *)
(* it.                                                                     *)
(***************************************************************************)
EXTENDS Naturals, Sequences

CONSTANTS
  Lines,       (* the lines that may be typed, without their end *)
  CR           (* the character that ends a line                 *)

VARIABLES
  typed,       (* what has been typed   *)
  received     (* what has been read    *)

vars == <<typed, received>>

Init == typed = <<>> /\ received = <<>>

(* An empty line sends nothing. *)
Type(line) ==
  /\ line # <<>>
  /\ typed' = typed \o line \o <<CR>>
  /\ UNCHANGED received

Receive ==
  /\ Len(received) < Len(typed)
  /\ received' = Append(received, typed[Len(received) + 1])
  /\ UNCHANGED typed

Next == Receive \/ \E line \in Lines : Type(line)

Spec == Init /\ [][Next]_vars
==============================================================================
