------------------------------ MODULE MachineMC ------------------------------
(***************************************************************************)
(* The instance of Machine for TLC.                                        *)
(***************************************************************************)
EXTENDS MachineProperties

(* A boot ROM longer than what is kept of it, with a RST 0 in its page; a   *)
(* monitor that has one too. *)
SmallBoot == <<192, 5, 199>>
SmallMonitor == <<5, 68>>

(* Every opcode, followed by up to three bytes, and up to five in files that *)
(* are longer than the span of the addresses. *)
SmallFiles ==
  {<<opcode>> \o tail : opcode \in Opcode,
     tail \in {<<>>} \cup {<<a>> : a \in {5, 62, 68}}
           \cup {<<a, b>> : a, b \in {5, 62, 68}} \cup {<<5, 62, b>> : b \in {31, 68}}
           \cup {<<5, a, b, 31, 5>> : a, b \in {5, 62, 68}}}

(* Images of up to two sectors of two bytes around the signed overflow. *)
SmallDisks ==
  LET Edges == {0, 1, 127, 128, 255}
  IN {<<>>} \cup {<<a>> : a \in Edges} \cup {<<a, b>> : a, b \in Edges}
       \cup {<<a, b, c>> : a, b, c \in Edges}
===============================================================================
