----------------------------- MODULE TerminalMC -----------------------------
(***************************************************************************)
(* An instance of Terminal for TLC.                                        *)
(***************************************************************************)
EXTENDS TerminalProperties

(* A line of two characters, a line of one and an empty one. *)
ThreeLines == {<<97, 98>>, <<99>>, <<>>}
==============================================================================
