-------------------------- MODULE ConsoleProperties --------------------------
(***************************************************************************)
(* What DataBus.tla and Console.tla are checked against.                   *)
(***************************************************************************)
EXTENDS Console

(* TypeOK: the types of the variables that CPUControl does not have. *)
TypeOK ==
  /\ md_owner \in Cards \cup {Console, Nobody}
  /\ md_bus \in Bytes
  /\ ready_owner \in Cards \cup {Nobody}
  /\ latched_data \in [Cards -> Bytes \cup {NoData}]
  /\ owns_bus \subseteq Cards
  /\ placing \subseteq Cards
  /\ {sub, substitution, release_data_bus, console_placing, t1i_cycle, clash} \subseteq BOOLEAN
  /\ {switch_data, shown} \subseteq SwitchBytes
  /\ answer \in Bytes
  /\ {stepping, trap, init, trapped} \subseteq BOOLEAN
  /\ start_mode \in {"Automatic", "Manual"}
  /\ step_mode \in {"Instruction", "Cycle"}
  /\ passed \in 0 .. PassedBound

(* The bus has one owner at a time: no request, no set and no release ever *)
(* throws, and no action is scheduled twice, whatever the moments at which *)
(* SUBSTITUTION is pressed, in a cycle that waits too.                     *)
NoClash == ~clash

(* What the CPU reads from the bus is the byte of the card that the cycle  *)
(* addresses, or the switches while they are substituted, as they were     *)
(* when the console last looked at them, at the last fall of SYNC or in    *)
(* its action after the rise of SUB: never the byte of another cycle, nor  *)
(* an empty bus because SUB has come and gone while the CPU waited.  The   *)
(* bus is left free between the end of T3 and the end of the next T2,      *)
(* unless the console substitutes.                                         *)
BusCarriesTheByte ==
  /\ phase = "data_in" /\ IsReading => md_bus = IF sub THEN shown ELSE answer
  /\ Settled /\ ~sub /\ state \notin {"WAIT", "T3"} =>
       md_owner = Nobody /\ md_bus = Empty

(* In a stepping mode a press of ADVANCE lets through one cycle, or one    *)
(* fetch: the next one is held, also when the mode has just been changed,  *)
(* after a trap, and when interrupts are jammed between them.  A fetch     *)
(* that the trap has held does not reach T3 before ADVANCE or AUTOMATIC is *)
(* pressed, or INIT in the automatic mode of start, which goes through     *)
(* press_automatic: no other key lets it go.                               *)
HoldsAsAsked ==
  /\ stepping => passed <= 1
  /\ trapped => state \in {"T2", "WAIT"}

(* In the automatic mode nothing holds the CPU, however it was entered:    *)
(* READY cannot be left LOW by the step or the trap before.                *)
AutomaticRuns == ~stepping => ready

(* A step that was allowed ends: the CPU is held again, or it has stopped  *)
(* on a HLT, unless the mode is left.                                      *)
StepEnds == (stepping /\ ready) ~> (~ready \/ ~stepping \/ state = "STOPPED")
==============================================================================
