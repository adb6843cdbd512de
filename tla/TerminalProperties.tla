-------------------------- MODULE TerminalProperties --------------------------
(***************************************************************************)
(* What Terminal.tla is checked against.                                   *)
(***************************************************************************)
EXTENDS Terminal

(* TypeOK: the types of the variables. *)
TypeOK ==
  /\ keyboard \in {"waiting", "reading", "storing"}
  /\ main \in {"step", "received", "line", "flush", "emit"}
  /\ {local_str, str} \subseteq Lines \cup {<<>>}
  /\ lines_typed \in 0 .. MaxTyped
  /\ counter \in 1 .. INITIAL_COUNTER
  /\ previous_content_size = Len(printed)
  /\ {chars_to_send, input_queue, received, full_content, outputs, printed} \subseteq Seq(Nat)
  /\ {input_data, combined_status, output_data} \subseteq 0 .. 255
  /\ {input_ready_PE, output_ready_PS, raw_output, seen_ready} \subseteq BOOLEAN
  /\ ack \in [Terminals -> {"idle", "launched", "high"}]

(* The characters on their way, the next one to be read first: the one the *)
(* serial card shows until it is read, its queue, the main loop's string,  *)
(* and the line of the keyboard until it has been appended to it.          *)
Shown == IF input_ready_PE /\ ack[0] # "launched" THEN <<input_data>> ELSE <<>>
Ended(line) == IF line = <<>> THEN <<>> ELSE line \o <<CR>>
OnTheirWay ==
  Shown \o input_queue \o chars_to_send
    \o Ended(IF main = "flush" THEN <<>> ELSE str) \o Ended(local_str)

P == INSTANCE Pipe WITH typed <- received \o OnTheirWay

(* From the keyboard to the program nothing is lost, repeated, mixed or    *)
(* reordered: whatever the two threads do between line_received, line and  *)
(* flush, whatever the pace of the program, whether it looks at the status *)
(* or not, a line typed goes in whole and its characters come out in order *)
(* and once.                                                               *)
ImplementsPipe == P!Spec

(* The status the program would read is the state of the two ready lines:  *)
(* an output between two inputs does not hide a character, and the output  *)
(* is ready at any moment the program can look.  And what the status says  *)
(* stays true until it is used: a program that has seen the input bit      *)
(* since its last INP 0 reads a character that it has not read yet.        *)
StatusIsTrue ==
  /\ combined_status = 128 + IF input_ready_PE THEN 1 ELSE 0
  /\ seen_ready => Shown # <<>>

(* What the program writes reaches the standard output once and in order,  *)
(* in the text of its 7 bits: a CR is a new line, a LF nothing, a DC1 or a  *)
(* DC2 its name. The raw mode of the terminal, from a DC1 or DC2 on until a *)
(* DC3 or DC4, keeps the eighth bit in what was received, and the standard  *)
(* output then drops it: all that is left of this mode is that a byte 255   *)
(* is written as it is, and not as 127.                                     *)
PrintsTheOutput ==
  LET Raw(i) == \E j \in 1 .. i : /\ outputs[j] \in {17, 18}
                                  /\ \A k \in j + 1 .. i : outputs[k] \notin {19, 20}
      Bits(i) == IF Raw(i) /\ outputs[i] = 255 THEN 255 ELSE outputs[i] % 128
  IN
  /\ Len(printed) <= Len(outputs)
  /\ \A i \in DOMAIN printed :
       printed[i] = CASE Bits(i) = 13 -> 10
                      [] Bits(i) = 10 -> Nothing
                      [] Bits(i) = 17 -> DC1Text
                      [] Bits(i) = 18 -> DC2Text
                      [] OTHER -> Bits(i)

(* A typed line is eventually read whole by a program that reads for ever. *)
LinesIn(characters) == Len(SelectSeq(characters, LAMBDA c : c = CR))
Delivered ==
  ([]<><<InputData>>_vars) =>
    \A n \in 1 .. MaxTyped :
      (LinesIn(received \o OnTheirWay) >= n) ~> (LinesIn(received) >= n)
==============================================================================
