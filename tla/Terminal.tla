------------------------------ MODULE Terminal ------------------------------
(***************************************************************************)
(* The terminal of the command line, from the keyboard to the program of   *)
(* the machine and back: the thread that reads lines (cli TextInput.cpp),  *)
(* the main loop (cli main.cpp), VirtualTTY.cpp, SerialCard.cpp and the    *)
(* I/O card it is wired to (IOCard.cpp, SerialCard_To_IOCard.cpp).         *)
(*                                                                         *)
(* Two threads: the keyboard's, and the main one, which runs the machine a *)
(* clock edge at a time between two looks at the keyboard.  A volatile     *)
(* string is shared; only the wait of the keyboard reads it without the    *)
(* lock, and it then sees the size before or after the other's change.     *)
(*                                                                         *)
(* The program is any program: it reads the data (INP 0) or the status     *)
(* (INP 1) and writes characters (OUT 0) whenever it likes.  An ACK of the *)
(* I/O card rises at the date of the fall of T2 that launches it, and      *)
(* falls 200 ns later, before SYNC moves again or T2 falls: see Quiet.     *)
(***************************************************************************)
EXTENDS Naturals, Sequences

CONSTANTS
  Lines,            (* the lines that may be typed, without their end  *)
  CR,               (* 0x0d                                            *)
  INITIAL_COUNTER,  (* iterations of the loop between two characters   *)
  OutputChars,      (* the bytes that the program may write            *)
  MaxTyped,         (* bound: lines typed                              *)
  MaxOutputs        (* bound: characters written                       *)

Char == 0 .. 255

ASSUME TerminalAssumption ==
  /\ Lines \subseteq Seq(Char) /\ CR \in Char
  /\ INITIAL_COUNTER \in Nat \ {0}
  /\ OutputChars \subseteq Char
  /\ {MaxTyped, MaxOutputs} \subseteq Nat

VARIABLES
  keyboard,              (* where the keyboard's thread is            *)
  local_str,
  str,                   (* the shared string                         *)
  main,                  (* where the main loop is                    *)
  chars_to_send,
  counter,
  previous_content_size,
  input_queue,           (* SerialCard                                *)
  input_data,
  input_ready_PE,
  output_ready_PS,
  combined_status,
  output_data,           (* terminal 4 of the I/O card                *)
  ack,                   (* the ACKs of terminals 0 and 4             *)
  raw_output,            (* VirtualTTY                                *)
  full_content,
  lines_typed,           (* history: how many lines were typed                   *)
  received,              (* history: the characters the program has taken        *)
  seen_ready,            (* history: the status has said so since the last INP 0 *)
  outputs,               (* history: the bytes written by the program            *)
  printed                (* history: the texts given to the standard output      *)

typing == <<keyboard, local_str, lines_typed>>
loop == <<main, chars_to_send, counter, previous_content_size, printed>>
input == <<input_queue, input_data, input_ready_PE>>
output == <<output_ready_PS, output_data, raw_output, full_content, outputs>>
program == <<received, seen_ready>>
vars == <<typing, str, loop, input, output, combined_status, ack, program>>

Terminals == {0, 4}

Init ==
  /\ keyboard = "waiting" /\ local_str = <<>> /\ lines_typed = 0
  /\ str = <<>>
  /\ main = "step" /\ chars_to_send = <<>> /\ counter = INITIAL_COUNTER
  /\ previous_content_size = 0 /\ printed = <<>>
  /\ input_queue = <<>> /\ input_data = 0 /\ input_ready_PE = FALSE
  /\ output_ready_PS = FALSE /\ combined_status = 128 /\ output_data = 0
  /\ ack = [t \in Terminals |-> "idle"]
  /\ raw_output = FALSE /\ full_content = <<>> /\ outputs = <<>>
  /\ received = <<>> /\ seen_ready = FALSE

-----------------------------------------------------------------------------
(* acquire_keyboard *)

(* Mutant: the thread does not wait for its last line to be taken. *)
NeverWaits ==
  /\ keyboard = "waiting"
  /\ keyboard' = "reading"
  /\ UNCHANGED <<local_str, lines_typed, str, loop, input, output, combined_status, ack, program>>

(* Without the lock. *)
WaitsForEmpty ==
  /\ keyboard = "waiting"
  /\ str = <<>>
  /\ keyboard' = "reading"
  /\ UNCHANGED <<local_str, lines_typed, str, loop, input, output, combined_status, ack, program>>

(* getline; an empty line, or the end of the input, is not stored. *)
GetLine(line) ==
  /\ keyboard = "reading"
  /\ lines_typed < MaxTyped
  /\ lines_typed' = lines_typed + 1
  /\ local_str' = line
  /\ keyboard' = IF line = <<>> THEN "waiting" ELSE "storing"
  /\ UNCHANGED <<str, loop, input, output, combined_status, ack, program>>

StoreLine ==
  /\ keyboard = "storing"
  /\ str' = local_str
  /\ local_str' = <<>>
  /\ keyboard' = "waiting"
  /\ UNCHANGED <<lines_typed, loop, input, output, combined_status, ack, program>>

-----------------------------------------------------------------------------
(* SerialCard: the status follows the edges of its two ready lines. *)

(* Mutant: the bit of the input is cleared with the bit of the output. *)
StatusOfOutput(status, level) == IF level THEN 128 ELSE 0

(* Mutant: the bit is added and not set. *)
OutputReadyAdded(status, level) == status + IF level THEN 128 ELSE 0

WithInputReady(status, level) == 2 * (status \div 2) + IF level THEN 1 ELSE 0
WithOutputReady(status, level) == (status % 128) + IF level THEN 128 ELSE 0

Quiet == \A t \in Terminals : ack[t] = "idle"

(* on_sync, with on_input_ready; without a character to show it has no effect. *)
SyncRises ==
  /\ Quiet
  /\ ~input_ready_PE
  /\ input_queue # <<>>
  /\ input_queue' = Tail(input_queue)
  /\ input_data' = Head(input_queue)
  /\ input_ready_PE' = TRUE
  /\ combined_status' = WithInputReady(combined_status, TRUE)
  /\ UNCHANGED <<output, ack, program>>

(* INP 0: get_from_peripheral of terminal 0. A program that does not look   *)
(* at the status may read a character again: it is received once.           *)
InputData ==
  /\ Quiet
  /\ ack' = [ack EXCEPT ![0] = "launched"]
  /\ received' = IF input_ready_PE THEN Append(received, input_data) ELSE received
  /\ seen_ready' = FALSE
  /\ UNCHANGED <<input, output, combined_status>>

(* INP 1: get_from_peripheral of terminal 1, whose ACK is not connected. *)
InputStatus ==
  /\ Quiet
  /\ seen_ready' = (combined_status % 2 = 1)
  /\ UNCHANGED <<received, ack, input, output, combined_status>>

(* OUT 0: send_to_peripheral of terminal 4. *)
Output(byte) ==
  /\ Quiet
  /\ Len(outputs) < MaxOutputs
  /\ output_data' = byte
  /\ outputs' = Append(outputs, byte)
  /\ ack' = [ack EXCEPT ![4] = "launched"]
  /\ UNCHANGED <<output_ready_PS, raw_output, full_content, input, combined_status, program>>

(* Mutant: the status does not follow the fall of the ready line. *)
InputAckSilently ==
  /\ ack[0] = "launched"
  /\ ack' = [ack EXCEPT ![0] = "high"]
  /\ input_ready_PE' = FALSE
  /\ UNCHANGED <<input_queue, input_data, combined_status, output, program>>

(* ScheduledSignal::step, at the date of the launch: on_input_strobe. *)
InputAck ==
  /\ ack[0] = "launched"
  /\ ack' = [ack EXCEPT ![0] = "high"]
  /\ input_ready_PE' = FALSE
  /\ combined_status' = IF input_ready_PE THEN WithInputReady(combined_status, FALSE)
                                          ELSE combined_status
  /\ UNCHANGED <<input_queue, input_data, output, program>>

(* VirtualTTY::receive_char *)
RawAfter(byte) ==
  CASE byte \in {17, 18} -> TRUE
    [] byte \in {19, 20} -> FALSE
    [] OTHER -> raw_output

(* Mutant: the raw mode does not keep the eighth bit. *)
ReceivedMasked(byte) == byte % 128

Received(byte) == IF RawAfter(byte) THEN byte ELSE byte % 128

(* on_output: output_ready_PS falls and rises again around the character. *)
OutputAck ==
  LET lowered == IF output_ready_PS THEN WithOutputReady(combined_status, FALSE)
                                    ELSE combined_status
  IN
  /\ ack[4] = "launched"
  /\ ack' = [ack EXCEPT ![4] = "high"]
  /\ raw_output' = RawAfter(output_data)
  /\ full_content' = Append(full_content, Received(output_data))
  /\ output_ready_PS' = TRUE
  /\ combined_status' = WithOutputReady(lowered, TRUE)
  /\ UNCHANGED <<output_data, outputs, input, program>>

AckFalls ==
  \E t \in Terminals :
    /\ ack[t] = "high"
    /\ ack' = [ack EXCEPT ![t] = "idle"]
    /\ UNCHANGED <<input, output, combined_status, program>>

Acks == InputAck \/ OutputAck \/ AckFalls

Machine ==
  \/ SyncRises
  \/ InputData
  \/ InputStatus
  \/ \E byte \in OutputChars : Output(byte)
  \/ Acks
  \/ UNCHANGED <<input, output, combined_status, ack, program>>

-----------------------------------------------------------------------------
(* The main loop. *)

(* What stands for a character in the standard output is a character too,  *)
(* or one of these: no text at all, and the two texts that name a control. *)
Nothing == 256
DC1Text == 257
DC2Text == 258

(* Mutant: raw_output is TRUE, as if ff_count were above zero. *)
RawRepresentation(c) ==
  CASE c = 13 -> 10
    [] c = 10 -> Nothing
    [] c = 17 -> DC1Text
    [] OTHER -> 172

(* representation, with raw_output FALSE: main gives it ff_count > 0, and   *)
(* nothing increments ff_count. A char is signed, so that -1 is 255.        *)
Representation(c) ==
  LET shown == IF c = 255 THEN c ELSE c % 128
  IN CASE shown = 13 -> 10
       [] shown = 10 -> Nothing
       [] shown = 17 -> DC1Text
       [] shown = 18 -> DC2Text
       [] OTHER -> shown

Texts(characters) == [i \in DOMAIN characters |-> Representation(characters[i])]

(* Mutant: the size of what was printed before is forgotten. *)
WholeContent(content) == content

NewContent(content) == SubSeq(content, previous_content_size + 1, Len(content))

(* simulator.step, then what the terminal has received since is printed. *)
Step ==
  /\ main = "step"
  /\ Machine
  /\ main' = "received"
  /\ printed' = printed \o Texts(NewContent(full_content'))
  /\ previous_content_size' = Len(full_content')
  /\ UNCHANGED <<chars_to_send, counter, typing, str>>

LineReceived ==
  /\ main = "received"
  /\ main' = IF str = <<>> THEN "emit" ELSE "line"
  /\ UNCHANGED <<chars_to_send, counter, previous_content_size, printed,
                 typing, str, input, output, combined_status, ack, program>>

TakeLine ==
  /\ main = "line"
  /\ main' = "flush"
  /\ chars_to_send' = chars_to_send \o str \o <<CR>>
  /\ UNCHANGED <<counter, previous_content_size, printed,
                 typing, str, input, output, combined_status, ack, program>>

Flush ==
  /\ main = "flush"
  /\ main' = "emit"
  /\ str' = <<>>
  /\ UNCHANGED <<chars_to_send, counter, previous_content_size, printed,
                 typing, input, output, combined_status, ack, program>>

(* Mutant: the counter is not loaded again. *)
CounterStops(count) == IF count = 0 THEN 0 ELSE count - 1

CounterAfter(count) == IF count = 1 THEN INITIAL_COUNTER ELSE count - 1

(* The counter of the loop paces the characters: VirtualTTY::emit_char, and *)
(* SerialCard::add_input.                                                   *)
Emit ==
  /\ main = "emit"
  /\ main' = "step"
  /\ counter' = CounterAfter(counter)
  /\ IF chars_to_send # <<>> /\ counter' = INITIAL_COUNTER
     THEN /\ input_queue' = Append(input_queue, Head(chars_to_send))
          /\ chars_to_send' = Tail(chars_to_send)
     ELSE UNCHANGED <<input_queue, chars_to_send>>
  /\ UNCHANGED <<previous_content_size, printed, typing, str, input_data, input_ready_PE,
                 output, combined_status, ack, program>>

Keyboard == WaitsForEmpty \/ StoreLine \/ \E line \in Lines : GetLine(line)
MainLoop == Step \/ LineReceived \/ TakeLine \/ Flush \/ Emit

Next == Keyboard \/ MainLoop

Spec == Init /\ [][Next]_vars

(* Threads run, SYNC rises in every T-state for ever, and an ACK is a date  *)
(* of the scheduler.  Nothing is assumed of the typist nor of the program.  *)
FairSpec ==
  /\ Spec
  /\ WF_vars(WaitsForEmpty) /\ WF_vars(StoreLine)
  /\ WF_vars(MainLoop)
  /\ SF_vars(Step /\ SyncRises)
  /\ SF_vars(Step /\ Acks)
==============================================================================
