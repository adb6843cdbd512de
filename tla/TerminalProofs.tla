---------------------------- MODULE TerminalProofs ----------------------------
(***************************************************************************)
(* Proofs about Terminal.tla, for any lines, any program and any number of *)
(* characters.                                                             *)
(***************************************************************************)
EXTENDS TerminalProperties, SequenceTheorems, TLAPS

Chars == Seq(Char)

(* The types the proofs need. *)
StringsTyped ==
  /\ local_str \in Chars
  /\ str \in Chars
  /\ chars_to_send \in Chars
  /\ input_queue \in Chars
  /\ received \in Chars
  /\ input_data \in Char

FlagsTyped ==
  /\ input_ready_PE \in BOOLEAN
  /\ seen_ready \in BOOLEAN
  /\ ack \in [Terminals -> {"idle", "launched", "high"}]

(* The hand-over of a line: the keyboard's thread only leaves its wait when *)
(* the shared string is empty, and the main loop only empties a string that *)
(* it has appended.                                                         *)
HandOver ==
  /\ keyboard \in {"waiting", "reading", "storing"}
  /\ keyboard # "storing" => local_str = <<>>
  /\ keyboard # "waiting" => str = <<>>
  /\ main \in {"line", "flush"} => str # <<>>

(* StatusIsTrue, without sequences. *)
StatusFollows ==
  /\ combined_status = 128 + IF input_ready_PE THEN 1 ELSE 0
  /\ seen_ready => input_ready_PE /\ ack[0] # "launched"

(* The inductive invariant. *)
IInv == StringsTyped /\ FlagsTyped /\ HandOver /\ StatusFollows

-----------------------------------------------------------------------------
(* Sequences of characters. *)

LEMMA Closed ==
  /\ <<>> \in Chars
  /\ \A c \in Char : <<c>> \in Chars
  /\ \A s, t \in Chars : s \o t \in Chars
  /\ \A s \in Chars : s \o <<>> = s /\ <<>> \o s = s
<1>1. <<>> \in Chars /\ \A c \in Char : <<c>> \in Chars
  BY EmptySeq DEF Chars
<1>2. \A s, t \in Chars : s \o t \in Chars
  BY ConcatProperties DEF Chars
<1>3. \A s \in Chars : s \o <<>> = s /\ <<>> \o s = s
  BY ConcatEmptySeq DEF Chars
<1> QED
  BY <1>1, <1>2, <1>3

LEMMA Assoc == \A s, t, u \in Chars : (s \o t) \o u = s \o (t \o u)
BY ConcatAssociative DEF Chars

LEMMA HeadAndTail ==
  ASSUME NEW s \in Chars, s # <<>>
  PROVE  Head(s) \in Char /\ Tail(s) \in Chars /\ <<Head(s)>> \o Tail(s) = s
<1>1. /\ Head(s) \in Char /\ Tail(s) \in Chars /\ Len(Tail(s)) = Len(s) - 1
      /\ \A i \in 1 .. Len(Tail(s)) : Tail(s)[i] = s[i + 1]
  BY HeadTailProperties DEF Chars
<1>2. Head(s) = s[1] /\ Len(s) \in Nat
  BY DEF Chars
<1>3. <<Head(s)>> \in Chars /\ Len(<<Head(s)>>) = 1 /\ <<Head(s)>>[1] = Head(s)
  BY <1>1, Closed
<1> DEFINE t == <<Head(s)>> \o Tail(s)
<1>4. /\ t \in Chars /\ Len(t) = 1 + Len(Tail(s))
      /\ \A i \in 1 .. 1 + Len(Tail(s)) :
           t[i] = IF i <= 1 THEN <<Head(s)>>[i] ELSE Tail(s)[i - 1]
  BY <1>1, <1>3, ConcatProperties DEF Chars
<1>5. Len(t) = Len(s)
  BY <1>1, <1>2, <1>4
<1>6. \A i \in 1 .. Len(t) : t[i] = s[i]
  BY <1>1, <1>2, <1>3, <1>4, <1>5
<1>7. t = s
  BY <1>4, <1>5, <1>6, SeqEqual DEF Chars
<1> QED
  BY <1>1, <1>7

(* What a pipe does with a character that comes out. *)
LEMMA CharacterComesOut ==
  ASSUME NEW r \in Chars, NEW c \in Char, NEW rest \in Chars
  PROVE  /\ r \o (<<c>> \o rest) = Append(r, c) \o rest
         /\ Len(r) < Len(r \o (<<c>> \o rest))
         /\ (r \o (<<c>> \o rest))[Len(r) + 1] = c
<1> DEFINE whole == r \o (<<c>> \o rest)
<1>1. <<c>> \in Chars /\ <<c>> \o rest \in Chars
  BY Closed
<1>2. Append(r, c) = r \o <<c>>
  BY AppendIsConcat DEF Chars
<1>3. whole = Append(r, c) \o rest
  BY <1>1, <1>2, Assoc
<1>4. Len(r) \in Nat /\ Len(rest) \in Nat /\ Len(<<c>>) = 1
  BY LenProperties DEF Chars
<1>5. /\ Len(<<c>> \o rest) = 1 + Len(rest)
      /\ (<<c>> \o rest)[1] = <<c>>[1]
  BY <1>1, <1>4, ConcatProperties DEF Chars
<1>6. /\ Len(whole) = Len(r) + (1 + Len(rest))
      /\ whole[Len(r) + 1] = (<<c>> \o rest)[1]
  <2>1. /\ Len(whole) = Len(r) + Len(<<c>> \o rest)
        /\ \A i \in 1 .. Len(r) + Len(<<c>> \o rest) :
             whole[i] = IF i <= Len(r) THEN r[i] ELSE (<<c>> \o rest)[i - Len(r)]
    BY <1>1, ConcatProperties DEF Chars
  <2>2. Len(r) + 1 \in 1 .. Len(r) + Len(<<c>> \o rest) /\ (Len(r) + 1) - Len(r) = 1
    BY <1>4, <1>5
  <2>3. ~(Len(r) + 1 <= Len(r))
    BY <1>4
  <2> QED
    BY <1>5, <2>1, <2>2, <2>3
<1>7. Len(r) < Len(whole)
  BY <1>4, <1>6
<1> QED
  BY <1>3, <1>5, <1>6, <1>7

(* Concatenation as the provers see it: no more than its laws. *)
Cat(s, t) == s \o t

LEMMA CatCloses == \A s, t \in Chars : Cat(s, t) \in Chars
BY Closed DEF Cat

LEMMA CatAssoc == \A s, t, u \in Chars : Cat(Cat(s, t), u) = Cat(s, Cat(t, u))
BY Assoc DEF Cat

LEMMA CatEmpty == \A s \in Chars : Cat(s, <<>>) = s /\ Cat(<<>>, s) = s
BY Closed DEF Cat

(* What a pipe does with a line that goes in. *)
LEMMA LineGoesIn ==
  ASSUME NEW r \in Chars, NEW way \in Chars, NEW line \in Chars, NEW end \in Chars
  PROVE  Cat(r, Cat(way, Cat(line, end))) = Cat(Cat(Cat(r, Cat(way, <<>>)), line), end)
<1>1. Cat(way, <<>>) = way
  BY CatEmpty
<1>2. Cat(line, end) \in Chars /\ Cat(r, way) \in Chars
  BY CatCloses
<1>3. Cat(r, Cat(way, Cat(line, end))) = Cat(Cat(r, way), Cat(line, end))
  BY <1>2, CatAssoc
<1>4. Cat(Cat(r, way), Cat(line, end)) = Cat(Cat(Cat(r, way), line), end)
  BY <1>2, CatAssoc
<1> QED
  BY <1>1, <1>3, <1>4

-----------------------------------------------------------------------------
(* The parts of what is on its way. *)

OfShared == Ended(IF main = "flush" THEN <<>> ELSE str)
Rest == Cat(input_queue, Cat(chars_to_send, Cat(OfShared, Ended(local_str))))

LEMMA EndedIsChars == \A line \in Chars : Ended(line) \in Chars
BY Closed, TerminalAssumption DEF Ended

(* Both before and after a step. *)
LEMMA PartsTyped ==
  ASSUME StringsTyped, StringsTyped'
  PROVE  /\ OfShared \in Chars /\ Ended(local_str) \in Chars /\ Shown \in Chars
         /\ OfShared' \in Chars /\ Ended(local_str)' \in Chars /\ Shown' \in Chars
<1>1. OfShared \in Chars /\ Ended(local_str) \in Chars
  BY EndedIsChars, Closed DEF StringsTyped, OfShared
<1>2. OfShared' \in Chars /\ Ended(local_str)' \in Chars
  BY EndedIsChars, Closed DEF StringsTyped, OfShared
<1>3. Shown \in Chars /\ Shown' \in Chars
  BY Closed DEF StringsTyped, Shown
<1> QED
  BY <1>1, <1>2, <1>3

(* The parts in another grouping: what is shown, and the rest after it. *)
LEMMA Regroup ==
  ASSUME NEW a \in Chars, NEW b \in Chars, NEW c \in Chars, NEW d \in Chars, NEW e \in Chars
  PROVE  Cat(Cat(Cat(Cat(a, b), c), d), e) = Cat(a, Cat(b, Cat(c, Cat(d, e))))
<1>1. Cat(a, b) \in Chars /\ Cat(d, e) \in Chars
  BY CatCloses
<1>2. Cat(Cat(a, b), c) \in Chars /\ Cat(c, Cat(d, e)) \in Chars
  BY <1>1, CatCloses
<1>3. Cat(Cat(Cat(Cat(a, b), c), d), e) = Cat(Cat(Cat(a, b), c), Cat(d, e))
  BY <1>2, CatAssoc
<1>4. Cat(Cat(Cat(a, b), c), Cat(d, e)) = Cat(Cat(a, b), Cat(c, Cat(d, e)))
  BY <1>1, CatAssoc
<1>5. Cat(Cat(a, b), Cat(c, Cat(d, e))) = Cat(a, Cat(b, Cat(c, Cat(d, e))))
  BY <1>2, CatAssoc
<1> QED
  BY <1>3, <1>4, <1>5

LEMMA WayIs ==
  ASSUME StringsTyped, StringsTyped'
  PROVE  /\ OnTheirWay = Cat(Shown, Rest) /\ Rest \in Chars
         /\ OnTheirWay' = Cat(Shown', Rest') /\ Rest' \in Chars
<1>1. OnTheirWay =
        Cat(Cat(Cat(Cat(Shown, input_queue), chars_to_send), OfShared), Ended(local_str))
  BY Zenon DEF OnTheirWay, OfShared, Cat
<1>2. OnTheirWay' =
        Cat(Cat(Cat(Cat(Shown', input_queue'), chars_to_send'), OfShared'), Ended(local_str)')
  BY Zenon DEF OnTheirWay, OfShared, Cat
<1>3. OnTheirWay = Cat(Shown, Rest)
  <2>1. /\ Shown \in Chars /\ input_queue \in Chars /\ chars_to_send \in Chars
        /\ OfShared \in Chars /\ Ended(local_str) \in Chars
    BY PartsTyped DEF StringsTyped
  <2>2. Cat(Cat(Cat(Cat(Shown, input_queue), chars_to_send), OfShared), Ended(local_str))
          = Cat(Shown, Rest)
    BY <2>1, Regroup DEF Rest
  <2> QED
    BY <1>1, <2>2
<1>4. OnTheirWay' = Cat(Shown', Rest')
  <2>1. /\ Shown' \in Chars /\ input_queue' \in Chars /\ chars_to_send' \in Chars
        /\ OfShared' \in Chars /\ Ended(local_str)' \in Chars
    BY PartsTyped DEF StringsTyped
  <2>2. Cat(Cat(Cat(Cat(Shown', input_queue'), chars_to_send'), OfShared'), Ended(local_str)')
          = Cat(Shown', Rest')
    BY <2>1, Regroup DEF Rest
  <2> QED
    BY <1>2, <2>2
<1>5. Rest \in Chars /\ Rest' \in Chars
  BY PartsTyped, CatCloses DEF Rest, StringsTyped
<1> QED
  BY <1>3, <1>4, <1>5

-----------------------------------------------------------------------------
(* The inductive invariant. *)

LEMMA InitIInv == Init => IInv
<1> SUFFICES ASSUME Init PROVE IInv
  OBVIOUS
<1>1. StringsTyped
  BY Closed DEF Init, StringsTyped, Char
<1>2. FlagsTyped /\ HandOver
  BY DEF Init, FlagsTyped, HandOver, Terminals
<1>3. StatusFollows
  BY DEF Init, StatusFollows
<1> QED
  BY <1>1, <1>2, <1>3 DEF IInv

(* The keyboard's thread and the steps of the main loop that do not run    *)
(* the machine.                                                            *)
LEMMA ThreadsIInv ==
  ASSUME IInv, Keyboard \/ LineReceived \/ TakeLine \/ Flush \/ Emit
  PROVE  IInv'
<1> USE DEF IInv
<1>1. /\ FlagsTyped' /\ StatusFollows'
      /\ UNCHANGED <<received, input_data>>
  BY DEF Keyboard, WaitsForEmpty, GetLine, StoreLine, LineReceived, TakeLine, Flush, Emit,
     FlagsTyped, StatusFollows, loop, input, output, program, typing
<1>2. CASE WaitsForEmpty
  BY <1>1, <1>2 DEF WaitsForEmpty, StringsTyped, HandOver, loop, input
<1>3. ASSUME NEW line \in Lines, GetLine(line) PROVE IInv'
  <2>1. line \in Chars
    BY <1>3, TerminalAssumption DEF Chars
  <2> QED
    BY <1>1, <1>3, <2>1 DEF GetLine, StringsTyped, HandOver, loop, input
<1>4. CASE StoreLine
  BY <1>1, <1>4, Closed DEF StoreLine, StringsTyped, HandOver, loop, input
<1>5. CASE LineReceived
  BY <1>1, <1>5 DEF LineReceived, StringsTyped, HandOver, typing, input
<1>6. CASE TakeLine
  <2>1. chars_to_send' \in Chars
    BY <1>6, Closed, TerminalAssumption DEF TakeLine, StringsTyped
  <2> QED
    BY <1>1, <1>6, <2>1 DEF TakeLine, StringsTyped, HandOver, typing, input
<1>7. CASE Flush
  BY <1>1, <1>7, Closed DEF Flush, StringsTyped, HandOver, typing, input
<1>8. CASE Emit
  <2>1. chars_to_send' \in Chars /\ input_queue' \in Chars
    <3>1. CASE chars_to_send # <<>> /\ counter' = INITIAL_COUNTER
      <4>1. Head(chars_to_send) \in Char /\ Tail(chars_to_send) \in Chars
        BY <3>1, HeadAndTail DEF StringsTyped
      <4>2. Append(input_queue, Head(chars_to_send)) \in Chars
        BY <4>1, AppendProperties DEF StringsTyped, Chars
      <4> QED
        BY <1>8, <3>1, <4>1, <4>2 DEF Emit
    <3>2. CASE ~(chars_to_send # <<>> /\ counter' = INITIAL_COUNTER)
      BY <1>8, <3>2 DEF Emit, StringsTyped
    <3> QED
      BY <3>1, <3>2
  <2> QED
    BY <1>1, <1>8, <2>1 DEF Emit, StringsTyped, HandOver, typing
<1> QED
  BY <1>2, <1>3, <1>4, <1>5, <1>6, <1>7, <1>8 DEF Keyboard

(* The status stays right in each action of the cards. *)
LEMMA MachineIInv ==
  ASSUME IInv, Step
  PROVE  IInv'
<1> USE DEF IInv
<1>1. Machine /\ HandOver' /\ UNCHANGED <<local_str, str, chars_to_send>>
  BY DEF Step, HandOver, typing
<1>2. CASE SyncRises
  <2>1. input_queue' \in Chars /\ input_data' \in Char
    BY <1>2, HeadAndTail DEF SyncRises, StringsTyped
  <2>2. StringsTyped'
    BY <1>1, <1>2, <2>1 DEF SyncRises, StringsTyped, program
  <2>3. FlagsTyped'
    BY <1>2 DEF SyncRises, FlagsTyped, program
  <2>4. combined_status = 128 /\ combined_status' = WithInputReady(128, TRUE)
    BY <1>2 DEF SyncRises, StatusFollows
  <2>5. combined_status' = 129
    BY <2>4 DEF WithInputReady
  <2>6. StatusFollows'
    <3>1. ~seen_ready /\ seen_ready' = seen_ready /\ input_ready_PE' = TRUE
      BY <1>2 DEF SyncRises, StatusFollows, program
    <3> QED
      BY <2>5, <3>1 DEF StatusFollows
  <2> QED
    BY <1>1, <2>2, <2>3, <2>6
<1>3. CASE InputData
  <2>1. received' \in Chars
    BY <1>3, AppendProperties DEF InputData, StringsTyped, Chars
  <2> QED
    BY <1>1, <1>3, <2>1
    DEF InputData, StringsTyped, FlagsTyped, StatusFollows, Terminals, input
<1>4. CASE InputStatus
  <2>1. seen_ready' = (combined_status % 2 = 1)
    BY <1>4 DEF InputStatus
  <2>2. ASSUME input_ready_PE = FALSE PROVE seen_ready' = FALSE
    <3>1. combined_status = 128
      BY <2>2 DEF StatusFollows
    <3>2. ~(128 % 2 = 1)
      OBVIOUS
    <3> QED
      BY <2>1, <3>1, <3>2
  <2>3. seen_ready' \in BOOLEAN /\ ack[0] = "idle"
    BY <1>4, <2>1 DEF InputStatus, Quiet, Terminals
  <2> QED
    BY <1>1, <1>4, <2>2, <2>3 DEF InputStatus, StringsTyped, FlagsTyped, StatusFollows, input
<1>5. ASSUME NEW byte \in OutputChars, Output(byte) PROVE IInv'
  BY <1>1, <1>5 DEF Output, StringsTyped, FlagsTyped, StatusFollows, Terminals, input, program
<1>6. CASE InputAck
  <2>1. ~seen_ready
    BY <1>6 DEF InputAck, StatusFollows
  <2>2. combined_status' = 128
    <3>1. CASE input_ready_PE
      BY <1>6, <3>1 DEF InputAck, StatusFollows, WithInputReady
    <3>2. CASE ~input_ready_PE
      BY <1>6, <3>2 DEF InputAck, StatusFollows
    <3> QED
      BY <3>1, <3>2
  <2>3. FlagsTyped'
    BY <1>6 DEF InputAck, FlagsTyped, Terminals, program
  <2>4. StatusFollows'
    <3>1. input_ready_PE' = FALSE /\ seen_ready' = seen_ready
      BY <1>6 DEF InputAck, program
    <3> QED
      BY <2>1, <2>2, <3>1 DEF StatusFollows
  <2>5. StringsTyped'
    BY <1>1, <1>6 DEF InputAck, StringsTyped, program
  <2> QED
    BY <1>1, <2>3, <2>4, <2>5
<1>7. CASE OutputAck
  <2>1. combined_status \in {128, 129}
    BY DEF StatusFollows
  <2>2. PICK lowered \in {combined_status, WithOutputReady(combined_status, FALSE)} :
          combined_status' = WithOutputReady(lowered, TRUE)
    BY <1>7 DEF OutputAck
  <2>3. combined_status' = combined_status
    BY <2>1, <2>2 DEF WithOutputReady
  <2>4. FlagsTyped'
    BY <1>7 DEF OutputAck, FlagsTyped, Terminals, input, program
  <2>5. (ack[0])' = ack[0] /\ UNCHANGED <<input, program>>
    BY <1>7 DEF OutputAck, FlagsTyped, Terminals
  <2> QED
    BY <1>1, <2>3, <2>4, <2>5 DEF StringsTyped, StatusFollows, input, program
<1>8. CASE AckFalls
  BY <1>1, <1>8 DEF AckFalls, StringsTyped, FlagsTyped, StatusFollows, Terminals, input, program
<1>9. CASE UNCHANGED <<input, output, combined_status, ack, program>>
  BY <1>1, <1>9 DEF StringsTyped, FlagsTyped, StatusFollows, input, program
<1> QED
  BY <1>1, <1>2, <1>3, <1>4, <1>5, <1>6, <1>7, <1>8, <1>9 DEF Machine, Acks

LEMMA NextIInv == IInv /\ [Next]_vars => IInv'
<1>1. ASSUME IInv, UNCHANGED vars PROVE IInv'
  BY <1>1 DEF IInv, StringsTyped, FlagsTyped, HandOver, StatusFollows, vars, typing, loop, input,
     program
<1> QED
  BY <1>1, ThreadsIInv, MachineIInv DEF Next, MainLoop

-----------------------------------------------------------------------------
(* The refinement: each action is a line typed, a character received, or   *)
(* moves what is on its way without changing it.                           *)

(* What does not move. *)
Still == UNCHANGED <<received, Shown, Rest>>

LEMMA StillStutters ==
  ASSUME IInv, IInv', Still
  PROVE  UNCHANGED P!vars
<1>1. OnTheirWay' = OnTheirWay
  BY WayIs DEF IInv, Still
<1> QED
  BY <1>1 DEF Still, P!vars

(* An action of the keyboard's thread is a line, or moves nothing. *)
LEMMA KeyboardTypes ==
  ASSUME IInv, IInv', Keyboard
  PROVE  [P!Next]_P!vars
<1> USE DEF IInv
<1>1. UNCHANGED <<received, Shown, input_queue, chars_to_send, main>>
  BY DEF Keyboard, WaitsForEmpty, GetLine, StoreLine, loop, input, program, Shown
<1>2. Ended(<<>>) = <<>>
  BY DEF Ended
<1>3. CASE WaitsForEmpty
  <2>1. Still
    BY <1>1, <1>3 DEF WaitsForEmpty, Still, Rest, OfShared
  <2> QED
    BY <2>1, StillStutters
<1>4. CASE StoreLine
  <2>1. /\ OfShared = <<>> /\ OfShared' = Ended(local_str) /\ Ended(local_str)' = <<>>
    BY <1>1, <1>2, <1>4 DEF StoreLine, HandOver, OfShared
  <2>2. Cat(OfShared', Ended(local_str)') = Cat(OfShared, Ended(local_str))
    BY <2>1, PartsTyped, CatEmpty
  <2>3. Still
    BY <1>1, <2>2 DEF Still, Rest
  <2> QED
    BY <2>3, StillStutters
<1>5. ASSUME NEW line \in Lines, GetLine(line) PROVE [P!Next]_P!vars
  <2>1. local_str = <<>> /\ local_str' = line /\ UNCHANGED str
    BY <1>5 DEF GetLine, HandOver
  <2>2. OfShared' = OfShared
    BY <1>1, <2>1 DEF OfShared
  <2>3. CASE line = <<>>
    <3>1. Still
      BY <1>1, <2>1, <2>2, <2>3 DEF Still, Rest
    <3> QED
      BY <3>1, StillStutters
  <2>4. CASE line # <<>>
    <3> DEFINE way == Cat(Shown, Cat(input_queue, Cat(chars_to_send, OfShared)))
               ended == line \o <<CR>>
    <3>1. line \in Chars /\ ended \in Chars
      BY Closed, TerminalAssumption DEF Chars
    <3>2. /\ Ended(local_str) = <<>> /\ Ended(local_str)' = ended
      BY <2>1, <2>4 DEF Ended
    <3>3. way \in Chars
      BY PartsTyped, CatCloses DEF StringsTyped
    <3>4. OnTheirWay = Cat(way, <<>>) /\ OnTheirWay' = Cat(way, ended)
      <4> DEFINE Way(last) ==
            Cat(Shown, Cat(input_queue, Cat(chars_to_send, Cat(OfShared, last))))
      <4>1. ASSUME NEW last \in Chars PROVE Way(last) = Cat(way, last)
        <5>1. /\ Shown \in Chars /\ input_queue \in Chars /\ chars_to_send \in Chars
              /\ OfShared \in Chars
          BY PartsTyped DEF StringsTyped
        <5> DEFINE a == Cat(chars_to_send, OfShared)
                   b == Cat(input_queue, a)
        <5>2. a \in Chars /\ b \in Chars
          BY <5>1, CatCloses
        <5>3. Cat(chars_to_send, Cat(OfShared, last)) = Cat(a, last)
          BY <5>1, CatAssoc
        <5>4. Cat(input_queue, Cat(a, last)) = Cat(b, last)
          BY <5>1, <5>2, CatAssoc
        <5>5. Cat(Shown, Cat(b, last)) = Cat(way, last)
          BY <5>1, <5>2, CatAssoc
        <5> QED
          BY <5>3, <5>4, <5>5
      <4>2. OnTheirWay = Way(<<>>) /\ OnTheirWay' = Way(ended)
        BY <1>1, <2>2, <3>2, WayIs DEF Rest
      <4> HIDE DEF way, ended, Way
      <4>3. <<>> \in Chars
        BY Closed
      <4> QED
        BY <3>1, <4>1, <4>2, <4>3
    <3>5. received \o OnTheirWay' = (received \o OnTheirWay) \o line \o <<CR>>
      <4> HIDE DEF way
      <4>1. <<CR>> \in Chars
        BY Closed, TerminalAssumption
      <4>2. Cat(received, Cat(way, Cat(line, <<CR>>)))
              = Cat(Cat(Cat(received, Cat(way, <<>>)), line), <<CR>>)
        BY <3>1, <3>3, <4>1, LineGoesIn DEF StringsTyped
      <4>3. received \o OnTheirWay = Cat(received, Cat(way, <<>>))
        BY <3>4, Zenon DEF Cat
      <4>4. received \o OnTheirWay' = Cat(received, Cat(way, Cat(line, <<CR>>)))
        BY <3>4, Zenon DEF Cat
      <4> QED
        BY <4>2, <4>3, <4>4, Zenon DEF Cat
    <3>6. P!Type(line)
      BY <1>1, <2>4, <3>5 DEF P!Type
    <3> QED
      BY <3>6 DEF P!Next
  <2> QED
    BY <2>3, <2>4
<1> QED
  BY <1>3, <1>4, <1>5 DEF Keyboard

(* The main loop passes a line on, and its characters one by one. *)
LEMMA LoopMoves ==
  ASSUME IInv, IInv', LineReceived \/ TakeLine \/ Flush \/ Emit
  PROVE  Still
<1> USE DEF IInv
<1>1. UNCHANGED <<received, Shown, local_str>>
  BY DEF LineReceived, TakeLine, Flush, Emit, input, program, typing, Shown
<1>2. /\ input_queue \in Chars /\ chars_to_send \in Chars /\ str \in Chars
      /\ OfShared \in Chars /\ Ended(local_str) \in Chars
  BY PartsTyped DEF StringsTyped
<1>3. CASE LineReceived
  BY <1>1, <1>3 DEF LineReceived, input, Still, Rest, OfShared
<1>4. CASE Flush
  BY <1>1, <1>4 DEF Flush, input, Still, Rest, OfShared
<1>5. CASE TakeLine
  <2> DEFINE last == Ended(local_str)
             cr == <<CR>>
             line == Cat(str, cr)
  <2>1. /\ chars_to_send' = Cat(Cat(chars_to_send, str), cr)
        /\ UNCHANGED input_queue
    BY <1>5 DEF TakeLine, input, Cat
  <2>2. OfShared = line /\ OfShared' = <<>>
    BY <1>5 DEF TakeLine, HandOver, OfShared, Ended, Cat
  <2>3. cr \in Chars
    BY Closed, TerminalAssumption
  <2> HIDE DEF last, cr
  <2>4. last \in Chars /\ line \in Chars
    BY <1>2, <2>3, CatCloses DEF last
  <2>5. Cat(Cat(chars_to_send, str), cr) = Cat(chars_to_send, line)
    BY <1>2, <2>3, CatAssoc
  <2>6. Cat(Cat(chars_to_send, line), last) = Cat(chars_to_send, Cat(line, last))
    BY <1>2, <2>4, CatAssoc
  <2>7. Cat(<<>>, last) = last
    BY <2>4, CatEmpty
  <2>8. Cat(chars_to_send', Cat(OfShared', last)) = Cat(chars_to_send, Cat(OfShared, last))
    BY <2>1, <2>2, <2>5, <2>6, <2>7
  <2>9. Ended(local_str)' = last
    BY <1>1 DEF last
  <2> QED
    BY <1>1, <2>1, <2>8, <2>9 DEF Still, Rest, last
<1>6. CASE Emit
  <2> DEFINE after == Cat(OfShared, Ended(local_str))
  <2>1. OfShared' = OfShared /\ Ended(local_str)' = Ended(local_str)
    BY <1>1, <1>6 DEF Emit, OfShared
  <2>2. after \in Chars
    BY <1>2, CatCloses
  <2>3. CASE chars_to_send # <<>> /\ counter' = INITIAL_COUNTER
    <3> DEFINE head == <<Head(chars_to_send)>>
               tail == Tail(chars_to_send)
    <3>1. /\ head \in Chars /\ tail \in Chars /\ chars_to_send = Cat(head, tail)
      BY <1>2, <2>3, HeadAndTail, Closed DEF Cat
    <3>2. input_queue' = Cat(input_queue, head)
      <4>1. Head(chars_to_send) \in Char
        BY <1>2, <2>3, HeadAndTail
      <4> QED
        BY <1>2, <1>6, <2>3, <4>1, AppendIsConcat DEF Emit, Cat, Chars
    <3>3. chars_to_send' = tail
      BY <1>6, <2>3 DEF Emit
    <3> HIDE DEF head, tail, after
    <3>4. Cat(Cat(head, tail), after) = Cat(head, Cat(tail, after)) /\ Cat(tail, after) \in Chars
      BY <2>2, <3>1, CatAssoc, CatCloses
    <3>5. Cat(Cat(input_queue, head), Cat(tail, after)) = Cat(input_queue, Cat(head, Cat(tail, after)))
      BY <1>2, <3>1, <3>4, CatAssoc
    <3>6. Cat(input_queue', Cat(chars_to_send', after)) = Cat(input_queue, Cat(chars_to_send, after))
      BY <3>1, <3>2, <3>3, <3>4, <3>5
    <3> QED
      BY <1>1, <2>1, <3>6 DEF Still, Rest, after
  <2>4. CASE ~(chars_to_send # <<>> /\ counter' = INITIAL_COUNTER)
    BY <1>1, <1>6, <2>1, <2>4 DEF Emit, Still, Rest
  <2> QED
    BY <2>3, <2>4
<1> QED
  BY <1>3, <1>4, <1>5, <1>6

(* The machine: only INP 0 takes a character away, the one that is shown. *)
LEMMA StepReceives ==
  ASSUME IInv, IInv', Step
  PROVE  [P!Next]_P!vars
<1> USE DEF IInv
<1>1. UNCHANGED <<local_str, str, chars_to_send>> /\ OfShared' = OfShared /\ Machine
  BY DEF Step, typing, OfShared
<1>2. Ended(local_str)' = Ended(local_str)
  BY <1>1 DEF Ended
<1>3. ASSUME UNCHANGED <<input_queue, received, Shown>> PROVE [P!Next]_P!vars
  <2>1. Still
    BY <1>1, <1>2, <1>3 DEF Still, Rest
  <2> QED
    BY <2>1, StillStutters
<1>4. CASE SyncRises
  <2> DEFINE after == Cat(chars_to_send, Cat(OfShared, Ended(local_str)))
             head == <<Head(input_queue)>>
             tail == Tail(input_queue)
  <2>1. Shown = <<>> /\ Shown' = head /\ input_queue' = tail /\ received' = received
    BY <1>4 DEF SyncRises, Shown, Quiet, Terminals, program
  <2>2. head \in Chars /\ tail \in Chars /\ input_queue = Cat(head, tail)
    BY <1>4, HeadAndTail, Closed DEF SyncRises, StringsTyped, Cat
  <2>3. after \in Chars
    BY PartsTyped, CatCloses DEF StringsTyped
  <2>4. OnTheirWay = Cat(Shown, Cat(input_queue, after)) /\ OnTheirWay' = Cat(Shown', Cat(input_queue', after))
    BY <1>1, <1>2, WayIs DEF Rest
  <2> HIDE DEF after, head, tail
  <2>5. Cat(input_queue, after) \in Chars
    BY <2>3, CatCloses DEF StringsTyped
  <2>6. Cat(<<>>, Cat(input_queue, after)) = Cat(input_queue, after)
    BY <2>5, CatEmpty
  <2>7. Cat(Cat(head, tail), after) = Cat(head, Cat(tail, after))
    BY <2>2, <2>3, CatAssoc
  <2>8. OnTheirWay' = OnTheirWay
    BY <2>1, <2>2, <2>4, <2>6, <2>7
  <2> QED
    BY <2>1, <2>8 DEF P!vars
<1>5. CASE InputData
  <2>1. CASE ~input_ready_PE
    <3>1. UNCHANGED <<input_queue, received, Shown>>
      BY <1>5, <2>1 DEF InputData, Shown, input
    <3> QED
      BY <1>3, <3>1
  <2>2. CASE input_ready_PE
    <3>1. /\ Shown = <<input_data>> /\ Shown' = <<>> /\ UNCHANGED input_queue
          /\ received' = Append(received, input_data)
      BY <1>5, <2>2 DEF InputData, Shown, Quiet, Terminals, FlagsTyped, input
    <3>2. Rest' = Rest
      BY <1>1, <1>2, <3>1 DEF Rest
    <3>3. OnTheirWay = Cat(<<input_data>>, Rest) /\ OnTheirWay' = Rest /\ Rest \in Chars
      BY <3>1, <3>2, WayIs, CatEmpty
    <3>4. /\ received \o OnTheirWay = received \o (<<input_data>> \o Rest)
          /\ received' \o OnTheirWay' = Append(received, input_data) \o Rest
      BY <3>1, <3>3, Zenon DEF Cat
    <3>5. /\ received' \o OnTheirWay' = received \o OnTheirWay
          /\ Len(received) < Len(received \o OnTheirWay)
          /\ (received \o OnTheirWay)[Len(received) + 1] = input_data
      <4>1. received \in Chars /\ input_data \in Char /\ Rest \in Chars
        BY <3>3 DEF StringsTyped
      <4>2. /\ received \o (<<input_data>> \o Rest) = Append(received, input_data) \o Rest
            /\ Len(received) < Len(received \o (<<input_data>> \o Rest))
            /\ (received \o (<<input_data>> \o Rest))[Len(received) + 1] = input_data
        BY <4>1, CharacterComesOut, Zenon
      <4> QED
        BY <3>4, <4>2, Zenon
    <3>6. P!Receive
      BY <3>1, <3>5 DEF P!Receive
    <3> QED
      BY <3>6 DEF P!Next
  <2> QED
    BY <2>1, <2>2
<1>6. CASE InputStatus \/ (\E byte \in OutputChars : Output(byte)) \/ AckFalls
  <2>1. UNCHANGED <<input, received>> /\ (ack[0] = "launched" <=> ack'[0] = "launched")
    BY <1>6 DEF InputStatus, Output, AckFalls, Terminals, FlagsTyped, program
  <2> QED
    BY <1>3, <2>1 DEF Shown, input
<1>7. CASE InputAck
  <2>1. Shown = <<>> /\ Shown' = <<>> /\ UNCHANGED <<input_queue, received>>
    BY <1>7 DEF InputAck, Shown, program
  <2> QED
    BY <1>3, <2>1
<1>8. CASE OutputAck
  <2>1. UNCHANGED <<input, received>> /\ ack'[0] = ack[0]
    BY <1>8 DEF OutputAck, Terminals, FlagsTyped, program
  <2> QED
    BY <1>3, <2>1 DEF Shown, input
<1>9. CASE UNCHANGED <<input, output, combined_status, ack, program>>
  BY <1>3, <1>9 DEF Shown, input, program
<1> QED
  BY <1>1, <1>4, <1>5, <1>6, <1>7, <1>8, <1>9 DEF Machine, Acks

LEMMA NextRefines ==
  ASSUME IInv, IInv', [Next]_vars
  PROVE  [P!Next]_P!vars
<1>1. CASE UNCHANGED vars
  <2>1. Still
    BY <1>1 DEF Still, Shown, Rest, OfShared, vars, typing, loop, input, program
  <2> QED
    BY <2>1, StillStutters
<1> QED
  BY <1>1, KeyboardTypes, LoopMoves, StillStutters, StepReceives DEF Next, MainLoop

LEMMA InitRefines == Init => P!Init
<1> SUFFICES ASSUME Init PROVE P!Init
  OBVIOUS
<1>1. OnTheirWay = Cat(Cat(Cat(Cat(<<>>, <<>>), <<>>), <<>>), <<>>)
  BY DEF Init, OnTheirWay, Shown, Ended, Cat
<1>2. received \o OnTheirWay = Cat(<<>>, OnTheirWay)
  BY DEF Init, Cat
<1>3. OnTheirWay = <<>> /\ received \o OnTheirWay = <<>>
  BY <1>1, <1>2, CatEmpty, Closed
<1> QED
  BY <1>3 DEF Init, P!Init

-----------------------------------------------------------------------------
(* The theorems. *)

(* The inductive invariant: a line is handed over when the shared string   *)
(* is empty and taken before it is emptied, and the status follows the     *)
(* ready line of the input.                                                *)
THEOREM TerminalInvariant == Spec => []IInv
BY InitIInv, NextIInv, PTL DEF Spec

(* The status that the program reads is that of the ready lines, and what  *)
(* it says stays true until it is used.                                    *)
THEOREM StatusTold == Spec => []StatusIsTrue
<1>1. IInv => StatusIsTrue
  BY DEF IInv, StatusFollows, StatusIsTrue, Shown
<1> QED
  BY <1>1, TerminalInvariant, PTL

(* Whatever the two threads and the program do, what is typed is received  *)
(* in whole lines, in order, each character once.                          *)
THEOREM TerminalRefinement == Spec => ImplementsPipe
<1>1. IInv /\ IInv' /\ [Next]_vars => [P!Next]_P!vars
  BY NextRefines
<1> QED
  BY <1>1, InitRefines, TerminalInvariant, PTL DEF Spec, ImplementsPipe, P!Spec

-----------------------------------------------------------------------------
(* The second invariant: the way back, and the rest of the types.  *)

(* Where the two threads are, and what they hold: the rest of the types. *)
PlacesTyped ==
  /\ main \in {"step", "received", "line", "flush", "emit"}
  /\ local_str \in Lines \cup {<<>>}
  /\ str \in Lines \cup {<<>>}
  /\ lines_typed \in 0 .. MaxTyped
  /\ counter \in 1 .. INITIAL_COUNTER

(* The raw mode after n bytes of the output.  *)
RawAt(written, n) ==
  \E j \in 1 .. n : /\ written[j] \in {17, 18}
                    /\ \A k \in j + 1 .. n : written[k] \notin {19, 20}

Taken == Len(full_content)

OutputTyped ==
  /\ outputs \in Chars
  /\ full_content \in Chars
  /\ output_data \in Char
  /\ output_ready_PS \in BOOLEAN

(* The terminal has taken what was written, but for the byte whose ACK is   *)
(* launched, and it is raw as the last control character says. *)
TakesInOrder ==
  /\ Len(outputs) = Taken + IF ack[4] = "launched" THEN 1 ELSE 0
  /\ ack[4] = "launched" => output_data = outputs[Len(outputs)]
  /\ raw_output = RawAt(outputs, Taken)
  /\ \A i \in 1 .. Taken :
       full_content[i] = IF RawAt(outputs, i) THEN outputs[i] ELSE outputs[i] % 128

(* The standard output has the texts of what the terminal has taken. *)
PrintsWhatIsTaken ==
  /\ previous_content_size = Taken
  /\ printed = Texts(full_content)

OutInv == PlacesTyped /\ OutputTyped /\ TakesInOrder /\ PrintsWhatIsTaken

-----------------------------------------------------------------------------
(* The raw mode, one byte further, and in what is not written over. *)

LEMMA RawGrows ==
  ASSUME NEW s \in Chars, NEW n \in Nat, n + 1 =< Len(s)
  PROVE  RawAt(s, n + 1) <=> \/ s[n + 1] \in {17, 18}
                             \/ RawAt(s, n) /\ s[n + 1] \notin {19, 20}
<1>1. ASSUME s[n + 1] \in {17, 18} PROVE RawAt(s, n + 1)
  <2>1. n + 1 \in 1 .. n + 1 /\ (n + 1) + 1 .. n + 1 = {}
    OBVIOUS
  <2> QED
    BY <1>1, <2>1 DEF RawAt
<1>2. ASSUME RawAt(s, n), s[n + 1] \notin {19, 20} PROVE RawAt(s, n + 1)
  <2>1. PICK j \in 1 .. n : /\ s[j] \in {17, 18}
                            /\ \A k \in j + 1 .. n : s[k] \notin {19, 20}
    BY <1>2 DEF RawAt
  <2>2. \A k \in j + 1 .. n + 1 : k \in j + 1 .. n \/ k = n + 1
    OBVIOUS
  <2>3. j \in 1 .. n + 1 /\ \A k \in j + 1 .. n + 1 : s[k] \notin {19, 20}
    BY <1>2, <2>1, <2>2
  <2> QED
    BY <2>1, <2>3 DEF RawAt
<1>3. ASSUME RawAt(s, n + 1), s[n + 1] \notin {17, 18}
      PROVE  RawAt(s, n) /\ s[n + 1] \notin {19, 20}
  <2>1. PICK j \in 1 .. n + 1 : /\ s[j] \in {17, 18}
                                /\ \A k \in j + 1 .. n + 1 : s[k] \notin {19, 20}
    BY <1>3 DEF RawAt
  <2>2. j # n + 1
    BY <1>3, <2>1
  <2>3. j \in 1 .. n /\ n + 1 \in j + 1 .. n + 1 /\ \A k \in j + 1 .. n : k \in j + 1 .. n + 1
    BY <2>2
  <2> QED
    BY <2>1, <2>3 DEF RawAt
<1> QED
  BY <1>1, <1>2, <1>3

LEMMA SevenBits == \A c \in Char : c % 128 \in Char
BY DEF Char

LEMMA RawKept ==
  ASSUME NEW s, NEW t, NEW n \in Nat, \A i \in 1 .. n : t[i] = s[i]
  PROVE  \A i \in 0 .. n : RawAt(t, i) <=> RawAt(s, i)
<1> SUFFICES ASSUME NEW i \in 0 .. n PROVE RawAt(t, i) <=> RawAt(s, i)
  OBVIOUS
<1>1. \A j \in 1 .. i : j \in 1 .. n /\ \A k \in j + 1 .. i : k \in 1 .. n
  OBVIOUS
<1> QED
  BY <1>1 DEF RawAt

-----------------------------------------------------------------------------
(* What a step prints. *)

LEMMA TextOf == \A c \in Char : Representation(c) \in Nat
<1> SUFFICES ASSUME NEW c \in Char PROVE Representation(c) \in Nat
  OBVIOUS
<1> DEFINE shown == IF c = 255 THEN c ELSE c % 128
<1>1. shown \in Nat
  BY DEF Char
<1>2. {10, Nothing, DC1Text, DC2Text} \subseteq Nat
  BY DEF Nothing, DC1Text, DC2Text
<1>3. Representation(c) \in {10, Nothing, DC1Text, DC2Text, shown}
  BY DEF Representation
<1> QED
  BY <1>1, <1>2, <1>3

LEMMA TextsTyped ==
  ASSUME NEW s \in Chars
  PROVE  /\ Texts(s) \in Seq(Nat) /\ Len(Texts(s)) = Len(s)
         /\ DOMAIN Texts(s) = 1 .. Len(s)
<1>1. DOMAIN s = 1 .. Len(s) /\ Len(s) \in Nat /\ \A i \in 1 .. Len(s) : s[i] \in Char
  BY LenProperties, ElementOfSeq DEF Chars
<1>2. Texts(s) = [i \in 1 .. Len(s) |-> Representation(s[i])]
  BY <1>1 DEF Texts
<1>3. \A i \in 1 .. Len(s) : Representation(s[i]) \in Nat
  BY <1>1, TextOf
<1>4. Texts(s) \in [1 .. Len(s) -> Nat]
  BY <1>2, <1>3
<1>5. Texts(s) \in Seq(Nat)
  BY <1>1, <1>4
<1> QED
  BY <1>1, <1>2, <1>5, LenProperties

LEMMA TextsOfNothing == Texts(<<>>) = <<>>
BY DEF Texts

LEMMA TextsOfOne == \A c \in Char : Texts(<<c>>) = <<Representation(c)>>
BY DEF Texts

LEMMA TextsOfMore ==
  ASSUME NEW s \in Chars, NEW c \in Char
  PROVE  Texts(Append(s, c)) = Append(Texts(s), Representation(c))
<1> DEFINE t == Append(s, c)
           n == Len(s)
<1>1. /\ n \in Nat /\ t \in Chars /\ Len(t) = n + 1 /\ t[n + 1] = c
      /\ \A i \in 1 .. n : t[i] = s[i]
  BY AppendProperties, LenProperties DEF Chars
<1>2. /\ Texts(s) \in Seq(Nat) /\ Len(Texts(s)) = n /\ DOMAIN Texts(s) = 1 .. n
      /\ Texts(t) \in Seq(Nat) /\ Len(Texts(t)) = n + 1 /\ DOMAIN Texts(t) = 1 .. n + 1
  <2>1. t \in Chars /\ Len(t) = n + 1
    BY <1>1
  <2> HIDE DEF t
  <2> QED
    BY <2>1, TextsTyped
<1>3. Representation(c) \in Nat
  BY TextOf
<1> DEFINE u == Append(Texts(s), Representation(c))
<1>4. /\ u \in Seq(Nat) /\ Len(u) = n + 1 /\ u[n + 1] = Representation(c)
      /\ \A i \in 1 .. n : u[i] = Texts(s)[i]
  <2> DEFINE w == Texts(s)
             r == Representation(c)
  <2>1. w \in Seq(Nat) /\ Len(w) = n /\ r \in Nat
    BY <1>2, <1>3
  <2> HIDE DEF w, r
  <2>2. /\ Append(w, r) \in Seq(Nat) /\ Len(Append(w, r)) = n + 1 /\ Append(w, r)[n + 1] = r
        /\ \A i \in 1 .. n : Append(w, r)[i] = w[i]
    BY <2>1, AppendProperties
  <2> QED
    BY <2>2 DEF w, r
<1>5. \A i \in 1 .. n : Texts(s)[i] = Representation(s[i])
  BY <1>2 DEF Texts
<1>6. \A i \in 1 .. n + 1 : Texts(t)[i] = Representation(t[i])
  BY <1>2 DEF Texts
<1> HIDE DEF t, u
<1>7. \A i \in 1 .. n + 1 : Texts(t)[i] = u[i]
  <2> SUFFICES ASSUME NEW i \in 1 .. n + 1 PROVE Texts(t)[i] = u[i]
    OBVIOUS
  <2>1. CASE i = n + 1
    BY <1>1, <1>4, <1>6, <2>1
  <2>2. CASE i # n + 1
    <3>1. i \in 1 .. n
      BY <1>1, <2>2
    <3> QED
      BY <1>1, <1>4, <1>5, <1>6, <3>1
  <2> QED
    BY <2>1, <2>2
<1>8. Texts(t) = u
  BY <1>2, <1>4, <1>7, SeqEqual
<1> QED
  BY <1>8 DEF t, u

LEMMA PrintsOne ==
  ASSUME NEW s \in Chars, NEW c \in Char
  PROVE  LET t == Append(s, c) IN SubSeq(t, Len(s) + 1, Len(t)) = <<c>>
<1> DEFINE t == Append(s, c)
<1>1. Len(s) \in Nat /\ t \in Chars /\ Len(t) = Len(s) + 1 /\ t[Len(s) + 1] = c
  BY AppendProperties, LenProperties DEF Chars
<1>2. SubSeq(t, Len(s) + 1, Len(s) + 1) = <<t[Len(s) + 1]>> \o SubSeq(t, (Len(s) + 1) + 1, Len(s) + 1)
  BY <1>1, SubSeqRecursiveFirst DEF Chars
<1>3. SubSeq(t, (Len(s) + 1) + 1, Len(s) + 1) = <<>>
  BY <1>1, SubSeqEmpty
<1>4. <<c>> \o <<>> = <<c>>
  BY Closed
<1> HIDE DEF t
<1>5. SubSeq(t, Len(s) + 1, Len(t)) = <<c>>
  BY <1>1, <1>2, <1>3, <1>4
<1> QED
  BY <1>5 DEF t

LEMMA PrintsNothing ==
  ASSUME NEW s \in Chars
  PROVE  SubSeq(s, Len(s) + 1, Len(s)) = <<>>
BY SubSeqEmpty, LenProperties DEF Chars

-----------------------------------------------------------------------------
(* The second invariant is inductive, with the first. *)

LEMMA InitOutInv == Init => OutInv
<1> SUFFICES ASSUME Init PROVE OutInv
  OBVIOUS
<1>1. PlacesTyped
  BY TerminalAssumption DEF Init, PlacesTyped
<1>2. OutputTyped
  <2>1. 0 \in Char
    BY DEF Char
  <2> QED
    BY <2>1, Closed DEF Init, OutputTyped
<1>3. Taken = 0 /\ Len(outputs) = 0 /\ ack[4] = "idle"
  BY DEF Init, Taken, Terminals
<1>4. ~RawAt(outputs, 0)
  BY DEF RawAt
<1>5. TakesInOrder
  <2>1. RawAt(outputs, 0) = FALSE
    BY DEF RawAt
  <2>2. raw_output = RawAt(outputs, Taken)
    BY <1>3, <2>1 DEF Init
  <2> QED
    BY <1>3, <2>2 DEF TakesInOrder
<1>6. PrintsWhatIsTaken
  BY <1>3, TextsOfNothing DEF Init, PrintsWhatIsTaken
<1> QED
  BY <1>1, <1>2, <1>5, <1>6 DEF OutInv

(* Outside of the machine. *)
LEMMA ThreadsOutInv ==
  ASSUME IInv, OutInv, Keyboard \/ LineReceived \/ TakeLine \/ Flush \/ Emit
  PROVE  OutInv'
<1> USE DEF OutInv
<1>1. UNCHANGED <<output, ack, previous_content_size, printed>>
  BY DEF Keyboard, WaitsForEmpty, GetLine, StoreLine, LineReceived, TakeLine, Flush, Emit, loop
<1>2. OutputTyped' /\ TakesInOrder' /\ PrintsWhatIsTaken'
  BY <1>1 DEF output, OutputTyped, TakesInOrder, PrintsWhatIsTaken, Taken
<1>3. main' \in {"step", "received", "line", "flush", "emit"}
  BY DEF Keyboard, WaitsForEmpty, GetLine, StoreLine, LineReceived, TakeLine, Flush, Emit, loop,
     PlacesTyped
<1>4. \/ UNCHANGED <<local_str, str>>
      \/ \E line \in Lines : local_str' = line /\ UNCHANGED str
      \/ str' = local_str /\ local_str' = <<>>
      \/ UNCHANGED local_str /\ str' = <<>>
  BY DEF Keyboard, WaitsForEmpty, GetLine, StoreLine, LineReceived, TakeLine, Flush, Emit, typing
<1>5. local_str' \in Lines \cup {<<>>} /\ str' \in Lines \cup {<<>>}
  BY <1>4, Zenon DEF PlacesTyped
<1>6. lines_typed' \in 0 .. MaxTyped
  <2>1. lines_typed' = lines_typed \/ (lines_typed < MaxTyped /\ lines_typed' = lines_typed + 1)
    BY DEF Keyboard, WaitsForEmpty, GetLine, StoreLine, LineReceived, TakeLine, Flush, Emit,
       typing
  <2> QED
    BY <2>1, TerminalAssumption DEF PlacesTyped
<1>7. counter' \in 1 .. INITIAL_COUNTER
  <2>1. counter' = counter \/ counter' = CounterAfter(counter)
    BY DEF Keyboard, WaitsForEmpty, GetLine, StoreLine, LineReceived, TakeLine, Flush, Emit, loop
  <2>2. counter \in 1 .. INITIAL_COUNTER /\ INITIAL_COUNTER \in Nat \ {0}
    BY TerminalAssumption DEF PlacesTyped
  <2> QED
    BY <2>1, <2>2 DEF CounterAfter
<1> QED
  BY <1>2, <1>3, <1>5, <1>6, <1>7 DEF PlacesTyped

(* What the machine writes and takes. *)
LEMMA MachineTakes ==
  ASSUME IInv, OutInv, Machine
  PROVE  /\ OutputTyped' /\ TakesInOrder'
         /\ \/ UNCHANGED full_content
            \/ \E c \in Char : full_content' = Append(full_content, c)
<1> USE DEF OutInv, IInv
<1>1. Taken \in Nat /\ Len(outputs) \in Nat
  BY LenProperties DEF OutputTyped, Chars, Taken
<1>2. ASSUME UNCHANGED output, (ack[4])' = "launched" <=> ack[4] = "launched"
      PROVE  OutputTyped' /\ TakesInOrder' /\ UNCHANGED full_content
  BY <1>2 DEF output, OutputTyped, TakesInOrder, Taken
<1>3. CASE SyncRises \/ InputStatus \/ UNCHANGED <<input, output, combined_status, ack, program>>
  BY <1>2, <1>3 DEF SyncRises, InputStatus
<1>4. CASE InputData \/ InputAck \/ AckFalls
  <2>1. UNCHANGED output
    BY <1>4 DEF InputData, InputAck, AckFalls
  <2>2. ack'[4] = "launched" <=> ack[4] = "launched"
    <3>1. CASE InputData \/ InputAck
      <4>1. ack' = [ack EXCEPT ![0] = ack'[0]]
        BY <3>1 DEF InputData, InputAck, FlagsTyped, Terminals
      <4> QED
        BY <4>1 DEF FlagsTyped, Terminals
    <3>2. CASE AckFalls
      BY <3>2 DEF AckFalls, FlagsTyped, Terminals
    <3> QED
      BY <1>4, <3>1, <3>2
  <2> QED
    BY <1>2, <2>1, <2>2
<1>5. ASSUME NEW byte \in OutputChars, Output(byte)
      PROVE  OutputTyped' /\ TakesInOrder' /\ UNCHANGED full_content
  <2>1. byte \in Char
    BY <1>5, TerminalAssumption
  <2>2. /\ outputs' \in Chars /\ Len(outputs') = Len(outputs) + 1
        /\ outputs'[Len(outputs) + 1] = byte
        /\ \A i \in 1 .. Len(outputs) : outputs'[i] = outputs[i]
    BY <1>5, <2>1, AppendProperties DEF Output, OutputTyped, Chars
  <2>3. ack[4] = "idle" /\ ack'[4] = "launched"
    BY <1>5 DEF Output, Quiet, Terminals, FlagsTyped
  <2>4. Len(outputs) = Taken
    BY <1>1, <2>3 DEF TakesInOrder
  <2>5. /\ output_data' = byte
        /\ UNCHANGED <<output_ready_PS, raw_output, full_content>> /\ Taken' = Taken
    BY <1>5 DEF Output, Taken
  <2>6. \A i \in 0 .. Taken : RawAt(outputs', i) <=> RawAt(outputs, i)
    BY <1>1, <2>2, <2>4, RawKept
  <2>7. OutputTyped'
    BY <2>1, <2>2, <2>5 DEF OutputTyped
  <2>8. Len(outputs') = Taken' + IF ack'[4] = "launched" THEN 1 ELSE 0
    BY <1>1, <2>2, <2>3, <2>4, <2>5
  <2>9. output_data' = outputs'[Len(outputs')]
    BY <2>2, <2>5
  <2>10. raw_output' = RawAt(outputs, Taken) /\ RawAt(outputs, Taken) = RawAt(outputs', Taken)
    <3>1. 0 =< Taken /\ Taken =< Taken
      BY <1>1
    <3>2. RawAt(outputs', Taken) <=> RawAt(outputs, Taken)
      BY <1>1, <2>6
    <3>3. RawAt(outputs, Taken) \in BOOLEAN /\ RawAt(outputs', Taken) \in BOOLEAN
      BY DEF RawAt
    <3> QED
      BY <2>5, <3>2, <3>3 DEF TakesInOrder
  <2>11. \A i \in 1 .. Taken :
           full_content'[i] = IF RawAt(outputs', i) THEN outputs'[i] ELSE outputs'[i] % 128
    <3> SUFFICES ASSUME NEW i \in 1 .. Taken
                 PROVE  full_content'[i] = IF RawAt(outputs', i) THEN outputs'[i] ELSE outputs'[i] % 128
      OBVIOUS
    <3>1. i \in 0 .. Taken /\ i \in 1 .. Len(outputs)
      BY <1>1, <2>4
    <3>2. outputs'[i] = outputs[i] /\ (RawAt(outputs', i) <=> RawAt(outputs, i))
      BY <2>2, <2>6, <3>1
    <3>3. full_content[i] = IF RawAt(outputs, i) THEN outputs[i] ELSE outputs[i] % 128
      BY DEF TakesInOrder
    <3> QED
      BY <2>5, <3>2, <3>3
  <2>12. TakesInOrder'
    BY <2>5, <2>8, <2>9, <2>10, <2>11 DEF TakesInOrder
  <2> QED
    BY <2>5, <2>7, <2>12
<1>6. CASE OutputAck
  <2> DEFINE byte == output_data
             n == Taken + 1
             c == Received(byte)
  <2>1. Len(outputs) = n /\ byte = outputs[n] /\ byte \in Char /\ n \in 1 .. Len(outputs)
    BY <1>1, <1>6 DEF OutputAck, TakesInOrder, OutputTyped
  <2>2. RawAfter(byte) = RawAt(outputs, n)
    <3>1. RawAt(outputs, n) <=> \/ byte \in {17, 18}
                                \/ RawAt(outputs, Taken) /\ byte \notin {19, 20}
      BY <1>1, <2>1, RawGrows DEF OutputTyped
    <3>2. raw_output = RawAt(outputs, Taken)
      BY DEF TakesInOrder
    <3>3. RawAt(outputs, Taken) \in BOOLEAN /\ RawAt(outputs, n) \in BOOLEAN
      BY DEF RawAt
    <3>4. CASE byte \in {17, 18}
      <4>1. RawAfter(byte) = TRUE
        BY <3>4 DEF RawAfter
      <4> QED
        BY <3>1, <3>3, <3>4, <4>1
    <3>5. CASE byte \in {19, 20}
      <4>1. RawAfter(byte) = FALSE
        BY <3>5 DEF RawAfter
      <4>2. byte \notin {17, 18}
        BY <3>5
      <4> QED
        BY <3>1, <3>3, <3>5, <4>1, <4>2
    <3>6. CASE byte \notin {17, 18, 19, 20}
      <4>1. RawAfter(byte) = raw_output
        BY <3>6 DEF RawAfter
      <4> QED
        BY <3>1, <3>2, <3>3, <3>6, <4>1
    <3> QED
      BY <3>4, <3>5, <3>6
  <2>3. c = IF RawAt(outputs, n) THEN outputs[n] ELSE outputs[n] % 128
    BY <2>1, <2>2 DEF Received
  <2>4. c \in Char
    <3>1. byte % 128 \in Char
      BY <2>1, SevenBits
    <3> QED
      BY <2>1, <3>1 DEF Received
  <2>5. /\ raw_output' = RawAfter(byte) /\ full_content' = Append(full_content, c)
        /\ output_ready_PS' = TRUE /\ UNCHANGED <<output_data, outputs>>
        /\ ack'[4] = "high"
    BY <1>6 DEF OutputAck, Terminals, FlagsTyped
  <2> HIDE DEF c
  <2>6. /\ full_content' \in Chars /\ Taken' = n /\ full_content'[n] = c
        /\ \A i \in 1 .. Taken : full_content'[i] = full_content[i]
    BY <2>4, <2>5, AppendProperties DEF OutputTyped, Taken, Chars
  <2>7. OutputTyped'
    BY <2>5, <2>6 DEF OutputTyped
  <2>8. \A i \in 1 .. n :
          full_content'[i] = IF RawAt(outputs, i) THEN outputs[i] ELSE outputs[i] % 128
    <3> SUFFICES ASSUME NEW i \in 1 .. n
                 PROVE  full_content'[i] = IF RawAt(outputs, i) THEN outputs[i] ELSE outputs[i] % 128
      OBVIOUS
    <3>1. CASE i = n
      BY <2>3, <2>6, <3>1
    <3>2. CASE i # n
      <4>1. i \in 1 .. Taken
        BY <1>1, <3>2
      <4> QED
        BY <2>6, <4>1 DEF TakesInOrder
    <3> QED
      BY <3>1, <3>2
  <2>9. Len(outputs') = Taken' + IF ack'[4] = "launched" THEN 1 ELSE 0
    BY <2>1, <2>5, <2>6
  <2>10. raw_output' = RawAt(outputs', Taken')
    BY <2>2, <2>5, <2>6
  <2>11. TakesInOrder'
    BY <2>5, <2>6, <2>8, <2>9, <2>10 DEF TakesInOrder
  <2> QED
    BY <2>4, <2>5, <2>7, <2>11
<1> QED
  BY <1>3, <1>4, <1>5, <1>6 DEF Machine, Acks

LEMMA StepOutInv ==
  ASSUME IInv, OutInv, Step
  PROVE  OutInv'
<1> USE DEF OutInv
<1>1. /\ OutputTyped' /\ TakesInOrder'
      /\ \/ UNCHANGED full_content
         \/ \E c \in Char : full_content' = Append(full_content, c)
  BY MachineTakes DEF Step
<1>2. PlacesTyped'
  BY DEF Step, PlacesTyped, typing
<1>3. printed \o Texts(NewContent(full_content')) = Texts(full_content')
  <2>1. /\ NewContent(full_content')
             = SubSeq(full_content', Len(full_content) + 1, Len(full_content'))
        /\ printed = Texts(full_content)
    BY DEF NewContent, PrintsWhatIsTaken, Taken
  <2>2. full_content \in Chars /\ printed \in Seq(Nat)
    BY <2>1, TextsTyped DEF OutputTyped
  <2>3. CASE UNCHANGED full_content
    <3>1. NewContent(full_content') = <<>>
      BY <2>1, <2>2, <2>3, PrintsNothing
    <3>2. printed \o <<>> = printed
      BY <2>2, ConcatEmptySeq
    <3> QED
      BY <2>1, <2>3, <3>1, <3>2, TextsOfNothing
  <2>4. ASSUME NEW c \in Char, full_content' = Append(full_content, c)
        PROVE  printed \o Texts(NewContent(full_content')) = Texts(full_content')
    <3>1. NewContent(full_content') = <<c>>
      BY <2>1, <2>2, <2>4, PrintsOne
    <3>2. Texts(full_content') = Append(printed, Representation(c))
      BY <2>1, <2>2, <2>4, TextsOfMore
    <3>3. printed \o <<Representation(c)>> = Append(printed, Representation(c))
      BY <2>2, TextOf, AppendIsConcat
    <3> QED
      BY <3>1, <3>2, <3>3, TextsOfOne
  <2> QED
    BY <1>1, <2>3, <2>4
<1>4. PrintsWhatIsTaken'
  BY <1>3 DEF Step, PrintsWhatIsTaken, Taken
<1> QED
  BY <1>1, <1>2, <1>4

LEMMA NextOutInv == IInv /\ OutInv /\ [Next]_vars => OutInv'
<1>1. ASSUME OutInv, UNCHANGED vars PROVE OutInv'
  BY <1>1 DEF OutInv, PlacesTyped, OutputTyped, TakesInOrder, PrintsWhatIsTaken, Taken, vars,
     typing, loop, output
<1> QED
  BY <1>1, ThreadsOutInv, StepOutInv DEF Next, MainLoop

(* The second invariant: what was written, taken and printed.  *)
THEOREM TerminalOutput == Spec => []OutInv
BY InitOutInv, NextOutInv, TerminalInvariant, PTL DEF Spec

(* The types of the variables.  *)
THEOREM TerminalTypeOK == Spec => []TypeOK
<1>1. ASSUME IInv, OutInv PROVE TypeOK
  <2> USE <1>1 DEF IInv, OutInv
  <2>1. Char \subseteq Nat
    BY DEF Char
  <2>2. \A s \in Chars : s \in Seq(Nat)
    BY <2>1, SeqMonotonic DEF Chars
  <2>3. /\ {chars_to_send, input_queue, received, full_content, outputs, printed} \subseteq Seq(Nat)
        /\ previous_content_size = Len(printed)
    BY <2>2, TextsTyped DEF StringsTyped, OutputTyped, PrintsWhatIsTaken, Taken
  <2>4. combined_status \in 0 .. 255
    BY DEF StatusFollows, FlagsTyped
  <2>5. {input_data, combined_status, output_data} \subseteq 0 .. 255
    BY <2>4 DEF StringsTyped, OutputTyped, Char
  <2>6. raw_output \in BOOLEAN
    <3>1. RawAt(outputs, Taken) \in BOOLEAN
      BY DEF RawAt
    <3> QED
      BY <3>1 DEF TakesInOrder
  <2>7. {input_ready_PE, output_ready_PS, raw_output, seen_ready} \subseteq BOOLEAN
    BY <2>6 DEF FlagsTyped, OutputTyped
  <2> QED
    BY <2>3, <2>5, <2>7 DEF TypeOK, PlacesTyped, HandOver, FlagsTyped
<1> QED
  BY <1>1, TerminalInvariant, TerminalOutput, PTL

(* What is printed is what the program has written, each byte once and in  *)
(* order, as the text of its 7 bits, or of 255 in the raw mode.            *)
THEOREM OutputPrinted == Spec => []PrintsTheOutput
<1>1. ASSUME OutInv PROVE PrintsTheOutput
  <2> USE <1>1 DEF OutInv
  <2>1. /\ Taken \in Nat /\ DOMAIN printed = 1 .. Taken /\ Len(printed) = Taken
        /\ DOMAIN full_content = 1 .. Taken /\ Len(outputs) \in Nat
        /\ \A i \in 1 .. Len(outputs) : outputs[i] \in 0 .. 255
    BY LenProperties, ElementOfSeq, TextsTyped
       DEF PrintsWhatIsTaken, OutputTyped, Chars, Taken, Char
  <2>2. Len(printed) =< Len(outputs) /\ Taken =< Len(outputs)
    BY <2>1 DEF TakesInOrder
  <2>3. ASSUME NEW i \in DOMAIN printed
        PROVE  LET b == IF RawAt(outputs, i) /\ outputs[i] = 255 THEN 255 ELSE outputs[i] % 128
               IN  printed[i] = CASE b = 13 -> 10
                                  [] b = 10 -> Nothing
                                  [] b = 17 -> DC1Text
                                  [] b = 18 -> DC2Text
                                  [] OTHER -> b
    <3> DEFINE b == IF RawAt(outputs, i) /\ outputs[i] = 255 THEN 255 ELSE outputs[i] % 128
               c == full_content[i]
               shown == IF c = 255 THEN c ELSE c % 128
    <3>1. printed[i] = Representation(c)
      BY <2>1 DEF PrintsWhatIsTaken, Texts
    <3>2. c = IF RawAt(outputs, i) THEN outputs[i] ELSE outputs[i] % 128
      BY <2>1 DEF TakesInOrder
    <3>3. outputs[i] \in 0 .. 255
      <4>1. i \in 1 .. Len(outputs)
        <5>1. i \in 1 .. Taken
          BY <2>1
        <5> QED
          BY <2>1, <2>2, <5>1
      <4> QED
        BY <2>1, <4>1
    <3>4. shown = b
      <4>1. (outputs[i] % 128) \in 0 .. 127 /\ (outputs[i] % 128) % 128 = outputs[i] % 128
        BY <3>3
      <4> QED
        BY <3>2, <3>3, <4>1
    <3> QED
      BY <3>1, <3>4 DEF Representation
  <2> QED
    BY <2>2, <2>3 DEF PrintsTheOutput, RawAt
<1> QED
  BY <1>1, TerminalOutput, PTL
==============================================================================
