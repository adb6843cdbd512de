----------------------------- MODULE SectorCopy -----------------------------
(***************************************************************************)
(* What the channel promises to the program: the memory receives the bytes *)
(* of the sector one after the other, each of them once, from the pointer  *)
(* on and as many as counted, whatever the program does between two bytes. *)
(* Seeking another sector starts at its first byte.                        *)
(***************************************************************************)
EXTENDS Naturals

CONSTANTS MemorySize, TrackCount, SectorCount, ByteCount, Counts, FromProgram, Zero

VARIABLES memory, pointer, remaining, activated, head

vars == <<memory, pointer, remaining, activated, head>>

Init ==
  /\ memory = [slot \in 0 .. MemorySize - 1 |-> Zero]
  /\ pointer = 0
  /\ remaining = 0
  /\ activated = FALSE
  /\ head = [track |-> 0, sector |-> 0, index |-> 0]

Store(byte) ==
  /\ memory' = [memory EXCEPT ![pointer] = byte]
  /\ pointer' = (pointer + 1) % MemorySize

CopyByte ==
  /\ remaining > 0
  /\ remaining' = remaining - 1
  /\ head' = [head EXCEPT !.index = (@ + 1) % ByteCount]
  /\ IF activated THEN Store(head) ELSE UNCHANGED <<memory, pointer>>
  /\ UNCHANGED activated

Load(value) ==
  /\ pointer' = value
  /\ remaining' = 0
  /\ UNCHANGED <<memory, activated, head>>

Count(value) ==
  /\ remaining' = value + 1
  /\ UNCHANGED <<memory, pointer, activated, head>>

Activate ==
  /\ activated' = TRUE
  /\ UNCHANGED <<memory, pointer, remaining, head>>

Seek(track, sector) ==
  /\ head' = [track |-> track, sector |-> sector,
              index |-> IF sector = head.sector THEN head.index ELSE 0]
  /\ UNCHANGED <<memory, pointer, remaining, activated>>

Push ==
  /\ Store(FromProgram)
  /\ remaining' = 0
  /\ UNCHANGED <<activated, head>>

Pop ==
  /\ pointer' = IF pointer = 0 THEN MemorySize - 1 ELSE pointer - 1
  /\ remaining' = 0
  /\ UNCHANGED <<memory, activated, head>>

Next ==
  \/ CopyByte
  \/ \E value \in 0 .. MemorySize - 1 : Load(value)
  \/ \E value \in Counts : Count(value)
  \/ Activate
  \/ \E track \in 0 .. TrackCount - 1, sector \in 0 .. SectorCount - 1 : Seek(track, sector)
  \/ Push
  \/ Pop

Spec == Init /\ [][Next]_vars
==============================================================================
