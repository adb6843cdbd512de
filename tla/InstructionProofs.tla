-------------------------- MODULE InstructionProofs --------------------------
(***************************************************************************)
(* What the tables of Instructions8008.tla hold: every byte decodes to an  *)
(* instruction that has cycles, three at most.                             *)
(***************************************************************************)
EXTENDS Instructions8008, FiniteSetTheorems, TLAPS

Rows == 1 .. 30

LEMMA RowsOfTable ==
  /\ DOMAIN decoding_table = Rows
  /\ \A i \in Rows : decoding_table[i].name \in InstructionName
BY DEF Rows, decoding_table, Row, Any, Below4, From4, InstructionName, instruction_table

(* A few rows have a first one. *)
LEMMA FirstOfSix ==
  ASSUME NEW a \in Nat, NEW M \in SUBSET (a .. a + 5), M # {}
  PROVE  \E i \in M : \A j \in M : i =< j
<1>1. CASE a \in M
  BY <1>1
<1>2. CASE a \notin M /\ a + 1 \in M
  BY <1>2
<1>3. CASE a \notin M /\ a + 1 \notin M /\ a + 2 \in M
  BY <1>3
<1>4. CASE a \notin M /\ a + 1 \notin M /\ a + 2 \notin M /\ a + 3 \in M
  BY <1>4
<1>5. CASE a \notin M /\ a + 1 \notin M /\ a + 2 \notin M /\ a + 3 \notin M
  <2>1. M \subseteq {a + 4, a + 5}
    BY <1>5
  <2>2. CASE a + 4 \in M
    BY <2>1, <2>2
  <2>3. CASE a + 4 \notin M
    <3>1. M = {a + 5}
      BY <2>1, <2>3
    <3> QED
      BY <3>1
  <2> QED
    BY <2>2, <2>3
<1> QED
  BY <1>1, <1>2, <1>3, <1>4, <1>5

LEMMA FirstRow ==
  ASSUME NEW M \in SUBSET Rows, M # {}
  PROVE  \E i \in M : \A j \in M : i =< j
<1> DEFINE From(a) == M \cap (a .. a + 5)
<1>1. \A a \in Nat : From(a) # {} => \E i \in From(a) : \A j \in From(a) : i =< j
  <2> SUFFICES ASSUME NEW a \in Nat, From(a) # {}
               PROVE  \E i \in From(a) : \A j \in From(a) : i =< j
    OBVIOUS
  <2> QED
    BY FirstOfSix
<1>2. ASSUME NEW a \in Nat, From(a) # {}, M \cap (1 .. a - 1) = {}
      PROVE  \E i \in M : \A j \in M : i =< j
  <2>1. PICK i \in From(a) : \A j \in From(a) : i =< j
    BY <1>1, <1>2
  <2>2. \A j \in M : i =< j
    BY <1>2, <2>1 DEF Rows
  <2> QED
    BY <2>1, <2>2
<1>3. From(1) # {} \/ From(7) # {} \/ From(13) # {} \/ From(19) # {} \/ From(25) # {}
  <2>1. PICK i \in M : TRUE
    OBVIOUS
  <2>2. i \in 1 .. 6 \/ i \in 7 .. 12 \/ i \in 13 .. 18 \/ i \in 19 .. 24 \/ i \in 25 .. 30
    BY DEF Rows
  <2> QED
    BY <2>2
<1>4. CASE From(1) # {}
  BY <1>2, <1>4
<1>5. CASE From(1) = {} /\ From(7) # {}
  BY <1>2, <1>5
<1>6. CASE From(1) = {} /\ From(7) = {} /\ From(13) # {}
  <2>1. M \cap (1 .. 12) = {}
    BY <1>6
  <2> QED
    BY <1>2, <1>6, <2>1
<1>7. CASE From(1) = {} /\ From(7) = {} /\ From(13) = {} /\ From(19) # {}
  <2>1. M \cap (1 .. 18) = {}
    BY <1>7
  <2> QED
    BY <1>2, <1>7, <2>1
<1>8. CASE From(1) = {} /\ From(7) = {} /\ From(13) = {} /\ From(19) = {} /\ From(25) # {}
  <2>1. M \cap (1 .. 24) = {}
    BY <1>8
  <2> QED
    BY <1>2, <1>8, <2>1
<1> QED
  BY <1>3, <1>4, <1>5, <1>6, <1>7, <1>8

(* What is decoded has an entry in the table of the instructions. *)
LEMMA DecodedHasCycles ==
  ASSUME NEW instruction \in Decoded
  PROVE  instruction.name \in InstructionName
<1>1. PICK opcode \in Opcode : instruction = decode_instruction(opcode)
  BY DEF Decoded, Decoding
<1>2. unknown_instruction.name \in InstructionName
  BY DEF unknown_instruction, InstructionName, instruction_table
<1>3. CASE Matching(opcode) = {}
  BY <1>1, <1>2, <1>3 DEF decode_instruction
<1>4. CASE Matching(opcode) # {}
  <2> DEFINE first == CHOOSE i \in Matching(opcode) : \A j \in Matching(opcode) : i <= j
  <2>1. Matching(opcode) \subseteq Rows
    BY RowsOfTable DEF Matching
  <2>2. first \in Rows
    BY <1>4, <2>1, FirstRow
  <2>3. \/ instruction = unknown_instruction
        \/ instruction = [name |-> decoding_table[first].name,
                          medium |-> Medium(opcode), low |-> Low(opcode)]
    BY <1>1, <1>4 DEF decode_instruction
  <2> QED
    BY <1>2, <2>2, <2>3, RowsOfTable
<1> QED
  BY <1>3, <1>4

(* A byte that matches nothing. *)
LEMMA UnknownIsDecoded == unknown_instruction \in Decoded
<1>1. 34 \in Opcode /\ High(34) = 0 /\ Medium(34) = 4 /\ Low(34) = 2
  BY DEF Opcode, High, Medium, Low
<1>2. \A i \in Rows : ~(/\ decoding_table[i].high = 0
                        /\ 4 \in decoding_table[i].medium
                        /\ 2 \in decoding_table[i].low)
  <2>1. /\ decoding_table[2].high = 3 /\ decoding_table[3].high = 3
        /\ decoding_table[4].high = 3 /\ decoding_table[5].high = 3
        /\ decoding_table[12].high = 2 /\ decoding_table[13].high = 2
        /\ decoding_table[19].high = 1 /\ decoding_table[20].high = 1
        /\ decoding_table[21].high = 1 /\ decoding_table[22].high = 1
        /\ decoding_table[23].high = 1 /\ decoding_table[24].high = 1
        /\ decoding_table[29].high = 1 /\ decoding_table[30].high = 1
    BY DEF decoding_table, Row
  <2>3. /\ decoding_table[6].low = {6} /\ decoding_table[7].low = {6}
        /\ decoding_table[8].low = {0} /\ decoding_table[9].low = {1}
        /\ decoding_table[10].low = {0} /\ decoding_table[11].low = {1}
        /\ decoding_table[14].low = {4} /\ decoding_table[25].low = {7}
        /\ decoding_table[26].low = {3} /\ decoding_table[27].low = {3}
        /\ decoding_table[28].low = {5}
    BY DEF decoding_table, Row
  <2>4. decoding_table[1].low = {0, 1}
    BY DEF decoding_table, Row
  <2>2. /\ decoding_table[15].medium = {0} /\ decoding_table[16].medium = {1}
        /\ decoding_table[17].medium = {2} /\ decoding_table[18].medium = {3}
    BY DEF decoding_table, Row
  <2> QED
    BY <2>1, <2>2, <2>3, <2>4 DEF Rows
<1>3. Matching(34) = {}
  BY <1>1, <1>2, RowsOfTable DEF Matching
<1>4. Decoding[34] = unknown_instruction
  BY <1>1, <1>3 DEF Decoding, decode_instruction
<1> QED
  BY <1>1, <1>4 DEF Decoded

(* An instruction has one to three cycles, the first a fetch. *)
LEMMA ThreeCycles ==
  ASSUME NEW name \in InstructionName
  PROVE  LET cycles == instruction_table[name] IN
         /\ DOMAIN cycles = 1 .. Len(cycles) /\ Len(cycles) \in 1 .. 3
         /\ \A i \in DOMAIN cycles : cycles[i].control \in CycleControl
<1> DEFINE cycles == instruction_table[name]
           Short == {"Lrr", "INr", "DCr", "ALU_OPr", "RLC", "RRC", "RAL", "RAR", "RET",
                     "RFc", "RTc", "RST", "HLT", "UNKNOWN"}
           Two == {"LrM", "LMr", "LrI", "ALU_OPM", "ALU_OPI", "INP", "OUT"}
           Long == {"LMI", "JMP", "JFc", "JTc", "CAL", "CFc", "CTc"}
<1>1. InstructionName = Short \cup Two \cup Long
  BY DEF InstructionName, instruction_table
<1>2. CASE name \in Short
  <2>1. Len(cycles) = 1 /\ DOMAIN cycles = 1 .. 1 /\ cycles[1].control = "PCI"
    <3>1. CASE name \in {"Lrr", "UNKNOWN", "RLC", "RRC", "RAL", "RAR"}
      BY <3>1 DEF instruction_table, Lrr, Rotate, Fetch, Cycle
    <3>2. CASE name \in {"RET", "RFc", "RTc"}
      BY <3>2 DEF instruction_table, Return, Conditional, Fetch, Cycle
    <3>3. CASE name \in {"INr", "DCr", "ALU_OPr", "RST", "HLT"}
      BY <3>3 DEF instruction_table, Fetch, FetchOnly, Cycle
    <3> QED
      BY <1>2, <3>1, <3>2, <3>3
  <2> QED
    BY <2>1 DEF CycleControl
<1>3. CASE name \in Two
  <2>1. Len(cycles) = 2 /\ DOMAIN cycles = 1 .. 2
    BY <1>3 DEF instruction_table
  <2>2. cycles[1].control = "PCI" /\ cycles[2].control \in CycleControl
    BY <1>3 DEF instruction_table, Fetch, FetchOnly, Read, Write, Cycle, CycleControl
  <2> QED
    BY <2>1, <2>2 DEF CycleControl
<1>4. CASE name \in Long
  <2>1. Len(cycles) = 3 /\ DOMAIN cycles = 1 .. 3
    BY <1>4 DEF instruction_table, Jump, JumpIf
  <2>2. /\ cycles[1].control = "PCI" /\ cycles[2].control = "PCR"
        /\ cycles[3].control \in CycleControl
    BY <1>4 DEF instruction_table, Jump, JumpIf, Conditional, Fetch, FetchOnly, ReadLow, ReadHigh,
       Write, Cycle, CycleControl
  <2> QED
    BY <2>1, <2>2 DEF CycleControl
<1> QED
  BY <1>1, <1>2, <1>3, <1>4

-----------------------------------------------------------------------------
(* Which row decodes an opcode. *)

LEMMA PartsOfOpcode ==
  ASSUME NEW opcode \in Opcode
  PROVE  /\ High(opcode) \in 0 .. 3
         /\ Medium(opcode) \in 0 .. 7
         /\ Low(opcode) \in 0 .. 7
         /\ opcode = 64 * High(opcode) + 8 * Medium(opcode) + Low(opcode)
BY DEF Opcode, High, Medium, Low

LEMMA RowsAre ==
  /\ decoding_table[1] = Row("HLT", 0, {0}, {0, 1})
  /\ decoding_table[2] = Row("HLT", 3, {7}, {7})
  /\ decoding_table[3] = Row("LrM", 3, Any, {7})
  /\ decoding_table[4] = Row("LMr", 3, {7}, Any)
  /\ decoding_table[5] = Row("Lrr", 3, Any, Any)
  /\ decoding_table[6] = Row("LMI", 0, {7}, {6})
  /\ decoding_table[7] = Row("LrI", 0, Any, {6})
  /\ decoding_table[8] = Row("UNKNOWN", 0, {7}, {0})
  /\ decoding_table[9] = Row("UNKNOWN", 0, {7}, {1})
  /\ decoding_table[10] = Row("INr", 0, Any, {0})
  /\ decoding_table[11] = Row("DCr", 0, Any, {1})
  /\ decoding_table[12] = Row("ALU_OPM", 2, Any, {7})
  /\ decoding_table[13] = Row("ALU_OPr", 2, Any, Any)
  /\ decoding_table[14] = Row("ALU_OPI", 0, Any, {4})
  /\ decoding_table[15] = Row("RLC", 0, {0}, {2})
  /\ decoding_table[16] = Row("RRC", 0, {1}, {2})
  /\ decoding_table[17] = Row("RAL", 0, {2}, {2})
  /\ decoding_table[18] = Row("RAR", 0, {3}, {2})
  /\ decoding_table[19] = Row("JMP", 1, Any, {4})
  /\ decoding_table[20] = Row("JFc", 1, Below4, {0})
  /\ decoding_table[21] = Row("JTc", 1, From4, {0})
  /\ decoding_table[22] = Row("CAL", 1, Any, {6})
  /\ decoding_table[23] = Row("CFc", 1, Below4, {2})
  /\ decoding_table[24] = Row("CTc", 1, From4, {2})
  /\ decoding_table[25] = Row("RET", 0, Any, {7})
  /\ decoding_table[26] = Row("RFc", 0, Below4, {3})
  /\ decoding_table[27] = Row("RTc", 0, From4, {3})
  /\ decoding_table[28] = Row("RST", 0, Any, {5})
  /\ decoding_table[29] = Row("INP", 1, {0, 1}, {1, 3, 5, 7})
  /\ decoding_table[30] = Row("OUT", 1, Any, {1, 3, 5, 7})
BY DEF decoding_table

(* The rows that match, by the three parts of the opcode. *)
LEMMA Matches ==
  ASSUME NEW opcode \in Opcode
  PROVE  LET h == High(opcode)
             m == Medium(opcode)
             l == Low(opcode)
             M == Matching(opcode)
         IN
         /\ (1 \in M <=> h = 0 /\ m = 0 /\ l \in {0, 1})
         /\ (2 \in M <=> h = 3 /\ m = 7 /\ l = 7)
         /\ (3 \in M <=> h = 3 /\ l = 7)
         /\ (4 \in M <=> h = 3 /\ m = 7)
         /\ (5 \in M <=> h = 3)
         /\ (6 \in M <=> h = 0 /\ m = 7 /\ l = 6)
         /\ (7 \in M <=> h = 0 /\ l = 6)
         /\ (8 \in M <=> h = 0 /\ m = 7 /\ l = 0)
         /\ (9 \in M <=> h = 0 /\ m = 7 /\ l = 1)
         /\ (10 \in M <=> h = 0 /\ l = 0)
         /\ (11 \in M <=> h = 0 /\ l = 1)
         /\ (12 \in M <=> h = 2 /\ l = 7)
         /\ (13 \in M <=> h = 2)
         /\ (14 \in M <=> h = 0 /\ l = 4)
         /\ (15 \in M <=> h = 0 /\ m = 0 /\ l = 2)
         /\ (16 \in M <=> h = 0 /\ m = 1 /\ l = 2)
         /\ (17 \in M <=> h = 0 /\ m = 2 /\ l = 2)
         /\ (18 \in M <=> h = 0 /\ m = 3 /\ l = 2)
         /\ (19 \in M <=> h = 1 /\ l = 4)
         /\ (20 \in M <=> h = 1 /\ m < 4 /\ l = 0)
         /\ (21 \in M <=> h = 1 /\ m >= 4 /\ l = 0)
         /\ (22 \in M <=> h = 1 /\ l = 6)
         /\ (23 \in M <=> h = 1 /\ m < 4 /\ l = 2)
         /\ (24 \in M <=> h = 1 /\ m >= 4 /\ l = 2)
         /\ (25 \in M <=> h = 0 /\ l = 7)
         /\ (26 \in M <=> h = 0 /\ m < 4 /\ l = 3)
         /\ (27 \in M <=> h = 0 /\ m >= 4 /\ l = 3)
         /\ (28 \in M <=> h = 0 /\ l = 5)
         /\ (29 \in M <=> h = 1 /\ m \in {0, 1} /\ l \in {1, 3, 5, 7})
         /\ (30 \in M <=> h = 1 /\ l \in {1, 3, 5, 7})
<1> DEFINE h == High(opcode)
           m == Medium(opcode)
           l == Low(opcode)
           M == Matching(opcode)
<1>1. h \in 0 .. 3 /\ m \in 0 .. 7 /\ l \in 0 .. 7
  BY PartsOfOpcode
<1>2. \A i \in Rows : i \in M <=> /\ decoding_table[i].high = h
                                  /\ m \in decoding_table[i].medium
                                  /\ l \in decoding_table[i].low
  BY RowsOfTable DEF Matching
<1> HIDE DEF h, m, l, M
<1>3. /\ (1 \in M <=> h = 0 /\ m = 0 /\ l \in {0, 1})
      /\ (2 \in M <=> h = 3 /\ m = 7 /\ l = 7)
      /\ (3 \in M <=> h = 3 /\ l = 7)
      /\ (4 \in M <=> h = 3 /\ m = 7)
      /\ (5 \in M <=> h = 3)
  BY <1>1, <1>2, RowsAre DEF Rows, Row, Any, Below4, From4
<1>4. /\ (6 \in M <=> h = 0 /\ m = 7 /\ l = 6)
      /\ (7 \in M <=> h = 0 /\ l = 6)
      /\ (8 \in M <=> h = 0 /\ m = 7 /\ l = 0)
      /\ (9 \in M <=> h = 0 /\ m = 7 /\ l = 1)
      /\ (10 \in M <=> h = 0 /\ l = 0)
  BY <1>1, <1>2, RowsAre DEF Rows, Row, Any, Below4, From4
<1>5. /\ (11 \in M <=> h = 0 /\ l = 1)
      /\ (12 \in M <=> h = 2 /\ l = 7)
      /\ (13 \in M <=> h = 2)
      /\ (14 \in M <=> h = 0 /\ l = 4)
      /\ (15 \in M <=> h = 0 /\ m = 0 /\ l = 2)
  BY <1>1, <1>2, RowsAre DEF Rows, Row, Any, Below4, From4
<1>6. /\ (16 \in M <=> h = 0 /\ m = 1 /\ l = 2)
      /\ (17 \in M <=> h = 0 /\ m = 2 /\ l = 2)
      /\ (18 \in M <=> h = 0 /\ m = 3 /\ l = 2)
      /\ (19 \in M <=> h = 1 /\ l = 4)
      /\ (20 \in M <=> h = 1 /\ m < 4 /\ l = 0)
  BY <1>1, <1>2, RowsAre DEF Rows, Row, Any, Below4, From4
<1>7. /\ (21 \in M <=> h = 1 /\ m >= 4 /\ l = 0)
      /\ (22 \in M <=> h = 1 /\ l = 6)
      /\ (23 \in M <=> h = 1 /\ m < 4 /\ l = 2)
      /\ (24 \in M <=> h = 1 /\ m >= 4 /\ l = 2)
      /\ (25 \in M <=> h = 0 /\ l = 7)
  BY <1>1, <1>2, RowsAre DEF Rows, Row, Any, Below4, From4
<1>8. /\ (26 \in M <=> h = 0 /\ m < 4 /\ l = 3)
      /\ (27 \in M <=> h = 0 /\ m >= 4 /\ l = 3)
      /\ (28 \in M <=> h = 0 /\ l = 5)
      /\ (29 \in M <=> h = 1 /\ m \in {0, 1} /\ l \in {1, 3, 5, 7})
      /\ (30 \in M <=> h = 1 /\ l \in {1, 3, 5, 7})
  BY <1>1, <1>2, RowsAre DEF Rows, Row, Any, Below4, From4
<1> QED
  BY <1>3, <1>4, <1>5, <1>6, <1>7, <1>8 DEF h, m, l, M

(* The row of an opcode is the first that matches. *)
LEMMA FirstMatches ==
  ASSUME NEW opcode \in Opcode, Matching(opcode) # {}
  PROVE  \E i \in Matching(opcode) :
           /\ \A j \in Matching(opcode) : i =< j
           /\ Decoding[opcode] =
                IF decoding_table[i].name = "UNKNOWN" THEN unknown_instruction
                ELSE [name |-> decoding_table[i].name,
                      medium |-> Medium(opcode), low |-> Low(opcode)]
<1> DEFINE M == Matching(opcode)
           first == CHOOSE i \in M : \A j \in M : i <= j
<1>1. M \subseteq Rows
  BY RowsOfTable DEF Matching
<1>2. first \in M /\ \A j \in M : first =< j
  BY <1>1, FirstRow
<1>3. Decoding[opcode] = decode_instruction(opcode)
  BY DEF Decoding
<1>4. Decoding[opcode] =
        IF decoding_table[first].name = "UNKNOWN" THEN unknown_instruction
        ELSE [name |-> decoding_table[first].name,
              medium |-> Medium(opcode), low |-> Low(opcode)]
  BY <1>3 DEF decode_instruction
<1> HIDE DEF first
<1> QED
  BY <1>2, <1>4

(* The first row that matches, and another that does. *)
Overlapping ==
  {<<1, 10>>, <<1, 11>>, <<2, 3>>, <<2, 4>>, <<2, 5>>, <<3, 5>>, <<4, 5>>, <<6, 7>>,
   <<8, 10>>, <<9, 11>>, <<12, 13>>, <<29, 30>>}

LEMMA Overlap ==
  ASSUME NEW opcode \in Opcode, NEW i \in Matching(opcode), NEW j \in Matching(opcode),
         \A k \in Matching(opcode) : i =< k, i # j
  PROVE  <<i, j>> \in Overlapping
<1> DEFINE h == High(opcode)
           m == Medium(opcode)
           l == Low(opcode)
           M == Matching(opcode)
<1>1. h \in 0 .. 3 /\ m \in 0 .. 7 /\ l \in 0 .. 7
  BY PartsOfOpcode
<1>2. M \subseteq Rows /\ i < j
  BY RowsOfTable DEF Matching, Rows
<1>3. CASE h = 0
  <2>1. CASE l \in {0, 1}
    BY <1>1, <1>2, <1>3, <2>1, Matches DEF Rows, Overlapping
  <2>2. CASE l \in {2, 3}
    BY <1>1, <1>2, <1>3, <2>2, Matches DEF Rows, Overlapping
  <2>3. CASE l \in {4, 5, 6, 7}
    BY <1>1, <1>2, <1>3, <2>3, Matches DEF Rows, Overlapping
  <2> QED
    BY <1>1, <2>1, <2>2, <2>3
<1>4. CASE h = 1
  BY <1>1, <1>2, <1>4, Matches DEF Rows, Overlapping
<1>5. CASE h = 2
  BY <1>1, <1>2, <1>5, Matches DEF Rows, Overlapping
<1>6. CASE h = 3
  BY <1>1, <1>2, <1>6, Matches DEF Rows, Overlapping
<1> QED
  BY <1>1, <1>3, <1>4, <1>5, <1>6

(* How many opcodes a row matches. *)
Width(i) == Cardinality(decoding_table[i].medium) * Cardinality(decoding_table[i].low)

LEMMA Sizes ==
  /\ Cardinality({0}) = 1 /\ Cardinality({1}) = 1 /\ Cardinality({6}) = 1 /\ Cardinality({7}) = 1
  /\ Cardinality({0, 1}) = 2 /\ Cardinality({1, 3, 5, 7}) = 4
  /\ Cardinality(Any) = 8
<1>1. \A x : IsFiniteSet({x}) /\ Cardinality({x}) = 1
  BY FS_Singleton
<1>2. \A a, b \in Int : Cardinality(a .. b) = IF a > b THEN 0 ELSE b - a + 1
  BY FS_Interval
<1>7. Cardinality(0 .. 1) = 2 /\ Cardinality(0 .. 7) = 8
  <2>3. 0 \in Int /\ 1 \in Int /\ 7 \in Int
    OBVIOUS
  <2>1. Cardinality(0 .. 1) = IF 0 > 1 THEN 0 ELSE 1 - 0 + 1
    BY <1>2, <2>3, Zenon
  <2>2. Cardinality(0 .. 7) = IF 0 > 7 THEN 0 ELSE 7 - 0 + 1
    BY <1>2, <2>3, Zenon
  <2> QED
    BY <2>1, <2>2
<1>3. 0 .. 1 = {0, 1}
  OBVIOUS
<1>4. IsFiniteSet({1, 3}) /\ Cardinality({1, 3}) = 2
  <2>1. {1, 3} = {1} \cup {3} /\ 3 \notin {1}
    OBVIOUS
  <2>2. IsFiniteSet({1} \cup {3}) /\ Cardinality({1} \cup {3}) = Cardinality({1}) + 1
    BY <1>1, <2>1, FS_AddElement
  <2>3. Cardinality({1}) = 1
    BY <1>1, Zenon
  <2>4. IsFiniteSet({1, 3}) /\ Cardinality({1, 3}) = Cardinality({1}) + 1
    BY <2>1, <2>2, Zenon
  <2> QED
    BY <2>3, <2>4
<1>5. IsFiniteSet({1, 3, 5}) /\ Cardinality({1, 3, 5}) = 3
  <2>1. {1, 3, 5} = {1, 3} \cup {5} /\ 5 \notin {1, 3}
    OBVIOUS
  <2> QED
    BY <1>4, <2>1, FS_AddElement
<1>6. Cardinality({1, 3, 5, 7}) = 4
  <2>1. {1, 3, 5, 7} = {1, 3, 5} \cup {7} /\ 7 \notin {1, 3, 5}
    OBVIOUS
  <2> QED
    BY <1>5, <2>1, FS_AddElement
<1> QED
  BY <1>1, <1>3, <1>6, <1>7 DEF Any

(* Of the rows that match an opcode, the first is the narrowest. *)
LEMMA FirstIsNarrowest ==
  ASSUME NEW opcode \in Opcode, NEW i \in Matching(opcode), NEW j \in Matching(opcode),
         \A k \in Matching(opcode) : i =< k, i # j
  PROVE  Width(i) < Width(j)
<1>1. <<i, j>> \in Overlapping
  BY Overlap
<1>2. /\ decoding_table[1].medium = {0} /\ decoding_table[1].low = {0, 1}
      /\ decoding_table[2].medium = {7} /\ decoding_table[2].low = {7}
      /\ decoding_table[3].medium = Any /\ decoding_table[3].low = {7}
      /\ decoding_table[4].medium = {7} /\ decoding_table[4].low = Any
      /\ decoding_table[5].medium = Any /\ decoding_table[5].low = Any
  BY RowsAre DEF Row
<1>3. /\ Width(1) = Cardinality({0}) * Cardinality({0, 1})
      /\ Width(2) = Cardinality({7}) * Cardinality({7})
      /\ Width(3) = Cardinality(Any) * Cardinality({7})
      /\ Width(4) = Cardinality({7}) * Cardinality(Any)
      /\ Width(5) = Cardinality(Any) * Cardinality(Any)
  BY <1>2, Zenon DEF Width
<1>4. Width(1) = 2 /\ Width(2) = 1 /\ Width(3) = 8 /\ Width(4) = 8 /\ Width(5) = 64
  BY <1>3, Sizes
<1>5. /\ decoding_table[6].medium = {7} /\ decoding_table[6].low = {6}
      /\ decoding_table[7].medium = Any /\ decoding_table[7].low = {6}
      /\ decoding_table[8].medium = {7} /\ decoding_table[8].low = {0}
      /\ decoding_table[9].medium = {7} /\ decoding_table[9].low = {1}
      /\ decoding_table[10].medium = Any /\ decoding_table[10].low = {0}
      /\ decoding_table[11].medium = Any /\ decoding_table[11].low = {1}
  BY RowsAre DEF Row
<1>6. /\ Width(6) = Cardinality({7}) * Cardinality({6})
      /\ Width(7) = Cardinality(Any) * Cardinality({6})
      /\ Width(8) = Cardinality({7}) * Cardinality({0})
      /\ Width(9) = Cardinality({7}) * Cardinality({1})
      /\ Width(10) = Cardinality(Any) * Cardinality({0})
      /\ Width(11) = Cardinality(Any) * Cardinality({1})
  BY <1>5, Zenon DEF Width
<1>7. Width(6) = 1 /\ Width(7) = 8 /\ Width(8) = 1 /\ Width(9) = 1 /\ Width(10) = 8 /\ Width(11) = 8
  BY <1>6, Sizes
<1>8. /\ decoding_table[12].medium = Any /\ decoding_table[12].low = {7}
      /\ decoding_table[13].medium = Any /\ decoding_table[13].low = Any
      /\ decoding_table[29].medium = {0, 1} /\ decoding_table[29].low = {1, 3, 5, 7}
      /\ decoding_table[30].medium = Any /\ decoding_table[30].low = {1, 3, 5, 7}
  BY RowsAre DEF Row
<1>9. /\ Width(12) = Cardinality(Any) * Cardinality({7})
      /\ Width(13) = Cardinality(Any) * Cardinality(Any)
      /\ Width(29) = Cardinality({0, 1}) * Cardinality({1, 3, 5, 7})
      /\ Width(30) = Cardinality(Any) * Cardinality({1, 3, 5, 7})
  BY <1>8, Zenon DEF Width
<1>10. Width(12) = 8 /\ Width(13) = 64 /\ Width(29) = 8 /\ Width(30) = 32
  BY <1>9, Sizes
<1> QED
  BY <1>1, <1>4, <1>7, <1>10 DEF Overlapping

(* What the rows before have not left to an instruction. *)
LEMMA OperandsOfDecoded ==
  ASSUME NEW instruction \in Decoded
  PROVE  LET m == instruction.medium
             l == instruction.low
         IN
         /\ instruction.name \in {"Lrr", "ALU_OPr", "LMr"} => l # 7
         /\ instruction.name \in {"Lrr", "LrM", "LrI"} => m # 7
         /\ instruction.name \in {"INr", "DCr"} => m \notin {0, 7}
         /\ instruction.name = "UNKNOWN" => m = 0 /\ l = 0
<1>1. PICK opcode \in Opcode : instruction = Decoding[opcode]
  BY DEF Decoded
<1> DEFINE h == High(opcode)
           m == Medium(opcode)
           l == Low(opcode)
           M == Matching(opcode)
<1>2. CASE M = {}
  BY <1>1, <1>2 DEF Decoding, decode_instruction, unknown_instruction
<1>3. CASE M # {}
  <2>1. PICK i \in M :
           /\ \A j \in M : i =< j
           /\ Decoding[opcode] =
                IF decoding_table[i].name = "UNKNOWN" THEN unknown_instruction
                ELSE [name |-> decoding_table[i].name, medium |-> m, low |-> l]
    BY <1>3, FirstMatches
  <2>2. i \in Rows
    BY RowsOfTable DEF Matching
  <2>3. h \in 0 .. 3 /\ m \in 0 .. 7 /\ l \in 0 .. 7
    BY PartsOfOpcode
  <2>4. CASE decoding_table[i].name = "UNKNOWN"
    BY <1>1, <2>1, <2>4 DEF unknown_instruction
  <2>5. CASE decoding_table[i].name # "UNKNOWN"
    <3> HIDE DEF h, m, l, M
    <3>1. instruction = [name |-> decoding_table[i].name, medium |-> m, low |-> l]
      BY <1>1, <2>1, <2>5
    <3>2. /\ decoding_table[i].name = "Lrr" => i = 5
          /\ decoding_table[i].name = "ALU_OPr" => i = 13
          /\ decoding_table[i].name = "LMr" => i = 4
          /\ decoding_table[i].name = "LrM" => i = 3
          /\ decoding_table[i].name = "LrI" => i = 7
          /\ decoding_table[i].name = "INr" => i = 10
          /\ decoding_table[i].name = "DCr" => i = 11
      BY <2>2, RowsAre DEF Rows, Row
    <3>3. \A j \in 1 .. 30 : j < i => j \notin M
      BY <2>1, <2>2 DEF Rows
    <3>4. /\ i = 5 => m # 7 /\ l # 7
          /\ i = 13 => l # 7
          /\ i = 4 => l # 7
          /\ i = 3 => m # 7
          /\ i = 7 => m # 7
      BY <2>1, <2>3, <3>3, Matches DEF h, m, l, M
    <3>5. i \in {10, 11} => m \notin {0, 7}
      BY <2>1, <2>3, <3>3, Matches DEF h, m, l, M
    <3> QED
      BY <2>5, <3>1, <3>2, <3>4, <3>5
  <2> QED
    BY <2>4, <2>5
<1> QED
  BY <1>2, <1>3
==============================================================================
