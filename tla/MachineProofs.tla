---------------------------- MODULE MachineProofs ----------------------------
(***************************************************************************)
(* Proofs about Machine.tla and its parts, for every file, every image and *)
(* every layout of a disk, every size of a page and every I/O address.     *)
(***************************************************************************)
EXTENDS MachineProperties, InstructionProofs, WellFoundedInduction, TLAPS

-----------------------------------------------------------------------------
(* Induction and recursion on the naturals, with sets and functions in the *)
(* place of operators.                                                     *)

LEMMA LeastNumber ==
  ASSUME NEW T, T \subseteq Nat, T # {}
  PROVE  \E x \in T : \A y \in T : x =< y
<1> DEFINE R == {ss \in Nat \X Nat : ss[1] < ss[2]}
<1>1. IsWellFoundedOn(OpToRel(<, Nat), Nat)
  BY NatLessThanWellFounded
<1>2. IsWellFoundedOn(R, Nat)
  BY <1>1 DEF OpToRel
<1> HIDE DEF R
<1>3. PICK x \in T : \A y \in T : ~(<<y, x>> \in R)
  BY <1>2, WFMin
<1>4. ASSUME NEW y \in T PROVE x =< y
  <2>1. ~(<<y, x>> \in R) /\ y \in Nat /\ x \in Nat
    BY <1>3
  <2>2. ~(y < x)
    BY <2>1 DEF R
  <2> QED
    BY <2>1, <2>2
<1> QED
  BY <1>3, <1>4

LEMMA SetInduction ==
  ASSUME NEW S, 0 \in S, \A n \in Nat : n \in S => n + 1 \in S
  PROVE  Nat \subseteq S
<1> SUFFICES ASSUME NEW m \in Nat, m \notin S PROVE FALSE
  OBVIOUS
<1> DEFINE T == {n \in Nat : n \notin S}
<1>1. PICK x \in T : \A y \in T : x =< y
  <2>1. T \subseteq Nat /\ T # {}
    OBVIOUS
  <2> HIDE DEF T
  <2> QED
    BY <2>1, LeastNumber
<1>2. x # 0 /\ x \in Nat /\ x \notin S
  BY <1>1
<1>3. x - 1 \in Nat /\ x - 1 \notin T
  BY <1>1, <1>2
<1>4. x - 1 \in S
  BY <1>3
<1>5. (x - 1) + 1 \in S
  BY <1>3, <1>4
<1> QED
  BY <1>2, <1>5

(* f is the function on 0 .. n, with values in V, that has `base` at 0 and  *)
(* is computed from its value before by `step`.                            *)
Recursive(f, n, V, base, step) ==
  /\ f \in [0 .. n -> V]
  /\ f[0] = base
  /\ \A i \in 1 .. n : f[i] = step[<<i, f[i - 1]>>]

LEMMA RecursiveFunction ==
  ASSUME NEW V, NEW base \in V, NEW n \in Nat, NEW step \in [(Nat \ {0}) \X V -> V]
  PROVE  \E f : Recursive(f, n, V, base, step)
<1> DEFINE Fits(m, f) == Recursive(f, m, V, base, step)
           S == {m \in Nat : \E f : Fits(m, f)}
<1> USE DEF Recursive
<1>1. 0 \in S
  <2>1. Fits(0, [i \in 0 .. 0 |-> base])
    OBVIOUS
  <2> QED
    BY <2>1
<1>2. ASSUME NEW m \in Nat, m \in S PROVE m + 1 \in S
  <2>1. PICK f : Fits(m, f)
    BY <1>2
  <2> DEFINE g == [i \in 0 .. m + 1 |-> IF i =< m THEN f[i] ELSE step[<<m + 1, f[m]>>]]
  <2>2. m + 1 \in Nat \ {0} /\ step[<<m + 1, f[m]>>] \in V
    BY <2>1
  <2>3. g \in [0 .. m + 1 -> V] /\ g[0] = base
    BY <2>1, <2>2
  <2>4. ASSUME NEW i \in 1 .. m + 1 PROVE g[i] = step[<<i, g[i - 1]>>]
    <3>1. i - 1 \in 0 .. m + 1 /\ i - 1 =< m /\ g[i - 1] = f[i - 1]
      OBVIOUS
    <3>2. CASE i =< m
      <4>1. g[i] = f[i] /\ i \in 1 .. m
        BY <3>2
      <4> HIDE DEF g
      <4> QED
        BY <2>1, <3>1, <4>1
    <3>3. CASE i = m + 1
      <4>1. g[i] = step[<<m + 1, f[m]>>] /\ i - 1 = m
        BY <3>3
      <4> HIDE DEF g
      <4> QED
        BY <3>1, <3>3, <4>1
    <3> QED
      BY <3>2, <3>3
  <2>5. Fits(m + 1, g)
    BY <2>3, <2>4
  <2> HIDE DEF g, Fits
  <2> QED
    BY <2>2, <2>5
<1>3. n \in S
  <2> HIDE DEF S
  <2> QED
    BY <1>1, <1>2, SetInduction
<1>4. PICK f : Fits(n, f)
  BY <1>3
<1> QED
  BY <1>4

-----------------------------------------------------------------------------
(* The disk. *)

LEMMA ElementOf ==
  ASSUME NEW S, NEW s \in Seq(S), NEW i \in 1 .. Len(s)
  PROVE  s[i] \in S
OBVIOUS

LEMMA BytesOfImage ==
  ASSUME NEW image \in Disks, NEW sector \in Sectors, NEW index \in Nat
  PROVE  get_data(image, sector, index) \in Byte
<1> DEFINE global_index == sector_size * (sector[1] * sectors + sector[2]) + index
<1>1. sector[1] \in Nat /\ sector[2] \in Nat /\ sectors \in Nat /\ sector_size \in Nat
  <2>1. \A n \in 1 .. 255 : n \in Nat /\ n - 1 \in Nat
    OBVIOUS
  <2>2. sectors \in 1 .. 255 /\ tracks \in 1 .. 255 /\ sector_size \in 1 .. 253
    BY LayoutAssumption
  <2>3. sector[1] \in 0 .. tracks - 1 /\ sector[2] \in 0 .. sectors - 1
    BY DEF Sectors
  <2> QED
    BY <2>1, <2>2, <2>3
<1>2. sector[1] * sectors \in Nat
  BY <1>1
<1>3. sector[1] * sectors + sector[2] \in Nat
  BY <1>1, <1>2
<1>4. sector_size * (sector[1] * sectors + sector[2]) \in Nat
  BY <1>1, <1>3
<1>5. global_index \in Nat
  BY <1>4
<1>6. image \in Seq(0 .. 255)
  BY LayoutAssumption
<1> HIDE DEF global_index
<1>7. global_index < Len(image) => image[global_index + 1] \in 0 .. 255
  <2> SUFFICES ASSUME global_index < Len(image) PROVE image[global_index + 1] \in 0 .. 255
    OBVIOUS
  <2>1. global_index + 1 \in 1 .. Len(image)
    BY <1>5, <1>6
  <2>2. \A i \in 1 .. Len(image) : image[i] \in 0 .. 255
    BY <1>6, ElementOf
  <2> QED
    BY <2>1, <2>2
<1> QED
  BY <1>7 DEF get_data, global_index, Byte

(* The carry is that of the signed sum, whatever was added before. *)
SignedSum(byte, sum) ==
  LET b == Signed(byte)
      s == Signed(sum)
  IN (b + s + (IF b + s \in -128 .. 127 THEN 0 ELSE 1)) % 256

LEMMA SignedCarry ==
  ASSUME NEW byte \in Byte, NEW sum \in Byte
  PROVE  (sum + byte + Carry(byte, sum)) % 256 = SignedSum(byte, sum)
<1>1. byte \in Int /\ sum \in Int /\ 0 =< byte /\ byte =< 255 /\ 0 =< sum /\ sum =< 255
  BY DEF Byte
<1>2. CASE byte < 128 /\ sum < 128
  BY <1>1, <1>2 DEF SignedSum, Signed, Carry, Negative
<1>3. CASE byte >= 128 /\ sum >= 128
  BY <1>1, <1>3 DEF SignedSum, Signed, Carry, Negative
<1>4. CASE byte < 128 /\ sum >= 128
  BY <1>1, <1>4 DEF SignedSum, Signed, Carry, Negative
<1>5. CASE byte >= 128 /\ sum < 128
  BY <1>1, <1>5 DEF SignedSum, Signed, Carry, Negative
<1> QED
  BY <1>1, <1>2, <1>3, <1>4, <1>5

(* The sum of two bytes and a carry is one. *)
LEMMA NextSum ==
  ASSUME NEW byte \in Byte, NEW sum \in Byte
  PROVE  (sum + byte + Carry(byte, sum)) % 256 \in Byte
<1>1. Carry(byte, sum) \in 0 .. 1
  BY DEF Carry
<1>2. sum + byte + Carry(byte, sum) \in Nat
  BY <1>1 DEF Byte
<1> QED
  BY <1>2 DEF Byte

(* The sums of the data of a sector are bytes, each from the one before. *)
LEMMA PartialSums ==
  ASSUME NEW image \in Disks, NEW sector \in Sectors
  PROVE  LET sum == partial_sums(image, sector) IN
         /\ sum \in [0 .. sector_size -> Byte]
         /\ sum[0] = 0
         /\ \A n \in 1 .. sector_size :
              LET byte == get_data(image, sector, n - 1)
              IN sum[n] = (sum[n - 1] + byte + Carry(byte, sum[n - 1])) % 256
<1> DEFINE sum_at(n, before) == LET byte == get_data(image, sector, n - 1)
                                IN (before + byte + Carry(byte, before)) % 256
           step == [ss \in (Nat \ {0}) \X Byte |-> sum_at(ss[1], ss[2])]
           body(f) == [n \in 0 .. sector_size |-> IF n = 0 THEN 0 ELSE sum_at(n, f[n - 1])]
           sum == partial_sums(image, sector)
<1>1. sector_size \in Nat /\ 0 \in Byte
  BY LayoutAssumption DEF Byte
<1>2. \A n \in Nat \ {0}, v \in Byte : sum_at(n, v) \in Byte
  BY BytesOfImage, NextSum
<1>3. sum = CHOOSE f : f = body(f)
  BY DEF partial_sums
<1> HIDE DEF sum_at, sum
<1>4. \A n \in Nat \ {0}, v \in Byte : step[<<n, v>>] = sum_at(n, v)
  OBVIOUS
<1>5. step \in [(Nat \ {0}) \X Byte -> Byte]
  BY <1>2
<1>6. PICK f : /\ f \in [0 .. sector_size -> Byte]
               /\ f[0] = 0
               /\ \A i \in 1 .. sector_size : f[i] = step[<<i, f[i - 1]>>]
  <2> HIDE DEF step
  <2>1. \E f : Recursive(f, sector_size, Byte, 0, step)
    BY <1>1, <1>5, RecursiveFunction
  <2> QED
    BY <2>1 DEF Recursive
<1>7. f = body(f)
  <2>1. ASSUME NEW i \in 1 .. sector_size PROVE f[i] = sum_at(i, f[i - 1])
    <3>1. i \in Nat \ {0} /\ i - 1 \in 0 .. sector_size
      BY <1>1
    <3>2. f[i - 1] \in Byte
      BY <1>6, <3>1
    <3> HIDE DEF step
    <3> QED
      BY <1>4, <1>6, <3>1, <3>2
  <2>2. \A i \in 0 .. sector_size : f[i] = IF i = 0 THEN 0 ELSE sum_at(i, f[i - 1])
    BY <1>1, <1>6, <2>1
  <2> QED
    BY <1>6, <2>2
<1>8. sum = body(sum)
  BY <1>3, <1>7
<1>9. sum[0] = 0 /\ \A n \in 1 .. sector_size : sum[n] = sum_at(n, sum[n - 1])
  BY <1>1, <1>8
<1>10. sum \in [0 .. sector_size -> Byte]
  <2> DEFINE S == {n \in Nat : n =< sector_size => sum[n] \in Byte}
  <2>1. 0 \in S
    BY <1>1, <1>9
  <2>2. ASSUME NEW n \in Nat, n \in S PROVE n + 1 \in S
    <3> SUFFICES ASSUME n + 1 =< sector_size PROVE sum[n + 1] \in Byte
      OBVIOUS
    <3>1. sum[n] \in Byte /\ n + 1 \in 1 .. sector_size /\ (n + 1) - 1 = n
      BY <1>1, <2>2
    <3>2. sum[n + 1] = sum_at(n + 1, sum[n])
      BY <1>9, <3>1
    <3> QED
      BY <1>2, <3>1, <3>2
  <2>3. Nat \subseteq S
    <3> HIDE DEF S
    <3> QED
      BY <2>1, <2>2, SetInduction
  <2>4. \A n \in 0 .. sector_size : sum[n] \in Byte
    BY <1>1, <2>3
  <2>5. sum = [n \in 0 .. sector_size |-> IF n = 0 THEN 0 ELSE sum_at(n, sum[n - 1])]
    BY <1>8
  <2> QED
    BY <2>4, <2>5
<1> QED
  BY <1>9, <1>10 DEF sum, sum_at

(* The sums of what has been read are those that the disk computed. *)
LEMMA SignedSums ==
  ASSUME NEW image \in Disks, NEW sector \in Sectors, NEW bytes,
         \A n \in 1 .. sector_size : bytes[n + 2] = get_data(image, sector, n - 1)
  PROVE  SumsOf(bytes)[sector_size] = sector_checksum(image, sector)
<1> DEFINE signed_at(n, before) == SignedSum(bytes[n + 2], before)
           body(f) == [n \in 0 .. sector_size |-> IF n = 0 THEN 0 ELSE signed_at(n, f[n - 1])]
           sum == partial_sums(image, sector)
           sums == SumsOf(bytes)
<1>1. sector_size \in Nat
  BY LayoutAssumption
<1>2. /\ sum \in [0 .. sector_size -> Byte]
      /\ sum[0] = 0
      /\ \A n \in 1 .. sector_size :
           LET byte == get_data(image, sector, n - 1)
           IN sum[n] = (sum[n - 1] + byte + Carry(byte, sum[n - 1])) % 256
  BY PartialSums
<1>3. sums = CHOOSE f : f = body(f)
  BY DEF SumsOf, SignedSum
<1> HIDE DEF sum, sums, signed_at
<1>4. ASSUME NEW n \in 1 .. sector_size PROVE sum[n] = signed_at(n, sum[n - 1])
  <2> DEFINE byte == get_data(image, sector, n - 1)
  <2>1. n - 1 \in Nat /\ n - 1 \in 0 .. sector_size
    BY <1>1
  <2>2. byte \in Byte /\ sum[n - 1] \in Byte
    BY <1>2, <2>1, BytesOfImage
  <2>3. sum[n] = (sum[n - 1] + byte + Carry(byte, sum[n - 1])) % 256
    BY <1>2
  <2>4. signed_at(n, sum[n - 1]) = SignedSum(byte, sum[n - 1])
    BY DEF signed_at
  <2> HIDE DEF byte
  <2>5. (sum[n - 1] + byte + Carry(byte, sum[n - 1])) % 256 = SignedSum(byte, sum[n - 1])
    BY <2>2, SignedCarry
  <2> QED
    BY <2>3, <2>4, <2>5, Zenon
<1>5. sum = body(sum)
  <2>1. \A n \in 0 .. sector_size : sum[n] = IF n = 0 THEN 0 ELSE signed_at(n, sum[n - 1])
    BY <1>1, <1>2, <1>4
  <2> QED
    BY <1>2, <2>1
<1>6. sums = body(sums)
  BY <1>3, <1>5
<1>7. sums[0] = 0 /\ \A n \in 1 .. sector_size : sums[n] = signed_at(n, sums[n - 1])
  BY <1>1, <1>6
<1> DEFINE S == {n \in Nat : n =< sector_size => sums[n] = sum[n]}
<1>8. 0 \in S
  BY <1>2, <1>7
<1>9. ASSUME NEW n \in Nat, n \in S PROVE n + 1 \in S
  <2> SUFFICES ASSUME n + 1 =< sector_size PROVE sums[n + 1] = sum[n + 1]
    OBVIOUS
  <2>1. sums[n] = sum[n] /\ n + 1 \in 1 .. sector_size /\ (n + 1) - 1 = n
    BY <1>1, <1>9
  <2> QED
    BY <1>4, <1>7, <2>1
<1>10. Nat \subseteq S
  <2> HIDE DEF S
  <2> QED
    BY <1>8, <1>9, SetInduction
<1>11. sums[sector_size] = sum[sector_size]
  BY <1>1, <1>10
<1> QED
  BY <1>11 DEF sums, sum, sector_checksum

(* What has been read is the sector from its first byte on. *)
DiskInv ==
  /\ data \in Disks
  /\ reading \in Sectors
  /\ checksums = [sector \in Sectors |-> sector_checksum(data, sector)]
  /\ read \in Seq(Byte)
  /\ Len(read) =< sector_size + 3
  /\ \A i \in 1 .. Len(read) : read[i] = get(i - 1)

LEMMA GetIsByte ==
  ASSUME DiskInv, NEW index \in Nat, index < sector_size + 3
  PROVE  get(index) \in Byte
<1>1. sector_size \in Nat \ {0}
  BY LayoutAssumption
<1>2. CASE index < 2
  BY <1>1, <1>2 DEF get, Byte
<1>3. CASE index >= 2 /\ index < sector_size + 2
  <2>1. get(index) = get_data(data, reading, index - 2) /\ index - 2 \in Nat
    BY <1>1, <1>3 DEF get
  <2> QED
    BY <2>1, BytesOfImage DEF DiskInv
<1>4. CASE index = sector_size + 2
  <2>1. get(index) = partial_sums(data, reading)[sector_size]
    BY <1>1, <1>4 DEF get, DiskInv, sector_checksum
  <2>2. partial_sums(data, reading) \in [0 .. sector_size -> Byte]
    BY PartialSums DEF DiskInv
  <2> QED
    BY <1>1, <2>1, <2>2
<1> QED
  BY <1>1, <1>2, <1>3, <1>4

LEMMA InitDiskInv == MachineInit => DiskInv
<1> SUFFICES ASSUME MachineInit PROVE DiskInv
  OBVIOUS
<1>1. /\ data \in Disks /\ reading \in Sectors /\ read = <<>>
      /\ checksums = [sector \in Sectors |-> sector_checksum(data, sector)]
  BY DEF MachineInit, DiskInit
<1>2. sector_size \in Nat
  BY LayoutAssumption
<1> QED
  BY <1>1, <1>2 DEF DiskInv

LEMMA ReadByteDiskInv == DiskInv /\ ReadByte => DiskInv'
<1> SUFFICES ASSUME DiskInv, ReadByte PROVE DiskInv'
  OBVIOUS
<1> DEFINE next == get(Len(read))
<1>1. /\ Len(read) < sector_size + 3 /\ read' = Append(read, next)
      /\ UNCHANGED <<data, checksums, reading>>
  BY DEF ReadByte
<1>2. Len(read) \in Nat /\ read \in Seq(Byte) /\ sector_size \in Nat
  BY LayoutAssumption DEF DiskInv
<1>3. next \in Byte
  BY <1>1, <1>2, GetIsByte
<1>4. \A index : get(index)' = get(index)
  BY <1>1 DEF get
<1> HIDE DEF next
<1>5. read' \in Seq(Byte) /\ Len(read') = Len(read) + 1
  BY <1>1, <1>2, <1>3
<1>6. \A i \in 1 .. Len(read') : read'[i] = IF i =< Len(read) THEN read[i] ELSE next
  BY <1>1, <1>2, <1>3
<1>7. ASSUME NEW i \in 1 .. Len(read') PROVE read'[i] = get(i - 1)'
  <2>1. CASE i =< Len(read)
    <3>1. i \in 1 .. Len(read)
      BY <1>2, <1>5, <2>1
    <3>2. read[i] = get(i - 1)
      BY <3>1 DEF DiskInv
    <3> QED
      BY <1>4, <1>6, <2>1, <3>2
  <2>2. CASE ~(i =< Len(read))
    <3>1. i - 1 = Len(read)
      BY <1>2, <1>5, <2>2
    <3> QED
      BY <1>4, <1>6, <2>2, <3>1 DEF next
  <2> QED
    BY <2>1, <2>2
<1>8. Len(read') =< sector_size + 3
  BY <1>1, <1>2, <1>5
<1>9. /\ data' \in Disks /\ reading' \in Sectors
      /\ checksums' = [sector \in Sectors |-> sector_checksum(data', sector)]
  BY <1>1 DEF DiskInv
<1> QED
  BY <1>5, <1>7, <1>8, <1>9 DEF DiskInv

LEMMA NextDiskInv == DiskInv /\ [MachineNext]_vars => DiskInv'
<1> SUFFICES ASSUME DiskInv, [MachineNext]_vars PROVE DiskInv'
  OBVIOUS
<1>1. CASE ReadByte
  BY <1>1, ReadByteDiskInv
<1>2. CASE Seek
  <2>1. /\ reading' \in Sectors /\ read' = <<>> /\ UNCHANGED <<data, checksums>>
    BY <1>2 DEF Seek
  <2>2. sector_size \in Nat
    BY LayoutAssumption
  <2>3. read' \in Seq(Byte) /\ Len(read') = 0
    BY <2>1
  <2> QED
    BY <2>1, <2>2, <2>3 DEF DiskInv
<1>3. CASE UNCHANGED disk_vars
  BY <1>3 DEF DiskInv, disk_vars, get
<1> QED
  BY <1>1, <1>2, <1>3 DEF MachineNext, vars

LEMMA PairOf ==
  ASSUME NEW S, NEW s \in Seq(S), Len(s) = 2
  PROVE  s = <<s[1], s[2]>>
OBVIOUS

(* The checksum of a sector is that of the bytes the program reads before   *)
(* it, for every image, wherever it ends, and every layout.                *)
THEOREM Checksum == MachineSpec => []ChecksumOfWhatIsRead
<1>1. DiskInv => ChecksumOfWhatIsRead
  <2> SUFFICES ASSUME DiskInv, Len(read) = sector_size + 3
               PROVE  /\ SubSeq(read, 1, 2) = <<255, 254>>
                      /\ read[sector_size + 3] = SumsOf(read)[sector_size]
    BY DEF ChecksumOfWhatIsRead
  <2>1. sector_size \in Nat \ {0}
    BY LayoutAssumption
  <2>2. \A i \in 1 .. sector_size + 3 : read[i] = get(i - 1)
    BY DEF DiskInv
  <2>3. read[1] = 255 /\ read[2] = 254
    BY <2>1, <2>2 DEF get
  <2>4. SubSeq(read, 1, 2) = <<255, 254>>
    <3>1. read \in Seq(Byte) /\ Len(read) >= 2
      BY <2>1 DEF DiskInv
    <3>2. Len(SubSeq(read, 1, 2)) = 2 /\ SubSeq(read, 1, 2) \in Seq(Byte)
      BY <3>1
    <3>3. SubSeq(read, 1, 2)[1] = read[1] /\ SubSeq(read, 1, 2)[2] = read[2]
      BY <3>1
    <3>4. SubSeq(read, 1, 2) = <<SubSeq(read, 1, 2)[1], SubSeq(read, 1, 2)[2]>>
      BY <3>2, PairOf
    <3> QED
      BY <2>3, <3>3, <3>4
  <2>5. ASSUME NEW n \in 1 .. sector_size
        PROVE  read[n + 2] = get_data(data, reading, n - 1)
    <3>1. n + 2 \in 1 .. sector_size + 3 /\ (n + 2) - 1 = n + 1 /\ (n + 1) - 2 = n - 1
      BY <2>1
    <3>2. n + 1 >= 2 /\ n + 1 < sector_size + 2
      BY <2>1
    <3>3. get(n + 1) = get_data(data, reading, n - 1)
      BY <3>1, <3>2 DEF get
    <3> QED
      BY <2>2, <3>1, <3>3
  <2>6. read[sector_size + 3] = sector_checksum(data, reading)
    <3>1. sector_size + 3 \in 1 .. sector_size + 3 /\ (sector_size + 3) - 1 = sector_size + 2
      BY <2>1
    <3>2. get(sector_size + 2) = checksums[reading]
      BY <2>1 DEF get
    <3>3. checksums[reading] = sector_checksum(data, reading)
      BY DEF DiskInv
    <3> QED
      BY <2>2, <3>1, <3>2, <3>3
  <2>7. SumsOf(read)[sector_size] = sector_checksum(data, reading)
    BY <2>5, SignedSums DEF DiskInv
  <2> QED
    BY <2>4, <2>6, <2>7
<1> QED
  BY <1>1, InitDiskInv, NextDiskInv, PTL DEF MachineSpec

-----------------------------------------------------------------------------
(* The I/O addresses. *)

Address14 == {n \in Nat : n < 16384}

(* The bits that tell the cards apart. *)
HighBits(a) == Bits(a, 11, 13)
Bit2(a) == Bits(a, 2, 2)

LEMMA WeightsAre ==
  /\ Weight[0] = 1 /\ Weight[1] = 2 /\ Weight[2] = 4 /\ Weight[3] = 8
  /\ Weight[5] = 32 /\ Weight[8] = 256 /\ Weight[9] = 512 /\ Weight[11] = 2048
BY DEF Weight

(* The disk has two of the addresses whose bit 2 is set, and the terminals  *)
(* from 4 on are the others. *)
LEMMA LowBits ==
  ASSUME NEW a \in Nat
  PROVE  /\ Bits(a, 0, 2) >= 4 => Bit2(a) = 1
         /\ Bits(a, 0, 2) \in Nat
         /\ Bits(a, 0, 7) \in {254, 255} => Bit2(a) = 1
<1> DEFINE q == a \div 256
<1>1. Bit2(a) = (a \div 4) % 2
  BY WeightsAre DEF Bits, Bit2
<1>2. Bits(a, 0, 2) = a % 8
  BY WeightsAre DEF Bits
<1>3. Bits(a, 0, 7) = a % 256
  BY WeightsAre DEF Bits
<1>4. a % 8 >= 4 => (a \div 4) % 2 = 1
  OBVIOUS
<1>5. a % 256 \in {254, 255} => (a \div 4) % 2 = 1
  <2>1. q \in Nat
    OBVIOUS
  <2>2. a % 256 = a - 256 * q
    OBVIOUS
  <2>3. a % 256 \in {254, 255} => a = 256 * q + 254 \/ a = 256 * q + 255
    <3> HIDE DEF q
    <3> QED
      BY <2>1, <2>2
  <2> HIDE DEF q
  <2>4. a % 256 \in {254, 255} => a \div 4 = 64 * q + 63
    BY <2>1, <2>3
  <2>5. (64 * q + 63) % 2 = 1
    BY <2>1
  <2> QED
    BY <2>4, <2>5
<1>6. a % 8 \in Nat
  OBVIOUS
<1>7. Bits(a, 0, 2) >= 4 => Bit2(a) = 1
  BY <1>1, <1>2, <1>4
<1>8. Bits(a, 0, 7) \in {254, 255} => Bit2(a) = 1
  BY <1>1, <1>3, <1>5
<1>9. Bits(a, 0, 2) \in Nat
  BY <1>2, <1>6
<1> QED
  BY <1>7, <1>8, <1>9

LEMMA PortsAreHigh ==
  ASSUME NEW a \in Address14, OutputPort(a) \in {21, 22}
  PROVE  HighBits(a) = 7
<1> DEFINE p == a \div 512
<1>1. HighBits(a) = (a \div 2048) % 8
  BY WeightsAre DEF Bits, HighBits
<1>2. Bits(a, 9, 13) = p % 32
  BY WeightsAre DEF Bits
<1>3. p \in Nat
  BY DEF Address14
<1>4. p =< 31
  BY DEF Address14
<1>5. a \div 2048 = p \div 4
  BY DEF Address14
<1> HIDE DEF p
<1>6. p \in 0 .. 31
  BY <1>3, <1>4
<1>7. ((p % 32) + 248) % 256 \in {21, 22}
  BY <1>2 DEF OutputPort
<1>8. p \in {29, 30}
  BY <1>6, <1>7
<1> QED
  BY <1>1, <1>5, <1>8

(* Each card decodes inputs and outputs of its own. *)
LEMMA CardsOfIO ==
  ASSUME NEW a \in Address14
  PROVE  LET input == is_io_input_address(a) IN
         /\ IOAnswers("serial", a) /\ input => InputGroup(a) = 0 /\ Bit2(a) = 0
         /\ IOAnswers("serial", a) /\ ~input => HighBits(a) = 2
         /\ IOAnswers("disk", a) /\ input => InputGroup(a) = 0 /\ Bit2(a) = 1
         /\ IOAnswers("disk", a) /\ ~input => HighBits(a) = 5
         /\ IOAnswers("channel_5", a) /\ input => InputGroup(a) = 5
         /\ IOAnswers("channel_5", a) /\ ~input => HighBits(a) = 7 /\ OutputPort(a) = 21
         /\ IOAnswers("stack_6", a) /\ input => InputGroup(a) = 6
         /\ IOAnswers("stack_6", a) /\ ~input => HighBits(a) = 7 /\ OutputPort(a) = 22
<1>1. a \in Nat
  BY DEF Address14
<1>2. Bits(64, 5, 7) = 2
  BY WeightsAre DEF Bits
<1>3. Bits(161, 5, 7) = 5
  BY WeightsAre DEF Bits
<1>4. IOAnswers("serial", a) =>
        IF is_io_input_address(a) THEN InputGroup(a) = 0 /\ Bit2(a) = 0 ELSE HighBits(a) = 2
  <2>1. 64 % 2 = 0
    OBVIOUS
  <2> QED
    BY <1>2, <2>1
    DEF IOAnswers, IOCardAddressed, serial_mode, serial_selection, Bit2, HighBits
<1>5. IOAnswers("disk", a) =>
        IF is_io_input_address(a) THEN InputGroup(a) = 0 /\ Bit2(a) = 1 ELSE HighBits(a) = 5
  BY <1>1, <1>3, LowBits DEF IOAnswers, DiskAddressed, disk_selection, HighBits
<1>6. IOAnswers("channel_5", a) =>
        IF is_io_input_address(a) THEN InputGroup(a) = 5 ELSE OutputPort(a) = 21
  BY DEF IOAnswers, StackChannelAddressed
<1>7. IOAnswers("stack_6", a) =>
        IF is_io_input_address(a) THEN InputGroup(a) = 6 ELSE OutputPort(a) = 22
  BY DEF IOAnswers, StackChannelAddressed
<1>8. OutputPort(a) = 21 \/ OutputPort(a) = 22 => HighBits(a) = 7
  BY PortsAreHigh
<1> QED
  BY <1>4, <1>5, <1>6, <1>7, <1>8

LEMMA OneIOCard ==
  ASSUME NEW a \in Address14
  PROVE  /\ Cardinality(IOSelected(a)) <= 1
         /\ "serial" \in IOSelected(a) =>
              IF is_io_input_address(a)
              THEN InputTerminal(serial_mode, serial_selection, a)
                     < first_owned_terminal(serial_mode)
              ELSE OutputTerminal(serial_mode, a) \in first_owned_terminal(serial_mode) .. 7
<1>1. a \in Nat
  BY DEF Address14
<1>2. ASSUME NEW x \in IOSelected(a), NEW y \in IOSelected(a) PROVE x = y
  <2>1. /\ x \in IOCards /\ IOAnswers(x, a)
        /\ y \in IOCards /\ IOAnswers(y, a)
    BY DEF IOSelected
  <2>2. x = "serial" \/ x = "disk" \/ x = "channel_5" \/ x = "stack_6"
    BY <2>1 DEF IOCards
  <2>3. y = "serial" \/ y = "disk" \/ y = "channel_5" \/ y = "stack_6"
    BY <2>1 DEF IOCards
  <2>4. CASE is_io_input_address(a)
    BY <2>1, <2>2, <2>3, <2>4, CardsOfIO
  <2>5. CASE ~is_io_input_address(a)
    BY <2>1, <2>2, <2>3, <2>5, CardsOfIO
  <2> QED
    BY <2>4, <2>5
<1>3. Cardinality(IOSelected(a)) <= 1
  <2>1. CASE IOSelected(a) = {}
    BY <2>1, FS_EmptySet
  <2>2. CASE IOSelected(a) # {}
    <3>1. PICK x : IOSelected(a) = {x}
      BY <1>2, <2>2
    <3>2. Cardinality({x}) = 1
      BY FS_Singleton
    <3> QED
      BY <3>1, <3>2
  <2> QED
    BY <2>1, <2>2
<1>4. ASSUME "serial" \in IOSelected(a), is_io_input_address(a)
      PROVE  InputTerminal(serial_mode, serial_selection, a) < first_owned_terminal(serial_mode)
  <2>1. InputTerminal(serial_mode, serial_selection, a) = Bits(a, 0, 2)
    <3>1. 64 % 2 = 0
      OBVIOUS
    <3> QED
      BY <3>1 DEF InputTerminal, serial_mode, serial_selection
  <2>2. Bit2(a) = 0
    BY <1>4, CardsOfIO DEF IOSelected
  <2>3. ~(Bits(a, 0, 2) >= 4) /\ Bits(a, 0, 2) \in Nat
    BY <1>1, <2>2, LowBits
  <2> QED
    BY <2>1, <2>3 DEF first_owned_terminal, serial_mode
<1>5. OutputTerminal(serial_mode, a) \in first_owned_terminal(serial_mode) .. 7
  <2>1. Bits(a, 9, 10) = (a \div 512) % 4
    BY WeightsAre DEF Bits
  <2>2. a \div 512 \in Nat
    BY <1>1
  <2>3. (a \div 512) % 4 \in 0 .. 3
    BY <2>2
  <2> QED
    BY <2>1, <2>3 DEF OutputTerminal, first_owned_terminal, serial_mode
<1> QED
  BY <1>3, <1>4, <1>5

-----------------------------------------------------------------------------
(* The memory cards. *)

(* An address is in the block of 2k of its three high bits. *)
BlockOf(a) == a \div Block

LEMMA Blocks ==
  ASSUME NEW a \in Addresses
  PROVE  /\ Block \in Nat \ {0}
         /\ a \in Nat
         /\ BlockOf(a) \in 0 .. 7
         /\ BlockOf(a) * Block =< a
         /\ a < BlockOf(a) * Block + Block
         /\ a \div (2 * Block) = BlockOf(a) \div 2
<1> DEFINE q == BlockOf(a)
<1>1. Block \in Nat /\ Block > 0
  BY MemoryAssumption DEF Block
<1>2. a \in Nat /\ a < 8 * Block
  BY <1>1 DEF Addresses
<1>3. q = a \div Block
  BY DEF BlockOf
<1> HIDE DEF q
<1>4. q \in Nat
  BY <1>1, <1>2, <1>3
<1>5. q * Block =< a
  BY <1>1, <1>2, <1>3
<1>6. a < q * Block + Block
  BY <1>1, <1>2, <1>3
<1>7. q < 8
  BY <1>1, <1>2, <1>4, <1>5
<1>8. a \div (2 * Block) = q \div 2
  BY <1>1, <1>2, <1>3, <1>4, <1>5, <1>6
<1>9. Block \in Nat \ {0} /\ q \in 0 .. 7
  BY <1>1, <1>4, <1>7
<1> QED
  BY <1>2, <1>5, <1>6, <1>8, <1>9, Zenon DEF q

Configs == {"MICRAL_N", "OTHER"}

(* What the cards are; only the card of 4k begins with the boot ROM. *)
LEMMA CardsAre ==
  ASSUME NEW config \in Configs, NEW card \in CardsOf(config)
  PROVE  /\ card.mask \in 0 .. 7
         /\ \/ card.size = "Card2k" /\ card.access \in {"ROM", "RAM"}
            \/ /\ card.size = "Card4k" /\ card.access = "ROM_RAM_256" /\ card.mask = 0
               /\ config = "MICRAL_N" /\ card = masked_rom_ram_4k(0)
<1>1. CASE config = "MICRAL_N"
  BY <1>1 DEF CardsOf, masked_rom_ram_4k, rom_2k, ram_2k
<1>2. CASE config = "OTHER"
  BY <1>2 DEF CardsOf, masked_rom_ram_4k, rom_2k, ram_2k
<1> QED
  BY <1>1, <1>2 DEF Configs

(* The blocks that a card answers. *)
Answers(card, block) == IF card.size = "Card2k" THEN block = card.mask ELSE block \in {0, 1}

LEMMA OneCardOfBlock ==
  ASSUME NEW config \in Configs, NEW block \in 0 .. 7,
         NEW card \in CardsOf(config), NEW other \in CardsOf(config),
         Answers(card, block), Answers(other, block)
  PROVE  card = other
<1>1. CASE config = "MICRAL_N"
  BY <1>1 DEF CardsOf, masked_rom_ram_4k, rom_2k, ram_2k, Answers
<1>2. CASE config = "OTHER"
  BY <1>2 DEF CardsOf, masked_rom_ram_4k, rom_2k, ram_2k, Answers
<1> QED
  BY <1>1, <1>2 DEF Configs

(* The address selects the card that holds it. *)
LEMMA AddressedHolds ==
  ASSUME NEW config \in Configs, NEW card \in CardsOf(config), NEW a \in Addresses
  PROVE  /\ is_addressed(card, a) <=> Answers(card, BlockOf(a))
         /\ (start_address(card) <= a /\ a < start_address(card) + Length(card))
              <=> Answers(card, BlockOf(a))
         /\ start_address(card) \in Nat
         /\ Length(card) \in Nat
<1> DEFINE q == BlockOf(a)
<1>1. /\ Block \in Nat \ {0} /\ a \in Nat /\ q \in 0 .. 7
      /\ q * Block =< a /\ a < q * Block + Block
      /\ a \div (2 * Block) = q \div 2 /\ a \div Block = q
  BY Blocks DEF BlockOf
<1> HIDE DEF q
<1>2. CASE card.size = "Card2k"
  <2>1. card.mask \in 0 .. 7
    BY CardsAre
  <2>2. is_addressed(card, a) <=> q % 2 = card.mask % 2 /\ (q \div 2) % 4 = card.mask \div 2
    BY <1>1, <1>2 DEF is_addressed
  <2>3. q % 2 = card.mask % 2 /\ (q \div 2) % 4 = card.mask \div 2 <=> q = card.mask
    BY <1>1, <2>1
  <2>4. start_address(card) = card.mask * Block /\ Length(card) = Block
    BY <1>2 DEF start_address, Length
  <2>5. (card.mask * Block =< a /\ a < card.mask * Block + Block) <=> q = card.mask
    <3> DEFINE k == card.mask
    <3>1. k \in Nat /\ q \in Nat /\ Block \in Nat
      BY <1>1, <2>1
    <3> HIDE DEF k
    <3>2. CASE q < k
      <4>1. q * Block + Block =< k * Block
        BY <3>1, <3>2
      <4> QED
        BY <1>1, <3>1, <3>2, <4>1 DEF k
    <3>3. CASE k < q
      <4>1. k * Block + Block =< q * Block
        BY <3>1, <3>3
      <4> QED
        BY <1>1, <3>1, <3>3, <4>1 DEF k
    <3>4. CASE k = q
      BY <1>1, <3>4 DEF k
    <3> QED
      BY <3>1, <3>2, <3>3, <3>4
  <2>6. card.mask * Block \in Nat
    BY <1>1, <2>1
  <2> QED
    BY <1>1, <1>2, <2>2, <2>3, <2>4, <2>5, <2>6 DEF Answers, q
<1>3. CASE card.size # "Card2k"
  <2>1. card.size = "Card4k" /\ card.mask = 0
    BY <1>3, CardsAre
  <2>2. is_addressed(card, a) <=> (q \div 2) % 4 = 0
    BY <1>1, <1>3, <2>1 DEF is_addressed
  <2>3. (q \div 2) % 4 = 0 <=> q \in {0, 1}
    BY <1>1
  <2>4. start_address(card) = 0 /\ Length(card) = 2 * Block
    BY <1>1, <2>1 DEF start_address, Length
  <2>5. a < 2 * Block <=> q \in {0, 1}
    BY <1>1
  <2> QED
    BY <1>1, <1>3, <2>2, <2>3, <2>4, <2>5 DEF Answers, q
<1> QED
  BY <1>2, <1>3

LEMMA AddressedAre ==
  ASSUME rom_config \in Configs, NEW a \in Addresses
  PROVE  /\ Addressed(a) = {card \in Cards : Answers(card, BlockOf(a))}
         /\ Addressed(a) = {card \in Cards : is_addressed(card, a)}
<1>1. Addressed(a) = {card \in Cards : is_addressed(card, a)}
  BY DEF Addressed, Decoder, Cards, Configs
<1> QED
  BY <1>1, AddressedHolds DEF Cards

LEMMA OneMemoryCard ==
  ASSUME rom_config \in Configs, NEW a \in Addresses
  PROVE  /\ Cardinality(Addressed(a)) <= 1
         /\ \A card \in Addressed(a), other \in Addressed(a) : card = other
         /\ Addressed(a) = {} => view_get(a) = Empty
         /\ \A card \in Addressed(a) : view_get(a) = read_data(card, a)
<1> DEFINE holding == {card \in Cards : start_address(card) <= a
                                        /\ a < start_address(card) + Length(card)}
           First == CHOOSE card \in holding :
                      \A other \in holding : start_address(card) <= start_address(other)
<1>1. holding = Addressed(a)
  BY AddressedAre, AddressedHolds DEF Cards
<1>2. ASSUME NEW card \in Addressed(a), NEW other \in Addressed(a) PROVE card = other
  BY AddressedAre, OneCardOfBlock, Blocks DEF Cards
<1>3. view_get(a) = IF holding = {} THEN 0 ELSE read_data(First, a)
  BY DEF view_get
<1>4. ASSUME NEW card \in Addressed(a) PROVE First = card
  <2>1. card \in holding /\ \A other \in holding : other = card
    BY <1>1, <1>2
  <2>2. start_address(card) \in Nat
    BY <2>1, AddressedHolds DEF Cards
  <2>3. card \in holding /\ \A other \in holding : start_address(card) <= start_address(other)
    BY <2>1, <2>2
  <2> HIDE DEF holding
  <2>4. First \in holding
    BY <2>3
  <2> HIDE DEF First
  <2> QED
    BY <2>1, <2>4
<1> HIDE DEF holding, First
<1>5. Cardinality(Addressed(a)) <= 1
  <2>1. CASE Addressed(a) = {}
    BY <2>1, FS_EmptySet
  <2>2. CASE Addressed(a) # {}
    <3>1. PICK card : Addressed(a) = {card}
      BY <1>2, <2>2
    <3>2. Cardinality({card}) = 1
      BY FS_Singleton
    <3> QED
      BY <3>1, <3>2
  <2> QED
    BY <2>1, <2>2
<1>6. Addressed(a) = {} => view_get(a) = Empty
  BY <1>1, <1>3 DEF Empty
<1>7. ASSUME NEW card \in Addressed(a) PROVE view_get(a) = read_data(card, a)
  BY <1>1, <1>3, <1>4, <1>7
<1> QED
  BY <1>2, <1>5, <1>6, <1>7

(* Opcode and accumulator make 14 bits. *)
LEMMA IOAddressesAre == IOAddresses \subseteq Address14
<1> SUFFICES ASSUME NEW opcode \in Opcode, NEW a \in Byte
             PROVE  (opcode % 64) * 256 + a \in Address14
  BY DEF IOAddresses
<1>1. opcode % 64 \in 0 .. 63
  BY DEF Opcode
<1> DEFINE r == opcode % 64
<1> HIDE DEF r
<1>2. r * 256 + a \in Nat
  BY <1>1 DEF Byte, r
<1>3. r * 256 + a < 16384
  BY <1>1 DEF Byte, r
<1> QED
  BY <1>2, <1>3 DEF Address14, r

(* What tells the cards apart does not change. *)
MapInv ==
  /\ rom_config \in Configs
  /\ io_address \in Address14

LEMMA MapInvariant == MachineSpec => []MapInv
<1>1. MachineInit => MapInv
  BY DEF MachineInit, MemoryInit, MapInv, Configs, Address14
<1>2. MapInv /\ [MachineNext]_vars => MapInv'
  <2> SUFFICES ASSUME MapInv, [MachineNext]_vars PROVE MapInv'
    OBVIOUS
  <2>1. rom_config' = rom_config
    BY DEF MachineNext, vars, memory_vars, MemoryNext, ReadCycle, SubstitutedCycle, ReadT2Falls,
       WriteCycle, Phase2Rises, T3Falls
  <2>2. io_address' = io_address \/ io_address' \in IOAddresses
    BY DEF MachineNext, vars, IOCycle
  <2> QED
    BY <2>1, <2>2, IOAddressesAre DEF MapInv
<1> QED
  BY <1>1, <1>2, PTL DEF MachineSpec

(* No two cards answer one address, of memory for any size of a page or of  *)
(* the 14 bits of an I/O cycle; and the windows see what the bus would.     *)
THEOREM OneCard == MachineSpec => []OneCardAnswers
<1>1. MapInv => OneCardAnswers
  <2> SUFFICES ASSUME MapInv PROVE OneCardAnswers
    OBVIOUS
  <2>1. rom_config \in Configs /\ io_address \in Address14
    BY DEF MapInv
  <2>2. ASSUME NEW a \in Addresses
        PROVE  /\ Cardinality(Addressed(a)) <= 1
               /\ Addressed(a) = {} => view_get(a) = Empty
               /\ \A card \in Addressed(a) : view_get(a) = read_data(card, a)
    BY <2>1, OneMemoryCard
  <2> QED
    BY <2>1, <2>2, OneIOCard DEF OneCardAnswers
<1> QED
  BY <1>1, MapInvariant, PTL

-----------------------------------------------------------------------------
(* The listing. *)

LEMMA SmallIntervals ==
  Cardinality({1}) = 1 /\ Cardinality({1, 2}) = 2 /\ Cardinality({1, 2, 3}) = 3
<1>1. \A a, b \in Int : Cardinality(a .. b) = IF a > b THEN 0 ELSE b - a + 1
  BY FS_Interval
<1>2. 1 \in Int /\ 2 \in Int /\ 3 \in Int
  OBVIOUS
<1>3. Cardinality(1 .. 1) = IF 1 > 1 THEN 0 ELSE 1 - 1 + 1
  BY <1>1, <1>2, Zenon
<1>4. Cardinality(1 .. 2) = IF 1 > 2 THEN 0 ELSE 2 - 1 + 1
  BY <1>1, <1>2, Zenon
<1>5. Cardinality(1 .. 3) = IF 1 > 3 THEN 0 ELSE 3 - 1 + 1
  BY <1>1, <1>2, Zenon
<1>6. 1 .. 1 = {1} /\ 1 .. 2 = {1, 2} /\ 1 .. 3 = {1, 2, 3}
  OBVIOUS
<1> QED
  BY <1>3, <1>4, <1>5, <1>6

(* The cycles of an instruction that take its bytes. *)
FromPC(name) == {i \in DOMAIN instruction_table[name] : instruction_table[name][i].address = "PC"}

LEMMA CyclesFromPC ==
  ASSUME NEW name \in InstructionName
  PROVE  FromPC(name) = IF name \in Immediates THEN {1, 2}
                        ELSE IF name \in Jumps THEN {1, 2, 3} ELSE {1}
<1> DEFINE cycles == instruction_table[name]
           Short == {"Lrr", "INr", "DCr", "ALU_OPr", "RLC", "RRC", "RAL", "RAR", "RET",
                     "RFc", "RTc", "RST", "HLT", "UNKNOWN"}
           Two == {"LrM", "LMr", "ALU_OPM", "INP", "OUT"}
<1>1. InstructionName = Short \cup Two \cup Immediates \cup Jumps
  BY DEF InstructionName, instruction_table, Immediates, Jumps
<1>2. CASE name \in Short
  <2>1. DOMAIN cycles = {1} /\ cycles[1].address = "PC"
    BY <1>2 DEF instruction_table, Lrr, Rotate, Return, Conditional, Fetch, FetchOnly, Cycle
  <2>2. name \notin Immediates /\ name \notin Jumps
    BY <1>2 DEF Immediates, Jumps
  <2> HIDE DEF cycles
  <2>3. FromPC(name) = {i \in DOMAIN cycles : cycles[i].address = "PC"}
    BY DEF FromPC, cycles
  <2> QED
    BY <2>1, <2>2, <2>3
<1>3. CASE name \in Two
  <2>1. DOMAIN cycles = {1, 2}
    BY <1>3 DEF instruction_table
  <2>2. cycles[1].address = "PC" /\ cycles[2].address # "PC"
    BY <1>3 DEF instruction_table, Fetch, FetchOnly, Read, Write, Cycle
  <2>3. name \notin Immediates /\ name \notin Jumps
    BY <1>3 DEF Immediates, Jumps
  <2> HIDE DEF cycles
  <2>4. FromPC(name) = {i \in DOMAIN cycles : cycles[i].address = "PC"}
    BY DEF FromPC, cycles
  <2> QED
    BY <2>1, <2>2, <2>3, <2>4
<1>4. CASE name \in {"LrI", "ALU_OPI"}
  <2>1. DOMAIN cycles = {1, 2}
    BY <1>4 DEF instruction_table
  <2>2. cycles[1].address = "PC" /\ cycles[2].address = "PC"
    BY <1>4 DEF instruction_table, Fetch, FetchOnly, Read, Cycle
  <2>3. name \in Immediates
    BY <1>4 DEF Immediates
  <2> HIDE DEF cycles
  <2>4. FromPC(name) = {i \in DOMAIN cycles : cycles[i].address = "PC"}
    BY DEF FromPC, cycles
  <2> QED
    BY <2>1, <2>2, <2>3, <2>4
<1>5. CASE name = "LMI"
  <2>1. DOMAIN cycles = {1, 2, 3}
    BY <1>5 DEF instruction_table
  <2>2. cycles[1].address = "PC" /\ cycles[2].address = "PC" /\ cycles[3].address = "HL"
    BY <1>5 DEF instruction_table, Fetch, FetchOnly, ReadLow, Write, Cycle
  <2>3. name \in Immediates
    BY <1>5 DEF Immediates
  <2> HIDE DEF cycles
  <2>4. FromPC(name) = {i \in DOMAIN cycles : cycles[i].address = "PC"}
    BY DEF FromPC, cycles
  <2> QED
    BY <2>1, <2>2, <2>3, <2>4
<1>6. CASE name \in Jumps
  <2>1. DOMAIN cycles = {1, 2, 3}
    BY <1>6 DEF instruction_table, Jumps, Jump, JumpIf
  <2>2. cycles[1].address = "PC" /\ cycles[2].address = "PC" /\ cycles[3].address = "PC"
    BY <1>6 DEF instruction_table, Jumps, Jump, JumpIf, Conditional, Fetch, FetchOnly,
       ReadLow, ReadHigh, Cycle
  <2>3. name \notin Immediates
    BY <1>6 DEF Immediates, Jumps
  <2> HIDE DEF cycles
  <2>4. FromPC(name) = {i \in DOMAIN cycles : cycles[i].address = "PC"}
    BY DEF FromPC, cycles
  <2> QED
    BY <1>6, <2>1, <2>2, <2>3, <2>4
<1> QED
  BY <1>1, <1>2, <1>3, <1>4, <1>5, <1>6 DEF Immediates

(* The disassembler and the table of the cycles agree on the bytes of an *)
(* instruction. *)
SizeOf(name) == IF name \in Immediates THEN 2 ELSE IF name \in Jumps THEN 3 ELSE 1

LEMMA FetchedBytes ==
  ASSUME NEW opcode \in Opcode
  PROVE  BytesFetched(opcode) = SizeOf(Decoding[opcode].name)
<1> DEFINE name == Decoding[opcode].name
<1>1. name \in InstructionName
  BY DecodedHasCycles DEF Decoded
<1> HIDE DEF name
<1>2. BytesFetched(opcode) = IF name = "UNKNOWN" THEN 1 ELSE Cardinality(FromPC(name))
  BY DEF BytesFetched, FromPC, name
<1>3. BytesFetched(opcode) = SizeOf(name)
  <2>1. CASE name = "UNKNOWN"
    BY <1>2, <2>1 DEF SizeOf, Immediates, Jumps
  <2>2. CASE name # "UNKNOWN"
    BY <1>1, <1>2, <2>2, CyclesFromPC, SmallIntervals DEF SizeOf
  <2> QED
    BY <2>1, <2>2
<1> QED
  BY <1>3 DEF name

(* The opcodes of the instructions that other cards decode too. *)
LEMMA PartsOfDecoded ==
  ASSUME NEW opcode \in Opcode
  PROVE  LET decoded == Decoding[opcode]
             h == High(opcode)
             m == Medium(opcode)
             l == Low(opcode)
         IN
         /\ decoded.name \in InstructionName /\ decoded.medium \in 0 .. 7
         /\ decoded.name \in {"Lrr", "RET", "INP", "OUT"} => decoded.medium = m /\ decoded.low = l
         /\ decoded.name = "Lrr" => h = 3
         /\ decoded.name = "RET" => h = 0 /\ l = 7
         /\ decoded.name = "INP" => h = 1 /\ m \in {0, 1}
         /\ decoded.name = "OUT" => h = 1 /\ m \notin {0, 1}
         /\ h = 3 /\ m # 7 /\ l # 7 => decoded.name = "Lrr"
         /\ h = 0 /\ l = 7 => decoded.name = "RET"
<1> DEFINE decoded == Decoding[opcode]
           h == High(opcode)
           m == Medium(opcode)
           l == Low(opcode)
           M == Matching(opcode)
<1>0. h \in 0 .. 3 /\ m \in 0 .. 7 /\ l \in 0 .. 7
  BY PartsOfOpcode
<1>1. CASE M = {}
  <2>1. decoded = unknown_instruction
    BY <1>1 DEF Decoding, decode_instruction
  <2>2. h # 3 /\ ~(h = 0 /\ l = 7)
    BY <1>1, Matches
  <2> HIDE DEF decoded, h, m, l, M
  <2>3. decoded.name = "UNKNOWN" /\ decoded.medium = 0
    BY <2>1 DEF unknown_instruction
  <2>4. decoded.name \in InstructionName
    BY <2>3 DEF InstructionName, instruction_table
  <2> QED
    BY <2>2, <2>3, <2>4 DEF decoded, h, m, l
<1>2. CASE M # {}
  <2>1. PICK i \in M :
           /\ \A j \in M : i =< j
           /\ Decoding[opcode] =
                IF decoding_table[i].name = "UNKNOWN" THEN unknown_instruction
                ELSE [name |-> decoding_table[i].name, medium |-> m, low |-> l]
    BY <1>2, FirstMatches
  <2>2. i \in Rows
    BY RowsOfTable DEF Matching
  <2>3. decoded.name \in InstructionName
    BY DecodedHasCycles DEF Decoded
  <2>4. \A j \in 1 .. 30 : j < i => j \notin M
    BY <2>1, <2>2 DEF Rows
  <2>5. /\ i = 5 => h = 3
        /\ i = 25 => h = 0 /\ l = 7
        /\ i = 29 => h = 1 /\ m \in {0, 1}
        /\ i = 30 => h = 1
    BY <2>1, Matches
  <2>6. i = 30 => m \notin {0, 1}
    BY <1>0, <2>1, <2>4, Matches
  <2>7. h = 3 /\ m # 7 /\ l # 7 => i = 5
    BY <2>1, <2>2, Matches DEF Rows
  <2>8. h = 0 /\ l = 7 => i = 25
    BY <2>1, <2>2, Matches DEF Rows
  <2> HIDE DEF decoded, h, m, l, M
  <2>9. /\ decoding_table[i].name = "Lrr" <=> i = 5
        /\ decoding_table[i].name = "RET" <=> i = 25
        /\ decoding_table[i].name = "INP" <=> i = 29
        /\ decoding_table[i].name = "OUT" <=> i = 30
    BY <2>2, RowsAre DEF Rows, Row
  <2>10. decoded = IF decoding_table[i].name = "UNKNOWN" THEN unknown_instruction
                   ELSE [name |-> decoding_table[i].name, medium |-> m, low |-> l]
    BY <2>1 DEF decoded
  <2>11. CASE decoding_table[i].name = "UNKNOWN"
    <3>1. decoded.name = "UNKNOWN" /\ decoded.medium = 0
      BY <2>10, <2>11 DEF unknown_instruction
    <3>2. i # 5 /\ i # 25
      BY <2>9, <2>11
    <3> QED
      BY <2>3, <2>7, <2>8, <3>1, <3>2 DEF decoded, h, m, l
  <2>12. CASE decoding_table[i].name # "UNKNOWN"
    <3>1. decoded.name = decoding_table[i].name /\ decoded.medium = m /\ decoded.low = l
      BY <2>10, <2>12
    <3> QED
      BY <1>0, <2>3, <2>5, <2>6, <2>7, <2>8, <2>9, <3>1 DEF decoded, h, m, l
  <2> QED
    BY <2>11, <2>12
<1> QED
  BY <1>1, <1>2

(* The port that is shown is the one that the cards decode. *)
LEMMA PortOfOpcode ==
  ASSUME NEW opcode \in Opcode, High(opcode) = 1
  PROVE  /\ Medium(opcode) \in {0, 1} =>
              (opcode \div 2) % 8 = InputGroup((opcode % 64) * 256)
         /\ Medium(opcode) \notin {0, 1} =>
              ((opcode \div 2) % 32) - 8 = OutputPort((opcode % 64) * 256)
<1> DEFINE m == Medium(opcode)
           l == Low(opcode)
           low == opcode % 64
           half == low \div 2
<1>1. m \in 0 .. 7 /\ l \in 0 .. 7 /\ opcode = 64 + 8 * m + l
  BY PartsOfOpcode
<1> HIDE DEF m, l
<1>2. low = 8 * m + l
  BY <1>1
<1> HIDE DEF low
<1>3. low \in 0 .. 63
  BY <1>1, <1>2
<1>4. half \in 0 .. 31 /\ low - 2 * half \in {0, 1}
  BY <1>3
<1> HIDE DEF half
<1>5. opcode \div 2 = 32 + half
  BY <1>1, <1>2, <1>4
<1>6. (low * 256) \div 512 = half
  BY <1>3, <1>4
<1>7. InputGroup(low * 256) = half % 8 /\ OutputPort(low * 256) = ((half % 32) + 248) % 256
  BY <1>6 DEF InputGroup, OutputPort, Bits, Weight
<1>8. half % 32 = half
  BY <1>4
<1>9. (32 + half) % 8 = half % 8
  BY <1>4
<1>10. (32 + half) % 32 = half
  BY <1>4
<1>11. m \notin {0, 1} => half >= 8
  BY <1>1, <1>2, <1>4
<1>12. half >= 8 => (half + 248) % 256 = half - 8
  BY <1>4
<1> QED
  BY <1>5, <1>7, <1>8, <1>9, <1>10, <1>11, <1>12 DEF m, low

(* What the property says of the last line, of its opcode and of the length *)
(* of the file. *)
GoodFor(opcode, length, line) ==
  /\ IF line.address + BytesFetched(opcode) <= length
     THEN line.size = BytesFetched(opcode)
     ELSE line.size = 1 /\ line.mnemonic = "???"
  /\ \A name \in {"MAS", "DMS", "REI"} :
       line.mnemonic = name <=> NameAtController(opcode) = name
  /\ line.mnemonic = "INP" => line.operand = InputGroup((opcode % 64) * 256)
  /\ line.mnemonic = "OUT" => line.operand = OutputPort((opcode % 64) * 256)

GoodLine(bytes, line) == GoodFor(bytes[line.address + 1], Len(bytes), line)

Names == InstructionName \cup {"???", "MAS", "DMS", "REI"}

(* The three names that are not those of the table. *)
LEMMA RenamedAs ==
  ASSUME NEW opcode \in Opcode
  PROVE  LET decoded == Decoding[opcode]
             shown == Renamed(decoded)
         IN
         /\ shown \in Names
         /\ \A name \in {"MAS", "DMS", "REI"} : shown = name <=> NameAtController(opcode) = name
         /\ shown = "INP" => decoded.name = "INP"
         /\ shown = "OUT" => decoded.name = "OUT"
         /\ decoded.name \in Immediates \cup Jumps => shown = decoded.name
<1> DEFINE decoded == Decoding[opcode]
           shown == Renamed(decoded)
           h == High(opcode)
           m == Medium(opcode)
           l == Low(opcode)
<1>1. /\ decoded.name \in InstructionName
      /\ decoded.name \in {"Lrr", "RET", "INP", "OUT"} => decoded.medium = m /\ decoded.low = l
      /\ decoded.name = "Lrr" => h = 3
      /\ decoded.name = "RET" => h = 0 /\ l = 7
      /\ h = 3 /\ m # 7 /\ l # 7 => decoded.name = "Lrr"
      /\ h = 0 /\ l = 7 => decoded.name = "RET"
  BY PartsOfDecoded
<1>2. h \in 0 .. 3 /\ m \in 0 .. 7 /\ l \in 0 .. 7 /\ opcode = 64 * h + 8 * m + l
  BY PartsOfOpcode
<1>3. {"MAS", "DMS", "REI"} \cap InstructionName = {}
  BY DEF InstructionName, instruction_table
<1> HIDE DEF h, m, l
<1>4. /\ opcode = 210 <=> h = 3 /\ m = 2 /\ l = 2
      /\ opcode = 246 <=> h = 3 /\ m = 6 /\ l = 6
      /\ opcode = 31 <=> h = 0 /\ m = 3 /\ l = 7
  BY <1>2
<1> DEFINE rei == decoded.name = "RET" /\ decoded.medium = 3
           dms == decoded.name = "Lrr" /\ decoded.medium = 6 /\ decoded.low = 6
           mas == decoded.name = "Lrr" /\ decoded.medium = 2 /\ decoded.low = 2
<1>5. (rei <=> opcode = 31) /\ (dms <=> opcode = 246) /\ (mas <=> opcode = 210)
  BY <1>1, <1>4
<1>6. NameAtController(opcode) = IF opcode = 210 THEN "MAS" ELSE IF opcode = 246 THEN "DMS"
                                 ELSE IF opcode = 31 THEN "REI" ELSE "none"
  BY DEF NameAtController
<1>7. shown = IF rei THEN "REI" ELSE IF dms THEN "DMS" ELSE IF mas THEN "MAS" ELSE decoded.name
  BY DEF Renamed
<1> HIDE DEF decoded, shown
<1>8. /\ shown \in Names
      /\ shown = "INP" => decoded.name = "INP"
      /\ shown = "OUT" => decoded.name = "OUT"
      /\ decoded.name \in Immediates \cup Jumps => shown = decoded.name
  BY <1>1, <1>7 DEF Names, Immediates, Jumps
<1>9. \A name \in {"MAS", "DMS", "REI"} : shown = name <=> NameAtController(opcode) = name
  BY <1>1, <1>3, <1>5, <1>6, <1>7
<1> QED
  BY <1>8, <1>9 DEF decoded, shown

LEMMA NoWrap ==
  ASSUME NEW n \in Nat, NEW span \in Nat, n < span
  PROVE  n % span = n
OBVIOUS

LEMMA RestIsLess ==
  ASSUME NEW n \in Nat, NEW span \in Nat \ {0}
  PROVE  n % span \in Nat /\ n % span =< n
<1>1. CASE n < span
  BY <1>1
<1>2. CASE n >= span
  BY <1>2
<1> QED
  BY <1>1, <1>2

Lines == [address : Nat, mnemonic : Names, operand : Int, size : 1 .. 3]

(* The line that is printed at the address of the walk. *)
LEMMA PrintedLine ==
  ASSUME file \in Files, walk_address \in Nat, walk_address < Len(file),
         walk_address < AddressSpan
  PROVE  /\ get_extended \in Lines
         /\ get_extended.address = walk_address
         /\ walk_address + get_extended.size =< Len(file)
         /\ GoodLine(file, get_extended)
<1> DEFINE opcode == ByteOf(walk_address)
           decoded == Decoding[opcode]
           line == get_extended
           size == SizeOf(decoded.name)
           last == walk_address + 2
           group == InputGroup((opcode % 64) * 256)
           port == OutputPort((opcode % 64) * 256)
<1>1. file \in Seq(Opcode) /\ Len(file) \in Nat
  BY DisassemblerAssumption
<1>2. \A a \in Nat : a < Len(file) => ByteOf(a) \in Opcode
  <2> SUFFICES ASSUME NEW a \in Nat, a < Len(file) PROVE ByteOf(a) \in Opcode
    OBVIOUS
  <2>1. a % AddressSpan \in Nat /\ a % AddressSpan =< a
    BY DisassemblerAssumption, RestIsLess
  <2>2. (a % AddressSpan) + 1 \in 1 .. Len(file)
    BY <1>1, <2>1
  <2> QED
    BY <1>1, <2>2 DEF ByteOf
<1>18. ByteOf(walk_address) = file[walk_address + 1]
  BY DisassemblerAssumption, NoWrap DEF ByteOf
<1>17. \A byte \in Opcode : byte \in Int
  BY DEF Opcode
<1>3. opcode \in Opcode
  BY <1>2
<1>4. /\ decoded.name \in InstructionName /\ decoded.medium \in 0 .. 7
      /\ decoded.name = "INP" => High(opcode) = 1 /\ Medium(opcode) \in {0, 1}
      /\ decoded.name = "OUT" => High(opcode) = 1 /\ Medium(opcode) \notin {0, 1}
  BY <1>3, PartsOfDecoded
<1>5. BytesFetched(opcode) = size
  BY <1>3, FetchedBytes
<1>6. /\ Renamed(decoded) \in Names
      /\ \A name \in {"MAS", "DMS", "REI"} :
           Renamed(decoded) = name <=> NameAtController(opcode) = name
      /\ Renamed(decoded) = "INP" => decoded.name = "INP"
      /\ Renamed(decoded) = "OUT" => decoded.name = "OUT"
      /\ decoded.name \in Immediates \cup Jumps => Renamed(decoded) = decoded.name
  BY <1>3, RenamedAs
<1>7. size = IF decoded.name \in Immediates THEN 2 ELSE IF decoded.name \in Jumps THEN 3 ELSE 1
  BY DEF SizeOf
<1>8. line.address = walk_address =>
        (GoodLine(file, line) <=>
           /\ IF walk_address + size <= Len(file) THEN line.size = size
              ELSE line.size = 1 /\ line.mnemonic = "???"
           /\ \A name \in {"MAS", "DMS", "REI"} :
                line.mnemonic = name <=> NameAtController(opcode) = name
           /\ line.mnemonic = "INP" => line.operand = group
           /\ line.mnemonic = "OUT" => line.operand = port)
  <2> SUFFICES ASSUME line.address = walk_address
               PROVE  GoodFor(opcode, Len(file), line) <=>
                        /\ IF walk_address + size <= Len(file) THEN line.size = size
                           ELSE line.size = 1 /\ line.mnemonic = "???"
                        /\ \A name \in {"MAS", "DMS", "REI"} :
                             line.mnemonic = name <=> NameAtController(opcode) = name
                        /\ line.mnemonic = "INP" => line.operand = group
                        /\ line.mnemonic = "OUT" => line.operand = port
    BY <1>18 DEF GoodLine
  <2> HIDE DEF opcode, line, size
  <2> QED
    BY <1>5, Zenon DEF GoodFor
<1>9. ShortOperand(decoded, opcode) \in Int
  <2> HIDE DEF decoded, opcode
  <2>1. opcode \in Nat /\ decoded.medium * 8 \in Int /\ -1 \in Int
    BY <1>3, <1>4 DEF Opcode
  <2>2. opcode \div 2 \in Nat
    BY <2>1
  <2>3. (opcode \div 2) % 8 \in Int
    BY <2>2
  <2>4. ((opcode \div 2) % 32) - 8 \in Int
    BY <2>2
  <2> QED
    BY <2>1, <2>3, <2>4 DEF ShortOperand, NoOperand
<1>10. /\ decoded.name = "INP" => ShortOperand(decoded, opcode) = group
       /\ decoded.name = "OUT" => ShortOperand(decoded, opcode) = port
  BY <1>3, <1>4, PortOfOpcode DEF ShortOperand
<1>11. /\ line = (CASE decoded.name = "UNKNOWN" -> DECODING_ERROR
                    [] decoded.name \in Immediates ->
                         IF walk_address + 1 >= Len(file) THEN DECODING_ERROR
                         ELSE Line(Renamed(decoded), ByteOf(walk_address + 1), 2)
                    [] decoded.name \in Jumps ->
                         IF last >= Len(file) THEN DECODING_ERROR
                         ELSE Line(Renamed(decoded), ByteOf(last) * 256 + ByteOf(last - 1), 3)
                    [] OTHER -> Line(Renamed(decoded), ShortOperand(decoded, opcode), 1))
  BY DEF get_extended
<1>12. "UNKNOWN" \notin Immediates /\ "UNKNOWN" \notin Jumps /\ Immediates \cap Jumps = {}
       /\ {"INP", "OUT"} \cap (Immediates \cup Jumps) = {}
  BY DEF Immediates, Jumps
<1> HIDE DEF opcode, decoded, line, size, group, port
<1>13. CASE decoded.name = "UNKNOWN"
  <2>1. line = Line("???", NoOperand, 1) /\ size = 1
    BY <1>7, <1>11, <1>12, <1>13 DEF DECODING_ERROR
  <2>2. line.address = walk_address /\ line.mnemonic = "???" /\ line.size = 1 /\ line \in Lines
    BY <2>1 DEF Line, Lines, Names, NoOperand
  <2>3. Renamed(decoded) = "UNKNOWN"
    BY <1>13 DEF Renamed
  <2>4. \A name \in {"MAS", "DMS", "REI"} : ~(NameAtController(opcode) = name)
    BY <1>6, <2>3
  <2> QED
    BY <1>1, <1>8, <2>1, <2>2, <2>4 DEF line
<1>14. CASE decoded.name \in Immediates \cup Jumps /\ walk_address + size > Len(file)
  <2>1. line = Line("???", NoOperand, 1)
    BY <1>1, <1>7, <1>11, <1>12, <1>14 DEF DECODING_ERROR
  <2>2. line.address = walk_address /\ line.mnemonic = "???" /\ line.size = 1 /\ line \in Lines
    BY <2>1 DEF Line, Lines, Names, NoOperand
  <2>3. \A name \in {"MAS", "DMS", "REI"} : ~(NameAtController(opcode) = name)
    BY <1>6, <1>14 DEF Immediates, Jumps
  <2>4. ~(walk_address + size <= Len(file))
    BY <1>1, <1>7, <1>14
  <2> QED
    BY <1>1, <1>8, <2>2, <2>3, <2>4 DEF line
<1>15. CASE decoded.name \in Immediates \cup Jumps /\ walk_address + size <= Len(file)
  <2>1. PICK operand \in Int : line = Line(Renamed(decoded), operand, size)
    <3>1. CASE decoded.name \in Immediates
      <4>3. size = 2
        BY <1>7, <3>1
      <4>4. walk_address + 1 \in Nat /\ walk_address + 1 < Len(file)
        BY <1>1, <1>15, <4>3
      <4>5. ByteOf(walk_address + 1) \in Opcode
        BY <1>2, <4>4, Zenon
      <4>1. ByteOf(walk_address + 1) \in Int
        BY <1>17, <4>5, Zenon
      <4>2. line = Line(Renamed(decoded), ByteOf(walk_address + 1), 2) /\ size = 2
        BY <1>1, <1>7, <1>11, <1>12, <1>15, <3>1
      <4> QED
        BY <4>1, <4>2
    <3>2. CASE decoded.name \in Jumps
      <4>1. size = 3 /\ decoded.name \notin Immediates
        BY <1>7, <1>12, <3>2
      <4>5. last \in Nat /\ last < Len(file) /\ last - 1 \in Nat /\ last - 1 < Len(file)
        BY <1>1, <1>15, <4>1
      <4>6. ByteOf(last) \in Opcode /\ ByteOf(last - 1) \in Opcode
        BY <1>2, <4>5, Zenon
      <4>2. ByteOf(last) \in Int /\ ByteOf(last - 1) \in Int
        BY <1>17, <4>6, Zenon
      <4>3. line = Line(Renamed(decoded), ByteOf(last) * 256 + ByteOf(last - 1), size)
        BY <1>1, <1>11, <1>12, <1>15, <3>2, <4>1
      <4>4. ByteOf(last) * 256 + ByteOf(last - 1) \in Int
        BY <4>2
      <4> HIDE DEF last
      <4> QED
        BY <4>3, <4>4
    <3> QED
      BY <1>15, <3>1, <3>2
  <2>2. size \in 1 .. 3
    BY <1>7
  <2>3. /\ line.address = walk_address /\ line.mnemonic = Renamed(decoded)
        /\ line.size = size /\ line \in Lines
    BY <1>6, <2>1, <2>2 DEF Line, Lines
  <2>4. line.mnemonic \notin {"INP", "OUT"}
    BY <1>6, <1>12, <1>15, <2>3
  <2>5. \A name \in {"MAS", "DMS", "REI"} :
          line.mnemonic = name <=> NameAtController(opcode) = name
    BY <1>6, <2>3
  <2> QED
    BY <1>8, <1>15, <2>3, <2>4, <2>5 DEF line
<1>16. CASE decoded.name # "UNKNOWN" /\ decoded.name \notin Immediates \cup Jumps
  <2>1. line = Line(Renamed(decoded), ShortOperand(decoded, opcode), 1) /\ size = 1
    BY <1>7, <1>11, <1>16
  <2>2. /\ line.address = walk_address /\ line.mnemonic = Renamed(decoded)
        /\ line.operand = ShortOperand(decoded, opcode) /\ line.size = 1 /\ line \in Lines
    BY <1>6, <1>9, <2>1 DEF Line, Lines
  <2>3. \A name \in {"MAS", "DMS", "REI"} :
          line.mnemonic = name <=> NameAtController(opcode) = name
    BY <1>6, <2>2
  <2>4. /\ line.mnemonic = "INP" => line.operand = group
        /\ line.mnemonic = "OUT" => line.operand = port
    BY <1>6, <1>10, <2>2
  <2> QED
    BY <1>1, <1>8, <2>1, <2>2, <2>3, <2>4 DEF line
<1> QED
  <2>1. walk_address + size <= Len(file) \/ walk_address + size > Len(file)
    BY <1>1, <1>7
  <2> QED
    BY <1>13, <1>14, <1>15, <1>16, <2>1

ListingInv ==
  /\ file \in Files
  /\ walk_address \in Nat
  /\ listing \in Seq(Lines)
  /\ LinesFollow

LEMMA InitListingInv == MachineInit => ListingInv
<1> SUFFICES ASSUME MachineInit PROVE ListingInv
  OBVIOUS
<1>1. file \in Files /\ walk_address = 0 /\ listing = <<>>
  BY DEF MachineInit, ListingInit
<1>2. file \in Seq(Opcode)
  BY <1>1, DisassemblerAssumption
<1>3. Len(file) \in Nat
  BY <1>2
<1> QED
  BY <1>1, <1>3, DisassemblerAssumption DEF ListingInv, LinesFollow

LEMMA NextListingInv == ListingInv /\ [MachineNext]_vars => ListingInv'
<1> SUFFICES ASSUME ListingInv, [MachineNext]_vars PROVE ListingInv'
  OBVIOUS
<1>1. CASE PrintLine
  <2>1. /\ walk_address < Len(file)
        /\ listing' = Append(listing, get_extended)
        /\ walk_address' = (walk_address + get_extended.size) % AddressSpan
        /\ file' = file
        /\ walk_address + get_extended.size < AddressSpan
    BY <1>1 DEF PrintLine, LineEnds
  <2>2. /\ file \in Files /\ walk_address \in Nat /\ listing \in Seq(Lines)
        /\ walk_address < AddressSpan
    BY DEF ListingInv, LinesFollow
  <2>3. /\ get_extended \in Lines
        /\ get_extended.address = walk_address
        /\ walk_address + get_extended.size =< Len(file)
        /\ GoodLine(file, get_extended)
    BY <2>1, <2>2, PrintedLine
  <2>4. file \in Seq(Opcode) /\ Len(file) \in Nat /\ AddressSpan \in Nat
    BY <2>2, DisassemblerAssumption
  <2> DEFINE line == get_extended
             before == listing[Len(listing)]
             n == Len(listing)
  <2>5. line.size \in 1 .. 3 /\ walk_address + line.size \in Nat
    BY <2>2, <2>3 DEF Lines
  <2> HIDE DEF line
  <2>6. walk_address' = walk_address + line.size
    <3>1. walk_address + line.size < AddressSpan
      BY <2>1 DEF line
    <3>2. walk_address' = (walk_address + line.size) % AddressSpan
      BY <2>1 DEF line
    <3> QED
      BY <2>4, <2>5, <3>1, <3>2, NoWrap
  <2>7. listing' \in Seq(Lines) /\ Len(listing') = n + 1 /\ listing'[n + 1] = line
        /\ (n # 0 => listing'[n] = listing[n]) /\ listing' # <<>> /\ n \in Nat
    BY <2>1, <2>2, <2>3 DEF line
  <2>8. walk_address = IF n = 0 THEN 0 ELSE before.address + before.size
    BY <2>2 DEF ListingInv, LinesFollow
  <2>9. GoodLine(file, line) /\ line.address = walk_address
    BY <2>3 DEF line
  <2>10. LinesFollow'
    <3>1. walk_address' <= Len(file')
      BY <2>1, <2>3, <2>6 DEF line
    <3>2. walk_address' = line.address + line.size
      BY <2>6, <2>9
    <3>3. line.address = (IF n + 1 = 1 THEN 0 ELSE listing'[n].address + listing'[n].size)
      BY <2>7, <2>8, <2>9
    <3>4. GoodFor(file'[(line.address % AddressSpan) + 1], Len(file'), line)
      <4>1. line.address % AddressSpan = line.address
        BY <2>2, <2>4, <2>9, NoWrap
      <4> QED
        BY <2>1, <2>9, <4>1 DEF GoodLine
    <3>6. walk_address' < AddressSpan
      BY <2>1, <2>6 DEF line
    <3> HIDE DEF n
    <3>5. (n + 1) - 1 = n
      BY <2>7
    <3> QED
      BY <2>7, <3>1, <3>2, <3>3, <3>4, <3>5, <3>6 DEF LinesFollow, GoodFor, ByteOf
  <2> QED
    BY <2>1, <2>2, <2>5, <2>6, <2>7, <2>10 DEF ListingInv
<1>2. CASE UNCHANGED listing_vars
  BY <1>2 DEF ListingInv, LinesFollow, ByteOf, listing_vars
<1>3. PrintLine \/ UNCHANGED listing_vars
  BY DEF MachineNext, vars, IOCycle, ReadByte, Seek, disk_vars, memory_vars, memory
<1> QED
  BY <1>1, <1>2, <1>3

(* The walk of the disassembler through any file, whole or cut in the      *)
(* middle of an instruction: each line holds the bytes that the CPU fetches *)
(* for the instruction, no byte is skipped or listed twice, and the walk    *)
(* of a file that is shorter than the span of the addresses is not stopped  *)
(* before its end.                                                          *)
THEOREM Listing == MachineSpec => []ListsWhatIsFetched
<1>1. ASSUME ListingInv PROVE ListsWhatIsFetched
  <2>1. /\ file \in Files /\ walk_address \in Nat /\ walk_address < AddressSpan
        /\ LinesFollow
    BY <1>1 DEF ListingInv, LinesFollow
  <2>2. ASSUME Len(file) < AddressSpan, walk_address < Len(file) PROVE LineEnds
    <3>1. get_extended \in Lines /\ walk_address + get_extended.size =< Len(file)
      BY <2>1, <2>2, PrintedLine
    <3>2. walk_address + get_extended.size \in Nat
      BY <2>1, <3>1 DEF Lines
    <3>3. Len(file) \in Nat /\ AddressSpan \in Nat
      BY <2>1, DisassemblerAssumption
    <3> QED
      BY <2>2, <3>1, <3>2, <3>3 DEF LineEnds
  <2> QED
    BY <2>1, <2>2 DEF ListsWhatIsFetched
<1> QED
  BY <1>1, InitListingInv, NextListingInv, PTL DEF MachineSpec

-----------------------------------------------------------------------------
(* The cards as one flat memory: the state function of the refinement, with  *)
(* the configuration and the buffers as parameters. *)

CardsAt(config, a) == Decoder[config][a]

BehindOf(config, buf, a) ==
  IF CardsAt(config, a) = {} THEN Empty
  ELSE LET card == Chosen(CardsAt(config, a)) IN buf[card][a - start_address(card)]

FlatBytes(config, buf) == [a \in Visited |-> BehindOf(config, buf, a)]

ReadOnlyOf(config) ==
  {a \in Visited : \A card \in CardsAt(config, a) : card.access = "ROM"}

BuffersOK(config, buf) ==
  /\ DOMAIN buf = CardsOf(config)
  /\ \A card \in CardsOf(config) : buf[card] \in [0 .. Length(card) - 1 -> BytesMet]

LEMMA VisitedAre == Visited \subseteq Addresses
BY MemoryAssumption DEF Addresses, Block

LEMMA CardsAtAddress ==
  ASSUME NEW config \in Configs, NEW a \in Addresses
  PROVE  /\ CardsAt(config, a) = {card \in CardsOf(config) : is_addressed(card, a)}
         /\ CardsAt(config, a) = {card \in CardsOf(config) : Answers(card, BlockOf(a))}
         /\ CardsAt(config, a) = {} \/ \E card \in CardsOf(config) : CardsAt(config, a) = {card}
         /\ \A card \in CardsAt(config, a) : Chosen(CardsAt(config, a)) = card
<1>1. CardsAt(config, a) = {card \in CardsOf(config) : is_addressed(card, a)}
  BY DEF CardsAt, Decoder, Configs
<1>2. CardsAt(config, a) = {card \in CardsOf(config) : Answers(card, BlockOf(a))}
  BY <1>1, AddressedHolds
<1>3. ASSUME NEW card \in CardsAt(config, a), NEW other \in CardsAt(config, a)
      PROVE  card = other
  BY <1>2, OneCardOfBlock, Blocks
<1>4. ASSUME NEW card \in CardsAt(config, a) PROVE Chosen(CardsAt(config, a)) = card
  <2>1. Chosen(CardsAt(config, a)) \in CardsAt(config, a)
    BY DEF Chosen
  <2> QED
    BY <1>3, <2>1
<1>5. CardsAt(config, a) = {} \/ \E card \in CardsOf(config) : CardsAt(config, a) = {card}
  BY <1>1, <1>3
<1> QED
  BY <1>1, <1>2, <1>4, <1>5

(* The byte of an address is one of the buffer of its card. *)
LEMMA LocalAddress ==
  ASSUME NEW config \in Configs, NEW a \in Addresses, NEW card \in CardsAt(config, a)
  PROVE  /\ card \in CardsOf(config)
         /\ start_address(card) \in Nat /\ Length(card) \in Nat
         /\ a - start_address(card) \in 0 .. Length(card) - 1
<1>1. card \in CardsOf(config) /\ Answers(card, BlockOf(a)) /\ a \in Nat
  BY CardsAtAddress, Blocks
<1>2. /\ start_address(card) <= a /\ a < start_address(card) + Length(card)
      /\ start_address(card) \in Nat /\ Length(card) \in Nat
  BY <1>1, AddressedHolds
<1> QED
  BY <1>1, <1>2

LEMMA BehindIs ==
  ASSUME NEW config \in Configs, NEW buf, NEW a \in Addresses
  PROVE  /\ CardsAt(config, a) = {} => BehindOf(config, buf, a) = Empty
         /\ \A card \in CardsAt(config, a) :
              BehindOf(config, buf, a) = buf[card][a - start_address(card)]
BY CardsAtAddress DEF BehindOf

LEMMA FlatBytesMet ==
  ASSUME NEW config \in Configs, NEW buf, BuffersOK(config, buf)
  PROVE  FlatBytes(config, buf) \in [Visited -> BytesMet]
<1> SUFFICES ASSUME NEW a \in Visited PROVE BehindOf(config, buf, a) \in BytesMet
  BY DEF FlatBytes
<1>1. a \in Addresses
  BY VisitedAre
<1>2. CASE CardsAt(config, a) = {}
  BY <1>1, <1>2, BehindIs DEF BytesMet
<1>3. CASE CardsAt(config, a) # {}
  <2>1. PICK card \in CardsAt(config, a) : TRUE
    BY <1>3
  <2>2. card \in CardsOf(config) /\ a - start_address(card) \in 0 .. Length(card) - 1
    BY <1>1, LocalAddress
  <2>3. buf[card] \in [0 .. Length(card) - 1 -> BytesMet]
    BY <2>2 DEF BuffersOK
  <2>4. BehindOf(config, buf, a) = buf[card][a - start_address(card)]
    BY <1>1, BehindIs
  <2> QED
    BY <2>2, <2>3, <2>4
<1> QED
  BY <1>2, <1>3

(* Writing to the cards that an address selects writes one byte of the flat  *)
(* memory, or none. *)
WrittenTo(config, buf, a, byte) ==
  [card \in CardsOf(config) |->
     IF is_addressed(card, a) /\ Writes(card, a - start_address(card))
     THEN [buf[card] EXCEPT ![a - start_address(card)] = byte]
     ELSE buf[card]]

LEMMA WriteIsFlat ==
  ASSUME NEW config \in Configs, NEW buf, BuffersOK(config, buf),
         NEW a \in Visited, NEW byte \in BytesMet
  PROVE  /\ BuffersOK(config, WrittenTo(config, buf, a, byte))
         /\ FlatBytes(config, WrittenTo(config, buf, a, byte)) =
              IF a \in ReadOnlyOf(config) THEN FlatBytes(config, buf)
              ELSE [FlatBytes(config, buf) EXCEPT ![a] = byte]
<1> DEFINE after == WrittenTo(config, buf, a, byte)
           local(card) == a - start_address(card)
<1>1. a \in Addresses
  BY VisitedAre
<1>2. ASSUME NEW card \in CardsOf(config)
      PROVE  after[card] = IF card \in CardsAt(config, a) /\ card.access # "ROM"
                           THEN [buf[card] EXCEPT ![local(card)] = byte] ELSE buf[card]
  BY <1>1, CardsAtAddress DEF WrittenTo, Writes
<1>3. DOMAIN after = CardsOf(config)
  BY DEF WrittenTo
<1> HIDE DEF after
<1>4. BuffersOK(config, after)
  <2> SUFFICES ASSUME NEW card \in CardsOf(config)
               PROVE  after[card] \in [0 .. Length(card) - 1 -> BytesMet]
    BY <1>3 DEF BuffersOK
  <2>1. buf[card] \in [0 .. Length(card) - 1 -> BytesMet]
    BY DEF BuffersOK
  <2> QED
    BY <1>2, <2>1
<1>5. ASSUME NEW x \in Visited
      PROVE  BehindOf(config, after, x) =
               IF x = a /\ a \notin ReadOnlyOf(config) THEN byte ELSE BehindOf(config, buf, x)
  <2>1. x \in Addresses
    BY VisitedAre
  <2>2. CASE CardsAt(config, x) = {}
    <3>1. x = a => a \in ReadOnlyOf(config)
      BY <2>2 DEF ReadOnlyOf
    <3> QED
      BY <2>1, <2>2, <3>1, BehindIs
  <2>3. CASE CardsAt(config, x) # {}
    <3>1. PICK card \in CardsAt(config, x) : CardsAt(config, x) = {card}
      BY <2>1, <2>3, CardsAtAddress
    <3> DEFINE s == start_address(card)
    <3>2. card \in CardsOf(config) /\ x - s \in 0 .. Length(card) - 1 /\ s \in Nat
      BY <2>1, LocalAddress
    <3>3. /\ BehindOf(config, after, x) = after[card][x - s]
          /\ BehindOf(config, buf, x) = buf[card][x - s]
      BY <2>1, BehindIs
    <3>4. buf[card] \in [0 .. Length(card) - 1 -> BytesMet]
      BY <3>2 DEF BuffersOK
    <3>5. a \in Nat /\ x \in Nat
      BY <1>1, <2>1, Blocks
    <3>6. after[card] = IF card \in CardsAt(config, a) /\ card.access # "ROM"
                        THEN [buf[card] EXCEPT ![a - s] = byte] ELSE buf[card]
      BY <1>2, <3>2
    <3>7. x = a => (a \in ReadOnlyOf(config) <=> card.access = "ROM")
      BY <3>1 DEF ReadOnlyOf
    <3> HIDE DEF s
    <3>8. CASE x = a
      BY <3>1, <3>2, <3>3, <3>4, <3>6, <3>7, <3>8
    <3>9. CASE x # a
      <4>1. x - s # a - s
        BY <3>2, <3>5, <3>9 
      <4> QED
        BY <3>2, <3>3, <3>4, <3>6, <3>9, <4>1
    <3> QED
      BY <3>8, <3>9
  <2> QED
    BY <2>2, <2>3
<1> QED
  BY <1>4, <1>5 DEF FlatBytes, after

(* What a file leaves in a memory. *)
LEMMA LoadedBytes ==
  ASSUME NEW image, image \in {BootImage, MonitorImage, <<>>}, NEW size \in Nat
  PROVE  Loaded(image, size) \in [0 .. size - 1 -> BytesMet]
<1> SUFFICES ASSUME NEW i \in 0 .. size - 1
             PROVE  (IF i < Len(image) THEN image[i + 1] ELSE 0) \in BytesMet
  BY DEF Loaded
<1>1. CASE i < Len(image)
  <2>1. image # <<>>
    BY <1>1
  <2>2. image \in Seq(Byte)
    BY <2>1, MemoryAssumption
  <2>3. i + 1 \in DOMAIN image
    BY <1>1, <2>2
  <2> QED
    BY <1>1, <2>1, <2>3 DEF BytesMet
<1>2. CASE ~(i < Len(image))
  BY <1>2 DEF BytesMet, Empty
<1> QED
  BY <1>1, <1>2

(* The address of a byte of the boot ROM selects its card alone. *)
LEMMA BootCard ==
  ASSUME NEW a \in Addresses, a < PAGE_SIZE
  PROVE  CardsAt("MICRAL_N", a) = {masked_rom_ram_4k(0)}
<1>1. PAGE_SIZE \in Nat \ {0} /\ Block = 8 * PAGE_SIZE
  BY MemoryAssumption DEF Block
<1>2. a \in Nat /\ BlockOf(a) * Block =< a /\ BlockOf(a) \in 0 .. 7
  BY Blocks
<1>3. BlockOf(a) = 0
  <2> DEFINE q == BlockOf(a)
  <2> HIDE DEF q
  <2>1. CASE q >= 1
    <3>1. Block =< q * Block
      BY <1>1, <1>2, <2>1 DEF q
    <3> QED
      BY <1>1, <1>2, <3>1 DEF q
  <2> QED
    BY <1>2, <2>1 DEF q
<1>4. masked_rom_ram_4k(0) \in CardsOf("MICRAL_N") /\ Answers(masked_rom_ram_4k(0), 0)
  BY DEF CardsOf, masked_rom_ram_4k, Answers
<1>5. masked_rom_ram_4k(0) \in CardsAt("MICRAL_N", a)
  BY <1>3, <1>4, CardsAtAddress DEF Configs
<1> QED
  BY <1>5, CardsAtAddress DEF Configs

(* A card gives the byte of the flat memory. *)
LEMMA ReadIsFlat ==
  ASSUME rom_config \in Configs, BuffersOK(rom_config, buffer),
         page_0 = "masked_rom" => rom_config = "MICRAL_N",
         NEW a \in Visited
  PROVE  /\ Addressed(a) = {} => Flat!Contents(a) = Empty
         /\ \A card \in Addressed(a) : read_data(card, a) = Flat!Contents(a)
         /\ Flat!Contents(a) \in BytesMet
<1> DEFINE booted == page_0 = "masked_rom" /\ a < PAGE_SIZE
           behind == BehindOf(rom_config, buffer, a)
<1>1. a \in Addresses /\ a \in Nat /\ PAGE_SIZE \in Nat \ {0}
  BY VisitedAre, Blocks, MemoryAssumption
<1>2. Addressed(a) = CardsAt(rom_config, a)
  BY DEF Addressed, CardsAt
<1>3. Behind(a) = behind
  BY <1>2 DEF Behind, BehindOf
<1>4. DOMAIN masked_rom = 0 .. PAGE_SIZE - 1
  BY DEF masked_rom, Loaded
<1>5. Flat!Contents(a) = IF booted THEN masked_rom[a] ELSE behind
  <2>1. page_0 = "masked_rom" => rom_config = "MICRAL_N"
    OBVIOUS
  <2>2. a \in DOMAIN masked_rom <=> a < PAGE_SIZE
    BY <1>1, <1>4
  <2> QED
    BY <1>3, <2>1, <2>2 DEF Flat!Contents
<1>6. CASE booted
  <2>1. CardsAt(rom_config, a) = {masked_rom_ram_4k(0)}
    BY <1>1, <1>6, BootCard
  <2>2. /\ start_address(masked_rom_ram_4k(0)) = 0
        /\ masked_rom_ram_4k(0).access = "ROM_RAM_256"
    <3>1. Block \in Nat
      BY <1>1 DEF Block
    <3> QED
      BY <3>1 DEF start_address, masked_rom_ram_4k
  <2>3. read_data(masked_rom_ram_4k(0), a) = masked_rom[a]
    BY <1>1, <1>6, <2>2 DEF read_data
  <2>4. masked_rom[a] \in BytesMet
    <3>1. masked_rom \in [0 .. PAGE_SIZE - 1 -> BytesMet]
      BY <1>1, LoadedBytes DEF masked_rom
    <3> QED
      BY <1>1, <1>6, <3>1
  <2> QED
    BY <1>2, <1>5, <1>6, <2>1, <2>3, <2>4
<1>7. CASE ~booted
  <2>1. behind \in BytesMet
    <3>1. FlatBytes(rom_config, buffer) \in [Visited -> BytesMet]
      BY FlatBytesMet
    <3> QED
      BY <3>1 DEF FlatBytes
  <2>2. ASSUME NEW card \in CardsAt(rom_config, a) PROVE read_data(card, a) = behind
    <3>1. card \in CardsOf(rom_config) /\ start_address(card) \in Nat
      BY <1>1, LocalAddress
    <3>2. behind = buffer[card][a - start_address(card)]
      BY <1>1, BehindIs
    <3>3. card.access = "ROM_RAM_256" => start_address(card) = 0
      <4>1. card.access = "ROM_RAM_256" => card = masked_rom_ram_4k(0)
        BY <3>1, CardsAre
      <4>2. Block \in Nat
        BY <1>1 DEF Block
      <4>3. start_address(masked_rom_ram_4k(0)) = 0
        BY <4>2 DEF start_address, masked_rom_ram_4k
      <4> QED
        BY <4>1, <4>3
    <3> QED
      BY <1>1, <1>7, <3>2, <3>3 DEF read_data
  <2>3. CardsAt(rom_config, a) = {} => behind = Empty
    BY <1>1, BehindIs
  <2> QED
    BY <1>2, <1>5, <1>7, <2>1, <2>2, <2>3
<1> QED
  BY <1>6, <1>7

ContentsOf(config, buf, page, a) ==
  LET boot == IF config = "MICRAL_N" THEN masked_rom ELSE <<>>
  IN IF page = "masked_rom" /\ a \in DOMAIN boot THEN boot[a] ELSE BehindOf(config, buf, a)

(* Between T2 and the second rise of phase 2 the bus holds the byte of the *)
(* address; once the card has sampled T3, the boot ROM has gone if it must. *)
MemoryInv ==
  /\ rom_config \in Configs
  /\ BuffersOK(rom_config, buffer)
  /\ page_0 \in {"masked_rom", "buffer"}
  /\ page_0 = "masked_rom" => rom_config = "MICRAL_N"
  /\ t3 \in {"LOW", "HIGH", "sampled"}
  /\ t3 # "LOW" => cycle_control \in {"PCI", "PCR", "Substituted"} /\ md_bus \in BytesMet
  /\ t3 = "HIGH" /\ cycle_control # "Substituted" =>
       address \in Visited /\ md_bus = ContentsOf(rom_config, buffer, page_0, address)
  /\ t3 = "sampled" /\ cycle_control # "Substituted" =>
       last_cycle = [kind |-> cycle_control, address |-> address, byte |-> md_bus]
  /\ t3 = "sampled" /\ Switches => page_0 = "buffer"

LEMMA ContentsAre ==
  ASSUME NEW a \in Visited
  PROVE  Flat!Contents(a) = ContentsOf(rom_config, buffer, page_0, a)
<1>1. Behind(a) = BehindOf(rom_config, buffer, a)
  BY DEF Behind, BehindOf, Addressed, CardsAt
<1> QED
  BY <1>1 DEF Flat!Contents, ContentsOf

LEMMA InitMemoryInv == MachineInit => MemoryInv
<1> SUFFICES ASSUME MachineInit PROVE MemoryInv
  OBVIOUS
<1>1. /\ rom_config \in Configs
      /\ buffer = [card \in CardsOf(rom_config) |->
           Loaded(IF card.access = "ROM" THEN MonitorImage ELSE <<>>, Length(card))]
      /\ page_0 = (IF rom_config = "MICRAL_N" THEN "masked_rom" ELSE "buffer")
      /\ t3 = "LOW"
  BY DEF MachineInit, MemoryInit, Configs, Cards
<1>2. BuffersOK(rom_config, buffer)
  <2> SUFFICES ASSUME NEW card \in CardsOf(rom_config)
               PROVE  buffer[card] \in [0 .. Length(card) - 1 -> BytesMet]
    BY <1>1 DEF BuffersOK
  <2>1. Length(card) \in Nat
    BY MemoryAssumption DEF Length, Block
  <2> QED
    BY <1>1, <2>1, LoadedBytes
<1> QED
  BY <1>1, <1>2 DEF MemoryInv

LEMMA NextMemoryInv == MemoryInv /\ [MachineNext]_vars => MemoryInv'
<1> SUFFICES ASSUME MemoryInv, [MachineNext]_vars PROVE MemoryInv'
  OBVIOUS
<1>0. /\ rom_config \in Configs
      /\ BuffersOK(rom_config, buffer)
      /\ page_0 \in {"masked_rom", "buffer"}
      /\ page_0 = "masked_rom" => rom_config = "MICRAL_N"
  BY DEF MemoryInv
<1>1. CASE ReadCycle
  <2>1. PICK control \in {"PCI", "PCR"}, a \in Visited, byte \in BytesMet :
          /\ byte = ContentsOf(rom_config, buffer, page_0, a)
          /\ ReadT2Falls(control, a, byte)
    <3>1. PICK control \in {"PCI", "PCR"}, a \in Visited :
            \/ Addressed(a) = {} /\ ReadT2Falls(control, a, Empty)
            \/ \E card \in Addressed(a) : ReadT2Falls(control, a, read_data(card, a))
      BY <1>1 DEF ReadCycle
    <3>2. /\ Addressed(a) = {} => Flat!Contents(a) = Empty
          /\ \A card \in Addressed(a) : read_data(card, a) = Flat!Contents(a)
          /\ Flat!Contents(a) \in BytesMet
      BY <1>0, ReadIsFlat
    <3>3. Flat!Contents(a) = ContentsOf(rom_config, buffer, page_0, a)
      BY ContentsAre
    <3>4. ReadT2Falls(control, a, ContentsOf(rom_config, buffer, page_0, a))
      BY <3>1, <3>2, <3>3, Zenon
    <3> QED
      BY <3>2, <3>3, <3>4, Zenon
  <2>2. /\ t3' = "HIGH" /\ cycle_control' = control /\ address' = a /\ md_bus' = byte
        /\ rom_config' = rom_config /\ buffer' = buffer /\ page_0' = page_0
    BY <2>1 DEF ReadT2Falls, memory
  <2> QED
    BY <1>0, <2>1, <2>2 DEF MemoryInv, Switches
<1>2. CASE SubstitutedCycle
  <2>1. PICK byte \in WrittenBytes : ReadT2Falls("Substituted", 0, byte)
    BY <1>2 DEF SubstitutedCycle
  <2>2. /\ t3' = "HIGH" /\ cycle_control' = "Substituted" /\ md_bus' = byte
        /\ rom_config' = rom_config /\ buffer' = buffer /\ page_0' = page_0
    BY <2>1 DEF ReadT2Falls, memory
  <2>3. byte \in BytesMet
    BY DEF BytesMet
  <2> QED
    BY <1>0, <2>2, <2>3 DEF MemoryInv, Switches
<1>3. CASE WriteCycle
  <2>1. PICK a \in Written, byte \in WrittenBytes :
          /\ t3 = "LOW"
          /\ buffer' = WrittenTo(rom_config, buffer, a, byte)
          /\ UNCHANGED <<rom_config, page_0, address, cycle_control, md_bus, t3>>
    BY <1>3 DEF WriteCycle, WrittenTo, Cards
  <2>2. a \in Visited /\ byte \in BytesMet
    BY MemoryAssumption DEF BytesMet
  <2>3. BuffersOK(rom_config, buffer')
    BY <1>0, <2>1, <2>2, WriteIsFlat
  <2> QED
    BY <1>0, <2>1, <2>3 DEF MemoryInv, Switches
<1>4. CASE Phase2Rises
  <2>1. /\ t3 # "LOW" /\ t3' = "sampled"
        /\ page_0' = IF Switches THEN "buffer" ELSE page_0
        /\ last_cycle' = IF cycle_control = "Substituted" THEN last_cycle
                         ELSE [kind |-> cycle_control, address |-> address, byte |-> md_bus]
        /\ UNCHANGED <<rom_config, buffer, address, cycle_control, md_bus>>
    BY <1>4 DEF Phase2Rises
  <2>2. cycle_control \in {"PCI", "PCR", "Substituted"} /\ md_bus \in BytesMet
    BY <2>1 DEF MemoryInv
  <2>3. Switches' <=> Switches
    BY <2>1 DEF Switches
  <2> QED
    BY <1>0, <2>1, <2>2, <2>3 DEF MemoryInv
<1>5. CASE T3Falls
  <2>1. t3' = "LOW" /\ rom_config' = rom_config /\ buffer' = buffer /\ page_0' = page_0
    BY <1>5 DEF T3Falls, memory
  <2> QED
    BY <1>0, <2>1 DEF MemoryInv
<1>6. CASE UNCHANGED memory_vars
  <2>1. UNCHANGED <<rom_config, buffer, page_0, address, cycle_control, md_bus, t3, last_cycle>>
    BY <1>6 DEF memory_vars, memory
  <2> QED
    BY <2>1 DEF MemoryInv, Switches
<1>7. MemoryNext \/ UNCHANGED memory_vars
  BY DEF MachineNext, vars
<1> QED
  BY <1>1, <1>2, <1>3, <1>4, <1>5, <1>6, <1>7 DEF MemoryNext

(* The variables of the flat memory. *)
LEMMA FlatVariables ==
  /\ ReadOnly = ReadOnlyOf(rom_config)
  /\ ReadOnly' = ReadOnlyOf(rom_config')
  /\ [a \in Visited |-> Behind(a)] = FlatBytes(rom_config, buffer)
  /\ [a \in Visited |-> Behind(a)]' = FlatBytes(rom_config', buffer')
BY DEF ReadOnly, ReadOnlyOf, Behind, BehindOf, FlatBytes, Addressed, CardsAt

LEMMA InitFlat == MachineInit => Flat!Init
<1> SUFFICES ASSUME MachineInit PROVE Flat!Init
  OBVIOUS
<1>1. MemoryInv
  BY InitMemoryInv
<1>2. FlatBytes(rom_config, buffer) \in [Visited -> BytesMet]
  BY <1>1, FlatBytesMet DEF MemoryInv
<1>3. ReadOnly \subseteq Visited
  BY DEF ReadOnly
<1>4. last_cycle = [kind |-> "none", address |-> 0, byte |-> 0]
  BY DEF MachineInit, MemoryInit, NoCycle
<1>5. (page_0 = "masked_rom") = (DOMAIN (IF rom_config = "MICRAL_N" THEN masked_rom ELSE <<>>) # {})
  <2>1. rom_config \in Configs /\ page_0 = (IF rom_config = "MICRAL_N" THEN "masked_rom" ELSE "buffer")
    BY DEF MachineInit, MemoryInit, Configs
  <2>2. 0 \in DOMAIN masked_rom
    BY MemoryAssumption DEF masked_rom, Loaded
  <2>3. DOMAIN <<>> = {}
    OBVIOUS
  <2>4. CASE rom_config = "MICRAL_N"
    <3>1. page_0 = "masked_rom"
      BY <2>1, <2>4
    <3>2. DOMAIN (IF rom_config = "MICRAL_N" THEN masked_rom ELSE <<>>) # {}
      BY <2>2, <2>4
    <3> QED
      BY <3>1, <3>2, Zenon
  <2>5. CASE rom_config # "MICRAL_N"
    <3>1. page_0 # "masked_rom"
      BY <2>1, <2>5
    <3>2. DOMAIN (IF rom_config = "MICRAL_N" THEN masked_rom ELSE <<>>) = {}
      BY <2>3, <2>5
    <3> QED
      BY <3>1, <3>2, Zenon
  <2> QED
    BY <2>4, <2>5
<1>6. [a \in Visited |-> Behind(a)] \in [Visited -> BytesMet]
  BY <1>2, FlatVariables
<1> QED
  BY <1>3, <1>4, <1>5, <1>6 DEF Flat!Init

(* What the flat memory does at each step of the cards. *)
LEMMA NextFlat == MemoryInv /\ [MachineNext]_vars => [Flat!Next]_(Flat!vars)
<1> SUFFICES ASSUME MemoryInv, [MachineNext]_vars PROVE [Flat!Next]_(Flat!vars)
  OBVIOUS
<1> DEFINE boot == IF rom_config = "MICRAL_N" THEN masked_rom ELSE <<>>
           bytes == FlatBytes(rom_config, buffer)
<1>0. /\ rom_config \in Configs
      /\ BuffersOK(rom_config, buffer)
  BY DEF MemoryInv
<1>1. ASSUME UNCHANGED <<rom_config, buffer, page_0, last_cycle>>
      PROVE  UNCHANGED Flat!vars
  <2>1. UNCHANGED <<ReadOnly, [a \in Visited |-> Behind(a)]>>
    BY <1>1, FlatVariables
  <2>2. UNCHANGED (page_0 = "masked_rom")
    BY <1>1
  <2>3. UNCHANGED (IF rom_config = "MICRAL_N" THEN masked_rom ELSE <<>>)
    BY <1>1
  <2> QED
    BY <1>1, <2>1, <2>2, <2>3 DEF Flat!vars
<1>2. CASE ReadCycle \/ SubstitutedCycle \/ T3Falls
  BY <1>1, <1>2 DEF ReadCycle, SubstitutedCycle, ReadT2Falls, T3Falls, memory
<1>3. CASE WriteCycle
  <2>1. PICK a \in Written, byte \in WrittenBytes :
          /\ buffer' = WrittenTo(rom_config, buffer, a, byte)
          /\ last_cycle' = [kind |-> "PCW", address |-> a, byte |-> byte]
          /\ UNCHANGED <<rom_config, page_0>>
    BY <1>3 DEF WriteCycle, WrittenTo, Cards
  <2>2. a \in Visited /\ byte \in BytesMet
    BY MemoryAssumption DEF BytesMet
  <2>3. FlatBytes(rom_config', buffer') =
          IF a \in ReadOnlyOf(rom_config) THEN FlatBytes(rom_config, buffer)
          ELSE [FlatBytes(rom_config, buffer) EXCEPT ![a] = byte]
    BY <1>0, <2>1, <2>2, WriteIsFlat
  <2>4. [x \in Visited |-> Behind(x)]' =
          IF a \in ReadOnly THEN [x \in Visited |-> Behind(x)]
          ELSE [[x \in Visited |-> Behind(x)] EXCEPT ![a] = byte]
    BY <2>3, FlatVariables
  <2>5. ReadOnly' = ReadOnly
    BY <2>1, FlatVariables
  <2>6. UNCHANGED (page_0 = "masked_rom")
        /\ UNCHANGED (IF rom_config = "MICRAL_N" THEN masked_rom ELSE <<>>)
    BY <2>1
  <2>7. Flat!Write(a, byte)
    BY <2>1, <2>4, <2>5, <2>6 DEF Flat!Write
  <2> QED
    BY <2>2, <2>7 DEF Flat!Next
<1>4. CASE Phase2Rises
  <2>1. /\ t3 # "LOW"
        /\ page_0' = IF Switches THEN "buffer" ELSE page_0
        /\ last_cycle' = IF cycle_control = "Substituted" THEN last_cycle
                         ELSE [kind |-> cycle_control, address |-> address, byte |-> md_bus]
        /\ UNCHANGED <<rom_config, buffer>>
    BY <1>4 DEF Phase2Rises
  <2>2. /\ cycle_control \in {"PCI", "PCR", "Substituted"} /\ md_bus \in BytesMet
        /\ t3 \in {"HIGH", "sampled"}
        /\ t3 = "HIGH" /\ cycle_control # "Substituted" =>
             address \in Visited /\ md_bus = ContentsOf(rom_config, buffer, page_0, address)
        /\ t3 = "sampled" /\ cycle_control # "Substituted" =>
             last_cycle = [kind |-> cycle_control, address |-> address, byte |-> md_bus]
        /\ t3 = "sampled" /\ Switches => page_0 = "buffer"
    BY <2>1 DEF MemoryInv
  <2>3. UNCHANGED <<ReadOnly, [a \in Visited |-> Behind(a)]>>
        /\ UNCHANGED (IF rom_config = "MICRAL_N" THEN masked_rom ELSE <<>>)
    <3>1. UNCHANGED <<ReadOnly, [a \in Visited |-> Behind(a)]>>
      BY <2>1, FlatVariables
    <3> QED
      BY <2>1, <3>1
  <2>4. CASE t3 = "sampled"
    <3>1. UNCHANGED <<page_0, last_cycle>>
      BY <2>1, <2>2, <2>4
    <3> QED
      BY <1>1, <2>1, <3>1
  <2>5. CASE t3 = "HIGH" /\ cycle_control = "PCI"
    <3>1. address \in Visited /\ md_bus = Flat!Contents(address)
      BY <2>2, <2>5, ContentsAre
    <3>2. Switches <=> md_bus = RST_0
      BY <2>5 DEF Switches
    <3>3. (page_0 = "masked_rom")' = (page_0 = "masked_rom" /\ Flat!Contents(address) # RST_0)
      <4>1. CASE md_bus = RST_0
        <5>1. page_0' # "masked_rom"
          BY <2>1, <3>2, <4>1
        <5> QED
          BY <3>1, <4>1, <5>1, Zenon
      <4>2. CASE md_bus # RST_0
        <5>1. page_0' = page_0
          BY <2>1, <3>2, <4>2
        <5> QED
          BY <3>1, <4>2, <5>1, Zenon
      <4> QED
        BY <4>1, <4>2
    <3>4. last_cycle' = [kind |-> "PCI", address |-> address, byte |-> Flat!Contents(address)]
      BY <2>1, <2>5, <3>1
    <3>5. Flat!Fetch(address)
      BY <2>3, <3>3, <3>4, Zenon DEF Flat!Fetch
    <3> QED
      BY <3>1, <3>5 DEF Flat!Next
  <2>6. CASE t3 = "HIGH" /\ cycle_control = "PCR"
    <3>1. address \in Visited /\ md_bus = Flat!Contents(address)
      BY <2>2, <2>6, ContentsAre
    <3>2. page_0' = page_0
      BY <2>1, <2>6 DEF Switches
    <3>3. UNCHANGED (page_0 = "masked_rom")
      BY <3>2
    <3>4. last_cycle' = [kind |-> "PCR", address |-> address, byte |-> Flat!Contents(address)]
      BY <2>1, <2>6, <3>1
    <3>5. Flat!Read(address)
      BY <2>3, <3>3, <3>4 DEF Flat!Read
    <3> QED
      BY <3>1, <3>5 DEF Flat!Next
  <2>7. CASE t3 = "HIGH" /\ cycle_control = "Substituted"
    <3>1. Switches <=> md_bus = RST_0
      BY <2>7 DEF Switches
    <3>2. (page_0 = "masked_rom")' = (page_0 = "masked_rom" /\ md_bus # RST_0)
      <4>1. CASE md_bus = RST_0
        <5>1. page_0' # "masked_rom"
          BY <2>1, <3>1, <4>1
        <5> QED
          BY <4>1, <5>1, Zenon
      <4>2. CASE md_bus # RST_0
        <5>1. page_0' = page_0
          BY <2>1, <3>1, <4>2
        <5> QED
          BY <4>2, <5>1, Zenon
      <4> QED
        BY <4>1, <4>2
    <3>3. last_cycle' = last_cycle
      BY <2>1, <2>7
    <3>4. Flat!Substituted(md_bus)
      BY <2>3, <3>2, <3>3, Zenon DEF Flat!Substituted
    <3> QED
      BY <2>2, <3>4 DEF Flat!Next
  <2> QED
    BY <2>2, <2>4, <2>5, <2>6, <2>7
<1>5. CASE UNCHANGED memory_vars
  BY <1>1, <1>5 DEF memory_vars, memory
<1>6. MemoryNext \/ UNCHANGED memory_vars
  BY DEF MachineNext, vars
<1> QED
  BY <1>2, <1>3, <1>4, <1>5, <1>6 DEF MemoryNext

(* The memory cards implement the flat memory, for any size of a page, any  *)
(* ROMs and any program that reads and writes. *)
THEOREM CardsAreFlat == MachineSpec => ImplementsFlatMemory
<1>1. MachineSpec => []MemoryInv
  BY InitMemoryInv, NextMemoryInv, PTL DEF MachineSpec
<1> QED
  BY <1>1, InitFlat, NextFlat, PTL DEF MachineSpec, ImplementsFlatMemory, Flat!Spec
===============================================================================
