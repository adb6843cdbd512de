----------------------------- MODULE VirtualDisk -----------------------------
(***************************************************************************)
(* emulator/src/VirtualDisk.cpp: the bytes of a sector as the disk gives   *)
(* them, two of heading, the data, and a checksum computed when the disk   *)
(* is created; and a program that reads a sector to its end.               *)
(***************************************************************************)
EXTENDS Naturals, Sequences

CONSTANTS
  Disks,           (* the images                                             *)
  tracks, sectors, (* the layout                                             *)
  sector_size      (* the index in a sector is an uint8_t, with three bytes more *)

ASSUME LayoutAssumption ==
  /\ {tracks, sectors} \subseteq 1 .. 255
  /\ sector_size \in 1 .. 253
  /\ Disks \subseteq Seq(0 .. 255)

VARIABLES
  data,            (* the image, whose end may be missing                    *)
  checksums,       (* of each sector of each track                           *)
  reading,         (* the sector being read: its track, its number           *)
  read             (* the bytes read so far                                  *)

disk_vars == <<data, checksums, reading, read>>

Sectors == (0 .. tracks - 1) \X (0 .. sectors - 1)

(* get_data *)
get_data(image, sector, index) ==
  LET global_index == sector_size * (sector[1] * sectors + sector[2]) + index
  IN IF global_index < Len(image) THEN image[global_index + 1] ELSE 0

Negative(byte) == byte >= 128

(* Mutant: the carry of the unsigned sum. *)
UnsignedCarry(byte, sum) == IF byte + sum > 255 THEN 1 ELSE 0

(* The carry is the signed overflow: the operands have one sign and the sum *)
(* the other. *)
Carry(byte, sum) ==
  IF Negative(byte) = Negative(sum) /\ Negative((byte + sum) % 256) # Negative(byte)
  THEN 1 ELSE 0

(* computer_sector_checksum: the sums of the first bytes of a sector. *)
partial_sums(image, sector) ==
  LET sum[n \in 0 .. sector_size] ==
        IF n = 0 THEN 0
        ELSE LET byte == get_data(image, sector, n - 1)
             IN (sum[n - 1] + byte + Carry(byte, sum[n - 1])) % 256
  IN sum

sector_checksum(image, sector) == partial_sums(image, sector)[sector_size]

DiskInit ==
  /\ data \in Disks
  /\ checksums = [sector \in Sectors |-> sector_checksum(data, sector)]
  /\ reading \in Sectors
  /\ read = <<>>

get(index) ==
  CASE index >= 2 /\ index < sector_size + 2 -> get_data(data, reading, index - 2)
    [] index = sector_size + 2 -> checksums[reading]
    [] OTHER -> 255 - index

ReadByte ==
  /\ Len(read) < sector_size + 3
  /\ read' = Append(read, get(Len(read)))
  /\ UNCHANGED <<data, checksums, reading>>

(* Another sector of the track is sought; the same one would not be rewound. *)
Seek ==
  /\ Len(read) = sector_size + 3
  /\ reading' \in {sector \in Sectors : sector[1] = reading[1] /\ sector[2] # reading[2]}
  /\ read' = <<>>
  /\ UNCHANGED <<data, checksums>>
===============================================================================
