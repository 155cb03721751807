------------------------------ MODULE FatTable ------------------------------
(***************************************************************************)
(* The two copies of the file allocation table, fs/fat12.c: 12-bit         *)
(* entries, two of them packed into three bytes, and the accessors         *)
(* fat12_get_fat_entry and fat12_set_fat_entry on the bytes.               *)
(*                                                                         *)
(* A table is a record of the bytes of FAT 1 and FAT 2.                    *)
(***************************************************************************)
EXTENDS Integers

CONSTANTS
    FatBytes,       \* bytes of one FAT
    TotalClusters   \* TOTAL_CLUSTERS

(***************************************************************************)
(* Every cluster has its entry in the table.  In the code TOTAL_CLUSTERS   *)
(* is 4080 and the nine sectors of a FAT hold 3072 entries; the entries    *)
(* past them are never reached: the 224 entries of the root directory are  *)
(* used up first by files of one shell line each.                          *)
(***************************************************************************)
ASSUME FatAssumption ==
    /\ FatBytes \in Nat /\ TotalClusters \in Nat
    /\ TotalClusters + TotalClusters \div 2 + 1 <= FatBytes

FREE == 0
EOC  == 4095            \* 0xFFF, the end of a chain
EntryValues == 0..4095

Byte  == 0..255
Bytes == [0..FatBytes - 1 -> Byte]
Table == [fat1 : Bytes, fat2 : Bytes]

Offset(cluster) == cluster + cluster \div 2

fat12_get_fat_entry(table, cluster) ==
    LET at  == Offset(cluster)
        val == table.fat1[at] + 256 * table.fat1[at + 1]
    IN  IF cluster % 2 = 1 THEN val \div 16 ELSE val % 4096

\* The byte at Offset(cluster) after the entry is set.
LowByte(fat, cluster, value) ==
    IF cluster % 2 = 1 THEN (fat[Offset(cluster)] % 16) + (value % 16) * 16
                       ELSE value % 256

\* The byte behind it.
HighByte(fat, cluster, value) ==
    IF cluster % 2 = 1
    THEN (value \div 16) % 256
    ELSE (fat[Offset(cluster) + 1] \div 16) * 16 + ((value \div 256) % 16)

\* Mutant of fat12_set_fat_entry: only the first of the two bytes is mirrored.
SetMirrorsOneByte(table, cluster, value) ==
    LET at  == Offset(cluster)
        low == LowByte(table.fat1, cluster, value)
    IN  [fat1 |-> [table.fat1 EXCEPT ![at] = low,
                                     ![at + 1] = HighByte(table.fat1, cluster, value)],
         fat2 |-> [table.fat2 EXCEPT ![at] = low]]

\* Both bytes are written to FAT 1 and then copied to FAT 2.
fat12_set_fat_entry(table, cluster, value) ==
    LET at   == Offset(cluster)
        low  == LowByte(table.fat1, cluster, value)
        high == HighByte(table.fat1, cluster, value)
    IN  [fat1 |-> [table.fat1 EXCEPT ![at] = low, ![at + 1] = high],
         fat2 |-> [table.fat2 EXCEPT ![at] = low, ![at + 1] = high]]
=============================================================================
