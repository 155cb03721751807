---------------------------- MODULE Fat12Proofs ----------------------------
(***************************************************************************)
(* Proofs about the FAT12 file system, for every size of the table and of  *)
(* the root directory, every set of names and of sizes.                    *)
(*                                                                         *)
(* First the packed table: two entries share a byte, and yet setting one   *)
(* of them is an assignment to that entry alone.  Then the chains, and the *)
(* invariant of the whole.                                                 *)
(***************************************************************************)
EXTENDS Fat12, FiniteSetTheorems, SequenceTheorems, WellFoundedInduction, TLAPS

\* The bytes of a cluster's entry lie inside the table.
LEMMA OffsetInTable ==
    ASSUME NEW cluster \in 0..TotalClusters - 1
    PROVE  /\ Offset(cluster) \in 0..FatBytes - 1
           /\ Offset(cluster) + 1 \in 0..FatBytes - 1
  BY FatAssumption DEF Offset

\* The two bytes written are bytes.
LEMMA BytesWritten ==
    ASSUME NEW fat \in Bytes, NEW cluster \in 0..TotalClusters - 1, NEW value \in EntryValues
    PROVE  LowByte(fat, cluster, value) \in Byte /\ HighByte(fat, cluster, value) \in Byte
<1>1. fat[Offset(cluster)] \in Byte /\ fat[Offset(cluster) + 1] \in Byte
  BY OffsetInTable DEF Bytes
<1>2. PICK l \in 0..255 : l = fat[Offset(cluster)]
  BY <1>1 DEF Byte
<1>3. PICK h \in 0..255 : h = fat[Offset(cluster) + 1]
  BY <1>1 DEF Byte
<1>4. value \in 0..4095
  BY DEF EntryValues
<1>5. LowByte(fat, cluster, value) =
         IF cluster % 2 = 1 THEN (l % 16) + (value % 16) * 16 ELSE value % 256
  BY <1>2 DEF LowByte
<1>6. HighByte(fat, cluster, value) =
         IF cluster % 2 = 1 THEN (value \div 16) % 256
                            ELSE (h \div 16) * 16 + ((value \div 256) % 16)
  BY <1>3 DEF HighByte
<1>7. LowByte(fat, cluster, value) \in 0..255
  <2>1. l % 16 \in 0..15 /\ value % 16 \in 0..15 /\ value % 256 \in 0..255
    BY <1>4
  <2>2. (l % 16) + (value % 16) * 16 \in 0..255
    BY <2>1
  <2> QED
    BY <1>5, <2>1, <2>2, Zenon
<1>8. HighByte(fat, cluster, value) \in 0..255
  <2>1. h \div 16 \in 0..15 /\ (value \div 256) % 16 \in 0..15 /\ (value \div 16) % 256 \in 0..255
    BY <1>4
  <2>2. (h \div 16) * 16 + ((value \div 256) % 16) \in 0..255
    BY <2>1
  <2> QED
    BY <1>6, <2>1, <2>2, Zenon
<1> QED
  BY <1>7, <1>8 DEF Byte

\* What EXCEPT does at two places.
LEMMA TwoUpdates ==
    ASSUME NEW S, NEW f, DOMAIN f = S, NEW i \in S, NEW j \in S, i # j, NEW x, NEW y
    PROVE  LET g == [f EXCEPT ![i] = x, ![j] = y]
           IN  g[i] = x /\ g[j] = y /\ \A k \in S : k # i /\ k # j => g[k] = f[k]
  OBVIOUS

(***************************************************************************)
(* fat12_set_fat_entry keeps both FATs tables of bytes, and keeps them     *)
(* equal although it copies only two bytes.                                *)
(***************************************************************************)
THEOREM SetKeepsMirror ==
    ASSUME NEW t \in Table, NEW cluster \in 0..TotalClusters - 1, NEW value \in EntryValues,
           t.fat2 = t.fat1
    PROVE  LET s == fat12_set_fat_entry(t, cluster, value)
           IN  s \in Table /\ s.fat2 = s.fat1
<1>1. t.fat1 \in Bytes /\ t.fat2 \in Bytes
  BY DEF Table
<1>2. /\ LowByte(t.fat1, cluster, value) \in Byte
      /\ HighByte(t.fat1, cluster, value) \in Byte
  BY <1>1, BytesWritten
<1> QED
  BY <1>1, <1>2, OffsetInTable DEF fat12_set_fat_entry, Table, Bytes

(***************************************************************************)
(* fat12_get_fat_entry after fat12_set_fat_entry: the entry set holds the  *)
(* value, every other entry is unchanged, the neighbour that shares a byte *)
(* with it included.                                                       *)
(***************************************************************************)
THEOREM SetChangesOneEntry ==
    ASSUME NEW t \in Table, NEW cluster \in 0..TotalClusters - 1, NEW value \in EntryValues,
           NEW other \in 0..TotalClusters - 1
    PROVE  fat12_get_fat_entry(fat12_set_fat_entry(t, cluster, value), other) =
               IF other = cluster THEN value ELSE fat12_get_fat_entry(t, other)
<1> DEFINE at  == Offset(cluster)
           o   == Offset(other)
           old == t.fat1
           new == fat12_set_fat_entry(t, cluster, value).fat1
           lo  == LowByte(old, cluster, value)
           hi  == HighByte(old, cluster, value)
<1>1. /\ old \in Bytes
      /\ at \in 0..FatBytes - 1 /\ at + 1 \in 0..FatBytes - 1
      /\ o \in 0..FatBytes - 1 /\ o + 1 \in 0..FatBytes - 1
  BY OffsetInTable DEF Table
<1>2. lo \in Byte /\ hi \in Byte
  BY <1>1, BytesWritten
<1>3. new = [old EXCEPT ![at] = lo, ![at + 1] = hi]
  BY DEF fat12_set_fat_entry
<1> HIDE DEF at, o, old, new, lo, hi
<1>4. /\ new[at] = lo /\ new[at + 1] = hi
      /\ \A i \in 0..FatBytes - 1 : i # at /\ i # at + 1 => new[i] = old[i]
      /\ \A i \in 0..FatBytes - 1 : old[i] \in 0..255
  <2>1. at # at + 1
    BY <1>1
  <2>2. DOMAIN old = 0..FatBytes - 1 /\ \A i \in 0..FatBytes - 1 : old[i] \in 0..255
    BY <1>1 DEF Bytes, Byte
  <2> QED
    BY <1>1, <1>3, <2>1, <2>2, TwoUpdates, Zenon
<1>5. value \in 0..4095
  BY DEF EntryValues
<1>6. fat12_get_fat_entry(t, other) =
         IF other % 2 = 1 THEN (old[o] + 256 * old[o + 1]) \div 16
                          ELSE (old[o] + 256 * old[o + 1]) % 4096
  BY DEF fat12_get_fat_entry, o, old
<1>7. fat12_get_fat_entry(fat12_set_fat_entry(t, cluster, value), other) =
         IF other % 2 = 1 THEN (new[o] + 256 * new[o + 1]) \div 16
                          ELSE (new[o] + 256 * new[o + 1]) % 4096
  BY DEF fat12_get_fat_entry, o, new
<1>8. /\ cluster % 2 = 1 => lo = (old[at] % 16) + (value % 16) * 16 /\ hi = (value \div 16) % 256
      /\ cluster % 2 # 1 => lo = value % 256
                            /\ hi = (old[at + 1] \div 16) * 16 + ((value \div 256) % 16)
  BY DEF LowByte, HighByte, at, lo, hi
<1>9. at = cluster + cluster \div 2 /\ o = other + other \div 2
  BY DEF Offset, at, o
<1>10. cluster \in Nat /\ other \in Nat
  BY FatAssumption
\* The bytes there were, and the value, as numbers.
<1>11. PICK v \in 0..4095 : v = value
  BY <1>5
<1>12. PICK l \in 0..255 : l = old[at]
  BY <1>1, <1>4
<1>13. PICK h \in 0..255 : h = old[at + 1]
  BY <1>1, <1>4
<1>14. CASE other = cluster
  <2>1. new[o] = lo /\ new[o + 1] = hi
    BY <1>4, <1>9, <1>14
  <2>2. o = at
    BY <1>9, <1>14
  <2>3. CASE cluster % 2 = 1
    <3>1. (lo + 256 * hi) \div 16 = value
      <4>1. lo = (l % 16) + (v % 16) * 16 /\ hi = (v \div 16) % 256
        BY <1>8, <1>11, <1>12, <1>13, <2>3
      <4>2. ((l % 16) + (v % 16) * 16 + 256 * ((v \div 16) % 256)) \div 16 = v
        OBVIOUS
      <4> QED
        BY <1>11, <4>1, <4>2
    <3> QED
      BY <1>7, <1>14, <2>1, <2>3, <3>1
  <2>4. CASE cluster % 2 # 1
    <3>1. (lo + 256 * hi) % 4096 = value
      <4>1. lo = v % 256 /\ hi = (h \div 16) * 16 + ((v \div 256) % 16)
        BY <1>8, <1>11, <1>12, <1>13, <2>4
      <4>2. ((v % 256) + 256 * ((h \div 16) * 16 + ((v \div 256) % 16))) % 4096 = v
        BY SMTT(30)
      <4> QED
        BY <1>11, <4>1, <4>2
    <3> QED
      BY <1>7, <1>14, <2>1, <2>4, <3>1
  <2> QED
    BY <2>3, <2>4
<1>15. CASE other # cluster
  <2>1. CASE cluster % 2 = 1 /\ other = cluster - 1
    <3>1. other % 2 # 1 /\ o + 1 = at
      BY <1>9, <1>10, <2>1
    <3>2. new[o + 1] = lo /\ new[o] = old[o]
      BY <1>1, <1>4, <3>1
    <3>3. PICK b \in 0..255 : b = old[o]
      BY <1>1, <1>4
    <3>4. (old[o] + 256 * lo) % 4096 = (old[o] + 256 * old[at]) % 4096
      <4>1. lo = (l % 16) + (v % 16) * 16
        BY <1>8, <1>11, <1>12, <1>13, <2>1
      <4>2. (b + 256 * ((l % 16) + (v % 16) * 16)) % 4096 = (b + 256 * l) % 4096
        OBVIOUS
      <4> QED
        BY <1>12, <1>13, <3>3, <4>1, <4>2
    <3> QED
      BY <1>6, <1>7, <1>15, <3>1, <3>2, <3>4
  <2>2. CASE cluster % 2 # 1 /\ other = cluster + 1
    <3>1. other % 2 = 1 /\ o = at + 1
      BY <1>9, <1>10, <2>2
    <3>2. new[o] = hi /\ new[o + 1] = old[o + 1]
      BY <1>1, <1>4, <3>1
    <3>3. PICK b \in 0..255 : b = old[o + 1]
      BY <1>1, <1>4
    <3>4. (hi + 256 * old[o + 1]) \div 16 = (old[o] + 256 * old[o + 1]) \div 16
      <4>1. hi = (h \div 16) * 16 + ((v \div 256) % 16)
        BY <1>8, <1>11, <1>12, <1>13, <2>2
      <4>2. ((h \div 16) * 16 + ((v \div 256) % 16) + 256 * b) \div 16 = (h + 256 * b) \div 16
        OBVIOUS
      <4> QED
        BY <1>12, <1>13, <3>1, <3>3, <4>1, <4>2
    <3> QED
      BY <1>6, <1>7, <1>15, <3>1, <3>2, <3>4
  <2>3. CASE ~(cluster % 2 = 1 /\ other = cluster - 1) /\ ~(cluster % 2 # 1 /\ other = cluster + 1)
    <3>1. o # at /\ o # at + 1 /\ o + 1 # at /\ o + 1 # at + 1
      BY <1>9, <1>10, <1>15, <2>3
    <3>2. new[o] = old[o] /\ new[o + 1] = old[o + 1]
      BY <1>1, <1>4, <3>1
    <3> QED
      BY <1>6, <1>7, <1>15, <3>2
  <2> QED
    BY <2>1, <2>2, <2>3
<1> QED
  BY <1>14, <1>15

-----------------------------------------------------------------------------
(***************************************************************************)
(* Induction, for sets of numbers: a set that is not all of Nat misses a   *)
(* smallest number.                                                        *)
(***************************************************************************)
Smaller == {p \in Nat \X Nat : p[1] < p[2]}

LEMMA SmallestExists ==
    ASSUME NEW S, S \subseteq Nat, S # {}
    PROVE  \E n \in S : \A m \in S : n <= m
<1>1. IsWellFoundedOn(Smaller, Nat)
  BY NatLessThanWellFounded DEF OpToRel, Smaller
<1>2. PICK n \in S : \A m \in S : ~(<<m, n>> \in Smaller)
  BY <1>1, WFMin
<1>3. ASSUME NEW m \in S PROVE n <= m
  <2>1. n \in Nat /\ m \in Nat /\ <<m, n>> \in Nat \X Nat
    OBVIOUS
  <2>2. ~(<<m, n>>[1] < <<m, n>>[2])
    BY <2>1, <1>2 DEF Smaller
  <2> QED
    BY <2>1, <2>2
<1> QED
  BY <1>3

LEMMA SetInduction ==
    ASSUME NEW S, 0 \in S, \A n \in Nat : n \in S => n + 1 \in S
    PROVE  \A n \in Nat : n \in S
<1> SUFFICES ASSUME Nat \ S # {} PROVE FALSE
  OBVIOUS
<1>1. PICK n \in Nat \ S : \A m \in Nat \ S : n <= m
  BY SmallestExists
<1>2. n # 0 /\ n - 1 \in Nat
  BY <1>1
<1>3. n - 1 \in S
  BY <1>1, <1>2
<1> QED
  BY <1>1, <1>2, <1>3

(***************************************************************************)
(* SetEntries.  First that its recursive function exists, then what the    *)
(* table holds afterwards: for each entry the last value it was set to.    *)
(***************************************************************************)
Applied(after, t, ss, k) ==
    after = [n \in 0..k |-> IF n = 0 THEN t
                            ELSE fat12_set_fat_entry(after[n - 1], ss[n][1], ss[n][2])]

LEMMA SetEntriesApplied ==
    ASSUME NEW t, NEW ss, Len(ss) \in Nat
    PROVE  \E after : Applied(after, t, ss, Len(ss)) /\ SetEntries(t, ss) = after[Len(ss)]
<1> DEFINE S == {k \in Nat : \E after : Applied(after, t, ss, k)}
<1>1. 0 \in S
  <2>1. Applied([n \in 0..0 |-> t], t, ss, 0)
    BY DEF Applied
  <2> QED
    BY <2>1
<1>2. ASSUME NEW k \in Nat, k \in S PROVE k + 1 \in S
  <2>1. PICK f : Applied(f, t, ss, k)
    BY <1>2
  <2> DEFINE g == [n \in 0..k + 1 |-> IF n = k + 1
                                      THEN fat12_set_fat_entry(f[k], ss[n][1], ss[n][2]) ELSE f[n]]
             h == [n \in 0..k + 1 |-> IF n = 0 THEN t
                                      ELSE fat12_set_fat_entry(g[n - 1], ss[n][1], ss[n][2])]
  <2>2. ASSUME NEW n \in 0..k + 1 PROVE g[n] = h[n]
    <3>1. CASE n = k + 1
      BY <3>1
    <3>2. CASE n # k + 1
      BY <3>2, <2>1 DEF Applied
    <3> QED
      BY <3>1, <3>2
  <2>3. g = h
    BY <2>2
  <2>4. Applied(g, t, ss, k + 1)
    BY <2>3 DEF Applied
  <2> QED
    BY <2>4
<1>3. \E after : Applied(after, t, ss, Len(ss))
  <2> HIDE DEF S
  <2>1. Len(ss) \in S
    BY <1>1, <1>2, SetInduction
  <2> QED
    BY <2>1 DEF S
<1>4. SetEntries(t, ss) = (CHOOSE after : Applied(after, t, ss, Len(ss)))[Len(ss)]
  BY DEF SetEntries, Applied
<1> QED
  BY <1>3, <1>4

MirroredTable(t) == t \in Table /\ t.fat2 = t.fat1

Entry(t, c) == fat12_get_fat_entry(t, c)

LEMMA SetOne ==
    ASSUME NEW t, MirroredTable(t), NEW c \in Clusters, NEW v \in EntryValues
    PROVE  /\ MirroredTable(fat12_set_fat_entry(t, c, v))
           /\ Entry(fat12_set_fat_entry(t, c, v), c) = v
           /\ \A d \in Clusters \ {c} : Entry(fat12_set_fat_entry(t, c, v), d) = Entry(t, d)
<1>1. c \in 0..TotalClusters - 1 /\ \A d \in Clusters : d \in 0..TotalClusters - 1
  BY FatAssumption DEF Clusters
<1> QED
  BY <1>1, SetKeepsMirror, SetChangesOneEntry DEF MirroredTable, Entry

\* ss sets entries of clusters to values of entries.
Settings(ss) == Len(ss) \in Nat /\ \A i \in 1..Len(ss) : ss[i][1] \in Clusters /\ ss[i][2] \in EntryValues

\* In r each entry has the last value that ss gives it, or else that of t.
LastValues(r, t, ss) ==
    /\ MirroredTable(r)
    /\ \A c \in Clusters : (\A i \in 1..Len(ss) : ss[i][1] # c) => Entry(r, c) = Entry(t, c)
    /\ \A j \in 1..Len(ss) :
          (\A i \in j + 1..Len(ss) : ss[i][1] # ss[j][1]) => Entry(r, ss[j][1]) = ss[j][2]

LEMMA LastSettingHolds ==
    ASSUME NEW t, MirroredTable(t), NEW ss, Settings(ss)
    PROVE  LastValues(SetEntries(t, ss), t, ss)
<1>1. PICK after : Applied(after, t, ss, Len(ss)) /\ SetEntries(t, ss) = after[Len(ss)]
  BY SetEntriesApplied DEF Settings
<1> DEFINE Holds(n) ==
             /\ MirroredTable(after[n])
             /\ \A c \in Clusters :
                   (\A i \in 1..n : ss[i][1] # c) => Entry(after[n], c) = Entry(t, c)
             /\ \A j \in 1..n :
                   (\A i \in j + 1..n : ss[i][1] # ss[j][1]) => Entry(after[n], ss[j][1]) = ss[j][2]
           S == {n \in Nat : n <= Len(ss) => Holds(n)}
<1>2. Len(ss) \in Nat
  BY DEF Settings
<1>3. 0 \in S
  <2>1. after[0] = t
    BY <1>1, <1>2 DEF Applied
  <2> QED
    BY <2>1
<1>4. ASSUME NEW n \in Nat, n \in S PROVE n + 1 \in S
  <2> SUFFICES ASSUME n + 1 <= Len(ss) PROVE Holds(n + 1)
    OBVIOUS
  <2>1. Holds(n)
    BY <1>2, <1>4
  <2> DEFINE c == ss[n + 1][1]
             v == ss[n + 1][2]
  <2>2. c \in Clusters /\ v \in EntryValues
    BY <1>2 DEF Settings
  <2>3. after[n + 1] = fat12_set_fat_entry(after[n], c, v)
    BY <1>1, <1>2 DEF Applied
  <2>4. /\ MirroredTable(after[n + 1])
        /\ Entry(after[n + 1], c) = v
        /\ \A d \in Clusters \ {c} : Entry(after[n + 1], d) = Entry(after[n], d)
    BY <2>1, <2>2, <2>3, SetOne
  <2>5. ASSUME NEW d \in Clusters, \A i \in 1..n + 1 : ss[i][1] # d
        PROVE  Entry(after[n + 1], d) = Entry(t, d)
    BY <2>1, <2>4, <2>5
  <2>6. ASSUME NEW j \in 1..n + 1, \A i \in j + 1..n + 1 : ss[i][1] # ss[j][1]
        PROVE  Entry(after[n + 1], ss[j][1]) = ss[j][2]
    <3>1. CASE j = n + 1
      BY <3>1, <2>4
    <3>2. CASE j # n + 1
      <4>1. j \in 1..n /\ n + 1 \in j + 1..n + 1
        BY <3>2
      <4>2. ss[j][1] \in Clusters \ {c}
        BY <4>1, <2>6, <1>2 DEF Settings
      <4>3. Entry(after[n], ss[j][1]) = ss[j][2]
        BY <4>1, <2>1, <2>6
      <4> QED
        BY <4>2, <4>3, <2>4
    <3> QED
      BY <3>1, <3>2
  <2> QED
    BY <2>4, <2>5, <2>6
<1>5. Len(ss) \in S
  <2> HIDE DEF S
  <2> QED
    BY <1>2, <1>3, <1>4, SetInduction
<1> QED
  BY <1>1, <1>2, <1>5 DEF LastValues

-----------------------------------------------------------------------------
(***************************************************************************)
(* Chain.  IsChain says what a chain is without the walk: first leads to   *)
(* s[1], the entry of each cluster of s to the next, the last to EOC.      *)
(***************************************************************************)
IsChain(t, first, s) ==
    /\ s \in Seq(Clusters)
    /\ IF s = <<>> THEN first \in {0, EOC} ELSE first = s[1]
    /\ \A i \in 1..Len(s) : Entry(t, s[i]) = IF i < Len(s) THEN s[i + 1] ELSE EOC

WalkStep(walk, t, steps) ==
    [c \in EntryValues |-> IF steps = 0 \/ c < 2 \/ c >= 4088 THEN <<>>
                           ELSE <<c>> \o walk[steps - 1][fat12_get_fat_entry(t, c)]]

Walked(walk, t, k) == walk = [steps \in 0..k |-> WalkStep(walk, t, steps)]

LEMMA ClusterNumbers == \A c \in Clusters : c \in EntryValues /\ c \in Nat /\ c >= 2 /\ c < 4088
BY FatAssumption, Fat12Assumption DEF Clusters, EntryValues

LEMMA ChainWalked ==
    ASSUME NEW t, NEW first
    PROVE  \E walk : Walked(walk, t, TotalClusters) /\ Chain(t, first) = walk[TotalClusters][first]
<1> DEFINE S == {k \in Nat : \E walk : Walked(walk, t, k)}
<1>1. 0 \in S
  <2> DEFINE g == [n \in 0..0 |-> [c \in EntryValues |-> <<>>]]
  <2>1. \A n \in 0..0 : WalkStep(g, t, n) = [c \in EntryValues |-> <<>>]
    BY DEF WalkStep
  <2>2. Walked(g, t, 0)
    BY <2>1 DEF Walked
  <2> QED
    BY <2>2
<1>2. ASSUME NEW k \in Nat, k \in S PROVE k + 1 \in S
  <2>1. PICK f : Walked(f, t, k)
    BY <1>2
  <2> DEFINE g == [n \in 0..k + 1 |-> IF n = k + 1 THEN WalkStep(f, t, n) ELSE f[n]]
             h == [n \in 0..k + 1 |-> WalkStep(g, t, n)]
  <2>2. ASSUME NEW n \in 0..k + 1 PROVE g[n] = h[n]
    <3>1. g[n] = WalkStep(f, t, n)
      BY <2>1 DEF Walked
    <3>2. WalkStep(f, t, n) = WalkStep(g, t, n)
      <4>1. CASE n = 0
        BY <4>1 DEF WalkStep
      <4>2. CASE n # 0
        <5>1. g[n - 1] = f[n - 1]
          BY <4>2
        <5> QED
          BY <5>1 DEF WalkStep
      <4> QED
        BY <4>1, <4>2
    <3>3. h[n] = WalkStep(g, t, n)
      OBVIOUS
    <3> QED
      BY <3>1, <3>2, <3>3
  <2>3. g = h
    <3> HIDE DEF g
    <3>1. g = [n \in 0..k + 1 |-> g[n]]
      BY DEF g
    <3> QED
      BY <2>2, <3>1
  <2>4. Walked(g, t, k + 1)
    BY <2>3 DEF Walked
  <2> QED
    BY <2>4
<1>3. \E walk : Walked(walk, t, TotalClusters)
  <2> HIDE DEF S
  <2>1. TotalClusters \in S
    BY <1>1, <1>2, SetInduction, FatAssumption
  <2> QED
    BY <2>1 DEF S
<1>4. Chain(t, first) = (CHOOSE walk : Walked(walk, t, TotalClusters))[TotalClusters][first]
  BY DEF Chain, Walked, WalkStep
<1> QED
  BY <1>3, <1>4

\* The walk returns the chain, if there is one.
LEMMA ChainIs ==
    ASSUME NEW t, NEW first \in EntryValues, NEW s, IsChain(t, first, s), Len(s) <= TotalClusters
    PROVE  Chain(t, first) = s
<1>1. PICK walk : Walked(walk, t, TotalClusters) /\ Chain(t, first) = walk[TotalClusters][first]
  BY ChainWalked
<1> DEFINE Found(n) == \A f \in EntryValues : \A q \in Seq(Clusters) :
                          IsChain(t, f, q) /\ Len(q) <= n => walk[n][f] = q
           S == {n \in Nat : n <= TotalClusters => Found(n)}
<1> DEFINE Behind(c, w) == <<c>> \o w
<1>2. ASSUME NEW n \in 0..TotalClusters, NEW f \in EntryValues
      PROVE  walk[n][f] = IF n = 0 \/ f < 2 \/ f >= 4088 THEN <<>>
                          ELSE Behind(f, walk[n - 1][Entry(t, f)])
  <2>1. walk[n] = WalkStep(walk, t, n)
    BY <1>1 DEF Walked
  <2> QED
    BY <2>1 DEF WalkStep, Entry
<1> HIDE DEF Behind
<1>3. 0 \in S
  <2>1. ASSUME NEW f \in EntryValues, NEW q \in Seq(Clusters), Len(q) <= 0 PROVE walk[0][f] = q
    <3>1. 0 \in 0..TotalClusters /\ q = <<>>
      BY <2>1, FatAssumption, EmptySeq
    <3> QED
      BY <3>1, <1>2
  <2> QED
    BY <2>1
<1>4. ASSUME NEW n \in Nat, n \in S PROVE n + 1 \in S
  <2> SUFFICES ASSUME n + 1 <= TotalClusters,
                      NEW f \in EntryValues, NEW q \in Seq(Clusters), IsChain(t, f, q), Len(q) <= n + 1
               PROVE  walk[n + 1][f] = q
    OBVIOUS
  <2>1. TotalClusters \in Nat /\ Found(n) /\ n + 1 \in 0..TotalClusters
    BY <1>4, FatAssumption
  <2>2. CASE q = <<>>
    <3>1. f < 2 \/ f >= 4088
      BY <2>2 DEF IsChain, EOC
    <3> QED
      BY <2>1, <2>2, <3>1, <1>2
  <2>3. CASE q # <<>>
    <3>1. f = q[1] /\ f \in Clusters /\ Len(q) \in Nat \ {0}
      BY <2>3, EmptySeq DEF IsChain
    <3>2. f \in Nat /\ f >= 2 /\ f < 4088
      BY <3>1, ClusterNumbers
    <3>3. walk[n + 1][f] = <<f>> \o walk[n][Entry(t, f)]
      <4>1. f \in EntryValues /\ ~(n + 1 = 0 \/ f < 2 \/ f >= 4088)
        BY <3>2
      <4>2. walk[n + 1][f] = Behind(f, walk[(n + 1) - 1][Entry(t, f)])
        BY <2>1, <4>1, <1>2
      <4>3. (n + 1) - 1 = n
        OBVIOUS
      <4> QED
        BY <4>2, <4>3 DEF Behind
    <3> DEFINE rest == Tail(q)
    <3>4. /\ rest \in Seq(Clusters) /\ Len(rest) = Len(q) - 1
          /\ \A i \in 1..Len(rest) : rest[i] = q[i + 1]
      BY <2>3
    <3> HIDE DEF rest
    <3>5. q = <<f>> \o rest
      BY <3>1, <3>4, SeqEqual DEF rest
    <3>6. Entry(t, f) = IF 1 < Len(q) THEN q[2] ELSE EOC
      BY <3>1, SMTT(30) DEF IsChain
    <3>7. Entry(t, f) \in EntryValues
      <4>1. 1 < Len(q) => q[2] \in EntryValues
        BY <3>1, ClusterNumbers
      <4> QED
        BY <4>1, <3>6 DEF EntryValues, EOC
    <3>8. IsChain(t, Entry(t, f), rest)
      <4>1. IF rest = <<>> THEN Entry(t, f) \in {0, EOC} ELSE Entry(t, f) = rest[1]
        <5>1. CASE Len(q) = 1
          <6>1. rest = <<>>
            BY <5>1, <3>4, EmptySeq
          <6> QED
            BY <5>1, <6>1, <3>6
        <5>2. CASE Len(q) # 1
          <6>1. 1 \in 1..Len(rest) /\ 1 < Len(q)
            BY <5>2, <3>1, <3>4
          <6>2. rest # <<>> /\ rest[1] = q[2]
            BY <6>1, <3>4, EmptySeq
          <6> QED
            BY <6>1, <6>2, <3>6
        <5> QED
          BY <5>1, <5>2
      <4>2. ASSUME NEW i \in 1..Len(rest)
            PROVE  Entry(t, rest[i]) = IF i < Len(rest) THEN rest[i + 1] ELSE EOC
        <5>1. Entry(t, q[i + 1]) = IF i + 1 < Len(q) THEN q[i + 2] ELSE EOC
          BY <3>1, <3>4 DEF IsChain
        <5> QED
          BY <5>1, <3>1, <3>4, SMTT(30)
      <4> QED
        BY <4>1, <4>2, <3>4 DEF IsChain
    <3>9. walk[n][Entry(t, f)] = rest
      <4>1. Len(rest) <= n
        BY <3>1, <3>4
      <4> QED
        BY <4>1, <2>1, <3>4, <3>7, <3>8
    <3> QED
      BY <3>3, <3>5, <3>9
  <2> QED
    BY <2>2, <2>3
<1>5. TotalClusters \in S
  <2> HIDE DEF S
  <2> QED
    BY <1>3, <1>4, SetInduction, FatAssumption
<1>6. s \in Seq(Clusters)
  BY DEF IsChain
<1> QED
  BY <1>1, <1>5, <1>6, FatAssumption

-----------------------------------------------------------------------------
(***************************************************************************)
(* Grab: the clusters taken are free, and none is taken twice.  The i-th   *)
(* exists because distinct numbers of a set have distinct ranks in it.     *)
(***************************************************************************)
LEMMA CountTo ==
    ASSUME NEW n \in Nat
    PROVE  IsFiniteSet(1..n) /\ Cardinality(1..n) = n
BY FS_Interval

LEMMA RankExists ==
    ASSUME NEW F, F \subseteq Int, IsFiniteSet(F), NEW i \in 1..Cardinality(F)
    PROVE  \E c \in F : Cardinality({d \in F : d <= c}) = i
<1> DEFINE Below(c) == {d \in F : d <= c}
           n == Cardinality(F)
           rank == [c \in F |-> Cardinality(Below(c))]
<1>1. n \in Nat
  BY FS_CardinalityType
<1>2. ASSUME NEW c \in F
      PROVE  IsFiniteSet(Below(c)) /\ Cardinality(Below(c)) \in 1..n
  <2>1. Below(c) \in SUBSET F /\ c \in Below(c)
    OBVIOUS
  <2>2. IsFiniteSet(Below(c)) /\ Cardinality(Below(c)) <= n
    BY <2>1, FS_Subset
  <2>3. Cardinality(Below(c)) \in Nat
    BY <2>2, FS_CardinalityType
  <2>4. Cardinality(Below(c)) # 0
    BY <2>1, <2>2, FS_EmptySet
  <2> QED
    BY <1>1, <2>2, <2>3, <2>4
<1>3. ASSUME NEW c \in F, NEW d \in F, Cardinality(Below(c)) = Cardinality(Below(d)) PROVE c = d
  <2>1. ASSUME NEW x \in F, NEW y \in F, x <= y, Cardinality(Below(x)) = Cardinality(Below(y))
        PROVE  x = y
    <3>1. Below(x) \in SUBSET Below(y)
      <4> SUFFICES ASSUME NEW v \in F, v <= x PROVE v <= y
        OBVIOUS
      <4>1. v \in Int /\ x \in Int /\ y \in Int
        OBVIOUS
      <4> QED
        BY <4>1, <2>1
    <3>2. Below(y) = Below(x)
      BY <3>1, <2>1, <1>2, FS_Subset
    <3>3. y \in Below(y)
      OBVIOUS
    <3> QED
      BY <3>2, <3>3, <2>1
  <2> QED
    BY <2>1, <1>3
<1>4. rank \in Injection(F, 1..n)
  <2>1. rank \in [F -> 1..n]
    BY <1>2
  <2>2. \A c, d \in F : rank[c] = rank[d] => c = d
    BY <1>3
  <2> HIDE DEF rank
  <2> QED
    BY <2>1, <2>2 DEF Injection, IsInjective
<1>5. IsFiniteSet(1..n) /\ Cardinality(1..n) = n
  BY <1>1, FS_Interval
<1>6. rank \in Surjection(F, 1..n)
  BY <1>4, <1>5, FS_Injection
<1>7. \E c \in F : rank[c] = i
  BY <1>6 DEF Surjection
<1> QED
  BY <1>7

\* No cluster comes twice in s.
Distinct(s) == \A i, j \in 1..Len(s) : s[i] = s[j] => i = j

LEMMA GrabFacts ==
    ASSUME NEW t, NEW count \in Nat
    PROVE  /\ Cardinality(FreeClusters(t)) \in Nat
           /\ FreeClusters(t) = {} <=> Cardinality(FreeClusters(t)) = 0
           /\ Grab(t, count) \in Seq(FreeClusters(t))
           /\ Len(Grab(t, count)) = IF count < Cardinality(FreeClusters(t)) THEN count
                                    ELSE Cardinality(FreeClusters(t))
           /\ Distinct(Grab(t, count))
<1> DEFINE F == FreeClusters(t)
           n == IF count < Cardinality(F) THEN count ELSE Cardinality(F)
           Place(c, i) == Cardinality({d \in F : d <= c}) = i
<1>1. F \in SUBSET (2..TotalClusters - 1) /\ F \subseteq Int /\ Grab(t, count) = [i \in 1..n |-> CHOOSE c \in F : Place(c, i)]
  BY FatAssumption DEF FreeClusters, Clusters, Grab
<1>2. IsFiniteSet(2..TotalClusters - 1)
  BY FS_Interval, FatAssumption
<1> HIDE DEF F
<1>3. IsFiniteSet(F)
  BY <1>1, <1>2, FS_Subset
<1>4. Cardinality(F) \in Nat /\ (F = {} <=> Cardinality(F) = 0)
  BY <1>3, FS_CardinalityType, FS_EmptySet
<1>5. \A i \in 1..n : \E c \in F : Place(c, i)
  <2> SUFFICES ASSUME NEW i \in 1..n PROVE \E c \in F : Place(c, i)
    OBVIOUS
  <2>1. i \in 1..Cardinality(F)
    BY <1>4
  <2> QED
    BY <2>1, <1>1, <1>3, RankExists
<1> HIDE DEF Place
<1>6. \A i \in 1..n : Grab(t, count)[i] \in F /\ Place(Grab(t, count)[i], i)
  BY <1>1, <1>5
<1>7. Grab(t, count) \in Seq(F) /\ Len(Grab(t, count)) = n
  <2>1. n \in Nat /\ DOMAIN Grab(t, count) = 1..n
    BY <1>1, <1>4
  <2>2. Grab(t, count) \in [1..n -> F]
    BY <1>1, <1>6
  <2> HIDE DEF n
  <2> QED
    BY <2>1, <2>2
<1>8. Distinct(Grab(t, count))
  <2> HIDE DEF n
  <2> QED
    BY <1>6, <1>7 DEF Distinct, Place
<1> QED
  BY <1>4, <1>7, <1>8 DEF F

(***************************************************************************)
(* Links: two settings for each cluster taken.  Behind the last cluster of *)
(* a chain, and behind the first of a new one.                             *)
(***************************************************************************)
LinkList(ss, last, taken) ==
    /\ Len(ss) = 2 * Len(taken)
    /\ \A k \in 1..2 * Len(taken) : \E i \in 1..Len(taken) : k = 2 * i \/ k = 2 * i - 1
    /\ \A k \in 1..2 * Len(taken) : \A i \in 1..Len(taken) :
          /\ k = 2 * i => ss[k][1] = taken[i] /\ ss[k][2] = EOC
          /\ k = 2 * i - 1 => /\ ss[k][1] = IF i = 1 THEN last ELSE taken[i - 1]
                              /\ ss[k][2] = taken[i]

LEMMA LinkSettings ==
    ASSUME NEW last, NEW taken, Len(taken) \in Nat
    PROVE  LinkList(Links(last, taken), last, taken)
<1> DEFINE n == Len(taken)
<1>1. Len(Links(last, taken)) = 2 * n
  BY DEF Links
<1>2. ASSUME NEW k \in 1..2 * n PROVE \E i \in 1..n : k = 2 * i \/ k = 2 * i - 1
  <2>1. (k + 1) \div 2 \in 1..n /\ (k = 2 * ((k + 1) \div 2) \/ k = 2 * ((k + 1) \div 2) - 1)
    OBVIOUS
  <2> QED
    BY <2>1
<1>3. ASSUME NEW k \in 1..2 * n, NEW i \in 1..n, k = 2 * i \/ k = 2 * i - 1
      PROVE  Links(last, taken)[k] = IF k = 2 * i THEN <<taken[i], EOC>>
                                     ELSE <<IF i = 1 THEN last ELSE taken[i - 1], taken[i]>>
  <2>1. (k + 1) \div 2 = i /\ (k = 2 * i <=> k % 2 = 0)
    BY <1>3
  <2> QED
    BY <2>1 DEF Links
<1>4. ASSUME NEW k \in 1..2 * n, NEW i \in 1..n
      PROVE  /\ k = 2 * i => Links(last, taken)[k][1] = taken[i] /\ Links(last, taken)[k][2] = EOC
             /\ k = 2 * i - 1 => /\ Links(last, taken)[k][1] = IF i = 1 THEN last ELSE taken[i - 1]
                                 /\ Links(last, taken)[k][2] = taken[i]
  <2> DEFINE s == Links(last, taken)[k]
             before == IF i = 1 THEN last ELSE taken[i - 1]
  <2>1. CASE k = 2 * i
    <3>1. s = <<taken[i], EOC>>
      BY <2>1, <1>3
    <3> HIDE DEF s
    <3> QED
      BY <2>1, <3>1 DEF s
  <2>2. CASE k = 2 * i - 1
    <3>0. k # 2 * i
      BY <2>2
    <3>1. s = <<before, taken[i]>>
      BY <2>2, <3>0, <1>3, Zenon
    <3> HIDE DEF s, before
    <3>2. s[1] = before /\ s[2] = taken[i]
      BY <3>1
    <3> QED
      BY <2>2, <3>0, <3>2 DEF s, before
  <2> QED
    BY <2>1, <2>2
<1> HIDE DEF n
<1> QED
  BY <1>1, <1>2, <1>4 DEF LinkList, n

LEMMA ChainExtended ==
    ASSUME NEW t, MirroredTable(t), NEW last \in Clusters, NEW taken \in Seq(Clusters), Distinct(taken),
           taken # <<>>, \A i \in 1..Len(taken) : taken[i] # last
    PROVE  LET r == SetEntries(t, Links(last, taken))
           IN  /\ MirroredTable(r)
               /\ \A c \in Clusters : c # last /\ (\A i \in 1..Len(taken) : taken[i] # c)
                                      => Entry(r, c) = Entry(t, c)
               /\ Entry(r, last) = taken[1]
               /\ \A i \in 1..Len(taken) :
                     Entry(r, taken[i]) = IF i < Len(taken) THEN taken[i + 1] ELSE EOC
<1> DEFINE ss == Links(last, taken)
           n  == Len(taken)
           r  == SetEntries(t, ss)
<1>1. n \in Nat \ {0} /\ \A i \in 1..n : taken[i] \in Clusters /\ taken[i] \in EntryValues
  BY EmptySeq, ClusterNumbers
<1>2. /\ Len(ss) = 2 * n
      /\ \A k \in 1..2 * n : \E i \in 1..n : k = 2 * i \/ k = 2 * i - 1
      /\ \A k \in 1..2 * n : \A i \in 1..n :
            /\ k = 2 * i => ss[k][1] = taken[i] /\ ss[k][2] = EOC
            /\ k = 2 * i - 1 => /\ ss[k][1] = IF i = 1 THEN last ELSE taken[i - 1]
                                /\ ss[k][2] = taken[i]
  <2>1. LinkList(ss, last, taken)
    BY <1>1, LinkSettings
  <2> HIDE DEF ss
  <2> QED
    BY <2>1 DEF LinkList
<1> HIDE DEF ss, n
<1>3. ASSUME NEW k \in 1..2 * n
      PROVE  /\ ss[k][1] \in Clusters /\ ss[k][2] \in EntryValues
             /\ \A i \in 1..n : ss[k][1] = taken[i] => k \in {2 * i, 2 * i + 1}
             /\ ss[k][1] = last => k = 1
             /\ ss[k][1] = last \/ \E i \in 1..n : ss[k][1] = taken[i]
  <2>1. PICK i \in 1..n : k = 2 * i \/ k = 2 * i - 1
    BY <1>2
  <2>2. EOC \in EntryValues
    BY DEF EOC, EntryValues
  <2>3. CASE k = 2 * i
    <3>1. ss[k][1] = taken[i] /\ ss[k][2] = EOC
      BY <2>3, <1>2
    <3>2. \A j \in 1..n : taken[i] = taken[j] => k = 2 * j
      BY <2>3 DEF Distinct, n
    <3>3. taken[i] \in Clusters /\ taken[i] # last
      BY <1>1 DEF n
    <3> QED
      BY <2>2, <3>1, <3>2, <3>3
  <2>4. CASE k = 2 * i - 1 /\ i = 1
    BY <2>4, <1>1, <1>2 DEF n
  <2>5. CASE k = 2 * i - 1 /\ i # 1
    <3>1. i - 1 \in 1..n /\ ss[k][1] = taken[i - 1] /\ ss[k][2] = taken[i]
      BY <2>5, <1>1, <1>2
    <3>2. \A j \in 1..n : taken[i - 1] = taken[j] => k = 2 * j + 1
      BY <3>1, <2>5 DEF Distinct, n
    <3> QED
      BY <3>1, <3>2, <1>1 DEF n
  <2> QED
    BY <2>1, <2>3, <2>4, <2>5
<1>4. Settings(ss)
  BY <1>1, <1>2, <1>3 DEF Settings
<1>5. /\ MirroredTable(r)
      /\ \A c \in Clusters : (\A k \in 1..2 * n : ss[k][1] # c) => Entry(r, c) = Entry(t, c)
      /\ \A j \in 1..2 * n : (\A k \in j + 1..2 * n : ss[k][1] # ss[j][1]) => Entry(r, ss[j][1]) = ss[j][2]
  <2>1. /\ MirroredTable(r)
        /\ \A c \in Clusters : (\A k \in 1..Len(ss) : ss[k][1] # c) => Entry(r, c) = Entry(t, c)
        /\ \A j \in 1..Len(ss) : (\A k \in j + 1..Len(ss) : ss[k][1] # ss[j][1]) => Entry(r, ss[j][1]) = ss[j][2]
    <3>1. MirroredTable(t)
      OBVIOUS
    <3>2. LastValues(r, t, ss)
      BY <3>1, <1>4, LastSettingHolds
    <3> HIDE DEF r
    <3> QED
      BY <3>2 DEF LastValues
  <2>2. Len(ss) = 2 * n
    BY <1>2
  <2> QED
    BY <2>1, <2>2, Zenon
<1> HIDE DEF r
<1>6. Entry(r, last) = taken[1]
  <2>1. 1 \in 1..2 * n /\ ss[1][1] = last /\ ss[1][2] = taken[1]
    BY <1>1, <1>2
  <2>2. \A k \in 2..2 * n : ss[k][1] # last
    BY <1>3
  <2> QED
    BY <2>1, <2>2, <1>5
<1>7. ASSUME NEW i \in 1..n PROVE Entry(r, taken[i]) = IF i < n THEN taken[i + 1] ELSE EOC
  <2>1. CASE i < n
    <3>1. 2 * i + 1 \in 1..2 * n /\ ss[2 * i + 1][1] = taken[i] /\ ss[2 * i + 1][2] = taken[i + 1]
      <4>1. i + 1 \in 1..n /\ 2 * (i + 1) - 1 = 2 * i + 1 /\ (i + 1) - 1 = i /\ i + 1 # 1
        BY <2>1, <1>1
      <4> QED
        BY <4>1, <1>1, <1>2
    <3>2. \A k \in 2 * i + 2..2 * n : ss[k][1] # taken[i]
      BY <1>3
    <3> QED
      BY <3>1, <3>2, <2>1, <1>5
  <2>2. CASE i = n
    <3>1. 2 * i \in 1..2 * n /\ ss[2 * i][1] = taken[i] /\ ss[2 * i][2] = EOC
      BY <1>1, <1>2
    <3>2. \A k \in 2 * i + 1..2 * n : FALSE
      BY <2>2, <1>1
    <3> QED
      BY <3>1, <3>2, <2>2, <1>5
  <2> QED
    BY <2>1, <2>2, <1>1
<1>8. ASSUME NEW c \in Clusters, c # last, \A i \in 1..n : taken[i] # c
      PROVE  Entry(r, c) = Entry(t, c)
  BY <1>3, <1>5, <1>8
<1> QED
  BY <1>5, <1>6, <1>7, <1>8 DEF r, ss, n

LEMMA ChainStarted ==
    ASSUME NEW t, MirroredTable(t), NEW taken \in Seq(Clusters), Distinct(taken), taken # <<>>
    PROVE  LET r == SetEntries(fat12_set_fat_entry(t, taken[1], EOC), Links(taken[1], Tail(taken)))
           IN  /\ MirroredTable(r)
               /\ \A c \in Clusters : (\A i \in 1..Len(taken) : taken[i] # c) => Entry(r, c) = Entry(t, c)
               /\ \A i \in 1..Len(taken) :
                     Entry(r, taken[i]) = IF i < Len(taken) THEN taken[i + 1] ELSE EOC
<1> DEFINE rest == Tail(taken)
           u == fat12_set_fat_entry(t, taken[1], EOC)
           r == SetEntries(u, Links(taken[1], rest))
           n == Len(taken)
<1>1. n \in Nat \ {0} /\ taken[1] \in Clusters /\ \A i \in 1..n : taken[i] \in Clusters
  BY EmptySeq
<1>2. /\ rest \in Seq(Clusters) /\ Len(rest) = n - 1
      /\ \A i \in 1..n - 1 : rest[i] = taken[i + 1]
  BY <1>1
<1>3. EOC \in EntryValues
  BY DEF EOC, EntryValues
<1>4. /\ MirroredTable(u) /\ Entry(u, taken[1]) = EOC
      /\ \A c \in Clusters \ {taken[1]} : Entry(u, c) = Entry(t, c)
  BY <1>1, <1>3, SetOne
<1> HIDE DEF u
<1>5. CASE n = 1
  <2>1. Len(Links(taken[1], rest)) = 0
    <3>1. Len(rest) \in Nat /\ Len(rest) = 0
      BY <1>2, <1>5
    <3>2. LinkList(Links(taken[1], rest), taken[1], rest)
      BY <3>1, LinkSettings
    <3>3. Len(Links(taken[1], rest)) = 2 * Len(rest)
      BY <3>2 DEF LinkList
    <3> HIDE DEF rest
    <3> QED
      BY <3>1, <3>3
  <2>2. Settings(Links(taken[1], rest))
    BY <2>1 DEF Settings
  <2>3. MirroredTable(r) /\ \A c \in Clusters : Entry(r, c) = Entry(u, c)
    BY <2>1, <2>2, <1>4, LastSettingHolds DEF LastValues
  <2> HIDE DEF r
  <2> QED
    BY <2>3, <1>1, <1>4, <1>5 DEF r, u
<1>6. CASE n # 1
  <2> HIDE DEF rest, n
  <2>1. /\ rest # <<>> /\ rest[1] = taken[2] /\ Len(rest) \in Nat \ {0}
    BY <1>1, <1>2, <1>6, EmptySeq
  <2>2. Distinct(rest) /\ \A i \in 1..Len(rest) : rest[i] # taken[1]
    BY <1>1, <1>2, SMTT(30) DEF Distinct, n
  <2>3. /\ MirroredTable(r)
        /\ \A c \in Clusters : c # taken[1] /\ (\A i \in 1..Len(rest) : rest[i] # c)
                               => Entry(r, c) = Entry(u, c)
        /\ Entry(r, taken[1]) = rest[1]
        /\ \A i \in 1..Len(rest) : Entry(r, rest[i]) = IF i < Len(rest) THEN rest[i + 1] ELSE EOC
    BY <2>1, <2>2, <1>1, <1>2, <1>4, ChainExtended
  <2> HIDE DEF r
  <2>4. ASSUME NEW c \in Clusters, \A i \in 1..n : taken[i] # c PROVE Entry(r, c) = Entry(t, c)
    <3>1. c # taken[1] /\ \A i \in 1..Len(rest) : rest[i] # c
      <4>1. \A i \in 1..Len(rest) : i + 1 \in 1..n
        BY <1>1, <1>2
      <4> QED
        BY <4>1, <2>4, <1>1, <1>2
    <3> QED
      BY <3>1, <2>3, <1>4
  <2>5. ASSUME NEW i \in 1..n PROVE Entry(r, taken[i]) = IF i < n THEN taken[i + 1] ELSE EOC
    <3>1. CASE i = 1
      BY <3>1, <2>1, <2>3, <1>1, <1>6
    <3>2. CASE i # 1
      <4>1. i - 1 \in 1..Len(rest) /\ (i - 1) + 1 = i /\ rest[i - 1] = taken[i]
        BY <3>2, <1>1, <1>2
      <4>2. i - 1 < Len(rest) => rest[i] = taken[i + 1]
        BY <4>1, <1>2
      <4> QED
        BY <4>1, <4>2, <2>3, <1>1, <1>2
    <3> QED
      BY <3>1, <3>2
  <2> QED
    BY <2>3, <2>4, <2>5 DEF r, u, n, rest
<1> QED
  BY <1>5, <1>6

LEMMA ChainFreed ==
    ASSUME NEW t, MirroredTable(t), NEW first, NEW s \in Seq(Clusters), Distinct(s), Chain(t, first) = s
    PROVE  LET r == FreeChain(t, first)
           IN  /\ MirroredTable(r)
               /\ \A c \in Clusters : (\A i \in 1..Len(s) : s[i] # c) => Entry(r, c) = Entry(t, c)
               /\ \A i \in 1..Len(s) : Entry(r, s[i]) = FREE
<1> DEFINE ss == [i \in 1..Len(s) |-> <<s[i], FREE>>]
<1>1. /\ Len(ss) = Len(s) /\ Len(s) \in Nat
      /\ \A i \in 1..Len(s) : ss[i][1] = s[i] /\ ss[i][2] = FREE /\ s[i] \in Clusters
  OBVIOUS
<1>2. FreeChain(t, first) = SetEntries(t, ss)
  BY DEF FreeChain
<1> HIDE DEF ss
<1>3. Settings(ss)
  <2>1. FREE \in EntryValues
    BY DEF FREE, EntryValues
  <2> QED
    BY <1>1, <2>1 DEF Settings
<1>4. \A i \in 1..Len(s) : \A k \in i + 1..Len(s) : ss[k][1] # ss[i][1]
  BY <1>1 DEF Distinct
<1> QED
  <2>1. MirroredTable(t)
    OBVIOUS
  <2> DEFINE r == FreeChain(t, first)
  <2>2. LastValues(r, t, ss)
    BY <2>1, <1>2, <1>3, LastSettingHolds
  <2> HIDE DEF r
  <2> QED
    BY <2>2, <1>1, <1>4 DEF LastValues, r

-----------------------------------------------------------------------------
(***************************************************************************)
(* The invariant.  Every operation gives one entry of the directory a new  *)
(* chain, of clusters that were free or its own, and frees what is left of *)
(* its old one; ChainsChange is that argument, once for all of them.       *)
(***************************************************************************)
EntriesSound == root \in [Slots -> DirectoryEntry]

NamesSound ==
    \A e \in LiveEntries :
        /\ \A i \in 1..e - 1 : root[i].name # Unused
        /\ \A d \in LiveEntries : root[d].name = root[e].name => d = e

ChainSound ==
    \A e \in LiveEntries : /\ IsChain(table, root[e].first_cluster, ChainOf(e))
                           /\ Distinct(ChainOf(e))

In(c, s) == \E i \in 1..Len(s) : s[i] = c

NoneShared ==
    \A d \in LiveEntries : \A e \in LiveEntries : \A c \in Clusters :
        In(c, ChainOf(d)) /\ In(c, ChainOf(e)) => d = e

NoneLost ==
    \A c \in Clusters : Entry(table, c) # FREE => \E e \in LiveEntries : In(c, ChainOf(e))

ChainsInv == MirroredTable(table) /\ EntriesSound /\ ChainSound /\ NoneShared /\ NoneLost

\* The clusters of entry e, which may not be live.
Owned(e) == IF e \in LiveEntries THEN ChainOf(e) ELSE <<>>

LEMMA DistinctBound ==
    ASSUME NEW s \in Seq(Clusters), Distinct(s)
    PROVE  Len(s) <= TotalClusters
<1>1. s \in Injection(1..Len(s), Clusters)
  <2>1. s \in [1..Len(s) -> Clusters]
    BY LenProperties
  <2> QED
    BY <2>1 DEF Injection, IsInjective, Distinct
<1>2. Clusters \in SUBSET (1..TotalClusters)
  BY FatAssumption DEF Clusters
<1>3. IsFiniteSet(1..TotalClusters) /\ Cardinality(1..TotalClusters) = TotalClusters
  BY CountTo, FatAssumption
<1>4. IsFiniteSet(Clusters) /\ Cardinality(Clusters) <= TotalClusters
  BY <1>2, <1>3, FS_Subset
<1>5. Cardinality(1..Len(s)) <= Cardinality(Clusters)
  BY <1>1, <1>4, FS_Injection
<1>6. Len(s) \in Nat /\ Cardinality(1..Len(s)) = Len(s)
  BY CountTo
<1>7. Cardinality(Clusters) \in Nat
  BY <1>4, FS_CardinalityType
<1> QED
  BY <1>4, <1>5, <1>6, <1>7, FatAssumption

LEMMA ChainFacts ==
    ASSUME NEW t, NEW first, NEW s, IsChain(t, first, s), Distinct(s)
    PROVE  /\ first \in EntryValues
           /\ Chain(t, first) = s
           /\ \A c \in Clusters : In(c, s) => Entry(t, c) # FREE
<1>1. s \in Seq(Clusters) /\ Len(s) \in Nat /\ \A i \in 1..Len(s) : s[i] \in Clusters
  BY DEF IsChain
<1>2. first \in EntryValues
  <2>1. CASE s = <<>>
    BY <2>1 DEF IsChain, EntryValues, EOC
  <2>2. CASE s # <<>>
    <3>1. 1 \in 1..Len(s)
      BY <2>2, <1>1, EmptySeq
    <3> QED
      BY <3>1, <2>2, <1>1, ClusterNumbers DEF IsChain
  <2> QED
    BY <2>1, <2>2
<1>3. ASSUME NEW i \in 1..Len(s) PROVE Entry(t, s[i]) # FREE
  <2>1. i < Len(s) => s[i + 1] \in Clusters
    BY <1>1
  <2>2. FREE \notin Clusters /\ FREE # EOC
    BY DEF Clusters, FREE, EOC
  <2>3. Entry(t, s[i]) = IF i < Len(s) THEN s[i + 1] ELSE EOC
    BY DEF IsChain
  <2> QED
    BY <2>1, <2>2, <2>3
<1>4. Len(s) <= TotalClusters
  BY <1>1, DistinctBound
<1> QED
  BY <1>2, <1>3, <1>4, ChainIs DEF In

LEMMA ChainsChange ==
    ASSUME ChainsInv, NEW e \in Slots, NEW s \in Seq(Clusters), Distinct(s),
           MirroredTable(table'), EntriesSound',
           \A d \in Slots \ {e} : root'[d] = root[d],
           \A c \in Clusters : In(c, s) => In(c, Owned(e)) \/ Entry(table, c) = FREE,
           \A c \in Clusters : ~In(c, s) => Entry(table', c) = IF In(c, Owned(e)) THEN FREE
                                                               ELSE Entry(table, c),
           IF e \in LiveEntries' THEN IsChain(table', root'[e].first_cluster, s) ELSE s = <<>>
    PROVE  /\ ChainsInv'
           /\ e \in LiveEntries' => ChainOf(e)' = s
           /\ \A d \in Slots \ {e} : (d \in LiveEntries' <=> d \in LiveEntries)
           /\ \A d \in LiveEntries \ {e} :
                 /\ ChainOf(d)' = ChainOf(d) /\ ChainOf(d) \in Seq(Clusters)
                 /\ \A c \in Clusters : In(c, ChainOf(d)) => ~In(c, s)
<1>1. \A d \in Slots \ {e} : (d \in LiveEntries' <=> d \in LiveEntries)
  BY DEF LiveEntries, Live
<1>2. LiveEntries \subseteq Slots /\ LiveEntries' \subseteq Slots
  BY DEF LiveEntries
<1>3. ASSUME NEW d \in LiveEntries \ {e}
      PROVE  /\ \A c \in Clusters : In(c, ChainOf(d)) => ~In(c, s) /\ ~In(c, Owned(e))
             /\ IsChain(table', root'[d].first_cluster, ChainOf(d)) /\ Distinct(ChainOf(d))
             /\ ChainOf(d)' = ChainOf(d) /\ ChainOf(d) \in Seq(Clusters)
  <2>1. IsChain(table, root[d].first_cluster, ChainOf(d)) /\ Distinct(ChainOf(d))
    BY DEF ChainsInv, ChainSound
  <2>2. root'[d] = root[d]
    BY <1>2
  <2>3. ASSUME NEW c \in Clusters, In(c, ChainOf(d)) PROVE ~In(c, s) /\ ~In(c, Owned(e))
    <3>1. ~In(c, Owned(e))
      <4>1. CASE e \in LiveEntries
        BY <4>1, <2>3 DEF Owned, ChainsInv, NoneShared
      <4>2. CASE e \notin LiveEntries
        BY <4>2 DEF Owned, In
      <4> QED
        BY <4>1, <4>2
    <3>2. Entry(table, c) # FREE
      BY <2>1, <2>3, ChainFacts
    <3> QED
      BY <3>1, <3>2
  <2>4. IsChain(table', root'[d].first_cluster, ChainOf(d))
    <3> DEFINE q == ChainOf(d)
    <3>1. q \in Seq(Clusters)
      BY <2>1 DEF IsChain
    <3>2. ASSUME NEW i \in 1..Len(q) PROVE Entry(table', q[i]) = Entry(table, q[i])
      <4>1. q[i] \in Clusters /\ In(q[i], q)
        BY <3>1 DEF In
      <4> QED
        BY <4>1, <2>3
    <3> HIDE DEF q
    <3>3. IsChain(table, root[d].first_cluster, q)
      BY <2>1 DEF q
    <3>4. IsChain(table', root'[d].first_cluster, q)
      BY <3>2, <3>3, <2>2 DEF IsChain
    <3> QED
      BY <3>4 DEF q
  <2>5. Chain(table', root'[d].first_cluster) = ChainOf(d)
    BY <2>1, <2>4, ChainFacts
  <2>6. ChainOf(d) \in Seq(Clusters)
    BY <2>1 DEF IsChain
  <2> QED
    BY <2>1, <2>3, <2>4, <2>5, <2>6 DEF ChainOf
<1>4. e \in LiveEntries' => /\ IsChain(table', root'[e].first_cluster, s)
                            /\ ChainOf(e)' = s
  <2> SUFFICES ASSUME e \in LiveEntries' PROVE IsChain(table', root'[e].first_cluster, s) /\ ChainOf(e)' = s
    OBVIOUS
  <2>1. IsChain(table', root'[e].first_cluster, s)
    OBVIOUS
  <2>2. Chain(table', root'[e].first_cluster) = s
    BY <2>1, ChainFacts
  <2> QED
    BY <2>1, <2>2 DEF ChainOf
<1>5. ChainSound'
  BY <1>1, <1>2, <1>3, <1>4 DEF ChainSound
<1>6. NoneShared'
  <2> SUFFICES ASSUME NEW d \in LiveEntries', NEW f \in LiveEntries', NEW c \in Clusters,
                      In(c, ChainOf(d)'), In(c, ChainOf(f)')
               PROVE  d = f
    BY DEF NoneShared, In
  <2>1. CASE d # e /\ f # e
    <3>1. d \in LiveEntries \ {e} /\ f \in LiveEntries \ {e}
      BY <2>1, <1>1, <1>2
    <3>2. In(c, ChainOf(d)) /\ In(c, ChainOf(f))
      BY <3>1, <1>3
    <3> QED
      BY <3>1, <3>2 DEF ChainsInv, NoneShared
  <2>2. ASSUME d # e, f = e PROVE FALSE
    BY <2>2, <1>1, <1>2, <1>3, <1>4
  <2>3. ASSUME d = e, f # e PROVE FALSE
    BY <2>3, <1>1, <1>2, <1>3, <1>4
  <2> QED
    BY <2>1, <2>2, <2>3
<1>7. NoneLost'
  <2> SUFFICES ASSUME NEW c \in Clusters, Entry(table', c) # FREE
               PROVE  \E d \in LiveEntries' : In(c, ChainOf(d)')
    BY DEF NoneLost, In, Entry
  <2>1. CASE In(c, s)
    <3>1. e \in LiveEntries'
      BY <2>1 DEF In
    <3> QED
      BY <3>1, <2>1, <1>4
  <2>2. CASE ~In(c, s)
    <3>1. ~In(c, Owned(e)) /\ Entry(table, c) # FREE
      BY <2>2
    <3>2. PICK d \in LiveEntries : In(c, ChainOf(d))
      BY <3>1 DEF ChainsInv, NoneLost
    <3>3. d # e
      BY <3>1, <3>2 DEF Owned
    <3> QED
      BY <3>2, <3>3, <1>1, <1>2, <1>3
  <2> QED
    BY <2>1, <2>2
<1> QED
  BY <1>1, <1>3, <1>4, <1>5, <1>6, <1>7 DEF ChainsInv

DataSound == data = [c \in Clusters |-> data[c]]

DirsSound ==
    \A e \in LiveEntries :
        root[e].dir => /\ root[e].first_cluster \in Clusters
                       /\ data[root[e].first_cluster][1] = "dots"

PathSound ==
    /\ current_path \in Seq(Names)
    /\ current_path = <<>> <=> current_dir_cluster = 0
    /\ current_path # <<>> => \E e \in LiveEntries : /\ root[e].name = Last(current_path)
                                                     /\ root[e].dir
                                                     /\ root[e].first_cluster = current_dir_cluster

FInv == /\ ChainsInv
        /\ NamesSound
        /\ SizeWithinChain
        /\ DataSound
        /\ DirsSound
        /\ PathSound

\* What a caller sees of the live entry e.
Contents(e) == [dir |-> root[e].dir, text |-> IF root[e].dir THEN <<>> ELSE ReadFile(e)]

\* The step changes no entry but e, and no other file's text.
Kept(e) ==
    /\ LiveEntries' \ {e} = LiveEntries \ {e}
    /\ \A d \in LiveEntries \ {e} : root'[d].name = root[d].name /\ Contents(d)' = Contents(d)

EntryAdded(name, dir) ==
    \E e \in Slots : /\ e \notin LiveEntries /\ e \in LiveEntries' /\ root'[e].name = name
                    /\ Contents(e)' = [dir |-> dir, text |-> <<>>]
                    /\ Kept(e)

EntryRemoved(name) ==
    \E e \in LiveEntries : /\ root[e].name = name /\ ~root[e].dir
                          /\ e \notin LiveEntries'
                          /\ Kept(e)

LEMMA ContentsKept ==
    ASSUME NEW d \in Slots, root'[d] = root[d], ChainOf(d)' = ChainOf(d), ChainOf(d) \in Seq(Clusters),
           \A c \in Clusters : In(c, ChainOf(d)) => data'[c] = data[c]
    PROVE  Contents(d)' = Contents(d)
<1> DEFINE s == ChainOf(d)
<1>1. ReadFile(d) = [i \in 1..Len(s) |-> data[s[i]]]
  BY DEF ReadFile, ChainOf
<1>2. ReadFile(d)' = [i \in 1..Len(s) |-> data'[s[i]]]
  <2>1. ReadFile(d)' = [i \in 1..Len(ChainOf(d)') |-> data'[(ChainOf(d)')[i]]]
    BY DEF ReadFile, ChainOf
  <2> QED
    BY <2>1
<1>3. \A i \in 1..Len(s) : data'[s[i]] = data[s[i]]
  BY DEF In
<1>4. ReadFile(d)' = ReadFile(d)
  BY <1>1, <1>2, <1>3
<1> QED
  BY <1>4 DEF Contents

(***************************************************************************)
(* The searches of the root directory.                                     *)
(***************************************************************************)
LEMMA LowestIn ==
    ASSUME NEW S, S \subseteq Nat, S # {}
    PROVE  Lowest(S) \in S /\ \A m \in S : Lowest(S) <= m
<1>1. \E n \in S : \A m \in S : n <= m
  BY SmallestExists
<1> QED
  BY <1>1 DEF Lowest

LEMMA SlotNumbers == Slots \subseteq Nat /\ LiveEntries \subseteq Slots
BY Fat12Assumption DEF Slots, LiveEntries

LEMMA Lookup ==
    ASSUME NamesSound, NEW name \in Names
    PROVE  /\ \A e \in LiveEntries : root[e].name = name => Exists(name) /\ fat12_find_file(name) = e
           /\ Exists(name) => /\ fat12_find_file(name) \in LiveEntries
                              /\ root[fat12_find_file(name)].name = name
<1>1. \A e \in Matches(name) : e \in LiveEntries /\ root[e].name = name
  BY Fat12Assumption DEF Matches, LiveEntries, Live
<1>2. \A e \in LiveEntries : root[e].name = name => e \in Matches(name)
  BY DEF NamesSound, Matches, LiveEntries
<1>3. Exists(name) => fat12_find_file(name) \in Matches(name)
  <2>1. Matches(name) \subseteq Nat
    BY <1>1, SlotNumbers
  <2> QED
    BY <2>1, LowestIn DEF Exists, fat12_find_file
<1>4. \A d, e \in Matches(name) : d = e
  BY <1>1 DEF NamesSound
<1> QED
  BY <1>1, <1>2, <1>3, <1>4 DEF Exists

LEMMA FreeSlot ==
    ASSUME FreeEntries # {}
    PROVE  /\ fat12_find_free_root_entry \in Slots /\ fat12_find_free_root_entry \notin LiveEntries
           /\ \A i \in 1..fat12_find_free_root_entry - 1 : i \in LiveEntries
<1> DEFINE f == fat12_find_free_root_entry
<1>1. FreeEntries \subseteq Nat
  BY SlotNumbers DEF FreeEntries
<1>2. f \in FreeEntries /\ \A m \in FreeEntries : f <= m
  BY <1>1, LowestIn DEF fat12_find_free_root_entry
<1> HIDE DEF f
<1>3. f \in Slots /\ f \notin LiveEntries
  BY <1>2 DEF FreeEntries, LiveEntries
<1>4. ASSUME NEW i \in 1..f - 1 PROVE i \in LiveEntries
  <2>1. f \in 1..RootEntries
    BY <1>3 DEF Slots
  <2>2. i \in Slots /\ ~(f <= i)
    BY <2>1, Fat12Assumption DEF Slots
  <2> QED
    BY <2>2, <1>2 DEF FreeEntries, LiveEntries
<1> QED
  BY <1>3, <1>4 DEF f

LEMMA NamesKept ==
    ASSUME NamesSound, \A e \in Slots : root'[e].name = root[e].name
    PROVE  NamesSound'
<1>1. LiveEntries' = LiveEntries
  BY DEF LiveEntries, Live
<1>2. \A e \in Slots : \A i \in 1..e - 1 : i \in Slots
  BY Fat12Assumption DEF Slots
<1> QED
  BY <1>1, <1>2, SlotNumbers DEF NamesSound

LEMMA NameAdded ==
    ASSUME EntriesSound, NamesSound, NEW name \in Names, ~Exists(name), FreeEntries # {},
           NEW entry \in DirectoryEntry, entry.name = name,
           root' = [root EXCEPT ![fat12_find_free_root_entry] = entry]
    PROVE  NamesSound'
<1> DEFINE f == fat12_find_free_root_entry
<1>1. f \in Slots /\ f \notin LiveEntries /\ \A i \in 1..f - 1 : i \in LiveEntries
  BY FreeSlot
<1> HIDE DEF f
<1>2. root'[f] = entry /\ \A d \in Slots \ {f} : root'[d] = root[d]
  BY <1>1 DEF f, EntriesSound
<1>3. \A d \in Slots \ {f} : d \in LiveEntries' <=> d \in LiveEntries
  BY <1>2 DEF LiveEntries, Live
<1>4. LiveEntries' \subseteq Slots
  BY DEF LiveEntries
<1>5. ASSUME NEW e \in LiveEntries', NEW i \in 1..e - 1 PROVE root'[i].name # Unused
  <2>1. i \in Slots
    BY <1>4, Fat12Assumption DEF Slots
  <2>2. CASE i = f
    BY <2>2, <1>2, Fat12Assumption
  <2>3. CASE i # f /\ e = f
    BY <2>1, <2>3, <1>1, <1>2 DEF LiveEntries, Live
  <2>4. CASE i # f /\ e # f
    <3>1. e \in LiveEntries
      BY <2>4, <1>3, <1>4
    <3> QED
      BY <3>1, <2>1, <2>4, <1>2 DEF NamesSound
  <2> QED
    BY <2>2, <2>3, <2>4
<1>6. ASSUME NEW e \in LiveEntries', NEW d \in LiveEntries', root'[d].name = root'[e].name PROVE d = e
  <2>1. \A x \in LiveEntries : root[x].name # name
    BY Lookup
  <2> QED
    BY <2>1, <1>2, <1>3, <1>4, <1>6 DEF NamesSound
<1> QED
  BY <1>5, <1>6 DEF NamesSound

(***************************************************************************)
(* Sizes.                                                                  *)
(***************************************************************************)
LEMMA SectorsHold ==
    ASSUME NEW size \in Nat
    PROVE  /\ SectorsOf(size) \in Nat
           /\ size <= SectorsOf(size) * SectorSize
           /\ size # 0 => SectorsOf(size) # 0
<1> DEFINE a == size + SectorSize - 1
           q == a \div SectorSize
<1>1. SectorSize \in Nat \ {0} /\ a \in Nat
  BY Fat12Assumption
<1>2. \A n \in Nat, d \in Nat : d > 0 => n \div d \in Nat /\ n < (n \div d) * d + d
  OBVIOUS
<1> HIDE DEF a
<1>3. q \in Nat /\ a < q * SectorSize + SectorSize
  BY <1>1, <1>2
<1> HIDE DEF q
<1> DEFINE p == q * SectorSize
<1>4. p \in Nat /\ (q = 0 => p = 0)
  BY <1>1, <1>3
<1>5. a < p + SectorSize
  BY <1>3
<1> HIDE DEF p
<1>6. size <= p /\ (size # 0 => p # 0)
  BY <1>1, <1>4, <1>5 DEF a
<1>7. SectorsOf(size) = q
  BY DEF SectorsOf, q, a
<1> QED
  BY <1>3, <1>4, <1>6, <1>7 DEF p

-----------------------------------------------------------------------------
(***************************************************************************)
(* The operations.  FileStep is what the operations on files share: the    *)
(* entry e is no directory before or after, and only sectors of its new    *)
(* chain s are written.                                                    *)
(***************************************************************************)
LEMMA FileStep ==
    ASSUME FInv, NamesSound', NEW e \in Slots, NEW s \in Seq(Clusters), Distinct(s),
           MirroredTable(table'), EntriesSound',
           \A d \in Slots \ {e} : root'[d] = root[d],
           \A c \in Clusters : In(c, s) => In(c, Owned(e)) \/ Entry(table, c) = FREE,
           \A c \in Clusters : ~In(c, s) => Entry(table', c) = IF In(c, Owned(e)) THEN FREE
                                                               ELSE Entry(table, c),
           IF e \in LiveEntries' THEN IsChain(table', root'[e].first_cluster, s) ELSE s = <<>>,
           e \in LiveEntries => ~root[e].dir,
           e \in LiveEntries' => ~root'[e].dir /\ root'[e].size <= Len(s) * SectorSize,
           DataSound', \A c \in Clusters : ~In(c, s) => data'[c] = data[c],
           UNCHANGED <<current_dir_cluster, current_path>>
    PROVE  FInv' /\ Kept(e) /\ (e \in LiveEntries' => ChainOf(e)' = s)
<1>1. /\ ChainsInv'
      /\ e \in LiveEntries' => ChainOf(e)' = s
      /\ \A d \in Slots \ {e} : (d \in LiveEntries' <=> d \in LiveEntries)
      /\ \A d \in LiveEntries \ {e} :
            /\ ChainOf(d)' = ChainOf(d) /\ ChainOf(d) \in Seq(Clusters)
            /\ \A c \in Clusters : In(c, ChainOf(d)) => ~In(c, s)
  BY ChainsChange DEF FInv
<1>2. LiveEntries \subseteq Slots /\ LiveEntries' \subseteq Slots
  BY DEF LiveEntries
<1>3. SizeWithinChain'
  <2> SUFFICES ASSUME NEW d \in LiveEntries' PROVE (root[d].size <= Len(ChainOf(d)) * SectorSize)'
    BY DEF SizeWithinChain
  <2>1. CASE d = e
    BY <2>1, <1>1
  <2>2. CASE d # e
    BY <2>2, <1>1, <1>2 DEF FInv, SizeWithinChain
  <2> QED
    BY <2>1, <2>2
<1>4. DirsSound'
  <2> SUFFICES ASSUME NEW d \in LiveEntries', root'[d].dir
               PROVE  root'[d].first_cluster \in Clusters /\ data'[root'[d].first_cluster][1] = "dots"
    BY DEF DirsSound
  <2> DEFINE c == root[d].first_cluster
  <2>1. d # e /\ d \in LiveEntries /\ root'[d] = root[d]
    BY <1>1, <1>2
  <2>2. c \in Clusters /\ data[c][1] = "dots"
    BY <2>1 DEF FInv, DirsSound
  <2>3. In(c, ChainOf(d))
    <3>1. IsChain(table, c, ChainOf(d)) /\ Distinct(ChainOf(d))
      BY <2>1 DEF FInv, ChainsInv, ChainSound
    <3>2. ChainOf(d) # <<>>
      BY <3>1, <2>2, ClusterNumbers DEF IsChain, EOC
    <3>3. 1 \in 1..Len(ChainOf(d)) /\ ChainOf(d)[1] = c
      BY <3>1, <3>2, EmptySeq DEF IsChain
    <3> QED
      BY <3>3 DEF In
  <2>4. data'[c] = data[c]
    BY <2>1, <2>2, <2>3, <1>1
  <2> QED
    BY <2>1, <2>2, <2>4
<1>5. PathSound'
  <2>1. \A d \in LiveEntries : root[d].dir => d \in LiveEntries' /\ root'[d] = root[d]
    BY <1>1, <1>2
  <2> QED
    BY <2>1 DEF FInv, PathSound
<1>6. Kept(e)
  <2>1. \A d \in LiveEntries \ {e} : root'[d].name = root[d].name /\ Contents(d)' = Contents(d)
    BY <1>1, <1>2, ContentsKept
  <2> QED
    BY <2>1, <1>1, <1>2 DEF Kept
<1> QED
  BY <1>1, <1>3, <1>4, <1>5, <1>6 DEF FInv

LEMMA EntryOfSlot ==
    ASSUME EntriesSound, NEW e \in Slots
    PROVE  /\ root[e] \in DirectoryEntry
           /\ root[e].first_cluster \in {0} \cup Clusters
           /\ root[e].size \in Nat
BY DEF EntriesSound, DirectoryEntry

LEMMA TextIs ==
    ASSUME NEW e, NEW s, ChainOf(e)' = s
    PROVE  ReadFile(e)' = [i \in 1..Len(s) |-> data'[s[i]]]
<1>1. ReadFile(e)' = [i \in 1..Len(ChainOf(e)') |-> data'[(ChainOf(e)')[i]]]
  BY DEF ReadFile, ChainOf
<1> QED
  BY <1>1

LEMMA CreateFile ==
    ASSUME FInv, NEW name \in Names, fat12_create_file(name)
    PROVE  FInv' /\ EntryAdded(name, FALSE)
<1> DEFINE entry == [name |-> name, dir |-> FALSE, first_cluster |-> 0, size |-> 0]
           s     == <<>>
<1>1. EntriesSound /\ NamesSound /\ MirroredTable(table)
  BY DEF FInv, ChainsInv
<1>2. /\ ~Exists(name) /\ FreeEntries # {} /\ root' = [root EXCEPT ![fat12_find_free_root_entry] = entry]
      /\ UNCHANGED <<table, data, current_dir_cluster, current_path>>
  BY DEF fat12_create_file
<1>3. PICK e \in Slots : e = fat12_find_free_root_entry /\ e \notin LiveEntries
  BY <1>2, FreeSlot
<1>4. entry \in DirectoryEntry
  BY DEF DirectoryEntry
<1>5. NamesSound'
  BY <1>1, <1>2, <1>4, NameAdded
<1>6. /\ EntriesSound' /\ root'[e] = entry /\ \A d \in Slots \ {e} : root'[d] = root[d]
  BY <1>1, <1>2, <1>3, <1>4 DEF EntriesSound
<1>7. Owned(e) = s /\ s \in Seq(Clusters) /\ Distinct(s) /\ \A c \in Clusters : ~In(c, s)
  BY <1>3 DEF Owned, Distinct, In
<1>8. IsChain(table', root'[e].first_cluster, s)
  BY <1>6 DEF IsChain
<1>9. e \in LiveEntries' /\ root'[e].name = name /\ ~root'[e].dir /\ root'[e].size = 0 /\ Len(s) * SectorSize = 0
  BY <1>3, <1>6, Fat12Assumption DEF LiveEntries, Live
<1> HIDE DEF s
<1>10. DataSound' /\ (\A c \in Clusters : data'[c] = data[c])
  BY <1>2 DEF FInv, DataSound
<1>11. \A c \in Clusters : Entry(table', c) = IF In(c, Owned(e)) THEN FREE ELSE Entry(table, c)
  BY <1>2, <1>7
<1>12. MirroredTable(table') /\ root'[e].size <= Len(s) * SectorSize
  BY <1>1, <1>2, <1>9
<1>13. FInv' /\ Kept(e) /\ ChainOf(e)' = s
  BY <1>2, <1>3, <1>5, <1>6, <1>7, <1>8, <1>9, <1>10, <1>11, <1>12, FileStep
<1>14. Contents(e)' = [dir |-> FALSE, text |-> <<>>]
  <2>1. ReadFile(e)' = [i \in 1..Len(s) |-> data'[s[i]]]
    BY <1>13, TextIs
  <2>2. ReadFile(e)' = <<>>
    BY <2>1 DEF s
  <2>3. root'[e].dir = FALSE
    BY <1>6 DEF entry
  <2> QED
    BY <2>2, <2>3 DEF Contents
<1> QED
  BY <1>3, <1>9, <1>13, <1>14 DEF EntryAdded

LEMMA DeleteFile ==
    ASSUME FInv, NEW name \in Names, fat12_delete_file(name)
    PROVE  FInv' /\ EntryRemoved(name)
<1>1. EntriesSound /\ NamesSound /\ MirroredTable(table)
  BY DEF FInv, ChainsInv
<1>2. PICK e \in LiveEntries : e = fat12_find_file(name) /\ root[e].name = name /\ e \in Slots
  BY <1>1, Lookup, SlotNumbers DEF fat12_delete_file, IsFile
<1> DEFINE s == ChainOf(e)
<1>3. /\ ~root[e].dir
      /\ table' = FreeChain(table, root[e].first_cluster)
      /\ root' = [root EXCEPT ![e].name = Deleted]
      /\ UNCHANGED <<data, current_dir_cluster, current_path>>
  BY <1>2 DEF fat12_delete_file, IsFile
<1>4. IsChain(table, root[e].first_cluster, s) /\ Distinct(s) /\ s \in Seq(Clusters)
  BY <1>2 DEF FInv, ChainsInv, ChainSound, IsChain
<1>5. /\ MirroredTable(table')
      /\ \A c \in Clusters : ~In(c, s) => Entry(table', c) = Entry(table, c)
      /\ \A c \in Clusters : In(c, s) => Entry(table', c) = FREE
  <2>1. Chain(table, root[e].first_cluster) = s
    BY DEF ChainOf
  <2> HIDE DEF s
  <2> QED
    BY <2>1, <1>1, <1>3, <1>4, ChainFreed DEF In
<1>6. Owned(e) = s
  BY <1>2 DEF Owned
<1> HIDE DEF s
<1>7. /\ EntriesSound' /\ root'[e].name = Deleted
      /\ \A d \in Slots \ {e} : root'[d] = root[d]
  BY <1>1, <1>2, <1>3 DEF EntriesSound, DirectoryEntry
<1>8. e \notin LiveEntries' /\ \A d \in Slots \ {e} : d \in LiveEntries' <=> d \in LiveEntries
  BY <1>7 DEF LiveEntries, Live
<1>9. NamesSound'
  <2>1. LiveEntries' \subseteq LiveEntries \ {e}
    BY <1>8, SlotNumbers DEF LiveEntries
  <2>2. ASSUME NEW d \in LiveEntries', NEW i \in 1..d - 1 PROVE root'[i].name # Unused
    <3>1. i \in Slots
      BY <2>1, SlotNumbers, Fat12Assumption DEF Slots
    <3>2. root[i].name # Unused
      BY <2>1 DEF FInv, NamesSound
    <3> QED
      BY <3>1, <3>2, <1>7 DEF Unused, Deleted
  <2>3. \A d, x \in LiveEntries' : root'[d].name = root'[x].name => d = x
    BY <2>1, <1>7, SlotNumbers DEF FInv, NamesSound
  <2> QED
    BY <2>2, <2>3 DEF NamesSound
<1>10. <<>> \in Seq(Clusters) /\ Distinct(<<>>) /\ \A c \in Clusters : ~In(c, <<>>)
  BY DEF Distinct, In
<1>11. DataSound' /\ (\A c \in Clusters : data'[c] = data[c])
  BY <1>3 DEF FInv, DataSound
<1>12. \A c \in Clusters : Entry(table', c) = IF In(c, Owned(e)) THEN FREE ELSE Entry(table, c)
  BY <1>5, <1>6
<1>13. FInv' /\ Kept(e)
  BY <1>2, <1>3, <1>5, <1>7, <1>8, <1>9, <1>10, <1>11, <1>12, FileStep
<1> QED
  BY <1>2, <1>3, <1>8, <1>13 DEF EntryRemoved

(***************************************************************************)
(* Writing.  A file whose chain is rewritten owns the clusters freed, so   *)
(* the clusters taken are free or its own.                                 *)
(***************************************************************************)
LEMMA Stored ==
    ASSUME NEW taken \in Seq(Clusters), Distinct(taken), NEW sectors, data' = Store(taken, sectors)
    PROVE  /\ DataSound' /\ \A c \in Clusters : ~In(c, taken) => data'[c] = data[c]
           /\ \A i \in 1..Len(taken) : data'[taken[i]] = sectors[i]
<1> DEFINE At(c) == IF \E i \in 1..Len(taken) : taken[i] = c
                    THEN sectors[CHOOSE i \in 1..Len(taken) : taken[i] = c]
                    ELSE data[c]
<1>1. data' = [c \in Clusters |-> At(c)]
  BY DEF Store
<1>2. \A c \in Clusters : ~In(c, taken) => At(c) = data[c]
  BY DEF In
<1>3. ASSUME NEW i \in 1..Len(taken) PROVE taken[i] \in Clusters /\ At(taken[i]) = sectors[i]
  <2> DEFINE j == CHOOSE j \in 1..Len(taken) : taken[j] = taken[i]
  <2>1. j \in 1..Len(taken) /\ taken[j] = taken[i]
    OBVIOUS
  <2>2. j = i
    BY <2>1 DEF Distinct
  <2>3. At(taken[i]) = sectors[j]
    OBVIOUS
  <2>4. taken[i] \in Clusters
    OBVIOUS
  <2> HIDE DEF At, j
  <2> QED
    BY <2>2, <2>3, <2>4
<1> HIDE DEF At
<1>4. DataSound'
  BY <1>1 DEF DataSound
<1> QED
  BY <1>1, <1>2, <1>3, <1>4

\* The first sectors of the data of a call.
FirstSectors(name, size, n) == [i \in 1..n |-> Sectors(name, size)[i]]

LEMMA WriteStep ==
    ASSUME FInv, NEW e \in LiveEntries, ~root[e].dir, NEW size \in Nat, WriteEntry(e, size),
           UNCHANGED <<current_dir_cluster, current_path>>
    PROVE  /\ FInv' /\ Kept(e)
           /\ e \in LiveEntries' /\ root'[e].name = root[e].name /\ ~root'[e].dir
           /\ \E n \in 0..SectorsOf(size) : ReadFile(e)' = FirstSectors(root[e].name, size, n)
<1> DEFINE old   == ChainOf(e)
           freed == FreeChain(table, root[e].first_cluster)
           taken == Grab(freed, SectorsOf(size))
           first == IF taken = <<>> THEN 0 ELSE taken[1]
           length == IF taken = <<>> /\ size # 0 THEN root[e].size ELSE WrittenSize(size, taken)
<1>1. EntriesSound /\ NamesSound /\ MirroredTable(table) /\ e \in Slots
  BY SlotNumbers DEF FInv, ChainsInv
<1>2. /\ table' = IF taken = <<>> THEN freed
                  ELSE SetEntries(fat12_set_fat_entry(freed, taken[1], EOC), Links(taken[1], Tail(taken)))
      /\ data' = Store(taken, Sectors(root[e].name, size))
      /\ root' = [root EXCEPT ![e].first_cluster = first, ![e].size = length]
  BY <1>1 DEF WriteEntry
<1>3. IsChain(table, root[e].first_cluster, old) /\ Distinct(old) /\ old \in Seq(Clusters)
  BY DEF FInv, ChainsInv, ChainSound, IsChain
<1>4. /\ MirroredTable(freed)
      /\ \A c \in Clusters : Entry(freed, c) = IF In(c, old) THEN FREE ELSE Entry(table, c)
  <2>1. Chain(table, root[e].first_cluster) = old
    BY DEF ChainOf
  <2> HIDE DEF old
  <2> QED
    BY <2>1, <1>1, <1>3, ChainFreed DEF In
<1> HIDE DEF freed
<1>5. /\ SectorsOf(size) \in Nat /\ size <= SectorsOf(size) * SectorSize
      /\ size # 0 => SectorsOf(size) # 0
  BY SectorsHold
<1>6. /\ taken \in Seq(FreeClusters(freed)) /\ Distinct(taken) /\ Len(taken) \in Nat
      /\ Len(taken) <= SectorsOf(size)
      /\ Len(taken) < SectorsOf(size) => Len(taken) = Cardinality(FreeClusters(freed))
      /\ FreeClusters(freed) = {} <=> Cardinality(FreeClusters(freed)) = 0
  BY <1>5, GrabFacts
<1> HIDE DEF taken
<1>7. /\ taken \in Seq(Clusters)
      /\ \A c \in Clusters : In(c, taken) => Entry(freed, c) = FREE
  BY <1>6 DEF FreeClusters, In, Entry
<1>8. IF taken = <<>> THEN table' = freed
      ELSE /\ MirroredTable(table') /\ IsChain(table', taken[1], taken)
           /\ \A c \in Clusters : ~In(c, taken) => Entry(table', c) = Entry(freed, c)
  <2> SUFFICES ASSUME taken # <<>>
               PROVE  /\ MirroredTable(table') /\ IsChain(table', taken[1], taken)
                      /\ \A c \in Clusters : ~In(c, taken) => Entry(table', c) = Entry(freed, c)
    BY <1>2
  <2> DEFINE r == SetEntries(fat12_set_fat_entry(freed, taken[1], EOC), Links(taken[1], Tail(taken)))
  <2>1. table' = r
    BY <1>2
  <2>2. /\ MirroredTable(r)
        /\ \A c \in Clusters : (\A i \in 1..Len(taken) : taken[i] # c) => Entry(r, c) = Entry(freed, c)
        /\ \A i \in 1..Len(taken) :
              Entry(r, taken[i]) = IF i < Len(taken) THEN taken[i + 1] ELSE EOC
    BY <1>4, <1>6, <1>7, ChainStarted
  <2> HIDE DEF r
  <2> QED
    BY <2>1, <2>2, <1>7 DEF IsChain, In
<1>9. /\ MirroredTable(table') /\ IsChain(table', first, taken)
      /\ \A c \in Clusters : ~In(c, taken) => Entry(table', c) = Entry(freed, c)
  BY <1>4, <1>7, <1>8 DEF IsChain
<1>10. first \in {0} \cup Clusters
  BY <1>7, EmptySeq
<1>11. length \in Nat /\ length <= Len(taken) * SectorSize
  <2>1. root[e].size \in Nat /\ root[e].size <= Len(old) * SectorSize
    BY <1>1, EntryOfSlot DEF FInv, SizeWithinChain
  <2>2. \A n \in Nat : n * SectorSize \in Nat
    BY Fat12Assumption
  <2>3. CASE taken = <<>> /\ size # 0
    <3>1. FreeClusters(freed) = {}
      BY <2>3, <1>5, <1>6
    <3>2. \A c \in Clusters : ~In(c, old)
      BY <3>1, <1>4 DEF FreeClusters, Entry
    <3>3. Len(old) = 0
      <4>1. \A i \in 1..Len(old) : FALSE
        BY <3>2, <1>3 DEF In
      <4>2. Len(old) \in Nat
        BY <1>3
      <4> QED
        BY <4>1, <4>2
    <3>4. length = root[e].size
      BY <2>3
    <3> QED
      BY <2>1, <2>3, <3>3, <3>4
  <2>4. CASE ~(taken = <<>> /\ size # 0)
    <3>1. length = WrittenSize(size, taken)
      BY <2>4
    <3>2. CASE Len(taken) < SectorsOf(size)
      <4> DEFINE p == Len(taken) * SectorSize
      <4>1. p \in Nat /\ length = p
        BY <3>1, <3>2, <2>2, <1>6 DEF WrittenSize
      <4> QED
        BY <4>1
    <3>3. CASE Len(taken) = SectorsOf(size)
      BY <3>1, <3>3, <1>5 DEF WrittenSize
    <3> QED
      BY <3>2, <3>3, <1>5, <1>6
  <2> QED
    BY <2>3, <2>4
<1> HIDE DEF first, length
<1>12. /\ root'[e] = [root[e] EXCEPT !.first_cluster = first, !.size = length]
       /\ \A d \in Slots \ {e} : root'[d] = root[d]
       /\ root' = [d \in Slots |-> IF d = e THEN root'[e] ELSE root[d]]
  BY <1>1, <1>2 DEF EntriesSound
<1>13. /\ root'[e] \in DirectoryEntry /\ root'[e].name = root[e].name /\ root'[e].dir = root[e].dir
       /\ root'[e].first_cluster = first /\ root'[e].size = length
  <2>1. root[e] \in DirectoryEntry
    BY <1>1, EntryOfSlot
  <2> QED
    BY <2>1, <1>10, <1>11, <1>12 DEF DirectoryEntry
<1>14. EntriesSound'
  BY <1>1, <1>12, <1>13 DEF EntriesSound
<1>15. NamesSound'
  BY <1>1, <1>12, <1>13, NamesKept
<1>16. e \in LiveEntries'
  BY <1>1, <1>13 DEF LiveEntries, Live
<1>17. /\ DataSound' /\ \A c \in Clusters : ~In(c, taken) => data'[c] = data[c]
       /\ \A i \in 1..Len(taken) : data'[taken[i]] = Sectors(root[e].name, size)[i]
  BY <1>2, <1>6, <1>7, Stored
<1>18. Owned(e) = old
  BY DEF Owned
<1> HIDE DEF old
<1>19. FInv' /\ Kept(e) /\ ChainOf(e)' = taken
  BY <1>1, <1>4, <1>6, <1>7, <1>9, <1>11, <1>12, <1>13, <1>14, <1>15, <1>16, <1>17, <1>18, FileStep
<1>20. ReadFile(e)' = FirstSectors(root[e].name, size, Len(taken))
  BY <1>17, <1>19, TextIs DEF FirstSectors
<1>21. Len(taken) \in 0..SectorsOf(size)
  BY <1>5, <1>6
<1> QED
  BY <1>13, <1>16, <1>19, <1>20, <1>21

LEMMA Bounded ==
    ASSUME NEW s \in Seq(Clusters), s # <<>>
    PROVE  /\ Len(s) \in Nat \ {0}
           /\ Last(s) = s[Len(s)] /\ Last(s) \in Clusters /\ In(Last(s), s)
<1>1. Len(s) \in Nat \ {0}
  BY EmptySeq
<1>2. Last(s) = s[Len(s)]
  BY DEF Last
<1> QED
  BY <1>1, <1>2 DEF In

\* Clusters linked behind a chain make it longer.
LEMMA ChainLinked ==
    ASSUME NEW t, MirroredTable(t), NEW first, NEW old, IsChain(t, first, old), Distinct(old), old # <<>>,
           NEW taken \in Seq(Clusters), Distinct(taken), \A c \in Clusters : ~(In(c, old) /\ In(c, taken))
    PROVE  /\ MirroredTable(SetEntries(t, Links(Last(old), taken)))
           /\ IsChain(SetEntries(t, Links(Last(old), taken)), first, old \o taken)
           /\ \A c \in Clusters : ~In(c, old \o taken)
                                  => Entry(SetEntries(t, Links(Last(old), taken)), c) = Entry(t, c)
<1> DEFINE last == Last(old)
           r == SetEntries(t, Links(last, taken))
           s == old \o taken
           m == Len(old)
           n == Len(taken)
<1>1. old \in Seq(Clusters)
  BY DEF IsChain
<1>2. /\ m \in Nat \ {0} /\ last = old[m] /\ last \in Clusters /\ In(last, old)
  BY <1>1, Bounded
<1>3. /\ s \in Seq(Clusters) /\ Len(s) = m + n /\ n \in Nat
      /\ \A i \in 1..m : s[i] = old[i]
      /\ \A i \in 1..n : s[m + i] = taken[i]
  BY <1>1
<1>4. \A i \in 1..m + n : i \in 1..m \/ \E j \in 1..n : i = m + j
  <2> SUFFICES ASSUME NEW i \in 1..m + n, i \notin 1..m PROVE \E j \in 1..n : i = m + j
    OBVIOUS
  <2>1. i - m \in 1..n /\ i = m + (i - m)
    BY <1>2, <1>3
  <2> QED
    BY <2>1
<1> HIDE DEF last, s
<1>5. s # <<>> /\ s[1] = old[1]
  BY <1>2, <1>3, EmptySeq
<1>6. \A c \in Clusters : In(c, old) \/ In(c, taken) => In(c, s)
  <2>1. \A i \in 1..m : i \in 1..Len(s)
    BY <1>2, <1>3
  <2>2. \A i \in 1..n : m + i \in 1..Len(s)
    BY <1>2, <1>3
  <2> QED
    BY <2>1, <2>2, <1>3 DEF In
<1>7. \A i \in 1..m : Entry(t, old[i]) = IF i < m THEN old[i + 1] ELSE EOC
  BY DEF IsChain
<1>8. /\ MirroredTable(r)
      /\ \A c \in Clusters : c # last /\ ~In(c, taken) => Entry(r, c) = Entry(t, c)
      /\ Entry(r, last) = IF taken = <<>> THEN EOC ELSE taken[1]
      /\ \A i \in 1..n : Entry(r, taken[i]) = IF i < n THEN taken[i + 1] ELSE EOC
  <2>1. CASE taken = <<>>
    <3>1. n = 0
      BY <2>1
    <3> DEFINE ls == Links(last, taken)
    <3>2. Len(ls) = 2 * n
      BY <1>3, LinkSettings DEF LinkList
    <3> HIDE DEF ls, n
    <3>3. Len(ls) = 0
      BY <3>1, <3>2
    <3>4. Settings(ls)
      BY <3>3 DEF Settings
    <3>5. LastValues(SetEntries(t, ls), t, ls)
      BY <3>4, LastSettingHolds
    <3>6. MirroredTable(r) /\ \A c \in Clusters : Entry(r, c) = Entry(t, c)
      BY <3>3, <3>5 DEF LastValues, ls
    <3>7. Entry(t, last) = EOC
      BY <1>2, <1>7
    <3> QED
      BY <2>1, <3>1, <3>6, <3>7, <1>2
  <2>2. CASE taken # <<>>
    <3>1. \A i \in 1..n : taken[i] # last
      BY <1>2 DEF In
    <3> QED
      BY <2>2, <3>1, <1>2, ChainExtended, SMTT(30) DEF In
  <2> QED
    BY <2>1, <2>2
<1> HIDE DEF r
<1>9. ASSUME NEW i \in 1..Len(s) PROVE Entry(r, s[i]) = IF i < Len(s) THEN s[i + 1] ELSE EOC
  <2>1. CASE i \in 1..m /\ i # m
    <3>1. i < m /\ i + 1 \in 1..m /\ s[i] = old[i] /\ s[i + 1] = old[i + 1] /\ i < Len(s)
      BY <2>1, <1>2, <1>3
    <3>2. old[i] \in Clusters /\ In(old[i], old)
      BY <2>1, <1>1 DEF In
    <3>3. old[i] # last
      BY <2>1, <1>2 DEF Distinct
    <3>4. Entry(r, old[i]) = Entry(t, old[i])
      BY <3>2, <3>3, <1>8
    <3> QED
      BY <2>1, <3>1, <3>4, <1>7
  <2>2. CASE i = m
    <3>1. s[i] = last
      BY <2>2, <1>2, <1>3
    <3>2. CASE taken = <<>>
      <4>1. n = 0
        BY <3>2
      <4> QED
        BY <2>2, <3>1, <3>2, <4>1, <1>2, <1>3, <1>8
    <3>3. CASE taken # <<>>
      <4>1. n # 0
        BY <3>3, EmptySeq
      <4>2. 1 \in 1..n
        BY <4>1, <1>3
      <4>3. s[i + 1] = taken[1] /\ i < Len(s)
        BY <2>2, <4>1, <4>2, <1>2, <1>3
      <4> QED
        BY <3>1, <3>3, <4>3, <1>8
    <3> QED
      BY <3>2, <3>3
  <2>3. ASSUME NEW j \in 1..n, i = m + j PROVE Entry(r, s[i]) = IF i < Len(s) THEN s[i + 1] ELSE EOC
    <3>1. s[i] = taken[j]
      BY <2>3, <1>3
    <3>2. i < Len(s) <=> j < n
      BY <2>3, <1>2, <1>3
    <3>3. j < n => s[i + 1] = taken[j + 1]
      <4> SUFFICES ASSUME j < n PROVE s[i + 1] = taken[j + 1]
        OBVIOUS
      <4>1. j + 1 \in 1..n /\ i + 1 = m + (j + 1)
        BY <2>3, <1>2, <1>3
      <4> QED
        BY <4>1, <1>3
    <3> QED
      BY <3>1, <3>2, <3>3, <1>8
  <2> QED
    BY <2>1, <2>2, <2>3, <1>3, <1>4
<1>10. IsChain(r, first, s)
  BY <1>3, <1>5, <1>9, <1>2 DEF IsChain
<1>11. \A c \in Clusters : ~In(c, s) => Entry(r, c) = Entry(t, c)
  BY <1>2, <1>6, <1>8
<1> QED
  BY <1>8, <1>10, <1>11 DEF r, s, last

LEMMA JoinedIs ==
    ASSUME NEW S, NEW a \in Seq(S), NEW b \in Seq(S)
    PROVE  a \o b = [i \in 1..Len(a) + Len(b) |-> IF i <= Len(a) THEN a[i] ELSE b[i - Len(a)]]
<1> DEFINE r == a \o b
<1>1. r \in Seq(S) /\ Len(r) = Len(a) + Len(b)
  OBVIOUS
<1>2. \A i \in 1..Len(r) : r[i] = IF i <= Len(a) THEN a[i] ELSE b[i - Len(a)]
  OBVIOUS
<1> HIDE DEF r
<1>3. r \in [1..Len(r) -> S]
  BY <1>1, LenProperties
<1>4. r = [i \in 1..Len(r) |-> IF i <= Len(a) THEN a[i] ELSE b[i - Len(a)]]
  BY <1>2, <1>3
<1> QED
  BY <1>1, <1>4 DEF r

LEMMA AppendStep ==
    ASSUME FInv, NEW e \in LiveEntries, ~root[e].dir, ~(root[e].first_cluster < 2),
           NEW size \in Nat, AppendEntry(e, size), UNCHANGED <<current_dir_cluster, current_path>>
    PROVE  /\ FInv' /\ Kept(e)
           /\ e \in LiveEntries' /\ root'[e].name = root[e].name /\ ~root'[e].dir
           /\ \E n \in 0..SectorsOf(size) :
                 ReadFile(e)' = ReadFile(e) \o FirstSectors(root[e].name, size, n)
<1> DEFINE old   == ChainOf(e)
           taken == Grab(table, SectorsOf(size))
           s     == old \o taken
           length == root[e].size + size
<1>1. EntriesSound /\ NamesSound /\ MirroredTable(table) /\ e \in Slots
  BY SlotNumbers DEF FInv, ChainsInv
<1>2. /\ table' = SetEntries(table, Links(Last(old), taken))
      /\ data' = Store(taken, Sectors(root[e].name, size))
      /\ root' = IF Len(taken) < SectorsOf(size) THEN root ELSE [root EXCEPT ![e].size = length]
  BY <1>1 DEF AppendEntry, EntriesSound, ChainOf
<1>3. IsChain(table, root[e].first_cluster, old) /\ Distinct(old) /\ old \in Seq(Clusters)
  BY DEF FInv, ChainsInv, ChainSound, IsChain
<1> HIDE DEF old
<1>4. old # <<>>
  <2>1. root[e].first_cluster \in Clusters
    BY <1>1, EntryOfSlot
  <2> QED
    BY <2>1, <1>3, ClusterNumbers DEF IsChain, EOC
<1>5. /\ SectorsOf(size) \in Nat /\ size <= SectorsOf(size) * SectorSize
  BY SectorsHold
<1>6. /\ taken \in Seq(FreeClusters(table)) /\ Distinct(taken) /\ Len(taken) \in Nat
      /\ Len(taken) <= SectorsOf(size)
  BY <1>5, GrabFacts
<1> HIDE DEF taken
<1>7. /\ taken \in Seq(Clusters)
      /\ \A c \in Clusters : In(c, taken) => Entry(table, c) = FREE
  BY <1>6 DEF FreeClusters, In, Entry
<1>8. \A c \in Clusters : In(c, old) => Entry(table, c) # FREE
  BY <1>3, ChainFacts
<1>9. /\ MirroredTable(table') /\ IsChain(table', root[e].first_cluster, s)
      /\ \A c \in Clusters : ~In(c, s) => Entry(table', c) = Entry(table, c)
  BY <1>1, <1>2, <1>3, <1>4, <1>6, <1>7, <1>8, ChainLinked
<1>10. /\ s \in Seq(Clusters) /\ Len(s) = Len(old) + Len(taken) /\ Len(old) \in Nat
       /\ \A i \in 1..Len(old) : s[i] = old[i]
       /\ \A i \in 1..Len(taken) : s[Len(old) + i] = taken[i]
  BY <1>3, <1>7
<1>11. \A i \in 1..Len(s) : i \in 1..Len(old) \/ \E j \in 1..Len(taken) : i = Len(old) + j
  <2> SUFFICES ASSUME NEW i \in 1..Len(s), i \notin 1..Len(old)
               PROVE  \E j \in 1..Len(taken) : i = Len(old) + j
    OBVIOUS
  <2>1. i - Len(old) \in 1..Len(taken) /\ i = Len(old) + (i - Len(old))
    BY <1>6, <1>10
  <2> QED
    BY <2>1
<1> HIDE DEF s
<1>12. \A c \in Clusters : In(c, s) <=> In(c, old) \/ In(c, taken)
  <2>1. \A i \in 1..Len(old) : i \in 1..Len(s)
    BY <1>6, <1>10
  <2>2. \A i \in 1..Len(taken) : Len(old) + i \in 1..Len(s)
    BY <1>6, <1>10
  <2> QED
    BY <2>1, <2>2, <1>10, <1>11, ZenonT(60) DEF In
<1>13. Distinct(s)
  <2> SUFFICES ASSUME NEW i \in 1..Len(s), NEW j \in 1..Len(s), s[i] = s[j] PROVE i = j
    BY DEF Distinct
  <2>1. CASE i \in 1..Len(old) /\ j \in 1..Len(old)
    BY <2>1, <1>3, <1>10 DEF Distinct
  <2>2. ASSUME NEW a \in 1..Len(taken), NEW b \in 1..Len(taken), i = Len(old) + a, j = Len(old) + b
        PROVE  i = j
    <3>1. s[i] = taken[a] /\ s[j] = taken[b]
      BY <2>2, <1>10
    <3>2. a = b
      BY <3>1, <1>6 DEF Distinct
    <3> QED
      BY <2>2, <3>2
  <2>3. ASSUME NEW a \in 1..Len(old), NEW b \in 1..Len(taken), old[a] = taken[b] PROVE FALSE
    <3>1. old[a] \in Clusters /\ In(old[a], old) /\ In(old[a], taken)
      BY <2>3, <1>3, SMTT(30) DEF In
    <3> QED
      BY <3>1, <1>7, <1>8
  <2>4. CASE i \in 1..Len(old) /\ j \notin 1..Len(old)
    <3>1. PICK b \in 1..Len(taken) : j = Len(old) + b
      BY <2>4, <1>11
    <3>2. old[i] = taken[b]
      BY <2>4, <3>1, <1>10
    <3> QED
      BY <2>3, <2>4, <3>2
  <2>5. CASE i \notin 1..Len(old) /\ j \in 1..Len(old)
    <3>1. PICK a \in 1..Len(taken) : i = Len(old) + a
      BY <2>5, <1>11
    <3>2. old[j] = taken[a]
      BY <2>5, <3>1, <1>10
    <3> QED
      BY <2>3, <2>5, <3>2
  <2>6. CASE i \notin 1..Len(old) /\ j \notin 1..Len(old)
    BY <2>2, <2>6, <1>11
  <2> QED
    BY <2>1, <2>4, <2>5, <2>6
<1>14. root[e] \in DirectoryEntry /\ root[e].size \in Nat /\ length \in Nat
  BY <1>1, EntryOfSlot
<1>15. /\ root[e].size <= Len(s) * SectorSize
       /\ Len(taken) = SectorsOf(size) => length <= Len(s) * SectorSize
  <2> DEFINE p == Len(old) * SectorSize
             q == Len(taken) * SectorSize
  <2>1. root[e].size <= p
    BY DEF FInv, SizeWithinChain, old
  <2>2. p \in Nat /\ q \in Nat
    BY <1>6, <1>10, Fat12Assumption
  <2>3. Len(s) * SectorSize = p + q
    BY <1>6, <1>10, Fat12Assumption
  <2>4. Len(taken) = SectorsOf(size) => size <= q
    BY <1>5
  <2> HIDE DEF p, q
  <2> QED
    BY <2>1, <2>2, <2>3, <2>4, <1>14, SMTT(30)
<1>16. /\ root' = [d \in Slots |-> IF d = e THEN root'[e] ELSE root[d]]
       /\ \A d \in Slots \ {e} : root'[d] = root[d]
       /\ root'[e] = IF Len(taken) < SectorsOf(size) THEN root[e] ELSE [root[e] EXCEPT !.size = length]
  BY <1>1, <1>2 DEF EntriesSound
<1> HIDE DEF length
<1>17. /\ root'[e] \in DirectoryEntry /\ root'[e].name = root[e].name /\ root'[e].dir = root[e].dir
       /\ root'[e].first_cluster = root[e].first_cluster
       /\ root'[e].size <= Len(s) * SectorSize
  <2>1. CASE Len(taken) < SectorsOf(size)
    BY <2>1, <1>14, <1>15, <1>16
  <2>2. CASE Len(taken) = SectorsOf(size)
    BY <2>2, <1>5, <1>14, <1>15, <1>16 DEF DirectoryEntry
  <2> QED
    BY <2>1, <2>2, <1>5, <1>6
<1>18. EntriesSound'
  BY <1>1, <1>16, <1>17 DEF EntriesSound
<1>19. NamesSound'
  BY <1>1, <1>16, <1>17, NamesKept
<1>20. e \in LiveEntries'
  BY <1>1, <1>17 DEF LiveEntries, Live
<1>21. /\ DataSound' /\ \A c \in Clusters : ~In(c, taken) => data'[c] = data[c]
       /\ \A i \in 1..Len(taken) : data'[taken[i]] = Sectors(root[e].name, size)[i]
  BY <1>2, <1>6, <1>7, Stored
<1>22. Owned(e) = old
  BY DEF Owned, old
<1>23. /\ \A c \in Clusters : In(c, s) => In(c, old) \/ Entry(table, c) = FREE
       /\ \A c \in Clusters : ~In(c, s) => Entry(table', c) = IF In(c, old) THEN FREE ELSE Entry(table, c)
       /\ \A c \in Clusters : ~In(c, s) => data'[c] = data[c]
  BY <1>7, <1>9, <1>12, <1>21
<1>24. FInv' /\ Kept(e) /\ ChainOf(e)' = s
  BY <1>1, <1>9, <1>10, <1>13, <1>16, <1>17, <1>18, <1>19, <1>20, <1>21, <1>22, <1>23, FileStep
<1>25. ReadFile(e)' = ReadFile(e) \o FirstSectors(root[e].name, size, Len(taken))
  <2> DEFINE text  == [i \in 1..Len(old) |-> data[old[i]]]
             added == FirstSectors(root[e].name, size, Len(taken))
  <2>1. ReadFile(e)' = [i \in 1..Len(s) |-> data'[s[i]]]
    BY <1>24, TextIs
  <2>2. ReadFile(e) = text
    BY DEF ReadFile, ChainOf, old
  <2>3. Len(text) = Len(old) /\ Len(added) = Len(taken)
    BY <1>6, <1>10 DEF FirstSectors
  <2>4. text \o added = [i \in 1..Len(s) |-> IF i <= Len(old) THEN text[i] ELSE added[i - Len(old)]]
    <3>1. Len(s) = Len(text) + Len(added) /\ Len(text) \in Nat /\ Len(added) \in Nat
      BY <2>3, <1>6, <1>10
    <3> DEFINE S == {text[i] : i \in 1..Len(text)} \cup {added[i] : i \in 1..Len(added)}
    <3>2. text \in Seq(S)
      BY <2>3, <3>1
    <3>3. added = [i \in 1..Len(taken) |-> added[i]]
      BY DEF FirstSectors
    <3> HIDE DEF text, added
    <3>4. added \in Seq(S)
      BY <2>3, <3>1, <3>3
    <3> HIDE DEF S
    <3>5. text \o added = [i \in 1..Len(text) + Len(added) |->
                             IF i <= Len(text) THEN text[i] ELSE added[i - Len(text)]]
      BY <3>2, <3>4, JoinedIs
    <3> QED
      BY <2>3, <3>1, <3>5
  <2>5. ASSUME NEW i \in 1..Len(s)
        PROVE  data'[s[i]] = IF i <= Len(old) THEN text[i] ELSE added[i - Len(old)]
    <3>1. CASE i \in 1..Len(old)
      <4>1. s[i] = old[i] /\ old[i] \in Clusters /\ In(old[i], old)
        BY <3>1, <1>3, <1>10 DEF In
      <4>2. ~In(old[i], taken)
        BY <4>1, <1>7, <1>8
      <4> QED
        BY <3>1, <4>1, <4>2, <1>21
    <3>2. ASSUME NEW j \in 1..Len(taken), i = Len(old) + j
          PROVE  data'[s[i]] = IF i <= Len(old) THEN text[i] ELSE added[i - Len(old)]
      <4>1. s[i] = taken[j] /\ i - Len(old) = j /\ ~(i <= Len(old))
        BY <3>2, <1>6, <1>10
      <4>2. added[j] = Sectors(root[e].name, size)[j]
        BY DEF FirstSectors
      <4> QED
        BY <4>1, <4>2, <1>21
    <3> QED
      BY <3>1, <3>2, <1>11
  <2> HIDE DEF text, added
  <2>6. ReadFile(e)' = text \o added
    BY <2>1, <2>4, <2>5
  <2> QED
    BY <2>2, <2>6 DEF added
<1>26. Len(taken) \in 0..SectorsOf(size)
  BY <1>5, <1>6
<1> QED
  BY <1>17, <1>20, <1>24, <1>25, <1>26

(***************************************************************************)
(* Directories.  A directory's cluster was free, so no chain reaches it;   *)
(* nothing but its creation writes its sector.                             *)
(***************************************************************************)
LEMMA CreateDirectory ==
    ASSUME FInv, NEW name \in Names, fat12_create_directory(name)
    PROVE  FInv' /\ EntryAdded(name, TRUE)
<1> DEFINE cluster == Lowest(FreeClusters(table))
           entry   == [name |-> name, dir |-> TRUE, first_cluster |-> cluster, size |-> 0]
           s       == <<cluster>>
<1>1. EntriesSound /\ NamesSound /\ MirroredTable(table)
  BY DEF FInv, ChainsInv
<1>2. /\ ~Exists(name) /\ FreeEntries # {} /\ FreeClusters(table) # {}
      /\ table' = fat12_set_fat_entry(table, cluster, EOC)
      /\ data' = [data EXCEPT ![cluster] = <<"dots", current_dir_cluster>>]
      /\ root' = [root EXCEPT ![fat12_find_free_root_entry] = entry]
      /\ UNCHANGED <<current_dir_cluster, current_path>>
  BY DEF fat12_create_directory
<1>3. PICK e \in Slots : e = fat12_find_free_root_entry /\ e \notin LiveEntries
  BY <1>2, FreeSlot
<1>4. cluster \in Clusters /\ Entry(table, cluster) = FREE
  <2>1. FreeClusters(table) \subseteq Nat
    BY ClusterNumbers DEF FreeClusters
  <2>2. cluster \in FreeClusters(table)
    BY <2>1, <1>2, LowestIn
  <2> QED
    BY <2>2 DEF FreeClusters, Entry
<1> HIDE DEF cluster
<1>5. entry \in DirectoryEntry /\ entry.name = name
  BY <1>4 DEF DirectoryEntry
<1>6. NamesSound'
  BY <1>1, <1>2, <1>5, NameAdded
<1>7. /\ EntriesSound' /\ root'[e] = entry /\ \A d \in Slots \ {e} : root'[d] = root[d]
  BY <1>1, <1>2, <1>3, <1>5 DEF EntriesSound
<1>8. e \in LiveEntries' /\ root'[e].name = name /\ root'[e].dir /\ root'[e].first_cluster = cluster /\ root'[e].size = 0
  BY <1>3, <1>7, Fat12Assumption DEF LiveEntries, Live
<1>9. s \in Seq(Clusters) /\ Len(s) = 1 /\ s[1] = cluster /\ s # <<>>
  BY <1>4
<1> HIDE DEF s, entry
<1>10. Distinct(s) /\ \A c \in Clusters : In(c, s) <=> c = cluster
  BY <1>9 DEF Distinct, In
<1>11. Owned(e) = <<>> /\ \A c \in Clusters : ~In(c, Owned(e))
  BY <1>3 DEF Owned, In
<1>12. /\ MirroredTable(table') /\ Entry(table', cluster) = EOC
       /\ \A c \in Clusters \ {cluster} : Entry(table', c) = Entry(table, c)
  <2>1. EOC \in EntryValues
    BY DEF EOC, EntryValues
  <2> QED
    BY <2>1, <1>1, <1>2, <1>4, SetOne
<1>13. IsChain(table', root'[e].first_cluster, s)
  BY <1>8, <1>9, <1>12 DEF IsChain
<1>14. /\ \A c \in Clusters : In(c, s) => In(c, Owned(e)) \/ Entry(table, c) = FREE
       /\ \A c \in Clusters : ~In(c, s) => Entry(table', c) = IF In(c, Owned(e)) THEN FREE
                                                               ELSE Entry(table, c)
  BY <1>4, <1>10, <1>11, <1>12
<1>15. /\ ChainsInv'
       /\ ChainOf(e)' = s
       /\ \A d \in Slots \ {e} : (d \in LiveEntries' <=> d \in LiveEntries)
       /\ \A d \in LiveEntries \ {e} :
             /\ ChainOf(d)' = ChainOf(d) /\ ChainOf(d) \in Seq(Clusters)
             /\ \A c \in Clusters : In(c, ChainOf(d)) => ~In(c, s)
  <2>1. ChainsInv
    BY DEF FInv
  <2>2. IF e \in LiveEntries' THEN IsChain(table', root'[e].first_cluster, s) ELSE s = <<>>
    BY <1>8, <1>13
  <2>3. MirroredTable(table') /\ EntriesSound' /\ \A d \in Slots \ {e} : root'[d] = root[d]
    BY <1>7, <1>12
  <2>4. s \in Seq(Clusters) /\ Distinct(s)
    BY <1>9, <1>10
  <2> QED
    BY <2>1, <2>2, <2>3, <2>4, <1>3, <1>8, <1>14, ChainsChange
<1>16. LiveEntries \subseteq Slots /\ LiveEntries' \subseteq Slots
  BY DEF LiveEntries
<1>17. SizeWithinChain'
  <2> SUFFICES ASSUME NEW d \in LiveEntries' PROVE (root[d].size <= Len(ChainOf(d)) * SectorSize)'
    BY DEF SizeWithinChain
  <2>1. CASE d = e
    <3>1. 0 <= Len(s) * SectorSize
      BY <1>9, Fat12Assumption
    <3>2. (root[e].size <= Len(ChainOf(e)) * SectorSize)'
      BY <3>1, <1>8, <1>15
    <3> QED
      BY <2>1, <3>2
  <2>2. CASE d # e
    BY <2>2, <1>7, <1>15, <1>16 DEF FInv, SizeWithinChain
  <2> QED
    BY <2>1, <2>2
<1>18. /\ DataSound' /\ data'[cluster][1] = "dots"
       /\ \A c \in Clusters \ {cluster} : data'[c] = data[c]
  <2>1. data = [c \in Clusters |-> data[c]]
    BY DEF FInv, DataSound
  <2> DEFINE dots == <<"dots", current_dir_cluster>>
  <2>2. dots[1] = "dots"
    OBVIOUS
  <2> HIDE DEF dots
  <2>3. data' = [c \in Clusters |-> IF c = cluster THEN dots ELSE data[c]]
    BY <2>1, <1>2 DEF dots
  <2> QED
    BY <2>2, <2>3, <1>4 DEF DataSound
<1>19. DirsSound'
  <2> SUFFICES ASSUME NEW d \in LiveEntries', root'[d].dir
               PROVE  root'[d].first_cluster \in Clusters /\ data'[root'[d].first_cluster][1] = "dots"
    BY DEF DirsSound
  <2>1. CASE d = e
    BY <2>1, <1>4, <1>8, <1>18
  <2>2. CASE d # e
    <3> DEFINE c == root[d].first_cluster
    <3>1. d \in LiveEntries /\ root'[d] = root[d]
      BY <2>2, <1>7, <1>15, <1>16
    <3>2. c \in Clusters /\ data[c][1] = "dots"
      BY <3>1 DEF FInv, DirsSound
    <3>3. IsChain(table, c, ChainOf(d)) /\ Distinct(ChainOf(d))
      BY <3>1 DEF FInv, ChainsInv, ChainSound
    <3>4. ChainOf(d) # <<>>
      BY <3>3, <3>2, ClusterNumbers DEF IsChain, EOC
    <3>5. In(c, ChainOf(d))
      <4>1. 1 \in 1..Len(ChainOf(d)) /\ ChainOf(d)[1] = c
        BY <3>3, <3>4, EmptySeq DEF IsChain
      <4> QED
        BY <4>1 DEF In
    <3>6. c # cluster
      BY <2>2, <3>1, <3>2, <3>5, <1>10, <1>15
    <3> QED
      BY <3>1, <3>2, <3>6, <1>18
  <2> QED
    BY <2>1, <2>2
<1>20. PathSound'
  <2>1. \A d \in LiveEntries : d \in LiveEntries' /\ root'[d] = root[d]
    BY <1>3, <1>7, <1>15, <1>16
  <2> QED
    BY <2>1, <1>2 DEF FInv, PathSound
<1>21. Kept(e)
  <2>1. \A c \in Clusters : ~In(c, s) => data'[c] = data[c]
    BY <1>10, <1>18
  <2>2. \A d \in LiveEntries \ {e} : root'[d].name = root[d].name /\ Contents(d)' = Contents(d)
    BY <2>1, <1>7, <1>15, <1>16, ContentsKept
  <2> QED
    BY <2>2, <1>15, <1>16 DEF Kept
<1>22. Contents(e)' = [dir |-> TRUE, text |-> <<>>]
  <2>1. root'[e].dir = TRUE
    BY <1>7 DEF entry
  <2> QED
    BY <2>1 DEF Contents
<1> QED
  BY <1>3, <1>6, <1>8, <1>15, <1>17, <1>18, <1>19, <1>20, <1>21, <1>22 DEF FInv, EntryAdded

\* The operations that only move the shell.
LEMMA DiskKept ==
    ASSUME FInv, UNCHANGED <<table, root, data>>, PathSound'
    PROVE  FInv'
<1>1. LiveEntries' = LiveEntries /\ \A e \in LiveEntries : ChainOf(e)' = ChainOf(e)
  BY DEF LiveEntries, Live, ChainOf
<1>2. EntriesSound' /\ MirroredTable(table')
  BY DEF FInv, ChainsInv, EntriesSound
<1>3. ChainSound' /\ NoneShared' /\ NoneLost'
  <2>1. ChainSound /\ NoneShared /\ NoneLost
    BY DEF FInv, ChainsInv
  <2> QED
    BY <2>1, <1>1 DEF ChainSound, NoneShared, NoneLost, In
<1>4. NamesSound' /\ SizeWithinChain' /\ DataSound' /\ DirsSound'
  BY <1>1 DEF FInv, NamesSound, SizeWithinChain, DataSound, DirsSound
<1> QED
  BY <1>2, <1>3, <1>4 DEF FInv, ChainsInv

LEMMA Change ==
    ASSUME FInv, ChangeToRoot \/ \E name \in Names : ChangeTo(name)
    PROVE  FInv'
<1>1. CASE ChangeToRoot
  <2>1. PathSound'
    BY <1>1 DEF ChangeToRoot, PathSound
  <2> QED
    BY <2>1, <1>1, DiskKept DEF ChangeToRoot
<1>2. ASSUME NEW name \in Names, ChangeTo(name) PROVE FInv'
  <2> DEFINE e == fat12_find_file(name)
  <2>1. /\ Exists(name) /\ root[e].dir
        /\ current_dir_cluster' = root[e].first_cluster
        /\ current_path' = Append(current_path, name)
        /\ UNCHANGED <<table, root, data>>
    BY <1>2 DEF ChangeTo
  <2>2. e \in LiveEntries /\ root[e].name = name
    BY <2>1, Lookup DEF FInv
  <2> HIDE DEF e
  <2>3. root[e].first_cluster \in Clusters /\ root[e].first_cluster # 0
    BY <2>1, <2>2, ClusterNumbers DEF FInv, DirsSound
  <2>4. /\ current_path' \in Seq(Names) /\ current_path' # <<>> /\ Last(current_path') = name
    <3>1. current_path \in Seq(Names)
      BY DEF FInv, PathSound
    <3> QED
      BY <3>1, <2>1 DEF Last
  <2>5. e \in LiveEntries' /\ root'[e] = root[e]
    BY <2>1, <2>2 DEF LiveEntries, Live
  <2>6. PathSound'
    BY <2>1, <2>2, <2>3, <2>4, <2>5 DEF PathSound
  <2> QED
    BY <2>1, <2>6, DiskKept
<1> QED
  BY <1>1, <1>2

LEMMA Step ==
    ASSUME FInv, Next
    PROVE  FInv'
<1>1. ASSUME NEW name \in Names, NEW size \in Sizes, fat12_write_file(name, size) PROVE FInv'
  <2>1. IsFile(name) /\ WriteEntry(fat12_find_file(name), size) /\ UNCHANGED <<current_dir_cluster, current_path>>
    BY <1>1 DEF fat12_write_file
  <2>2. fat12_find_file(name) \in LiveEntries /\ ~root[fat12_find_file(name)].dir
    BY <2>1, Lookup DEF IsFile, FInv
  <2>3. size \in Nat
    BY Fat12Assumption
  <2> QED
    BY <2>1, <2>2, <2>3, WriteStep
<1>2. ASSUME NEW name \in Names, NEW size \in Sizes, fat12_append_file(name, size) PROVE FInv'
  <2> DEFINE e == fat12_find_file(name)
  <2>1. IsFile(name) /\ UNCHANGED <<current_dir_cluster, current_path>>
    BY <1>2 DEF fat12_append_file
  <2>2. IF root[e].first_cluster < 2 THEN WriteEntry(e, size) ELSE AppendEntry(e, size)
    BY <1>2 DEF fat12_append_file
  <2>3. e \in LiveEntries /\ ~root[e].dir /\ size \in Nat
    BY <2>1, Lookup, Fat12Assumption DEF IsFile, FInv
  <2> HIDE DEF e
  <2>4. CASE root[e].first_cluster < 2
    BY <2>1, <2>2, <2>3, <2>4, WriteStep
  <2>5. CASE ~(root[e].first_cluster < 2)
    BY <2>1, <2>2, <2>3, <2>5, AppendStep
  <2> QED
    BY <2>4, <2>5
<1> QED
  BY <1>1, <1>2, CreateFile, CreateDirectory, DeleteFile, Change DEF Next

LEMMA Initially ==
    ASSUME Init
    PROVE  FInv
<1> DEFINE zeros == [b \in 0..FatBytes - 1 |-> 0]
           fresh == [name |-> Unused, dir |-> FALSE, first_cluster |-> 0, size |-> 0]
<1>1. /\ table = [fat1 |-> zeros, fat2 |-> zeros] /\ root = [e \in Slots |-> fresh]
      /\ data = [c \in Clusters |-> Blank] /\ current_dir_cluster = 0 /\ current_path = <<>>
  BY DEF Init
<1>2. zeros \in Bytes /\ \A b \in 0..FatBytes - 1 : zeros[b] = 0
  BY DEF Bytes, Byte
<1>3. fresh \in DirectoryEntry /\ fresh.name = Unused
  BY DEF DirectoryEntry
<1> HIDE DEF zeros, fresh
<1>4. MirroredTable(table)
  BY <1>1, <1>2 DEF MirroredTable, Table
<1>5. \A c \in Clusters : Entry(table, c) = FREE
  <2> SUFFICES ASSUME NEW c \in Clusters PROVE Entry(table, c) = FREE
    OBVIOUS
  <2>1. c \in 0..TotalClusters - 1
    BY FatAssumption DEF Clusters
  <2>2. Offset(c) \in 0..FatBytes - 1 /\ Offset(c) + 1 \in 0..FatBytes - 1
    BY <2>1, OffsetInTable
  <2> QED
    BY <2>2, <1>1, <1>2 DEF Entry, fat12_get_fat_entry, FREE
<1>6. EntriesSound /\ LiveEntries = {}
  BY <1>1, <1>3 DEF EntriesSound, LiveEntries, Live
<1>7. ChainsInv
  BY <1>4, <1>5, <1>6 DEF ChainsInv, ChainSound, NoneShared, NoneLost
<1>8. NamesSound /\ SizeWithinChain /\ DirsSound
  BY <1>6 DEF NamesSound, SizeWithinChain, DirsSound
<1>9. DataSound /\ PathSound
  BY <1>1 DEF DataSound, PathSound
<1> QED
  BY <1>7, <1>8, <1>9 DEF FInv

(***************************************************************************)
(* In every state of the file system the two FATs agree, the chains are    *)
(* sound, disjoint and cover the clusters in use, sizes stay within them,  *)
(* and the directory and the shell's path are sound (fat12.c).             *)
(***************************************************************************)
THEOREM FileSystemSound == Spec => []FInv
<1>1. Init => FInv
  BY Initially
<1>2. FInv /\ [Next]_vars => FInv'
  <2> SUFFICES ASSUME FInv, [Next]_vars PROVE FInv'
    OBVIOUS
  <2>1. CASE Next
    BY <2>1, Step
  <2>2. CASE UNCHANGED vars
    <3>1. UNCHANGED <<table, root, data>> /\ PathSound'
      BY <2>2 DEF vars, FInv, PathSound, LiveEntries, Live
    <3> QED
      BY <3>1, DiskKept
  <2> QED
    BY <2>1, <2>2
<1> QED
  BY <1>1, <1>2, PTL DEF Spec

(***************************************************************************)
(* FAT 2 is a copy of FAT 1 after every operation, although only the bytes *)
(* of changed entries are copied (fat12.c:114).                            *)
(***************************************************************************)
THEOREM FatsAgree == Spec => []Mirrored
<1>1. FInv => Mirrored
  BY DEF FInv, ChainsInv, MirroredTable, Mirrored
<1> QED
  BY <1>1, FileSystemSound, PTL

(***************************************************************************)
(* No size promises more bytes than the file's chain holds, also when a    *)
(* write or an append finds the disk full (fat12.c:280).                   *)
(***************************************************************************)
THEOREM SizesHold == Spec => []SizeWithinChain
<1>1. FInv => SizeWithinChain
  BY DEF FInv
<1> QED
  BY <1>1, FileSystemSound, PTL

(***************************************************************************)
(* The search by name finds each entry that was created and not deleted,   *)
(* and no other (fat12.c:81).                                              *)
(***************************************************************************)
THEOREM NothingHidden == Spec => []LookupFindsAll
<1>1. FInv => LookupFindsAll
  <2> SUFFICES ASSUME FInv PROVE LookupFindsAll
    OBVIOUS
  <2>1. EntriesSound /\ NamesSound
    BY DEF FInv, ChainsInv
  <2>2. \A e \in LiveEntries : root[e].name \in Names
    BY <2>1, SlotNumbers, EntryOfSlot DEF DirectoryEntry, LiveEntries, Live
  <2> QED
    BY <2>1, <2>2, Lookup DEF LookupFindsAll, EntriesSound
<1> QED
  BY <1>1, FileSystemSound, PTL

(***************************************************************************)
(* The shell is in the directory its path names, and no delete or write    *)
(* has taken that directory's cluster away (fat12.c:367, 465).             *)
(***************************************************************************)
THEOREM DirectoryStays == Spec => []PathNamesDirectory
<1>1. FInv => PathNamesDirectory
  BY DEF FInv, PathSound, DirsSound, PathNamesDirectory
<1> QED
  BY <1>1, FileSystemSound, PTL

LEMMA ClusterCount ==
    ASSUME NEW s \in Seq(Clusters), Distinct(s)
    PROVE  Cardinality({s[i] : i \in 1..Len(s)}) = Len(s)
<1> DEFINE T == {s[i] : i \in 1..Len(s)}
<1>1. s \in Injection(1..Len(s), T) /\ s \in Surjection(1..Len(s), T)
  <2>1. s \in [1..Len(s) -> T]
    BY LenProperties
  <2>2. \A t \in T : \E i \in 1..Len(s) : s[i] = t
    OBVIOUS
  <2> QED
    BY <2>1, <2>2 DEF Injection, IsInjective, Surjection, Distinct
<1>2. Len(s) \in Nat /\ IsFiniteSet(1..Len(s)) /\ Cardinality(1..Len(s)) = Len(s)
  BY CountTo
<1>3. s \in Bijection(1..Len(s), T)
  BY <1>1 DEF Bijection
<1> HIDE DEF T
<1>4. Cardinality(T) = Cardinality(1..Len(s))
  BY <1>2, <1>3, FS_Bijection DEF ExistsBijection
<1> QED
  BY <1>2, <1>4 DEF T

(***************************************************************************)
(* The chain of each entry has no cluster twice and ends in 0xFFF, no two  *)
(* entries share a cluster, and every other cluster is free: no sequence   *)
(* of writes, appends, full disks and deletes leaks or doubles one         *)
(* (fat12.c:120-172, 246, 326).                                            *)
(***************************************************************************)
THEOREM NothingLeaks == Spec => []ChainsPartition
<1>1. FInv => ChainsPartition
  <2> SUFFICES ASSUME FInv PROVE ChainsPartition
    OBVIOUS
  <2>1. ASSUME NEW e \in LiveEntries
        PROVE  /\ IsChain(table, root[e].first_cluster, ChainOf(e)) /\ Distinct(ChainOf(e))
               /\ ChainOf(e) \in Seq(Clusters)
               /\ \A c \in Clusters : c \in ClustersOf(e) <=> In(c, ChainOf(e))
               /\ ClustersOf(e) \subseteq Clusters
    BY DEF FInv, ChainsInv, ChainSound, IsChain, ClustersOf, In
  <2>2. ASSUME NEW e \in LiveEntries PROVE Cardinality(ClustersOf(e)) = Len(ChainOf(e))
    BY <2>1, ClusterCount DEF ClustersOf
  <2>3. ASSUME NEW e \in LiveEntries, ChainOf(e) # <<>>
        PROVE  fat12_get_fat_entry(table, Last(ChainOf(e))) = EOC
    <3>1. Len(ChainOf(e)) \in 1..Len(ChainOf(e)) /\ Last(ChainOf(e)) = ChainOf(e)[Len(ChainOf(e))]
      BY <2>1, <2>3, Bounded
    <3> QED
      BY <2>1, <3>1 DEF IsChain, Entry
  <2>4. ASSUME NEW d \in LiveEntries, NEW e \in LiveEntries, d # e
        PROVE  ClustersOf(d) \cap ClustersOf(e) = {}
    BY <2>1, <2>4 DEF FInv, ChainsInv, NoneShared
  <2>5. UNION {ClustersOf(e) : e \in LiveEntries} = Clusters \ FreeClusters(table)
    <3>1. ASSUME NEW e \in LiveEntries, NEW c \in ClustersOf(e) PROVE c \in Clusters \ FreeClusters(table)
      <4>1. c \in Clusters /\ In(c, ChainOf(e))
        BY <2>1
      <4>2. Entry(table, c) # FREE
        BY <2>1, <4>1, ChainFacts
      <4> QED
        BY <4>1, <4>2 DEF FreeClusters, Entry
    <3>2. ASSUME NEW c \in Clusters \ FreeClusters(table) PROVE \E e \in LiveEntries : c \in ClustersOf(e)
      <4>1. Entry(table, c) # FREE
        BY DEF FreeClusters, Entry
      <4> QED
        BY <4>1, <2>1 DEF FInv, ChainsInv, NoneLost
    <3> QED
      BY <3>1, <3>2
  <2> QED
    BY <2>2, <2>3, <2>4, <2>5 DEF ChainsPartition
<1> QED
  BY <1>1, FileSystemSound, PTL

-----------------------------------------------------------------------------
(***************************************************************************)
(* The refinement: what one operation does to Files.                       *)
(***************************************************************************)
LiveNames == {root[e].name : e \in LiveEntries}

FilesByName ==
    /\ Files = [name \in LiveNames |-> Files[name]]
    /\ \A e \in LiveEntries : root[e].name \in LiveNames /\ Files[root[e].name] = Contents(e)

LEMMA FilesAre == NamesSound => FilesByName
<1> SUFFICES ASSUME NamesSound PROVE FilesByName
  OBVIOUS
<1> DEFINE Named(name) == CHOOSE e \in LiveEntries : root[e].name = name
<1>1. Files = [name \in LiveNames |-> Contents(Named(name))]
  BY DEF Files, LiveNames, Contents
<1>2. ASSUME NEW e \in LiveEntries PROVE root[e].name \in LiveNames /\ Named(root[e].name) = e
  BY DEF LiveNames, NamesSound
<1> HIDE DEF Named
<1>3. ASSUME NEW e \in LiveEntries PROVE root[e].name \in LiveNames /\ Files[root[e].name] = Contents(e)
  BY <1>1, <1>2
<1> QED
  BY <1>1, <1>3 DEF FilesByName

\* The files whose entries the step leaves alone keep their place in Files.
LEMMA OthersKept ==
    ASSUME NamesSound, NamesSound', NEW e, Kept(e)
    PROVE  /\ {root[d].name : d \in LiveEntries \ {e}} = {root[d].name : d \in LiveEntries \ {e}}'
           /\ \A n \in {root[d].name : d \in LiveEntries \ {e}} : Files'[n] = Files[n]
<1> DEFINE S == LiveEntries \ {e}
<1>1. S' = S /\ \A d \in S : root'[d].name = root[d].name /\ Contents(d)' = Contents(d)
  BY DEF Kept
<1>2. \A d \in S : Files[root[d].name] = Contents(d)
  BY FilesAre DEF FilesByName
<1>3. \A d \in S' : Files'[root'[d].name] = Contents(d)'
  <2>1. FilesByName'
    BY FilesAre, PTL
  <2> QED
    BY <2>1 DEF FilesByName
<1>4. \A d \in S : Files'[root[d].name] = Files[root[d].name]
  BY <1>1, <1>2, <1>3
<1> QED
  BY <1>1, <1>4

LEMMA AddedRefines ==
    ASSUME NamesSound, NamesSound', NEW name \in Names, NEW dir \in BOOLEAN, EntryAdded(name, dir)
    PROVE  Promise!Add(name, dir)
<1>1. PICK e \in Slots : /\ e \notin LiveEntries /\ e \in LiveEntries' /\ root'[e].name = name
                         /\ Contents(e)' = [dir |-> dir, text |-> <<>>]
                         /\ Kept(e)
  BY DEF EntryAdded
<1> DEFINE blank == [dir |-> dir, text |-> <<>>]
           rest  == {root[d].name : d \in LiveEntries \ {e}}
<1>2. rest' = rest /\ \A n \in rest : Files'[n] = Files[n]
  BY <1>1, OthersKept
<1>3. rest = LiveNames
  BY <1>1 DEF LiveNames
<1>4. LiveNames' = rest \cup {name}
  <2>1. LiveNames' = rest' \cup {name}
    BY <1>1 DEF LiveNames
  <2> QED
    BY <2>1, <1>2
<1>5. name \notin rest
  BY <1>1, <1>2 DEF NamesSound
<1>6. Files = [n \in rest |-> Files[n]]
  BY <1>3, FilesAre DEF FilesByName
<1>7. Files' = [n \in rest \cup {name} |-> Files'[n]] /\ Files'[name] = blank
  <2>1. FilesByName'
    BY FilesAre, PTL
  <2> QED
    BY <2>1, <1>1, <1>4 DEF FilesByName
<1> HIDE DEF rest
<1>8. DOMAIN Files = rest
  BY <1>6
<1>9. Files' = [n \in rest \cup {name} |-> IF n = name THEN blank ELSE Files[n]]
  BY <1>2, <1>5, <1>7
<1> QED
  BY <1>5, <1>8, <1>9 DEF Promise!Add, Promise!Entries

LEMMA RemovedRefines ==
    ASSUME NamesSound, NamesSound', NEW name \in Names, EntryRemoved(name)
    PROVE  Promise!Delete(name)
<1>1. PICK e \in LiveEntries : /\ root[e].name = name /\ ~root[e].dir /\ e \notin LiveEntries' /\ Kept(e)
  BY DEF EntryRemoved
<1> DEFINE rest == {root[d].name : d \in LiveEntries \ {e}}
<1>2. rest' = rest /\ \A n \in rest : Files'[n] = Files[n]
  BY <1>1, OthersKept
<1>3. LiveNames = rest \cup {name} /\ name \notin rest
  BY <1>1 DEF LiveNames, NamesSound
<1>4. LiveNames' = rest
  <2>1. LiveNames' = rest'
    BY <1>1 DEF LiveNames
  <2> QED
    BY <2>1, <1>2
<1>5. Files = [n \in rest \cup {name} |-> Files[n]] /\ Files[name] = Contents(e)
  BY <1>1, <1>3, FilesAre DEF FilesByName
<1>6. Files' = [n \in rest |-> Files'[n]]
  <2>1. FilesByName'
    BY FilesAre, PTL
  <2> QED
    BY <2>1, <1>4 DEF FilesByName
<1> HIDE DEF rest
<1>7. DOMAIN Files = rest \cup {name}
  BY <1>5
<1>8. DOMAIN Files \ {name} = rest
  BY <1>3, <1>7
<1>9. Files' = [n \in rest |-> Files[n]]
  BY <1>2, <1>6
<1>10. ~Files[name].dir
  BY <1>1, <1>5 DEF Contents
<1> QED
  BY <1>7, <1>8, <1>9, <1>10 DEF Promise!Delete, Promise!Plain, Promise!Entries

LEMMA TextReplaced ==
    ASSUME NEW old, NEW new
    PROVE  [[dir |-> FALSE, text |-> old] EXCEPT !.text = new] = [dir |-> FALSE, text |-> new]
<1> DEFINE r == [[dir |-> FALSE, text |-> old] EXCEPT !.text = new]
<1>1. r \in [dir : {FALSE}, text : {new}]
  OBVIOUS
<1> HIDE DEF r
<1>2. r = [dir |-> r.dir, text |-> r.text] /\ r.dir = FALSE /\ r.text = new
  BY <1>1
<1> QED
  BY <1>2 DEF r

LEMMA TextChanged ==
    ASSUME NamesSound, NamesSound', EntriesSound, EntriesSound', NEW e \in LiveEntries, ~root[e].dir,
           e \in LiveEntries', root'[e].name = root[e].name, ~root'[e].dir, Kept(e), NEW text,
           ReadFile(e)' = text
    PROVE  /\ root[e].name \in DOMAIN Files /\ ~Files[root[e].name].dir
           /\ Files[root[e].name].text = ReadFile(e)
           /\ Files' = [Files EXCEPT ![root[e].name].text = text]
<1> DEFINE name == root[e].name
           rest == {root[d].name : d \in LiveEntries \ {e}}
           old  == [dir |-> FALSE, text |-> ReadFile(e)]
           new  == [dir |-> FALSE, text |-> text]
<1>1. rest' = rest /\ \A n \in rest : Files'[n] = Files[n]
  BY OthersKept
<1>2. LiveNames = rest \cup {name} /\ name \notin rest
  BY DEF LiveNames, NamesSound
<1>3. LiveNames' = rest \cup {name}
  <2>1. LiveNames' = rest' \cup {name}
    BY DEF LiveNames
  <2> QED
    BY <2>1, <1>1
<1>4. Files = [n \in rest \cup {name} |-> Files[n]] /\ Files[name] = Contents(e)
  BY <1>2, FilesAre DEF FilesByName
<1>5. Files' = [n \in rest \cup {name} |-> Files'[n]] /\ Files'[name] = Contents(e)'
  <2>1. FilesByName'
    BY FilesAre, PTL
  <2> QED
    BY <2>1, <1>3 DEF FilesByName
<1>6. root[e] \in DirectoryEntry /\ root'[e] \in DirectoryEntry
  BY SlotNumbers DEF EntriesSound
<1>7. Contents(e) = old
  <2>1. root[e].dir = FALSE
    BY <1>6 DEF DirectoryEntry
  <2> QED
    BY <2>1 DEF Contents
<1>8. Contents(e)' = new
  <2>1. root'[e].dir = FALSE
    BY <1>6 DEF DirectoryEntry
  <2> QED
    BY <2>1 DEF Contents
<1> HIDE DEF rest, name
<1>9. DOMAIN Files = rest \cup {name} /\ Files[name] = old
  BY <1>4, <1>7
<1>10. Files' = [n \in rest \cup {name} |-> IF n = name THEN new ELSE Files[n]]
  BY <1>1, <1>2, <1>5, <1>8
<1>11. [old EXCEPT !.text = text] = new
  BY TextReplaced
<1>12. Files' = [Files EXCEPT ![name] = [old EXCEPT !.text = text]]
  BY <1>4, <1>9, <1>10, <1>11
<1> HIDE DEF old, new
<1>13. Files' = [Files EXCEPT ![name].text = text]
  BY <1>9, <1>12
<1>14. old.dir = FALSE /\ old.text = ReadFile(e)
  BY DEF old
<1> QED
  BY <1>9, <1>13, <1>14 DEF name

LEMMA PrefixIs ==
    ASSUME NEW name, NEW size \in Nat, NEW n \in 0..SectorsOf(size)
    PROVE  FirstSectors(name, size, n) \in Promise!Prefixes(Sectors(name, size))
<1> DEFINE s == Sectors(name, size)
<1>1. SectorsOf(size) \in Nat
  BY SectorsHold
<1>2. Len(s) = SectorsOf(size)
  BY <1>1 DEF Sectors
<1> HIDE DEF s
<1>3. SubSeq(s, 1, n) = [i \in 1..n |-> s[i]]
  BY <1>1, <1>2 DEF SubSeq
<1>4. n \in 0..Len(s)
  BY <1>2
<1> QED
  BY <1>3, <1>4 DEF Promise!Prefixes, FirstSectors, s

LEMMA WriteRefines ==
    ASSUME FInv, NEW e \in LiveEntries, ~root[e].dir, NEW size \in Nat, WriteEntry(e, size),
           UNCHANGED <<current_dir_cluster, current_path>>
    PROVE  Promise!Write(root[e].name, size)
<1> DEFINE name == root[e].name
<1>1. /\ FInv' /\ Kept(e)
      /\ e \in LiveEntries' /\ root'[e].name = name /\ ~root'[e].dir
      /\ \E n \in 0..SectorsOf(size) : ReadFile(e)' = FirstSectors(name, size, n)
  BY WriteStep
<1>2. PICK n \in 0..SectorsOf(size) : ReadFile(e)' = FirstSectors(name, size, n)
  BY <1>1
<1> DEFINE text == FirstSectors(name, size, n)
<1>3. text \in Promise!Prefixes(Sectors(name, size))
  BY PrefixIs
<1>4. NamesSound /\ EntriesSound /\ NamesSound' /\ EntriesSound'
  BY <1>1 DEF FInv, ChainsInv
<1>5. /\ name \in DOMAIN Files /\ ~Files[name].dir
      /\ Files' = [Files EXCEPT ![name].text = text]
  <2> HIDE DEF text
  <2>1. ReadFile(e)' = text
    BY <1>2 DEF text
  <2> QED
    BY <2>1, <1>1, <1>4, TextChanged
<1> HIDE DEF text, name
<1>6. Promise!Write(name, size)
  BY <1>3, <1>5 DEF Promise!Write, Promise!Plain, Promise!Entries
<1> QED
  BY <1>6 DEF name

LEMMA AppendRefines ==
    ASSUME FInv, NEW e \in LiveEntries, ~root[e].dir, ~(root[e].first_cluster < 2),
           NEW size \in Nat, AppendEntry(e, size), UNCHANGED <<current_dir_cluster, current_path>>
    PROVE  Promise!Extend(root[e].name, size)
<1> DEFINE name == root[e].name
<1>1. /\ FInv' /\ Kept(e)
      /\ e \in LiveEntries' /\ root'[e].name = name /\ ~root'[e].dir
      /\ \E n \in 0..SectorsOf(size) : ReadFile(e)' = ReadFile(e) \o FirstSectors(name, size, n)
  BY AppendStep
<1>2. PICK n \in 0..SectorsOf(size) : ReadFile(e)' = ReadFile(e) \o FirstSectors(name, size, n)
  BY <1>1
<1> DEFINE added == FirstSectors(name, size, n)
           text  == ReadFile(e) \o added
<1>3. added \in Promise!Prefixes(Sectors(name, size))
  BY PrefixIs
<1>4. NamesSound /\ EntriesSound /\ NamesSound' /\ EntriesSound'
  BY <1>1 DEF FInv, ChainsInv
<1>5. /\ name \in DOMAIN Files /\ ~Files[name].dir /\ Files[name].text = ReadFile(e)
      /\ Files' = [Files EXCEPT ![name].text = text]
  BY <1>1, <1>2, <1>4, TextChanged
<1> HIDE DEF added, name
<1>6. Files' = [Files EXCEPT ![name].text = @ \o added]
  BY <1>5
<1>7. Promise!Extend(name, size)
  BY <1>3, <1>5, <1>6 DEF Promise!Extend, Promise!Plain, Promise!Entries
<1> QED
  BY <1>7 DEF name

LEMMA StepRefines ==
    ASSUME FInv, FInv', [Next]_vars
    PROVE  [Promise!Next(Sizes)]_Files
<1>1. NamesSound /\ NamesSound'
  BY DEF FInv
<1>2. ASSUME NEW name \in Names, NEW dir \in BOOLEAN, EntryAdded(name, dir) PROVE Promise!Next(Sizes)
  BY <1>1, <1>2, AddedRefines DEF Promise!Next
<1>3. ASSUME NEW name \in Names, fat12_delete_file(name) PROVE Promise!Next(Sizes)
  BY <1>1, <1>3, DeleteFile, RemovedRefines DEF Promise!Next
<1>4. ASSUME NEW name \in Names, IsFile(name)
      PROVE  /\ fat12_find_file(name) \in LiveEntries /\ ~root[fat12_find_file(name)].dir
             /\ root[fat12_find_file(name)].name = name
  BY <1>1, <1>4, Lookup DEF IsFile
<1>5. ASSUME NEW name \in Names, NEW size \in Sizes, fat12_write_file(name, size)
      PROVE  Promise!Next(Sizes)
  <2> DEFINE e == fat12_find_file(name)
  <2>1. IsFile(name) /\ WriteEntry(e, size) /\ UNCHANGED <<current_dir_cluster, current_path>>
    BY <1>5 DEF fat12_write_file
  <2>2. size \in Nat
    BY Fat12Assumption
  <2>3. Promise!Write(name, size)
    BY <2>1, <2>2, <1>4, WriteRefines
  <2> QED
    BY <2>3 DEF Promise!Next
<1>6. ASSUME NEW name \in Names, NEW size \in Sizes, fat12_append_file(name, size)
      PROVE  Promise!Next(Sizes)
  <2> DEFINE e == fat12_find_file(name)
  <2>1. IsFile(name) /\ UNCHANGED <<current_dir_cluster, current_path>>
    BY <1>6 DEF fat12_append_file
  <2>2. IF root[e].first_cluster < 2 THEN WriteEntry(e, size) ELSE AppendEntry(e, size)
    BY <1>6 DEF fat12_append_file
  <2>3. e \in LiveEntries /\ ~root[e].dir /\ root[e].name = name /\ size \in Nat
    BY <2>1, <1>4, Fat12Assumption
  <2> HIDE DEF e
  <2>4. Promise!Write(name, size) \/ Promise!Extend(name, size)
    BY <2>1, <2>2, <2>3, WriteRefines, AppendRefines
  <2> QED
    BY <2>4 DEF Promise!Next
<1>7. ASSUME UNCHANGED <<table, root, data>> PROVE UNCHANGED Files
  BY <1>7 DEF Files, LiveEntries, Live, ReadFile
<1>8. CASE Next
  <2>1. ASSUME NEW name \in Names, fat12_create_file(name) PROVE Promise!Next(Sizes)
    BY <2>1, <1>2, CreateFile
  <2>2. ASSUME NEW name \in Names, fat12_create_directory(name) PROVE Promise!Next(Sizes)
    BY <2>2, <1>2, CreateDirectory
  <2>3. ASSUME NEW name \in Names, ChangeTo(name) PROVE UNCHANGED Files
    BY <2>3, <1>7 DEF ChangeTo
  <2>4. ASSUME ChangeToRoot PROVE UNCHANGED Files
    BY <2>4, <1>7 DEF ChangeToRoot
  <2> QED
    BY <2>1, <2>2, <2>3, <2>4, <1>3, <1>5, <1>6, <1>8 DEF Next
<1>9. CASE UNCHANGED vars
  BY <1>7, <1>9 DEF vars
<1> QED
  BY <1>8, <1>9

LEMMA FirstRefines ==
    ASSUME Init
    PROVE  Promise!Init
<1>1. LiveEntries = {}
  BY DEF Init, LiveEntries, Live
<1>2. Files = [n \in {} |-> [dir |-> FALSE, text |-> <<>>]]
  BY <1>1 DEF Files
<1> QED
  BY <1>2 DEF Promise!Init

(***************************************************************************)
(* The packed table, the chains and the root directory implement           *)
(* FileStore: an operation on one file never changes the text of another,  *)
(* and the file itself holds the data in order, cut short at most at a     *)
(* sector (fat12.c:246-380).                                               *)
(***************************************************************************)
THEOREM FilesKeepTheirText == Spec => ImplementsFileStore
<1>1. Init => Promise!Init
  BY FirstRefines
<1>2. FInv /\ FInv' /\ [Next]_vars => [Promise!Next(Sizes)]_Files
  BY StepRefines
<1>3. Spec => []FInv
  BY FileSystemSound
<1> QED
  BY <1>1, <1>2, <1>3, PTL DEF Spec, ImplementsFileStore

=============================================================================
