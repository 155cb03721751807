------------------------------- MODULE Fat12 -------------------------------
(***************************************************************************)
(* The FAT12 file system on the RAM disk, fs/fat12.c.                      *)
(*                                                                         *)
(* Only the shell calls it, so every function is one step.  A function     *)
(* with a loop over sectors sets FAT entries in a certain order: the step  *)
(* applies those settings, one after the other, to the bytes of the table. *)
(* Functions that only read (read_file, get_file_size, file_exists,        *)
(* get_free_space, list_directory) are operators; names that do not parse  *)
(* as 8.3 change nothing and are left out.                                 *)
(*                                                                         *)
(* A sector's contents are told apart by the file they were written for,   *)
(* their place in that call's data and how many bytes precede the zeros.   *)
(*                                                                         *)
(* MaxPath stands for no test of the code: each cd appends to current_path *)
(* (fat12.c:468-471) whatever its length, and what happens once its 256    *)
(* bytes are full is outside the model.                                    *)
(***************************************************************************)
EXTENDS FatTable, Sequences, FiniteSets, SequencesExt

CONSTANTS
    RootEntries,    \* ROOT_ENTRIES
    SectorSize,     \* SECTOR_SIZE
    Names,          \* 11-byte names
    Sizes,          \* sizes of the data written
    MaxPath         \* bound: components of current_path; the code has none

Unused  == "0x00"       \* first byte of a name: end of the directory
Deleted == "0xE5"

\* Cluster numbers end below 0xFF8, where the marks of a chain's end begin.
\* Names are typed: none begins with one of the directory's two marks.
ASSUME Fat12Assumption ==
    /\ TotalClusters <= 4088
    /\ Names \cap {Unused, Deleted} = {}
    /\ RootEntries \in Nat
    /\ SectorSize \in Nat \ {0}
    /\ Sizes \subseteq Nat
    /\ MaxPath \in Nat

VARIABLES
    table,                  \* FAT 1 and FAT 2
    root,                   \* the root directory
    data,                   \* the sector of each cluster
    current_dir_cluster,
    current_path

vars == <<table, root, data, current_dir_cluster, current_path>>

Clusters == 2..TotalClusters - 1
Slots    == 1..RootEntries

Live(e) == root[e].name \notin {Unused, Deleted}

DirectoryEntry == [name : Names \cup {Unused, Deleted}, dir : BOOLEAN,
                   first_cluster : {0} \cup Clusters, size : Nat]

Blank == <<"blank">>

-----------------------------------------------------------------------------
(***************************************************************************)
(* Helpers.                                                                *)
(***************************************************************************)
SetEntries(t, settings) ==
    LET after[n \in 0..Len(settings)] ==
            IF n = 0 THEN t
            ELSE fat12_set_fat_entry(after[n - 1], settings[n][1], settings[n][2])
    IN  after[Len(settings)]

\* The clusters visited from first until an entry is not a cluster number.
Chain(t, first) ==
    LET walk[steps \in 0..TotalClusters] ==
            [c \in EntryValues |->
                IF steps = 0 \/ c < 2 \/ c >= 4088 THEN <<>>
                ELSE <<c>> \o walk[steps - 1][fat12_get_fat_entry(t, c)]]
    IN  walk[TotalClusters][first]

\* Mutant of FreeChain: the first cluster of the chain is not freed.
FreeChainButFirst(t, first) ==
    LET chain == Chain(t, first)
    IN  IF chain = <<>> THEN t
        ELSE SetEntries(t, [i \in 1..Len(chain) - 1 |-> <<chain[i + 1], FREE>>])

\* fat12_free_cluster_chain
FreeChain(t, first) ==
    LET chain == Chain(t, first)
    IN  SetEntries(t, [i \in 1..Len(chain) |-> <<chain[i], FREE>>])

FreeClusters(t) == {c \in Clusters : fat12_get_fat_entry(t, c) = FREE}

(***************************************************************************)
(* A loop that asks fat12_find_free_cluster for a cluster and marks it     *)
(* gets the free clusters in ascending order, until there are no more.     *)
(***************************************************************************)
Grab(t, count) ==
    LET free  == FreeClusters(t)
        found == Cardinality(free)
    IN  [i \in 1..(IF count < found THEN count ELSE found) |->
            CHOOSE c \in free : Cardinality({d \in free : d <= c}) = i]

\* Mutant of Links: current_cluster does not move on.
LinksForgetCurrent(last, taken) ==
    [k \in 1..2 * Len(taken) |->
        LET i == (k + 1) \div 2 IN IF k % 2 = 0 THEN <<taken[i], EOC>> ELSE <<last, taken[i]>>]

\* Each cluster taken is linked behind the one before it and ends the chain.
Links(last, taken) ==
    [k \in 1..2 * Len(taken) |->
        LET i == (k + 1) \div 2
        IN  IF k % 2 = 0 THEN <<taken[i], EOC>>
            ELSE <<IF i = 1 THEN last ELSE taken[i - 1], taken[i]>>]

SectorsOf(size) == (size + SectorSize - 1) \div SectorSize

\* The data of a call, cut into sectors.
Sectors(name, size) ==
    [i \in 1..SectorsOf(size) |->
        <<name, i, IF i * SectorSize <= size THEN SectorSize ELSE size % SectorSize>>]

\* The first of the data's sectors go to the clusters taken.
Store(taken, sectors) ==
    [c \in Clusters |-> IF \E i \in 1..Len(taken) : taken[i] = c
                        THEN sectors[CHOOSE i \in 1..Len(taken) : taken[i] = c]
                        ELSE data[c]]

Lowest(S) == CHOOSE e \in S : \A other \in S : e <= other

\* The search stops at the first entry that was never used.
Matches(name) ==
    {e \in Slots : root[e].name = name /\ \A i \in 1..e - 1 : root[i].name # Unused}

Exists(name) == Matches(name) # {}

fat12_find_file(name) == Lowest(Matches(name))

FreeEntries == {e \in Slots : ~Live(e)}

fat12_find_free_root_entry == Lowest(FreeEntries)

IsFile(name) == Exists(name) /\ ~root[fat12_find_file(name)].dir

\* What fat12_read_file copies: the whole of the chain.
ReadFile(e) ==
    LET chain == Chain(table, root[e].first_cluster)
    IN  [i \in 1..Len(chain) |-> data[chain[i]]]

-----------------------------------------------------------------------------
(***************************************************************************)
(* Operations.                                                             *)
(***************************************************************************)
fat12_create_file(name) ==
    /\ ~Exists(name)
    /\ FreeEntries # {}
    /\ root' = [root EXCEPT ![fat12_find_free_root_entry] =
                  [name |-> name, dir |-> FALSE, first_cluster |-> 0, size |-> 0]]
    /\ UNCHANGED <<table, data, current_dir_cluster, current_path>>

\* Mutant of WrittenSize: a partial write records the size asked for.
WrittenSizeAsked(size, taken) == size

WrittenSize(size, taken) ==
    IF Len(taken) < SectorsOf(size) THEN Len(taken) * SectorSize ELSE size

\* The old chain is freed before the first cluster is looked for; when none is
\* found the size is left as it was.
WriteEntry(e, size) ==
    \E freed \in {FreeChain(table, root[e].first_cluster)} :
    \E taken \in {Grab(freed, SectorsOf(size))} :
        /\ table' = IF taken = <<>> THEN freed
                    ELSE SetEntries(fat12_set_fat_entry(freed, taken[1], EOC),
                                    Links(taken[1], Tail(taken)))
        /\ data' = Store(taken, Sectors(root[e].name, size))
        /\ root' = [root EXCEPT
              ![e].first_cluster = IF taken = <<>> THEN 0 ELSE taken[1],
              ![e].size = IF taken = <<>> /\ size # 0 THEN @ ELSE WrittenSize(size, taken)]

fat12_write_file(name, size) ==
    /\ IsFile(name)
    /\ WriteEntry(fat12_find_file(name), size)
    /\ UNCHANGED <<current_dir_cluster, current_path>>

\* The data starts in a new cluster; on a full disk the clusters linked so far
\* stay and the size is not changed.
AppendEntry(e, size) ==
    \E chain \in {Chain(table, root[e].first_cluster)} :
    \E taken \in {Grab(table, SectorsOf(size))} :
        /\ table' = SetEntries(table, Links(Last(chain), taken))
        /\ data' = Store(taken, Sectors(root[e].name, size))
        /\ root' = IF Len(taken) < SectorsOf(size) THEN root
                   ELSE [root EXCEPT ![e].size = @ + size]

fat12_append_file(name, size) ==
    /\ IsFile(name)
    /\ IF root[fat12_find_file(name)].first_cluster < 2
       THEN WriteEntry(fat12_find_file(name), size)
       ELSE AppendEntry(fat12_find_file(name), size)
    /\ UNCHANGED <<current_dir_cluster, current_path>>

\* Mutant of fat12_delete_file: the entry becomes the end of the directory.
DeleteEndsDirectory(name) ==
    /\ IsFile(name)
    /\ table' = FreeChain(table, root[fat12_find_file(name)].first_cluster)
    /\ root' = [root EXCEPT ![fat12_find_file(name)].name = Unused]
    /\ UNCHANGED <<data, current_dir_cluster, current_path>>

\* Mutant of fat12_delete_file: directories are deleted like files.
DeleteAnything(name) ==
    /\ Exists(name)
    /\ table' = FreeChain(table, root[fat12_find_file(name)].first_cluster)
    /\ root' = [root EXCEPT ![fat12_find_file(name)].name = Deleted]
    /\ UNCHANGED <<data, current_dir_cluster, current_path>>

fat12_delete_file(name) ==
    /\ IsFile(name)
    /\ table' = FreeChain(table, root[fat12_find_file(name)].first_cluster)
    /\ root' = [root EXCEPT ![fat12_find_file(name)].name = Deleted]
    /\ UNCHANGED <<data, current_dir_cluster, current_path>>

\* The entry goes to the root directory wherever the shell is; its ".." names
\* the directory the shell is in.
fat12_create_directory(name) ==
    /\ ~Exists(name)
    /\ FreeEntries # {}
    /\ FreeClusters(table) # {}
    /\ \E cluster \in {Lowest(FreeClusters(table))} :
          /\ table' = fat12_set_fat_entry(table, cluster, EOC)
          /\ data' = [data EXCEPT ![cluster] = <<"dots", current_dir_cluster>>]
          /\ root' = [root EXCEPT ![fat12_find_free_root_entry] =
                        [name |-> name, dir |-> TRUE, first_cluster |-> cluster, size |-> 0]]
    /\ UNCHANGED <<current_dir_cluster, current_path>>

\* "/", and "..", which always goes back to the root.
ChangeToRoot ==
    /\ current_dir_cluster' = 0
    /\ current_path' = <<>>
    /\ UNCHANGED <<table, root, data>>

\* The third conjunct is the bound, not the code's.
ChangeTo(name) ==
    /\ Exists(name)
    /\ root[fat12_find_file(name)].dir
    /\ Len(current_path) < MaxPath
    /\ current_dir_cluster' = root[fat12_find_file(name)].first_cluster
    /\ current_path' = Append(current_path, name)
    /\ UNCHANGED <<table, root, data>>

-----------------------------------------------------------------------------
\* The RAM disk as it is loaded: the sectors the code takes for the FATs and
\* the root directory lie in a part of the image that is all zeros.
Init ==
    /\ table = [fat1 |-> [b \in 0..FatBytes - 1 |-> 0], fat2 |-> [b \in 0..FatBytes - 1 |-> 0]]
    /\ root = [e \in Slots |->
                 [name |-> Unused, dir |-> FALSE, first_cluster |-> 0, size |-> 0]]
    /\ data = [c \in Clusters |-> Blank]
    /\ current_dir_cluster = 0
    /\ current_path = <<>>

Next ==
    \/ \E name \in Names :
          \/ fat12_create_file(name)
          \/ fat12_create_directory(name)
          \/ fat12_delete_file(name)
          \/ ChangeTo(name)
          \/ \E size \in Sizes : fat12_write_file(name, size) \/ fat12_append_file(name, size)
    \/ ChangeToRoot

Spec == Init /\ [][Next]_vars

-----------------------------------------------------------------------------
(***************************************************************************)
(* Properties.                                                             *)
(***************************************************************************)
LiveEntries == {e \in Slots : Live(e)}

ChainOf(e) == Chain(table, root[e].first_cluster)

ClustersOf(e) == {ChainOf(e)[i] : i \in 1..Len(ChainOf(e))}

\* FAT 2 is a copy of FAT 1 after every operation (fat12.c:114, "mirror to
\* second FAT"), although only the bytes of changed entries are copied.
Mirrored == table.fat2 = table.fat1

(***************************************************************************)
(* Whatever was written, appended, cut short by a full disk and deleted    *)
(* before: the chain of each entry has no cluster twice and ends in 0xFFF, *)
(* no two entries share a cluster, and a cluster in no chain is free, so   *)
(* no space leaks.                                                         *)
(***************************************************************************)
ChainsPartition ==
    /\ \A e \in LiveEntries :
          /\ Cardinality(ClustersOf(e)) = Len(ChainOf(e))
          /\ ChainOf(e) # <<>> => fat12_get_fat_entry(table, Last(ChainOf(e))) = EOC
    /\ \A d, e \in LiveEntries : d # e => ClustersOf(d) \cap ClustersOf(e) = {}
    /\ UNION {ClustersOf(e) : e \in LiveEntries} = Clusters \ FreeClusters(table)

(***************************************************************************)
(* The size of a file never promises more than its chain holds, so that a  *)
(* reader of size bytes gets bytes fat12_read_file has copied.  A write    *)
(* that finds no cluster leaves the old size behind (fat12.c:280): that is *)
(* sound because it can only happen to a file that had none.               *)
(***************************************************************************)
SizeWithinChain ==
    \A e \in LiveEntries : root[e].size <= Len(ChainOf(e)) * SectorSize

(***************************************************************************)
(* The search by name finds every entry that was created and not deleted:  *)
(* names are unique, and none is hidden behind an end-of-directory mark    *)
(* (fat12.c:81), however entries are deleted and reused; and the search    *)
(* reads a directory_entry_t in every slot it passes.                      *)
(***************************************************************************)
LookupFindsAll ==
    /\ root \in [Slots -> DirectoryEntry]
    /\ \A e \in LiveEntries : Exists(root[e].name) /\ fat12_find_file(root[e].name) = e

(***************************************************************************)
(* The path the shell shows ends in the name of the directory it is in,    *)
(* and that directory still exists: no delete or write takes its cluster   *)
(* away (fat12.c:367, 465).  All this while current_path fits its 256      *)
(* bytes: the code does not check that it does (MaxPath).                  *)
(***************************************************************************)
PathNamesDirectory ==
    /\ current_path = <<>> <=> current_dir_cluster = 0
    /\ current_path # <<>> =>
          \E e \in LiveEntries : /\ root[e].name = Last(current_path)
                                 /\ root[e].dir
                                 /\ root[e].first_cluster = current_dir_cluster
                                 /\ data[current_dir_cluster][1] = "dots"

\* The files as a caller of fat12_read_file sees them.
Files ==
    [name \in {root[e].name : e \in LiveEntries} |->
        LET e == CHOOSE e \in LiveEntries : root[e].name = name
        IN  [dir |-> root[e].dir, text |-> IF root[e].dir THEN <<>> ELSE ReadFile(e)]]

Promise == INSTANCE FileStore WITH files <- Files

(***************************************************************************)
(* The operations on the packed table, the chains and the root directory   *)
(* implement FileStore: an operation on one file never changes the text of *)
(* another, and the file itself holds the data in order, cut short at most *)
(* at a sector.                                                            *)
(***************************************************************************)
ImplementsFileStore == Promise!Init /\ [][Promise!Next(Sizes)]_Files
=============================================================================
