----------------------------- MODULE FileStore -----------------------------
(***************************************************************************)
(* What the file operations of fs/fat12.c promise their caller: a flat     *)
(* directory of named files and subdirectories.  A write replaces the text *)
(* of one file and an append extends it, by all of the data or, when the   *)
(* disk is full, by its first sectors; nothing else changes.               *)
(***************************************************************************)
EXTENDS Integers, Sequences, FiniteSets

CONSTANTS
    Names,
    Sectors(_, _)   \* Sectors(name, size): the data of a call, cut into sectors

VARIABLE files      \* by name: whether it is a directory, and its text

Entries == DOMAIN files

Plain(name) == name \in Entries /\ ~files[name].dir

Prefixes(s) == {SubSeq(s, 1, n) : n \in 0..Len(s)}

Add(name, dir) ==
    /\ name \notin Entries
    /\ files' = [n \in Entries \cup {name} |->
                   IF n = name THEN [dir |-> dir, text |-> <<>>] ELSE files[n]]

Write(name, size) ==
    /\ Plain(name)
    /\ \E text \in Prefixes(Sectors(name, size)) : files' = [files EXCEPT ![name].text = text]

Extend(name, size) ==
    /\ Plain(name)
    /\ \E text \in Prefixes(Sectors(name, size)) :
          files' = [files EXCEPT ![name].text = @ \o text]

Delete(name) ==
    /\ Plain(name)
    /\ files' = [n \in Entries \ {name} |-> files[n]]

Init == files = [n \in {} |-> [dir |-> FALSE, text |-> <<>>]]

Next(sizes) ==
    \E name \in Names :
        \/ \E dir \in BOOLEAN : Add(name, dir)
        \/ \E size \in sizes : Write(name, size) \/ Extend(name, size)
        \/ Delete(name)
=============================================================================
