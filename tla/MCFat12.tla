------------------------------ MODULE MCFat12 ------------------------------
(***************************************************************************)
(* Fat12 on a disk of four clusters with two root entries.                 *)
(***************************************************************************)
EXTENDS Fat12

(***************************************************************************)
(* The sector of a free cluster is overwritten before it is read, and the  *)
(* fields of an entry that is not live before they are: states that differ *)
(* only there have the same future.                                        *)
(***************************************************************************)
LiveState ==
    <<table, current_dir_cluster, current_path,
      [e \in Slots |-> IF Live(e) THEN root[e] ELSE [name |-> root[e].name]],
      [c \in Clusters |-> IF c \in FreeClusters(table) THEN Blank ELSE data[c]]>>
=============================================================================
