---------------------------- MODULE MCWorkQueue ----------------------------
(***************************************************************************)
(* Instances of WorkQueue for TLC.                                         *)
(***************************************************************************)
EXTENDS WorkQueue

CONSTANTS w1, w2, w3

\* The process schedules two works; work functions schedule a third one.
DisjointProducers == [t \in Threads |-> IF t = Caller THEN {w1, w2} ELSE {w3}]

(***************************************************************************)
(* A local is dead where the thread writes it before it reads it again, so *)
(* states that differ only there have the same future.                     *)
(***************************************************************************)
LiveAt ==
    [arg    |-> {"add_read", "add_head_prev", "add_next", "add_prev", "add_link",
                 "set_pending", "flush"},
     work   |-> Labels \ {"idle", "flush", "loop"},
     before |-> {"add_head_prev", "add_next", "add_prev", "add_link", "del_prev", "del_next"},
     after  |-> {"del_read_prev", "del_prev", "del_next"},
     count  |-> {"inc_store", "dec_store"},
     pc     |-> Labels]

LiveState ==
    <<mem, log, [t \in Threads |-> [f \in DOMAIN LiveAt |->
        IF local[t].pc \in LiveAt[f] THEN <<local[t][f]>> ELSE <<>>]]>>
=============================================================================
