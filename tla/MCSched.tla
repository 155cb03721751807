------------------------------ MODULE MCSched ------------------------------
(***************************************************************************)
(* Sched on small instances: the .cfg files choose the slots, pids,       *)
(* priorities and signals for each question.                              *)
(***************************************************************************)
EXTENDS Sched

\* A priority is read only for the slice it gives, and a free slot other than the
\* current process is zeroed before it is used again: states that differ in nothing
\* else are the same.
LiveState ==
    <<[s \in Slots |-> IF s \in QueueSet \cup {current_process}
                      THEN [pcb[s] EXCEPT !.priority = calculate_time_slice(@)]
                      ELSE ZeroPCB],
      ready_queue, current_process, freelist, next_pid, cpu_stack, fault>>
=============================================================================
