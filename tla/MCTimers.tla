------------------------------ MODULE MCTimers ------------------------------
(***************************************************************************)
(* Timers on two kernel timers, two processes that call timer.c, and       *)
(* counters that wrap at 4.  The calls of ktimer.c and those of timer.c    *)
(* share the clock and nothing else: TLC looks at the one kind and at the  *)
(* other, each against the interrupt, and not at both in one behaviour.    *)
(***************************************************************************)
EXTENDS Timers

\* Whose calls are made.
VARIABLE scope

MCInit == Init /\ scope \in {"ktimer", "timer"}

MCNext ==
    /\ Next
    /\ scope = "ktimer" => UNCHANGED callers
    /\ scope = "timer" => UNCHANGED proc
    /\ UNCHANGED scope

MCSpec == MCInit /\ [][MCNext]_<<vars, scope>> /\ WF_vars(Handler)

=============================================================================
