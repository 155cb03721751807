------------------------------ MODULE MCShell ------------------------------
(***************************************************************************)
(* The console on a screen of three rows of four columns: a line of three  *)
(* letters behind the prompt reaches the end of a row.                     *)
(***************************************************************************)
EXTENDS Shell

MCPrompt == <<">">>
MCRedrawPrompt == <<"m", ">">>

=============================================================================
