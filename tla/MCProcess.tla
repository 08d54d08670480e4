----------------------------- MODULE MCProcess -----------------------------
(***************************************************************************)
(* Values of the constants of RoundRobin for TLC.                            *)
(***************************************************************************)
EXTENDS RoundRobin

\* One that create_process_burst raises to 1, so that a process completes
\* between two turns of a longer one, and a proper one; the default of
\* create_process, 5, comes on top.
MCBursts == {-1, 2}
=============================================================================
