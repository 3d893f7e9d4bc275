---------------------------- MODULE MCRunControl ----------------------------
(* RunControl for TLC: two processors and an instruction that may have a   *)
(* breakpoint.                                                             *)
EXTENDS RunControl

\* Bound: nothing happens to the main loop once a breakpoint has been set.
OneAtATime == events' = 0 \/ (m_bps' = {} /\ bps' = All({}) /\ told' = All(kNone))

\* Bound: an earlier process has left a state file.
MCInit == Init /\ file = "whole"

MCNext == Next /\ OneAtATime

MCSpec == MCInit /\ [][MCNext]_vars /\ Fairness
=============================================================================
