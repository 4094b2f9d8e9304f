-------------------------- MODULE MCControlSystem --------------------------
(***************************************************************************)
(* Small instances of ControlSystem for TLC.                               *)
(***************************************************************************)
EXTENDS ControlSystem, TLC

\* Pages, hosts and machines are interchangeable (safety runs only).
MCSymmetry == Permutations(WebClients) \cup Permutations(Hosts) \cup Permutations(Machines)
=============================================================================
