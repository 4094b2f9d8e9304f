-------------------------- MODULE MCTerminalHosts --------------------------
(***************************************************************************)
(* Small instances of TerminalHosts for TLC.                               *)
(***************************************************************************)
EXTENDS TerminalHosts, TLC

\* Connections are interchangeable (safety runs only).
MCSymmetry == Permutations(Hosts)
=============================================================================
