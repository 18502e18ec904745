---------------------------- MODULE MCComposeBackup ----------------------------
(* Small instances of ComposeBackup for TLC. *)
EXTENDS ComposeBackup, TLC

(* Processes and messages are only told apart by what happens to them. *)
Symmetry == Permutations(Pids) \cup Permutations(Msgs)
=============================================================================
