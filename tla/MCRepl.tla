------------------------------- MODULE MCRepl -------------------------------
(* Instances of Repl for TLC. *)
EXTENDS Repl, TLC

ReplSymmetry == Permutations(Threads) \cup Permutations(Entries)
=============================================================================
