----------------------------- MODULE MCMissHook -----------------------------
(***************************************************************************)
(* Model checking of the callbacks: the keys are interchangeable.          *)
(***************************************************************************)
EXTENDS MissHook, TLC

KeySymmetry == Permutations(Keys)
=============================================================================
