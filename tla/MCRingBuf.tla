----------------------------- MODULE MCRingBuf -----------------------------
(* Instances of RingBuf for TLC. *)
EXTENDS RingBuf, TLC

RingBufSymmetry ==
    Permutations(Producers) \cup Permutations(Consumers) \cup Permutations(Entries)
=============================================================================
