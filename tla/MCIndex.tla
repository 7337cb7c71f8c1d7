------------------------------ MODULE MCIndex ------------------------------
(* An instance of Index for TLC. *)
EXTENDS Index, TLC

CONSTANT BITS   \* of a slice

Symmetry == Permutations(Addrs)

\* A number as the slices of a byte.
Byte(n) == [b \in Bits |-> (n \div 2 ^ (BITS * b)) % 2 ^ BITS]

Numbers(s) == [i \in 1 .. Len(s) |-> Byte(s[i])]

\* Keys of three lengths: an empty one, two that differ in either half of a
\* byte, and three where shorter ones would be a prefix if the size were not
\* part of the key.
SomeKeys == {Numbers(s) : s \in {<<0>>, <<1, 5>>, <<1, 6>>, <<1, 15>>, <<2, 5, 15>>}}

\* All long keys in one shard.
ByLength == [k \in Keys |-> IF Len(k) = 1 THEN 0 ELSE 1]
=============================================================================
