------------------------------- MODULE KeySet -------------------------------
(***************************************************************************)
(* What the index promises: it is a set of keys, and one call adds or      *)
(* removes one key.                                                        *)
(***************************************************************************)
CONSTANTS Keys

VARIABLES keys

KInit == keys = {}

Insertion(k, old, new) == k \notin old /\ new = old \cup {k}

Removal(k, old, new) == k \in old /\ new = old \ {k}

KNext ==
    \E old \in {keys}, new \in {keys'} :
        \E k \in Keys : Insertion(k, old, new) \/ Removal(k, old, new)

KSpec == KInit /\ [][KNext]_keys
=============================================================================
