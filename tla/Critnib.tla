------------------------------ MODULE Critnib ------------------------------
(***************************************************************************)
(* The radix tree of critnib.c, as nodes in memory.  A node branches on    *)
(* one slice of one byte of the key; what is in between is not stored, so  *)
(* that a lookup has to compare the whole key at the leaf.                 *)
(*                                                                         *)
(* A key is the sequence of the bytes that critnib sees: the size of the   *)
(* user's key first, then the key.  A byte is a function from the number   *)
(* of a slice (0 is the lowest) to its value.                              *)
(***************************************************************************)
EXTENDS Integers, Sequences, FiniteSets

CONSTANTS
    SLNODES,   \* values of a slice
    SLICES,    \* slices of a byte
    Keys,
    Addrs,     \* where nodes may be
    Null

Slots == 0 .. SLNODES - 1
Bits == 0 .. SLICES - 1
Bytes == [Bits -> Slots]

\* The size that comes first keeps a key from being a prefix of a longer one.
ASSUME CritnibAssumption ==
    /\ SLNODES \in Nat \ {0} /\ SLICES \in Nat \ {0}
    /\ Keys \subseteq Seq(Bytes) \ {<<>>}
    /\ \A k, l \in Keys : Len(k) < Len(l) => \E j \in 1 .. Len(k) : k[j] # l[j]
    /\ Keys \cap Addrs = {} /\ Null \notin Keys \cup Addrs

\* A child pointer is NULL, a tagged pointer to the entry of a key, or a node.
Ptrs == {Null} \cup Keys \cup Addrs

EmptyTree == [root |-> Null, node |-> [a \in {} |-> Null]]

NodesOf(T) == DOMAIN T.node

slice_index(byte, bit) == byte[bit]

\* The slot of node n on the path of key.
Slot(T, n, key) == slice_index(key[T.node[n].byte + 1], T.node[n].bit)

Child(T, n, key) == T.node[n].child[Slot(T, n, key)]

----------------------------------------------------------------------------
(* Descents *)

\* n steps of function step from s.
Walk(step, s, n) ==
    LET at[d \in 0 .. n] == IF d = 0 THEN s ELSE step[at[d - 1]] IN at[n]

\* A pointer to a pointer is a node and a slot, or Top for the root.
Top == <<Null, 0>>
Places(T) == {Top} \cup (NodesOf(T) \X Slots)

At(T, p) == IF p = Top THEN T.root ELSE T.node[p[1]].child[p[2]]

Write(T, p, ptr) ==
    IF p = Top THEN [T EXCEPT !.root = ptr]
    ELSE [T EXCEPT !.node[p[1]].child[p[2]] = ptr]

\* A descent along key through the nodes of a set: parent is where the pointer it
\* ends at is, pp where the pointer to the node above is (if there is one).  It
\* meets each node once at most.
Descend(T, key, through) ==
    LET step == [s \in [parent : Places(T), pp : Places(T)] |->
                   LET n == At(T, s.parent)
                   IN  IF n \in through
                       THEN [parent |-> <<n, Slot(T, n, key)>>, pp |-> s.parent]
                       ELSE s]
    IN  Walk(step, [parent |-> Top, pp |-> Top], Cardinality(NodesOf(T)))

Children(T, n) == {i \in Slots : T.node[n].child[i] # Null}

First(T, n) == CHOOSE i \in Children(T, n) : \A j \in Children(T, n) : i <= j

any_leaf(T, ptr) ==
    LET step == [p \in Ptrs |-> IF p \in NodesOf(T) THEN T.node[p].child[First(T, p)] ELSE p]
    IN  Walk(step, ptr, Cardinality(NodesOf(T)))

----------------------------------------------------------------------------
(* Operations *)

\* First descent of critnib_set: some leaf that shares with the key the longest
\* prefix of the tree.
Relative(T, key) ==
    LET through == {n \in NodesOf(T) : T.node[n].byte < Len(key) /\ Child(T, n, key) # Null}
    IN  any_leaf(T, At(T, Descend(T, key, through).parent))

CommonLen(a, b) == IF Len(a) < Len(b) THEN Len(a) ELSE Len(b)

\* Faulty variant: the size in front of the key is not compared.
Diff_SkipsSize(a, b) ==
    CHOOSE i \in 1 .. CommonLen(a, b) :
        /\ \A j \in 1 .. i - 1 : a[j + 1] = b[j + 1]
        /\ i = CommonLen(a, b) \/ a[i + 1] # b[i + 1]

\* The first byte in which two keys differ, or the length of the shorter one.
Diff(a, b) ==
    CHOOSE i \in 0 .. CommonLen(a, b) :
        /\ \A j \in 0 .. i - 1 : a[j + 1] = b[j + 1]
        /\ i = CommonLen(a, b) \/ a[i + 1] # b[i + 1]

\* The highest slice in which two bytes differ.
Shift(x, y) ==
    CHOOSE bit \in Bits : x[bit] # y[bit] /\ \A b \in Bits : b > bit => x[b] = y[b]

\* The nodes that the second descent of critnib_set goes through.
AboveFork(T, diff, sh) ==
    {n \in NodesOf(T) : T.node[n].byte < diff \/ (T.node[n].byte = diff /\ T.node[n].bit >= sh)}

\* Faulty variant: the subtree that is split off is lost.
Fork_Drops(n, key, nkey, diff, sh) ==
    [byte |-> diff, bit |-> sh,
     child |-> [i \in Slots |-> IF i = slice_index(key[diff + 1], sh) THEN key
                                ELSE IF i = slice_index(nkey[diff + 1], sh) THEN nkey ELSE Null]]

\* A new node in the middle of an edge to n.
Fork(n, key, nkey, diff, sh) ==
    [byte |-> diff, bit |-> sh,
     child |-> [i \in Slots |-> IF i = slice_index(key[diff + 1], sh) THEN key
                                ELSE IF i = slice_index(nkey[diff + 1], sh) THEN n ELSE Null]]

AddNode(T, a, node) ==
    [T EXCEPT !.node = [b \in NodesOf(T) \cup {a} |-> IF b = a THEN node ELSE T.node[b]]]

\* critnib_set: what it returns, the new tree and how many nodes it allocated.
\* alloc_node returns a.
critnib_set(T, key, a) ==
    LET nkey == Relative(T, key)
        diff == Diff(nkey, key)
        sh == Shift(nkey[diff + 1], key[diff + 1])
        parent == Descend(T, key, AboveFork(T, diff, sh)).parent
        n == At(T, parent)
    IN  IF T.root = Null
          THEN [err |-> "0", tree |-> [T EXCEPT !.root = key], nodes |-> 0]
        ELSE IF diff >= CommonLen(nkey, key) THEN [err |-> "EEXIST", tree |-> T, nodes |-> 0]
        ELSE IF n = Null THEN [err |-> "0", tree |-> Write(T, parent, key), nodes |-> 0]
        ELSE IF a = Null THEN [err |-> "ENOMEM", tree |-> T, nodes |-> 0]
        ELSE [err |-> "0",
              tree |-> AddNode(Write(T, parent, a), a, Fork(n, key, nkey, diff, sh)),
              nodes |-> 1]

\* The descent of critnib_get and critnib_remove.
Find(T, key) == Descend(T, key, {n \in NodesOf(T) : T.node[n].byte < Len(key)})

\* critnib_get: is the key there?
critnib_get(T, key) == At(T, Find(T, key).parent) = key

RemoveNode(T, n) == [T EXCEPT !.node = [b \in NodesOf(T) \ {n} |-> T.node[b]]]

\* Faulty variant: an edge with a single child is left as it is.
Shorten_Never(T, pp, n) == [tree |-> T, nodes |-> 0]

\* A node that is left with one child is replaced by that child.
Shorten(T, pp, n) ==
    LET left == {T.node[n].child[i] : i \in Children(T, n)}
    IN  IF \E only \in left : left = {only}
        THEN [tree |-> RemoveNode(Write(T, pp, CHOOSE only \in left : TRUE), n), nodes |-> 1]
        ELSE [tree |-> T, nodes |-> 0]

\* critnib_remove, for a key that is there: the new tree and how many nodes it
\* freed.
critnib_remove(T, key) ==
    LET s == Find(T, key)
        cut == Write(T, s.parent, Null)
    IN  IF s.parent = Top THEN [tree |-> cut, nodes |-> 0]
        ELSE Shorten(cut, s.pp, s.parent[1])

\* Faulty variant: the last child of a node is forgotten.
Concat_OffByOne(lists) ==
    LET upto[i \in 0 .. SLNODES] == IF i = 0 THEN <<>> ELSE upto[i - 1] \o lists[i - 1]
    IN  upto[SLNODES - 1]

\* The loop of delete_node over the children: what it frees for each of them.
Concat(lists) ==
    LET upto[i \in 0 .. SLNODES] == IF i = 0 THEN <<>> ELSE upto[i - 1] \o lists[i - 1]
    IN  upto[SLNODES]

\* delete_node: the entries and the nodes it frees, in order.
delete_node(T, ptr) ==
    LET freed[d \in 0 .. Cardinality(NodesOf(T))] ==
          [p \in Ptrs |->
             IF p = Null THEN <<>>
             ELSE IF p \notin NodesOf(T) THEN <<p>>
             ELSE IF d = 0 THEN <<>>
             ELSE Concat([i \in Slots |-> freed[d - 1][T.node[p].child[i]]]) \o <<p>>]
    IN  freed[Cardinality(NodesOf(T))][ptr]

Elements(s) == {s[i] : i \in 1 .. Len(s)}

\* What the descents rely on.  Every node branches, each of its children holds
\* the keys with that child's slice, the keys below it agree on everything
\* before that slice, and are long enough to have it.
WellFormed(T) ==
    \A n \in NodesOf(T) :
        LET byte == T.node[n].byte
            bit == T.node[n].bit
            Below(i) == Elements(delete_node(T, T.node[n].child[i])) \cap Keys
        IN  /\ \E i, j \in Children(T, n) : i # j
            /\ \A i \in Children(T, n) : \A k \in Below(i) :
                 /\ Len(k) > byte /\ Slot(T, n, k) = i
                 /\ \A j \in Children(T, n) : \A l \in Below(j) :
                      /\ \A b \in 1 .. byte : k[b] = l[b]
                      /\ \A b \in Bits : b > bit => k[byte + 1][b] = l[byte + 1][b]
=============================================================================
