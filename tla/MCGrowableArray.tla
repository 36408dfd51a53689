------------------------- MODULE MCGrowableArray -------------------------
(***************************************************************************)
(* Small instances of GrowableArray for TLC.                               *)
(***************************************************************************)
EXTENDS GrowableArray, TLC

CONSTANTS t1, t2, v1, v2

\* Segments of two pointers in a 3-bit word: index 5 = 0b101 needs a tree
\* of height 2, index 2 = 0b010 height 1, index 1 height 0.
MCLogSize == 1
MCWidth == 3
MCIndices == {1, 2, 5}
MCMaxSegs == 8

Store(i, v) == {[kind |-> "store", idx |-> i, val |-> v]}
Load(i) == {[kind |-> "load", idx |-> i, val |-> Null]}

\* Each thread stores into one index and loads the other's, while the
\* tree grows under it.
MCProgram ==
    t1 :> <<Store(5, v1), Load(2) \cup Load(1)>> @@
    t2 :> <<Store(2, v2) \cup Store(1, v2), Load(5)>>
====
