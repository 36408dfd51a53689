------------------------- MODULE MCOptimisticList -------------------------
(***************************************************************************)
(* Small instances of OptimisticList for TLC.                              *)
(***************************************************************************)
EXTENDS OptimisticList, TLC

CONSTANTS t1, t2

MCThreads == {t1, t2}

Op(kind, k) == {[kind |-> kind, key |-> k]}
Ins(k) == Op("insert", k)
Rem(k) == Op("remove", k)
Has(k) == Op("contains", k)

\* Two threads, three calls each of any operation on keys 1 .. 2: inserts
\* and removes race on the same prev, and cursors meet removed nodes.
FreeKeys == 1 .. 2
FreeProgram == [t \in MCThreads |-> <<Abs!Ops, Abs!Ops, Abs!Ops>>]
\* Each insert allocates at most one node.
FreeMaxNodes == 6

\* t2 looks for key 2 while t1, having inserted 1 and 2, removes 1.
LostProgram ==
    t1 :> <<Ins(1), Ins(2), Rem(1)>> @@
    t2 :> <<Has(2)>>

====
