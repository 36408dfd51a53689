------------------------- MODULE MCFineGrainedList -------------------------
(***************************************************************************)
(* Small instances of FineGrainedList for TLC.                             *)
(***************************************************************************)
EXTENDS FineGrainedList, TLC

CONSTANTS t1, t2

MCThreads == {t1, t2}

Op(kind, k) == {[kind |-> kind, key |-> k]}
Ins(k) == Op("insert", k)
Rem(k) == Op("remove", k)
Has(k) == Op("contains", k)
Iter == {IterOp}

\* Any set operation on keys 1 .. 3, or an iteration.
AnyOp == Abs!Ops \cup Iter

\* Two threads, three calls each: every interleaving of any operations,
\* among them removes that meet a cursor or an Iter standing on the node.
FreeKeys == 1 .. 3
FreeProgram == [t \in MCThreads |-> <<AnyOp, AnyOp, AnyOp>>]
\* Each insert allocates at most one node.
FreeMaxNodes == 6

\* An Iter walks past node 1 to node 2 while another thread removes 1.
DanglingProgram ==
    t1 :> <<Ins(1), Ins(2), Iter>> @@
    t2 :> <<Rem(1)>>


====
