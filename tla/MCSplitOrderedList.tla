------------------------- MODULE MCSplitOrderedList -------------------------
(***************************************************************************)
(* Small instances of SplitOrderedList for TLC.                            *)
(***************************************************************************)
EXTENDS SplitOrderedList, TLC

CONSTANTS t1, t2, t3, v1, v2

\* A 5-bit word: valid keys are below 16, count and size wrap modulo 32.
MCWidth == 5

Op(kind, k, v) == [kind |-> kind, key |-> k, val |-> v]
Ins(k, v) == {Op("insert", k, v)}
Del(k) == {Op("delete", k, NoVal)}
Get(k) == {Op("lookup", k, NoVal)}

\* Any well-formed operation on the run's keys.
AnyOp == {o \in Abs!Ops : Abs!WellFormed(o)}

\* Two threads, each calling any two operations, with LOAD_FACTOR 1 (set
\* in the cfg).  Keys 0, 2 and 4 all fall in bucket 0 at size 2: their
\* third insert makes count 3 > size * 1, so size doubles to 4.  An
\* operation on key 3 then initialises bucket 3, and bucket 3 first its
\* parent bucket 1, which no key of the run initialises directly.
FreeKeys == {0, 2, 3, 4}
FreeThreads == {t1, t2}
FreeProgram == [t \in FreeThreads |-> <<AnyOp, AnyOp>>]

\* lookup_bucket's parent_mask arithmetic on a 64-bit usize.
BP == INSTANCE BucketParent WITH Width <- 64

\* Every bucket key below 256, and keys whose top bit is at 2^22 .. 2^28
\* (TLC's integers stop at 2^31 - 1; the smear never exceeds its operand).
ParentKeys ==
    (1 .. 255) \cup {2^i + 2^(i - 3) + 5 : i \in 22 .. 28} \cup {2^29 - 1}

\* The code's parent_mask clears exactly the highest set bit of each of
\* these keys, as lookup_bucket's recursion needs.  (A key of 2^29 or more
\* keeps its top bit: the smear loop shifts by 7, 6, ..., 0, 28 bits in
\* all, so ParentClearsTopBit(2^29) is false.)
ASSUME ParentMaskClearsTopBit == \A k \in ParentKeys : BP!ParentClearsTopBit(k)

\* Underflow of count: a delete's fetch_sub runs before the fetch_add of
\* the insert that linked the node.
WrapThreads == {t1, t2}
WrapProgram ==
    t1 :> <<Ins(3, v1)>> @@
    t2 :> <<Del(3)>>

====
