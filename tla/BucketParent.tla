---------------------------- MODULE BucketParent ----------------------------
(***************************************************************************)
(* lookup_bucket's parent bucket (split_ordered_list.rs, lines 76-88) at   *)
(* the machine's word size, with the code's own bit operations, and the   *)
(* reference it is meant to compute: the key with its highest set bit     *)
(* cleared.  SplitOrderedList uses the reference (IsParent); this module  *)
(* is how the code's arithmetic is checked against it.                    *)
(***************************************************************************)
EXTENDS Integers, Bitwise

CONSTANT Width   \* bits of a usize, a multiple of 8

\* std::mem::size_of::<usize>(): the smear loop's bound.
SizeOfUsize == Width \div 8

\* for sz in (0..size_of::<usize>()).rev() { parent_mask |= parent_mask >> sz }
Smear(k) ==
    LET m[i \in 0 .. SizeOfUsize] ==
          IF i = 0 THEN k ELSE m[i - 1] | shiftR(m[i - 1], SizeOfUsize - i)
    IN m[SizeOfUsize]

\* parent_mask ^= parent_mask >> 1; parent_mask -= 1
ParentMask(k) == LET s == Smear(k) IN (s ^^ shiftR(s, 1)) - 1

\* The key of the recursive call: key & parent_mask.
Parent(k) == k & ParentMask(k)

\* The largest power of two not above k, defined without bit operations.
HighBit(k) == 2^(CHOOSE i \in 0 .. Width - 1 : k \div 2^i = 1)

\* "Eliminate left-most 1": the recursive call for the nonzero bucket key k
\* is on k with its highest set bit cleared, so the recursion reaches
\* bucket 0 after at most one call per set bit.
ParentClearsTopBit(k) == Parent(k) = k - HighBit(k)
====
