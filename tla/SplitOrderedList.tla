-------------------------- MODULE SplitOrderedList --------------------------
(***************************************************************************)
(* The lock-free split-ordered hash map of                                 *)
(* src/homework/src/hash_table/split_ordered_list.rs.                      *)
(*                                                                         *)
(* One sorted list holds every entry.  A real entry for key k sorts by     *)
(* reverse_bits(k) | 1, the sentinel of bucket b by reverse_bits(b).  The  *)
(* bucket table (a GrowableArray, modelled on its own in GrowableArray.tla *)
(* and used here through its atomic slot interface) caches a pointer to    *)
(* each initialised sentinel.  Threads run lookup, insert and delete       *)
(* concurrently; every atomic access of the code is one step here.         *)
(*                                                                         *)
(* The Harris-Michael list of the cs431 crate is not under src/: it is     *)
(* modelled from its interface (find, insert at a cursor, delete at a      *)
(* cursor) as the set of live nodes, ordered by their split-order key.     *)
(***************************************************************************)
EXTENDS Integers, Sequences, FiniteSets

CONSTANTS
    Threads,     \* the threads calling the map
    Keys,        \* the keys they use (valid: top bit of the word clear)
    Values,      \* the values they insert
    NoVal,       \* absent value / MaybeUninit of a sentinel
    Width,       \* bits of a machine word (usize)
    LoadFactor,  \* SplitOrderedList::LOAD_FACTOR
    Program      \* Program[t][i]: the operations t may call i-th (bound)

Word == 2^Width
HalfWord == 2^(Width - 1)

\* The provers treat ^ as uninterpreted: the facts about the word size that
\* the proofs use are stated here, and TLC evaluates them on every run.
ASSUME WordAssumption ==
    /\ Width \in Nat /\ Width >= 2
    /\ Word \in Nat /\ HalfWord \in Nat /\ HalfWord >= 2
    /\ Word = 2 * HalfWord

ASSUME KeysAssumption == Keys \subseteq 0 .. HalfWord - 1

ASSUME ParamAssumption ==
    /\ LoadFactor \in Nat \ {0}
    /\ NoVal \notin Values

VARIABLES
    sents,   \* buckets whose sentinel node is linked in the list
    items,   \* items[k]: value of the live real node of key k, or NoVal
    slot,    \* slot[b]: the bucket table's pointer for bucket b (Nil: null)
    size,    \* SplitOrderedList::size
    count,   \* SplitOrderedList::count
    pc,      \* where each thread is in its operation
    op,      \* the operation each thread runs
    res,     \* its result, set when it takes effect
    sz,      \* the value of size the operation read
    stk,     \* lookup_bucket's recursion: keys of the pending frames
    bkt,     \* cursor node returned by the innermost lookup_bucket
    cur,     \* cursor left by the last find_harris_michael
    done     \* operations completed per thread

vars == <<sents, items, slot, size, count, pc, op, res, sz, stk, bkt, cur, done>>

Abs == INSTANCE MapSpec WITH map <- items, aop <- op, ares <- res

ASSUME ProgramAssumption == Program \in [Threads -> Seq(SUBSET Abs!Ops)]

Buckets == 0 .. HalfWord - 1

(***************************************************************************)
(* List nodes.  The list's key of a node is its split-order key SoKey.     *)
(***************************************************************************)
Sent(b) == [kind |-> "sent", id |-> b]
Real(k) == [kind |-> "real", id |-> k]
Nil == [kind |-> "nil", id |-> 0]
Nodes == {Sent(b) : b \in Buckets} \cup {Real(k) : k \in Keys}

Bit(x, i) == (x \div 2^i) % 2

\* usize::reverse_bits on a Width-bit word.
RevTable == [x \in 0 .. Word - 1 |->
               LET r[i \in 0 .. Width] ==
                     IF i = 0 THEN 0
                     ELSE r[i - 1] + Bit(x, i - 1) * 2^(Width - i)
               IN r[Width]]

\* x | 1
OrOne(x) == IF x % 2 = 0 THEN x + 1 ELSE x

\* Mutant: real keys without the | 1 (they collide with sentinels).
SoKeyNoOrOne(n) == RevTable[n.id]

SoKey(n) == IF n.kind = "sent" THEN RevTable[n.id] ELSE OrOne(RevTable[n.id])

\* key & (usize::MAX >> 1)
Index(x) == x % HalfWord

\* key & (size - 1), size a power of two
BucketOf(k, s) == k % s

\* p is key with its left-most 1 eliminated (lookup_bucket's parent_mask).
IsParent(p, b) ==
    \E i \in 0 .. Width - 1 : 2^i <= b /\ b < 2^(i + 1) /\ p = b - 2^i

Live == {Sent(b) : b \in sents} \cup {Real(k) : k \in {j \in Keys : items[j] # NoVal}}

(***************************************************************************)
(* Cursor::find_harris_michael from node s for list key tk, as one atomic  *)
(* step: c is the first live node at or after tk (Nil at the tail), p the  *)
(* last live node before it, or s itself when the search does not move.    *)
(***************************************************************************)
AtOrAfter(s, tk) == {n \in Live : SoKey(n) >= tk /\ SoKey(n) >= SoKey(s)}
Before(s, tk) == {n \in Live : SoKey(s) <= SoKey(n) /\ SoKey(n) < tk}

Positioned(s, tk, p, c) ==
    /\ IF AtOrAfter(s, tk) = {} THEN c = Nil
       ELSE c \in AtOrAfter(s, tk) /\ \A m \in AtOrAfter(s, tk) : SoKey(c) <= SoKey(m)
    /\ IF Before(s, tk) = {} THEN p = s
       ELSE p \in Before(s, tk) /\ \A m \in Before(s, tk) : SoKey(m) <= SoKey(p)

Found(c, tk) == c # Nil /\ SoKey(c) = tk

\* Cursor::lookup: the node's value; a sentinel's is MaybeUninit::uninit().
NodeVal(n) == IF n.kind = "real" THEN items[n.id] ELSE NoVal

\* Cursor::insert: the CAS on prev.next from curr succeeds when prev is still
\* live and no node was linked after it before curr.  When curr has been
\* deleted since the find it may still be linked (marked) and the CAS may
\* succeed or fail.
LinkOK(c) ==
    /\ c.prev \in Live
    /\ ~\E n \in Live : SoKey(c.prev) < SoKey(n) /\ (c.curr = Nil \/ SoKey(n) < SoKey(c.curr))
CurrLive(c) == c.curr = Nil \/ c.curr \in Live

NoCursor == [prev |-> Nil, curr |-> Nil]

PCs == {"idle", "lb_read", "lb_find", "lb_link", "lb_store", "find", "link",
        "unlink", "count", "resize", "dec", "ret", "panic"}

Init ==
    /\ sents = {0}
    /\ items = [k \in Keys |-> NoVal]
    /\ slot = [b \in Buckets |-> IF b = 0 THEN Sent(0) ELSE Nil]
    /\ size = 2
    /\ count = 0
    /\ pc = [t \in Threads |-> "idle"]
    /\ op = [t \in Threads |-> Abs!NoOp]
    /\ res = [t \in Threads |-> Abs!NoRes]
    /\ sz = [t \in Threads |-> 0]
    /\ stk = [t \in Threads |-> <<>>]
    /\ bkt = [t \in Threads |-> Nil]
    /\ cur = [t \in Threads |-> NoCursor]
    /\ done = [t \in Threads |-> 0]

-----------------------------------------------------------------------------
(***************************************************************************)
(* Start of lookup / insert / delete: read size and call lookup_bucket on  *)
(* key & (size - 1).  With size 0, size - 1 overflows (a panic).           *)
(***************************************************************************)
Invoke(t) ==
    /\ pc[t] = "idle"
    /\ done[t] < Len(Program[t])
    /\ \E o \in Program[t][done[t] + 1] :
         /\ Abs!WellFormed(o)
         /\ op' = [op EXCEPT ![t] = o]
         /\ sz' = [sz EXCEPT ![t] = size]
         /\ IF size = 0
              THEN /\ pc' = [pc EXCEPT ![t] = "panic"]
                   /\ UNCHANGED stk
              ELSE /\ pc' = [pc EXCEPT ![t] = "lb_read"]
                   /\ stk' = [stk EXCEPT ![t] = <<BucketOf(o.key, size)>>]
    /\ UNCHANGED <<sents, items, slot, size, count, res, bkt, cur, done>>

Top(t) == stk[t][Len(stk[t])]
Pop(t) == SubSeq(stk[t], 1, Len(stk[t]) - 1)
AfterReturn(t) == IF Len(stk[t]) = 1 THEN "find" ELSE "lb_find"

\* Mutant: on a null slot, start the search from the list head (bucket 0)
\* instead of initialising the parent bucket first.
LBReadFromHead(t) ==
    LET b == Index(Top(t)) IN
    /\ pc[t] = "lb_read"
    /\ IF slot[b] # Nil
         THEN /\ bkt' = [bkt EXCEPT ![t] = slot[b]]
              /\ stk' = [stk EXCEPT ![t] = Pop(t)]
              /\ pc' = [pc EXCEPT ![t] = AfterReturn(t)]
         ELSE /\ bkt' = [bkt EXCEPT ![t] = slot[0]]
              /\ pc' = [pc EXCEPT ![t] = "lb_find"]
              /\ UNCHANGED stk
    /\ UNCHANGED <<sents, items, slot, size, count, op, res, sz, cur, done>>

\* lookup_bucket: load the bucket's slot; a non-null pointer is returned to
\* the caller, a null one makes it recurse on the parent bucket.
LBRead(t) ==
    LET b == Index(Top(t)) IN
    /\ pc[t] = "lb_read"
    /\ IF slot[b] # Nil
         THEN /\ bkt' = [bkt EXCEPT ![t] = slot[b]]
              /\ stk' = [stk EXCEPT ![t] = Pop(t)]
              /\ pc' = [pc EXCEPT ![t] = AfterReturn(t)]
         ELSE /\ \E p \in Buckets :
                   /\ IsParent(p, Top(t))
                   /\ stk' = [stk EXCEPT ![t] = Append(stk[t], p)]
              /\ UNCHANGED <<bkt, pc>>
    /\ UNCHANGED <<sents, items, slot, size, count, op, res, sz, cur, done>>

\* lookup_bucket's loop: find the sentinel from the parent's cursor.
LBFind(t) ==
    LET tk == RevTable[Index(Top(t))] IN
    /\ pc[t] = "lb_find"
    /\ \E p \in Live \cup {bkt[t]}, c \in Live \cup {Nil} :
         /\ Positioned(bkt[t], tk, p, c)
         /\ cur' = [cur EXCEPT ![t] = [prev |-> p, curr |-> c]]
         /\ pc' = [pc EXCEPT ![t] = IF Found(c, tk) THEN "lb_store" ELSE "lb_link"]
    /\ UNCHANGED <<sents, items, slot, size, count, op, res, sz, stk, bkt, done>>

\* Link the fresh sentinel at the cursor; either way search again.
LBLink(t) ==
    /\ pc[t] = "lb_link"
    /\ \/ /\ LinkOK(cur[t])
          /\ sents' = sents \cup {Index(Top(t))}
       \/ /\ ~(LinkOK(cur[t]) /\ CurrLive(cur[t]))
          /\ UNCHANGED sents
    /\ pc' = [pc EXCEPT ![t] = "lb_find"]
    /\ UNCHANGED <<items, slot, size, count, op, res, sz, stk, bkt, cur, done>>

\* Mutant: store the parent's cursor instead of the sentinel found.
LBStoreParent(t) ==
    /\ pc[t] = "lb_store"
    /\ slot' = [slot EXCEPT ![Index(Top(t))] = bkt[t]]
    /\ bkt' = [bkt EXCEPT ![t] = cur[t].curr]
    /\ stk' = [stk EXCEPT ![t] = Pop(t)]
    /\ pc' = [pc EXCEPT ![t] = AfterReturn(t)]
    /\ UNCHANGED <<sents, items, size, count, op, res, sz, cur, done>>

\* Store the sentinel found into the bucket's slot and return its cursor.
LBStore(t) ==
    /\ pc[t] = "lb_store"
    /\ slot' = [slot EXCEPT ![Index(Top(t))] = cur[t].curr]
    /\ bkt' = [bkt EXCEPT ![t] = cur[t].curr]
    /\ stk' = [stk EXCEPT ![t] = Pop(t)]
    /\ pc' = [pc EXCEPT ![t] = AfterReturn(t)]
    /\ UNCHANGED <<sents, items, size, count, op, res, sz, cur, done>>

-----------------------------------------------------------------------------
(***************************************************************************)
(* The search for the real key from the bucket's cursor (find, and the     *)
(* loops of insert and delete).  Lookup returns here; insert returns       *)
(* Err(value) on a present key, delete Err(()) on an absent one.           *)
(***************************************************************************)
Find(t) ==
    LET k == op[t].key
        tk == OrOne(RevTable[k])
    IN
    /\ pc[t] = "find"
    /\ \E p \in Live \cup {bkt[t]}, c \in Live \cup {Nil} :
         /\ Positioned(bkt[t], tk, p, c)
         /\ cur' = [cur EXCEPT ![t] = [prev |-> p, curr |-> c]]
         /\ \/ /\ op[t].kind = "lookup"
               /\ res' = [res EXCEPT ![t] =
                            IF Found(c, tk) THEN Abs!Result("some", NodeVal(c))
                            ELSE Abs!Result("none", NoVal)]
               /\ pc' = [pc EXCEPT ![t] = "ret"]
            \/ /\ op[t].kind = "insert" /\ Found(c, tk)
               /\ res' = [res EXCEPT ![t] = Abs!Result("err", op[t].val)]
               /\ pc' = [pc EXCEPT ![t] = "ret"]
            \/ /\ op[t].kind = "insert" /\ ~Found(c, tk)
               /\ pc' = [pc EXCEPT ![t] = "link"]
               /\ UNCHANGED res
            \/ /\ op[t].kind = "delete" /\ Found(c, tk)
               /\ pc' = [pc EXCEPT ![t] = "unlink"]
               /\ UNCHANGED res
            \/ /\ op[t].kind = "delete" /\ ~Found(c, tk)
               /\ res' = [res EXCEPT ![t] = Abs!Result("err", NoVal)]
               /\ pc' = [pc EXCEPT ![t] = "ret"]
    /\ UNCHANGED <<sents, items, slot, size, count, op, sz, stk, bkt, done>>

\* Mutant: a failed CAS retries the insert at the stale cursor.
LinkNoRefind(t) ==
    LET k == op[t].key IN
    /\ pc[t] = "link"
    /\ \/ /\ LinkOK(cur[t])
          /\ items' = [items EXCEPT ![k] = op[t].val]
          /\ res' = [res EXCEPT ![t] = Abs!Result("ok", NoVal)]
          /\ pc' = [pc EXCEPT ![t] = "count"]
       \/ /\ ~(LinkOK(cur[t]) /\ CurrLive(cur[t]))
          /\ UNCHANGED <<items, res, pc>>
    /\ UNCHANGED <<sents, slot, size, count, op, sz, stk, bkt, cur, done>>

\* insert: cur.insert(n); on Err retry the search.
Link(t) ==
    LET k == op[t].key IN
    /\ pc[t] = "link"
    /\ \/ /\ LinkOK(cur[t])
          /\ items' = [items EXCEPT ![k] = op[t].val]
          /\ res' = [res EXCEPT ![t] = Abs!Result("ok", NoVal)]
          /\ pc' = [pc EXCEPT ![t] = "count"]
       \/ /\ ~(LinkOK(cur[t]) /\ CurrLive(cur[t]))
          /\ pc' = [pc EXCEPT ![t] = "find"]
          /\ UNCHANGED <<items, res>>
    /\ UNCHANGED <<sents, slot, size, count, op, sz, stk, bkt, cur, done>>

\* insert: count.fetch_add(1); if count + 1 > size * LOAD_FACTOR try to
\* double size.  count + 1 overflows (a panic in a debug build) when the
\* counter has wrapped to usize::MAX.
CountUp(t) ==
    /\ pc[t] = "count"
    /\ count' = (count + 1) % Word
    /\ pc' = [pc EXCEPT ![t] =
                IF count + 1 = Word THEN "panic"
                ELSE IF count + 1 > sz[t] * LoadFactor THEN "resize"
                ELSE "ret"]
    /\ UNCHANGED <<sents, items, slot, size, op, res, sz, stk, bkt, cur, done>>

\* size.compare_exchange(size, size << 1): one attempt, never retried.
Resize(t) ==
    /\ pc[t] = "resize"
    /\ size' = IF size = sz[t] THEN (2 * sz[t]) % Word ELSE size
    /\ pc' = [pc EXCEPT ![t] = "ret"]
    /\ UNCHANGED <<sents, items, slot, count, op, res, sz, stk, bkt, cur, done>>

\* Mutant: delete returns without its fetch_sub.
UnlinkNoDec(t) ==
    LET c == cur[t].curr IN
    /\ pc[t] = "unlink"
    /\ \/ /\ c \in Live
          /\ res' = [res EXCEPT ![t] = Abs!Result("ok", NodeVal(c))]
          /\ items' = [items EXCEPT ![c.id] = NoVal]
          /\ pc' = [pc EXCEPT ![t] = "ret"]
       \/ /\ c \notin Live
          /\ pc' = [pc EXCEPT ![t] = "find"]
          /\ UNCHANGED <<items, res>>
    /\ UNCHANGED <<sents, slot, size, count, op, sz, stk, bkt, cur, done>>

\* delete: cur.delete(); Err (already removed) retries the search.
Unlink(t) ==
    LET c == cur[t].curr IN
    /\ pc[t] = "unlink"
    /\ \/ /\ c \in Live
          /\ res' = [res EXCEPT ![t] = Abs!Result("ok", NodeVal(c))]
          /\ items' = [items EXCEPT ![c.id] = NoVal]
          /\ pc' = [pc EXCEPT ![t] = "dec"]
       \/ /\ c \notin Live
          /\ pc' = [pc EXCEPT ![t] = "find"]
          /\ UNCHANGED <<items, res>>
    /\ UNCHANGED <<sents, slot, size, count, op, sz, stk, bkt, cur, done>>

\* Mutant: the decrement treated as a signed one.
CountDownNoWrap(t) ==
    /\ pc[t] = "dec"
    /\ count' = count - 1
    /\ pc' = [pc EXCEPT ![t] = "ret"]
    /\ UNCHANGED <<sents, items, slot, size, op, res, sz, stk, bkt, cur, done>>

\* delete: count.fetch_sub(1), wrapping.
CountDown(t) ==
    /\ pc[t] = "dec"
    /\ count' = (count - 1) % Word
    /\ pc' = [pc EXCEPT ![t] = "ret"]
    /\ UNCHANGED <<sents, items, slot, size, op, res, sz, stk, bkt, cur, done>>

Finish(t) ==
    /\ pc[t] = "ret"
    /\ pc' = [pc EXCEPT ![t] = "idle"]
    /\ op' = [op EXCEPT ![t] = Abs!NoOp]
    /\ res' = [res EXCEPT ![t] = Abs!NoRes]
    /\ sz' = [sz EXCEPT ![t] = 0]
    /\ bkt' = [bkt EXCEPT ![t] = Nil]
    /\ cur' = [cur EXCEPT ![t] = NoCursor]
    /\ done' = [done EXCEPT ![t] = done[t] + 1]
    /\ UNCHANGED <<sents, items, slot, size, count, stk>>

\* Every thread has run its operations or panicked.
Terminated ==
    /\ \A t \in Threads : (pc[t] = "idle" /\ done[t] = Len(Program[t])) \/ pc[t] = "panic"
    /\ UNCHANGED vars

Step(t) ==
    \/ Invoke(t) \/ LBRead(t) \/ LBFind(t) \/ LBLink(t) \/ LBStore(t)
    \/ Find(t) \/ Link(t) \/ CountUp(t) \/ Resize(t) \/ Unlink(t)
    \/ CountDown(t) \/ Finish(t)

Next == (\E t \in Threads : Step(t)) \/ Terminated

Spec == Init /\ [][Next]_vars

\* Threads are preemptively scheduled: a thread that can take a step
\* eventually does.
FairSpec == Spec /\ \A t \in Threads : WF_vars(Step(t))

-----------------------------------------------------------------------------
(***************************************************************************)
(* Properties.                                                             *)
(***************************************************************************)
TypeOK ==
    /\ sents \subseteq Buckets
    /\ items \in [Keys -> Values \cup {NoVal}]
    /\ slot \in [Buckets -> Nodes \cup {Nil}]
    /\ size \in 0 .. Word - 1
    /\ count \in 0 .. Word - 1
    /\ pc \in [Threads -> PCs]
    /\ op \in [Threads -> Abs!Ops \cup {Abs!NoOp}]
    /\ res \in [Threads -> Abs!Results \cup {Abs!NoRes}]
    /\ sz \in [Threads -> 0 .. Word - 1]
    /\ stk \in [Threads -> Seq(0 .. Word - 1)]
    /\ bkt \in [Threads -> Nodes \cup {Nil}]
    /\ cur \in [Threads -> [prev : Nodes \cup {Nil}, curr : Nodes \cup {Nil}]]
    /\ done \in [Threads -> Nat]

\* The bucket table never points anywhere but at its own bucket's linked
\* sentinel, and a sentinel is only linked once its parent's is: what
\* lookup_bucket's recursion and its store after the search must keep.
BucketsSound ==
    /\ \A b \in Buckets : slot[b] # Nil => slot[b] = Sent(b) /\ b \in sents
    /\ \A b \in sents \ {0} : \E p \in sents : IsParent(p, b)

\* count is the number of live entries, up to the inserts that have linked
\* their node and not yet run fetch_add and the deletes that have unlinked
\* theirs and not yet run fetch_sub (all modulo the word).
CountConsistent ==
    LET live == Cardinality({k \in Keys : items[k] # NoVal})
        ups == Cardinality({t \in Threads : pc[t] = "count"})
        downs == Cardinality({t \in Threads : pc[t] = "dec"})
    IN count = (live - ups + downs) % Word

\* Every operation takes effect atomically: the map implements MapSpec.
Linearizable == Abs!AbsSpec

\* Every call of lookup, insert or delete returns (or panics): the retry
\* loops of lookup_bucket, insert and delete end once the other threads
\* stop changing the list.
OpsReturn == \A t \in Threads : pc[t] # "idle" ~> pc[t] \in {"idle", "panic"}

\* No insert panics on the count + 1 of its resize check.
NoOverflowPanic == \A t \in Threads : pc[t] # "panic"

=============================================================================
