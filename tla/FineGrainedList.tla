-------------------------- MODULE FineGrainedList --------------------------
(***************************************************************************)
(* The sorted linked-list set with hand-over-hand locking of               *)
(* src/homework/src/list_set/fine_grained.rs.                              *)
(*                                                                         *)
(* Every pointer of the list sits behind its own Mutex: the head, and the  *)
(* next field of every node.  Both are "cells" here: cell HeadCell is          *)
(* FineGrainedListSet::head, cell n is node n's next.  A Cursor holds the  *)
(* guard of one cell; find moves it along the list by locking the next     *)
(* cell before it drops the guard it holds.  Every lock acquisition is a   *)
(* step; what a thread does while it holds the only lock that reaches a    *)
(* cell is part of that step or of the next.                               *)
(***************************************************************************)
EXTENDS Integers, Sequences, FiniteSets

CONSTANTS
    Threads,    \* the threads calling the set
    Keys,       \* the keys they use
    NoRes,      \* no result yet / no owner / no key
    MaxNodes,   \* bound on the nodes Node::new allocates
    Program     \* Program[t][i]: the operations t may call i-th

ASSUME ParamAssumption ==
    /\ Keys \subseteq Nat
    /\ MaxNodes \in Nat
    /\ NoRes \notin Threads \cup BOOLEAN

HeadCell == 0
Null == -1
NodeIds == 1 .. MaxNodes
Cells == {HeadCell} \cup NodeIds

VARIABLES
    ptr,     \* ptr[c]: the pointer behind cell c's Mutex (Null: null)
    data,    \* data[n]: node n's key
    holder,  \* holder[c]: the thread holding cell c's Mutex, or NoRes
    alloc,   \* nodes allocated so far (ids 1 .. alloc)
    freed,   \* nodes dropped by remove
    pc,      \* where each thread is
    op,      \* the operation it runs
    res,     \* its result once it has taken effect
    cell,    \* the cell whose guard its cursor holds
    victim,  \* the node remove unlinks
    refs,    \* nodes whose &data an Iter has handed to its caller
    done     \* operations completed per thread

vars == <<ptr, data, holder, alloc, freed, pc, op, res, cell, victim, refs, done>>

\* The nodes reachable from the head.
Reach ==
    LET r[i \in 0 .. MaxNodes] ==
          IF i = 0 THEN {ptr[HeadCell]} \ {Null}
          ELSE r[i - 1] \cup ({ptr[n] : n \in r[i - 1]} \ {Null})
    IN r[MaxNodes]

\* iter() is not an operation of ConcurrentSet: it stutters the abstract set.
IterOp == [kind |-> "iter", key |-> NoRes]

Abs == INSTANCE SetSpec
         WITH set <- {data[n] : n \in Reach},
              aop <- [t \in Threads |-> IF op[t] = IterOp THEN [kind |-> "none", key |-> NoRes]
                                        ELSE op[t]],
              ares <- res

ASSUME ProgramAssumption == Program \in [Threads -> Seq(SUBSET (Abs!Ops \cup {IterOp}))]

PCs == {"idle", "lock_head", "find", "link", "unlink", "free", "iter", "ret"}

\* FineGrainedListSet::new: a null head; no node exists.
Init ==
    /\ ptr = [c \in Cells |-> Null]
    /\ data = [n \in NodeIds |-> NoRes]
    /\ holder = [c \in Cells |-> NoRes]
    /\ alloc = 0
    /\ freed = {}
    /\ pc = [t \in Threads |-> "idle"]
    /\ op = [t \in Threads |-> Abs!NoOp]
    /\ res = [t \in Threads |-> NoRes]
    /\ cell = [t \in Threads |-> HeadCell]
    /\ victim = [t \in Threads |-> Null]
    /\ refs = [t \in Threads |-> {}]
    /\ done = [t \in Threads |-> 0]

-----------------------------------------------------------------------------
\* Call contains, insert, remove or iter.
Invoke(t) ==
    /\ pc[t] = "idle"
    /\ done[t] < Len(Program[t])
    /\ \E o \in Program[t][done[t] + 1] : op' = [op EXCEPT ![t] = o]
    /\ pc' = [pc EXCEPT ![t] = "lock_head"]
    /\ UNCHANGED <<ptr, data, holder, alloc, freed, res, cell, victim, refs, done>>

\* Mutant: the cursor starts at the first node instead of the head's guard.
LockHeadSkip(t) ==
    /\ pc[t] = "lock_head"
    /\ holder[HeadCell] = NoRes
    /\ holder' = [holder EXCEPT ![HeadCell] = t]
    /\ cell' = [cell EXCEPT ![t] = ptr[HeadCell]]
    /\ pc' = [pc EXCEPT ![t] = IF op[t] = IterOp THEN "iter" ELSE "find"]
    /\ UNCHANGED <<ptr, data, alloc, freed, op, res, victim, refs, done>>

\* self.head.lock(): blocks until the head's Mutex is free.
LockHead(t) ==
    /\ pc[t] = "lock_head"
    /\ holder[HeadCell] = NoRes
    /\ holder' = [holder EXCEPT ![HeadCell] = t]
    /\ cell' = [cell EXCEPT ![t] = HeadCell]
    /\ pc' = [pc EXCEPT ![t] = IF op[t] = IterOp THEN "iter" ELSE "find"]
    /\ UNCHANGED <<ptr, data, alloc, freed, op, res, victim, refs, done>>

\* The end of find with outcome found: contains returns it; insert returns
\* false when found and links otherwise; remove returns false when absent
\* and unlinks otherwise.
Decide(t, found) ==
    LET Return(r) == res' = [res EXCEPT ![t] = r] /\ pc' = [pc EXCEPT ![t] = "ret"]
        Goto(l) == pc' = [pc EXCEPT ![t] = l] /\ UNCHANGED res
    IN \/ op[t].kind = "contains" /\ Return(found)
       \/ op[t].kind = "insert" /\ found /\ Return(FALSE)
       \/ op[t].kind = "insert" /\ ~found /\ Goto("link")
       \/ op[t].kind = "remove" /\ found /\ Goto("unlink")
       \/ op[t].kind = "remove" /\ ~found /\ Return(FALSE)

\* Mutant: the cursor locks the next cell but stays where it is.
FindNoAdvance(t) ==
    LET p == ptr[cell[t]] IN
    /\ pc[t] = "find"
    /\ \/ /\ IF p = Null THEN TRUE ELSE data[p] >= op[t].key
          /\ Decide(t, p # Null /\ data[p] = op[t].key)
          /\ UNCHANGED <<holder, cell>>
       \/ /\ p # Null /\ data[p] < op[t].key
          /\ holder[p] = NoRes
          /\ UNCHANGED <<holder, cell, pc, res>>
    /\ UNCHANGED <<ptr, data, alloc, freed, op, victim, refs, done>>

\* One iteration of Cursor::find: stop at the tail, at the key or past it;
\* otherwise lock node.next (blocking) and then drop the guard held.
Find(t) ==
    LET p == ptr[cell[t]] IN
    /\ pc[t] = "find"
    /\ \/ /\ IF p = Null THEN TRUE ELSE data[p] >= op[t].key
          /\ Decide(t, p # Null /\ data[p] = op[t].key)
          /\ UNCHANGED <<holder, cell>>
       \/ /\ p # Null /\ data[p] < op[t].key
          /\ holder[p] = NoRes
          /\ holder' = [holder EXCEPT ![p] = t, ![cell[t]] = NoRes]
          /\ cell' = [cell EXCEPT ![t] = p]
          /\ UNCHANGED <<pc, res>>
    /\ UNCHANGED <<ptr, data, alloc, freed, op, victim, refs, done>>

\* Mutant: the new node is created with a null next.
LinkNoNext(t) ==
    LET n == alloc + 1 IN
    /\ pc[t] = "link"
    /\ alloc < MaxNodes
    /\ alloc' = n
    /\ data' = [data EXCEPT ![n] = op[t].key]
    /\ ptr' = [ptr EXCEPT ![cell[t]] = n]
    /\ res' = [res EXCEPT ![t] = TRUE]
    /\ pc' = [pc EXCEPT ![t] = "ret"]
    /\ UNCHANGED <<holder, freed, op, cell, victim, refs, done>>

\* insert: *prev = Node::new(key, *prev).
Link(t) ==
    LET n == alloc + 1 IN
    /\ pc[t] = "link"
    /\ alloc < MaxNodes
    /\ alloc' = n
    /\ data' = [data EXCEPT ![n] = op[t].key]
    /\ ptr' = [ptr EXCEPT ![n] = ptr[cell[t]], ![cell[t]] = n]
    /\ res' = [res EXCEPT ![t] = TRUE]
    /\ pc' = [pc EXCEPT ![t] = "ret"]
    /\ UNCHANGED <<holder, freed, op, cell, victim, refs, done>>

\* Mutant: remove reads node.next without locking it.
UnlinkNoLock(t) ==
    LET n == ptr[cell[t]] IN
    /\ pc[t] = "unlink"
    /\ ptr' = [ptr EXCEPT ![cell[t]] = ptr[n]]
    /\ victim' = [victim EXCEPT ![t] = n]
    /\ res' = [res EXCEPT ![t] = TRUE]
    /\ pc' = [pc EXCEPT ![t] = "free"]
    /\ UNCHANGED <<data, holder, alloc, freed, op, cell, refs, done>>

\* remove: *prev = *node.next.lock().unwrap(); the temporary guard of
\* node.next is taken (blocking) and dropped within the statement.
Unlink(t) ==
    LET n == ptr[cell[t]] IN
    /\ pc[t] = "unlink"
    /\ holder[n] = NoRes
    /\ ptr' = [ptr EXCEPT ![cell[t]] = ptr[n]]
    /\ victim' = [victim EXCEPT ![t] = n]
    /\ res' = [res EXCEPT ![t] = TRUE]
    /\ pc' = [pc EXCEPT ![t] = "free"]
    /\ UNCHANGED <<data, holder, alloc, freed, op, cell, refs, done>>

\* remove: drop(node) frees the unlinked node.
Free(t) ==
    /\ pc[t] = "free"
    /\ freed' = freed \cup {victim[t]}
    /\ pc' = [pc EXCEPT ![t] = "ret"]
    /\ UNCHANGED <<ptr, data, holder, alloc, op, res, cell, victim, refs, done>>

\* Iter::next: at a null pointer the iteration ends; otherwise lock
\* node.next, replace the guard by it (dropping the old one) and hand out
\* &node.data.
IterNext(t) ==
    LET p == ptr[cell[t]] IN
    /\ pc[t] = "iter"
    /\ \/ /\ p = Null
          /\ pc' = [pc EXCEPT ![t] = "ret"]
          /\ UNCHANGED <<holder, cell, refs>>
       \/ /\ p # Null
          /\ holder[p] = NoRes
          /\ holder' = [holder EXCEPT ![p] = t, ![cell[t]] = NoRes]
          /\ cell' = [cell EXCEPT ![t] = p]
          /\ refs' = [refs EXCEPT ![t] = refs[t] \cup {p}]
          /\ UNCHANGED pc
    /\ UNCHANGED <<ptr, data, alloc, freed, op, res, victim, done>>

\* Return: the cursor (or the Iter) goes out of scope and drops its guard;
\* the caller is done with the references the Iter gave it.
Finish(t) ==
    /\ pc[t] = "ret"
    /\ holder' = [holder EXCEPT ![cell[t]] = NoRes]
    /\ pc' = [pc EXCEPT ![t] = "idle"]
    /\ op' = [op EXCEPT ![t] = Abs!NoOp]
    /\ res' = [res EXCEPT ![t] = NoRes]
    /\ cell' = [cell EXCEPT ![t] = HeadCell]
    /\ victim' = [victim EXCEPT ![t] = Null]
    /\ refs' = [refs EXCEPT ![t] = {}]
    /\ done' = [done EXCEPT ![t] = done[t] + 1]
    /\ UNCHANGED <<ptr, data, alloc, freed>>

\* Every thread has run its operations.
Terminated ==
    /\ \A t \in Threads : pc[t] = "idle" /\ done[t] = Len(Program[t])
    /\ UNCHANGED vars

Step(t) ==
    \/ Invoke(t) \/ LockHead(t) \/ Find(t) \/ Link(t) \/ Unlink(t)
    \/ Free(t) \/ IterNext(t) \/ Finish(t)

Next == (\E t \in Threads : Step(t)) \/ Terminated

Spec == Init /\ [][Next]_vars

\* Threads are preemptively scheduled: a thread whose next step stays
\* possible eventually takes it.
FairSpec == Spec /\ \A t \in Threads : WF_vars(Step(t))

-----------------------------------------------------------------------------
(***************************************************************************)
(* Properties.                                                             *)
(***************************************************************************)
TypeOK ==
    /\ ptr \in [Cells -> NodeIds \cup {Null}]
    /\ data \in [NodeIds -> Keys \cup {NoRes}]
    /\ holder \in [Cells -> Threads \cup {NoRes}]
    /\ alloc \in 0 .. MaxNodes
    /\ freed \subseteq NodeIds
    /\ pc \in [Threads -> PCs]
    /\ op \in [Threads -> Abs!Ops \cup {IterOp, Abs!NoOp}]
    /\ res \in [Threads -> BOOLEAN \cup {NoRes}]
    /\ cell \in [Threads -> Cells]
    /\ victim \in [Threads -> NodeIds \cup {Null}]
    /\ refs \in [Threads -> SUBSET NodeIds]
    /\ done \in [Threads -> Nat]

\* No freed node is left attached: no live node points to it, no thread
\* holds or stands at its Mutex.  What remove's locking of node.next
\* before drop(node) must ensure against a cursor or an Iter that is at
\* that node.
FreedDetached ==
    \A n \in freed :
        /\ \A c \in Cells \ freed : ptr[c] # n
        /\ holder[n] = NoRes
        /\ \A t \in Threads : cell[t] # n

\* No freed node is used: it is detached, and none is reachable from the
\* head.
MemorySafe ==
    /\ FreedDetached
    /\ \A n \in freed : n \notin Reach

\* Every operation takes effect atomically: the list implements SetSpec.
Linearizable == Abs!AbsSpec

\* Every call returns: hand-over-hand locking in list order never deadlocks
\* and find moves forward.
OpsReturn == \A t \in Threads : pc[t] # "idle" ~> pc[t] = "idle"

\* A reference Iter::next returned, with the lifetime of the borrow of the
\* set, still points to a node that has not been freed.
NoDanglingRef == \A t \in Threads : refs[t] \cap freed = {}

=============================================================================
