-------------------------- MODULE OptimisticList --------------------------
(***************************************************************************)
(* The sorted linked-list set with optimistic hand-over-hand locking of    *)
(* src/homework/src/list_set/optimistic_fine_grained.rs.                   *)
(*                                                                         *)
(* Every pointer sits behind a SeqLock (cs431::lock::seqlock): the head    *)
(* and the next field of every node are "cells", cell HeadCell the head,   *)
(* cell n node n's next.  A SeqLock is a sequence number, even when free   *)
(* and odd while a writer holds it.  read_lock waits for an even number    *)
(* and remembers it, validate compares it with the current one, restart    *)
(* takes a fresh one, upgrade turns a read guard into the write lock by a  *)
(* CAS from the remembered number, write_lock waits for an even number    *)
(* and makes it odd, and dropping a write guard makes it even again.  The  *)
(* SeqLock is outside src/ and is modelled by that contract.              *)
(*                                                                         *)
(* A read guard's read_lock (or restart) and the load through it are one   *)
(* step: a change in between is caught by the next validate like any      *)
(* later change.  A writer's critical section, from the store to the drop *)
(* of its guards, is one step.  Nodes are never freed: remove unlinks     *)
(* them and leaves them to the epoch collector, which is not modelled.    *)
(***************************************************************************)
EXTENDS Integers, Sequences, FiniteSets

CONSTANTS
    Threads,    \* the threads calling the set
    Keys,       \* the keys they use
    NoRes,      \* no result yet / no key
    MaxNodes,   \* bound on the nodes Node::new allocates
    Program     \* Program[t][i]: the operations t may call i-th

ASSUME ParamAssumption ==
    /\ Keys \subseteq Nat
    /\ MaxNodes \in Nat
    /\ NoRes \notin BOOLEAN

HeadCell == 0
Null == -1
NodeIds == 1 .. MaxNodes
Cells == {HeadCell} \cup NodeIds

VARIABLES
    ptr,     \* ptr[c]: the pointer in cell c (Null: null)
    data,    \* data[n]: node n's key
    seq,     \* seq[c]: cell c's SeqLock sequence number
    alloc,   \* nodes allocated so far (ids 1 .. alloc)
    pc,      \* where each thread is
    op,      \* the operation it runs
    res,     \* its result once it has taken effect
    prev,    \* Cursor::prev: the cell its read guard is on
    snap,    \* the sequence number that read guard remembers
    curr,    \* Cursor::curr
    found,   \* what Cursor::find returned
    done     \* operations completed per thread

vars == <<ptr, data, seq, alloc, pc, op, res, prev, snap, curr, found, done>>

\* The nodes reachable from the head.
Reach ==
    LET r[i \in 0 .. MaxNodes] ==
          IF i = 0 THEN {ptr[HeadCell]} \ {Null}
          ELSE r[i - 1] \cup ({ptr[n] : n \in r[i - 1]} \ {Null})
    IN r[MaxNodes]

Abs == INSTANCE SetSpec WITH set <- {data[n] : n \in Reach}, aop <- op, ares <- res

ASSUME ProgramAssumption == Program \in [Threads -> Seq(SUBSET Abs!Ops)]

PCs == {"idle", "head", "find", "advance", "validate", "c_validate",
        "upgrade", "link", "unlink", "ret"}

Even(c) == seq[c] % 2 = 0
Valid(t) == seq[prev[t]] = snap[t]

\* OptimisticFineGrainedListSet::new: a null head, every SeqLock at 0.
Init ==
    /\ ptr = [c \in Cells |-> Null]
    /\ data = [n \in NodeIds |-> NoRes]
    /\ seq = [c \in Cells |-> 0]
    /\ alloc = 0
    /\ pc = [t \in Threads |-> "idle"]
    /\ op = [t \in Threads |-> Abs!NoOp]
    /\ res = [t \in Threads |-> NoRes]
    /\ prev = [t \in Threads |-> HeadCell]
    /\ snap = [t \in Threads |-> 0]
    /\ curr = [t \in Threads |-> Null]
    /\ found = [t \in Threads |-> NoRes]
    /\ done = [t \in Threads |-> 0]

Invoke(t) ==
    /\ pc[t] = "idle"
    /\ done[t] < Len(Program[t])
    /\ \E o \in Program[t][done[t] + 1] : op' = [op EXCEPT ![t] = o]
    /\ pc' = [pc EXCEPT ![t] = "head"]
    /\ UNCHANGED <<ptr, data, seq, alloc, res, prev, snap, curr, found, done>>

\* Read-lock cell c and load it: the cursor's new prev and curr.
Guard(t, c) ==
    /\ Even(c)
    /\ prev' = [prev EXCEPT ![t] = c]
    /\ snap' = [snap EXCEPT ![t] = seq[c]]
    /\ curr' = [curr EXCEPT ![t] = ptr[c]]

\* A failed find: every caller goes round its loop and calls find again.
Retry(t) == pc' = [pc EXCEPT ![t] = "head"]

\* Mutant: read_lock does not wait for an even sequence number.
HeadNoWait(t) ==
    /\ pc[t] = "head"
    /\ prev' = [prev EXCEPT ![t] = HeadCell]
    /\ snap' = [snap EXCEPT ![t] = seq[HeadCell]]
    /\ curr' = [curr EXCEPT ![t] = ptr[HeadCell]]
    /\ pc' = [pc EXCEPT ![t] = "find"]
    /\ UNCHANGED <<ptr, data, seq, alloc, op, res, found, done>>

\* OptimisticFineGrainedListSet::head: read_lock the head, load it.
ReadHead(t) ==
    /\ pc[t] = "head"
    /\ Guard(t, HeadCell)
    /\ pc' = [pc EXCEPT ![t] = "find"]
    /\ UNCHANGED <<ptr, data, seq, alloc, op, res, found, done>>

\* Mutant: find walks past a node holding the key itself.
FindPastEqual(t) ==
    LET c == curr[t] IN
    /\ pc[t] = "find"
    /\ \/ /\ c = Null
          /\ IF Valid(t)
               THEN /\ found' = [found EXCEPT ![t] = FALSE]
                    /\ pc' = [pc EXCEPT ![t] = "validate"]
               ELSE Retry(t) /\ UNCHANGED found
          /\ UNCHANGED <<prev, snap, curr>>
       \/ /\ c # Null /\ Valid(t)
          /\ IF data[c] <= op[t].key
               THEN pc' = [pc EXCEPT ![t] = "advance"] /\ UNCHANGED found
               ELSE /\ found' = [found EXCEPT ![t] = data[c] = op[t].key]
                    /\ pc' = [pc EXCEPT ![t] = "validate"]
          /\ UNCHANGED <<prev, snap, curr>>
       \/ /\ c # Null /\ ~Valid(t)
          /\ Guard(t, prev[t])
          /\ IF ptr[prev[t]] = Null THEN Retry(t) ELSE UNCHANGED pc
          /\ UNCHANGED found
    /\ UNCHANGED <<ptr, data, seq, alloc, op, res, done>>

\* One iteration of Cursor::find.  At a null curr: Ok(false) if prev still
\* validates, Err otherwise.  At a node: validate prev first; on failure
\* restart prev (waiting for an even number) and reload curr, Err if it is
\* null; on success stop at the key or past it, or go on to the next node.
Find(t) ==
    LET c == curr[t] IN
    /\ pc[t] = "find"
    /\ \/ /\ c = Null
          /\ IF Valid(t)
               THEN /\ found' = [found EXCEPT ![t] = FALSE]
                    /\ pc' = [pc EXCEPT ![t] = "validate"]
               ELSE Retry(t) /\ UNCHANGED found
          /\ UNCHANGED <<prev, snap, curr>>
       \/ /\ c # Null /\ Valid(t)
          /\ IF data[c] < op[t].key
               THEN pc' = [pc EXCEPT ![t] = "advance"] /\ UNCHANGED found
               ELSE /\ found' = [found EXCEPT ![t] = data[c] = op[t].key]
                    /\ pc' = [pc EXCEPT ![t] = "validate"]
          /\ UNCHANGED <<prev, snap, curr>>
       \/ /\ c # Null /\ ~Valid(t)
          /\ Guard(t, prev[t])
          /\ IF ptr[prev[t]] = Null THEN Retry(t) ELSE UNCHANGED pc
          /\ UNCHANGED found
    /\ UNCHANGED <<ptr, data, seq, alloc, op, res, done>>

\* Lines 83-87, after prev validated: read_lock node.next, swap it in as
\* the cursor's prev, load curr from it, and finish the old guard without
\* looking at its result.
Advance(t) ==
    /\ pc[t] = "advance"
    /\ Guard(t, curr[t])
    /\ pc' = [pc EXCEPT ![t] = "find"]
    /\ UNCHANGED <<ptr, data, seq, alloc, op, res, found, done>>

\* OptimisticFineGrainedListSet::find validates prev once more.  Then
\* contains validates a third time; insert returns false on a found key
\* and upgrades otherwise; remove returns false on a missing key and
\* upgrades otherwise.
Validate(t) ==
    LET k == op[t].kind
        Return(r) == res' = [res EXCEPT ![t] = r] /\ pc' = [pc EXCEPT ![t] = "ret"]
        Goto(l) == pc' = [pc EXCEPT ![t] = l] /\ UNCHANGED res
    IN
    /\ pc[t] = "validate"
    /\ \/ ~Valid(t) /\ Retry(t) /\ UNCHANGED res
       \/ /\ Valid(t)
          /\ \/ k = "contains" /\ Goto("c_validate")
             \/ k = "insert" /\ found[t] /\ Return(FALSE)
             \/ k = "insert" /\ ~found[t] /\ Goto("upgrade")
             \/ k = "remove" /\ found[t] /\ Goto("upgrade")
             \/ k = "remove" /\ ~found[t] /\ Return(FALSE)
    /\ UNCHANGED <<ptr, data, seq, alloc, op, prev, snap, curr, found, done>>

\* Mutant: contains retries the validation, not the find.
CValidateSpin(t) ==
    /\ pc[t] = "c_validate"
    /\ \/ /\ Valid(t)
          /\ res' = [res EXCEPT ![t] = found[t]]
          /\ pc' = [pc EXCEPT ![t] = "ret"]
       \/ ~Valid(t) /\ UNCHANGED <<res, pc>>
    /\ UNCHANGED <<ptr, data, seq, alloc, op, prev, snap, curr, found, done>>

\* contains: return find's answer if prev still validates, else loop.
CValidate(t) ==
    /\ pc[t] = "c_validate"
    /\ \/ /\ Valid(t)
          /\ res' = [res EXCEPT ![t] = found[t]]
          /\ pc' = [pc EXCEPT ![t] = "ret"]
       \/ ~Valid(t) /\ Retry(t) /\ UNCHANGED res
    /\ UNCHANGED <<ptr, data, seq, alloc, op, prev, snap, curr, found, done>>

\* ReadGuard::upgrade: CAS prev's number from the remembered one to odd;
\* on failure insert and remove go round their loops.
\* Mutant: upgrade stores the guard's number plus one instead of
\* compare-exchanging it.
UpgradeBlind(t) ==
    /\ pc[t] = "upgrade"
    /\ seq' = [seq EXCEPT ![prev[t]] = snap[t] + 1]
    /\ pc' = [pc EXCEPT ![t] = IF op[t].kind = "insert" THEN "link" ELSE "unlink"]
    /\ UNCHANGED <<ptr, data, alloc, op, res, prev, snap, curr, found, done>>

Upgrade(t) ==
    /\ pc[t] = "upgrade"
    /\ IF Valid(t)
         THEN /\ seq' = [seq EXCEPT ![prev[t]] = @ + 1]
              /\ pc' = [pc EXCEPT ![t] = IF op[t].kind = "insert" THEN "link" ELSE "unlink"]
         ELSE Retry(t) /\ UNCHANGED seq
    /\ UNCHANGED <<ptr, data, alloc, op, res, prev, snap, curr, found, done>>

\* insert: store Node::new(key, curr) through the write guard, which is
\* dropped as insert returns true.
Link(t) ==
    LET n == alloc + 1 IN
    /\ pc[t] = "link"
    /\ alloc < MaxNodes
    /\ alloc' = n
    /\ data' = [data EXCEPT ![n] = op[t].key]
    /\ ptr' = [ptr EXCEPT ![n] = curr[t], ![prev[t]] = n]
    /\ seq' = [seq EXCEPT ![prev[t]] = @ + 1]
    /\ res' = [res EXCEPT ![t] = TRUE]
    /\ pc' = [pc EXCEPT ![t] = "ret"]
    /\ UNCHANGED <<op, prev, snap, curr, found, done>>

\* Mutant: remove swaps curr.next out without write-locking it.
UnlinkNoLock(t) ==
    LET c == curr[t] IN
    /\ pc[t] = "unlink"
    /\ ptr' = [ptr EXCEPT ![prev[t]] = ptr[c], ![c] = Null]
    /\ seq' = [seq EXCEPT ![prev[t]] = @ + 1]
    /\ res' = [res EXCEPT ![t] = TRUE]
    /\ pc' = [pc EXCEPT ![t] = "ret"]
    /\ UNCHANGED <<data, alloc, op, prev, snap, curr, found, done>>

\* remove: write_lock curr.next (waiting for it to be free), swap null into
\* it, store its old value through prev's write guard, drop both guards.
Unlink(t) ==
    LET c == curr[t] IN
    /\ pc[t] = "unlink"
    /\ Even(c)
    /\ ptr' = [ptr EXCEPT ![prev[t]] = ptr[c], ![c] = Null]
    /\ seq' = [seq EXCEPT ![prev[t]] = @ + 1, ![c] = @ + 2]
    /\ res' = [res EXCEPT ![t] = TRUE]
    /\ pc' = [pc EXCEPT ![t] = "ret"]
    /\ UNCHANGED <<data, alloc, op, prev, snap, curr, found, done>>

Finish(t) ==
    /\ pc[t] = "ret"
    /\ pc' = [pc EXCEPT ![t] = "idle"]
    /\ op' = [op EXCEPT ![t] = Abs!NoOp]
    /\ res' = [res EXCEPT ![t] = NoRes]
    /\ found' = [found EXCEPT ![t] = NoRes]
    /\ done' = [done EXCEPT ![t] = done[t] + 1]
    /\ UNCHANGED <<ptr, data, seq, alloc, prev, snap, curr>>

\* Every thread has run its operations.
Terminated ==
    /\ \A t \in Threads : pc[t] = "idle" /\ done[t] = Len(Program[t])
    /\ UNCHANGED vars

Step(t) ==
    \/ Invoke(t) \/ ReadHead(t) \/ Find(t) \/ Advance(t) \/ Validate(t)
    \/ CValidate(t) \/ Upgrade(t) \/ Link(t) \/ Unlink(t) \/ Finish(t)

Next == (\E t \in Threads : Step(t)) \/ Terminated

Spec == Init /\ [][Next]_vars

\* Threads are preemptively scheduled; a writer holds a SeqLock only for a
\* bounded number of its own steps, so a spinning reader is not starved.
FairSpec == Spec /\ \A t \in Threads : WF_vars(Step(t))

-----------------------------------------------------------------------------
(***************************************************************************)
(* Properties.                                                             *)
(***************************************************************************)

\* The type of every variable; a read guard remembers an even number, the
\* one read_lock and restart wait for.
TypeOK ==
    /\ ptr \in [Cells -> NodeIds \cup {Null}]
    /\ data \in [NodeIds -> Keys \cup {NoRes}]
    /\ seq \in [Cells -> Nat]
    /\ alloc \in 0 .. MaxNodes
    /\ pc \in [Threads -> PCs]
    /\ op \in [Threads -> Abs!Ops \cup {Abs!NoOp}]
    /\ res \in [Threads -> BOOLEAN \cup {NoRes}]
    /\ prev \in [Threads -> Cells]
    /\ snap \in [Threads -> {n \in Nat : n % 2 = 0}]
    /\ curr \in [Threads -> NodeIds \cup {Null}]
    /\ found \in [Threads -> BOOLEAN \cup {NoRes}]
    /\ done \in [Threads -> Nat]

\* The list stays sorted without duplicates: along the reachable nodes the
\* keys strictly increase.  find stops at the first key not below the one
\* sought, and insert links its node between that prev and curr; a cursor
\* gone stale can only link before a node prev once pointed to, whose key
\* is still larger.
Sorted ==
    \A n \in Reach : ptr[n] # Null => data[n] < data[ptr[n]]

\* A read guard that still validates has seen the pointer as it is: every
\* write of a cell, by insert or by remove, changes its sequence number.
\* This is what the optimistic traversal rests on, for every thread whose
\* curr was loaded through its prev guard.
GuardSound ==
    \A t \in Threads :
        pc[t] \in {"find", "validate", "c_validate", "upgrade"} /\ Valid(t)
            => ptr[prev[t]] = curr[t]

\* Write-lock exclusion: no two threads are ever between a successful
\* upgrade of the same cell and the store through it, so insert's link
\* and remove's unlink never write one next pointer at the same time.
WriteLockExclusive ==
    \A t, u \in Threads :
        t # u /\ pc[t] \in {"link", "unlink"} /\ pc[u] \in {"link", "unlink"}
            => prev[t] # prev[u]

\* Every call returns: the retry loops of contains, insert and remove end
\* once the other threads stop writing, and no SeqLock is held forever.
OpsReturn == \A t \in Threads : pc[t] # "idle" ~> pc[t] = "idle"

\* contains, insert and remove take effect atomically: the list implements
\* the ConcurrentSet contract (SetSpec).
Linearizable == Abs!AbsSpec

=============================================================================
