----------------------- MODULE FineGrainedListProofs -----------------------
(***************************************************************************)
(* Proofs about the hand-over-hand locked list of FineGrainedList: the     *)
(* type invariant, and that a node remove frees is detached from the list  *)
(* and from every cursor, for every number of threads, keys and nodes.     *)
(***************************************************************************)
EXTENDS FineGrainedList, TLAPS

\* The program points at which a thread's cursor holds the guard of cell[t].
HoldPCs == {"find", "link", "unlink", "free", "iter", "ret"}

\* A node is dead once remove has unlinked it: it is freed, or it is the
\* victim of a remove that is about to drop it.
Dead(n) == n \in freed \/ \E t \in Threads : pc[t] = "free" /\ victim[t] = n

\* The Mutexes: a thread past lock_head holds exactly the guard of its
\* cursor's cell; a thread not holding any stands at the head.
LocksHeld ==
    /\ \A t \in Threads : pc[t] \in HoldPCs => holder[cell[t]] = t
    /\ \A t \in Threads : pc[t] \notin HoldPCs => cell[t] = HeadCell
    /\ \A c \in Cells : holder[c] # NoRes =>
          /\ pc[holder[c]] \in HoldPCs
          /\ cell[holder[c]] = c

\* Node::new hands out ids 1 .. alloc: no pointer, guard, cursor or victim
\* refers to a node not yet allocated; remove unlinks a node, never null.
Allocated ==
    /\ \A c \in Cells : ptr[c] \in (1 .. alloc) \cup {Null}
    /\ \A n \in NodeIds : n > alloc => ptr[n] = Null /\ holder[n] = NoRes
    /\ freed \subseteq 1 .. alloc
    /\ \A t \in Threads : pc[t] = "free" => victim[t] \in 1 .. alloc
    /\ \A t \in Threads : pc[t] = "unlink" => ptr[cell[t]] # Null

\* A dead node is detached: no live cell points to it, nobody holds its
\* guard, no cursor stands at it.
DeadDetached ==
    \A n \in NodeIds : Dead(n) =>
        /\ \A c \in Cells : ~Dead(c) => ptr[c] # n
        /\ holder[n] = NoRes
        /\ \A t \in Threads : cell[t] # n

\* The live cells form a list: no two of them point to the same node.
LiveInjective ==
    \A c, d \in Cells :
        c # d /\ ~Dead(c) /\ ~Dead(d) /\ ptr[c] # Null => ptr[c] # ptr[d]

\* Between unlink and drop(node), the victim still points where its
\* predecessor, held by the remover, now points.
VictimBypassed ==
    \A t \in Threads : pc[t] = "free" => ptr[victim[t]] = ptr[cell[t]]

IInv ==
    /\ TypeOK /\ LocksHeld /\ Allocated /\ DeadDetached /\ LiveInjective
    /\ VictimBypassed

USE ParamAssumption DEF HeadCell, Null

-----------------------------------------------------------------------------
\* FineGrainedListSet::new: no node, no guard held, every cursor at the head.
LEMMA InitIInv == Init => IInv
BY DEF Init, IInv, TypeOK, PCs, LocksHeld, HoldPCs, Allocated, DeadDetached,
       Dead, LiveInjective, VictimBypassed, Cells, NodeIds, Null, HeadCell,
       IterOp, Abs!NoOp

\* A step that sends no thread to or from "free" and frees nothing leaves
\* the dead nodes as they are.
LEMMA DeadFrame ==
    ASSUME NEW t \in Threads, pc[t] # "free", pc'[t] # "free",
           freed' = freed,
           \A u \in Threads \ {t} : pc'[u] = pc[u] /\ victim'[u] = victim[u]
    PROVE  \A n : Dead(n)' <=> Dead(n)
BY DEF Dead

\* A call: the thread leaves idle for lock_head, holding nothing yet.
LEMMA InvokeIInv ==
    ASSUME IInv, NEW t \in Threads, Invoke(t)
    PROVE  IInv'
<1>0. /\ pc[t] = "idle" /\ pc' = [pc EXCEPT ![t] = "lock_head"]
      /\ UNCHANGED <<ptr, data, holder, alloc, freed, res, cell, victim, refs, done>>
    BY DEF Invoke
<1>a. done[t] + 1 \in 1 .. Len(Program[t])
    BY DEF Invoke, IInv, TypeOK
<1>b. Program[t][done[t] + 1] \subseteq Abs!Ops \cup {IterOp}
    BY <1>a, ProgramAssumption
<1>c. op' \in [Threads -> Abs!Ops \cup {IterOp, Abs!NoOp}]
    BY <1>b DEF Invoke, IInv, TypeOK
<1>d. \A n : Dead(n)' <=> Dead(n)
    BY <1>0, DeadFrame DEF IInv, TypeOK
<1>e. \A u \in Threads : pc'[u] = "free" => pc[u] = "free"
    BY <1>0 DEF IInv, TypeOK
<1>1. TypeOK'
    BY <1>0, <1>c DEF IInv, TypeOK, PCs
<1>2. LocksHeld'
    BY <1>0 DEF IInv, LocksHeld, HoldPCs, TypeOK
<1>3. Allocated'
    BY <1>0 DEF IInv, Allocated, TypeOK
<1>4. DeadDetached'
    BY <1>0, <1>d DEF IInv, DeadDetached, TypeOK, Cells
<1>5. LiveInjective'
    BY <1>0, <1>d DEF IInv, LiveInjective, TypeOK, Cells
<1>6. VictimBypassed'
    BY <1>0, <1>e DEF IInv, VictimBypassed
<1> QED BY <1>1, <1>2, <1>3, <1>4, <1>5, <1>6 DEF IInv

\* The head is never dead: remove only unlinks nodes.
LEMMA HeadLive ==
    ASSUME IInv
    PROVE  ~Dead(HeadCell)
BY DEF IInv, Allocated, TypeOK, Dead, HeadCell

\* self.head.lock(): the head's guard goes to the caller, whose cursor
\* already stands at the head.
LEMMA LockHeadIInv ==
    ASSUME IInv, NEW t \in Threads, LockHead(t)
    PROVE  IInv'
<1>0. /\ pc[t] = "lock_head" /\ holder[HeadCell] = NoRes
      /\ holder' = [holder EXCEPT ![HeadCell] = t]
      /\ cell' = cell /\ cell[t] = HeadCell
      /\ pc' = [pc EXCEPT ![t] = IF op[t] = IterOp THEN "iter" ELSE "find"]
      /\ UNCHANGED <<ptr, data, alloc, freed, op, res, victim, refs, done>>
    BY DEF LockHead, IInv, LocksHeld, HoldPCs, TypeOK
<1>d. \A n : Dead(n)' <=> Dead(n)
    BY <1>0, DeadFrame DEF IInv, TypeOK
<1>e. \A u \in Threads : pc'[u] = "free" => pc[u] = "free"
    BY <1>0 DEF IInv, TypeOK
<1>h. ~Dead(HeadCell)
    BY HeadLive
<1>1. TypeOK'
    BY <1>0 DEF IInv, TypeOK, PCs, Cells
<1>2. LocksHeld'
    BY <1>0 DEF IInv, LocksHeld, HoldPCs, TypeOK, Cells
<1>3. Allocated'
    BY <1>0 DEF IInv, Allocated, TypeOK, NodeIds, HeadCell
<1>4. DeadDetached'
    BY <1>0, <1>d, <1>h DEF IInv, DeadDetached, TypeOK, Cells
<1>5. LiveInjective'
    BY <1>0, <1>d DEF IInv, LiveInjective
<1>6. VictimBypassed'
    BY <1>0, <1>e DEF IInv, VictimBypassed
<1> QED BY <1>1, <1>2, <1>3, <1>4, <1>5, <1>6 DEF IInv

\* drop(node): the victim moves from the remover's hands to the freed set.
LEMMA FreeIInv ==
    ASSUME IInv, NEW t \in Threads, Free(t)
    PROVE  IInv'
<1>0. /\ pc[t] = "free" /\ pc' = [pc EXCEPT ![t] = "ret"]
      /\ freed' = freed \cup {victim[t]}
      /\ UNCHANGED <<ptr, data, holder, alloc, op, res, cell, victim, refs, done>>
    BY DEF Free
<1>d. \A n : Dead(n)' <=> Dead(n)
    BY <1>0 DEF IInv, TypeOK, Dead
<1>e. \A u \in Threads : pc'[u] = "free" => pc[u] = "free"
    BY <1>0 DEF IInv, TypeOK
<1>1. TypeOK'
    <2>1. victim[t] \in NodeIds
        BY <1>0 DEF IInv, TypeOK, Allocated, NodeIds
    <2> QED BY <1>0, <2>1 DEF IInv, TypeOK, PCs
<1>2. LocksHeld'
    BY <1>0 DEF IInv, LocksHeld, HoldPCs, TypeOK
<1>3. Allocated'
    BY <1>0 DEF IInv, Allocated, TypeOK
<1>4. DeadDetached'
    BY <1>0, <1>d DEF IInv, DeadDetached
<1>5. LiveInjective'
    BY <1>0, <1>d DEF IInv, LiveInjective
<1>6. VictimBypassed'
    BY <1>0, <1>e DEF IInv, VictimBypassed
<1> QED BY <1>1, <1>2, <1>3, <1>4, <1>5, <1>6 DEF IInv

\* The cursor goes out of scope: its guard is dropped, the thread is idle.
LEMMA FinishIInv ==
    ASSUME IInv, NEW t \in Threads, Finish(t)
    PROVE  IInv'
<1>0. /\ pc[t] = "ret" /\ pc' = [pc EXCEPT ![t] = "idle"]
      /\ holder' = [holder EXCEPT ![cell[t]] = NoRes]
      /\ cell' = [cell EXCEPT ![t] = HeadCell]
      /\ victim' = [victim EXCEPT ![t] = Null]
      /\ op' = [op EXCEPT ![t] = Abs!NoOp]
      /\ res' = [res EXCEPT ![t] = NoRes]
      /\ refs' = [refs EXCEPT ![t] = {}]
      /\ done' = [done EXCEPT ![t] = done[t] + 1]
      /\ UNCHANGED <<ptr, data, alloc, freed>>
    BY DEF Finish
<1>d. \A n : Dead(n)' <=> Dead(n)
    BY <1>0, DeadFrame DEF IInv, TypeOK
<1>e. \A u \in Threads : pc'[u] = "free" => pc[u] = "free"
    BY <1>0 DEF IInv, TypeOK
<1>h. ~Dead(HeadCell)
    BY HeadLive
<1>1. TypeOK'
    BY <1>0 DEF IInv, TypeOK, PCs, Cells, Null, HeadCell, Abs!NoOp
<1>2. LocksHeld'
    BY <1>0 DEF IInv, LocksHeld, HoldPCs, TypeOK
<1>3. Allocated'
    BY <1>0 DEF IInv, Allocated, TypeOK, LocksHeld, HoldPCs
<1>4. DeadDetached'
    BY <1>0, <1>d, <1>h DEF IInv, DeadDetached, TypeOK
<1>5. LiveInjective'
    BY <1>0, <1>d DEF IInv, LiveInjective
<1>6. VictimBypassed'
    BY <1>0, <1>e DEF IInv, VictimBypassed, TypeOK
<1> QED BY <1>1, <1>2, <1>3, <1>4, <1>5, <1>6 DEF IInv

\* The cell a thread's cursor holds is live, and so is the node it points to.
LEMMA HeldLive ==
    ASSUME IInv, NEW t \in Threads, pc[t] \in HoldPCs
    PROVE  /\ ~Dead(cell[t])
           /\ ptr[cell[t]] # Null => ~Dead(ptr[cell[t]])
<1>1. ~Dead(cell[t])
    <2>1. holder[cell[t]] = t /\ t # NoRes
        BY DEF IInv, LocksHeld
    <2>2. cell[t] \in NodeIds => (Dead(cell[t]) => holder[cell[t]] = NoRes)
        BY DEF IInv, DeadDetached
    <2>3. cell[t] \notin NodeIds => ~Dead(cell[t])
        BY HeadLive DEF IInv, TypeOK, Cells
    <2> QED BY <2>1, <2>2, <2>3
<1>2. ptr[cell[t]] # Null => ~Dead(ptr[cell[t]])
    BY <1>1 DEF IInv, DeadDetached, TypeOK, Allocated, Dead, NodeIds
<1> QED BY <1>1, <1>2

\* The hand-over-hand step of Cursor::find and of Iter::next: lock the
\* next cell (free), make it the cursor's, drop the guard held before.
LEMMA AdvanceIInv ==
    ASSUME IInv, NEW t \in Threads, pc[t] \in {"find", "iter"},
           ptr[cell[t]] # Null, holder[ptr[cell[t]]] = NoRes,
           holder' = [holder EXCEPT ![ptr[cell[t]]] = t, ![cell[t]] = NoRes],
           cell' = [cell EXCEPT ![t] = ptr[cell[t]]],
           refs' \in [Threads -> SUBSET NodeIds],
           UNCHANGED <<ptr, data, alloc, freed, pc, op, res, victim, done>>
    PROVE  IInv'
<1> DEFINE p == ptr[cell[t]]
<1>0. /\ p \in 1 .. alloc /\ p \in NodeIds /\ p # cell[t]
      /\ holder[cell[t]] = t /\ ~Dead(p)
    <2>1. p \in 1 .. alloc
        BY DEF IInv, TypeOK, Allocated
    <2>2. holder[cell[t]] = t
        BY DEF IInv, LocksHeld, HoldPCs
    <2>3. ~Dead(p)
        BY HeldLive DEF HoldPCs
    <2> QED BY <2>1, <2>2, <2>3 DEF IInv, TypeOK, NodeIds
<1>d. \A n : Dead(n)' <=> Dead(n)
    BY DEF Dead
<1>1. TypeOK'
    BY <1>0 DEF IInv, TypeOK, Cells
<1>2. LocksHeld'
    BY <1>0 DEF IInv, LocksHeld, HoldPCs, TypeOK, Cells
<1>3. Allocated'
    BY <1>0 DEF IInv, Allocated, TypeOK, Cells
<1>4. DeadDetached'
    BY <1>0, <1>d DEF IInv, DeadDetached, TypeOK, Cells
<1>5. LiveInjective'
    BY <1>d DEF IInv, LiveInjective
<1>6. VictimBypassed'
    BY DEF IInv, VictimBypassed, TypeOK
<1> QED BY <1>1, <1>2, <1>3, <1>4, <1>5, <1>6 DEF IInv

\* The end of Cursor::find: the thread keeps its guard and returns, links
\* or unlinks; it unlinks only a node it found.
LEMMA DecideIInv ==
    ASSUME IInv, NEW t \in Threads, pc[t] = "find",
           Decide(t, ptr[cell[t]] # Null /\ data[ptr[cell[t]]] = op[t].key),
           UNCHANGED <<holder, cell, ptr, data, alloc, freed, op, victim, refs, done>>
    PROVE  IInv'
<1>0. /\ pc' = [pc EXCEPT ![t] = pc'[t]]
      /\ pc'[t] \in {"ret", "link", "unlink"}
      /\ res' \in [Threads -> BOOLEAN \cup {NoRes}]
      /\ pc'[t] = "unlink" => ptr[cell[t]] # Null
    BY DEF Decide, IInv, TypeOK
<1>d. \A n : Dead(n)' <=> Dead(n)
    BY <1>0, DeadFrame DEF IInv, TypeOK
<1>e. \A u \in Threads : pc'[u] = "free" => pc[u] = "free"
    BY <1>0 DEF IInv, TypeOK
<1>1. TypeOK'
    BY <1>0 DEF IInv, TypeOK, PCs
<1>2. LocksHeld'
    BY <1>0 DEF IInv, LocksHeld, HoldPCs, TypeOK
<1>3. Allocated'
    BY <1>0 DEF IInv, Allocated, TypeOK
<1>4. DeadDetached'
    BY <1>d DEF IInv, DeadDetached
<1>5. LiveInjective'
    BY <1>d DEF IInv, LiveInjective
<1>6. VictimBypassed'
    BY <1>0, <1>e DEF IInv, VictimBypassed
<1> QED BY <1>1, <1>2, <1>3, <1>4, <1>5, <1>6 DEF IInv

\* One iteration of Cursor::find.
LEMMA FindIInv ==
    ASSUME IInv, NEW t \in Threads, Find(t)
    PROVE  IInv'
<1>1. CASE Decide(t, ptr[cell[t]] # Null /\ data[ptr[cell[t]]] = op[t].key)
              /\ UNCHANGED <<holder, cell>>
    BY <1>1, DecideIInv DEF Find
<1>2. CASE ptr[cell[t]] # Null /\ holder[ptr[cell[t]]] = NoRes
              /\ holder' = [holder EXCEPT ![ptr[cell[t]]] = t, ![cell[t]] = NoRes]
              /\ cell' = [cell EXCEPT ![t] = ptr[cell[t]]]
              /\ UNCHANGED <<pc, res>>
    BY <1>2, AdvanceIInv DEF Find, IInv, TypeOK
<1> QED BY <1>1, <1>2 DEF Find

\* Iter::next.
LEMMA IterNextIInv ==
    ASSUME IInv, NEW t \in Threads, IterNext(t)
    PROVE  IInv'
<1>1. CASE ptr[cell[t]] = Null /\ pc' = [pc EXCEPT ![t] = "ret"]
              /\ UNCHANGED <<holder, cell, refs>>
    <2>0. pc[t] = "iter" /\ UNCHANGED <<ptr, data, alloc, freed, op, res, victim, done>>
        BY DEF IterNext
    <2>d. \A n : Dead(n)' <=> Dead(n)
        BY <1>1, <2>0, DeadFrame DEF IInv, TypeOK
    <2>e. \A u \in Threads : pc'[u] = "free" => pc[u] = "free"
        BY <1>1 DEF IInv, TypeOK
    <2>1. TypeOK'
        BY <1>1, <2>0 DEF IInv, TypeOK, PCs
    <2>2. LocksHeld'
        BY <1>1, <2>0 DEF IInv, TypeOK, LocksHeld, HoldPCs
    <2>3. Allocated'
        BY <1>1, <2>0 DEF IInv, TypeOK, Allocated
    <2>4. DeadDetached' /\ LiveInjective' /\ VictimBypassed'
        BY <1>1, <2>0, <2>d, <2>e DEF IInv, DeadDetached, LiveInjective, VictimBypassed
    <2> QED BY <2>1, <2>2, <2>3, <2>4 DEF IInv
<1>2. CASE ptr[cell[t]] # Null /\ holder[ptr[cell[t]]] = NoRes
              /\ holder' = [holder EXCEPT ![ptr[cell[t]]] = t, ![cell[t]] = NoRes]
              /\ cell' = [cell EXCEPT ![t] = ptr[cell[t]]]
              /\ refs' = [refs EXCEPT ![t] = refs[t] \cup {ptr[cell[t]]}]
              /\ UNCHANGED pc
    <2>1. ptr[cell[t]] \in NodeIds
        BY <1>2 DEF IInv, TypeOK
    <2> QED BY <1>2, <2>1, AdvanceIInv DEF IterNext, IInv, TypeOK
<1> QED BY <1>1, <1>2 DEF IterNext

\* Two cursors never hold the same cell, and no cursor holds a node not
\* yet allocated.
LEMMA HeldCells ==
    ASSUME IInv, NEW t \in Threads, pc[t] \in HoldPCs
    PROVE  /\ \A u \in Threads \ {t} : pc[u] \in HoldPCs => cell[u] # cell[t]
           /\ cell[t] \in {HeadCell} \cup 1 .. alloc
<1>1. \A u \in Threads \ {t} : pc[u] \in HoldPCs => cell[u] # cell[t]
    BY DEF IInv, LocksHeld
<1>2. cell[t] \in {HeadCell} \cup 1 .. alloc
    BY DEF IInv, LocksHeld, Allocated, TypeOK, Cells, NodeIds, HeadCell
<1> QED BY <1>1, <1>2

\* insert: *prev = Node::new(key, *prev).  The new node takes over the
\* pointer of the cell the cursor holds and that cell points to it.
LEMMA LinkIInv ==
    ASSUME IInv, NEW t \in Threads, Link(t)
    PROVE  IInv'
<1> DEFINE n == alloc + 1
           c == cell[t]
           q == ptr[cell[t]]
<1>0. /\ pc[t] = "link" /\ alloc < MaxNodes /\ alloc' = n
      /\ data' = [data EXCEPT ![n] = op[t].key]
      /\ ptr' = [ptr EXCEPT ![n] = q, ![c] = n]
      /\ res' = [res EXCEPT ![t] = TRUE]
      /\ pc' = [pc EXCEPT ![t] = "ret"]
      /\ UNCHANGED <<holder, freed, op, cell, victim, refs, done>>
    BY DEF Link
<1>z. alloc \in 0 .. MaxNodes
    BY DEF IInv, TypeOK
<1>a1. n \in NodeIds /\ c \in {HeadCell} \cup 1 .. alloc /\ c # n
    BY <1>0, <1>z, HeldCells DEF HoldPCs, IInv, TypeOK, NodeIds
<1>a2. ~Dead(c) /\ ~Dead(n) /\ (q # Null => ~Dead(q))
    <2>1. ~Dead(c) /\ (q # Null => ~Dead(q))
        BY <1>0, <1>z, HeldLive DEF HoldPCs
    <2>2. ~Dead(n)
        BY <1>0, <1>z DEF IInv, TypeOK, Allocated, Dead
    <2> QED BY <2>1, <2>2
<1>a3. q \in (1 .. alloc) \cup {Null}
    BY DEF IInv, Allocated, TypeOK
<1>a4. \A u \in Threads \ {t} : pc[u] \in HoldPCs => cell[u] # c
    BY <1>0, <1>z, HeldCells DEF HoldPCs
<1>b. /\ ptr' \in [Cells -> NodeIds \cup {Null}]
      /\ ptr'[n] = q /\ ptr'[c] = n
      /\ \A d \in Cells \ {n, c} : ptr'[d] = ptr[d]
    BY <1>0, <1>z, <1>a1, <1>a3 DEF IInv, TypeOK, Cells
<1>d. \A m : Dead(m)' <=> Dead(m)
    BY <1>0, <1>z, DeadFrame DEF IInv, TypeOK
<1>e. \A u \in Threads : pc'[u] = "free" => pc[u] = "free"
    BY <1>0, <1>z DEF IInv, TypeOK
<1>1. TypeOK'
    <2>1. op[t].key \in Keys \cup {NoRes}
        BY DEF IInv, TypeOK, Abs!Ops, Abs!NoOp, IterOp
    <2>2. data' \in [NodeIds -> Keys \cup {NoRes}]
        BY <1>0, <1>z, <2>1 DEF IInv, TypeOK
    <2>3. alloc' \in 0 .. MaxNodes /\ res' \in [Threads -> BOOLEAN \cup {NoRes}]
        BY <1>0, <1>z DEF IInv, TypeOK
    <2>4. pc' \in [Threads -> PCs]
        BY <1>0, <1>z DEF IInv, TypeOK, PCs
    <2> QED BY <1>0, <1>z, <1>b, <2>2, <2>3, <2>4 DEF IInv, TypeOK
<1>2. LocksHeld'
    BY <1>0, <1>z DEF IInv, LocksHeld, HoldPCs, TypeOK
<1>3. Allocated'
    <2>1. \A d \in Cells : ptr'[d] \in (1 .. alloc') \cup {Null}
        <3> SUFFICES ASSUME NEW d \in Cells PROVE ptr'[d] \in (1 .. alloc') \cup {Null}
            OBVIOUS
        <3>1. CASE d = n
            BY <3>1, <1>0, <1>z, <1>a3, <1>b
        <3>2. CASE d = c
            BY <3>2, <1>0, <1>z, <1>a1, <1>b
        <3>3. CASE d \notin {n, c}
            <4>1. ptr[d] \in (1 .. alloc) \cup {Null}
                BY DEF IInv, Allocated
            <4> QED BY <3>3, <4>1, <1>0, <1>z, <1>b
        <3> QED BY <3>1, <3>2, <3>3
    <2>2. \A m \in NodeIds : m > alloc' => ptr'[m] = Null /\ holder'[m] = NoRes
        <3> SUFFICES ASSUME NEW m \in NodeIds, m > alloc' PROVE ptr'[m] = Null /\ holder'[m] = NoRes
            OBVIOUS
        <3>1. m > alloc /\ m # n /\ m # c /\ m \in Cells
            BY <1>0, <1>z, <1>a1 DEF Cells, NodeIds
        <3> QED BY <3>1, <1>0, <1>z, <1>b DEF IInv, Allocated
    <2>3. \A u \in Threads : pc'[u] = "unlink" => ptr'[cell'[u]] # Null
        <3> SUFFICES ASSUME NEW u \in Threads, pc'[u] = "unlink"
                     PROVE  ptr'[cell'[u]] # Null
            OBVIOUS
        <3>1. u # t /\ pc[u] = "unlink"
            BY <1>0, <1>z DEF IInv, TypeOK
        <3>2. cell[u] \in {HeadCell} \cup 1 .. alloc
            BY <3>1, HeldCells DEF HoldPCs
        <3>3. cell[u] # c /\ cell[u] # n /\ cell[u] \in Cells
            BY <1>z, <3>1, <3>2, <1>a1, <1>a4 DEF HoldPCs, Cells, NodeIds
        <3> QED BY <3>1, <3>3, <1>0, <1>z, <1>b DEF IInv, Allocated
    <2>4. /\ freed' \subseteq 1 .. alloc'
          /\ \A u \in Threads : pc'[u] = "free" => victim'[u] \in 1 .. alloc'
        BY <1>0, <1>z, <1>e DEF IInv, Allocated
    <2> QED BY <2>1, <2>2, <2>3, <2>4 DEF Allocated
<1>4. DeadDetached'
    <2> SUFFICES ASSUME NEW m \in NodeIds, Dead(m)'
                 PROVE  /\ \A d \in Cells : ~Dead(d)' => ptr'[d] # m
                        /\ holder'[m] = NoRes
                        /\ \A u \in Threads : cell'[u] # m
        BY DEF DeadDetached
    <2>1. Dead(m) /\ m # n /\ (q # Null => m # q)
        BY <1>d, <1>a2
    <2>2. \A d \in Cells : ~Dead(d)' => ptr'[d] # m
        <3> SUFFICES ASSUME NEW d \in Cells, ~Dead(d)' PROVE ptr'[d] # m
            OBVIOUS
        <3>1. ~Dead(d)
            BY <1>d
        <3>2. CASE d = n
            BY <3>2, <2>1, <1>b DEF NodeIds
        <3>3. CASE d = c
            BY <3>3, <2>1, <1>b
        <3>4. CASE d \notin {n, c}
            BY <3>1, <3>4, <2>1, <1>b DEF IInv, DeadDetached
        <3> QED BY <3>2, <3>3, <3>4
    <2>3. holder'[m] = NoRes /\ \A u \in Threads : cell'[u] # m
        BY <1>0, <2>1 DEF IInv, DeadDetached
    <2> QED BY <2>2, <2>3
<1>5. LiveInjective'
    <2> SUFFICES ASSUME NEW c1 \in Cells, NEW c2 \in Cells, c1 # c2,
                        ~Dead(c1)', ~Dead(c2)', ptr'[c1] # Null
                 PROVE  ptr'[c1] # ptr'[c2]
        BY DEF LiveInjective
    <2>1. ~Dead(c1) /\ ~Dead(c2)
        BY <1>d
    <2>2. \A d \in Cells : ptr[d] # n
        BY DEF IInv, Allocated, TypeOK
    <2>3. \A d \in Cells \ {c} : ~Dead(d) /\ q # Null => ptr[d] # q
        BY <1>a2 DEF IInv, LiveInjective, TypeOK
    <2> QED BY <1>b, <1>a1, <1>a2, <1>a3, <2>1, <2>2, <2>3 DEF IInv, LiveInjective, Cells
<1>6. VictimBypassed'
    <2> SUFFICES ASSUME NEW u \in Threads, pc'[u] = "free"
                 PROVE  ptr'[victim'[u]] = ptr'[cell'[u]]
        BY DEF VictimBypassed
    <2>1. u # t /\ pc[u] = "free"
        BY <1>0, <1>z DEF IInv, TypeOK
    <2>2. victim[u] \in 1 .. alloc /\ Dead(victim[u])
        BY <2>1 DEF IInv, Allocated, Dead
    <2>3. cell[u] # c /\ cell[u] \in {HeadCell} \cup 1 .. alloc
        BY <2>1, <1>a4, HeldCells DEF HoldPCs
    <2>4. victim[u] \notin {n, c} /\ victim[u] \in Cells
          /\ cell[u] \notin {n, c} /\ cell[u] \in Cells
        BY <1>z, <1>a1, <1>a2, <2>2, <2>3 DEF Cells, NodeIds
    <2> QED BY <1>0, <1>b, <2>1, <2>4 DEF IInv, VictimBypassed
<1> QED BY <1>1, <1>2, <1>3, <1>4, <1>5, <1>6 DEF IInv

\* remove: *prev = *node.next.lock().unwrap().  The remover's cell now
\* bypasses the victim, whose guard nobody holds; the victim becomes dead.
LEMMA UnlinkIInv ==
    ASSUME IInv, NEW t \in Threads, Unlink(t)
    PROVE  IInv'
<1> DEFINE c == cell[t]
           v == ptr[cell[t]]
           m == ptr[ptr[cell[t]]]
<1>0. /\ pc[t] = "unlink" /\ holder[v] = NoRes
      /\ ptr' = [ptr EXCEPT ![c] = m]
      /\ victim' = [victim EXCEPT ![t] = v]
      /\ res' = [res EXCEPT ![t] = TRUE]
      /\ pc' = [pc EXCEPT ![t] = "free"]
      /\ UNCHANGED <<data, holder, alloc, freed, op, cell, refs, done>>
    BY DEF Unlink
<1>z. alloc \in 0 .. MaxNodes
    BY DEF IInv, TypeOK
<1>a1. /\ c \in {HeadCell} \cup 1 .. alloc /\ holder[c] = t
       /\ v \in 1 .. alloc /\ v # c
       /\ m \in (1 .. alloc) \cup {Null}
    <2>1. c \in {HeadCell} \cup 1 .. alloc /\ holder[c] = t
        BY <1>0, HeldCells DEF HoldPCs, IInv, LocksHeld
    <2>2. v \in 1 .. alloc
        BY <1>0 DEF IInv, Allocated, TypeOK
    <2>3. m \in (1 .. alloc) \cup {Null}
        BY <1>z, <2>2 DEF IInv, Allocated, Cells, NodeIds
    <2> QED BY <1>0, <2>1, <2>2, <2>3 DEF IInv, TypeOK
<1>a2. ~Dead(c) /\ ~Dead(v) /\ (m # Null => ~Dead(m))
    <2>1. ~Dead(c) /\ ~Dead(v)
        BY <1>0, <1>a1, HeldLive DEF HoldPCs
    <2>2. m # Null => ~Dead(m)
        BY <1>z, <1>a1, <2>1 DEF IInv, DeadDetached, Cells, NodeIds
    <2> QED BY <2>1, <2>2
<1>a3. m # v
    <2>1. c \in Cells /\ v \in Cells
        BY <1>z, <1>a1 DEF Cells, NodeIds
    <2> QED BY <2>1, <1>a1, <1>a2 DEF IInv, LiveInjective
<1>a4. \A u \in Threads \ {t} : pc[u] \in HoldPCs => cell[u] # c
    BY <1>0, HeldCells DEF HoldPCs
<1>b. /\ ptr' \in [Cells -> NodeIds \cup {Null}]
      /\ ptr'[c] = m
      /\ \A d \in Cells \ {c} : ptr'[d] = ptr[d]
    BY <1>0, <1>z, <1>a1 DEF IInv, TypeOK, Cells, NodeIds
<1>d. \A x : Dead(x)' <=> Dead(x) \/ x = v
    BY <1>0 DEF IInv, TypeOK, Dead
<1>1. TypeOK'
    BY <1>0, <1>z, <1>a1, <1>b DEF IInv, TypeOK, PCs, NodeIds
<1>2. LocksHeld'
    BY <1>0 DEF IInv, LocksHeld, HoldPCs, TypeOK
<1>3. Allocated'
    <2>1. \A d \in Cells : ptr'[d] \in (1 .. alloc') \cup {Null}
        BY <1>0, <1>a1, <1>b DEF IInv, Allocated
    <2>2. \A x \in NodeIds : x > alloc' => ptr'[x] = Null /\ holder'[x] = NoRes
        BY <1>0, <1>z, <1>a1, <1>b DEF IInv, Allocated, Cells, NodeIds
    <2>3. \A u \in Threads : pc'[u] = "free" => victim'[u] \in 1 .. alloc'
        BY <1>0, <1>a1 DEF IInv, Allocated, TypeOK
    <2>4. \A u \in Threads : pc'[u] = "unlink" => ptr'[cell'[u]] # Null
        <3> SUFFICES ASSUME NEW u \in Threads, pc'[u] = "unlink"
                     PROVE  ptr'[cell'[u]] # Null
            OBVIOUS
        <3>1. u # t /\ pc[u] = "unlink" /\ cell[u] # c /\ cell[u] \in Cells
            BY <1>0, <1>a4 DEF IInv, TypeOK, HoldPCs
        <3> QED BY <3>1, <1>0, <1>b DEF IInv, Allocated
    <2> QED BY <1>0, <2>1, <2>2, <2>3, <2>4 DEF IInv, Allocated
<1>4. DeadDetached'
    <2> SUFFICES ASSUME NEW x \in NodeIds, Dead(x)'
                 PROVE  /\ \A d \in Cells : ~Dead(d)' => ptr'[d] # x
                        /\ holder'[x] = NoRes
                        /\ \A u \in Threads : cell'[u] # x
        BY DEF DeadDetached
    <2>1. CASE x = v
        <3>1. \A d \in Cells : ~Dead(d)' => ptr'[d] # x
            <4> SUFFICES ASSUME NEW d \in Cells, ~Dead(d)' PROVE ptr'[d] # x
                OBVIOUS
            <4>1. ~Dead(d) /\ d # v
                BY <1>d
            <4>2. CASE d = c
                BY <2>1, <4>2, <1>b, <1>a3
            <4>3. CASE d # c
                BY <2>1, <4>1, <4>3, <1>b, <1>a1, <1>a2 DEF IInv, LiveInjective, TypeOK
            <4> QED BY <4>2, <4>3
        <3>2. \A u \in Threads : cell[u] # v
            BY <1>0, <1>a1 DEF IInv, LocksHeld, TypeOK, NodeIds
        <3> QED BY <2>1, <3>1, <3>2, <1>0
    <2>2. CASE x # v
        <3>1. Dead(x)
            BY <2>2, <1>d
        <3>2. \A d \in Cells : ~Dead(d)' => ptr'[d] # x
            <4> SUFFICES ASSUME NEW d \in Cells, ~Dead(d)' PROVE ptr'[d] # x
                OBVIOUS
            <4>1. ~Dead(d)
                BY <1>d
            <4>2. CASE d = c
                BY <3>1, <4>2, <1>b, <1>a2 DEF NodeIds
            <4>3. CASE d # c
                BY <3>1, <4>1, <4>3, <1>b DEF IInv, DeadDetached
            <4> QED BY <4>2, <4>3
        <3> QED BY <3>1, <3>2, <1>0 DEF IInv, DeadDetached
    <2> QED BY <2>1, <2>2
<1>5. LiveInjective'
    <2> SUFFICES ASSUME NEW c1 \in Cells, NEW c2 \in Cells, c1 # c2,
                        ~Dead(c1)', ~Dead(c2)', ptr'[c1] # Null
                 PROVE  ptr'[c1] # ptr'[c2]
        BY DEF LiveInjective
    <2>1. ~Dead(c1) /\ ~Dead(c2) /\ c1 # v /\ c2 # v
        BY <1>d
    <2>2. v \in Cells
        BY <1>z, <1>a1 DEF Cells, NodeIds
    <2>3. CASE c1 = c
        BY <2>1, <2>2, <2>3, <1>a2, <1>b DEF IInv, LiveInjective
    <2>4. CASE c2 = c
        BY <2>1, <2>2, <2>4, <1>a2, <1>b DEF IInv, LiveInjective
    <2>5. CASE c1 # c /\ c2 # c
        BY <2>1, <2>5, <1>b DEF IInv, LiveInjective
    <2> QED BY <2>3, <2>4, <2>5
<1>6. VictimBypassed'
    <2> SUFFICES ASSUME NEW u \in Threads, pc'[u] = "free"
                 PROVE  ptr'[victim'[u]] = ptr'[cell'[u]]
        BY DEF VictimBypassed
    <2>1. CASE u = t
        <3>1. v \in Cells \ {c}
            BY <1>z, <1>a1 DEF Cells, NodeIds
        <3> QED BY <2>1, <3>1, <1>0, <1>b DEF IInv, TypeOK
    <2>2. CASE u # t
        <3>1. pc[u] = "free" /\ victim'[u] = victim[u]
            BY <2>2, <1>0 DEF IInv, TypeOK
        <3>2. victim[u] \in Cells \ {c} /\ Dead(victim[u])
            BY <3>1, <1>z, <1>a2 DEF IInv, Allocated, Dead, Cells, NodeIds
        <3>3. cell[u] \in Cells \ {c}
            BY <2>2, <3>1, <1>a4 DEF HoldPCs, IInv, TypeOK
        <3> QED BY <3>1, <3>2, <3>3, <1>0, <1>b DEF IInv, VictimBypassed
    <2> QED BY <2>1, <2>2
<1> QED BY <1>1, <1>2, <1>3, <1>4, <1>5, <1>6 DEF IInv

-----------------------------------------------------------------------------
\* Every step of every thread, and the final stutter, keeps IInv.
THEOREM NextIInv == IInv /\ [Next]_vars => IInv'
<1> SUFFICES ASSUME IInv, [Next]_vars PROVE IInv'
    OBVIOUS
<1>1. CASE \E t \in Threads : Step(t)
    BY <1>1, InvokeIInv, LockHeadIInv, FindIInv, LinkIInv, UnlinkIInv,
       FreeIInv, IterNextIInv, FinishIInv DEF Step
<1>2. CASE Terminated \/ UNCHANGED vars
    <2>1. /\ ptr' = ptr /\ data' = data /\ holder' = holder /\ alloc' = alloc
          /\ freed' = freed /\ pc' = pc /\ op' = op /\ res' = res
          /\ cell' = cell /\ victim' = victim /\ refs' = refs /\ done' = done
        BY <1>2 DEF Terminated, vars
    <2>2. TypeOK' /\ LocksHeld' /\ Allocated'
        BY <2>1 DEF IInv, TypeOK, LocksHeld, Allocated
    <2>3. DeadDetached' /\ LiveInjective' /\ VictimBypassed'
        BY <2>1 DEF IInv, DeadDetached, Dead, LiveInjective, VictimBypassed
    <2> QED BY <2>2, <2>3 DEF IInv
<1> QED BY <1>1, <1>2 DEF Next

\* IInv holds in every reachable state of the list.
THEOREM IInvInvariant == Spec => []IInv
BY InitIInv, NextIInv, PTL DEF Spec

\* The type invariant of FineGrainedList holds for every thread set, key set
\* and node bound.
THEOREM TypeCorrect == Spec => []TypeOK
BY IInvInvariant, PTL DEF IInv

\* A node remove has unlinked is not left attached: no cell of a node that is
\* not freed points to it, not even the victim of a remove that has yet to
\* drop it, and no cursor holds or stands at it.
LEMMA IInvFreedDetached == IInv => FreedDetached
<1> SUFFICES ASSUME IInv, NEW n \in freed
             PROVE  /\ \A c \in Cells \ freed : ptr[c] # n
                    /\ holder[n] = NoRes
                    /\ \A t \in Threads : cell[t] # n
    BY DEF FreedDetached
<1>1. n \in NodeIds /\ Dead(n)
    BY DEF IInv, TypeOK, Dead
<1>2. \A c \in Cells \ freed : ptr[c] # n
    <2> SUFFICES ASSUME NEW c \in Cells \ freed PROVE ptr[c] # n
        OBVIOUS
    <2>1. CASE ~Dead(c)
        BY <1>1, <2>1 DEF IInv, DeadDetached
    <2>2. CASE Dead(c)
        <3>1. PICK u \in Threads : pc[u] = "free" /\ victim[u] = c
            BY <2>2 DEF Dead
        <3>2. ptr[c] = ptr[cell[u]]
            BY <3>1 DEF IInv, VictimBypassed
        <3>3. ~Dead(cell[u]) /\ cell[u] \in Cells
            BY <3>1, HeldLive DEF HoldPCs, IInv, TypeOK
        <3> QED BY <1>1, <3>2, <3>3 DEF IInv, DeadDetached
    <2> QED BY <2>1, <2>2
<1> QED BY <1>1, <1>2 DEF IInv, DeadDetached

\* Every reachable state satisfies FreedDetached: remove's locking of
\* node.next before drop(node) keeps every cursor and Iter off a freed node.
THEOREM FreedDetachedInvariant == Spec => []FreedDetached
BY IInvInvariant, IInvFreedDetached, PTL

=============================================================================
