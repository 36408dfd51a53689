----------------------- MODULE OptimisticListProofs -----------------------
(***************************************************************************)
(* Proofs about OptimisticList for every thread set, key set, node bound   *)
(* and program: the read guards of the optimistic traversal are sound.    *)
(***************************************************************************)
EXTENDS OptimisticList, TLAPS

Alloced == 1 .. alloc

\* Every pointer, and every cursor, refers to an allocated node.
PtrsAlloced ==
    /\ \A c \in Cells : ptr[c] \in Alloced \cup {Null}
    /\ \A t \in Threads : prev[t] \in Alloced \cup {HeadCell}
    /\ \A t \in Threads : curr[t] \in Alloced \cup {Null}

\* A cursor that is about to read through curr, or that found its key,
\* stands on a node; a remove upgrades only on a found key.
OnNode ==
    \A t \in Threads :
        /\ \/ pc[t] \in {"advance", "unlink"}
           \/ pc[t] \in {"validate", "c_validate", "upgrade"} /\ found[t] = TRUE
           => curr[t] # Null
        /\ pc[t] = "upgrade" /\ op[t].kind # "insert" => found[t] = TRUE

\* A read guard never remembers a number its cell has not reached:
\* sequence numbers only grow.
SnapBound == \A t \in Threads : snap[t] <= seq[prev[t]]

\* A thread between a successful upgrade and its store holds prev's write
\* lock: prev's number is odd, and no other writer holds the same cell.
Writers == {t \in Threads : pc[t] \in {"link", "unlink"}}

WriterOdd == \A t \in Writers : seq[prev[t]] % 2 = 1

WritersDistinct == \A t, u \in Writers : t # u => prev[t] # prev[u]

\* The inductive invariant behind GuardSound.
IInv ==
    /\ TypeOK
    /\ PtrsAlloced
    /\ OnNode
    /\ SnapBound
    /\ WriterOdd
    /\ WritersDistinct
    /\ GuardSound

USE ParamAssumption

\* The operations a thread can hold.
LEMMA OpKeys ==
    ASSUME NEW o \in Abs!Ops \cup {Abs!NoOp}
    PROVE  o.key \in Keys \cup {NoRes}
BY DEF Abs!Ops, Abs!NoOp

\* OptimisticFineGrainedListSet::new starts in the invariant.
THEOREM InitIInv == Init => IInv
<1> SUFFICES ASSUME Init PROVE IInv
    OBVIOUS
<1>1. TypeOK
    BY DEF Init, TypeOK, Cells, NodeIds, PCs, Abs!NoOp, Abs!Ops, HeadCell, Null
<1>2. PtrsAlloced /\ OnNode /\ SnapBound
    BY DEF Init, PtrsAlloced, OnNode, SnapBound, HeadCell, Cells
<1>3. WriterOdd /\ WritersDistinct /\ GuardSound
    BY DEF Init, WriterOdd, WritersDistinct, Writers, GuardSound
<1> QED BY <1>1, <1>2, <1>3 DEF IInv

\* The conjuncts that speak of one thread's locals, for a step that
\* changes no shared state and no other thread's locals.
LocalOK(u) ==
    /\ prev[u] \in Alloced \cup {HeadCell}
    /\ curr[u] \in Alloced \cup {Null}
    /\ \/ pc[u] \in {"advance", "unlink"}
       \/ pc[u] \in {"validate", "c_validate", "upgrade"} /\ found[u] = TRUE
       => curr[u] # Null
    /\ pc[u] = "upgrade" /\ op[u].kind # "insert" => found[u] = TRUE
    /\ snap[u] <= seq[prev[u]]
    /\ pc[u] \in {"link", "unlink"} => seq[prev[u]] % 2 = 1
    /\ pc[u] \in {"find", "validate", "c_validate", "upgrade"} /\ Valid(u)
           => ptr[prev[u]] = curr[u]

\* A step of thread t that writes no shared state and leaves t outside
\* the writers keeps IInv if it keeps TypeOK and t's own conjuncts.
LEMMA LocalStep ==
    ASSUME IInv, NEW t \in Threads,
           UNCHANGED <<ptr, data, seq, alloc>>,
           \A u \in Threads \ {t} :
               /\ pc'[u] = pc[u] /\ prev'[u] = prev[u] /\ snap'[u] = snap[u]
               /\ curr'[u] = curr[u] /\ found'[u] = found[u]
               /\ op'[u] = op[u],
           pc'[t] \notin {"link", "unlink"},
           TypeOK', LocalOK(t)'
    PROVE  IInv'
<1>1. \A u \in Threads \ {t} : LocalOK(u)'
    BY DEF IInv, PtrsAlloced, OnNode, SnapBound, WriterOdd, Writers,
           GuardSound, LocalOK, Valid, Alloced
<1>2. \A u \in Threads : LocalOK(u)'
    BY <1>1
<1>3. PtrsAlloced'
    BY <1>2 DEF IInv, PtrsAlloced, LocalOK, Alloced
<1>4. OnNode' /\ SnapBound' /\ GuardSound'
    BY <1>2 DEF OnNode, SnapBound, GuardSound, LocalOK
<1>5. WriterOdd' /\ WritersDistinct'
    <2>1. Writers' \subseteq Writers \ {t}
        BY DEF Writers, TypeOK
    <2>2. \A u \in Writers' : prev'[u] = prev[u] /\ seq'[prev'[u]] = seq[prev[u]]
        BY <2>1 DEF Writers
    <2> QED BY <2>1, <2>2 DEF IInv, WriterOdd, WritersDistinct
<1> QED BY <1>3, <1>4, <1>5 DEF IInv

LEMMA InvokeIInv ==
    ASSUME IInv, NEW t \in Threads, Invoke(t)
    PROVE  IInv'
<1>1. done[t] + 1 \in 1 .. Len(Program[t])
    BY DEF Invoke, IInv, TypeOK
<1>2. Program[t][done[t] + 1] \subseteq Abs!Ops
    BY <1>1, ProgramAssumption
<1>3. PICK o \in Program[t][done[t] + 1] : op' = [op EXCEPT ![t] = o]
    BY DEF Invoke
<1>4. TypeOK'
    BY <1>2, <1>3 DEF Invoke, IInv, TypeOK, PCs
<1>5. LocalOK(t)'
    BY DEF Invoke, IInv, LocalOK, PtrsAlloced, SnapBound, Valid, TypeOK, Alloced
<1> QED BY <1>4, <1>5, LocalStep DEF Invoke, IInv, TypeOK

\* read_lock (or restart) of an allocated cell and the load through it:
\* the new guard validates and has seen the cell's pointer.
LEMMA GuardFacts ==
    ASSUME IInv, NEW t \in Threads, NEW c \in Alloced \cup {HeadCell},
           Guard(t, c), UNCHANGED <<ptr, seq, alloc>>
    PROVE  /\ prev' \in [Threads -> Cells]
           /\ snap' \in [Threads -> {n \in Nat : n % 2 = 0}]
           /\ curr' \in [Threads -> NodeIds \cup {Null}]
           /\ prev'[t] \in Alloced' \cup {HeadCell}
           /\ curr'[t] \in Alloced' \cup {Null}
           /\ snap'[t] <= seq'[prev'[t]]
           /\ ptr'[prev'[t]] = curr'[t]
           /\ \A u \in Threads \ {t} :
                  prev'[u] = prev[u] /\ snap'[u] = snap[u] /\ curr'[u] = curr[u]
<1>0. c \in Cells
    <2>1. alloc \in 0 .. MaxNodes
        BY DEF IInv, TypeOK
    <2> QED BY <2>1 DEF Alloced, Cells, NodeIds
<1>1. c \in Cells /\ seq[c] \in Nat /\ seq[c] % 2 = 0
    BY <1>0 DEF Guard, Even, IInv, TypeOK
<1>2. ptr[c] \in NodeIds \cup {Null} /\ ptr[c] \in Alloced \cup {Null}
    BY <1>1 DEF IInv, TypeOK, PtrsAlloced
<1> QED BY <1>1, <1>2 DEF Guard, IInv, TypeOK, Alloced

LEMMA ReadHeadIInv ==
    ASSUME IInv, NEW t \in Threads, ReadHead(t)
    PROVE  IInv'
<1>1. HeadCell \in Alloced \cup {HeadCell}
    OBVIOUS
<1>2. /\ prev' \in [Threads -> Cells]
      /\ snap' \in [Threads -> {n \in Nat : n % 2 = 0}]
      /\ curr' \in [Threads -> NodeIds \cup {Null}]
      /\ prev'[t] \in Alloced' \cup {HeadCell}
      /\ curr'[t] \in Alloced' \cup {Null}
      /\ snap'[t] <= seq'[prev'[t]]
      /\ ptr'[prev'[t]] = curr'[t]
      /\ \A u \in Threads \ {t} :
             prev'[u] = prev[u] /\ snap'[u] = snap[u] /\ curr'[u] = curr[u]
    BY <1>1, GuardFacts DEF ReadHead
<1>3. TypeOK'
    BY <1>2 DEF ReadHead, IInv, TypeOK, PCs
<1>4. LocalOK(t)'
    BY <1>2 DEF ReadHead, IInv, TypeOK, LocalOK, Valid
<1> QED BY <1>3, <1>4, <1>2, LocalStep DEF ReadHead, IInv, TypeOK

LEMMA AdvanceIInv ==
    ASSUME IInv, NEW t \in Threads, Advance(t)
    PROVE  IInv'
<1>1. curr[t] \in Alloced \cup {HeadCell}
    BY DEF Advance, IInv, OnNode, PtrsAlloced
<1>2. /\ prev' \in [Threads -> Cells]
      /\ snap' \in [Threads -> {n \in Nat : n % 2 = 0}]
      /\ curr' \in [Threads -> NodeIds \cup {Null}]
      /\ prev'[t] \in Alloced' \cup {HeadCell}
      /\ curr'[t] \in Alloced' \cup {Null}
      /\ snap'[t] <= seq'[prev'[t]]
      /\ ptr'[prev'[t]] = curr'[t]
      /\ \A u \in Threads \ {t} :
             prev'[u] = prev[u] /\ snap'[u] = snap[u] /\ curr'[u] = curr[u]
    BY <1>1, GuardFacts DEF Advance
<1>3. TypeOK'
    BY <1>2 DEF Advance, IInv, TypeOK, PCs
<1>4. LocalOK(t)'
    BY <1>2 DEF Advance, IInv, TypeOK, LocalOK, Valid
<1> QED BY <1>3, <1>4, <1>2, LocalStep DEF Advance, IInv, TypeOK

LEMMA FinishIInv ==
    ASSUME IInv, NEW t \in Threads, Finish(t)
    PROVE  IInv'
<1>1. TypeOK'
    BY DEF Finish, IInv, TypeOK, PCs, Abs!NoOp, Abs!Ops
<1>2. LocalOK(t)'
    BY DEF Finish, IInv, LocalOK, PtrsAlloced, SnapBound, Valid, TypeOK, Alloced
<1> QED BY <1>1, <1>2, LocalStep DEF Finish, IInv, TypeOK

\* The validations keep the cursor and move only the program counter
\* and the result.
ValidateStep(t) ==
    /\ UNCHANGED <<ptr, data, seq, alloc, op, prev, snap, curr, found, done>>
    /\ pc' = [pc EXCEPT ![t] = pc'[t]]
    /\ res' = [res EXCEPT ![t] = res'[t]]
    /\ res'[t] \in BOOLEAN \cup {NoRes}
    /\ \/ pc'[t] \in {"head", "ret"}
       \/ pc'[t] \in {"c_validate", "upgrade"} /\ Valid(t) /\ pc[t] = "validate"
    /\ pc'[t] = "upgrade" /\ op[t].kind # "insert" => found[t] = TRUE

LEMMA ValidateStepIInv ==
    ASSUME IInv, NEW t \in Threads, ValidateStep(t)
    PROVE  IInv'
<1>1. TypeOK'
    BY DEF ValidateStep, IInv, TypeOK, PCs
<1>2. LocalOK(t)'
    BY DEF ValidateStep, IInv, LocalOK, PtrsAlloced, OnNode, SnapBound,
           GuardSound, Valid, TypeOK, Alloced
<1> QED BY <1>1, <1>2, LocalStep DEF ValidateStep, IInv, TypeOK

LEMMA ValidateIInv ==
    ASSUME IInv, NEW t \in Threads, Validate(t)
    PROVE  IInv'
<1>1. CASE ~Valid(t)
    BY <1>1, ValidateStepIInv DEF Validate, Retry, ValidateStep, IInv, TypeOK
<1>2. CASE Valid(t)
    <2>1. ValidateStep(t)
        BY <1>2 DEF Validate, ValidateStep, IInv, TypeOK
    <2> QED BY <2>1, ValidateStepIInv
<1> QED BY <1>1, <1>2

LEMMA CValidateIInv ==
    ASSUME IInv, NEW t \in Threads, CValidate(t)
    PROVE  IInv'
<1>1. CASE ~Valid(t)
    BY <1>1, ValidateStepIInv DEF CValidate, Retry, ValidateStep, IInv, TypeOK
<1>2. CASE Valid(t)
    BY <1>2, ValidateStepIInv DEF CValidate, ValidateStep, IInv, TypeOK
<1> QED BY <1>1, <1>2

\* Cursor::find: end of list, stop or advance, or restart prev.
LEMMA FindIInv ==
    ASSUME IInv, NEW t \in Threads, Find(t)
    PROVE  IInv'
<1> DEFINE c == curr[t]
<1>0. /\ pc[t] = "find"
      /\ UNCHANGED <<ptr, data, seq, alloc, op, res, done>>
    BY DEF Find
<1>1. CASE c = Null
    <2>1. /\ UNCHANGED <<prev, snap, curr>>
          /\ pc' = [pc EXCEPT ![t] = pc'[t]]
          /\ found' = [found EXCEPT ![t] = found'[t]]
          /\ \/ pc'[t] = "head" /\ found'[t] = found[t]
             \/ pc'[t] = "validate" /\ found'[t] = FALSE /\ Valid(t)
        BY <1>1 DEF Find, Retry, IInv, TypeOK
    <2>2. TypeOK'
        BY <1>0, <2>1 DEF IInv, TypeOK, PCs
    <2>3. LocalOK(t)'
        BY <1>0, <2>1 DEF IInv, LocalOK, PtrsAlloced, SnapBound, GuardSound,
                          Valid, TypeOK, Alloced
    <2> QED BY <1>0, <2>1, <2>2, <2>3, LocalStep DEF IInv, TypeOK
<1>2. CASE c # Null /\ Valid(t)
    <2>1. /\ UNCHANGED <<prev, snap, curr>>
          /\ pc' = [pc EXCEPT ![t] = pc'[t]]
          /\ found' = [found EXCEPT ![t] = found'[t]]
          /\ found'[t] \in BOOLEAN \cup {NoRes}
          /\ pc'[t] \in {"advance", "validate"}
        BY <1>2 DEF Find, IInv, TypeOK
    <2>2. TypeOK'
        BY <1>0, <2>1 DEF IInv, TypeOK, PCs
    <2>3. LocalOK(t)'
        BY <1>0, <1>2, <2>1 DEF IInv, LocalOK, PtrsAlloced, SnapBound, GuardSound,
                                Valid, TypeOK, Alloced
    <2> QED BY <1>0, <2>1, <2>2, <2>3, LocalStep DEF IInv, TypeOK
<1>3. CASE c # Null /\ ~Valid(t)
    <2>0. prev[t] \in Alloced \cup {HeadCell}
        BY DEF IInv, PtrsAlloced
    <2>1. /\ Guard(t, prev[t])
          /\ UNCHANGED found
          /\ pc' = [pc EXCEPT ![t] = pc'[t]]
          /\ pc'[t] \in {"find", "head"}
        BY <1>3 DEF Find, Retry, IInv, TypeOK
    <2>2. /\ prev' \in [Threads -> Cells]
          /\ snap' \in [Threads -> {n \in Nat : n % 2 = 0}]
          /\ curr' \in [Threads -> NodeIds \cup {Null}]
          /\ prev'[t] \in Alloced' \cup {HeadCell}
          /\ curr'[t] \in Alloced' \cup {Null}
          /\ snap'[t] <= seq'[prev'[t]]
          /\ ptr'[prev'[t]] = curr'[t]
          /\ \A u \in Threads \ {t} :
                 prev'[u] = prev[u] /\ snap'[u] = snap[u] /\ curr'[u] = curr[u]
        BY <1>0, <2>0, <2>1, GuardFacts
    <2>3. TypeOK'
        BY <1>0, <2>1, <2>2 DEF IInv, TypeOK, PCs
    <2>4. LocalOK(t)'
        BY <1>0, <2>1, <2>2 DEF IInv, TypeOK, LocalOK, Valid
    <2> QED BY <1>0, <2>1, <2>2, <2>3, <2>4, LocalStep DEF IInv, TypeOK
<1> QED BY <1>1, <1>2, <1>3

\* A writer's cell has an odd number, a read guard remembers an even one:
\* no guard validates against a cell that a writer holds.
LEMMA WriterCellsInvalid ==
    ASSUME IInv, NEW t \in Writers, NEW u \in Threads
    PROVE  seq[prev[t]] # snap[u]
BY DEF IInv, WriterOdd, TypeOK

\* upgrade: a CAS from the guard's even number to the next, odd, one; or a
\* failed validation and a restart.
LEMMA UpgradeIInv ==
    ASSUME IInv, NEW t \in Threads, Upgrade(t)
    PROVE  IInv'
<1> DEFINE p == prev[t]
<1>0. /\ pc[t] = "upgrade"
      /\ UNCHANGED <<ptr, data, alloc, op, res, prev, snap, curr, found, done>>
    BY DEF Upgrade
<1>1. CASE ~Valid(t)
    <2>1. TypeOK'
        BY <1>0, <1>1 DEF Upgrade, Retry, IInv, TypeOK, PCs
    <2>2. LocalOK(t)'
        BY <1>0, <1>1 DEF Upgrade, Retry, IInv, TypeOK, LocalOK, PtrsAlloced,
                          SnapBound, Alloced
    <2> QED BY <1>0, <1>1, <2>1, <2>2, LocalStep DEF Upgrade, Retry, IInv, TypeOK
<1>2. CASE Valid(t)
    <2>1. /\ p \in Cells /\ seq[p] \in Nat
          /\ seq[p] = snap[t] /\ snap[t] % 2 = 0
        BY <1>2 DEF Valid, IInv, TypeOK
    <2>2. /\ seq' = [seq EXCEPT ![p] = @ + 1]
          /\ pc' = [pc EXCEPT ![t] = IF op[t].kind = "insert" THEN "link" ELSE "unlink"]
        BY <1>2 DEF Upgrade
    <2>3. /\ seq'[p] % 2 = 1
          /\ \A c \in Cells : seq'[c] \in Nat /\ seq[c] <= seq'[c]
          /\ \A c \in Cells \ {p} : seq'[c] = seq[c]
        <3>1. seq \in [Cells -> Nat]
            BY DEF IInv, TypeOK
        <3>2. seq'[p] = snap[t] + 1 /\ \A c \in Cells \ {p} : seq'[c] = seq[c]
            BY <2>1, <2>2, <3>1
        <3>3. seq'[p] % 2 = 1
            BY <2>1, <3>2
        <3> QED BY <2>1, <3>1, <3>2, <3>3
    <2>4. \A u \in Writers : prev[u] # p
        BY <2>1, WriterCellsInvalid
    <2>5. t \notin Writers /\ Writers' = Writers \cup {t}
        BY <1>0, <2>2 DEF Writers, IInv, TypeOK
    <2>6. TypeOK'
        BY <1>0, <2>2, <2>3 DEF IInv, TypeOK, PCs
    <2>7. PtrsAlloced'
        BY <1>0 DEF IInv, PtrsAlloced, Alloced
    <2>8. OnNode'
        BY <1>0, <2>2 DEF IInv, OnNode, TypeOK
    <2>9. SnapBound'
        BY <1>0, <2>3 DEF IInv, SnapBound, TypeOK
    <2>10. WriterOdd' /\ WritersDistinct'
        <3>1. \A u \in Writers' : seq'[prev'[u]] % 2 = 1
            <4> SUFFICES ASSUME NEW u \in Writers' PROVE seq'[prev'[u]] % 2 = 1
                OBVIOUS
            <4>1. CASE u = t
                BY <4>1, <1>0, <2>3
            <4>2. CASE u # t
                <5>1. u \in Writers /\ prev[u] \in Cells
                    BY <4>2, <2>5 DEF Writers, IInv, TypeOK
                <5> QED BY <5>1, <1>0, <2>3, <2>4 DEF IInv, WriterOdd
            <4> QED BY <4>1, <4>2
        <3>2. \A u, v \in Writers' : u # v => prev'[u] # prev'[v]
            BY <1>0, <2>4, <2>5 DEF IInv, WritersDistinct
        <3> QED BY <3>1, <3>2 DEF WriterOdd, WritersDistinct
    <2>11. GuardSound'
        <3> SUFFICES ASSUME NEW u \in Threads,
                            pc'[u] \in {"find", "validate", "c_validate", "upgrade"},
                            Valid(u)'
                     PROVE  ptr'[prev'[u]] = curr'[u]
            BY DEF GuardSound
        <3>1. u # t
            BY <2>2 DEF IInv, TypeOK
        <3>2. prev[u] # p
            <4>1. snap[u] % 2 = 0 /\ seq'[prev[u]] = snap[u]
                BY <1>0 DEF Valid, IInv, TypeOK
            <4> QED BY <4>1, <2>3
        <3>3. pc[u] = pc'[u] /\ Valid(u)
            BY <1>0, <2>2, <2>3, <3>1, <3>2 DEF Valid, IInv, TypeOK
        <3> QED BY <1>0, <3>3 DEF IInv, GuardSound
    <2> QED BY <2>6, <2>7, <2>8, <2>9, <2>10, <2>11 DEF IInv
<1> QED BY <1>1, <1>2

\* insert's store and guard drop: a fresh node between prev and curr.
LEMMA LinkIInv ==
    ASSUME IInv, NEW t \in Threads, Link(t)
    PROVE  IInv'
<1> DEFINE p == prev[t]
           n == alloc + 1
<1>0. /\ pc[t] = "link" /\ alloc < MaxNodes /\ alloc' = n
      /\ data' = [data EXCEPT ![n] = op[t].key]
      /\ ptr' = [ptr EXCEPT ![n] = curr[t], ![p] = n]
      /\ seq' = [seq EXCEPT ![p] = @ + 1]
      /\ res' = [res EXCEPT ![t] = TRUE]
      /\ pc' = [pc EXCEPT ![t] = "ret"]
      /\ UNCHANGED <<op, prev, snap, curr, found, done>>
    BY DEF Link
<1>1. /\ alloc \in 0 .. MaxNodes - 1
      /\ n \in NodeIds /\ n \notin Alloced \cup {HeadCell}
      /\ p \in Alloced \cup {HeadCell} /\ p \in Cells /\ n # p
      /\ curr[t] \in Alloced \cup {Null} /\ curr[t] \in NodeIds \cup {Null}
      /\ \A u \in Threads : prev[u] # n
    <2>1. alloc \in 0 .. MaxNodes - 1
        BY <1>0 DEF IInv, TypeOK
    <2>2. n \in NodeIds /\ n \notin Alloced \cup {HeadCell}
        BY <2>1 DEF NodeIds, Alloced, HeadCell
    <2>3. \A u \in Threads : prev[u] \in Alloced \cup {HeadCell}
        BY DEF IInv, PtrsAlloced
    <2>4. Alloced \subseteq NodeIds /\ HeadCell \in Cells /\ NodeIds \subseteq Cells
        BY <2>1 DEF Alloced, NodeIds, Cells
    <2>5. curr[t] \in Alloced \cup {Null}
        BY DEF IInv, PtrsAlloced
    <2> QED BY <2>1, <2>2, <2>3, <2>4, <2>5
<1>2. op[t].key \in Keys \cup {NoRes}
    BY OpKeys DEF IInv, TypeOK
<1>3. /\ \A c \in Cells : seq'[c] \in Nat /\ seq[c] <= seq'[c]
      /\ \A c \in Cells \ {p} : seq'[c] = seq[c]
      /\ seq'[p] = seq[p] + 1
    BY <1>0, <1>1 DEF IInv, TypeOK
<1>4. /\ \A c \in Cells \ {n, p} : ptr'[c] = ptr[c]
      /\ ptr'[n] = curr[t] /\ ptr'[p] = n
    <2>1. ptr \in [Cells -> NodeIds \cup {Null}] /\ n \in Cells /\ p \in Cells /\ n # p
        BY <1>1 DEF IInv, TypeOK, Cells
    <2> QED BY <1>0, <2>1
<1>5. t \in Writers /\ Writers' = Writers \ {t}
    BY <1>0 DEF Writers, IInv, TypeOK
<1>6. TypeOK'
    <2>1. ptr' \in [Cells -> NodeIds \cup {Null}]
        BY <1>0, <1>1 DEF IInv, TypeOK, Cells
    <2>2. data' \in [NodeIds -> Keys \cup {NoRes}]
        BY <1>0, <1>1, <1>2 DEF IInv, TypeOK
    <2> QED BY <2>1, <2>2, <1>0, <1>1, <1>3 DEF IInv, TypeOK, PCs
<1>7. PtrsAlloced'
    <2>1. Alloced \cup {n} \subseteq Alloced'
        BY <1>0, <1>1 DEF Alloced
    <2>2. \A c \in Cells : ptr'[c] \in Alloced' \cup {Null}
        BY <1>1, <1>4, <2>1 DEF IInv, PtrsAlloced
    <2> QED BY <1>0, <2>1, <2>2 DEF IInv, PtrsAlloced
<1>8. OnNode' /\ SnapBound'
    BY <1>0, <1>3 DEF IInv, OnNode, SnapBound, TypeOK
<1>9. WriterOdd' /\ WritersDistinct'
    <2>1. \A u \in Writers' : prev[u] # p /\ prev[u] \in Cells
        BY <1>5 DEF IInv, WritersDistinct, TypeOK, Writers
    <2> QED BY <1>0, <1>3, <1>5, <2>1 DEF IInv, WriterOdd, WritersDistinct
<1>10. GuardSound'
    <2> SUFFICES ASSUME NEW u \in Threads,
                        pc'[u] \in {"find", "validate", "c_validate", "upgrade"},
                        Valid(u)'
                 PROVE  ptr'[prev'[u]] = curr'[u]
        BY DEF GuardSound
    <2>1. u # t /\ pc[u] = pc'[u] /\ prev[u] \in Cells
        BY <1>0 DEF IInv, TypeOK
    <2>2. prev[u] # p
        <3>1. snap[u] <= seq[prev[u]] /\ seq'[prev[u]] = snap[u]
            BY <1>0 DEF IInv, SnapBound, Valid
        <3> QED BY <3>1, <1>3 DEF IInv, TypeOK
    <2>3. Valid(u) /\ ptr'[prev[u]] = ptr[prev[u]]
        BY <1>0, <1>1, <1>3, <1>4, <2>1, <2>2 DEF Valid
    <2> QED BY <1>0, <2>1, <2>3 DEF IInv, GuardSound
<1> QED BY <1>6, <1>7, <1>8, <1>9, <1>10 DEF IInv

\* remove's write lock on curr.next, the swap and the store through prev.
LEMMA UnlinkIInv ==
    ASSUME IInv, NEW t \in Threads, Unlink(t)
    PROVE  IInv'
<1> DEFINE p == prev[t]
           c == curr[t]
<1>0. /\ pc[t] = "unlink" /\ Even(c)
      /\ ptr' = [ptr EXCEPT ![p] = ptr[c], ![c] = Null]
      /\ seq' = [seq EXCEPT ![p] = @ + 1, ![c] = @ + 2]
      /\ res' = [res EXCEPT ![t] = TRUE]
      /\ pc' = [pc EXCEPT ![t] = "ret"]
      /\ UNCHANGED <<data, alloc, op, prev, snap, curr, found, done>>
    BY DEF Unlink
<1>1. t \in Writers /\ Writers' = Writers \ {t}
    BY <1>0 DEF Writers, IInv, TypeOK
<1>2. /\ c \in Alloced /\ c \in NodeIds /\ c \in Cells
      /\ p \in Cells /\ seq[p] % 2 = 1 /\ seq[c] % 2 = 0 /\ c # p
      /\ ptr[c] \in Alloced \cup {Null} /\ ptr[c] \in NodeIds \cup {Null}
    <2>1. c # Null /\ c \in Alloced \cup {Null} /\ alloc \in 0 .. MaxNodes
        BY <1>0 DEF IInv, OnNode, PtrsAlloced, TypeOK
    <2>2. c \in Alloced /\ c \in NodeIds /\ c \in Cells
        BY <2>1 DEF Alloced, NodeIds, Cells
    <2>3. seq[p] % 2 = 1 /\ p \in Cells
        BY <1>1 DEF IInv, WriterOdd, TypeOK
    <2> QED BY <1>0, <2>2, <2>3 DEF Even, IInv, TypeOK, PtrsAlloced
<1>3. /\ \A d \in Cells : seq'[d] \in Nat /\ seq[d] <= seq'[d]
      /\ \A d \in Cells \ {p, c} : seq'[d] = seq[d]
      /\ seq'[p] = seq[p] + 1 /\ seq'[c] = seq[c] + 2
    BY <1>0, <1>2 DEF IInv, TypeOK
<1>4. /\ \A d \in Cells \ {p, c} : ptr'[d] = ptr[d]
      /\ ptr'[p] = ptr[c] /\ ptr'[c] = Null
    BY <1>0, <1>2 DEF IInv, TypeOK
<1>5. TypeOK'
    <2>1. ptr' \in [Cells -> NodeIds \cup {Null}]
        BY <1>0, <1>2 DEF IInv, TypeOK
    <2> QED BY <2>1, <1>0, <1>3 DEF IInv, TypeOK, PCs
<1>6. PtrsAlloced'
    BY <1>0, <1>2, <1>4 DEF IInv, PtrsAlloced, Alloced, Cells
<1>7. OnNode' /\ SnapBound'
    BY <1>0, <1>3 DEF IInv, OnNode, SnapBound, TypeOK
<1>8. WriterOdd' /\ WritersDistinct'
    <2>1. \A u \in Writers' : prev[u] # p /\ prev[u] \in Cells /\ seq[prev[u]] % 2 = 1
        BY <1>1 DEF IInv, WritersDistinct, WriterOdd, TypeOK, Writers
    <2>2. \A u \in Writers' : prev[u] # c
        BY <2>1, <1>2
    <2> QED BY <1>0, <1>1, <1>3, <2>1, <2>2 DEF IInv, WriterOdd, WritersDistinct
<1>9. GuardSound'
    <2> SUFFICES ASSUME NEW u \in Threads,
                        pc'[u] \in {"find", "validate", "c_validate", "upgrade"},
                        Valid(u)'
                 PROVE  ptr'[prev'[u]] = curr'[u]
        BY DEF GuardSound
    <2>1. u # t /\ pc[u] = pc'[u] /\ prev[u] \in Cells
        BY <1>0 DEF IInv, TypeOK
    <2>2. snap[u] <= seq[prev[u]] /\ seq'[prev[u]] = snap[u]
        BY <1>0 DEF IInv, SnapBound, Valid
    <2>3. prev[u] # p /\ prev[u] # c
        BY <2>1, <2>2, <1>3 DEF IInv, TypeOK
    <2>4. Valid(u) /\ ptr'[prev[u]] = ptr[prev[u]]
        BY <1>0, <1>3, <1>4, <2>1, <2>3 DEF Valid
    <2> QED BY <1>0, <2>1, <2>4 DEF IInv, GuardSound
<1> QED BY <1>5, <1>6, <1>7, <1>8, <1>9 DEF IInv

\* Every step of every thread, and the final stutter, keeps IInv.
THEOREM NextIInv == IInv /\ [Next]_vars => IInv'
<1> SUFFICES ASSUME IInv, [Next]_vars PROVE IInv'
    OBVIOUS
<1>1. CASE UNCHANGED vars
    BY <1>1 DEF vars, IInv, TypeOK, PtrsAlloced, Alloced, OnNode, SnapBound,
                WriterOdd, Writers, WritersDistinct, GuardSound, Valid
<1>2. CASE Terminated
    BY <1>2 DEF Terminated, vars, IInv, TypeOK, PtrsAlloced, Alloced, OnNode,
                SnapBound, WriterOdd, Writers, WritersDistinct, GuardSound, Valid
<1>3. ASSUME NEW t \in Threads, Step(t) PROVE IInv'
    BY <1>3, InvokeIInv, ReadHeadIInv, FindIInv, AdvanceIInv, ValidateIInv,
       CValidateIInv, UpgradeIInv, LinkIInv, UnlinkIInv, FinishIInv DEF Step
<1> QED BY <1>1, <1>2, <1>3 DEF Next

\* IInv holds in every reachable state of the optimistic list.
THEOREM IInvInvariant == Spec => []IInv
BY InitIInv, NextIInv, PTL DEF Spec

\* Guard soundness (the property GuardSound): for every number of threads,
\* keys and nodes, a read guard of Cursor::find or the validations in
\* contains/insert/remove that still validates has seen its cell's
\* current pointer, so the optimistic reads act on the list as it is.
THEOREM GuardSoundInvariant == Spec => []GuardSound
BY IInvInvariant, PTL DEF IInv

\* Type correctness (the property TypeOK) for every instance.
THEOREM TypeCorrect == Spec => []TypeOK
BY IInvInvariant, PTL DEF IInv

\* Write-lock exclusion (the property WriteLockExclusive) for every
\* instance: the CAS of upgrade admits one writer per cell, because a
\* held write lock leaves the cell's number odd and every guard's even.
THEOREM WriteLockExclusiveInvariant == Spec => []WriteLockExclusive
<1>1. IInv => WriteLockExclusive
    BY DEF IInv, WritersDistinct, Writers, WriteLockExclusive
<1> QED BY <1>1, IInvInvariant, PTL

====
