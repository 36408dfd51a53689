------------------------ MODULE GrowableArrayProofs ------------------------
(***************************************************************************)
(* Proofs about the grow loop of GrowableArray::get, for every segment     *)
(* size, word width, segment bound and program: a thread that leaves the   *)
(* loop finds the tree tall enough for its index.                          *)
(***************************************************************************)
EXTENDS GrowableArray, TLAPS

\* The types of the variables the grow loop reads and writes.
GrowTypes ==
    /\ root \in [seg : SegIds, tag : 0 .. Width]
    /\ next \in 2 .. MaxSegs + 1
    /\ pc \in [Threads -> PCs]
    /\ hgt \in [Threads -> 0 .. Width]
    /\ iter \in [Threads -> 0 .. Width]
    /\ gptr \in [Threads -> [seg : SegIds, tag : 0 .. Width]]

\* What the iterations of the grow loop done so far have achieved: each
\* left the root at least one layer taller than the root it read.  A root
\* read and not yet CASed is a root that was installed: no taller than the
\* current one, and the current one if as tall, since every successful CAS
\* adds one layer with a fresh segment.
GrowProgress ==
    \A t \in Threads :
        /\ pc[t] = "grow" => root.tag >= hgt[t] - iter[t]
        /\ pc[t] = "grow_cas" =>
              /\ iter[t] >= 1
              /\ gptr[t].tag >= hgt[t] - iter[t]
              /\ gptr[t].tag < hgt[t]
              /\ gptr[t].tag <= root.tag
              /\ gptr[t].tag = root.tag => gptr[t] = root

IInv == GrowTypes /\ GrowProgress /\ GrowEnough

USE ParamAssumption

\* The program points after the grow loop at which GrowEnough speaks.
Located == {"locate", "loc_step", "loc_cas", "loc_reload", "loc_load", "access"}

-----------------------------------------------------------------------------
\* GrowableArray::new: a root of height 0; no thread in get.
LEMMA InitIInv == Init => IInv
BY DEF Init, IInv, GrowTypes, GrowProgress, GrowEnough, SegIds, PCs

\* A step after the grow loop (locate, the access, the return) moves one
\* thread among the program points outside the loop, never into Located
\* from outside it, and leaves the root alone (locate may allocate a
\* segment for a lower layer).
LEMMA OtherStep ==
    ASSUME IInv, NEW t \in Threads,
           UNCHANGED <<root, hgt, iter, gptr>>, next' \in 2 .. MaxSegs + 1,
           pc' = [pc EXCEPT ![t] = pc'[t]], pc'[t] \in PCs,
           pc[t] \notin {"grow", "grow_cas"}, pc'[t] \notin {"grow", "grow_cas"},
           pc'[t] \in Located => pc[t] \in Located
    PROVE  IInv'
<1>1. GrowTypes'
    BY DEF IInv, GrowTypes
<1>2. GrowProgress'
    BY DEF IInv, GrowTypes, GrowProgress
<1>3. GrowEnough'
    BY DEF IInv, GrowTypes, GrowEnough, Located
<1> QED BY <1>1, <1>2, <1>3 DEF IInv

\* get(index): the height of the index, and as many grow iterations.
LEMMA InvokeIInv ==
    ASSUME IInv, NEW t \in Threads, Invoke(t)
    PROVE  IInv'
<1>1. PICK o \in Program[t][done[t] + 1], h \in 0 .. Width :
          /\ hgt' = [hgt EXCEPT ![t] = h]
          /\ iter' = [iter EXCEPT ![t] = h]
          /\ pc' = [pc EXCEPT ![t] = IF h > MaxLayer THEN "panic" ELSE "grow"]
    BY DEF Invoke
<1>2. pc[t] = "idle" /\ UNCHANGED <<root, next, gptr>>
    BY DEF Invoke
<1>3. GrowTypes'
    BY <1>1, <1>2 DEF IInv, GrowTypes, PCs
<1>4. GrowProgress'
    BY <1>1, <1>2 DEF IInv, GrowTypes, GrowProgress
<1>5. GrowEnough'
    BY <1>1, <1>2 DEF IInv, GrowTypes, GrowEnough
<1> QED BY <1>3, <1>4, <1>5 DEF IInv

\* One iteration's load of the root: done, tall enough, or CAS it.
LEMMA GrowLoadIInv ==
    ASSUME IInv, NEW t \in Threads, GrowLoad(t)
    PROVE  IInv'
<1>0. pc[t] = "grow" /\ UNCHANGED <<root, next, hgt, iter>>
    BY DEF GrowLoad
<1>1. CASE iter[t] = 0
    <2>1. pc' = [pc EXCEPT ![t] = "locate"] /\ gptr' = gptr
        BY <1>1 DEF GrowLoad
    <2>2. root.tag >= hgt[t]
        BY <1>0, <1>1 DEF IInv, GrowTypes, GrowProgress
    <2> QED BY <1>0, <2>1, <2>2 DEF IInv, GrowTypes, GrowProgress, GrowEnough, PCs
<1>2. CASE iter[t] # 0
    <2>1. /\ gptr' = [gptr EXCEPT ![t] = root]
          /\ pc' = [pc EXCEPT ![t] = IF root.tag >= hgt[t] THEN "locate" ELSE "grow_cas"]
        BY <1>2 DEF GrowLoad
    <2>2. GrowTypes'
        BY <1>0, <2>1 DEF IInv, GrowTypes, PCs
    <2>3. GrowProgress'
        BY <1>0, <1>2, <2>1 DEF IInv, GrowTypes, GrowProgress
    <2>4. GrowEnough'
        BY <1>0, <2>1 DEF IInv, GrowTypes, GrowEnough
    <2> QED BY <2>2, <2>3, <2>4 DEF IInv
<1> QED BY <1>1, <1>2

\* The CAS of the root: on success the root is one layer taller than the
\* root read; on failure another thread's CAS already made it taller.
LEMMA GrowCasIInv ==
    ASSUME IInv, NEW t \in Threads, GrowCas(t)
    PROVE  IInv'
<1>0. /\ pc[t] = "grow_cas" /\ next <= MaxSegs
      /\ iter' = [iter EXCEPT ![t] = iter[t] - 1]
      /\ pc' = [pc EXCEPT ![t] = "grow"]
      /\ UNCHANGED <<hgt, gptr>>
    BY DEF GrowCas
<1>a. /\ iter[t] >= 1 /\ gptr[t].tag >= hgt[t] - iter[t] /\ gptr[t].tag < hgt[t]
      /\ gptr[t].tag <= root.tag
      /\ gptr[t].tag = root.tag => gptr[t] = root
    BY <1>0 DEF IInv, GrowProgress
<1>1. CASE root = gptr[t]
    <2>1. /\ root' = [seg |-> next, tag |-> gptr[t].tag + 1]
          /\ next' = next + 1
        BY <1>1 DEF GrowCas
    <2>2. GrowTypes'
        BY <1>0, <1>a, <2>1 DEF IInv, GrowTypes, SegIds, PCs
    <2>3. GrowProgress'
        BY <1>0, <1>1, <1>a, <2>1 DEF IInv, GrowTypes, GrowProgress
    <2>4. GrowEnough'
        BY <1>0, <1>1, <2>1 DEF IInv, GrowTypes, GrowEnough
    <2> QED BY <2>2, <2>3, <2>4 DEF IInv
<1>2. CASE root # gptr[t]
    <2>1. UNCHANGED <<root, next>>
        BY <1>2 DEF GrowCas
    <2>2. root.tag >= gptr[t].tag + 1
        BY <1>2, <1>a DEF IInv, GrowTypes
    <2>3. GrowTypes'
        BY <1>0, <1>a, <2>1 DEF IInv, GrowTypes, PCs
    <2>4. GrowProgress'
        BY <1>0, <1>a, <2>1, <2>2 DEF IInv, GrowTypes, GrowProgress
    <2>5. GrowEnough'
        BY <1>0, <2>1 DEF IInv, GrowTypes, GrowEnough
    <2> QED BY <2>3, <2>4, <2>5 DEF IInv
<1> QED BY <1>1, <1>2

\* Every step of every thread, and the final stutter, keeps IInv.
THEOREM NextIInv == IInv /\ [Next]_vars => IInv'
<1> SUFFICES ASSUME IInv, [Next]_vars PROVE IInv'
    OBVIOUS
<1>1. ASSUME NEW t \in Threads, Step(t) PROVE IInv'
    <2>1. CASE Invoke(t)
        BY <2>1, InvokeIInv
    <2>2. CASE GrowLoad(t)
        BY <2>2, GrowLoadIInv
    <2>3. CASE GrowCas(t)
        BY <2>3, GrowCasIInv
    <2>4. CASE LocStart(t)
        BY <2>4, OtherStep DEF LocStart, IInv, GrowTypes, PCs, Located
    <2>5. CASE LocStep(t)
        BY <2>5, OtherStep DEF LocStep, IInv, GrowTypes, PCs, Located
    <2>6. CASE LocCas(t)
        <3>1. next' \in 2 .. MaxSegs + 1
            BY <2>6 DEF LocCas, IInv, GrowTypes
        <3> QED BY <2>6, <3>1, OtherStep DEF LocCas, IInv, GrowTypes, PCs, Located
    <2>7. CASE LocReload(t)
        BY <2>7, OtherStep DEF LocReload, IInv, GrowTypes, PCs, Located
    <2>8. CASE LocLoad(t)
        BY <2>8, OtherStep DEF LocLoad, IInv, GrowTypes, PCs, Located
    <2>9. CASE Access(t)
        BY <2>9, OtherStep DEF Access, IInv, GrowTypes, PCs, Located
    <2>10. CASE Finish(t)
        BY <2>10, OtherStep DEF Finish, IInv, GrowTypes, PCs, Located
    <2> QED BY <1>1, <2>1, <2>2, <2>3, <2>4, <2>5, <2>6, <2>7, <2>8, <2>9, <2>10
            DEF Step
<1>2. CASE Terminated \/ UNCHANGED vars
    <2>1. UNCHANGED <<root, next, pc, hgt, iter, gptr>>
        BY <1>2 DEF Terminated, vars
    <2> QED BY <2>1 DEF IInv, GrowTypes, GrowProgress, GrowEnough
<1> QED BY <1>1, <1>2 DEF Next

\* IInv holds in every reachable state.
THEOREM IInvInvariant == Spec => []IInv
BY InitIInv, NextIInv, PTL DEF Spec

\* For every segment size, word width, segment bound and program, a thread
\* past get's grow loop (locating its index, or loading or storing through
\* the Atomic get returned) sees a root at least as tall as its index's
\* height, although its own CAS may have failed: the growth of another
\* thread then did the work.
THEOREM GrowEnoughInvariant == Spec => []GrowEnough
BY IInvInvariant, PTL DEF IInv

=============================================================================
