---------------------------- MODULE GrowableArray ----------------------------
(***************************************************************************)
(* The lock-free growable array of                                         *)
(* src/homework/src/hash_table/growable_array.rs.                          *)
(*                                                                         *)
(* The array is a tree of segments of 2^SEGMENT_LOGSIZE atomic pointers;   *)
(* the tag of the root pointer is the tree's height.  A segment is a union *)
(* of child pointers and element pointers: which one is decided only by    *)
(* the height the reader believes it has, so here a cell holds a segment   *)
(* id, an element value or Null.  get(index) first grows the tree bottom-  *)
(* up (one CAS of the root per missing layer) and then walks it top-down,  *)
(* installing missing segments with a CAS.  A thread then loads from or    *)
(* stores into the returned Atomic, as SplitOrderedList does.  Every       *)
(* atomic access of the code is one step.                                  *)
(***************************************************************************)
EXTENDS Integers, Sequences

CONSTANTS
    Threads,   \* the threads calling get
    Indices,   \* the indices they use
    Values,    \* the element pointers they store
    Null,      \* the null pointer
    LogSize,   \* SEGMENT_LOGSIZE
    Width,     \* bits of a usize
    MaxSegs,   \* bound: number of segments that may be allocated
    Program    \* Program[t][i]: the operations t may run i-th (bound)

Word == 2^Width
Fan == 2^LogSize
Offsets == 0 .. Fan - 1
SegIds == 1 .. MaxSegs
\* (size_of::<usize>() << 3) / SEGMENT_LOGSIZE: the largest height allowed.
MaxLayer == Width \div LogSize

ASSUME ParamAssumption ==
    /\ LogSize \in Nat \ {0} /\ Width \in Nat /\ LogSize <= Width
    /\ Indices \subseteq 0 .. Word - 1
    /\ MaxSegs \in Nat \ {0}
    /\ Null \notin Values \cup SegIds /\ Values \cap SegIds = {}

VARIABLES
    root,    \* GrowableArray::root: [seg, tag]
    cell,    \* cell[s][o]: the o-th atomic pointer of segment s
    next,    \* the next segment id to allocate
    pc,      \* where each thread is in get and the access after it
    op,      \* the operation each thread runs
    res,     \* its result (the value loaded, "done" after a store)
    hgt,     \* get's height for the index
    iter,    \* grow loop iterations left
    gptr,    \* the root the grow loop read
    layer,   \* the locate loop's layer
    ptr,     \* the locate loop's ptr
    loc,     \* the locate loop's atm_ptr: [seg, off]
    slot,    \* the Atomic that get returned: [seg, off]
    done     \* operations completed per thread

vars == <<root, cell, next, pc, op, res, hgt, iter, gptr, layer, ptr, loc, slot, done>>

NoSlot == [seg |-> Null, off |-> 0]

\* (index >> (SEGMENT_LOGSIZE * layer)) & mask
Digit(i, l) == (i \div 2^(LogSize * l)) % Fan

\* The mask of get's first loop after h shifts, in a Width-bit word.
MaskAt(h) == IF LogSize * (h + 1) >= Width THEN Word - 1 ELSE 2^(LogSize * (h + 1)) - 1

\* h is the height get's first loop computes for index i: the first h
\* whose mask covers i (index & mask == index).
IsHeight(i, h) ==
    /\ i % (MaskAt(h) + 1) = i
    /\ \A g \in 0 .. h - 1 : i % (MaskAt(g) + 1) # i

\* A fresh segment: mem::zeroed(), all pointers null.
Zeroed == [o \in Offsets |-> Null]

(***************************************************************************)
(* The Atomic that index i has in the current tree: the walk from the root *)
(* along i's digits, or NoSlot when i is beyond the tree or a segment on   *)
(* the way is missing.                                                     *)
(***************************************************************************)
Walk(i) ==
    LET w[k \in 0 .. root.tag] ==
          IF k = 0 THEN root.seg
          ELSE IF w[k - 1] \in SegIds THEN cell[w[k - 1]][Digit(i, root.tag - k + 1)]
          ELSE Null
    IN w[root.tag]

Loc(i) ==
    IF i < Fan^(root.tag + 1) /\ Walk(i) \in SegIds
      THEN [seg |-> Walk(i), off |-> Digit(i, 0)]
      ELSE NoSlot

\* The array the tree represents.
AbsArr == [i \in Indices |-> IF Loc(i) = NoSlot THEN Null ELSE cell[Loc(i).seg][Loc(i).off]]

Abs == INSTANCE ArraySpec WITH arr <- AbsArr, aop <- op, ares <- res

ASSUME ProgramAssumption == Program \in [Threads -> Seq(SUBSET Abs!Ops)]

PCs == {"idle", "grow", "grow_cas", "locate", "loc_step", "loc_cas",
        "loc_reload", "loc_load", "access", "ret", "panic"}

Init ==
    /\ root = [seg |-> 1, tag |-> 0]
    /\ cell = [s \in SegIds |-> Zeroed]
    /\ next = 2
    /\ pc = [t \in Threads |-> "idle"]
    /\ op = [t \in Threads |-> Abs!NoOp]
    /\ res = [t \in Threads |-> Abs!NoRes]
    /\ hgt = [t \in Threads |-> 0]
    /\ iter = [t \in Threads |-> 0]
    /\ gptr = [t \in Threads |-> [seg |-> 1, tag |-> 0]]
    /\ layer = [t \in Threads |-> 0]
    /\ ptr = [t \in Threads |-> Null]
    /\ loc = [t \in Threads |-> NoSlot]
    /\ slot = [t \in Threads |-> NoSlot]
    /\ done = [t \in Threads |-> 0]

-----------------------------------------------------------------------------
(***************************************************************************)
(* get(index): compute the height; an index too large panics.              *)
(***************************************************************************)
\* Mutant: the grow loop runs over 1 .. height, one iteration short.
InvokeShortGrow(t) ==
    /\ pc[t] = "idle"
    /\ done[t] < Len(Program[t])
    /\ \E o \in Program[t][done[t] + 1], h \in 0 .. Width :
         /\ IsHeight(o.idx, h)
         /\ op' = [op EXCEPT ![t] = o]
         /\ hgt' = [hgt EXCEPT ![t] = h]
         /\ iter' = [iter EXCEPT ![t] = IF h = 0 THEN 0 ELSE h - 1]
         /\ pc' = [pc EXCEPT ![t] = IF h > MaxLayer THEN "panic" ELSE "grow"]
    /\ UNCHANGED <<root, cell, next, res, gptr, layer, ptr, loc, slot, done>>

Invoke(t) ==
    /\ pc[t] = "idle"
    /\ done[t] < Len(Program[t])
    /\ \E o \in Program[t][done[t] + 1], h \in 0 .. Width :
         /\ IsHeight(o.idx, h)
         /\ op' = [op EXCEPT ![t] = o]
         /\ hgt' = [hgt EXCEPT ![t] = h]
         /\ iter' = [iter EXCEPT ![t] = h]
         /\ pc' = [pc EXCEPT ![t] = IF h > MaxLayer THEN "panic" ELSE "grow"]
    /\ UNCHANGED <<root, cell, next, res, gptr, layer, ptr, loc, slot, done>>

\* The grow loop: `height` iterations, each loading the root; a root whose
\* tag is already at least the height ends the loop.
GrowLoad(t) ==
    /\ pc[t] = "grow"
    /\ IF iter[t] = 0
         THEN /\ pc' = [pc EXCEPT ![t] = "locate"]
              /\ UNCHANGED gptr
         ELSE /\ gptr' = [gptr EXCEPT ![t] = root]
              /\ pc' = [pc EXCEPT ![t] = IF root.tag >= hgt[t] THEN "locate" ELSE "grow_cas"]
    /\ UNCHANGED <<root, cell, next, op, res, hgt, iter, layer, ptr, loc, slot, done>>

\* Mutant: the new root's children[0] is left null.
GrowCasUnlinked(t) ==
    /\ pc[t] = "grow_cas"
    /\ next <= MaxSegs
    /\ IF root = gptr[t]
         THEN /\ root' = [seg |-> next, tag |-> gptr[t].tag + 1]
              /\ cell' = [cell EXCEPT ![next] = Zeroed]
              /\ next' = next + 1
         ELSE UNCHANGED <<root, cell, next>>
    /\ iter' = [iter EXCEPT ![t] = iter[t] - 1]
    /\ pc' = [pc EXCEPT ![t] = "grow"]
    /\ UNCHANGED <<op, res, hgt, gptr, layer, ptr, loc, slot, done>>

\* A new root of tag + 1 whose children[0] is the root read, installed by a
\* single CAS; a failed CAS drops the new segment.
GrowCas(t) ==
    /\ pc[t] = "grow_cas"
    /\ next <= MaxSegs
    /\ IF root = gptr[t]
         THEN /\ root' = [seg |-> next, tag |-> gptr[t].tag + 1]
              /\ cell' = [cell EXCEPT ![next] = [Zeroed EXCEPT ![0] = gptr[t].seg]]
              /\ next' = next + 1
         ELSE UNCHANGED <<root, cell, next>>
    /\ iter' = [iter EXCEPT ![t] = iter[t] - 1]
    /\ pc' = [pc EXCEPT ![t] = "grow"]
    /\ UNCHANGED <<op, res, hgt, gptr, layer, ptr, loc, slot, done>>

(***************************************************************************)
(* The locate loop, from the root down to layer 0.                         *)
(***************************************************************************)
LocStart(t) ==
    /\ pc[t] = "locate"
    /\ ptr' = [ptr EXCEPT ![t] = root.seg]
    /\ layer' = [layer EXCEPT ![t] = root.tag]
    /\ pc' = [pc EXCEPT ![t] = "loc_step"]
    /\ UNCHANGED <<root, cell, next, op, res, hgt, iter, gptr, loc, slot, done>>

\* Mutant: no `layer == 0` return; a non-null ptr is always descended.
LocStepNoLeafCheck(t) ==
    LET l == layer[t]
        o == Digit(op[t].idx, l)
    IN
    /\ pc[t] = "loc_step"
    /\ \/ /\ ptr[t] # Null
          /\ loc' = [loc EXCEPT ![t] = [seg |-> ptr[t], off |-> o]]
          /\ ptr' = [ptr EXCEPT ![t] = cell[ptr[t]][o]]
          /\ layer' = [layer EXCEPT ![t] = l - 1]
          /\ UNCHANGED <<slot, pc>>
       \/ /\ ptr[t] = Null
          /\ pc' = [pc EXCEPT ![t] = "loc_cas"]
          /\ UNCHANGED <<slot, ptr, layer, loc>>
    /\ UNCHANGED <<root, cell, next, op, res, hgt, iter, gptr, done>>

\* A non-null ptr: at layer 0 return its element; above it, step to the
\* child pointer and load it.  A null ptr: go and install a segment.
LocStep(t) ==
    LET l == layer[t]
        o == Digit(op[t].idx, l)
    IN
    /\ pc[t] = "loc_step"
    /\ \/ /\ ptr[t] # Null /\ l = 0
          /\ slot' = [slot EXCEPT ![t] = [seg |-> ptr[t], off |-> o]]
          /\ pc' = [pc EXCEPT ![t] = "access"]
          /\ UNCHANGED <<ptr, layer, loc>>
       \/ /\ ptr[t] # Null /\ l # 0
          /\ loc' = [loc EXCEPT ![t] = [seg |-> ptr[t], off |-> o]]
          /\ ptr' = [ptr EXCEPT ![t] = cell[ptr[t]][o]]
          /\ layer' = [layer EXCEPT ![t] = l - 1]
          /\ UNCHANGED <<slot, pc>>
       \/ /\ ptr[t] = Null
          /\ pc' = [pc EXCEPT ![t] = "loc_cas"]
          /\ UNCHANGED <<slot, ptr, layer, loc>>
    /\ UNCHANGED <<root, cell, next, op, res, hgt, iter, gptr, done>>

\* atm_ptr.compare_exchange(ptr, Segment::new()): installs a zeroed segment
\* if the pointer is still null.
LocCas(t) ==
    /\ pc[t] = "loc_cas"
    /\ next <= MaxSegs
    /\ IF cell[loc[t].seg][loc[t].off] = ptr[t]
         THEN /\ cell' = [cell EXCEPT ![loc[t].seg][loc[t].off] = next]
              /\ next' = next + 1
         ELSE UNCHANGED <<cell, next>>
    /\ pc' = [pc EXCEPT ![t] = "loc_reload"]
    /\ UNCHANGED <<root, op, res, hgt, iter, gptr, layer, ptr, loc, slot, done>>

\* Reload atm_ptr and unwrap it: at layer 0 return its element, above it
\* step to its child pointer.  The unwrap of a null pointer would panic;
\* the step is then disabled and the run reports the thread as stuck.
LocReload(t) ==
    LET s == cell[loc[t].seg][loc[t].off]
        o == Digit(op[t].idx, layer[t])
    IN
    /\ pc[t] = "loc_reload"
    /\ \/ /\ s # Null /\ layer[t] = 0
          /\ slot' = [slot EXCEPT ![t] = [seg |-> s, off |-> o]]
          /\ pc' = [pc EXCEPT ![t] = "access"]
          /\ UNCHANGED loc
       \/ /\ s # Null /\ layer[t] # 0
          /\ loc' = [loc EXCEPT ![t] = [seg |-> s, off |-> o]]
          /\ pc' = [pc EXCEPT ![t] = "loc_load"]
          /\ UNCHANGED slot
    /\ UNCHANGED <<root, cell, next, op, res, hgt, iter, gptr, layer, ptr, done>>

\* ptr = atm_ptr.load(), next layer.
LocLoad(t) ==
    /\ pc[t] = "loc_load"
    /\ ptr' = [ptr EXCEPT ![t] = cell[loc[t].seg][loc[t].off]]
    /\ layer' = [layer EXCEPT ![t] = layer[t] - 1]
    /\ pc' = [pc EXCEPT ![t] = "loc_step"]
    /\ UNCHANGED <<root, cell, next, op, res, hgt, iter, gptr, loc, slot, done>>

\* The caller's load or store on the returned Atomic: in SplitOrderedList,
\* lookup_bucket's load of a bucket slot and its store of the sentinel.
Access(t) ==
    LET a == slot[t] IN
    /\ pc[t] = "access"
    /\ \/ /\ op[t].kind = "load"
          /\ res' = [res EXCEPT ![t] = cell[a.seg][a.off]]
          /\ UNCHANGED cell
       \/ /\ op[t].kind = "store"
          /\ cell' = [cell EXCEPT ![a.seg][a.off] = op[t].val]
          /\ res' = [res EXCEPT ![t] = "done"]
    /\ pc' = [pc EXCEPT ![t] = "ret"]
    /\ UNCHANGED <<root, next, op, hgt, iter, gptr, layer, ptr, loc, slot, done>>

Finish(t) ==
    /\ pc[t] = "ret"
    /\ pc' = [pc EXCEPT ![t] = "idle"]
    /\ op' = [op EXCEPT ![t] = Abs!NoOp]
    /\ res' = [res EXCEPT ![t] = Abs!NoRes]
    /\ slot' = [slot EXCEPT ![t] = NoSlot]
    /\ done' = [done EXCEPT ![t] = done[t] + 1]
    /\ UNCHANGED <<root, cell, next, hgt, iter, gptr, layer, ptr, loc>>

Terminated ==
    /\ \A t \in Threads : (pc[t] = "idle" /\ done[t] = Len(Program[t])) \/ pc[t] = "panic"
    /\ UNCHANGED vars

Step(t) ==
    \/ Invoke(t) \/ GrowLoad(t) \/ GrowCas(t) \/ LocStart(t) \/ LocStep(t)
    \/ LocCas(t) \/ LocReload(t) \/ LocLoad(t) \/ Access(t) \/ Finish(t)

Next == (\E t \in Threads : Step(t)) \/ Terminated

Spec == Init /\ [][Next]_vars

-----------------------------------------------------------------------------
(***************************************************************************)
(* Properties.                                                             *)
(***************************************************************************)
Cells == SegIds \cup Values \cup {Null}
Addr == [seg : SegIds \cup {Null}, off : Offsets]

TypeOK ==
    /\ root \in [seg : SegIds, tag : 0 .. Width]
    /\ cell \in [SegIds -> [Offsets -> Cells]]
    /\ next \in 2 .. MaxSegs + 1
    /\ pc \in [Threads -> PCs]
    /\ op \in [Threads -> Abs!Ops \cup {Abs!NoOp}]
    /\ res \in [Threads -> Values \cup {Null, "done", Abs!NoRes}]
    /\ hgt \in [Threads -> 0 .. Width]
    /\ iter \in [Threads -> 0 .. Width]
    /\ gptr \in [Threads -> [seg : SegIds, tag : 0 .. Width]]
    /\ layer \in [Threads -> 0 .. Width]
    /\ ptr \in [Threads -> Cells]
    /\ loc \in [Threads -> Addr]
    /\ slot \in [Threads -> Addr]
    /\ done \in [Threads -> Nat]

\* Once a thread leaves the grow loop the tree is tall enough for its
\* index: each of its `height` iterations either grew the root itself or
\* lost its CAS to another thread's growth.
GrowEnough ==
    \A t \in Threads :
        pc[t] \in {"locate", "loc_step", "loc_cas", "loc_reload", "loc_load", "access"}
            => root.tag >= hgt[t]

\* get(index) followed by a load or store behaves as an atomic access of
\* cell index of an array: the tree implements ArraySpec.
Implements == Abs!AbsSpec
====
