----------------------------- MODULE ArraySpec -----------------------------
(***************************************************************************)
(* What GrowableArray promises its user (SplitOrderedList's bucket table): *)
(* an unbounded array of atomic pointers, all null at first, where         *)
(* get(index) followed by a load or a store on the returned Atomic acts    *)
(* as one atomic load or store of the array's cell index.                  *)
(***************************************************************************)
CONSTANTS Threads, Indices, Values, Null

VARIABLES arr, aop, ares

absVars == <<arr, aop, ares>>

Ops == [kind : {"load"}, idx : Indices, val : {Null}]
         \cup [kind : {"store"}, idx : Indices, val : Values]
NoOp == [kind |-> "none", idx |-> Null, val |-> Null]
\* The result of a load; "done" for a store, "pending" before it acts.
NoRes == "pending"

AbsInit ==
    /\ arr = [i \in Indices |-> Null]
    /\ aop = [t \in Threads |-> NoOp]
    /\ ares = [t \in Threads |-> NoRes]

Invoke(t) ==
    /\ aop[t] = NoOp
    /\ \E o \in Ops : aop' = [aop EXCEPT ![t] = o]
    /\ UNCHANGED <<arr, ares>>

Pending(t, kind) == aop[t].kind = kind /\ ares[t] = NoRes

DoLoad(t) ==
    /\ Pending(t, "load")
    /\ ares' = [ares EXCEPT ![t] = arr[aop[t].idx]]
    /\ UNCHANGED <<arr, aop>>

DoStore(t) ==
    /\ Pending(t, "store")
    /\ arr' = [arr EXCEPT ![aop[t].idx] = aop[t].val]
    /\ ares' = [ares EXCEPT ![t] = "done"]
    /\ UNCHANGED aop

Return(t) ==
    /\ aop[t] # NoOp /\ ares[t] # NoRes
    /\ aop' = [aop EXCEPT ![t] = NoOp]
    /\ ares' = [ares EXCEPT ![t] = NoRes]
    /\ UNCHANGED arr

AbsNext == \E t \in Threads : Invoke(t) \/ DoLoad(t) \/ DoStore(t) \/ Return(t)

AbsSpec == AbsInit /\ [][AbsNext]_absVars
====
