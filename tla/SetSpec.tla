------------------------------ MODULE SetSpec ------------------------------
(***************************************************************************)
(* What a concurrent set promises its callers (the ConcurrentSet trait     *)
(* of src/homework/src/list_set): contains, insert and remove each take    *)
(* effect atomically at one instant between call and return.  insert       *)
(* returns whether the key was absent, remove whether it was present.      *)
(***************************************************************************)
CONSTANTS Threads, Keys, NoRes

VARIABLES set, aop, ares

absVars == <<set, aop, ares>>

Ops == [kind : {"contains", "insert", "remove"}, key : Keys]

NoOp == [kind |-> "none", key |-> NoRes]

AbsInit ==
    /\ set = {}
    /\ aop = [t \in Threads |-> NoOp]
    /\ ares = [t \in Threads |-> NoRes]

Invoke(t) ==
    /\ aop[t] = NoOp
    /\ \E o \in Ops : aop' = [aop EXCEPT ![t] = o]
    /\ UNCHANGED <<set, ares>>

Pending(t, kind) == aop[t].kind = kind /\ ares[t] = NoRes

DoContains(t) ==
    /\ Pending(t, "contains")
    /\ ares' = [ares EXCEPT ![t] = aop[t].key \in set]
    /\ UNCHANGED <<set, aop>>

DoInsert(t) ==
    /\ Pending(t, "insert")
    /\ ares' = [ares EXCEPT ![t] = aop[t].key \notin set]
    /\ set' = set \cup {aop[t].key}
    /\ UNCHANGED aop

DoRemove(t) ==
    /\ Pending(t, "remove")
    /\ ares' = [ares EXCEPT ![t] = aop[t].key \in set]
    /\ set' = set \ {aop[t].key}
    /\ UNCHANGED aop

Return(t) ==
    /\ aop[t] # NoOp /\ ares[t] # NoRes
    /\ aop' = [aop EXCEPT ![t] = NoOp]
    /\ ares' = [ares EXCEPT ![t] = NoRes]
    /\ UNCHANGED set

AbsNext ==
    \E t \in Threads :
        Invoke(t) \/ DoContains(t) \/ DoInsert(t) \/ DoRemove(t) \/ Return(t)

AbsSpec == AbsInit /\ [][AbsNext]_absVars
====
