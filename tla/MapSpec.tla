------------------------------ MODULE MapSpec ------------------------------
(***************************************************************************)
(* What a concurrent map promises its callers (the ConcurrentMap trait     *)
(* that SplitOrderedList implements): every lookup, insert and delete      *)
(* takes effect atomically at one instant between its call and its         *)
(* return.  Each thread has at most one operation outstanding; aop holds   *)
(* it, ares holds its result once it has taken effect.                     *)
(***************************************************************************)
EXTENDS Naturals

CONSTANTS Threads, Keys, Values, NoVal

VARIABLES map, aop, ares

absVars == <<map, aop, ares>>

Kinds == {"lookup", "insert", "delete"}

\* An operation: lookup(key), insert(key, val) or delete(key).
Ops == [kind : Kinds, key : Keys, val : Values \cup {NoVal}]

WellFormed(o) == (o.kind = "insert") <=> (o.val \in Values)

NoOp == [kind |-> "none", key |-> NoVal, val |-> NoVal]

\* Results: Ok(()) / Ok(v) is "ok", Err(v) / Err(()) is "err",
\* Some(v) is "some", None is "none".
Result(tag, v) == [tag |-> tag, val |-> v]

Results == [tag : {"ok", "err", "some", "none"}, val : Values \cup {NoVal}]

NoRes == Result("pending", NoVal)

AbsInit ==
    /\ map = [k \in Keys |-> NoVal]
    /\ aop = [t \in Threads |-> NoOp]
    /\ ares = [t \in Threads |-> NoRes]

Invoke(t) ==
    /\ aop[t] = NoOp
    /\ \E o \in Ops : WellFormed(o) /\ aop' = [aop EXCEPT ![t] = o]
    /\ UNCHANGED <<map, ares>>

Pending(t, kind) == aop[t].kind = kind /\ ares[t] = NoRes

DoLookup(t) ==
    LET v == map[aop[t].key] IN
    /\ Pending(t, "lookup")
    /\ ares' = [ares EXCEPT ![t] = IF v = NoVal THEN Result("none", NoVal)
                                                ELSE Result("some", v)]
    /\ UNCHANGED <<map, aop>>

\* Duplicate keys are rejected and the caller gets its value back.
DoInsert(t) ==
    LET k == aop[t].key IN
    /\ Pending(t, "insert")
    /\ IF map[k] = NoVal
         THEN /\ map' = [map EXCEPT ![k] = aop[t].val]
              /\ ares' = [ares EXCEPT ![t] = Result("ok", NoVal)]
         ELSE /\ ares' = [ares EXCEPT ![t] = Result("err", aop[t].val)]
              /\ UNCHANGED map
    /\ UNCHANGED aop

DoDelete(t) ==
    LET k == aop[t].key IN
    /\ Pending(t, "delete")
    /\ IF map[k] = NoVal
         THEN /\ ares' = [ares EXCEPT ![t] = Result("err", NoVal)]
              /\ UNCHANGED map
         ELSE /\ ares' = [ares EXCEPT ![t] = Result("ok", map[k])]
              /\ map' = [map EXCEPT ![k] = NoVal]
    /\ UNCHANGED aop

Return(t) ==
    /\ aop[t] # NoOp
    /\ ares[t] # NoRes
    /\ aop' = [aop EXCEPT ![t] = NoOp]
    /\ ares' = [ares EXCEPT ![t] = NoRes]
    /\ UNCHANGED map

AbsNext ==
    \E t \in Threads :
        Invoke(t) \/ DoLookup(t) \/ DoInsert(t) \/ DoDelete(t) \/ Return(t)

AbsSpec == AbsInit /\ [][AbsNext]_absVars

=============================================================================
