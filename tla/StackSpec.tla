----------------------------- MODULE StackSpec -----------------------------
(***************************************************************************)
(* What a concurrent stack promises its callers (the Stack trait of        *)
(* src/homework/src/elim_stack/base.rs): push and pop take effect          *)
(* atomically, last in first out; pop on an empty stack returns None.      *)
(* A push and a pop that meet may take effect together, the pop returning  *)
(* the pushed value: the same as the push followed at once by the pop.     *)
(***************************************************************************)
EXTENDS Naturals, Sequences

CONSTANTS Threads, Values, NoVal

VARIABLES stack, aop, ares

absVars == <<stack, aop, ares>>

Ops == [kind : {"push"}, val : Values] \cup [kind : {"pop"}, val : {NoVal}]
NoOp == [kind |-> "none", val |-> NoVal]

\* Results: "ok" for a push, a value (Some) or "none" for a pop.
NoRes == "pending"

AbsInit ==
    /\ stack = <<>>
    /\ aop = [t \in Threads |-> NoOp]
    /\ ares = [t \in Threads |-> NoRes]

Invoke(t) ==
    /\ aop[t] = NoOp
    /\ \E o \in Ops : aop' = [aop EXCEPT ![t] = o]
    /\ UNCHANGED <<stack, ares>>

Pending(t, kind) == aop[t].kind = kind /\ ares[t] = NoRes

DoPush(t) ==
    /\ Pending(t, "push")
    /\ stack' = Append(stack, aop[t].val)
    /\ ares' = [ares EXCEPT ![t] = "ok"]
    /\ UNCHANGED aop

DoPop(t) ==
    /\ Pending(t, "pop")
    /\ \/ stack = <<>> /\ ares' = [ares EXCEPT ![t] = "none"] /\ UNCHANGED stack
       \/ /\ stack # <<>>
          /\ ares' = [ares EXCEPT ![t] = stack[Len(stack)]]
          /\ stack' = SubSeq(stack, 1, Len(stack) - 1)
    /\ UNCHANGED aop

Exchange(t, u) ==
    /\ Pending(t, "push") /\ Pending(u, "pop")
    /\ ares' = [ares EXCEPT ![t] = "ok", ![u] = aop[t].val]
    /\ UNCHANGED <<stack, aop>>

Return(t) ==
    /\ aop[t] # NoOp /\ ares[t] # NoRes
    /\ aop' = [aop EXCEPT ![t] = NoOp]
    /\ ares' = [ares EXCEPT ![t] = NoRes]
    /\ UNCHANGED stack

AbsNext ==
    \/ \E t \in Threads : Invoke(t) \/ DoPush(t) \/ DoPop(t) \/ Return(t)
    \/ \E t, u \in Threads : Exchange(t, u)

AbsSpec == AbsInit /\ [][AbsNext]_absVars
====
