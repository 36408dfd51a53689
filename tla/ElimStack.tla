----------------------------- MODULE ElimStack -----------------------------
(***************************************************************************)
(* The elimination-backoff stack of src/homework/src/elim_stack: an inner  *)
(* lock-free stack and ELIM_SIZE exchange slots (base.rs, elim.rs).        *)
(*                                                                         *)
(* A push that loses the inner stack's CAS offers its request in a random  *)
(* slot, sleeps, and tries to take it back; a pop that loses the inner CAS *)
(* looks in a random slot and takes the request it finds.  Every atomic    *)
(* load and CAS is a step; the sleeps are the windows between steps.       *)
(*                                                                         *)
(* The inner stack (the Treiber stack of the cs431 crate) is not under     *)
(* src/: it is modelled from the Stack trait it implements, as a sequence  *)
(* with a version that every successful CAS of its head advances; a CAS    *)
(* succeeds when the head has not changed since the load before it.       *)
(* Requests are never reclaimed while a thread that read them is pinned,   *)
(* so a request is named by the value it carries.                          *)
(***************************************************************************)
EXTENDS Integers, Sequences, FiniteSets

CONSTANTS
    Threads,   \* the threads calling push and pop
    Values,    \* the values pushed (each pushed once)
    NoVal,     \* null / None
    ElimSize,  \* ELIM_SIZE
    Program    \* Program[t][i]: the operations t may call i-th

ASSUME ParamAssumption ==
    /\ ElimSize \in Nat \ {0}
    /\ NoVal \notin Values

Slots == 0 .. ElimSize - 1

VARIABLES
    inner,   \* the inner stack, top last
    ver,     \* the version of the inner stack's head
    slots,   \* slots[i]: the request in exchange slot i, or NoVal
    pc,      \* where each thread is
    op,      \* its operation
    res,     \* its result once it has taken effect
    first,   \* whether the inner try_* is try_push's / try_pop's first one
    seen,    \* the head version its inner load read
    idx,     \* the exchange slot it picked
    got,     \* the request the pop loaded from that slot
    done     \* operations completed per thread

vars == <<inner, ver, slots, pc, op, res, first, seen, idx, got, done>>

Abs == INSTANCE StackSpec WITH stack <- inner, aop <- op, ares <- res

ASSUME ProgramAssumption == Program \in [Threads -> Seq(SUBSET Abs!Ops)]

\* A result Some(v) is never taken for a call that has not returned.
ASSUME ResultAssumption == Abs!NoRes \notin Values

\* A value names the request box push allocates for it: no two calls of
\* the program push the same value.
ASSUME PushOnceAssumption ==
    \A t, u \in Threads, v \in Values :
        \A i \in 1 .. Len(Program[t]), j \in 1 .. Len(Program[u]) :
            /\ [kind |-> "push", val |-> v] \in Program[t][i]
            /\ [kind |-> "push", val |-> v] \in Program[u][j]
            => t = u /\ i = j

PCs == {"idle", "p_load", "p_cas", "p_offer", "p_withdraw",
        "q_load", "q_cas", "q_peek", "q_reload", "q_take", "ret"}

Init ==
    /\ inner = <<>>
    /\ ver = 0
    /\ slots = [i \in Slots |-> NoVal]
    /\ pc = [t \in Threads |-> "idle"]
    /\ op = [t \in Threads |-> Abs!NoOp]
    /\ res = [t \in Threads |-> Abs!NoRes]
    /\ first = [t \in Threads |-> TRUE]
    /\ seen = [t \in Threads |-> 0]
    /\ idx = [t \in Threads |-> 0]
    /\ got = [t \in Threads |-> NoVal]
    /\ done = [t \in Threads |-> 0]

-----------------------------------------------------------------------------
(***************************************************************************)
(* Stack::push / Stack::pop: call try_push / try_pop until it is Ok.      *)
(***************************************************************************)
Invoke(t) ==
    /\ pc[t] = "idle"
    /\ done[t] < Len(Program[t])
    /\ \E o \in Program[t][done[t] + 1] :
         /\ op' = [op EXCEPT ![t] = o]
         /\ pc' = [pc EXCEPT ![t] = IF o.kind = "push" THEN "p_load" ELSE "q_load"]
    /\ first' = [first EXCEPT ![t] = TRUE]
    /\ UNCHANGED <<inner, ver, slots, res, seen, idx, got, done>>

\* An Err of try_push / try_pop: the loop of push / pop calls it again.
Retry(t) ==
    /\ pc' = [pc EXCEPT ![t] = IF op[t].kind = "push" THEN "p_load" ELSE "q_load"]
    /\ first' = [first EXCEPT ![t] = TRUE]

(***************************************************************************)
(* ElimStack::try_push                                                     *)
(***************************************************************************)
\* inner.try_push: load the head.
PushLoad(t) ==
    /\ pc[t] = "p_load"
    /\ seen' = [seen EXCEPT ![t] = ver]
    /\ pc' = [pc EXCEPT ![t] = "p_cas"]
    /\ UNCHANGED <<inner, ver, slots, op, res, first, idx, got, done>>

\* inner.try_push: CAS the head.  Success returns Ok; the first failure
\* goes to the exchange, a later one is the Err of try_push.
PushCas(t) ==
    /\ pc[t] = "p_cas"
    /\ \/ /\ ver = seen[t]
          /\ inner' = Append(inner, op[t].val)
          /\ ver' = ver + 1
          /\ res' = [res EXCEPT ![t] = "ok"]
          /\ pc' = [pc EXCEPT ![t] = "ret"]
          /\ UNCHANGED first
       \/ /\ ver # seen[t] /\ first[t]
          /\ pc' = [pc EXCEPT ![t] = "p_offer"]
          /\ UNCHANGED <<inner, ver, res, first>>
       \/ /\ ver # seen[t] /\ ~first[t]
          /\ Retry(t)
          /\ UNCHANGED <<inner, ver, res>>
    /\ UNCHANGED <<slots, op, seen, idx, got, done>>

\* CAS a random slot from null to the request; on failure, push to the
\* inner stack once more.
PushOffer(t) ==
    /\ pc[t] = "p_offer"
    /\ \E i \in Slots :
         /\ idx' = [idx EXCEPT ![t] = i]
         /\ \/ /\ slots[i] = NoVal
               /\ slots' = [slots EXCEPT ![i] = op[t].val]
               /\ pc' = [pc EXCEPT ![t] = "p_withdraw"]
               /\ UNCHANGED first
            \/ /\ slots[i] # NoVal
               /\ pc' = [pc EXCEPT ![t] = "p_load"]
               /\ first' = [first EXCEPT ![t] = FALSE]
               /\ UNCHANGED slots
    /\ UNCHANGED <<inner, ver, op, res, seen, got, done>>

\* Mutant: a failed withdrawal is taken for a request nobody took.
PushWithdrawBlind(t) ==
    /\ pc[t] = "p_withdraw"
    /\ slots' = [slots EXCEPT ![idx[t]] = NoVal]
    /\ pc' = [pc EXCEPT ![t] = "p_load"]
    /\ first' = [first EXCEPT ![t] = FALSE]
    /\ UNCHANGED <<inner, ver, op, res, seen, idx, got, done>>

\* After the sleep, CAS the slot from the request back to null.  Failure
\* means a pop took it: Ok.  Success: push to the inner stack once more.
PushWithdraw(t) ==
    /\ pc[t] = "p_withdraw"
    /\ \/ /\ slots[idx[t]] = op[t].val
          /\ slots' = [slots EXCEPT ![idx[t]] = NoVal]
          /\ pc' = [pc EXCEPT ![t] = "p_load"]
          /\ first' = [first EXCEPT ![t] = FALSE]
       \/ /\ slots[idx[t]] # op[t].val
          /\ pc' = [pc EXCEPT ![t] = "ret"]
          /\ UNCHANGED <<slots, first>>
    /\ UNCHANGED <<inner, ver, op, res, seen, idx, got, done>>

(***************************************************************************)
(* ElimStack::try_pop                                                      *)
(***************************************************************************)
\* inner.try_pop: load the head; a null head is Ok(None).
PopLoad(t) ==
    /\ pc[t] = "q_load"
    /\ \/ /\ inner = <<>>
          /\ res' = [res EXCEPT ![t] = "none"]
          /\ pc' = [pc EXCEPT ![t] = "ret"]
          /\ UNCHANGED seen
       \/ /\ inner # <<>>
          /\ seen' = [seen EXCEPT ![t] = ver]
          /\ pc' = [pc EXCEPT ![t] = "q_cas"]
          /\ UNCHANGED res
    /\ UNCHANGED <<inner, ver, slots, op, first, idx, got, done>>

\* inner.try_pop: CAS the head to its next.  The first failure goes to the
\* exchange, a later one is the Err of try_pop.
PopCas(t) ==
    /\ pc[t] = "q_cas"
    /\ \/ /\ ver = seen[t]
          /\ res' = [res EXCEPT ![t] = inner[Len(inner)]]
          /\ inner' = SubSeq(inner, 1, Len(inner) - 1)
          /\ ver' = ver + 1
          /\ pc' = [pc EXCEPT ![t] = "ret"]
          /\ UNCHANGED first
       \/ /\ ver # seen[t] /\ first[t]
          /\ pc' = [pc EXCEPT ![t] = "q_peek"]
          /\ UNCHANGED <<inner, ver, res, first>>
       \/ /\ ver # seen[t] /\ ~first[t]
          /\ Retry(t)
          /\ UNCHANGED <<inner, ver, res>>
    /\ UNCHANGED <<slots, op, seen, idx, got, done>>

\* Load a random slot; if null, sleep and load it again.
PopPeek(t) ==
    /\ pc[t] = "q_peek"
    /\ \E i \in Slots :
         /\ idx' = [idx EXCEPT ![t] = i]
         /\ got' = [got EXCEPT ![t] = slots[i]]
         /\ pc' = [pc EXCEPT ![t] = IF slots[i] = NoVal THEN "q_reload" ELSE "q_take"]
    /\ UNCHANGED <<inner, ver, slots, op, res, first, seen, done>>

\* Mutant: the second load is not checked for null.
PopReloadNoCheck(t) ==
    /\ pc[t] = "q_reload"
    /\ got' = [got EXCEPT ![t] = slots[idx[t]]]
    /\ pc' = [pc EXCEPT ![t] = "q_take"]
    /\ UNCHANGED <<inner, ver, slots, op, res, first, seen, idx, done>>

\* The second load; still null: pop from the inner stack once more.
PopReload(t) ==
    /\ pc[t] = "q_reload"
    /\ got' = [got EXCEPT ![t] = slots[idx[t]]]
    /\ \/ /\ slots[idx[t]] = NoVal
          /\ pc' = [pc EXCEPT ![t] = "q_load"]
          /\ first' = [first EXCEPT ![t] = FALSE]
       \/ /\ slots[idx[t]] # NoVal
          /\ pc' = [pc EXCEPT ![t] = "q_take"]
          /\ UNCHANGED first
    /\ UNCHANGED <<inner, ver, slots, op, res, seen, idx, done>>

\* CAS the slot from the loaded request to null: the pop takes the value,
\* and the push it came from has taken effect with it.  On failure, pop
\* from the inner stack once more.
PopTake(t) ==
    /\ pc[t] = "q_take"
    /\ \/ /\ slots[idx[t]] = got[t]
          /\ slots' = [slots EXCEPT ![idx[t]] = NoVal]
          /\ res' = [u \in Threads |->
                       IF u = t THEN got[t]
                       ELSE IF op[u] = [kind |-> "push", val |-> got[t]] THEN "ok"
                       ELSE res[u]]
          /\ pc' = [pc EXCEPT ![t] = "ret"]
          /\ UNCHANGED first
       \/ /\ slots[idx[t]] # got[t]
          /\ pc' = [pc EXCEPT ![t] = "q_load"]
          /\ first' = [first EXCEPT ![t] = FALSE]
          /\ UNCHANGED <<slots, res>>
    /\ UNCHANGED <<inner, ver, op, seen, idx, got, done>>

Finish(t) ==
    /\ pc[t] = "ret"
    /\ pc' = [pc EXCEPT ![t] = "idle"]
    /\ op' = [op EXCEPT ![t] = Abs!NoOp]
    /\ res' = [res EXCEPT ![t] = Abs!NoRes]
    /\ got' = [got EXCEPT ![t] = NoVal]
    /\ done' = [done EXCEPT ![t] = done[t] + 1]
    /\ UNCHANGED <<inner, ver, slots, first, seen, idx>>

Terminated ==
    /\ \A t \in Threads : pc[t] = "idle" /\ done[t] = Len(Program[t])
    /\ UNCHANGED vars

Step(t) ==
    \/ Invoke(t) \/ PushLoad(t) \/ PushCas(t) \/ PushOffer(t) \/ PushWithdraw(t)
    \/ PopLoad(t) \/ PopCas(t) \/ PopPeek(t) \/ PopReload(t) \/ PopTake(t)
    \/ Finish(t)

Next == (\E t \in Threads : Step(t)) \/ Terminated

Spec == Init /\ [][Next]_vars

-----------------------------------------------------------------------------
(***************************************************************************)
(* Properties.                                                             *)
(***************************************************************************)
TypeOK ==
    /\ inner \in Seq(Values)
    /\ ver \in Nat
    /\ slots \in [Slots -> Values \cup {NoVal}]
    /\ pc \in [Threads -> PCs]
    /\ op \in [Threads -> Abs!Ops \cup {Abs!NoOp}]
    /\ res \in [Threads -> Values \cup {"ok", "none", Abs!NoRes}]
    /\ first \in [Threads -> BOOLEAN]
    /\ seen \in [Threads -> Nat]
    /\ idx \in [Threads -> Slots]
    /\ got \in [Threads -> Values \cup {NoVal}]
    /\ done \in [Threads -> Nat]

\* push and pop are linearizable: the stack implements StackSpec, an
\* exchange through a slot being a push at once followed by its pop.
Linearizable == Abs!AbsSpec

=============================================================================
