-------------------------- MODULE ElimStackProofs --------------------------
(***************************************************************************)
(* Proofs about the elimination-backoff stack of ElimStack for every       *)
(* thread set, value set, number of exchange slots and program: every      *)
(* reachable state is well typed, in particular no pop takes the top of an *)
(* empty inner stack; and the stack implements StackSpec (Linearizable).   *)
(***************************************************************************)
EXTENDS ElimStack, SequenceTheorems, TLAPS

\* The program points of try_push and of try_pop.
PushPCs == {"p_load", "p_cas", "p_offer", "p_withdraw"}
PopPCs == {"q_load", "q_cas", "q_peek", "q_reload", "q_take"}

\* A thread inside push runs a push of a value, one inside pop a pop.
OpsMatch ==
    \A t \in Threads :
        /\ pc[t] \in PushPCs => op[t].kind = "push" /\ op[t].val \in Values
        /\ pc[t] \in PopPCs => op[t].kind = "pop"

\* The head version only grows: no thread has read a version the head
\* has not reached.
SeenBound == \A t \in Threads : seen[t] <= ver

\* A pop about to CAS the head with the version it loaded still current
\* has seen a non-empty inner stack, and the stack has not changed since:
\* every change of the inner stack advances the version.
PopSeen == \A t \in Threads : pc[t] = "q_cas" /\ seen[t] = ver => inner # <<>>

\* A pop about to take a request from a slot has loaded a request, not null.
TakeGot == \A t \in Threads : pc[t] = "q_take" => got[t] \in Values

IInv == TypeOK /\ OpsMatch /\ SeenBound /\ PopSeen /\ TakeGot

USE ParamAssumption


-----------------------------------------------------------------------------
\* ElimStack::new: an empty inner stack at version 0, empty slots.
LEMMA InitIInv == Init => IInv
BY DEF Init, IInv, TypeOK, OpsMatch, SeenBound, PopSeen, TakeGot, PCs,
       PushPCs, PopPCs, Slots, Abs!NoOp, Abs!NoRes

\* A call: push goes to the inner try_push, pop to the inner try_pop.
LEMMA InvokeIInv ==
    ASSUME IInv, NEW t \in Threads, Invoke(t)
    PROVE  IInv'
<1>a. done[t] + 1 \in 1 .. Len(Program[t])
    BY DEF Invoke, IInv, TypeOK
<1>b. Program[t][done[t] + 1] \subseteq Abs!Ops
    BY <1>a, ProgramAssumption
<1>c. PICK o \in Program[t][done[t] + 1] :
          /\ op' = [op EXCEPT ![t] = o]
          /\ pc' = [pc EXCEPT ![t] = IF o.kind = "push" THEN "p_load" ELSE "q_load"]
    BY DEF Invoke
<1>d. o \in Abs!Ops
    BY <1>b
<1>0. pc[t] = "idle" /\ first' = [first EXCEPT ![t] = TRUE]
      /\ UNCHANGED <<inner, ver, slots, res, seen, idx, got, done>>
    BY DEF Invoke
<1>1. TypeOK'
    BY <1>0, <1>c, <1>d DEF IInv, TypeOK, PCs
<1>2. OpsMatch'
    BY <1>0, <1>c, <1>d DEF IInv, TypeOK, OpsMatch, PushPCs, PopPCs, Abs!Ops
<1>3. SeenBound' /\ PopSeen' /\ TakeGot'
    BY <1>0, <1>c DEF IInv, TypeOK, SeenBound, PopSeen, TakeGot
<1> QED BY <1>1, <1>2, <1>3 DEF IInv

\* inner.try_push's load of the head.
LEMMA PushLoadIInv ==
    ASSUME IInv, NEW t \in Threads, PushLoad(t)
    PROVE  IInv'
BY DEF PushLoad, IInv, TypeOK, OpsMatch, SeenBound, PopSeen, TakeGot, PCs,
       PushPCs, PopPCs

\* inner.try_push's CAS: on success the value is on top and the version
\* advances past every version a thread has read.
LEMMA PushCasIInv ==
    ASSUME IInv, NEW t \in Threads, PushCas(t)
    PROVE  IInv'
<1>0. pc[t] = "p_cas" /\ op[t].kind = "push" /\ op[t].val \in Values
      /\ UNCHANGED <<slots, op, seen, idx, got, done>>
    BY DEF PushCas, IInv, OpsMatch, PushPCs
<1>1. CASE ver = seen[t] /\ inner' = Append(inner, op[t].val) /\ ver' = ver + 1
              /\ res' = [res EXCEPT ![t] = "ok"] /\ pc' = [pc EXCEPT ![t] = "ret"]
              /\ UNCHANGED first
    <2>1. inner' \in Seq(Values) /\ inner' # <<>>
        <3>1. inner \in Seq(Values)
            BY DEF IInv, TypeOK
        <3> QED BY <3>1, <1>0, <1>1, AppendProperties
    <2>2. TypeOK'
        BY <1>0, <1>1, <2>1 DEF IInv, TypeOK, PCs
    <2>3. OpsMatch' /\ SeenBound' /\ TakeGot'
        BY <1>0, <1>1 DEF IInv, TypeOK, OpsMatch, SeenBound, TakeGot, PushPCs, PopPCs
    <2>4. PopSeen'
        BY <2>1 DEF PopSeen
    <2> QED BY <2>2, <2>3, <2>4 DEF IInv
<1>2. CASE ver # seen[t] /\ pc' = [pc EXCEPT ![t] = "p_offer"]
              /\ UNCHANGED <<inner, ver, res, first>>
    BY <1>0, <1>2 DEF IInv, TypeOK, OpsMatch, SeenBound, PopSeen, TakeGot, PCs,
                      PushPCs, PopPCs
<1>3. CASE ver # seen[t] /\ Retry(t) /\ UNCHANGED <<inner, ver, res>>
    BY <1>0, <1>3 DEF Retry, IInv, TypeOK, OpsMatch, SeenBound, PopSeen, TakeGot,
                      PCs, PushPCs, PopPCs
<1> QED BY <1>1, <1>2, <1>3 DEF PushCas

\* Offer the request in a random slot, or go back to the inner stack.
LEMMA PushOfferIInv ==
    ASSUME IInv, NEW t \in Threads, PushOffer(t)
    PROVE  IInv'
<1>0. pc[t] = "p_offer" /\ op[t].kind = "push" /\ op[t].val \in Values
      /\ UNCHANGED <<inner, ver, op, res, seen, got, done>>
    BY DEF PushOffer, IInv, OpsMatch, PushPCs
<1>1. PICK i \in Slots :
        /\ idx' = [idx EXCEPT ![t] = i]
        /\ \/ /\ slots' = [slots EXCEPT ![i] = op[t].val]
              /\ pc' = [pc EXCEPT ![t] = "p_withdraw"]
              /\ UNCHANGED first
           \/ /\ pc' = [pc EXCEPT ![t] = "p_load"]
              /\ first' = [first EXCEPT ![t] = FALSE]
              /\ UNCHANGED slots
    BY DEF PushOffer
<1>2. TypeOK'
    BY <1>0, <1>1 DEF IInv, TypeOK, PCs
<1>3. OpsMatch'
    BY <1>0, <1>1 DEF IInv, TypeOK, OpsMatch, PushPCs, PopPCs
<1>4. SeenBound' /\ PopSeen' /\ TakeGot'
    BY <1>0, <1>1 DEF IInv, TypeOK, SeenBound, PopSeen, TakeGot
<1> QED BY <1>2, <1>3, <1>4 DEF IInv

\* Withdraw the offer, or find it taken.
LEMMA PushWithdrawIInv ==
    ASSUME IInv, NEW t \in Threads, PushWithdraw(t)
    PROVE  IInv'
<1>0. pc[t] = "p_withdraw" /\ op[t].kind = "push"
      /\ UNCHANGED <<inner, ver, op, res, seen, idx, got, done>>
    BY DEF PushWithdraw, IInv, OpsMatch, PushPCs
<1>1. \/ /\ slots' = [slots EXCEPT ![idx[t]] = NoVal]
         /\ pc' = [pc EXCEPT ![t] = "p_load"]
         /\ first' = [first EXCEPT ![t] = FALSE]
      \/ /\ pc' = [pc EXCEPT ![t] = "ret"]
         /\ UNCHANGED <<slots, first>>
    BY DEF PushWithdraw
<1>2. TypeOK'
    BY <1>0, <1>1 DEF IInv, TypeOK, PCs
<1>3. OpsMatch'
    BY <1>0, <1>1 DEF IInv, TypeOK, OpsMatch, PushPCs, PopPCs
<1>4. SeenBound' /\ PopSeen' /\ TakeGot'
    BY <1>0, <1>1 DEF IInv, TypeOK, SeenBound, PopSeen, TakeGot
<1> QED BY <1>2, <1>3, <1>4 DEF IInv

\* inner.try_pop's load of the head: None on an empty stack, otherwise
\* the version read comes with a non-empty stack.
LEMMA PopLoadIInv ==
    ASSUME IInv, NEW t \in Threads, PopLoad(t)
    PROVE  IInv'
<1>1. CASE inner = <<>>
    BY <1>1 DEF PopLoad, IInv, TypeOK, OpsMatch, SeenBound, PopSeen, TakeGot, PCs, PushPCs, PopPCs
<1>2. CASE inner # <<>>
    <2>1. /\ seen' = [seen EXCEPT ![t] = ver]
          /\ pc' = [pc EXCEPT ![t] = "q_cas"]
          /\ UNCHANGED <<res, inner, ver, slots, op, first, idx, got, done>>
        BY <1>2 DEF PopLoad
    <2>2. TypeOK' /\ OpsMatch' /\ TakeGot'
        BY <2>1 DEF PopLoad, IInv, TypeOK, OpsMatch, TakeGot, PCs, PushPCs, PopPCs
    <2>3. SeenBound' /\ PopSeen'
        BY <1>2, <2>1 DEF IInv, TypeOK, SeenBound, PopSeen
    <2> QED BY <2>2, <2>3 DEF IInv
<1> QED BY <1>1, <1>2

\* inner.try_pop's CAS: with the version loaded still current the stack is
\* the non-empty one loaded, and its top is taken.
LEMMA PopCasIInv ==
    ASSUME IInv, NEW t \in Threads, PopCas(t)
    PROVE  IInv'
<1>0. pc[t] = "q_cas" /\ op[t].kind = "pop"
      /\ UNCHANGED <<slots, op, seen, idx, got, done>>
    BY DEF PopCas, IInv, OpsMatch, PopPCs
<1>1. CASE ver = seen[t]
    <2>1. /\ res' = [res EXCEPT ![t] = inner[Len(inner)]]
          /\ inner' = SubSeq(inner, 1, Len(inner) - 1)
          /\ ver' = ver + 1
          /\ pc' = [pc EXCEPT ![t] = "ret"]
          /\ UNCHANGED first
        BY <1>1 DEF PopCas
    <2>2. inner \in Seq(Values) /\ inner # <<>> /\ ver \in Nat
        BY <1>0, <1>1 DEF IInv, TypeOK, PopSeen
    <2>3. Len(inner) \in Nat \ {0} /\ \A k \in 1 .. Len(inner) : inner[k] \in Values
        BY <2>2, EmptySeq, LenProperties, ElementOfSeq
    <2>4. inner[Len(inner)] \in Values /\ inner' \in Seq(Values)
        BY <2>1, <2>3, SubSeqProperties
    <2>5. TypeOK'
        BY <1>0, <2>1, <2>2, <2>4 DEF IInv, TypeOK, PCs
    <2>6. OpsMatch' /\ TakeGot'
        BY <1>0, <2>1 DEF IInv, TypeOK, OpsMatch, TakeGot, PushPCs, PopPCs
    <2>7. SeenBound' /\ PopSeen'
        BY <1>0, <2>1, <2>2 DEF IInv, TypeOK, SeenBound, PopSeen
    <2> QED BY <2>5, <2>6, <2>7 DEF IInv
<1>2. CASE ver # seen[t] /\ first[t]
    BY <1>0, <1>2 DEF PopCas, IInv, TypeOK, OpsMatch, SeenBound, PopSeen, TakeGot, PCs, PushPCs, PopPCs
<1>3. CASE ver # seen[t] /\ ~first[t]
    <2>1. /\ pc' = [pc EXCEPT ![t] = "q_load"]
          /\ UNCHANGED <<inner, ver, res>>
          /\ first' \in [Threads -> BOOLEAN]
        BY <1>0, <1>3 DEF PopCas, Retry, IInv, TypeOK
    <2>2. TypeOK'
        BY <1>0, <2>1 DEF IInv, TypeOK, PCs
    <2>3. OpsMatch' /\ TakeGot'
        BY <1>0, <2>1 DEF IInv, TypeOK, OpsMatch, TakeGot, PushPCs, PopPCs
    <2>4. SeenBound' /\ PopSeen'
        BY <1>0, <2>1 DEF IInv, TypeOK, SeenBound, PopSeen
    <2> QED BY <2>2, <2>3, <2>4 DEF IInv
<1> QED BY <1>1, <1>2, <1>3

\* Load a random slot: a request found is kept to be taken.
LEMMA PopPeekIInv ==
    ASSUME IInv, NEW t \in Threads, PopPeek(t)
    PROVE  IInv'
BY DEF PopPeek, IInv, TypeOK, OpsMatch, SeenBound, PopSeen, TakeGot, PCs, PushPCs, PopPCs, Slots

\* Load the slot again after the sleep.
LEMMA PopReloadIInv ==
    ASSUME IInv, NEW t \in Threads, PopReload(t)
    PROVE  IInv'
BY DEF PopReload, IInv, TypeOK, OpsMatch, SeenBound, PopSeen, TakeGot, PCs, PushPCs, PopPCs

\* CAS the slot from the request to null: the pop returns the request's
\* value and the push that offered it returns Ok.
LEMMA PopTakeIInv ==
    ASSUME IInv, NEW t \in Threads, PopTake(t)
    PROVE  IInv'
<1>0. pc[t] = "q_take" /\ got[t] \in Values
    BY DEF PopTake, IInv, TakeGot
<1>1. CASE slots[idx[t]] = got[t]
    <2>1. /\ slots' = [slots EXCEPT ![idx[t]] = NoVal]
          /\ res' = [u \in Threads |->
                       IF u = t THEN got[t]
                       ELSE IF op[u] = [kind |-> "push", val |-> got[t]] THEN "ok"
                       ELSE res[u]]
          /\ pc' = [pc EXCEPT ![t] = "ret"]
          /\ UNCHANGED <<first, inner, ver, op, seen, idx, got, done>>
        BY <1>1 DEF PopTake
    <2>2. res' \in [Threads -> Values \cup {"ok", "none", Abs!NoRes}]
        BY <1>0, <2>1 DEF IInv, TypeOK
    <2>3. TypeOK'
        BY <2>1, <2>2 DEF IInv, TypeOK, PCs
    <2>4. OpsMatch' /\ SeenBound' /\ PopSeen' /\ TakeGot'
        BY <2>1 DEF IInv, TypeOK, OpsMatch, SeenBound, PopSeen, TakeGot, PushPCs, PopPCs
    <2> QED BY <2>3, <2>4 DEF IInv
<1>2. CASE slots[idx[t]] # got[t]
    <2>1. /\ pc' = [pc EXCEPT ![t] = "q_load"]
          /\ first' = [first EXCEPT ![t] = FALSE]
          /\ UNCHANGED <<slots, res, inner, ver, op, seen, idx, got, done>>
        BY <1>2 DEF PopTake
    <2>2. TypeOK'
        BY <2>1 DEF IInv, TypeOK, PCs
    <2>3. OpsMatch' /\ SeenBound' /\ PopSeen' /\ TakeGot'
        BY <1>0, <2>1 DEF IInv, TypeOK, OpsMatch, SeenBound, PopSeen, TakeGot, PushPCs, PopPCs
    <2> QED BY <2>2, <2>3 DEF IInv
<1> QED BY <1>1, <1>2

\* Return: the thread is idle again.
LEMMA FinishIInv ==
    ASSUME IInv, NEW t \in Threads, Finish(t)
    PROVE  IInv'
BY DEF Finish, IInv, TypeOK, OpsMatch, SeenBound, PopSeen, TakeGot, PCs, PushPCs, PopPCs, Abs!NoOp, Abs!NoRes

-----------------------------------------------------------------------------
\* Every step of push, pop and of the client program keeps IInv.
THEOREM NextIInv == IInv /\ [Next]_vars => IInv'
<1> SUFFICES ASSUME IInv, [Next]_vars PROVE IInv'
    OBVIOUS
<1>1. ASSUME NEW t \in Threads, Step(t) PROVE IInv'
    BY <1>1, InvokeIInv, PushLoadIInv, PushCasIInv, PushOfferIInv,
       PushWithdrawIInv, PopLoadIInv, PopCasIInv, PopPeekIInv,
       PopReloadIInv, PopTakeIInv, FinishIInv DEF Step
<1>2. CASE UNCHANGED vars \/ Terminated
    <2>1. /\ inner' = inner /\ ver' = ver /\ slots' = slots /\ pc' = pc
          /\ op' = op /\ res' = res /\ first' = first /\ seen' = seen
          /\ idx' = idx /\ got' = got /\ done' = done
        BY <1>2 DEF vars, Terminated
    <2> QED BY <2>1 DEF IInv, TypeOK, OpsMatch, SeenBound, PopSeen, TakeGot
<1> QED BY <1>1, <1>2 DEF Next

\* IInv holds in every reachable state.
THEOREM IInvInvariant == Spec => []IInv
BY InitIInv, NextIInv, PTL DEF Spec

\* For every thread set, value set, number of slots and program, every
\* reachable state of ElimStack is well typed: in particular the inner
\* try_pop whose CAS succeeds always takes the top of a non-empty stack,
\* because the head it CASes is the one it loaded non-null and every
\* change of the inner stack replaces the head.
THEOREM TypeCorrect == Spec => []TypeOK
BY IInvInvariant, PTL DEF IInv

-----------------------------------------------------------------------------
(***************************************************************************)
(* The refinement: ElimStack implements StackSpec under the identity       *)
(* mapping on the stack, the operations and the results.                    *)
(***************************************************************************)
\* An idle thread has no operation and no result.
IdleClear == \A t \in Threads : pc[t] = "idle" => op[t] = Abs!NoOp /\ res[t] = Abs!NoRes

\* A running thread runs the next call of its program.
Running ==
    \A t \in Threads : pc[t] # "idle" =>
        done[t] < Len(Program[t]) /\ op[t] \in Program[t][done[t] + 1]

\* Until it takes effect an operation has no result; once it has, the
\* thread returns.  A push waiting to withdraw its offer has taken effect
\* exactly when its request is no longer in its slot: a pop took it.
Pending ==
    \A t \in Threads :
        /\ pc[t] \in (PushPCs \ {"p_withdraw"}) \cup PopPCs => res[t] = Abs!NoRes
        /\ pc[t] = "p_withdraw" =>
              /\ res[t] \in {Abs!NoRes, "ok"}
              /\ res[t] = Abs!NoRes <=> slots[idx[t]] = op[t].val
        /\ pc[t] = "ret" => res[t] # Abs!NoRes

\* A request in a slot was offered there by a push waiting to withdraw it.
Offered ==
    \A i \in Slots : slots[i] # NoVal =>
        \E u \in Threads : pc[u] = "p_withdraw" /\ idx[u] = i /\ op[u].val = slots[i]

RExtra == IdleClear /\ Running /\ Pending /\ Offered

RInv == IInv /\ RExtra


\* Two running pushes of the same value are one call: push allocates a
\* request per call.
LEMMA PushOnce ==
    ASSUME TypeOK, Running, NEW t \in Threads, NEW u \in Threads,
           pc[t] # "idle", pc[u] # "idle",
           op[t].kind = "push", op[u].kind = "push", op[t].val = op[u].val
    PROVE  t = u
<1>1. op[t] \in Abs!Ops /\ op[u] \in Abs!Ops
    BY DEF TypeOK, Abs!NoOp
<1>2. op[t] = [kind |-> "push", val |-> op[t].val] /\ op[t].val \in Values
      /\ op[u] = [kind |-> "push", val |-> op[t].val]
    BY <1>1 DEF Abs!Ops
<1>3. done[t] + 1 \in 1 .. Len(Program[t]) /\ done[u] + 1 \in 1 .. Len(Program[u])
      /\ op[t] \in Program[t][done[t] + 1] /\ op[u] \in Program[u][done[u] + 1]
    BY DEF Running, TypeOK
<1> QED BY <1>2, <1>3, PushOnceAssumption

LEMMA InitRInv == Init => RInv
<1> SUFFICES ASSUME Init PROVE RInv
    OBVIOUS
<1>1. IInv BY InitIInv
<1> QED BY <1>1 DEF Init, RInv, RExtra, IdleClear, Running, Pending, Offered, Slots, Abs!NoOp, Abs!NoRes

\* A step that moves a running thread between the program points where its
\* call has not taken effect, touching no slot, operation or result.
LEMMA QuietStep ==
    ASSUME RInv, NEW t \in Threads, NEW q \in (PushPCs \ {"p_withdraw"}) \cup PopPCs,
           pc[t] \in (PushPCs \ {"p_withdraw"}) \cup PopPCs,
           pc' = [pc EXCEPT ![t] = q],
           idx' \in [Threads -> Slots], \A u \in Threads \ {t} : idx'[u] = idx[u],
           UNCHANGED <<slots, op, res, done>>
    PROVE  RExtra'
<1>0. pc \in [Threads -> PCs] /\ idx \in [Threads -> Slots]
    BY DEF RInv, IInv, TypeOK
<1>1. IdleClear' /\ Running'
    BY <1>0 DEF RInv, RExtra, IdleClear, Running, PushPCs, PopPCs
<1>2. Pending'
    BY <1>0 DEF RInv, RExtra, IdleClear, Running, Pending, Offered, PushPCs, PopPCs
<1>3. Offered'
    BY <1>0 DEF RInv, RExtra, IdleClear, Running, Pending, Offered, PushPCs, PopPCs
<1> QED BY <1>1, <1>2, <1>3 DEF RExtra

\* A step by which a call that has not taken effect takes it and returns
\* result r, touching no slot or operation.
LEMMA EffectStep ==
    ASSUME RInv, NEW t \in Threads, NEW r, r # Abs!NoRes,
           pc[t] \in (PushPCs \ {"p_withdraw"}) \cup PopPCs,
           pc' = [pc EXCEPT ![t] = "ret"], res' = [res EXCEPT ![t] = r],
           UNCHANGED <<slots, op, idx, done>>
    PROVE  RExtra'
<1>0. pc \in [Threads -> PCs] /\ res \in [Threads -> Values \cup {"ok", "none", Abs!NoRes}]
    BY DEF RInv, IInv, TypeOK
<1>1. IdleClear' /\ Running'
    BY <1>0 DEF RInv, RExtra, IdleClear, Running, PushPCs, PopPCs
<1>2. Pending'
    BY <1>0 DEF RInv, RExtra, IdleClear, Running, Pending, Offered, PushPCs, PopPCs
<1>3. Offered'
    BY <1>0 DEF RInv, RExtra, IdleClear, Running, Pending, Offered, PushPCs, PopPCs
<1> QED BY <1>1, <1>2, <1>3 DEF RExtra

\* Invoke: the idle thread starts its next call.
LEMMA InvokeRExtra ==
    ASSUME RInv, NEW t \in Threads, Invoke(t)
    PROVE  RExtra'
<1>0. pc \in [Threads -> PCs] /\ pc[t] = "idle"
      /\ op \in [Threads -> Abs!Ops \cup {Abs!NoOp}]
      /\ res \in [Threads -> Values \cup {"ok", "none", Abs!NoRes}]
      /\ done \in [Threads -> Nat]
      /\ UNCHANGED <<slots, res, idx, done>>
    BY DEF Invoke, RInv, IInv, TypeOK
<1>1. PICK o \in Program[t][done[t] + 1] :
        /\ op' = [op EXCEPT ![t] = o]
        /\ pc' = [pc EXCEPT ![t] = IF o.kind = "push" THEN "p_load" ELSE "q_load"]
    BY DEF Invoke
<1>2. done[t] < Len(Program[t])
    BY DEF Invoke
<1>3. IdleClear' /\ Running'
    <2>1. IdleClear'
        BY <1>0, <1>1 DEF RInv, RExtra, IdleClear
    <2>2. Running'
        BY <1>0, <1>1, <1>2 DEF RInv, RExtra, Running
    <2> QED BY <2>1, <2>2
<1>4. Pending'
    BY <1>0, <1>1 DEF RInv, RExtra, IdleClear, Pending, PushPCs, PopPCs
<1>5. Offered'
    BY <1>0, <1>1 DEF RInv, RExtra, Offered
<1> QED BY <1>3, <1>4, <1>5 DEF RExtra

\* Finish: the returned call's thread is idle again.
LEMMA FinishRExtra ==
    ASSUME RInv, NEW t \in Threads, Finish(t)
    PROVE  RExtra'
<1>0. pc \in [Threads -> PCs] /\ pc[t] = "ret"
      /\ op \in [Threads -> Abs!Ops \cup {Abs!NoOp}]
      /\ res \in [Threads -> Values \cup {"ok", "none", Abs!NoRes}]
      /\ done \in [Threads -> Nat]
      
      /\ pc' = [pc EXCEPT ![t] = "idle"]
      /\ op' = [op EXCEPT ![t] = Abs!NoOp] /\ res' = [res EXCEPT ![t] = Abs!NoRes]
      /\ done' = [done EXCEPT ![t] = done[t] + 1]
      /\ UNCHANGED <<slots, idx>>
    BY DEF Finish, RInv, IInv, TypeOK
<1>1. IdleClear' /\ Running'
    <2>1. IdleClear'
        BY <1>0 DEF RInv, RExtra, IdleClear
    <2>2. Running'
        BY <1>0 DEF RInv, RExtra, Running
    <2> QED BY <2>1, <2>2
<1>2. Pending' /\ Offered'
    <2>1. Pending'
        BY <1>0 DEF RInv, RExtra, Pending
    <2>2. Offered'
        BY <1>0 DEF RInv, RExtra, Offered
    <2> QED BY <2>1, <2>2
<1> QED BY <1>1, <1>2 DEF RExtra

\* The CAS of a slot from null to the request: the slot now holds it, and
\* a push still waiting on that slot (its request taken earlier) keeps
\* its result, its request being another.
LEMMA PushOfferRExtra ==
    ASSUME RInv, NEW t \in Threads, PushOffer(t)
    PROVE  RExtra'
<1>0. /\ pc \in [Threads -> PCs] /\ idx \in [Threads -> Slots]
      /\ slots \in [Slots -> Values \cup {NoVal}]
      /\ pc[t] = "p_offer" /\ op[t].kind = "push" /\ op[t].val \in Values
      /\ res[t] = Abs!NoRes
      /\ UNCHANGED <<op, res, done>>
    BY DEF PushOffer, RInv, IInv, TypeOK, OpsMatch, RExtra, Pending, PushPCs
<1>1. PICK i \in Slots :
        /\ idx' = [idx EXCEPT ![t] = i]
        /\ \/ /\ slots[i] = NoVal
              /\ slots' = [slots EXCEPT ![i] = op[t].val]
              /\ pc' = [pc EXCEPT ![t] = "p_withdraw"]
           \/ /\ pc' = [pc EXCEPT ![t] = "p_load"]
              /\ UNCHANGED slots
    BY DEF PushOffer
<1>2. CASE slots[i] = NoVal /\ slots' = [slots EXCEPT ![i] = op[t].val]
           /\ pc' = [pc EXCEPT ![t] = "p_withdraw"]
    <2>1. IdleClear' /\ Running'
        BY <1>0, <1>1, <1>2 DEF RInv, RExtra, IdleClear, Running
    <2>2. ASSUME NEW w \in Threads \ {t}, pc[w] = "p_withdraw", idx[w] = i
          PROVE  res[w] = "ok" /\ op[w].val # op[t].val
        <3>1. op[w].kind = "push" /\ op[w].val \in Values
            BY <2>2 DEF RInv, IInv, OpsMatch, PushPCs
        <3>2. res[w] = "ok"
            BY <1>0, <1>2, <2>2, <3>1 DEF RInv, RExtra, Pending
        <3>3. op[w].val # op[t].val
            BY <1>0, <2>2, <3>1, PushOnce DEF RInv, IInv, RExtra
        <3> QED BY <3>2, <3>3
    <2>3. Pending'
        <3> SUFFICES ASSUME NEW w \in Threads
                     PROVE  /\ pc'[w] \in (PushPCs \ {"p_withdraw"}) \cup PopPCs => res'[w] = Abs!NoRes
                            /\ pc'[w] = "p_withdraw" =>
                                  /\ res'[w] \in {Abs!NoRes, "ok"}
                                  /\ res'[w] = Abs!NoRes <=> slots'[idx'[w]] = op'[w].val
                            /\ pc'[w] = "ret" => res'[w] # Abs!NoRes
            BY DEF Pending
        <3>1. CASE w = t
            BY <1>0, <1>1, <1>2, <3>1 DEF PushPCs, PopPCs
        <3>2. CASE w # t /\ pc[w] = "p_withdraw" /\ idx[w] = i
            <4>1. pc'[w] = "p_withdraw" /\ idx'[w] = i /\ slots'[i] = op[t].val
                BY <1>0, <1>1, <1>2, <3>2
            <4>2. res[w] = "ok" /\ op[w].val # op[t].val
                BY <3>2, <2>2
            <4>3. res'[w] = "ok" /\ op'[w].val # op[t].val
                BY <1>0, <4>2
            <4> QED BY <4>1, <4>3 DEF Abs!NoRes, PushPCs, PopPCs
        <3>3. CASE w # t /\ ~(pc[w] = "p_withdraw" /\ idx[w] = i)
            <4>1. pc'[w] = pc[w] /\ idx'[w] = idx[w]
                BY <1>0, <1>1, <1>2, <3>3
            <4>2. pc[w] = "p_withdraw" => slots'[idx[w]] = slots[idx[w]]
                BY <1>0, <1>2, <3>3
            <4> QED BY <1>0, <4>1, <4>2 DEF RInv, RExtra, Pending
        <3> QED BY <3>1, <3>2, <3>3
    <2>4. Offered'
        BY <1>0, <1>1, <1>2 DEF RInv, RExtra, Offered
    <2> QED BY <2>1, <2>3, <2>4 DEF RExtra
<1>3. CASE pc' = [pc EXCEPT ![t] = "p_load"] /\ UNCHANGED slots
    BY <1>0, <1>1, <1>3, QuietStep DEF PushPCs, PopPCs
<1> QED BY <1>1, <1>2, <1>3

\* The CAS of the slot from the request back to null: on success the push
\* retries on the inner stack, on failure a pop took the request and the
\* push returns Ok.
LEMMA PushWithdrawRExtra ==
    ASSUME RInv, NEW t \in Threads, PushWithdraw(t)
    PROVE  RExtra'
<1>0. /\ pc \in [Threads -> PCs] /\ idx \in [Threads -> Slots]
      /\ slots \in [Slots -> Values \cup {NoVal}]
      /\ pc[t] = "p_withdraw" /\ op[t].kind = "push" /\ op[t].val \in Values
      /\ UNCHANGED <<op, res, idx, done>>
    BY DEF PushWithdraw, RInv, IInv, TypeOK, OpsMatch, PushPCs
<1>1. CASE slots[idx[t]] = op[t].val
    <2>1. slots' = [slots EXCEPT ![idx[t]] = NoVal] /\ pc' = [pc EXCEPT ![t] = "p_load"]
        BY <1>1 DEF PushWithdraw
    <2>2. res[t] = Abs!NoRes
        BY <1>0, <1>1 DEF RInv, RExtra, Pending
    <2>3. IdleClear' /\ Running'
        BY <1>0, <2>1 DEF RInv, RExtra, IdleClear, Running
    <2>4. ASSUME NEW w \in Threads \ {t}, pc[w] = "p_withdraw", idx[w] = idx[t]
          PROVE  res[w] = "ok"
        <3>1. op[w].kind = "push" /\ op[w].val # op[t].val
            BY <1>0, <2>4, PushOnce DEF RInv, IInv, OpsMatch, RExtra, PushPCs
        <3> QED BY <1>0, <1>1, <2>4, <3>1 DEF RInv, RExtra, Pending
    <2>5. Pending'
        <3> SUFFICES ASSUME NEW w \in Threads
                     PROVE  /\ pc'[w] \in (PushPCs \ {"p_withdraw"}) \cup PopPCs => res'[w] = Abs!NoRes
                            /\ pc'[w] = "p_withdraw" =>
                                  /\ res'[w] \in {Abs!NoRes, "ok"}
                                  /\ res'[w] = Abs!NoRes <=> slots'[idx'[w]] = op'[w].val
                            /\ pc'[w] = "ret" => res'[w] # Abs!NoRes
            BY DEF Pending
        <3>1. CASE w = t
            BY <1>0, <2>1, <2>2, <3>1 DEF PushPCs, PopPCs
        <3>2. CASE w # t /\ pc[w] = "p_withdraw" /\ idx[w] = idx[t]
            <4>1. res[w] = "ok"
                BY <3>2, <2>4
            <4>2. pc'[w] = "p_withdraw" /\ slots'[idx'[w]] = NoVal /\ op'[w].val \in Values
                BY <1>0, <2>1, <3>2 DEF RInv, IInv, OpsMatch, PushPCs
            <4> QED BY <1>0, <4>1, <4>2, ParamAssumption DEF Abs!NoRes, PushPCs, PopPCs
        <3>3. CASE w # t /\ ~(pc[w] = "p_withdraw" /\ idx[w] = idx[t])
            <4>1. pc'[w] = pc[w]
                BY <1>0, <2>1, <3>3
            <4>2. pc[w] = "p_withdraw" => slots'[idx[w]] = slots[idx[w]]
                BY <1>0, <2>1, <3>3
            <4> QED BY <1>0, <4>1, <4>2 DEF RInv, RExtra, Pending
        <3> QED BY <3>1, <3>2, <3>3
    <2>6. Offered'
        BY <1>0, <2>1 DEF RInv, RExtra, Offered
    <2> QED BY <2>3, <2>5, <2>6 DEF RExtra
<1>2. CASE slots[idx[t]] # op[t].val
    <2>1. pc' = [pc EXCEPT ![t] = "ret"] /\ UNCHANGED slots
        BY <1>2 DEF PushWithdraw
    <2>2. res[t] = "ok"
        BY <1>0, <1>2 DEF RInv, RExtra, Pending
    <2>3. IdleClear' /\ Running'
        BY <1>0, <2>1 DEF RInv, RExtra, IdleClear, Running
    <2>4. Pending'
        BY <1>0, <2>1, <2>2 DEF RInv, RExtra, Pending, Abs!NoRes, PushPCs, PopPCs
    <2>5. Offered'
        BY <1>0, <1>2, <2>1 DEF RInv, RExtra, Offered
    <2> QED BY <2>3, <2>4, <2>5 DEF RExtra
<1> QED BY <1>1, <1>2

\* A pop that takes the request from its slot takes it from the one push
\* that offered it, still waiting to withdraw it; that push, and no other
\* thread, gets Ok.
LEMMA TakeFromOfferer ==
    ASSUME RInv, NEW t \in Threads, PopTake(t), slots[idx[t]] = got[t]
    PROVE  \E u \in Threads :
             /\ u # t /\ pc[u] = "p_withdraw" /\ idx[u] = idx[t]
             /\ op[u] = [kind |-> "push", val |-> got[t]] /\ res[u] = Abs!NoRes
             /\ res' = [res EXCEPT ![u] = "ok", ![t] = got[t]]
<1>0. /\ pc \in [Threads -> PCs] /\ idx \in [Threads -> Slots]
      /\ op \in [Threads -> Abs!Ops \cup {Abs!NoOp}]
      /\ res \in [Threads -> Values \cup {"ok", "none", Abs!NoRes}]
      /\ pc[t] = "q_take" /\ got[t] \in Values /\ op[t].kind = "pop"
    BY DEF PopTake, RInv, IInv, TypeOK, TakeGot, OpsMatch, PopPCs
<1>1. PICK u \in Threads : pc[u] = "p_withdraw" /\ idx[u] = idx[t] /\ op[u].val = got[t]
    BY <1>0, ParamAssumption DEF RInv, RExtra, Offered
<1>2. u # t /\ op[u].kind = "push"
    BY <1>0, <1>1 DEF RInv, IInv, OpsMatch, PushPCs
<1>3. op[u] = [kind |-> "push", val |-> got[t]]
    BY <1>0, <1>1, <1>2 DEF Abs!Ops, Abs!NoOp
<1>4. res[u] = Abs!NoRes
    BY <1>1 DEF RInv, RExtra, Pending
<1>5. ASSUME NEW w \in Threads \ {t, u} PROVE op[w] # [kind |-> "push", val |-> got[t]]
    <2> SUFFICES ASSUME op[w] = [kind |-> "push", val |-> got[t]] PROVE FALSE
        OBVIOUS
    <2>1. pc[w] # "idle"
        BY DEF RInv, RExtra, IdleClear, Abs!NoOp
    <2> QED BY <1>0, <1>1, <1>2, <1>3, <2>1, PushOnce DEF RInv, IInv, RExtra
<1>6. res' = [res EXCEPT ![u] = "ok", ![t] = got[t]]
    <2>1. res' = [w \in Threads |->
                    IF w = t THEN got[t]
                    ELSE IF op[w] = [kind |-> "push", val |-> got[t]] THEN "ok"
                    ELSE res[w]]
        BY DEF PopTake
    <2> QED BY <1>0, <1>2, <1>3, <1>5, <2>1
<1> QED BY <1>1, <1>2, <1>3, <1>4, <1>6

\* The CAS of the slot from the request to null: the pop returns the
\* request's value, the push that offered it has taken effect.
LEMMA PopTakeRExtra ==
    ASSUME RInv, NEW t \in Threads, PopTake(t)
    PROVE  RExtra'
<1>0. /\ pc \in [Threads -> PCs] /\ idx \in [Threads -> Slots]
      /\ slots \in [Slots -> Values \cup {NoVal}]
      /\ res \in [Threads -> Values \cup {"ok", "none", Abs!NoRes}]
      /\ pc[t] = "q_take" /\ got[t] \in Values
      /\ UNCHANGED <<op, idx, done>>
    BY DEF PopTake, RInv, IInv, TypeOK, TakeGot
<1>1. CASE slots[idx[t]] = got[t]
    <2>1. PICK u \in Threads :
             /\ u # t /\ pc[u] = "p_withdraw" /\ idx[u] = idx[t]
             /\ op[u] = [kind |-> "push", val |-> got[t]] /\ res[u] = Abs!NoRes
             /\ res' = [res EXCEPT ![u] = "ok", ![t] = got[t]]
        BY <1>1, TakeFromOfferer
    <2>2. slots' = [slots EXCEPT ![idx[t]] = NoVal] /\ pc' = [pc EXCEPT ![t] = "ret"]
        BY <1>1 DEF PopTake
    <2>3. IdleClear' /\ Running'
        BY <1>0, <2>1, <2>2 DEF RInv, RExtra, IdleClear, Running
    <2>4. ASSUME NEW w \in Threads \ {t, u}, pc[w] = "p_withdraw", idx[w] = idx[t]
          PROVE  res[w] = "ok"
        <3>1. op[w].kind = "push" /\ op[w].val # got[t]
            BY <1>0, <2>1, <2>4, PushOnce DEF RInv, IInv, OpsMatch, RExtra, PushPCs
        <3> QED BY <1>0, <1>1, <2>4, <3>1 DEF RInv, RExtra, Pending
    <2>5. Pending'
        <3> SUFFICES ASSUME NEW w \in Threads
                     PROVE  /\ pc'[w] \in (PushPCs \ {"p_withdraw"}) \cup PopPCs => res'[w] = Abs!NoRes
                            /\ pc'[w] = "p_withdraw" =>
                                  /\ res'[w] \in {Abs!NoRes, "ok"}
                                  /\ res'[w] = Abs!NoRes <=> slots'[idx'[w]] = op'[w].val
                            /\ pc'[w] = "ret" => res'[w] # Abs!NoRes
            BY DEF Pending
        <3>1. CASE w = t
            BY <1>0, <2>1, <2>2, <3>1, ResultAssumption DEF PushPCs, PopPCs
        <3>2. CASE w = u
            <4>1. pc'[w] = "p_withdraw" /\ res'[w] = "ok" /\ slots'[idx'[w]] = NoVal
                BY <1>0, <2>1, <2>2, <3>2
            <4> QED BY <1>0, <4>1, <2>1, <3>2, ParamAssumption, ResultAssumption DEF Abs!NoRes, PushPCs, PopPCs
        <3>3. CASE w \notin {t, u} /\ pc[w] = "p_withdraw" /\ idx[w] = idx[t]
            <4>1. res[w] = "ok"
                BY <3>3, <2>4
            <4>2. pc'[w] = "p_withdraw" /\ res'[w] = res[w] /\ slots'[idx'[w]] = NoVal
                  /\ op'[w].val \in Values
                BY <1>0, <2>1, <2>2, <3>3 DEF RInv, IInv, OpsMatch, PushPCs
            <4> QED BY <4>1, <4>2, ParamAssumption DEF Abs!NoRes, PushPCs, PopPCs
        <3>4. CASE w \notin {t, u} /\ ~(pc[w] = "p_withdraw" /\ idx[w] = idx[t])
            <4>1. pc'[w] = pc[w] /\ res'[w] = res[w]
                BY <1>0, <2>1, <2>2, <3>4
            <4>2. pc[w] = "p_withdraw" => slots'[idx[w]] = slots[idx[w]]
                BY <1>0, <2>2, <3>4
            <4> QED BY <1>0, <4>1, <4>2 DEF RInv, RExtra, Pending
        <3> QED BY <3>1, <3>2, <3>3, <3>4
    <2>6. Offered'
        BY <1>0, <2>2 DEF RInv, RExtra, Offered
    <2> QED BY <2>3, <2>5, <2>6 DEF RExtra
<1>2. CASE slots[idx[t]] # got[t]
    <2>1. pc' = [pc EXCEPT ![t] = "q_load"] /\ UNCHANGED <<slots, res>>
        BY <1>2 DEF PopTake
    <2> QED BY <1>0, <2>1, QuietStep DEF PushPCs, PopPCs
<1> QED BY <1>1, <1>2

\* The inner pop's CAS with its version current takes a value.
LEMMA PopCasTop ==
    ASSUME IInv, NEW t \in Threads, pc[t] = "q_cas", ver = seen[t]
    PROVE  inner # <<>> /\ inner[Len(inner)] \in Values
<1>1. inner \in Seq(Values) /\ inner # <<>>
    BY DEF IInv, TypeOK, PopSeen
<1>2. Len(inner) \in Nat \ {0}
    BY <1>1, EmptySeq, LenProperties
<1> QED BY <1>1, <1>2, ElementOfSeq

\* Every step keeps the conjuncts of RInv that IInv lacks.
LEMMA NextRExtra ==
    ASSUME RInv, NEW t \in Threads, Step(t)
    PROVE  RExtra'
<1>0. /\ pc \in [Threads -> PCs] /\ idx \in [Threads -> Slots]
      /\ IInv
    BY DEF RInv, IInv, TypeOK
<1>1. CASE Invoke(t)
    BY <1>1, InvokeRExtra
<1>2. CASE PushLoad(t)
    BY <1>0, <1>2, QuietStep DEF PushLoad, PushPCs, PopPCs
<1>3. CASE PushCas(t)
    <2>0. pc[t] = "p_cas" /\ op[t].kind = "push" /\ UNCHANGED <<slots, op, idx, done>>
        BY <1>0, <1>3 DEF PushCas, IInv, OpsMatch, PushPCs
    <2>1. CASE ver = seen[t]
        <3>a. pc' = [pc EXCEPT ![t] = "ret"] /\ res' = [res EXCEPT ![t] = "ok"]
            BY <1>3, <2>1 DEF PushCas
        <3> QED BY <1>0, <2>0, <3>a, EffectStep DEF PushPCs, PopPCs, Abs!NoRes
    <2>2. CASE ver # seen[t] /\ first[t]
        <3>a. pc' = [pc EXCEPT ![t] = "p_offer"] /\ UNCHANGED res
            BY <1>3, <2>2 DEF PushCas
        <3> QED BY <1>0, <2>0, <3>a, QuietStep DEF PushPCs, PopPCs
    <2>3. CASE ver # seen[t] /\ ~first[t]
        <3>a. pc' = [pc EXCEPT ![t] = "p_load"] /\ UNCHANGED res
            BY <1>3, <2>0, <2>3 DEF PushCas, Retry
        <3> QED BY <1>0, <2>0, <3>a, QuietStep DEF PushPCs, PopPCs
    <2> QED BY <2>1, <2>2, <2>3
<1>4. CASE PushOffer(t)
    BY <1>4, PushOfferRExtra
<1>5. CASE PushWithdraw(t)
    BY <1>5, PushWithdrawRExtra
<1>6. CASE PopLoad(t)
    <2>0. pc[t] = "q_load" /\ UNCHANGED <<slots, op, idx, done>>
        BY <1>6 DEF PopLoad
    <2>1. CASE inner = <<>>
        <3>a. pc' = [pc EXCEPT ![t] = "ret"] /\ res' = [res EXCEPT ![t] = "none"]
            BY <1>6, <2>1 DEF PopLoad
        <3> QED BY <1>0, <2>0, <3>a, EffectStep DEF PushPCs, PopPCs, Abs!NoRes
    <2>2. CASE inner # <<>>
        <3>a. pc' = [pc EXCEPT ![t] = "q_cas"] /\ UNCHANGED res
            BY <1>6, <2>2 DEF PopLoad
        <3> QED BY <1>0, <2>0, <3>a, QuietStep DEF PushPCs, PopPCs
    <2> QED BY <2>1, <2>2
<1>7. CASE PopCas(t)
    <2>0. pc[t] = "q_cas" /\ op[t].kind = "pop" /\ UNCHANGED <<slots, op, idx, done>>
        BY <1>0, <1>7 DEF PopCas, IInv, OpsMatch, PopPCs
    <2>1. CASE ver = seen[t]
        <3>a. pc' = [pc EXCEPT ![t] = "ret"] /\ res' = [res EXCEPT ![t] = inner[Len(inner)]]
            BY <1>7, <2>1 DEF PopCas
        <3>b. inner[Len(inner)] # Abs!NoRes
            BY <1>0, <2>0, <2>1, PopCasTop, ResultAssumption
        <3> QED BY <1>0, <2>0, <3>a, <3>b, EffectStep DEF PushPCs, PopPCs
    <2>2. CASE ver # seen[t] /\ first[t]
        <3>a. pc' = [pc EXCEPT ![t] = "q_peek"] /\ UNCHANGED res
            BY <1>7, <2>2 DEF PopCas
        <3> QED BY <1>0, <2>0, <3>a, QuietStep DEF PushPCs, PopPCs
    <2>3. CASE ver # seen[t] /\ ~first[t]
        <3>a. pc' = [pc EXCEPT ![t] = "q_load"] /\ UNCHANGED res
            BY <1>7, <2>0, <2>3 DEF PopCas, Retry
        <3> QED BY <1>0, <2>0, <3>a, QuietStep DEF PushPCs, PopPCs
    <2> QED BY <2>1, <2>2, <2>3
<1>8. CASE PopPeek(t)
    <2>1. PICK i \in Slots :
            /\ idx' = [idx EXCEPT ![t] = i]
            /\ pc' = [pc EXCEPT ![t] = IF slots[i] = NoVal THEN "q_reload" ELSE "q_take"]
        BY <1>8 DEF PopPeek
    <2>2. pc[t] = "q_peek" /\ UNCHANGED <<slots, op, res, done>>
        BY <1>8 DEF PopPeek
    <2> QED BY <1>0, <2>1, <2>2, QuietStep DEF PushPCs, PopPCs
<1>9. CASE PopReload(t)
    <2>1. /\ pc[t] = "q_reload" /\ UNCHANGED <<slots, op, res, idx, done>>
          /\ pc' = [pc EXCEPT ![t] = IF slots[idx[t]] = NoVal THEN "q_load" ELSE "q_take"]
        BY <1>9 DEF PopReload
    <2> QED BY <1>0, <2>1, QuietStep DEF PushPCs, PopPCs
<1>10. CASE PopTake(t)
    BY <1>10, PopTakeRExtra
<1>11. CASE Finish(t)
    BY <1>11, FinishRExtra
<1> QED BY <1>1, <1>2, <1>3, <1>4, <1>5, <1>6, <1>7, <1>8, <1>9, <1>10, <1>11 DEF Step

\* RInv is inductive.
THEOREM NextRInv == RInv /\ [Next]_vars => RInv'
<1> SUFFICES ASSUME RInv, [Next]_vars PROVE RInv'
    OBVIOUS
<1>1. IInv'
    BY NextIInv DEF RInv
<1>2. ASSUME NEW t \in Threads, Step(t) PROVE RExtra'
    BY <1>2, NextRExtra
<1>3. ASSUME UNCHANGED vars \/ Terminated PROVE RExtra'
    <2>1. /\ inner' = inner /\ ver' = ver /\ slots' = slots /\ pc' = pc
          /\ op' = op /\ res' = res /\ first' = first /\ seen' = seen
          /\ idx' = idx /\ got' = got /\ done' = done
        BY <1>3 DEF vars, Terminated
    <2> QED BY <2>1 DEF RInv, RExtra, IdleClear, Running, Pending, Offered
<1> QED BY <1>1, <1>2, <1>3 DEF RInv, Next

\* The call a thread starts is one of the stack's operations.
LEMMA ProgramOps ==
    ASSUME NEW t \in Threads, NEW k \in 1 .. Len(Program[t])
    PROVE  Program[t][k] \subseteq Abs!Ops
BY ProgramAssumption

\* Each step of ElimStack is a step of StackSpec or leaves the stack, the
\* operations and the results alone: the inner CASes are DoPush and DoPop,
\* an empty inner stack's load is DoPop returning None, a pop taking a
\* request is Exchange with the push that offered it, and Finish is Return.
LEMMA StepRefines ==
    ASSUME RInv, NEW t \in Threads, Step(t)
    PROVE  Abs!AbsNext \/ UNCHANGED <<inner, op, res>>
<1>0. /\ IInv /\ IdleClear /\ Running /\ Pending
      /\ pc \in [Threads -> PCs]
      /\ op \in [Threads -> Abs!Ops \cup {Abs!NoOp}]
      /\ res \in [Threads -> Values \cup {"ok", "none", Abs!NoRes}]
    BY DEF RInv, RExtra, IInv, TypeOK
<1>1. CASE Invoke(t)
    <2>1. PICK o \in Program[t][done[t] + 1] : op' = [op EXCEPT ![t] = o]
        BY <1>1 DEF Invoke
    <2>2. o \in Abs!Ops
        <3>1. done[t] + 1 \in 1 .. Len(Program[t])
            BY <1>0, <1>1 DEF Invoke, IInv, TypeOK
        <3> QED BY <2>1, <3>1, ProgramOps
    <2>3. Abs!Invoke(t)
        BY <1>0, <1>1, <2>1, <2>2 DEF Invoke, IdleClear, Abs!Invoke
    <2> QED BY <2>3 DEF Abs!AbsNext
<1>2. CASE PushCas(t)
    <2>0. pc[t] = "p_cas" /\ op[t].kind = "push" /\ res[t] = Abs!NoRes /\ UNCHANGED op
        BY <1>0, <1>2 DEF PushCas, IInv, OpsMatch, Pending, PushPCs
    <2>1. CASE ver = seen[t]
        <3>1. Abs!DoPush(t)
            BY <1>2, <2>0, <2>1 DEF PushCas, Abs!DoPush, Abs!Pending
        <3> QED BY <3>1 DEF Abs!AbsNext
    <2>2. CASE ver # seen[t]
        BY <1>2, <2>2 DEF PushCas
    <2> QED BY <2>1, <2>2
<1>3. CASE PopLoad(t)
    <2>0. pc[t] = "q_load" /\ op[t].kind = "pop" /\ res[t] = Abs!NoRes /\ UNCHANGED <<op, inner>>
        BY <1>0, <1>3 DEF PopLoad, IInv, OpsMatch, Pending, PopPCs
    <2>1. CASE inner = <<>>
        <3>1. Abs!DoPop(t)
            BY <1>3, <2>0, <2>1 DEF PopLoad, Abs!DoPop, Abs!Pending
        <3> QED BY <3>1 DEF Abs!AbsNext
    <2>2. CASE inner # <<>>
        BY <1>3, <2>2 DEF PopLoad
    <2> QED BY <2>1, <2>2
<1>4. CASE PopCas(t)
    <2>0. pc[t] = "q_cas" /\ op[t].kind = "pop" /\ res[t] = Abs!NoRes /\ UNCHANGED op
        BY <1>0, <1>4 DEF PopCas, IInv, OpsMatch, Pending, PopPCs
    <2>1. CASE ver = seen[t]
        <3>1. inner # <<>>
            BY <1>0, <2>0, <2>1, PopCasTop
        <3>2. Abs!DoPop(t)
            BY <1>4, <2>0, <2>1, <3>1 DEF PopCas, Abs!DoPop, Abs!Pending
        <3> QED BY <3>2 DEF Abs!AbsNext
    <2>2. CASE ver # seen[t]
        BY <1>4, <2>2 DEF PopCas
    <2> QED BY <2>1, <2>2
<1>5. CASE PopTake(t)
    <2>1. CASE slots[idx[t]] = got[t]
        <3>1. PICK u \in Threads :
                 /\ u # t /\ pc[u] = "p_withdraw" /\ idx[u] = idx[t]
                 /\ op[u] = [kind |-> "push", val |-> got[t]] /\ res[u] = Abs!NoRes
                 /\ res' = [res EXCEPT ![u] = "ok", ![t] = got[t]]
            BY <1>0, <1>5, <2>1, TakeFromOfferer
        <3>2. pc[t] = "q_take" /\ op[t].kind = "pop" /\ res[t] = Abs!NoRes
              /\ UNCHANGED <<op, inner>>
            BY <1>0, <1>5 DEF PopTake, IInv, OpsMatch, Pending, PopPCs
        <3>3. Abs!Exchange(u, t)
            BY <3>1, <3>2 DEF Abs!Exchange, Abs!Pending
        <3> QED BY <3>3 DEF Abs!AbsNext
    <2>2. CASE slots[idx[t]] # got[t]
        BY <1>5, <2>2 DEF PopTake
    <2> QED BY <2>1, <2>2
<1>6. CASE Finish(t)
    <2>1. pc[t] = "ret" /\ res[t] # Abs!NoRes
        BY <1>0, <1>6 DEF Finish, Pending
    <2>2. op[t] \in Abs!Ops
        <3>1. done[t] + 1 \in 1 .. Len(Program[t]) /\ op[t] \in Program[t][done[t] + 1]
            BY <1>0, <2>1 DEF Running, IInv, TypeOK
        <3> QED BY <3>1, ProgramOps
    <2>3. op[t] # Abs!NoOp
        BY <2>2 DEF Abs!Ops, Abs!NoOp
    <2>4. Abs!Return(t)
        BY <1>6, <2>1, <2>3 DEF Finish, Abs!Return
    <2> QED BY <2>4 DEF Abs!AbsNext
<1>7. CASE PushLoad(t) \/ PushOffer(t) \/ PushWithdraw(t) \/ PopPeek(t) \/ PopReload(t)
    BY <1>7 DEF PushLoad, PushOffer, PushWithdraw, PopPeek, PopReload
<1> QED BY <1>1, <1>2, <1>3, <1>4, <1>5, <1>6, <1>7 DEF Step

\* RInv holds in every reachable state.
THEOREM RInvInvariant == Spec => []RInv
BY InitRInv, NextRInv, PTL DEF Spec

\* For every thread set, value set, number of exchange slots and program
\* pushing each value once, push and pop of the elimination-backoff stack
\* are linearizable: every behaviour of ElimStack, with the inner stack,
\* the operations and the results as they are, is one of StackSpec.  The
\* successful inner CASes are the linearization points of push and pop, an
\* empty inner stack's load that of a pop returning None, and a pop's CAS
\* of a slot from a request to null that of both the push offering it and
\* the pop.
THEOREM Refinement == Spec => Linearizable
<1>1. Init => Abs!AbsInit
    BY DEF Init, Abs!AbsInit
<1>2. RInv /\ [Next]_vars => [Abs!AbsNext]_<<inner, op, res>>
    <2> SUFFICES ASSUME RInv, [Next]_vars PROVE [Abs!AbsNext]_<<inner, op, res>>
        OBVIOUS
    <2>1. ASSUME NEW t \in Threads, Step(t) PROVE [Abs!AbsNext]_<<inner, op, res>>
        BY <2>1, StepRefines
    <2>2. CASE UNCHANGED vars \/ Terminated
        BY <2>2 DEF vars, Terminated
    <2> QED BY <2>1, <2>2 DEF Next
<1> QED BY <1>1, <1>2, RInvInvariant, PTL DEF Spec, Linearizable, Abs!AbsSpec, Abs!absVars

=============================================================================
