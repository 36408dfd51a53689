----------------------- MODULE SplitOrderedListProofs -----------------------
(***************************************************************************)
(* Proofs about SplitOrderedList for every value of its constants.         *)
(***************************************************************************)
EXTENDS SplitOrderedList, SequenceTheorems, TLAPS

\* A thread inside lookup_bucket has at least one pending frame, so Top(t)
\* is the key of a frame: what the recursion's push and pop keep.
StackOK ==
    \A t \in Threads :
        pc[t] \in {"lb_read", "lb_find", "lb_link", "lb_store"} => Len(stk[t]) >= 1

CursorT == [prev : Nodes \cup {Nil}, curr : Nodes \cup {Nil}]

\* The inductive strengthening of TypeOK.
IInv == TypeOK /\ StackOK

USE WordAssumption, ParamAssumption

\* x & (size - 1) of a key x with a nonzero size is a word.
LEMMA MaskBound ==
    ASSUME NEW x \in Nat, NEW y \in 1 .. Word - 1
    PROVE  x % y \in 0 .. Word - 1
<1>1. x % y \in 0 .. y - 1
    BY WordAssumption
<1> QED BY <1>1, WordAssumption

\* The sets a thread's cursor, bucket pointer and results range over.
LEMMA NodeFacts ==
    ASSUME TypeOK
    PROVE  /\ Live \subseteq Nodes
           /\ Nil \in Nodes \cup {Nil}
           /\ NoCursor \in [prev : Nodes \cup {Nil}, curr : Nodes \cup {Nil}]
           /\ \A n \in Nodes \cup {Nil} : NodeVal(n) \in Values \cup {NoVal}
           /\ Abs!NoRes \in Abs!Results \cup {Abs!NoRes}
           /\ Abs!NoOp \in Abs!Ops \cup {Abs!NoOp}
BY DEF TypeOK, Live, Nodes, Sent, Real, Nil, NoCursor, NodeVal, Abs!NoRes,
       Abs!Result, Abs!NoOp, Buckets

\* Every result a step records is of type Results.
LEMMA ResultType ==
    ASSUME NEW tag \in {"ok", "err", "some", "none"}, NEW v \in Values \cup {NoVal}
    PROVE  Abs!Result(tag, v) \in Abs!Results
BY DEF Abs!Result, Abs!Results

\* The frame on top of a thread's stack is a bucket index after masking.
LEMMA TopIndex ==
    ASSUME TypeOK, NEW t \in Threads, Len(stk[t]) >= 1
    PROVE  /\ Top(t) \in 0 .. Word - 1
           /\ Index(Top(t)) \in Buckets
           /\ Pop(t) \in Seq(0 .. Word - 1)
           /\ Len(Pop(t)) = Len(stk[t]) - 1
<1>1. stk[t] \in Seq(0 .. Word - 1)
    BY DEF TypeOK
<1>2. Top(t) \in 0 .. Word - 1
    BY <1>1, ElementOfSeq DEF Top
<1>3. Index(Top(t)) \in Buckets
    BY <1>2 DEF Index, Buckets
<1>4. Pop(t) \in Seq(0 .. Word - 1) /\ Len(Pop(t)) = Len(stk[t]) - 1
    <2>1. \A i \in 1 .. Len(stk[t]) - 1 : stk[t][i] \in 0 .. Word - 1
        BY <1>1, ElementOfSeq
    <2> QED BY <1>1, <2>1, SubSeqProperties DEF Pop
<1> QED BY <1>2, <1>3, <1>4

THEOREM InitIInv == Init => IInv
<1> SUFFICES ASSUME Init PROVE IInv
    OBVIOUS
<1>1. Abs!NoOp \in Abs!Ops \cup {Abs!NoOp} /\ Abs!NoRes \in Abs!Results \cup {Abs!NoRes}
    BY DEF Abs!NoOp, Abs!NoRes, Abs!Result
<1>2. Sent(0) \in Nodes /\ 0 \in Buckets
    BY DEF Sent, Nodes, Buckets
<1>3. slot \in [Buckets -> Nodes \cup {Nil}]
    BY <1>2 DEF Init
<1>4. stk \in [Threads -> Seq(0 .. Word - 1)] /\ size \in 0 .. Word - 1
    BY EmptySeq DEF Init
<1>5. TypeOK
    BY <1>1, <1>2, <1>3, <1>4 DEF Init, TypeOK, PCs, NoCursor, Buckets
<1>6. StackOK
    BY DEF Init, StackOK
<1> QED BY <1>5, <1>6 DEF IInv

THEOREM NextIInv == IInv /\ [Next]_vars => IInv'
<1> SUFFICES ASSUME TypeOK, StackOK, [Next]_vars PROVE TypeOK' /\ StackOK'
    BY DEF IInv
<1>0. /\ Live \subseteq Nodes
      /\ NoCursor \in CursorT
      /\ \A n \in Nodes \cup {Nil} : NodeVal(n) \in Values \cup {NoVal}
      /\ Abs!NoRes \in Abs!Results \cup {Abs!NoRes}
      /\ Abs!NoOp \in Abs!Ops \cup {Abs!NoOp}
      /\ \A t \in Threads : op[t].val \in Values \cup {NoVal}
    BY NodeFacts DEF CursorT, TypeOK, Abs!Ops, Abs!NoOp
<1>1. CASE UNCHANGED vars
    BY <1>1 DEF vars, TypeOK, StackOK
<1>2. CASE Terminated
    BY <1>2 DEF Terminated, vars, TypeOK, StackOK
<1>3. ASSUME NEW t \in Threads, Step(t) PROVE TypeOK' /\ StackOK'
    <2>1. CASE Invoke(t)
        <3>1. done[t] + 1 \in 1 .. Len(Program[t])
            BY <2>1 DEF Invoke, TypeOK
        <3>2. Program[t][done[t] + 1] \subseteq Abs!Ops
            BY <3>1, ElementOfSeq, ProgramAssumption
        <3>3. PICK o \in Program[t][done[t] + 1] :
                /\ op' = [op EXCEPT ![t] = o]
                /\ sz' = [sz EXCEPT ![t] = size]
                /\ \/ size = 0 /\ pc' = [pc EXCEPT ![t] = "panic"] /\ stk' = stk
                   \/ /\ size # 0
                      /\ pc' = [pc EXCEPT ![t] = "lb_read"]
                      /\ stk' = [stk EXCEPT ![t] = <<BucketOf(o.key, size)>>]
            BY <2>1 DEF Invoke
        <3>4. o.key \in Keys
            BY <3>2, <3>3 DEF Abs!Ops
        <3>5. size # 0 => <<BucketOf(o.key, size)>> \in Seq(0 .. Word - 1)
            <4> SUFFICES ASSUME size # 0 PROVE <<BucketOf(o.key, size)>> \in Seq(0 .. Word - 1)
                OBVIOUS
            <4>1. BucketOf(o.key, size) \in 0 .. Word - 1
                <5>0. o.key \in 0 .. HalfWord - 1
                    BY <3>4, KeysAssumption
                <5>1. o.key \in Nat
                    BY <5>0
                <5>2. size \in 1 .. Word - 1
                    BY WordAssumption DEF TypeOK
                <5> QED BY <5>1, <5>2, MaskBound DEF BucketOf
            <4>2. Append(<<>>, BucketOf(o.key, size)) = <<BucketOf(o.key, size)>>
                OBVIOUS
            <4> QED BY <4>1, <4>2, EmptySeq, AppendProperties
        <3>6. op' \in [Threads -> Abs!Ops \cup {Abs!NoOp}]
            BY <3>2, <3>3 DEF TypeOK
        <3>7. sz' \in [Threads -> 0 .. Word - 1]
            BY <3>3 DEF TypeOK
        <3>8. UNCHANGED <<sents, items, slot, size, count, res, bkt, cur, done>>
            BY <2>1 DEF Invoke
        <3>9. CASE size = 0
            BY <3>3, <3>6, <3>7, <3>8, <3>9 DEF TypeOK, StackOK, PCs
        <3>10. CASE size # 0
            <4> DEFINE x == BucketOf(o.key, size)
            <4>1. stk' = [stk EXCEPT ![t] = <<x>>] /\ pc' = [pc EXCEPT ![t] = "lb_read"]
                BY <3>3, <3>10
            <4>2. <<x>> \in Seq(0 .. Word - 1) /\ Len(<<x>>) = 1
                BY <3>5, <3>10
            <4>3. stk' \in [Threads -> Seq(0 .. Word - 1)] /\ Len(stk'[t]) = 1
                BY <4>1, <4>2 DEF TypeOK
            <4>4. pc' \in [Threads -> PCs]
                BY <4>1 DEF TypeOK, PCs
            <4>5. StackOK'
                BY <4>1, <4>3 DEF StackOK
            <4> QED BY <3>6, <3>7, <3>8, <4>3, <4>4, <4>5 DEF TypeOK
        <3> QED BY <3>9, <3>10
    <2>2. CASE LBRead(t)
        <3>1. Len(stk[t]) >= 1
            BY <2>2 DEF LBRead, StackOK
        <3>2. /\ Top(t) \in 0 .. Word - 1 /\ Index(Top(t)) \in Buckets
              /\ Pop(t) \in Seq(0 .. Word - 1) /\ Len(Pop(t)) = Len(stk[t]) - 1
            BY <3>1, TopIndex
        <3>3. CASE slot[Index(Top(t))] # Nil
            <4>1. /\ bkt' = [bkt EXCEPT ![t] = slot[Index(Top(t))]]
                  /\ stk' = [stk EXCEPT ![t] = Pop(t)]
                  /\ pc' = [pc EXCEPT ![t] = AfterReturn(t)]
                BY <2>2, <3>3 DEF LBRead
            <4>2. AfterReturn(t) = "find" \/ (AfterReturn(t) = "lb_find" /\ Len(Pop(t)) >= 1)
                BY <3>1, <3>2 DEF AfterReturn, TypeOK
            <4> QED BY <2>2, <3>2, <4>1, <4>2 DEF LBRead, TypeOK, StackOK, PCs
        <3>4. CASE slot[Index(Top(t))] = Nil
            <4>1. PICK q \in Buckets : stk' = [stk EXCEPT ![t] = Append(stk[t], q)]
                BY <2>2, <3>4 DEF LBRead
            <4>2. q \in 0 .. Word - 1
                BY DEF Buckets
            <4>3. Append(stk[t], q) \in Seq(0 .. Word - 1)
                BY <4>2, AppendProperties DEF TypeOK
            <4> QED BY <2>2, <3>4, <4>1, <4>3, AppendProperties DEF LBRead, TypeOK, StackOK
        <3> QED BY <3>3, <3>4
    <2>3. CASE LBFind(t)
        <3>1. PICK q \in Live \cup {bkt[t]}, c \in Live \cup {Nil} :
                /\ cur' = [cur EXCEPT ![t] = [prev |-> q, curr |-> c]]
                /\ pc' = [pc EXCEPT ![t] = IF Found(c, RevTable[Index(Top(t))])
                                             THEN "lb_store" ELSE "lb_link"]
            BY <2>3 DEF LBFind
        <3>2. cur' \in [Threads -> CursorT]
            BY <1>0, <3>1 DEF TypeOK, CursorT
        <3> QED BY <2>3, <3>1, <3>2 DEF LBFind, TypeOK, StackOK, PCs, CursorT
    <2>4. CASE LBLink(t)
        <3>1. Index(Top(t)) \in Buckets
            BY <2>4, TopIndex DEF LBLink, StackOK
        <3> QED BY <2>4, <3>1 DEF LBLink, TypeOK, StackOK, PCs
    <2>5. CASE LBStore(t)
        <3>1. Len(stk[t]) >= 1
            BY <2>5 DEF LBStore, StackOK
        <3>2. /\ Index(Top(t)) \in Buckets
              /\ Pop(t) \in Seq(0 .. Word - 1) /\ Len(Pop(t)) = Len(stk[t]) - 1
            BY <3>1, TopIndex
        <3>3. AfterReturn(t) = "find" \/ (AfterReturn(t) = "lb_find" /\ Len(Pop(t)) >= 1)
            BY <3>1, <3>2 DEF AfterReturn, TypeOK
        <3> QED BY <2>5, <3>2, <3>3 DEF LBStore, TypeOK, StackOK, PCs
    <2>6. CASE Find(t)
        <3>1. PICK q \in Live \cup {bkt[t]}, c \in Live \cup {Nil} :
                /\ cur' = [cur EXCEPT ![t] = [prev |-> q, curr |-> c]]
                /\ \/ /\ res' = [res EXCEPT ![t] =
                               IF Found(c, OrOne(RevTable[op[t].key]))
                                 THEN Abs!Result("some", NodeVal(c))
                                 ELSE Abs!Result("none", NoVal)]
                      /\ pc' = [pc EXCEPT ![t] = "ret"]
                   \/ /\ res' = [res EXCEPT ![t] = Abs!Result("err", op[t].val)]
                      /\ pc' = [pc EXCEPT ![t] = "ret"]
                   \/ pc' = [pc EXCEPT ![t] = "link"] /\ res' = res
                   \/ pc' = [pc EXCEPT ![t] = "unlink"] /\ res' = res
                   \/ /\ res' = [res EXCEPT ![t] = Abs!Result("err", NoVal)]
                      /\ pc' = [pc EXCEPT ![t] = "ret"]
            BY <2>6 DEF Find
        <3>2. cur' \in [Threads -> CursorT]
            BY <1>0, <3>1 DEF TypeOK, CursorT
        <3>3. NodeVal(c) \in Values \cup {NoVal}
            BY <1>0, <3>1
        <3>4. /\ Abs!Result("some", NodeVal(c)) \in Abs!Results
              /\ Abs!Result("none", NoVal) \in Abs!Results
              /\ Abs!Result("err", op[t].val) \in Abs!Results
              /\ Abs!Result("err", NoVal) \in Abs!Results
            BY <1>0, <3>3, ResultType
        <3>6. res' \in [Threads -> Abs!Results \cup {Abs!NoRes}]
            BY <3>1, <3>4 DEF TypeOK
        <3>5. pc' \in [Threads -> PCs] /\ pc'[t] \notin {"lb_read", "lb_find", "lb_link", "lb_store"}
            BY <3>1 DEF TypeOK, PCs
        <3> QED BY <2>6, <3>2, <3>5, <3>6 DEF Find, TypeOK, StackOK, CursorT
    <2>7. CASE Link(t)
        <3>0. Abs!Result("ok", NoVal) \in Abs!Results
            BY ResultType
        <3>1. res' \in [Threads -> Abs!Results \cup {Abs!NoRes}]
            BY <2>7, <3>0 DEF Link, TypeOK
        <3>2. items' \in [Keys -> Values \cup {NoVal}]
            BY <1>0, <2>7 DEF Link, TypeOK
        <3> QED BY <2>7, <3>1, <3>2 DEF Link, TypeOK, StackOK, PCs
    <2>8. CASE CountUp(t)
        BY <2>8 DEF CountUp, TypeOK, StackOK, PCs
    <2>9. CASE Resize(t)
        BY <2>9 DEF Resize, TypeOK, StackOK, PCs
    <2>10. CASE Unlink(t)
        <3>1. NodeVal(cur[t].curr) \in Values \cup {NoVal}
            BY <1>0 DEF TypeOK
        <3>2. Abs!Result("ok", NodeVal(cur[t].curr)) \in Abs!Results
            BY <3>1, ResultType
        <3>3. res' \in [Threads -> Abs!Results \cup {Abs!NoRes}]
            <4>1. CASE res' = [res EXCEPT ![t] = Abs!Result("ok", NodeVal(cur[t].curr))]
                BY <3>2, <4>1 DEF TypeOK
            <4>2. CASE res' = res
                BY <4>2 DEF TypeOK
            <4> QED BY <2>10, <4>1, <4>2 DEF Unlink
        <3> QED BY <2>10, <3>3 DEF Unlink, TypeOK, StackOK, PCs
    <2>11. CASE CountDown(t)
        BY <2>11 DEF CountDown, TypeOK, StackOK, PCs
    <2>12. CASE Finish(t)
        BY <1>0, <2>12 DEF Finish, TypeOK, StackOK, PCs, CursorT
    <2> QED BY <1>3, <2>1, <2>2, <2>3, <2>4, <2>5, <2>6, <2>7, <2>8, <2>9, <2>10,
               <2>11, <2>12, Zenon DEF Step
<1> QED BY <1>1, <1>2, <1>3 DEF Next

\* Type correctness: every reachable state of the map has the types TypeOK
\* gives its shared state (the bucket table, size, count) and its threads'
\* locals; in particular count and size stay words and lookup_bucket's
\* recursion only ever pushes bucket indices.
THEOREM TypeCorrect == Spec => []TypeOK
<1>1. IInv => TypeOK
    BY DEF IInv
<1> QED BY InitIInv, NextIInv, <1>1, PTL DEF Spec
====
