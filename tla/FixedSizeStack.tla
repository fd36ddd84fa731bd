--------------------------- MODULE FixedSizeStack ---------------------------
(***************************************************************************)
(* The lock-free bounded stack of src/util/FixedSizeStack.hpp.             *)
(*                                                                         *)
(* mVec is the slot array, mHead the number of published elements and     *)
(* mWriteHead the number of reserved slots.  A push reserves a slot with a *)
(* CAS on mWriteHead, writes the slot and then forwards mHead past it; a   *)
(* pop reads the top slot and CASes mHead one down.  Every atomic load,    *)
(* CAS, store and increment of the C++ code is one step, so the model      *)
(* contains every interleaving of the threads at the granularity of their *)
(* atomic operations.                                                      *)
(*                                                                         *)
(* Each thread runs a fixed script of operations (Ops).  The element       *)
(* pushed by the j-th operation of thread t is <<t, j>>, so every push     *)
(* pushes a distinct element; the Prefill elements <<0, i>> were pushed    *)
(* before the threads start (single-threaded, e.g. in a constructor).      *)
(***************************************************************************)
EXTENDS Naturals, Sequences, FiniteSets

CONSTANTS
    Threads,    \* the threads using the stack (model values)
    Ops,        \* Ops[t]: the sequence of "push"/"pop" thread t performs
    Capacity,   \* the size passed to the constructor (mVec.size())
    Prefill,    \* number of elements pushed before the threads start
    NULL        \* nullptr

ASSUME Capacity \in Nat \ {0}
ASSUME Prefill \in 0 .. Capacity
ASSUME Ops \in [Threads -> Seq({"push", "pop"})]

VARIABLES
    mVec,       \* slot array 0 .. Capacity-1
    mHead,      \* std::atomic<size_t> mHead
    mWriteHead, \* std::atomic<size_t> mWriteHead
    pc,         \* program counter of each thread
    opIdx,      \* index into Ops[t] of the running operation
    loc,        \* the thread-local `head` / `wHead` of the running operation
    result,     \* the thread-local `result` of a pop
    pushed,     \* history: elements whose push returned true
    popped      \* history: sequence of elements returned by successful pops

vars == <<mVec, mHead, mWriteHead, pc, opIdx, loc, result, pushed, popped>>

Slots == 0 .. Capacity - 1
Elem(t, j) == <<t, j>>
PrefillElems == {Elem(0, i) : i \in 1 .. Prefill}
Elements == PrefillElems \cup UNION {{Elem(t, j) : j \in 1 .. Len(Ops[t])} : t \in Threads}

PCs == {"push_load", "push_cas", "push_write", "push_fwd", "push_inc",
        "pop_load", "pop_cas", "done"}

\* Entry point of the j-th operation of thread t ("done" after the script).
Entry(t, j) ==
    IF j > Len(Ops[t]) THEN "done"
    ELSE IF Ops[t][j] = "push" THEN "push_load" ELSE "pop_load"

\* The running operation of t returns; the thread starts its next one.
Return(t) ==
    /\ opIdx' = [opIdx EXCEPT ![t] = @ + 1]
    /\ pc' = [pc EXCEPT ![t] = Entry(t, opIdx[t] + 1)]

\* FixedSizeStack(size): all slots nullptr, both heads 0; then Prefill
\* single-threaded pushes.
Init ==
    /\ mVec = [i \in Slots |-> IF i < Prefill THEN Elem(0, i + 1) ELSE NULL]
    /\ mHead = Prefill
    /\ mWriteHead = Prefill
    /\ opIdx = [t \in Threads |-> 1]
    /\ pc = [t \in Threads |-> Entry(t, 1)]
    /\ loc = [t \in Threads |-> 0]
    /\ result = [t \in Threads |-> NULL]
    /\ pushed = PrefillElems
    /\ popped = <<>>

-----------------------------------------------------------------------------
(* pop()                                                                   *)

\* Variant of PopLoad that spins on an empty stack instead of failing.
PopLoadWaitNonEmpty(t) ==
    /\ pc[t] = "pop_load"
    /\ loc' = [loc EXCEPT ![t] = mHead]
    /\ IF mHead = 0
         THEN UNCHANGED <<result, pc>>
         ELSE /\ result' = [result EXCEPT ![t] = mVec[mHead - 1]]
              /\ pc' = [pc EXCEPT ![t] = "pop_cas"]
    /\ UNCHANGED <<opIdx, mVec, mHead, mWriteHead, pushed, popped>>

\* head = mHead.load(); if 0 return false; result = mVec[head - 1]
PopLoad(t) ==
    /\ pc[t] = "pop_load"
    /\ loc' = [loc EXCEPT ![t] = mHead]
    /\ IF mHead = 0
         THEN /\ result' = [result EXCEPT ![t] = NULL]
              /\ Return(t)
         ELSE /\ result' = [result EXCEPT ![t] = mVec[mHead - 1]]
              /\ pc' = [pc EXCEPT ![t] = "pop_cas"]
              /\ UNCHANGED opIdx
    /\ UNCHANGED <<mVec, mHead, mWriteHead, pushed, popped>>

\* Variant of PopCas with a plain store instead of the CAS.
PopCasNoCheck(t) ==
    /\ pc[t] = "pop_cas"
    /\ mHead' = loc[t] - 1
    /\ popped' = Append(popped, result[t])
    /\ Return(t)
    /\ UNCHANGED <<mVec, mWriteHead, loc, result, pushed>>

\* Variant of PopCas that, on a failed CAS, retries with the head the CAS
\* observed but keeps the element read for the old head.
PopCasStaleResult(t) ==
    /\ pc[t] = "pop_cas"
    /\ IF mHead = loc[t]
         THEN /\ mHead' = loc[t] - 1
              /\ popped' = Append(popped, result[t])
              /\ Return(t)
              /\ UNCHANGED loc
         ELSE /\ loc' = [loc EXCEPT ![t] = mHead]
              /\ UNCHANGED <<mHead, popped, opIdx, pc>>
    /\ UNCHANGED <<mVec, mWriteHead, result, pushed>>

\* mHead.compare_exchange_strong(head, head - 1): return true, or retry
PopCas(t) ==
    /\ pc[t] = "pop_cas"
    /\ IF mHead = loc[t]
         THEN /\ mHead' = loc[t] - 1
              /\ popped' = Append(popped, result[t])
              /\ Return(t)
         ELSE /\ pc' = [pc EXCEPT ![t] = "pop_load"]
              /\ UNCHANGED <<mHead, popped, opIdx>>
    /\ UNCHANGED <<mVec, mWriteHead, loc, result, pushed>>

-----------------------------------------------------------------------------
(* push(element)                                                           *)

\* Variant of PushLoad without the full check.
PushLoadNoFullCheck(t) ==
    /\ pc[t] = "push_load"
    /\ loc' = [loc EXCEPT ![t] = mWriteHead]
    /\ pc' = [pc EXCEPT ![t] = "push_cas"]
    /\ UNCHANGED <<opIdx, mVec, mHead, mWriteHead, result, pushed, popped>>

\* wHead = mWriteHead.load(); if (wHead == mVec.size()) return false
PushLoad(t) ==
    /\ pc[t] = "push_load"
    /\ loc' = [loc EXCEPT ![t] = mWriteHead]
    /\ IF mWriteHead = Capacity
         THEN Return(t)
         ELSE /\ pc' = [pc EXCEPT ![t] = "push_cas"]
              /\ UNCHANGED opIdx
    /\ UNCHANGED <<mVec, mHead, mWriteHead, result, pushed, popped>>

\* Variant of PushCas with a plain store instead of the CAS.
PushCasNoCheck(t) ==
    /\ pc[t] = "push_cas"
    /\ mWriteHead' = loc[t] + 1
    /\ pc' = [pc EXCEPT ![t] = "push_write"]
    /\ UNCHANGED <<mVec, mHead, opIdx, loc, result, pushed, popped>>

\* mWriteHead.compare_exchange_strong(wHead, wHead + 1), else continue
PushCas(t) ==
    /\ pc[t] = "push_cas"
    /\ IF mWriteHead = loc[t]
         THEN /\ mWriteHead' = loc[t] + 1
              /\ pc' = [pc EXCEPT ![t] = "push_write"]
         ELSE /\ pc' = [pc EXCEPT ![t] = "push_load"]
              /\ UNCHANGED mWriteHead
    /\ UNCHANGED <<mVec, mHead, opIdx, loc, result, pushed, popped>>

\* Variant of PushWrite that writes the slot at the shared mWriteHead
\* instead of the reserved wHead.
PushWriteSharedHead(t) ==
    /\ pc[t] = "push_write"
    /\ mVec' = [mVec EXCEPT ![mWriteHead] = Elem(t, opIdx[t])]
    /\ pc' = [pc EXCEPT ![t] = "push_fwd"]
    /\ UNCHANGED <<mHead, mWriteHead, opIdx, loc, result, pushed, popped>>

\* mVec[wHead] = element
PushWrite(t) ==
    /\ pc[t] = "push_write"
    /\ mVec' = [mVec EXCEPT ![loc[t]] = Elem(t, opIdx[t])]
    /\ pc' = [pc EXCEPT ![t] = "push_fwd"]
    /\ UNCHANGED <<mHead, mWriteHead, opIdx, loc, result, pushed, popped>>

\* Variant of PushForward that only waits for mHead, never forwarding it.
PushForwardNoInc(t) ==
    /\ pc[t] = "push_fwd"
    /\ IF mHead > loc[t]
         THEN /\ pushed' = pushed \cup {Elem(t, opIdx[t])}
              /\ Return(t)
         ELSE UNCHANGED <<pc, opIdx, pushed>>
    /\ UNCHANGED <<mVec, mHead, mWriteHead, loc, result, popped>>

\* head = mHead.load(); while (head <= wHead) { if (head == wHead) ... }:
\* leave the loop and return true, go on to the increment, or spin.
PushForward(t) ==
    /\ pc[t] = "push_fwd"
    /\ IF mHead > loc[t]
         THEN /\ pushed' = pushed \cup {Elem(t, opIdx[t])}
              /\ Return(t)
         ELSE /\ pc' = [pc EXCEPT ![t] = IF mHead = loc[t] THEN "push_inc"
                                                           ELSE "push_fwd"]
              /\ UNCHANGED <<opIdx, pushed>>
    /\ UNCHANGED <<mVec, mHead, mWriteHead, loc, result, popped>>

\* ++mHead (an unconditional atomic increment), then reload
PushInc(t) ==
    /\ pc[t] = "push_inc"
    /\ mHead' = mHead + 1
    /\ pc' = [pc EXCEPT ![t] = "push_fwd"]
    /\ UNCHANGED <<mVec, mWriteHead, opIdx, loc, result, pushed, popped>>

-----------------------------------------------------------------------------
Thread(t) ==
    \/ PopLoad(t) \/ PopCas(t)
    \/ PushLoad(t) \/ PushCas(t) \/ PushWrite(t) \/ PushForward(t) \/ PushInc(t)

Done == \A t \in Threads : pc[t] = "done"

Next ==
    \/ \E t \in Threads : Thread(t)
    \/ Done /\ UNCHANGED vars

\* Threads are OS threads: each one that can take a step eventually does.
Spec == Init /\ [][Next]_vars /\ \A t \in Threads : WF_vars(Thread(t))

-----------------------------------------------------------------------------
(* Properties                                                              *)

TypeOK ==
    /\ mVec \in [Slots -> Elements \cup {NULL}]
    /\ mHead \in Nat
    /\ mWriteHead \in 0 .. Capacity
    /\ pc \in [Threads -> PCs]
    /\ opIdx \in [Threads -> Nat]
    /\ loc \in [Threads -> Nat]
    /\ result \in [Threads -> Elements \cup {NULL}]
    /\ pushed \subseteq Elements
    /\ popped \in Seq(Elements \cup {NULL})

\* pop() hands every element out at most once and only elements that were
\* pushed: two threads never both obtain the same page from a free list.
NoDoublePop ==
    /\ \A i, j \in DOMAIN popped : i # j => popped[i] # popped[j]
    /\ \A i \in DOMAIN popped : popped[i] \in pushed \cup {Elem(t, opIdx[t]) : t \in Threads}

\* Once every thread has finished, each element whose push() returned true
\* is either still on the stack (below mHead) or was popped, never both and
\* never neither: push/pop lose and duplicate nothing.
ElementsConserved ==
    Done =>
        LET onStack == {mVec[i] : i \in 0 .. mHead - 1}
            out     == {popped[i] : i \in DOMAIN popped}
        IN  /\ mHead <= Capacity
            /\ onStack \cup out = pushed
            /\ onStack \cap out = {}
            /\ Cardinality(onStack) = mHead

\* push() returns false only when the stack is full: mHead = size.
PushFailsOnlyWhenFull ==
    [][\A t \in Threads :
         (pc[t] = "push_load" /\ mWriteHead = Capacity /\ opIdx'[t] = opIdx[t] + 1)
            => mHead = Capacity]_vars

\* The stack as its users see it: the published slots 0 .. mHead-1.
Abs == INSTANCE LifoStack WITH
           Elems <- Elements,
           InitStack <- [i \in 1 .. Prefill |-> Elem(0, i)],
           stack <- [i \in 1 .. mHead |-> mVec[i - 1]],
           returned <- popped

\* push() and pop() are linearizable to a bounded LIFO stack: every step
\* of every thread either leaves the published stack unchanged or is one
\* push of a new top (the forwarding increment of mHead) or one pop that
\* returns the element on top (the successful CAS, with the element read
\* before it).  A slot published before it is written, a pop returning
\* an element below the top, or an element published twice breaks it.
StackRefinement == Abs!Spec

\* Every push() and pop() returns: each thread completes its script.
AllOpsComplete == <>Done

=============================================================================
