----------------------------- MODULE LifoStack -----------------------------
(***************************************************************************)
(* What FixedSizeStack promises its users, without slots or heads: a      *)
(* bounded last-in first-out stack.  push(e) puts e on top unless the      *)
(* stack holds Capacity elements; pop() hands out the top element, or      *)
(* fails on the empty stack.  A failing push or pop leaves it unchanged.   *)
(* returned is the sequence of elements handed out by successful pops.     *)
(***************************************************************************)
EXTENDS Naturals, Sequences, SequencesExt

CONSTANTS
    Elems,      \* the elements that may be pushed
    Capacity,   \* the size the stack was constructed with
    InitStack   \* the elements on the stack at the start, bottom first

VARIABLES
    stack,      \* the elements on the stack, bottom first
    returned    \* history: the elements successful pops returned

Init ==
    /\ stack = InitStack
    /\ returned = <<>>

\* push(e) returning true.
Push(e) ==
    /\ Len(stack) < Capacity
    /\ stack' = Append(stack, e)
    /\ UNCHANGED returned

\* pop(result) returning true: result is the element on top.
Pop ==
    /\ stack # <<>>
    /\ returned' = Append(returned, Last(stack))
    /\ stack' = Front(stack)

Next == Pop \/ \E e \in Elems : Push(e)

Spec == Init /\ [][Next]_<<stack, returned>>

=============================================================================
