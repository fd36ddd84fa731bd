------------------------- MODULE MC_FixedSizeStack -------------------------
(* Scenarios for FixedSizeStack: which operations each thread performs.   *)
EXTENDS FixedSizeStack, TLC

CONSTANTS t1, t2, t3

\* Three threads pushing concurrently into an empty stack of capacity 4:
\* six pushes, so the last ones find the stack full.
PushOnlyThreads == {t1, t2, t3}
PushOnlyOps == [t \in PushOnlyThreads |-> <<"push", "push">>]

\* Three threads popping concurrently from a full stack of capacity 4:
\* six pops, so the last ones find the stack empty.
PopOnlyThreads == {t1, t2, t3}
PopOnlyOps == [t \in PopOnlyThreads |-> <<"pop", "pop">>]

\* A free list in use: one thread frees (pushes) while another allocates
\* (pops) and frees again.
MixedThreads == {t1, t2}
MixedOps == (t1 :> <<"push", "push">>) @@ (t2 :> <<"pop", "push", "pop">>)
=============================================================================
