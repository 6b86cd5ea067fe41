---------------------------- MODULE MCOptimized -----------------------------
(* Events for the instances of Optimized that TLC checks.                  *)
EXTENDS Optimized

Direct(n) == [star |-> FALSE, cycles_n |-> n]

\* Cycles of one event and of several, an event without one, no event.
DirectLists == {<<Direct(2), Direct(0), Direct(1)>>, <<Direct(1)>>, <<>>}

StarLists == {<<[star |-> TRUE, cycles_n |-> 3]>>}

=============================================================================
