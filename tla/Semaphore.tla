------------------------------ MODULE Semaphore ------------------------------
(***************************************************************************)
(* What the slots of run_one_test promise, with neither counter, mutex nor *)
(* condition variable: at most Max of the tests are inside at once.        *)
(***************************************************************************)
EXTENDS Naturals, FiniteSets

CONSTANTS Procs,  \* who may go in
          Max     \* how many at once

VARIABLE inside

Init == inside = {}

Enter(p) == /\ p \notin inside
            /\ Cardinality(inside) < Max
            /\ inside' = inside \cup {p}

Leave(p) == /\ p \in inside
            /\ inside' = inside \ {p}

Next == \E p \in Procs : Enter(p) \/ Leave(p)

Spec == Init /\ [][Next]_inside
=============================================================================
