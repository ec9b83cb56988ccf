------------------------------- MODULE MCWorker -------------------------------
(* Two workers on one queue; every worker may run every task. *)
EXTENDS Worker

CONSTANTS w1, w2

MCWorkers == {w1, w2}
First == {w1}
Second == {w2}
Nobody == {}
AllFit == [w \in MCWorkers |-> Msgs]

(* w2 may not run task 1, and w1's machine has no workspace for task 2. *)
SomeFit == [w \in MCWorkers |-> IF w = w2 THEN Msgs \ {1} ELSE Msgs]
SomeHoused == [w \in MCWorkers |-> IF w = w1 THEN Msgs \ {2} ELSE Msgs]
=============================================================================
