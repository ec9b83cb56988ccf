------------------------------ MODULE TaskQueue ------------------------------
(***************************************************************************)
(* What q.tasks promises a dispatcher, with no timeouts, receipts or       *)
(* threads.  A task leaves the queue only through a run of it that         *)
(* succeeded (at least once).  With Exclusive, a task is also never run by *)
(* two workers at once and never run again after it succeeded.             *)
(***************************************************************************)
EXTENDS Naturals

CONSTANTS Tasks, Workers, Exclusive

VARIABLES sent,     \* tasks handed to the queue
          done,     \* tasks that left the queue
          runs      \* <<w, t>>: worker w is running task t

vars == <<sent, done, runs>>

Init == sent = {} /\ done = {} /\ runs = {}

Submit(t) == /\ t \notin sent
             /\ sent' = sent \union {t}
             /\ UNCHANGED <<done, runs>>

Begin(w, t) == /\ t \in sent
               /\ \A u \in Tasks : <<w, u>> \notin runs
               /\ Exclusive => /\ t \notin done
                               /\ \A v \in Workers : <<v, t>> \notin runs
               /\ runs' = runs \union {<<w, t>>}
               /\ UNCHANGED <<sent, done>>

(* The run succeeded and the queue was told. *)
Complete(w, t) == /\ <<w, t>> \in runs
                  /\ runs' = runs \ {<<w, t>>}
                  /\ done' = done \union {t}
                  /\ UNCHANGED sent

(* The run failed, or its worker died: the task stays in the queue. *)
GiveUp(w, t) == /\ <<w, t>> \in runs
                /\ runs' = runs \ {<<w, t>>}
                /\ UNCHANGED <<sent, done>>

Next == \/ \E t \in Tasks : Submit(t)
        \/ \E w \in Workers, t \in Tasks :
              Begin(w, t) \/ Complete(w, t) \/ GiveUp(w, t)

Spec == Init /\ [][Next]_vars
=============================================================================
