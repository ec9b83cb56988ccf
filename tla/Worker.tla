-------------------------------- MODULE Worker --------------------------------
(***************************************************************************)
(* Worker.run_once, its heartbeat thread, cordon and drain, and the        *)
(* serve_worker loop around them, for several worker processes on one      *)
(* queue.  A step of a thread is what it does between two points where     *)
(* another thread or process can see or change what it uses: one bus call, *)
(* or one block under Worker._lock with the local code next to it.         *)
(*                                                                         *)
(* _busy and _idle are always assigned together under the lock, so busy    *)
(* stands for both: _idle is set iff ~busy.                                *)
(***************************************************************************)
EXTENDS Bus

CONSTANTS HB,      \* heartbeat interval of 30 s, in ticks
          Fit,     \* Fit[w]: tasks whose agent worker w may run (auth_ok, allowed_agents)
          Housed,  \* Housed[w]: tasks whose cwd_hint is a directory on w's machine
          Timely,  \* TRUE: threads get to run between two ticks
          Faulty,  \* TRUE: a bus call may raise FailClosed("bus unreachable")
          Operated,  \* workers whose cordon and drain may be called (bound)
          Mortal     \* workers whose process may die and be restarted (bound)

ASSUME WorkerAssumption == /\ HB \in Nat \ {0}
                           /\ HB < VT
                           /\ Fit \in [Workers -> SUBSET Msgs]
                           /\ Housed \in [Workers -> SUBSET Msgs]
                           /\ Timely \in BOOLEAN
                           /\ Faulty \in BOOLEAN
                           /\ Operated \subseteq Workers
                           /\ Mortal \subseteq Workers

VARIABLES pc,        \* where the worker thread is
          job,       \* the message it holds; 0 when none
          cordoned, draining, stopped, busy,   \* Worker's flags
          drainer,   \* the thread calling drain(): "none", "waiting" or "returned"
          beat,      \* the heartbeat thread: "off", "sleep", "found" or "dead"
          due,       \* ticks until the heartbeat thread wakes
          strays     \* <<w, m>>: a late heartbeat of w outlived join(timeout=1)

flags == <<cordoned, draining, stopped, busy>>
beatVars == <<beat, due, strays>>
vars == <<busVars, pc, job, flags, drainer, beatVars>>

\* Holding a message, before and after the busy flag is raised.
Handling == {"got", "cordoned", "checking"}
Working == {"claimed", "running", "succeeded", "failed"}
Holding == Handling \union Working
Closing == {"closing", "raising"}
PC == {"top", "reading", "exited", "dead", "down"} \union Holding \union Closing

TypeOK == /\ BusTypeOK
          /\ pc \in [Workers -> PC]
          /\ job \in [Workers -> 0 .. NumMsgs]
          /\ cordoned \in [Workers -> BOOLEAN]
          /\ draining \in [Workers -> BOOLEAN]
          /\ stopped \in [Workers -> BOOLEAN]
          /\ busy \in [Workers -> BOOLEAN]
          /\ drainer \in [Workers -> {"none", "waiting", "returned"}]
          /\ beat \in [Workers -> {"off", "sleep", "found", "dead"}]
          /\ due \in [Workers -> 0 .. HB]
          /\ strays \subseteq Workers \X Msgs

Init == /\ BusInit
        /\ pc = [w \in Workers |-> "top"]
        /\ job = [w \in Workers |-> 0]
        /\ cordoned = [w \in Workers |-> FALSE]
        /\ draining = [w \in Workers |-> FALSE]
        /\ stopped = [w \in Workers |-> FALSE]
        /\ busy = [w \in Workers |-> FALSE]
        /\ drainer = [w \in Workers |-> "none"]
        /\ beat = [w \in Workers |-> "off"]
        /\ due = [w \in Workers |-> 0]
        /\ strays = {}

-----------------------------------------------------------------------------
(* The worker thread *)

At(w, l) == pc[w] = l
Goto(w, l) == pc' = [pc EXCEPT ![w] = l]
(* Leave run_once: the loop of serve_worker goes round. *)
Finish(w, l) == Goto(w, l) /\ job' = [job EXCEPT ![w] = 0]

(* The first locked block, and the loop's own test of worker.stopped. *)
EnterRunOnce(w) ==
    /\ At(w, "top")
    /\ stopped' = [stopped EXCEPT ![w] = @ \/ draining[w]]
    /\ Goto(w, IF stopped[w] \/ draining[w] THEN "exited" ELSE "reading")
    /\ UNCHANGED <<busVars, job, cordoned, draining, busy, drainer, beatVars>>

(* bus.read, outside the lock. *)
ReadTask(w) ==
    /\ At(w, "reading")
    /\ \/ \E m \in Msgs : /\ Read(w, m)
                          /\ job' = [job EXCEPT ![w] = m]
                          /\ Goto(w, "got")
       \/ ReadNone /\ Finish(w, "top")
    /\ UNCHANGED <<flags, drainer, beatVars>>

(* Refuse the message while holding the lock: drain() was called meanwhile. *)
Refuse(w) == /\ stopped[w] \/ draining[w]
             /\ Nack(w, job[w])
             /\ stopped' = [stopped EXCEPT ![w] = TRUE]
             /\ Finish(w, "top")
             /\ UNCHANGED <<cordoned, draining, busy>>

(* The second locked block: recheck, then read the cordon flag. *)
Recheck(w) ==
    /\ At(w, "got")
    /\ \/ Refuse(w)
       \/ /\ ~(stopped[w] \/ draining[w])
          /\ Goto(w, IF cordoned[w] THEN "cordoned" ELSE "checking")
          /\ UNCHANGED <<busVars, job, flags>>
    /\ UNCHANGED <<drainer, beatVars>>

(* Faulty variant: run_once goes on after the nack of a cordoned worker. *)
NackAndGoOn(w) ==
    /\ At(w, "cordoned") \/ (At(w, "checking") /\ job[w] \notin Fit[w])
    /\ Nack(w, job[w])
    /\ Goto(w, "checking")
    /\ UNCHANGED <<job, flags, drainer, beatVars>>

(* worker.cordoned and worker.capability_miss: give the message back. *)
NackUnrun(w) ==
    /\ At(w, "cordoned") \/ (At(w, "checking") /\ job[w] \notin Fit[w])
    /\ Nack(w, job[w])
    /\ Finish(w, "top")
    /\ UNCHANGED <<flags, drainer, beatVars>>

(* "workspace missing" is raised with the message neither acked nor        *)
(* archived; serve_worker exits with code 3.                               *)
WorkspaceMissing(w) ==
    /\ At(w, "checking")
    /\ job[w] \in Fit[w] \ Housed[w]
    /\ Finish(w, "dead")
    /\ UNCHANGED <<busVars, flags, drainer, beatVars>>

(* Faulty variant: busy is raised without the last recheck. *)
ClaimUnchecked(w) ==
    /\ At(w, "checking")
    /\ job[w] \in Fit[w] \intersect Housed[w]
    /\ busy' = [busy EXCEPT ![w] = TRUE]
    /\ Goto(w, "claimed")
    /\ UNCHANGED <<busVars, job, cordoned, draining, stopped, drainer, beatVars>>

(* The third locked block: last recheck, then busy. *)
Claim(w) ==
    /\ At(w, "checking")
    /\ job[w] \in Fit[w] \intersect Housed[w]
    /\ \/ Refuse(w)
       \/ /\ ~(stopped[w] \/ draining[w])
          /\ busy' = [busy EXCEPT ![w] = TRUE]
          /\ Goto(w, "claimed")
          /\ UNCHANGED <<busVars, job, cordoned, draining, stopped>>
    /\ UNCHANGED <<drainer, beatVars>>

(* The heartbeat before the heartbeat thread and the run start. *)
FirstHeartbeat(w) ==
    /\ At(w, "claimed")
    /\ Heartbeat(w, job[w])
    /\ Goto(w, "running")
    /\ beat' = [beat EXCEPT ![w] = "sleep"]
    /\ due' = [due EXCEPT ![w] = HB]
    /\ UNCHANGED <<job, flags, drainer, strays>>

(* self._run returns 0, returns another code, or raises. *)
RunEnds(w) ==
    /\ At(w, "running")
    /\ \E l \in {"succeeded", "failed", "raising"} : Goto(w, l)
    /\ UNCHANGED <<busVars, job, flags, drainer, beatVars>>

(* Faulty variant: the message is archived whatever the run returned. *)
SettleAlways(w) ==
    /\ pc[w] \in {"succeeded", "failed"} /\ Archive(w, job[w])
    /\ Goto(w, "closing")
    /\ UNCHANGED <<job, flags, drainer, beatVars>>

(* archive after code 0, ack(success=False) after any other code. *)
SettleRun(w) ==
    /\ \/ At(w, "succeeded") /\ Archive(w, job[w])
       \/ At(w, "failed") /\ Nack(w, job[w])
    /\ Goto(w, "closing")
    /\ UNCHANGED <<job, flags, drainer, beatVars>>

(* Faulty variant: no finally, so a run that raises stops nothing. *)
CloseUnlessRaised(w) ==
    /\ pc[w] \in Closing
    /\ IF At(w, "raising")
       THEN Goto(w, "dead") /\ UNCHANGED <<job, flags, beatVars>>
       ELSE /\ beat' = [beat EXCEPT ![w] = "off"]
            /\ due' = [due EXCEPT ![w] = 0]
            /\ busy' = [busy EXCEPT ![w] = FALSE]
            /\ stopped' = [stopped EXCEPT ![w] = @ \/ draining[w]]
            /\ Finish(w, "top")
            /\ UNCHANGED <<strays, cordoned, draining>>
    /\ UNCHANGED <<busVars, drainer>>

(* finally: stop.set(), join the heartbeat thread for one second at most,  *)
(* then the last locked block.  A thread between its lookup and its write  *)
(* can outlive the join.                                                   *)
CloseRun(w) ==
    /\ pc[w] \in Closing
    /\ strays' = IF beat[w] = "found" THEN strays \union {<<w, job[w]>>} ELSE strays
    /\ beat' = [beat EXCEPT ![w] = "off"]
    /\ due' = [due EXCEPT ![w] = 0]
    /\ busy' = [busy EXCEPT ![w] = FALSE]
    /\ stopped' = [stopped EXCEPT ![w] = @ \/ draining[w]]
    /\ Finish(w, IF At(w, "raising") THEN "dead" ELSE "top")
    /\ UNCHANGED <<busVars, cordoned, draining, drainer>>

(* What a bus call that raises did to the queue: nothing, or, when only    *)
(* its reply was lost, all of it.  The receipts are updated after the      *)
(* reply.                                                                  *)
Unanswered(w) ==
    \/ UNCHANGED <<rows, hidden>>
    \/ /\ \/ /\ At(w, "reading")
             /\ \E m \in Msgs : NextUp(m) /\ hidden' = WithVt(m, VT)
          \/ At(w, "claimed") /\ hidden' = WithVt(job[w], VT)
          \/ /\ pc[w] \in Handling \union {"failed"}
             /\ hidden' = WithVt(job[w], 0)
       /\ UNCHANGED rows
    \/ /\ At(w, "succeeded")
       /\ rows' = rows \ {job[w]}
       /\ hidden' = [hidden EXCEPT ![job[w]] = 0]

(* A bus call raises FailClosed.  Only the calls after a run are inside    *)
(* the try; serve_worker does not catch the bus's FailClosed.              *)
BusFails(w) ==
    /\ Faulty
    /\ \/ pc[w] \in {"reading", "cordoned", "claimed"} /\ Finish(w, "dead")
       \/ /\ \/ At(w, "got") /\ (stopped[w] \/ draining[w])
             \/ /\ At(w, "checking")
                /\ \/ job[w] \notin Fit[w]
                   \/ job[w] \in Housed[w] /\ (stopped[w] \/ draining[w])
          /\ Finish(w, "dead")
       \/ pc[w] \in {"succeeded", "failed"} /\ Goto(w, "raising") /\ UNCHANGED job
    /\ Unanswered(w)
    /\ UNCHANGED <<sent, receipts, flags, drainer, beatVars>>

-----------------------------------------------------------------------------
(* The heartbeat thread *)

(* stop.wait timed out: look the receipt up.  FailClosed ends the thread.  *)
BeatWake(w) ==
    /\ beat[w] = "sleep" /\ due[w] = 0
    /\ beat' = [beat EXCEPT ![w] = IF job[w] \in receipts[w] THEN "found" ELSE "dead"]
    /\ UNCHANGED <<busVars, pc, job, flags, drainer, due, strays>>

(* Faulty variant: the lease is renewed for one heartbeat interval only. *)
BeatWriteShort(w) ==
    /\ beat[w] = "found"
    /\ hidden' = WithVt(job[w], HB)
    /\ beat' = [beat EXCEPT ![w] = "sleep"]
    /\ due' = [due EXCEPT ![w] = HB]
    /\ UNCHANGED <<sent, rows, receipts, pc, job, flags, drainer, strays>>

(* The write: the message stays hidden for VT, or the thread dies of       *)
(* FailClosed (the write lost, or only its reply).                         *)
BeatWrite(w) ==
    /\ beat[w] = "found"
    /\ \/ /\ hidden' = WithVt(job[w], VT)
          /\ beat' = [beat EXCEPT ![w] = "sleep"]
          /\ due' = [due EXCEPT ![w] = HB]
       \/ /\ Faulty
          /\ beat' = [beat EXCEPT ![w] = "dead"]
          /\ hidden' \in {hidden, WithVt(job[w], VT)}
          /\ UNCHANGED due
    /\ UNCHANGED <<sent, rows, receipts, pc, job, flags, drainer, strays>>

(* The write of a heartbeat thread that outlived its run. *)
StrayWrite(w, m) ==
    /\ <<w, m>> \in strays
    /\ strays' = strays \ {<<w, m>>}
    /\ hidden' = WithVt(m, VT)
    /\ UNCHANGED <<sent, rows, receipts, pc, job, flags, drainer, beat, due>>

-----------------------------------------------------------------------------
(* Other threads of the process, and the process itself *)

(* cordon() takes no lock. *)
Cordon(w) ==
    /\ w \in Operated /\ pc[w] # "down"
    /\ cordoned' = [cordoned EXCEPT ![w] = TRUE]
    /\ UNCHANGED <<busVars, pc, job, draining, stopped, busy, drainer, beatVars>>

(* drain() until it waits for _idle. *)
DrainCall(w) ==
    /\ w \in Operated /\ pc[w] # "down" /\ drainer[w] = "none"
    /\ cordoned' = [cordoned EXCEPT ![w] = TRUE]
    /\ draining' = [draining EXCEPT ![w] = TRUE]
    /\ stopped' = [stopped EXCEPT ![w] = @ \/ ~busy[w]]
    /\ drainer' = [drainer EXCEPT ![w] = "waiting"]
    /\ UNCHANGED <<busVars, pc, job, busy, beatVars>>

DrainReturn(w) ==
    /\ drainer[w] = "waiting" /\ ~busy[w]
    /\ stopped' = [stopped EXCEPT ![w] = TRUE]
    /\ drainer' = [drainer EXCEPT ![w] = "returned"]
    /\ UNCHANGED <<busVars, pc, job, cordoned, draining, busy, beatVars>>

(* The process dies with everything in its memory. *)
Crash(w) ==
    /\ w \in Mortal /\ pc[w] # "down"
    /\ Finish(w, "down")
    /\ cordoned' = [cordoned EXCEPT ![w] = FALSE]
    /\ draining' = [draining EXCEPT ![w] = FALSE]
    /\ stopped' = [stopped EXCEPT ![w] = FALSE]
    /\ busy' = [busy EXCEPT ![w] = FALSE]
    /\ drainer' = [drainer EXCEPT ![w] = "none"]
    /\ beat' = [beat EXCEPT ![w] = "off"]
    /\ due' = [due EXCEPT ![w] = 0]
    /\ strays' = {s \in strays : s[1] # w}
    /\ receipts' = [receipts EXCEPT ![w] = {}]
    /\ UNCHANGED <<sent, rows, hidden>>

Restart(w) ==
    /\ At(w, "down")
    /\ Goto(w, "top")
    /\ UNCHANGED <<busVars, job, flags, drainer, beatVars>>

(* A dispatcher sends the next task. *)
SendTask == /\ Send
            /\ UNCHANGED <<pc, job, flags, drainer, beatVars>>

(* What a tick does not overtake when threads are timely: the short steps  *)
(* between taking a message and settling it, and a heartbeat that is due.  *)
Prompt(w) == /\ pc[w] \notin Holding \ {"running"}
             /\ At(w, "running") => /\ beat[w] # "found"
                                    /\ beat[w] = "sleep" => due[w] > 0

Less(n) == IF n = 0 THEN 0 ELSE n - 1

Tick == /\ Timely => \A w \in Workers : Prompt(w)
        /\ \/ \E m \in Msgs : hidden[m] > 0
           \/ \E w \in Workers : due[w] > 0
        /\ hidden' = [m \in Msgs |-> Less(hidden[m])]
        /\ due' = [w \in Workers |-> Less(due[w])]
        /\ UNCHANGED <<sent, rows, receipts, pc, job, flags, drainer, beat, strays>>

-----------------------------------------------------------------------------
RunOnce(w) == \/ EnterRunOnce(w) \/ ReadTask(w) \/ Recheck(w) \/ NackUnrun(w)
              \/ WorkspaceMissing(w) \/ Claim(w) \/ FirstHeartbeat(w)
              \/ RunEnds(w) \/ SettleRun(w) \/ CloseRun(w)

Beating(w) == \/ BeatWake(w) \/ BeatWrite(w)
              \/ \E m \in Msgs : StrayWrite(w, m)

Control(w) == Cordon(w) \/ DrainCall(w) \/ DrainReturn(w)

Next == \/ \E w \in Workers : \/ RunOnce(w) \/ BusFails(w) \/ Beating(w)
                              \/ Control(w) \/ Crash(w) \/ Restart(w)
        \/ SendTask
        \/ Tick

(* Threads are scheduled, time passes, and a run ends (RunEnds is in       *)
(* RunOnce).  Nobody is obliged to cordon, drain, restart or send.         *)
Fairness == /\ \A w \in Workers : /\ WF_vars(RunOnce(w) \/ BusFails(w))
                                  /\ WF_vars(Beating(w))
                                  /\ WF_vars(DrainReturn(w))
            /\ WF_vars(Tick)

Spec == Init /\ [][Next]_vars /\ Fairness

-----------------------------------------------------------------------------
(* Properties *)

(* A worker thread that holds a message still has the receipt for it, so   *)
(* its archive, ack and heartbeat never raise "not in flight", whatever    *)
(* other workers did to the row meanwhile.                                 *)
ReceiptHeld == \A w \in Workers : pc[w] \in Holding => job[w] \in receipts[w]

(* drain() returns only when no run is in progress, and after it returned  *)
(* none begins: the recheck under the lock closes the window between       *)
(* reading a message and raising busy.                                     *)
DrainedIsIdle ==
    \A w \in Workers : drainer[w] = "returned" =>
        stopped[w] /\ ~busy[w] /\ pc[w] \notin Working \union Closing

(* Two workers never run the same task at once. *)
OneRunner ==
    \A v, w \in Workers :
        pc[v] \in Working /\ pc[w] \in Working /\ job[v] = job[w] => v = w

(* The queue as its users see it: who runs what, and what left the queue.  *)
(* A run whose code was not 0 has given its task up already.               *)
Runs == {p \in Workers \X Msgs :
            pc[p[1]] \in {"running", "succeeded"} /\ job[p[1]] = p[2]}

Delivery == INSTANCE TaskQueue
              WITH Tasks <- Msgs, Exclusive <- Timely /\ ~Faulty,
                   sent <- 1 .. sent, done <- (1 .. sent) \ rows, runs <- Runs

(* A task leaves the queue only through a run that returned 0; when        *)
(* threads are timely and the bus is up, runs of a task do not overlap and *)
(* none begins after one succeeded.                                        *)
DeliversTasks == Delivery!Spec

(* drain() returns (or its process dies): it never waits for ever. *)
DrainReturns == \A w \in Workers : drainer[w] = "waiting" ~> drainer[w] # "waiting"

(* A task is never hidden for ever: whatever happened to its reader, late  *)
(* heartbeats included, it becomes visible again or leaves the queue.      *)
BecomesVisible == \A m \in Msgs : m \in rows ~> (m \notin rows \/ hidden[m] = 0)
=============================================================================
