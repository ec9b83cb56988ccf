----------------------------- MODULE WorkerProofs -----------------------------
(***************************************************************************)
(* Worker's invariants, for any number of workers and messages and any     *)
(* timeouts with HB < VT.                                                  *)
(***************************************************************************)
EXTENDS Worker, TLAPS

(* Every action of Next, as one disjunction over a worker and a message:   *)
(* what the proofs of the invariants split on.                             *)
Step(w) == \/ EnterRunOnce(w) \/ ReadTask(w) \/ Recheck(w) \/ NackUnrun(w)
           \/ WorkspaceMissing(w) \/ Claim(w) \/ FirstHeartbeat(w)
           \/ RunEnds(w) \/ SettleRun(w) \/ CloseRun(w) \/ BusFails(w)
           \/ BeatWake(w) \/ BeatWrite(w) \/ Cordon(w) \/ DrainCall(w)
           \/ DrainReturn(w) \/ Crash(w) \/ Restart(w)

(* A thread past bus.read has a message, and only the time of a run has a  *)
(* heartbeat thread.                                                       *)
JobKnown == \A w \in Workers : pc[w] \in Holding \union Closing => job[w] \in Msgs
BeatOwned == \A w \in Workers :
                beat[w] # "off" => pc[w] \in (Working \ {"claimed"}) \union Closing

SafeInv == TypeOK /\ JobKnown /\ BeatOwned /\ ReceiptHeld

-----------------------------------------------------------------------------
LEMMA InitSafeInv == Init => SafeInv
<1> SUFFICES ASSUME Init PROVE SafeInv
  OBVIOUS
<1>1. TypeOK
  BY BusAssumption, WorkerAssumption DEF Init, BusInit, TypeOK, BusTypeOK, Msgs, PC
<1>2. JobKnown /\ BeatOwned /\ ReceiptHeld
  BY DEF Init, JobKnown, BeatOwned, ReceiptHeld, Holding, Handling, Working, Closing
<1> QED
  BY <1>1, <1>2 DEF SafeInv

LEMMA Constants == NumMsgs \in Nat /\ VT \in Nat /\ HB \in Nat /\ 0 < HB /\ HB < VT
BY BusAssumption, WorkerAssumption

LEMMA PCValues ==
  \A l \in {"top", "reading", "exited", "dead", "down", "got", "cordoned", "checking",
           "claimed", "running", "succeeded", "failed", "closing", "raising"} : l \in PC
BY DEF PC, Holding, Handling, Working, Closing

-----------------------------------------------------------------------------
(* The bus operations keep the queue's types. *)
LEMMA WithVtType ==
  ASSUME BusTypeOK, NEW m \in Msgs, NEW t \in 0 .. VT
  PROVE  WithVt(m, t) \in [Msgs -> 0 .. VT]
BY DEF BusTypeOK, WithVt

LEMMA BusOperationsType ==
  ASSUME BusTypeOK, NEW w \in Workers, NEW m \in Msgs,
         Read(w, m) \/ Heartbeat(w, m) \/ Archive(w, m) \/ Nack(w, m) \/ ReadNone
  PROVE  BusTypeOK'
<1> USE Constants DEF BusTypeOK
<1>1. CASE Read(w, m)
  BY <1>1 DEF Read
<1>2. CASE Heartbeat(w, m)
  BY <1>2, WithVtType DEF Heartbeat
<1>3. CASE Archive(w, m)
  <2>1. rows' \subseteq 1 .. sent' /\ sent' \in 0 .. NumMsgs
    BY <1>3 DEF Archive
  <2>2. hidden' \in [Msgs -> 0 .. VT]
    BY <1>3 DEF Archive
  <2>3. receipts' \in [Workers -> SUBSET Msgs]
    BY <1>3 DEF Archive
  <2> QED
    BY <2>1, <2>2, <2>3
<1>4. CASE Nack(w, m)
  BY <1>4, WithVtType DEF Nack
<1>5. CASE ReadNone
  BY <1>5 DEF ReadNone, busVars
<1> QED
  BY <1>1, <1>2, <1>3, <1>4, <1>5

-----------------------------------------------------------------------------
LEMMA StepTypeOK == ASSUME NEW w \in Workers, SafeInv, Step(w) PROVE TypeOK'
<1> USE Constants, PCValues DEF SafeInv, TypeOK, flags, beatVars, At, Goto, Finish
<1>a. UNCHANGED busVars => BusTypeOK'
  BY DEF BusTypeOK, busVars, Msgs
<1>b. pc[w] \in Holding \union Closing => job[w] \in Msgs
  BY DEF JobKnown
<1>1. CASE EnterRunOnce(w)
  BY <1>1, <1>a DEF EnterRunOnce
<1>2. CASE ReadTask(w)
  <2>1. PICK m \in 0 .. NumMsgs :
           /\ (m \in Msgs /\ Read(w, m)) \/ UNCHANGED busVars
           /\ job' = [job EXCEPT ![w] = m]
           /\ \E l \in PC : pc' = [pc EXCEPT ![w] = l]
    BY <1>2 DEF ReadTask, ReadNone, Msgs
  <2>2. BusTypeOK'
    BY <2>1, <1>a, BusOperationsType
  <2> QED
    BY <1>2, <2>1, <2>2 DEF ReadTask
<1>3. CASE Recheck(w)
  <2>1. Nack(w, job[w]) \/ UNCHANGED busVars
    BY <1>3 DEF Recheck, Refuse
  <2>2. BusTypeOK'
    BY <1>3, <2>1, <1>a, <1>b, BusOperationsType DEF Recheck, Holding, Handling, Working
  <2>3. CASE Refuse(w)
    BY <1>3, <2>2, <2>3 DEF Recheck, Refuse
  <2>4. CASE ~Refuse(w)
    BY <1>3, <2>2, <2>4 DEF Recheck
  <2> QED
    BY <2>3, <2>4
<1>4. CASE NackUnrun(w)
  <2>1. Nack(w, job[w])
    BY <1>4 DEF NackUnrun
  <2>2. BusTypeOK'
    BY <1>4, <2>1, <1>a, <1>b, BusOperationsType DEF NackUnrun, Holding, Handling, Working
  <2> QED
    BY <1>4, <2>2 DEF NackUnrun
<1>5. CASE WorkspaceMissing(w)
  BY <1>5, <1>a DEF WorkspaceMissing
<1>6. CASE Claim(w)
  <2>1. Nack(w, job[w]) \/ UNCHANGED busVars
    BY <1>6 DEF Claim, Refuse
  <2>2. BusTypeOK'
    BY <1>6, <2>1, <1>a, <1>b, BusOperationsType DEF Claim, Holding, Handling, Working
  <2>3. CASE Refuse(w)
    BY <1>6, <2>2, <2>3 DEF Claim, Refuse
  <2>4. CASE ~Refuse(w)
    BY <1>6, <2>2, <2>4, ZenonT(60) DEF Claim
  <2> QED
    BY <2>3, <2>4
<1>7. CASE FirstHeartbeat(w)
  <2>1. Heartbeat(w, job[w])
    BY <1>7 DEF FirstHeartbeat
  <2>2. BusTypeOK'
    BY <1>7, <2>1, <1>a, <1>b, BusOperationsType DEF FirstHeartbeat, Holding, Handling, Working
  <2> QED
    BY <1>7, <2>2 DEF FirstHeartbeat
<1>8. CASE RunEnds(w)
  BY <1>8, <1>a DEF RunEnds
<1>9. CASE SettleRun(w)
  <2>1. Archive(w, job[w]) \/ Nack(w, job[w])
    BY <1>9 DEF SettleRun
  <2>2. BusTypeOK'
    BY <1>9, <2>1, <1>a, <1>b, BusOperationsType DEF SettleRun, Holding, Handling, Working
  <2> QED
    BY <1>9, <2>2 DEF SettleRun
<1>10. CASE CloseRun(w)
  BY <1>10, <1>a, <1>b DEF CloseRun
<1>11. CASE BusFails(w)
  <2>1. /\ \E l \in {"dead", "raising"} : pc' = [pc EXCEPT ![w] = l]
        /\ job' = [job EXCEPT ![w] = 0] \/ UNCHANGED job
    BY <1>11 DEF BusFails
  <2>2. rows' \subseteq 1 .. sent /\ hidden' \in [Msgs -> 0 .. VT]
    <3>a. VT \in 0 .. VT /\ 0 \in 0 .. VT
      OBVIOUS
    <3>b. At(w, "reading") \/ job[w] \in Msgs
      BY <1>11, <1>b DEF BusFails, Holding, Handling, Working
    <3>1. CASE UNCHANGED <<rows, hidden>>
      BY <3>1 DEF BusTypeOK
    <3>2. CASE /\ UNCHANGED rows
               /\ At(w, "reading")
               /\ \E m \in Msgs : NextUp(m) /\ hidden' = WithVt(m, VT)
      BY <3>2, <3>a, WithVtType DEF BusTypeOK
    <3>3. CASE /\ UNCHANGED rows
               /\ ~At(w, "reading")
               /\ hidden' = WithVt(job[w], VT) \/ hidden' = WithVt(job[w], 0)
      BY <3>3, <3>a, <3>b, WithVtType DEF BusTypeOK
    <3>4. CASE /\ At(w, "succeeded")
               /\ rows' = rows \ {job[w]}
               /\ hidden' = [hidden EXCEPT ![job[w]] = 0]
      <4>1. rows' \subseteq 1 .. sent
        BY <3>4 DEF BusTypeOK
      <4>2. hidden' \in [Msgs -> 0 .. VT]
        BY <3>4, <3>a DEF BusTypeOK
      <4> QED
        BY <4>1, <4>2
    <3> QED
      BY <1>11, <3>1, <3>2, <3>3, <3>4 DEF BusFails, Unanswered, Handling
  <2>3. BusTypeOK'
    BY <1>11, <2>2 DEF BusFails, BusTypeOK, Msgs
  <2> QED
    BY <1>11, <2>1, <2>3 DEF BusFails
<1>12. CASE BeatWake(w)
  BY <1>12, <1>a DEF BeatWake
<1>13. CASE BeatWrite(w)
  <2>1. job[w] \in Msgs
    BY <1>13, <1>b DEF BeatWrite, BeatOwned, Holding
  <2>2. BusTypeOK'
    <3>1. WithVt(job[w], VT) \in [Msgs -> 0 .. VT]
      BY <2>1, WithVtType
    <3> QED
      BY <1>13, <3>1 DEF BeatWrite, BusTypeOK
  <2> QED
    BY <1>13, <2>2 DEF BeatWrite
<1>14. CASE Cordon(w)
  BY <1>14, <1>a DEF Cordon
<1>15. CASE DrainCall(w)
  BY <1>15, <1>a DEF DrainCall
<1>16. CASE DrainReturn(w)
  BY <1>16, <1>a DEF DrainReturn
<1>17. CASE Crash(w)
  BY <1>17 DEF Crash, BusTypeOK
<1>18. CASE Restart(w)
  BY <1>18, <1>a DEF Restart
<1> QED
  BY <1>1, <1>2, <1>3, <1>4, <1>5, <1>6, <1>7, <1>8, <1>9, <1>10, <1>11, <1>12, <1>13, <1>14, <1>15, <1>16, <1>17, <1>18 DEF Step

LEMMA StepSafeInv == ASSUME NEW w \in Workers, SafeInv, Step(w) PROVE SafeInv'
<1>a. TypeOK'
  BY StepTypeOK
<1> SUFFICES JobKnown' /\ BeatOwned' /\ ReceiptHeld'
  BY <1>a DEF SafeInv
<1> USE DEF SafeInv, TypeOK, BusTypeOK, JobKnown, BeatOwned, ReceiptHeld,
        Holding, Handling, Working, Closing, busVars, flags, beatVars, At, Goto, Finish
<1>1. CASE EnterRunOnce(w)
  BY <1>1 DEF EnterRunOnce
<1>2. CASE ReadTask(w)
  <2> USE <1>2 DEF ReadTask, Read, ReadNone
  <2>1. JobKnown'
    OBVIOUS
  <2>2. BeatOwned'
    OBVIOUS
  <2>3. ReceiptHeld'
    OBVIOUS
  <2> QED
    BY <2>1, <2>2, <2>3
<1>3. CASE Recheck(w)
  <2> USE <1>3 DEF Recheck, Refuse, Nack
  <2>1. JobKnown'
    OBVIOUS
  <2>2. BeatOwned'
    OBVIOUS
  <2>3. ReceiptHeld'
    OBVIOUS
  <2> QED
    BY <2>1, <2>2, <2>3
<1>4. CASE NackUnrun(w)
  BY <1>4 DEF NackUnrun, Nack
<1>5. CASE WorkspaceMissing(w)
  BY <1>5 DEF WorkspaceMissing
<1>6. CASE Claim(w)
  BY <1>6 DEF Claim, Refuse, Nack
<1>7. CASE FirstHeartbeat(w)
  BY <1>7 DEF FirstHeartbeat, Heartbeat
<1>8. CASE RunEnds(w)
  BY <1>8 DEF RunEnds
<1>9. CASE SettleRun(w)
  <2> USE <1>9 DEF SettleRun, Nack, Archive
  <2>1. JobKnown'
    OBVIOUS
  <2>2. BeatOwned'
    OBVIOUS
  <2>3. ReceiptHeld'
    OBVIOUS
  <2> QED
    BY <2>1, <2>2, <2>3
<1>10. CASE CloseRun(w)
  BY <1>10 DEF CloseRun
<1>11. CASE BusFails(w)
  <2> USE <1>11 DEF BusFails
  <2>1. JobKnown'
    OBVIOUS
  <2>2. BeatOwned'
    OBVIOUS
  <2>3. ReceiptHeld'
    OBVIOUS
  <2> QED
    BY <2>1, <2>2, <2>3
<1>12. CASE BeatWake(w)
  BY <1>12 DEF BeatWake
<1>13. CASE BeatWrite(w)
  BY <1>13 DEF BeatWrite
<1>14. CASE Cordon(w)
  BY <1>14 DEF Cordon
<1>15. CASE DrainCall(w)
  BY <1>15 DEF DrainCall
<1>16. CASE DrainReturn(w)
  BY <1>16 DEF DrainReturn
<1>17. CASE Crash(w)
  BY <1>17 DEF Crash
<1>18. CASE Restart(w)
  BY <1>18 DEF Restart
<1> QED
  BY <1>1, <1>2, <1>3, <1>4, <1>5, <1>6, <1>7, <1>8, <1>9, <1>10, <1>11, <1>12, <1>13, <1>14, <1>15, <1>16, <1>17, <1>18 DEF Step

LEMMA LessType == \A n, k \in Nat : n \in 0 .. k => Less(n) \in 0 .. k
BY DEF Less

LEMMA OtherSafeInv ==
  ASSUME SafeInv,
         \/ \E w \in Workers, m \in Msgs : StrayWrite(w, m)
         \/ SendTask \/ Tick \/ UNCHANGED vars
  PROVE  SafeInv'
<1> USE Constants DEF SafeInv, TypeOK, BusTypeOK, JobKnown, BeatOwned, ReceiptHeld
<1>1. ASSUME NEW w \in Workers, NEW m \in Msgs, StrayWrite(w, m) PROVE SafeInv'
  <2>1. hidden' \in [Msgs -> 0 .. VT]
    BY <1>1, WithVtType DEF StrayWrite
  <2> QED
    BY <1>1, <2>1 DEF StrayWrite, flags
<1>2. CASE SendTask
  BY <1>2 DEF SendTask, Send, flags, beatVars
<1>3. CASE Tick
  <2>1. hidden' \in [Msgs -> 0 .. VT]
    BY <1>3, LessType DEF Tick
  <2>2. due' \in [Workers -> 0 .. HB]
    BY <1>3, LessType DEF Tick
  <2> QED
    BY <1>3, <2>1, <2>2 DEF Tick, flags
<1>4. CASE UNCHANGED vars
  BY <1>4 DEF vars, busVars, flags, beatVars, Msgs
<1> QED
  BY <1>1, <1>2, <1>3, <1>4

(* Next is Step of some worker, or one of the four steps that are not. *)
LEMMA NextSplit ==
  ASSUME [Next]_vars
  PROVE  \/ \E w \in Workers : Step(w)
         \/ \E w \in Workers, m \in Msgs : StrayWrite(w, m)
         \/ SendTask \/ Tick \/ UNCHANGED vars
BY DEF Next, Step, RunOnce, Beating, Control

LEMMA NextSafeInv == SafeInv /\ [Next]_vars => SafeInv'
BY NextSplit, StepSafeInv, OtherSafeInv

LEMMA SafeInvHolds == Spec => []SafeInv
BY InitSafeInv, NextSafeInv, PTL DEF Spec

(* Every variable keeps its type, whatever fails or crashes. *)
THEOREM WorkerTypeOK == Spec => []TypeOK
<1>1. SafeInv => TypeOK
  BY DEF SafeInv
<1> QED
  BY <1>1, SafeInvHolds, PTL

(* A worker thread never loses the receipt of the message it holds, so the *)
(* calls of worker.py's run_once on the bus find it.                       *)
THEOREM WorkerReceiptHeld == Spec => []ReceiptHeld
<1>1. SafeInv => ReceiptHeld
  BY DEF SafeInv
<1> QED
  BY <1>1, SafeInvHolds, PTL

-----------------------------------------------------------------------------
(* drain(): what makes DrainedIsIdle inductive is that the flag draining,  *)
(* raised by every caller of drain and never lowered, shuts the only door  *)
(* to busy, the third locked block of run_once.                            *)
DrainInv ==
    \A w \in Workers :
        /\ pc[w] \in Working \union Closing => busy[w]
        /\ drainer[w] # "none" => draining[w]
        /\ drainer[w] = "returned" => stopped[w] /\ ~busy[w]

LEMMA StepDrainInv ==
  ASSUME NEW w \in Workers, TypeOK, DrainInv, Step(w) PROVE DrainInv'
<1> USE DEF TypeOK, DrainInv, Holding, Handling, Working, Closing,
        flags, beatVars, At, Goto, Finish
<1>1. CASE EnterRunOnce(w)
  BY <1>1 DEF EnterRunOnce
<1>2. CASE ReadTask(w)
  BY <1>2 DEF ReadTask
<1>3. CASE Recheck(w)
  BY <1>3 DEF Recheck, Refuse
<1>4. CASE NackUnrun(w)
  BY <1>4 DEF NackUnrun
<1>5. CASE WorkspaceMissing(w)
  BY <1>5 DEF WorkspaceMissing
<1>6. CASE Claim(w)
  BY <1>6 DEF Claim, Refuse
<1>7. CASE FirstHeartbeat(w)
  BY <1>7 DEF FirstHeartbeat
<1>8. CASE RunEnds(w)
  BY <1>8 DEF RunEnds
<1>9. CASE SettleRun(w)
  BY <1>9 DEF SettleRun
<1>10. CASE CloseRun(w)
  BY <1>10 DEF CloseRun
<1>11. CASE BusFails(w)
  BY <1>11 DEF BusFails
<1>12. CASE BeatWake(w)
  BY <1>12 DEF BeatWake
<1>13. CASE BeatWrite(w)
  BY <1>13 DEF BeatWrite
<1>14. CASE Cordon(w)
  BY <1>14 DEF Cordon
<1>15. CASE DrainCall(w)
  BY <1>15 DEF DrainCall
<1>16. CASE DrainReturn(w)
  BY <1>16 DEF DrainReturn
<1>17. CASE Crash(w)
  BY <1>17 DEF Crash
<1>18. CASE Restart(w)
  BY <1>18 DEF Restart
<1> QED
  BY <1>1, <1>2, <1>3, <1>4, <1>5, <1>6, <1>7, <1>8, <1>9, <1>10, <1>11, <1>12, <1>13, <1>14, <1>15, <1>16, <1>17, <1>18 DEF Step

LEMMA NextDrainInv == TypeOK /\ DrainInv /\ [Next]_vars => DrainInv'
<1> SUFFICES ASSUME TypeOK, DrainInv,
                    \/ \E w \in Workers, m \in Msgs : StrayWrite(w, m)
                    \/ SendTask \/ Tick \/ UNCHANGED vars
             PROVE  DrainInv'
  BY NextSplit, StepDrainInv
<1> QED
  BY DEF DrainInv, StrayWrite, SendTask, Tick, vars, flags

(* When drain() has returned the worker is stopped and idle, and stays so: *)
(* for every interleaving of drain with run_once, every crash and every    *)
(* failing bus call.                                                       *)
THEOREM WorkerDrainedIsIdle == Spec => []DrainedIsIdle
<1>1. Init => DrainInv
  BY DEF Init, DrainInv, Working, Closing
<1>2. DrainInv => DrainedIsIdle
  BY DEF DrainInv, DrainedIsIdle
<1> QED
  BY <1>1, <1>2, NextDrainInv, WorkerTypeOK, PTL DEF Spec

-----------------------------------------------------------------------------
(* A lease: while threads are timely and the bus is up, the message a      *)
(* worker holds stays in the queue and stays hidden, because the next      *)
(* heartbeat is due before the visibility timeout ends; so no other worker *)
(* can read it.                                                            *)
Lease(w) == /\ job[w] \in rows
            /\ hidden[job[w]] > 0
            /\ pc[w] = "running" =>
                  /\ beat[w] \in {"sleep", "found"}
                  /\ beat[w] = "sleep" => hidden[job[w]] > due[w]

LeaseInv == /\ \A w \in Workers : pc[w] \in Holding => Lease(w)
            /\ \A v, w \in Workers :
                  pc[v] \in Holding /\ pc[w] \in Holding /\ job[v] = job[w] => v = w

LEMMA StepLeaseInv ==
  ASSUME ~Faulty, SafeInv, LeaseInv, NEW w \in Workers, Step(w)
  PROVE  LeaseInv'
<1> USE Constants
    DEF SafeInv, TypeOK, BusTypeOK, JobKnown, BeatOwned, ReceiptHeld, LeaseInv, Lease,
        Holding, Handling, Working, Closing, busVars, flags, beatVars, At, Goto, Finish, WithVt
<1>1. CASE EnterRunOnce(w)
  BY <1>1 DEF EnterRunOnce
<1>2. CASE ReadTask(w)
  <2>1. ASSUME NEW m \in Msgs, Read(w, m), job' = [job EXCEPT ![w] = m], Goto(w, "got"),
               UNCHANGED <<flags, drainer, beatVars>>
        PROVE  LeaseInv'
    <3>1. m \in rows /\ hidden[m] = 0
      BY <2>1 DEF Read, NextUp, Visible
    <3>2. \A v \in Workers : pc[v] \in Holding => job[v] # m /\ Lease(v)
      BY <3>1
    <3>3. rows' = rows /\ hidden' = [hidden EXCEPT ![m] = VT]
      BY <2>1 DEF Read
    <3>4. \A v \in Workers \ {w} :
            pc'[v] = pc[v] /\ job'[v] = job[v] /\ beat'[v] = beat[v] /\ due'[v] = due[v]
      BY <2>1
    <3>5. pc'[w] = "got" /\ job'[w] = m
      BY <2>1
    <3>6. Lease(w)'
      BY <3>1, <3>3, <3>5
    <3>7. ASSUME NEW v \in Workers \ {w}, pc'[v] \in Holding PROVE Lease(v)' /\ job'[v] # m
      BY <3>2, <3>3, <3>4, <3>7
    <3> QED
      BY <3>4, <3>5, <3>6, <3>7
  <2>2. CASE ReadNone /\ Finish(w, "top") /\ UNCHANGED <<flags, drainer, beatVars>>
    BY <2>2 DEF ReadNone
  <2> QED
    BY <1>2, <2>1, <2>2 DEF ReadTask
<1>3. CASE Recheck(w)
  BY <1>3 DEF Recheck, Refuse, Nack
<1>4. CASE NackUnrun(w)
  BY <1>4 DEF NackUnrun, Nack
<1>5. CASE WorkspaceMissing(w)
  BY <1>5 DEF WorkspaceMissing
<1>6. CASE Claim(w)
  BY <1>6 DEF Claim, Refuse, Nack
<1>7. CASE FirstHeartbeat(w)
  BY <1>7 DEF FirstHeartbeat, Heartbeat
<1>8. CASE RunEnds(w)
  BY <1>8 DEF RunEnds
<1>9. CASE SettleRun(w)
  BY <1>9 DEF SettleRun, Nack, Archive
<1>10. CASE CloseRun(w)
  BY <1>10 DEF CloseRun
<1>11. CASE BusFails(w)
  BY <1>11 DEF BusFails
<1>12. CASE BeatWake(w)
  BY <1>12 DEF BeatWake
<1>13. CASE BeatWrite(w)
  BY <1>13 DEF BeatWrite
<1>14. CASE Cordon(w)
  BY <1>14 DEF Cordon
<1>15. CASE DrainCall(w)
  BY <1>15 DEF DrainCall
<1>16. CASE DrainReturn(w)
  BY <1>16 DEF DrainReturn
<1>17. CASE Crash(w)
  BY <1>17 DEF Crash
<1>18. CASE Restart(w)
  BY <1>18 DEF Restart
<1> QED
  BY <1>1, <1>2, <1>3, <1>4, <1>5, <1>6, <1>7, <1>8, <1>9, <1>10, <1>11, <1>12, <1>13, <1>14, <1>15, <1>16, <1>17, <1>18 DEF Step

LEMMA OtherLeaseInv ==
  ASSUME Timely, SafeInv, LeaseInv,
         \/ \E w \in Workers, m \in Msgs : StrayWrite(w, m)
         \/ SendTask \/ Tick \/ UNCHANGED vars
  PROVE  LeaseInv'
<1> USE Constants
    DEF SafeInv, TypeOK, BusTypeOK, JobKnown, LeaseInv, Lease
<1>1. ASSUME NEW w \in Workers, NEW m \in Msgs, StrayWrite(w, m) PROVE LeaseInv'
  BY <1>1 DEF StrayWrite, WithVt, flags
<1>2. CASE SendTask
  BY <1>2 DEF SendTask, Send, flags, beatVars
<1>3. CASE Tick
  <2>1. \A w \in Workers : pc[w] \in Holding => pc[w] = "running" /\ Prompt(w)
    BY <1>3 DEF Tick, Prompt
  <2>2. ASSUME NEW w \in Workers, pc[w] \in Holding PROVE Lease(w)'
    <3>1. /\ job[w] \in rows /\ job[w] \in Msgs
          /\ beat[w] = "sleep" /\ due[w] > 0 /\ hidden[job[w]] > due[w]
      <4>1. pc[w] = "running" /\ Prompt(w)
        BY <2>1, <2>2
      <4>2. job[w] \in Msgs
        BY <2>2
      <4>3. beat[w] \in {"sleep", "found"} /\ job[w] \in rows
            /\ (beat[w] = "sleep" => hidden[job[w]] > due[w])
        BY <2>2, <4>1
      <4> QED
        BY <4>1, <4>2, <4>3 DEF Prompt, At
    <3>2. /\ hidden'[job[w]] = hidden[job[w]] - 1
          /\ due'[w] = due[w] - 1
      BY <1>3, <3>1 DEF Tick, Less
    <3>3. UNCHANGED <<rows, job, pc, beat>>
      BY <1>3 DEF Tick
    <3>4. hidden[job[w]] \in Nat /\ due[w] \in Nat
      BY <3>1
    <3> QED
      BY <3>1, <3>2, <3>3, <3>4
  <2> QED
    BY <1>3, <2>2 DEF Tick
<1>4. CASE UNCHANGED vars
  BY <1>4 DEF vars, busVars, flags, beatVars
<1> QED
  BY <1>1, <1>2, <1>3, <1>4

(* With timely threads and a bus that is up, no two workers ever run the   *)
(* same task at once, however many workers crash and restart, provided the *)
(* heartbeat interval is shorter than the visibility timeout.              *)
THEOREM WorkerOneRunner == ASSUME Timely, ~Faulty PROVE Spec => []OneRunner
<1>1. Init => LeaseInv
  BY DEF Init, LeaseInv, Holding, Handling, Working
<1>2. SafeInv /\ LeaseInv /\ [Next]_vars => LeaseInv'
  BY NextSplit, StepLeaseInv, OtherLeaseInv
<1>3. LeaseInv => OneRunner
  BY DEF LeaseInv, OneRunner, Holding
<1> QED
  BY <1>1, <1>2, <1>3, SafeInvHolds, PTL DEF Spec

-----------------------------------------------------------------------------
(* The worker processes implement TaskQueue.  What the mapping needs beside *)
(* the leases: whoever holds a message holds one that was sent.             *)
JobSent == \A w \in Workers : pc[w] \in Holding \union Closing => job[w] \in 1 .. sent

LEMMA NextJobSent == SafeInv /\ JobSent /\ [Next]_vars => JobSent'
<1> SUFFICES ASSUME SafeInv, JobSent, [Next]_vars PROVE JobSent'
  OBVIOUS
<1> USE Constants DEF SafeInv, TypeOK, BusTypeOK, JobSent, Holding, Handling, Working, Closing,
        busVars, flags, beatVars, At, Goto, Finish
<1>1. ASSUME NEW w \in Workers, Step(w) PROVE JobSent'
  <2>1. UNCHANGED sent
    BY <1>1 DEF Step, EnterRunOnce, ReadTask, Read, ReadNone, Recheck, Refuse, NackUnrun, Nack,
                WorkspaceMissing, Claim, FirstHeartbeat, Heartbeat, RunEnds, SettleRun, Archive,
                CloseRun, BusFails, BeatWake, BeatWrite, Cordon, DrainCall, DrainReturn, Crash,
                Restart
  <2>2. \A v \in Workers \ {w} : pc'[v] = pc[v] /\ job'[v] = job[v]
    BY <1>1 DEF Step, EnterRunOnce, ReadTask, Recheck, Refuse, NackUnrun, WorkspaceMissing, Claim,
                FirstHeartbeat, RunEnds, SettleRun, CloseRun, BusFails, BeatWake, BeatWrite, Cordon,
                DrainCall, DrainReturn, Crash, Restart
  <2>3. ASSUME pc'[w] \in Holding \union Closing, job'[w] # job[w] PROVE job'[w] \in rows
    BY <1>1, <2>3 DEF Step, EnterRunOnce, ReadTask, Read, NextUp, Visible, ReadNone, Recheck, Refuse,
                NackUnrun, WorkspaceMissing, Claim, FirstHeartbeat, RunEnds, SettleRun, CloseRun,
                BusFails, BeatWake, BeatWrite, Cordon, DrainCall, DrainReturn, Crash, Restart
  <2>4. ASSUME pc'[w] \in Holding \union Closing, job'[w] = job[w]
        PROVE  pc[w] \in Holding \union Closing \/ job'[w] \in rows
    BY <1>1, <2>4 DEF Step, EnterRunOnce, ReadTask, Read, NextUp, Visible, ReadNone, Recheck, Refuse,
                NackUnrun, WorkspaceMissing, Claim, FirstHeartbeat, RunEnds, SettleRun, CloseRun,
                BusFails, BeatWake, BeatWrite, Cordon, DrainCall, DrainReturn, Crash, Restart
  <2> QED
    BY <2>1, <2>2, <2>3, <2>4
<1>2. CASE SendTask
  BY <1>2 DEF SendTask, Send
<1>3. CASE \/ \E w \in Workers, m \in Msgs : StrayWrite(w, m)
           \/ Tick \/ UNCHANGED vars
  BY <1>3 DEF StrayWrite, Tick, vars
<1> QED
  BY <1>1, <1>2, <1>3, NextSplit

(* How a step of one worker shows in Runs. *)
Running(w) == pc[w] \in {"running", "succeeded"}
Bystanders(w) == \A v \in Workers \ {w} : pc'[v] = pc[v] /\ job'[v] = job[v]

LEMMA RunsSame ==
  ASSUME NEW w \in Workers, Bystanders(w), Running(w) <=> Running(w)', Running(w) => job'[w] = job[w]
  PROVE  Runs' = Runs
BY DEF Bystanders, Running, Runs

LEMMA RunsGain ==
  ASSUME NEW w \in Workers, Bystanders(w), ~Running(w), Running(w)', job'[w] = job[w], job[w] \in Msgs
  PROVE  Runs' = Runs \union {<<w, job[w]>>} /\ \A m \in Msgs : <<w, m>> \notin Runs
BY DEF Bystanders, Running, Runs

LEMMA RunsLose ==
  ASSUME NEW w \in Workers, Bystanders(w), Running(w), ~Running(w)', job[w] \in Msgs
  PROVE  Runs' = Runs \ {<<w, job[w]>>} /\ <<w, job[w]>> \in Runs
BY DEF Bystanders, Running, Runs

(* What DeliversTasks rests on: the leases, when there are leases to trust. *)
DeliverInv == SafeInv /\ JobSent /\ (Timely /\ ~Faulty => LeaseInv)

LEMMA DeliverInvHolds == Spec => []DeliverInv
<1>1. Init => DeliverInv
  BY InitSafeInv DEF Init, DeliverInv, JobSent, LeaseInv, Holding, Handling, Working, Closing
<1>2. DeliverInv /\ [Next]_vars => DeliverInv'
  <2>1. SafeInv /\ LeaseInv /\ [Next]_vars /\ Timely /\ ~Faulty => LeaseInv'
    BY NextSplit, StepLeaseInv, OtherLeaseInv
  <2> QED
    BY <2>1, NextSafeInv, NextJobSent DEF DeliverInv
<1> QED
  BY <1>1, <1>2, PTL DEF Spec

LEMMA StepDelivers ==
  ASSUME DeliverInv, NEW w \in Workers, Step(w) PROVE [Delivery!Next]_Delivery!vars
<1> USE DEF DeliverInv, At, Goto, Finish
<1>a. SafeInv /\ TypeOK /\ BusTypeOK /\ Workers # {}
  BY DEF SafeInv, TypeOK
<1>b. ASSUME UNCHANGED <<sent, rows>>, Runs' = Runs PROVE [Delivery!Next]_Delivery!vars
  BY <1>b DEF Delivery!vars
<1>c. ASSUME UNCHANGED <<sent, rows>>, Running(w), ~Running(w)', Bystanders(w)
      PROVE  [Delivery!Next]_Delivery!vars
  <2>1. job[w] \in Msgs
    BY <1>a, <1>c DEF SafeInv, JobKnown, Running, Holding, Working
  <2>2. Delivery!GiveUp(w, job[w])
    BY <1>c, <2>1, RunsLose DEF Delivery!GiveUp
  <2> QED
    BY <2>1, <2>2 DEF Delivery!Next
<1>d. ASSUME pc[w] = "succeeded", rows' = rows \ {job[w]}, UNCHANGED sent, ~Running(w)', Bystanders(w)
      PROVE  [Delivery!Next]_Delivery!vars
  <2>1. job[w] \in Msgs /\ job[w] \in 1 .. sent /\ Running(w)
    BY <1>a, <1>d DEF SafeInv, JobKnown, JobSent, Running, Holding, Working
  <2>2. Runs' = Runs \ {<<w, job[w]>>} /\ <<w, job[w]>> \in Runs
    BY <1>d, <2>1, RunsLose
  <2>3. (1 .. sent') \ rows' = ((1 .. sent) \ rows) \union {job[w]}
    BY <1>d, <2>1
  <2>4. Delivery!Complete(w, job[w])
    BY <1>d, <2>2, <2>3 DEF Delivery!Complete
  <2> QED
    BY <2>1, <2>4 DEF Delivery!Next
<1>1. CASE /\ pc' = pc /\ job' = job /\ UNCHANGED <<sent, rows>>
  <2>1. Runs' = Runs
    BY <1>1 DEF Runs
  <2> QED
    BY <1>1, <1>b, <2>1
<1>2. CASE FirstHeartbeat(w)
  <2>1. job[w] \in Msgs /\ job[w] \in 1 .. sent
    BY <1>2, <1>a DEF SafeInv, JobKnown, JobSent, FirstHeartbeat, Holding, Working
  <2>2. Bystanders(w) /\ ~Running(w) /\ Running(w)' /\ job'[w] = job[w] /\ UNCHANGED <<sent, rows>>
    BY <1>2, <1>a DEF FirstHeartbeat, Heartbeat, Bystanders, Running, TypeOK
  <2>3. Runs' = Runs \union {<<w, job[w]>>} /\ \A m \in Msgs : <<w, m>> \notin Runs
    BY <2>1, <2>2, RunsGain
  <2>4. ASSUME Timely, ~Faulty
        PROVE  job[w] \in rows /\ \A v \in Workers : <<v, job[w]>> \notin Runs
    <3>1. pc[w] \in Holding /\ pc[w] \notin {"running", "succeeded"}
      BY <1>2 DEF FirstHeartbeat, Holding, Working
    <3>2. job[w] \in rows /\ \A v \in Workers : pc[v] \in Holding /\ job[v] = job[w] => v = w
      BY <2>4, <3>1 DEF LeaseInv, Lease
    <3> QED
      BY <3>1, <3>2 DEF Runs, Holding, Working
  <2>5. Delivery!Begin(w, job[w])
    BY <2>1, <2>2, <2>3, <2>4 DEF Delivery!Begin
  <2> QED
    BY <2>1, <2>5 DEF Delivery!Next
<1>3. CASE RunEnds(w)
  <2>1. Bystanders(w) /\ Running(w) /\ job' = job /\ UNCHANGED <<sent, rows>>
    BY <1>3, <1>a DEF RunEnds, Bystanders, Running, TypeOK, busVars
  <2> QED
    BY <2>1, <1>b, <1>c, RunsSame
<1>4. CASE SettleRun(w)
  <2>1. Bystanders(w) /\ ~Running(w)' /\ UNCHANGED sent
    BY <1>4, <1>a DEF SettleRun, Archive, Nack, Bystanders, Running, TypeOK
  <2>2. CASE At(w, "succeeded")
    BY <1>4, <1>d, <2>1, <2>2 DEF SettleRun, Archive
  <2>3. CASE At(w, "failed")
    BY <1>4, <1>b, <2>1, <2>3, RunsSame DEF SettleRun, Nack, Running
  <2> QED
    BY <1>4, <2>2, <2>3 DEF SettleRun
<1>5. CASE BusFails(w)
  <2>1. Bystanders(w) /\ ~Running(w)' /\ UNCHANGED sent
    BY <1>5, <1>a DEF BusFails, Bystanders, Running, TypeOK
  <2>2. UNCHANGED rows \/ (pc[w] = "succeeded" /\ rows' = rows \ {job[w]})
    BY <1>5 DEF BusFails, Unanswered
  <2>3. CASE Running(w)
    BY <1>c, <1>d, <2>1, <2>2, <2>3
  <2>4. CASE ~Running(w)
    BY <1>b, <2>1, <2>2, <2>4, RunsSame DEF Running
  <2> QED
    BY <2>3, <2>4
<1>6. CASE Crash(w)
  <2>1. Bystanders(w) /\ ~Running(w)' /\ UNCHANGED <<sent, rows>>
    BY <1>6, <1>a DEF Crash, Bystanders, Running, TypeOK
  <2> QED
    BY <1>b, <1>c, <2>1, RunsSame
<1>7. CASE \/ EnterRunOnce(w) \/ ReadTask(w) \/ Recheck(w) \/ NackUnrun(w)
           \/ WorkspaceMissing(w) \/ Claim(w) \/ CloseRun(w) \/ Restart(w)
  <2>1. Bystanders(w) /\ ~Running(w) /\ ~Running(w)'
    BY <1>7, <1>a DEF EnterRunOnce, ReadTask, Recheck, Refuse, NackUnrun, WorkspaceMissing, Claim,
                      CloseRun, Restart, Bystanders, Running, Closing, TypeOK
  <2>2. UNCHANGED <<sent, rows>>
    BY <1>7 DEF EnterRunOnce, ReadTask, Read, ReadNone, Recheck, Refuse, NackUnrun, Nack,
                WorkspaceMissing, Claim, CloseRun, Restart, busVars
  <2> QED
    BY <1>b, <2>1, <2>2, RunsSame
<1>8. CASE \/ BeatWake(w) \/ BeatWrite(w) \/ Cordon(w) \/ DrainCall(w) \/ DrainReturn(w)
  BY <1>1, <1>8 DEF BeatWake, BeatWrite, Cordon, DrainCall, DrainReturn, busVars
<1> QED
  BY <1>2, <1>3, <1>4, <1>5, <1>6, <1>7, <1>8 DEF Step

(* A task leaves the queue only through a run that returned 0, whatever     *)
(* fails; and with timely threads and a bus that is up its runs neither     *)
(* overlap nor begin after one succeeded: worker.py's run_once implements   *)
(* the promise of q.tasks, for any number of workers and messages.          *)
THEOREM WorkerDeliversTasks == Spec => DeliversTasks
<1>1. Init => Delivery!Init
  BY DEF Init, BusInit, Delivery!Init, Runs
<1>2. DeliverInv /\ [Next]_vars => [Delivery!Next]_Delivery!vars
  <2> SUFFICES ASSUME DeliverInv,
                      \/ \E w \in Workers, m \in Msgs : StrayWrite(w, m)
                      \/ SendTask \/ Tick \/ UNCHANGED vars
               PROVE  [Delivery!Next]_Delivery!vars
    BY NextSplit, StepDelivers
  <2>1. CASE SendTask
    <3>1. sent \in 0 .. NumMsgs /\ rows \subseteq 1 .. sent
      BY DEF DeliverInv, SafeInv, TypeOK, BusTypeOK
    <3>2. /\ sent + 1 \in Msgs /\ sent' = sent + 1 /\ rows' = rows \union {sent + 1}
          /\ pc' = pc /\ job' = job
      BY <2>1, <3>1, Constants DEF SendTask, Send, Msgs
    <3>3. sent + 1 \notin 1 .. sent /\ 1 .. sent' = (1 .. sent) \union {sent + 1}
      BY <3>1, <3>2
    <3>4. (1 .. sent') \ rows' = (1 .. sent) \ rows
      BY <3>1, <3>2, <3>3
    <3>5. Runs' = Runs
      BY <3>2 DEF Runs
    <3>6. Delivery!Submit(sent + 1)
      BY <3>3, <3>4, <3>5 DEF Delivery!Submit
    <3> QED
      BY <3>2, <3>6 DEF Delivery!Next
  <2>2. CASE ~SendTask
    <3>1. UNCHANGED <<sent, rows, pc, job>>
      BY <2>2 DEF StrayWrite, Tick, vars, busVars
    <3> QED
      BY <3>1 DEF Delivery!vars, Runs
  <2> QED
    BY <2>1, <2>2
<1> QED
  BY <1>1, <1>2, DeliverInvHolds, PTL DEF Spec, DeliversTasks, Delivery!Spec
=============================================================================
