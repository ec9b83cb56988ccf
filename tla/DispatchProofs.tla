---------------------------- MODULE DispatchProofs ----------------------------
(***************************************************************************)
(* Dispatch's invariants, for any number of calls, runs and tasks.         *)
(***************************************************************************)
EXTENDS Dispatch, TLAPS

(* What the file of a dispatch call holds at each point of the call, and   *)
(* that a call whose message is out is over.                               *)
OwnFile ==
    /\ \A c \in Records :
          /\ pc[c] \in {"resolve", "probe", "build", "scan", "write"} => file[c] = "absent"
          /\ At(c, "send") => file[c] = "running"
          /\ pc[c] \in {"live", "rewrite"} => c \in Runs
          /\ pc[c] \in {"resolve", "probe", "send"} => c \in Calls
    /\ \A c \in Calls : file[c] \in {"absent", "torn", "running"}
    /\ \A c \in queue : pc[c] \in Ended /\ file[c] = "running"

(* A record that must refuse a start goes on refusing it, and the start    *)
(* has still to read it, or is over.                                       *)
StillRefused ==
    \A r \in Records : \A q \in earlier[r] :
        /\ q # r
        /\ Blocks(q, r) \/ (Torn(q) /\ At(q, "dead"))
        /\ pc[r] \in {"scan", "raised", "dead"}
        /\ At(r, "scan") => q \in todo[r]

Inv == TypeOK /\ OwnFile /\ StillRefused /\ LaterStartRefused

LEMMA PCValues ==
  \A l \in {"returned", "raised", "dead", "resolve", "probe", "build", "scan", "write",
            "fill", "send", "live", "rewrite"} : l \in PC
BY DEF PC, Ended

-----------------------------------------------------------------------------
LEMMA InitInv == Init => Inv
<1> SUFFICES ASSUME Init PROVE Inv
  OBVIOUS
<1> USE DispatchAssumption DEF Init, StoreInit
<1>1. TypeOK
  BY PCValues DEF TypeOK, StoreTypeOK
<1>2. OwnFile /\ StillRefused /\ LaterStartRefused
  BY DEF OwnFile, StillRefused, LaterStartRefused, At
<1> QED
  BY <1>1, <1>2 DEF Inv

LEMMA StepTypeOK == ASSUME Inv, NEW r \in Records, Step(r) \/ Die(r) PROVE TypeOK'
<1> USE DispatchAssumption, PCValues
    DEF Inv, TypeOK, StoreTypeOK, At, Goto, storeVars
<1>1. CASE Resolve(r)
  BY <1>1 DEF Resolve, AuditDenied
<1>2. CASE Probe(r)
  BY <1>2 DEF Probe, OwnFile, AuditDenied
<1>3. CASE Begin(r)
  BY <1>3 DEF Begin, ListFiles, Present, MustRefuse
<1>4. CASE Scan(r)
  BY <1>4 DEF Scan, PassFile, RefuseStart
<1>5. CASE Write(r)
  BY <1>5 DEF Write, Truncate, Fill, Statuses
<1>6. CASE Send(r)
  BY <1>6 DEF Send, OwnFile, AuditDenied
<1>7. CASE Finish(r)
  BY <1>7 DEF Finish, Truncate, Fill, Statuses
<1>8. CASE Die(r)
  BY <1>8 DEF Die
<1> QED
  BY <1>1, <1>2, <1>3, <1>4, <1>5, <1>6, <1>7, <1>8 DEF Step

LEMMA StepOwnFile == ASSUME Inv, NEW r \in Records, Step(r) \/ Die(r) PROVE OwnFile'
<1> USE DispatchAssumption
    DEF Inv, TypeOK, StoreTypeOK, At, Goto, storeVars, OwnFile, Ended
<1>1. CASE Resolve(r)
  BY <1>1 DEF Resolve
<1>2. CASE Probe(r)
  BY <1>2 DEF Probe
<1>3. CASE Begin(r)
  BY <1>3 DEF Begin, ListFiles
<1>4. CASE Scan(r)
  BY <1>4 DEF Scan, PassFile, RefuseStart
<1>5. CASE Write(r)
  BY <1>5 DEF Write, Truncate, Fill
<1>6. CASE Send(r)
  BY <1>6 DEF Send
<1>7. CASE Finish(r)
  BY <1>7 DEF Finish, Truncate, Fill
<1>8. CASE Die(r)
  BY <1>8 DEF Die
<1> QED
  BY <1>1, <1>2, <1>3, <1>4, <1>5, <1>6, <1>7, <1>8 DEF Step

(* A call's record is running for good once it is complete, and only the   *)
(* record's own run may refuse a start by its task id.                     *)
LEMMA StepStillRefused ==
  ASSUME Inv, NEW r \in Records, Step(r) \/ Die(r) PROVE StillRefused'
<1> USE DispatchAssumption
    DEF Inv, TypeOK, StoreTypeOK, At, Goto, storeVars, StillRefused, Blocks, Torn, StartBlocked
<1>1. CASE Resolve(r)
  BY <1>1 DEF Resolve
<1>2. CASE Probe(r)
  BY <1>2 DEF Probe
<1>3. CASE Begin(r)
  <2>1. \A q \in MustRefuse(r) : q # r /\ q \in Present
    BY <1>3 DEF Begin, MustRefuse, Present, OwnFile
  <2>2. UNCHANGED file /\ \A x \in Records : x # r => pc'[x] = pc[x]
    BY <1>3 DEF Begin, ListFiles
  <2>3. ASSUME NEW x \in Records, NEW q \in earlier'[x], x # r
        PROVE  /\ q # x /\ pc'[x] \in {"scan", "raised", "dead"}
               /\ Blocks(q, x)' \/ (Torn(q)' /\ At(q, "dead")')
               /\ At(x, "scan")' => q \in todo'[x]
    BY <1>3, <2>2, <2>3 DEF Begin, ListFiles
  <2>4. ASSUME NEW q \in earlier'[r]
        PROVE  /\ q # r /\ pc'[r] \in {"scan", "raised", "dead"}
               /\ Blocks(q, r)' \/ (Torn(q)' /\ At(q, "dead")')
               /\ At(r, "scan")' => q \in todo'[r]
    BY <1>3, <2>1, <2>2, <2>4 DEF Begin, ListFiles, MustRefuse, Present
  <2> QED
    BY <2>3, <2>4
<1>4. CASE Scan(r)
  BY <1>4 DEF Scan, PassFile, RefuseStart, Ended
<1>5. CASE Write(r)
  BY <1>5 DEF Write, Truncate, Fill, OwnFile
<1>6. CASE Send(r)
  BY <1>6 DEF Send
<1>7. CASE Finish(r)
  BY <1>7 DEF Finish, Truncate, Fill, OwnFile
<1>8. CASE Die(r)
  BY <1>8 DEF Die, Ended
<1> QED
  BY <1>1, <1>2, <1>3, <1>4, <1>5, <1>6, <1>7, <1>8 DEF Step

LEMMA StepLaterStartRefused ==
  ASSUME Inv, NEW r \in Records, Step(r) \/ Die(r) PROVE LaterStartRefused'
<1> USE DispatchAssumption DEF Inv, LaterStartRefused, TypeOK, StoreTypeOK, At, Goto, storeVars
<1>1. CASE Begin(r)
  BY <1>1 DEF Begin, ListFiles, OwnFile, Ended
<1>2. CASE Send(r)
  <2>1. earlier[r] = {}
    BY <1>2 DEF Send, StillRefused
  <2> QED
    BY <1>2, <2>1 DEF Send
<1>3. CASE ~Begin(r) /\ ~Send(r)
  BY <1>3 DEF Step, Resolve, Probe, Scan, PassFile, RefuseStart, Write, Finish, Die,
              Truncate, Fill
<1> QED
  BY <1>1, <1>2, <1>3

-----------------------------------------------------------------------------
LEMMA NextInv == Inv /\ [Next]_vars => Inv'
<1> SUFFICES ASSUME Inv, [Next]_vars PROVE Inv'
  OBVIOUS
<1>1. CASE \E r \in Records : Step(r) \/ Die(r)
  <2>1. PICK r \in Records : Step(r) \/ Die(r)
    BY <1>1
  <2> QED
    BY <2>1, StepTypeOK, StepOwnFile, StepStillRefused, StepLaterStartRefused DEF Inv
<1>2. CASE BusFlips \/ UNCHANGED vars
  BY <1>2, ZenonT(60) DEF BusFlips, vars, storeVars, Inv, TypeOK, StoreTypeOK, OwnFile, StillRefused,
              LaterStartRefused, Blocks, Torn, At
<1> QED
  BY <1>1, <1>2 DEF Next

LEMMA Invariance == Spec => []Inv
<1> QED
  BY InitInv, NextInv, PTL DEF Spec

(* Type correctness of dispatch and the session store. *)
THEOREM DispatchTypeOK == Spec => []TypeOK
<1>1. Inv => TypeOK
  BY DEF Inv
<1> QED
  BY <1>1, Invariance, PTL

(* bus.send comes after a complete record, which nobody takes back. *)
THEOREM DispatchQueuedIsRecorded == Spec => []QueuedIsRecorded
<1>1. Inv => QueuedIsRecorded
  BY DEF Inv, OwnFile, QueuedIsRecorded
<1> QED
  BY <1>1, Invariance, PTL

(* SessionStore.start refuses a start that comes after a record of the     *)
(* task, whoever writes in the directory while it reads.                   *)
THEOREM DispatchLaterStartRefused == Spec => []LaterStartRefused
<1>1. Inv => LaterStartRefused
  BY DEF Inv
<1> QED
  BY <1>1, Invariance, PTL

-----------------------------------------------------------------------------
(* What the caller of dispatch is told: ToldTheTruth is inductive beside    *)
(* OwnFile, since a call raises with a complete record in Send alone, and   *)
(* the file of a call that raised before is not there.                      *)
LEMMA StepToldTheTruth ==
  ASSUME Inv, ToldTheTruth, NEW r \in Records, Step(r) \/ Die(r) PROVE ToldTheTruth'
<1> USE DispatchAssumption DEF Inv, TypeOK, StoreTypeOK, ToldTheTruth, At, Goto, storeVars
<1>1. CASE Resolve(r)
  BY <1>1 DEF Resolve, OwnFile, Ended, AuditDenied
<1>2. CASE Probe(r)
  BY <1>2 DEF Probe, OwnFile, Ended, AuditDenied
<1>3. CASE Begin(r)
  BY <1>3 DEF Begin, ListFiles, OwnFile, Ended
<1>4. CASE Scan(r)
  BY <1>4 DEF Scan, PassFile, RefuseStart, OwnFile, Ended
<1>5. CASE Write(r)
  BY <1>5 DEF Write, Truncate, Fill, OwnFile, Ended
<1>6. CASE Send(r)
  BY <1>6 DEF Send, OwnFile, AuditDenied
<1>7. CASE Finish(r)
  BY <1>7 DEF Finish, Truncate, Fill, OwnFile
<1>8. CASE Die(r)
  BY <1>8 DEF Die, OwnFile
<1> QED
  BY <1>1, <1>2, <1>3, <1>4, <1>5, <1>6, <1>7, <1>8 DEF Step

(* dispatch returns only when its message is on the bus, and when it raised *)
(* with its record complete, the audit log says so or could not be written. *)
THEOREM DispatchToldTheTruth == Spec => []ToldTheTruth
<1>1. Init => ToldTheTruth
  BY DispatchAssumption DEF Init, ToldTheTruth, At
<1>2. Inv /\ ToldTheTruth /\ [Next]_vars => ToldTheTruth'
  <2>1. ASSUME ToldTheTruth, BusFlips \/ UNCHANGED vars PROVE ToldTheTruth'
    BY <2>1 DEF ToldTheTruth, BusFlips, vars, storeVars, At
  <2> QED
    BY <2>1, StepToldTheTruth DEF Next
<1> QED
  BY <1>1, <1>2, Invariance, PTL DEF Spec
=============================================================================
