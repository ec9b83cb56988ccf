--------------------------- MODULE HumanQueueProofs ---------------------------
(***************************************************************************)
(* What holds of HumanQueue for any number of requests and callers, any    *)
(* windows and any movement of the clock.                                  *)
(***************************************************************************)
EXTENDS HumanQueue, TLAPS

Action(p) == Begin(p) \/ Enqueue(p) \/ Load(p) \/ Check(p) \/ Write(p) \/ Audit(p) \/ Die(p)

(* The default call is a call. *)
LEMMA NothingIsCall == Nothing \in CallType
  BY HumanQueueAssumption DEF Nothing, CallType, Decisions

(* Each action of a caller keeps the types. *)
LEMMA TypeStep == ASSUME TypeOK, NEW p \in Callers, Action(p) PROVE TypeOK'
<1> USE NothingIsCall DEF TypeOK, history
<1>0. call[p] \in CallType /\ Req(p) \in Requests /\ call[p].status \in Decisions
  BY DEF CallType, Req
<1>1. CASE Begin(p)
  BY <1>1 DEF Begin, Goto
<1>2. CASE Enqueue(p)
  <2>1. [call EXCEPT ![p].method = "wait"] \in [Callers -> CallType]
    BY DEF CallType
  <2> QED BY <1>0, <1>2, <2>1 DEF Enqueue, Goto, SetFile
<1>3. CASE Load(p)
  <2>1. CASE file[Req(p)] \in {"absent", "torn"} /\ End(p) /\ UNCHANGED <<told, raced>>
    BY <1>0, <1>3, <2>1 DEF Load, End, Goto
  <2>2. CASE file[Req(p)] \in Decisions /\ Tell(p, file[Req(p)]) /\ UNCHANGED raced
    BY <1>0, <1>3, <2>2 DEF Load, Tell, End, Goto
  <2>3. CASE file[Req(p)] = "pending" /\ Hold(p)
    BY <1>0, <1>3, <2>3 DEF Load, Hold, Goto
  <2> QED BY <1>3, <2>1, <2>2, <2>3 DEF Load
<1>4. CASE Check(p)
  <2>1. [call EXCEPT ![p].status = IF Expired(Req(p)) THEN "deny" ELSE @] \in [Callers -> CallType]
    BY DEF CallType, Decisions
  <2> QED BY <1>0, <1>4, <2>1 DEF Check, End, Goto
<1>5. CASE Write(p)
  BY <1>0, <1>5 DEF Write, SetFile, Goto
<1>6. CASE Audit(p)
  BY <1>0, <1>6 DEF Audit, Tell, End, Goto
<1>7. CASE Die(p)
  BY <1>0, <1>7 DEF Die, End, Goto
<1> QED BY <1>1, <1>2, <1>3, <1>4, <1>5, <1>6, <1>7 DEF Action

(* So do the clock and a step of nobody. *)
LEMMA TypeOther == ASSUME TypeOK, ClockMoves \/ UNCHANGED vars PROVE TypeOK'
  BY DEF TypeOK, ClockMoves, vars, history

LEMMA TypeInit == Init => TypeOK
  BY NothingIsCall, HumanQueueAssumption DEF Init, TypeOK

(* Type correctness of the queue. *)
THEOREM HumanQueueTypeOK == Spec => []TypeOK
<1>1. TypeOK /\ [Next]_vars => TypeOK'
  BY TypeStep, TypeOther DEF Next, Action
<1> QED BY TypeInit, <1>1, PTL DEF Spec

-----------------------------------------------------------------------------
(* Who may allow *)

(* A call that is to write an allow has its approver's consent. *)
AllowInv ==
    /\ AllowedByApprover
    /\ \A p \in Callers : pc[p] \in {"write", "fill", "audit"} /\ call[p].status = "allow"
                             => Req(p) \in consent

LEMMA AllowStep == ASSUME TypeOK, AllowInv, NEW p \in Callers, Action(p) PROVE AllowInv'
<1> USE NothingIsCall DEF TypeOK, AllowInv, AllowedByApprover, history
<1>0. call[p] \in CallType /\ Req(p) \in Requests /\ call[p].status \in Decisions
  BY DEF CallType, Req
<1>1. CASE Begin(p)
  BY <1>1 DEF Begin, Goto, Req
<1>2. CASE Enqueue(p)
  BY <1>0, <1>2 DEF Enqueue, Goto, SetFile, Req
<1>3. CASE Load(p)
  <2>1. CASE file[Req(p)] \in {"absent", "torn"} /\ End(p) /\ UNCHANGED <<told, raced>>
    BY <1>0, <1>3, <2>1 DEF Load, End, Goto, Req
  <2>2. CASE file[Req(p)] \in Decisions /\ Tell(p, file[Req(p)]) /\ UNCHANGED raced
    BY <1>0, <1>3, <2>2 DEF Load, Tell, End, Goto, Req
  <2>3. CASE file[Req(p)] = "pending" /\ Hold(p)
    BY <1>0, <1>3, <2>3 DEF Load, Hold, Goto, Req
  <2> QED BY <1>3, <2>1, <2>2, <2>3 DEF Load
<1>4. CASE Check(p)
  <2> UNCHANGED <<file, told>> BY <1>4 DEF Check
  <2>1. CASE pc'[p] = "write" /\ call' = [call EXCEPT ![p].status = IF Expired(Req(p)) THEN "deny" ELSE @]
    <3>1. pc' = [pc EXCEPT ![p] = "write"] /\ call'[p].q = call[p].q
      BY <1>0, <1>4, <2>1 DEF Check, End, Goto, CallType
    <3>2. call'[p].status = "allow" => Req(p) \in consent'
      BY <1>0, <1>4, <2>1 DEF Check, End, Goto, CallType
    <3>3. consent \subseteq consent'
      BY <1>4 DEF Check
    <3> QED BY <2>1, <3>1, <3>2, <3>3 DEF Req
  <2>2. CASE End(p) /\ UNCHANGED consent
    BY <1>0, <2>2 DEF End, Goto, Req
  <2> QED BY <1>0, <1>4, <2>1, <2>2 DEF Check, Goto
<1>5. CASE Write(p)
  BY <1>0, <1>5 DEF Write, SetFile, Goto, Req
<1>6. CASE Audit(p)
  BY <1>0, <1>6 DEF Audit, Tell, End, Goto, Req
<1>7. CASE Die(p)
  BY <1>0, <1>7 DEF Die, End, Goto, Req
<1> QED BY <1>1, <1>2, <1>3, <1>4, <1>5, <1>6, <1>7 DEF Action

(* A request is allowed only by its approver and in time, whatever races,  *)
(* deaths and jumps of the clock there are.                                *)
THEOREM HumanQueueAllowedByApprover == Spec => []AllowedByApprover
<1>1. Init => AllowInv
  BY DEF Init, AllowInv, AllowedByApprover
<1>2. TypeOK /\ AllowInv /\ [Next]_vars => AllowInv'
  <2>1. ASSUME AllowInv, ClockMoves \/ UNCHANGED vars PROVE AllowInv'
    BY <2>1 DEF AllowInv, AllowedByApprover, ClockMoves, vars, history, Req
  <2> QED BY AllowStep, <2>1 DEF Next, Action
<1>3. AllowInv => AllowedByApprover
  BY DEF AllowInv
<1> QED BY HumanQueueTypeOK, <1>1, <1>2, <1>3, PTL DEF Spec

-----------------------------------------------------------------------------
(* What the audit log knows *)

(* A decision on disk is in the log, lost with its writer, or about to be  *)
(* written there by a call that made just this decision.                   *)
AuditInv ==
    \A q \in Requests :
       file[q] \in Decisions =>
          \/ file[q] \in audited[q] \/ q \in unlogged
          \/ \E p \in Callers : Req(p) = q /\ pc[p] = "audit" /\ call[p].status = file[q]

LEMMA AuditStep == ASSUME TypeOK, AuditInv, NEW p \in Callers, Action(p) PROVE AuditInv'
<1> USE DEF TypeOK, history
<1> SUFFICES ASSUME NEW q \in Requests, file'[q] \in Decisions
             PROVE \/ file'[q] \in audited'[q] \/ q \in unlogged'
                   \/ \E c \in Callers : /\ call'[c].q = q /\ pc'[c] = "audit"
                                         /\ call'[c].status = file'[q]
  BY DEF AuditInv, Req
<1>0. call[p] \in CallType /\ Req(p) \in Requests /\ call[p].status \in Decisions
  BY DEF CallType, Req
<1>1. audited[q] \subseteq audited'[q] /\ unlogged \subseteq unlogged'
  BY <1>0 DEF Action, Begin, Enqueue, Load, Check, Write, Audit, Die
<1>2. CASE file'[q] = file[q]
  <2>1. CASE file[q] \in audited[q] \/ q \in unlogged
    BY <1>1, <1>2, <2>1
  <2>2. ASSUME NEW c \in Callers, Req(c) = q, pc[c] = "audit", call[c].status = file[q], c # p
        PROVE pc'[c] = "audit" /\ call'[c] = call[c]
    BY <2>2 DEF Action, Begin, Enqueue, Load, Hold, Check, Write, Audit, Die, Tell, End, Goto
  <2>3. ASSUME Req(p) = q, pc[p] = "audit", call[p].status = file[q]
        PROVE file[q] \in audited'[q] \/ q \in unlogged'
    BY <2>3 DEF Action, Begin, Enqueue, Load, Check, Write, Audit, Die
  <2> QED BY <1>2, <2>1, <2>2, <2>3 DEF AuditInv, Req
<1>3. CASE file'[q] # file[q]
  <2>1. Req(p) = q /\ pc[p] = "fill" /\ Write(p)
    BY <1>0, <1>3 DEF Action, Begin, Enqueue, Load, Check, Write, Audit, Die, SetFile, Decisions
  <2> QED BY <1>0, <2>1 DEF Write, SetFile, Goto, Req
<1> QED BY <1>2, <1>3

(* Every decision on disk is in the audit log unless its writer is still   *)
(* to write it there, or has died.                                         *)
THEOREM HumanQueueDecisionAudited == Spec => []DecisionAudited
<1>1. Init => AuditInv
  BY DEF Init, AuditInv, Decisions
<1>2. TypeOK /\ AuditInv /\ [Next]_vars => AuditInv'
  <2>1. ASSUME AuditInv, ClockMoves \/ UNCHANGED vars PROVE AuditInv'
    BY <2>1 DEF AuditInv, ClockMoves, vars, history, Req
  <2> QED BY AuditStep, <2>1 DEF Next, Action
<1>3. AuditInv => DecisionAudited
  BY DEF AuditInv, DecisionAudited
<1> QED BY HumanQueueTypeOK, <1>1, <1>2, <1>3, PTL DEF Spec

-----------------------------------------------------------------------------
(* When a decision is final *)

(* No step of a caller brings a settled request back.                      *)
LEMMA SettledStep ==
    ASSUME TypeOK, NEW p \in Callers, Action(p), NEW q \in Requests, Settled(q)
    PROVE Settled(q)' /\ file'[q] = file[q]
<1> USE DEF TypeOK, history
<1>0. call[p] \in CallType /\ Req(p) \in Requests
  BY DEF CallType, Req
<1>1. file[q] \in Decisions /\ \A c \in Callers : Req(c) = q => pc[c] \notin {"check", "write", "fill"}
  BY DEF Settled, Holders
<1>2. file'[q] = file[q]
  BY <1>0, <1>1 DEF Action, Begin, Enqueue, Load, Check, Write, Audit, Die, SetFile, Decisions
<1>3. ASSUME NEW c \in Callers, pc'[c] \in {"check", "write", "fill"}, call'[c].q = q PROVE FALSE
  <2>1. CASE c # p
    BY <1>1, <1>3, <2>1 DEF Action, Begin, Enqueue, Load, Hold, Check, Write, Audit, Die, Tell, End, Goto, Req
  <2>2. CASE c = p
    <3>1. CASE Load(p)
      BY <1>0, <1>1, <1>3, <2>2, <3>1 DEF Load, Hold, Tell, End, Goto, Req, Decisions
    <3>2. CASE Check(p) \/ Write(p)
      BY <1>0, <1>1, <1>3, <2>2, <3>2 DEF Check, Write, End, Goto, Req, CallType
    <3>3. CASE Begin(p) \/ Enqueue(p) \/ Audit(p) \/ Die(p)
      BY <1>0, <1>3, <2>2, <3>3 DEF Begin, Enqueue, Audit, Die, Tell, End, Goto
    <3> QED BY <3>1, <3>2, <3>3 DEF Action
  <2> QED BY <2>1, <2>2
<1> QED BY <1>1, <1>2, <1>3 DEF Settled, Holders, Req

(* A decided request that no call holds as pending stays as it is.         *)
THEOREM HumanQueueDecisionStands == Spec => DecisionStands
<1>1. TypeOK /\ [Next]_vars
        => [\A q \in Requests : Settled(q) => Settled(q)' /\ file'[q] = file[q]]_vars
  <2>1. ASSUME ClockMoves, NEW q \in Requests, Settled(q)
        PROVE Settled(q)' /\ file'[q] = file[q]
    BY <2>1 DEF ClockMoves, Settled, Holders, Req
  <2> QED BY SettledStep, <2>1 DEF Next, Action
<1> QED BY HumanQueueTypeOK, <1>1, PTL DEF Spec, DecisionStands

-----------------------------------------------------------------------------
(* One answer *)

At(c, q, places) == Req(c) = q /\ pc[c] \in places

(* A request that is still to be filled is known to its maker only.  As     *)
(* long as no two calls hold a request, the one that does finds it as it    *)
(* left it, nobody was told anything yet, and whoever was told, or is about *)
(* to be, is told what the file says.                                       *)
Unanswered(q) == told[q] = {} /\ \A c \in Callers : ~At(c, q, {"audit"})
MakerInv(q) ==
    /\ \A c \in Callers : At(c, q, {"enqueue"}) =>
          /\ file[q] \in {"absent", "torn"}
          /\ \A d \in Callers : At(d, q, {"enqueue"}) => d = c
    /\ (file[q] = "absent" \/ \E c \in Callers : At(c, q, {"enqueue"})) =>
          Unanswered(q) /\ \A c \in Callers : ~At(c, q, {"check", "write", "fill"})
SoleInv(q) ==
    /\ \A c \in Callers : At(c, q, {"check", "write", "fill"}) =>
          /\ Unanswered(q)
          /\ file[q] = IF pc[c] = "fill" THEN "torn" ELSE "pending"
          /\ \A d \in Callers : At(d, q, {"check", "write", "fill"}) => d = c
    /\ told[q] \subseteq {file[q]}
    /\ \A c \in Callers : At(c, q, {"audit"}) => call[c].status = file[q]
OneInv == \A q \in Requests : MakerInv(q) /\ (q \notin raced => SoleInv(q))

LEMMA MakerStep == ASSUME TypeOK, OneInv, NEW p \in Callers, Action(p), NEW q \in Requests
                   PROVE MakerInv(q)'
<1> USE DEF TypeOK, history
<1>0. call[p] \in CallType /\ Req(p) \in Requests /\ call[p].status \in Decisions /\ MakerInv(q)
  BY DEF CallType, Req, OneInv
<1> USE DEF MakerInv, Unanswered, At, Req
<1>1. CASE Begin(p)
  BY <1>0, <1>1 DEF Begin, Goto
<1>2. CASE Enqueue(p)
  BY <1>0, <1>2 DEF Enqueue, Goto, SetFile
<1>3. CASE Load(p)
  BY <1>0, <1>3 DEF Load, Tell, Hold, End, Goto, Decisions
<1>4. CASE Check(p)
  <2>1. pc[p] = "check" /\ UNCHANGED <<file, told>>
    BY <1>4 DEF Check
  <2>2. /\ pc' = [pc EXCEPT ![p] = pc'[p]] /\ pc'[p] \in {"write", "idle"}
        /\ \A c \in Callers : c # p => call'[c] = call[c]
        /\ pc'[p] = "write" => call'[p].q = call[p].q
    BY <1>0, <1>4 DEF Check, End, Goto, CallType
  <2> QED BY <1>0, <2>1, <2>2
<1>5. CASE Write(p)
  BY <1>0, <1>5 DEF Write, SetFile, Goto, Decisions
<1>6. CASE Audit(p)
  BY <1>0, <1>6 DEF Audit, Tell, End, Goto
<1>7. CASE Die(p)
  BY <1>0, <1>7 DEF Die, End, Goto
<1> QED BY <1>1, <1>2, <1>3, <1>4, <1>5, <1>6, <1>7 DEF Action

LEMMA SoleStep == ASSUME TypeOK, OneInv, NEW p \in Callers, Action(p), NEW q \in Requests,
                         q \notin raced'
                  PROVE SoleInv(q)'
<1> USE DEF TypeOK, history
<1>0. /\ call[p] \in CallType /\ Req(p) \in Requests /\ call[p].status \in Decisions
      /\ MakerInv(q)
  BY DEF CallType, Req, OneInv
<1>a. raced \subseteq raced'
  BY DEF Action, Begin, Enqueue, Load, Hold, Check, Write, Audit, Die
<1>b. SoleInv(q)
  BY <1>a DEF OneInv
<1> USE DEF MakerInv, SoleInv, Unanswered, At, Req
<1>1. CASE Begin(p)
  BY <1>0, <1>b, <1>1 DEF Begin, Goto
<1>2. CASE Enqueue(p)
  BY <1>0, <1>b, <1>2 DEF Enqueue, Goto, SetFile
<1>3. CASE Load(p)
  <2>1. CASE file[Req(p)] \in {"absent", "torn"} /\ End(p) /\ UNCHANGED told
    BY <1>0, <1>b, <1>3, <2>1 DEF Load, End, Goto
  <2>2. CASE file[Req(p)] \in Decisions /\ Tell(p, file[Req(p)])
    BY <1>0, <1>b, <1>3, <2>2 DEF Load, Tell, End, Goto, Decisions
  <2>3. CASE file[Req(p)] = "pending" /\ Hold(p)
    <3>1. CASE Req(p) # q
      BY <1>0, <1>b, <1>3, <2>3, <3>1 DEF Load, Hold, Goto
    <3>2. CASE Req(p) = q
      <4>1. Holders(q) = {}
        BY <1>0, <2>3, <3>2 DEF Hold
      <4>2. \A c \in Callers : ~(call[c].q = q /\ pc[c] \in {"check", "write", "fill"})
        BY <4>1 DEF Holders
      <4>3. Unanswered(q)
        BY <1>b, <2>3, <3>2 DEF Decisions, CallType
      <4> QED BY <1>0, <1>3, <2>3, <3>2, <4>2, <4>3 DEF Load, Hold, Goto, Decisions
    <3> QED BY <3>1, <3>2
  <2> QED BY <1>3, <2>1, <2>2, <2>3 DEF Load
<1>4. CASE Check(p)
  <2>1. pc[p] = "check" /\ UNCHANGED <<file, told>>
    BY <1>4 DEF Check
  <2>2. /\ pc' = [pc EXCEPT ![p] = pc'[p]] /\ pc'[p] \in {"write", "idle"}
        /\ \A c \in Callers : c # p => call'[c] = call[c]
        /\ pc'[p] = "write" => call'[p].q = call[p].q
    BY <1>0, <1>4 DEF Check, End, Goto, CallType
  <2> QED BY <1>0, <1>b, <2>1, <2>2
<1>5. CASE Write(p)
  BY <1>0, <1>b, <1>5 DEF Write, SetFile, Goto, Decisions
<1>6. CASE Audit(p)
  BY <1>0, <1>b, <1>6 DEF Audit, Tell, End, Goto
<1>7. CASE Die(p)
  BY <1>0, <1>b, <1>7 DEF Die, End, Goto
<1> QED BY <1>1, <1>2, <1>3, <1>4, <1>5, <1>6, <1>7 DEF Action

(* Two callers get different answers for one request only if two calls held *)
(* it as pending at once.                                                   *)
THEOREM HumanQueueOneAnswer == Spec => []OneAnswer
<1>1. Init => OneInv
  BY DEF Init, OneInv, MakerInv, SoleInv, Unanswered, At, Req
<1>2. TypeOK /\ OneInv /\ [Next]_vars => OneInv'
  <2>1. ASSUME OneInv, ClockMoves \/ UNCHANGED vars PROVE OneInv'
    BY <2>1 DEF OneInv, MakerInv, SoleInv, Unanswered, At, Req, ClockMoves, vars, history
  <2>2. ASSUME TypeOK, OneInv, NEW p \in Callers, Action(p) PROVE OneInv'
    BY <2>2, MakerStep, SoleStep DEF OneInv
  <2> QED BY <2>1, <2>2 DEF Next, Action
<1>3. OneInv => OneAnswer
  BY DEF OneInv, SoleInv, OneAnswer, Decisions
<1> QED BY HumanQueueTypeOK, <1>1, <1>2, <1>3, PTL DEF Spec
=============================================================================
