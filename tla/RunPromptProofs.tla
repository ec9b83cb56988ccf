---------------------------- MODULE RunPromptProofs ----------------------------
(***************************************************************************)
(* RunPrompt's invariants, for any number of permission requests.          *)
(***************************************************************************)
EXTENDS RunPrompt, TLAPS

Permitting == {"hook", "hooking", "plan", "decide", "allow", "deny"}
Talking == {"new", "prompt", "close", "failing"} \union Permitting
Attempt == {"enter", "finally", "finish"} \union Talking

(* What an attempt can come to, once its except clauses are through. *)
Settled == {Success, Failure, Cancelled, LoginMissing, [Failure EXCEPT !.triggered = TRUE]}

(* The record and the audit ledger of the current attempt. *)
LedgerInv ==
    /\ pc \in {"preflight", "connect", "stalled", "start"} =>
          record[phase] = "none" /\ ended[phase] = 0 /\ phase \notin missing
    /\ pc \in {"preflight", "connect", "stalled"} => client[phase] = "none"
    /\ pc \in {"preflight", "connect", "stalled", "start", "fallback"} =>
           result.status # "cancelled"
    /\ pc \in {"start"} \union Attempt => client[phase] # "none"
    /\ \A p \in watch : client[p] # "none"
    /\ pc \in Attempt => record[phase] = "running" /\ ended[phase] = 0
    /\ pc \in {"enter"} \union Talking => phase \notin missing
    /\ pc \in {"finally", "finish", "after"} =>
          result \in Settled /\ (phase \in missing <=> result.exit = 2)
    /\ pc \in {"finish", "after"} => client[phase] = "closed"
    /\ pc = "after" => record[phase] = result.status /\ ended[phase] = 1

(* The other attempt: still to come, or over and closed. *)
PhaseInv ==
    /\ phase = "primary" =>
          /\ record["overflow"] = "none" /\ ended["overflow"] = 0
          /\ client["overflow"] = "none" /\ "overflow" \notin missing
    /\ pc = "fallback" => phase = "primary"
    /\ phase = "overflow" \/ pc = "fallback" =>
          /\ record["primary"] \in {"error", "auth"}
          /\ ended["primary"] = 1 /\ client["primary"] # "open"

(* The requests of the current attempt. *)
BrokerInv ==
    /\ writes \subseteq 1 .. asked
    /\ allowed \subseteq 1 .. asked
    /\ granted \subseteq allowed
    /\ pc \in Permitting => asked \in Asks
    /\ planOk => planned
    /\ pc = "allow" => asked \in allowed
    /\ pc \in {"decide", "allow"} /\ opts.plan /\ asked \in writes => planOk
    /\ PlanBeforeWrite

Inv == TypeOK /\ LedgerInv /\ PhaseInv /\ BrokerInv /\ ReturnsClean /\ ExitTellsOutcome

LEMMA Constants == MaxAsks \in Nat /\ Asks = 1 .. MaxAsks
BY RunPromptAssumption DEF Asks

LEMMA PCValues ==
  \A l \in {"done", "raised", "preflight", "connect", "stalled", "start", "enter", "new", "prompt",
            "hook", "hooking", "plan", "decide", "allow", "deny", "close", "failing", "finally",
            "finish", "after", "fallback"} : l \in PC
BY DEF PC, Final

LEMMA SettledOutcomes ==
  /\ Success \in Outcomes /\ Failure \in Outcomes /\ Cancelled \in Outcomes
  /\ LoginMissing \in Outcomes
  /\ \A t \in BOOLEAN : [Failure EXCEPT !.triggered = t] \in Outcomes
  /\ Settled \subseteq Outcomes
<1>1. Success \in Outcomes /\ Failure \in Outcomes /\ Cancelled \in Outcomes
  BY DEF Outcomes, Success, Failure, Cancelled
<1>2. LoginMissing \in Outcomes
  BY DEF Outcomes, LoginMissing
<1>3. \A t \in BOOLEAN : [Failure EXCEPT !.triggered = t] \in Outcomes
  BY DEF Outcomes, Failure
<1> QED
  BY <1>1, <1>2, <1>3 DEF Settled

-----------------------------------------------------------------------------
LEMMA InitInv == Init => Inv
<1> SUFFICES ASSUME Init PROVE Inv
  OBVIOUS
<1> USE Constants, PCValues DEF Init, Phases
<1>1. TypeOK
  <2>1. result \in Outcomes
    BY SettledOutcomes
  <2>2. asked \in 0 .. MaxAsks
    OBVIOUS
  <2>3. /\ record \in [Phases -> {"none", "running", "ok", "error", "auth", "cancelled"}]
        /\ ended \in [Phases -> 0 .. 1]
        /\ client \in [Phases -> {"none", "open", "closed"}]
    OBVIOUS
  <2>4. /\ opts \in Options /\ pc \in PC /\ phase \in Phases
        /\ fault \in {"none", "auth", "limit", "lost", "other"}
    OBVIOUS
  <2>5. /\ started \subseteq Phases /\ missing \subseteq Phases
        /\ alive \subseteq Phases /\ watch \subseteq Phases
        /\ writes \subseteq Asks /\ allowed \subseteq Asks /\ granted \subseteq Asks
    OBVIOUS
  <2>6. {cancel, stuck, jammed, planOk, planned} \subseteq BOOLEAN
    OBVIOUS
  <2> QED
    BY <2>1, <2>2, <2>3, <2>4, <2>5, <2>6 DEF TypeOK
<1>2. LedgerInv /\ PhaseInv /\ ReturnsClean /\ ExitTellsOutcome
  BY DEF LedgerInv, PhaseInv, ReturnsClean, ExitTellsOutcome, Attempt, Talking, Permitting,
         Failure
<1>3. BrokerInv
  BY DEF BrokerInv, PlanBeforeWrite, Permitting
<1> QED
  BY <1>1, <1>2, <1>3 DEF Inv

-----------------------------------------------------------------------------
LEMMA StepTypeOK == ASSUME Inv, Next PROVE TypeOK'
<1> USE Constants, PCValues, SettledOutcomes
    DEF Inv, TypeOK, Phases, runVars, ledger, agentVars, broker, Goto, Stay, Exit, Raise,
        AuditEnded, Fail, Connecting, Send, process
<1>1. CASE Preflight
  BY <1>1 DEF Preflight, Outcomes
<1>2. CASE Connected
  BY <1>2 DEF Connected
<1>3. CASE ConnectAuth
  BY <1>3 DEF ConnectAuth, LedgerInv, Outcomes
<1>4. CASE ConnectError
  BY <1>4 DEF ConnectError, LedgerInv, Outcomes
<1>5. CASE Start
  BY <1>5 DEF Start
<1>6. CASE Enter
  <2>1. result' \in Outcomes
    BY <1>6 DEF Enter
  <2>2. asked' \in 0 .. MaxAsks
    BY <1>6 DEF Enter, FreshBroker
  <2> QED
    BY <1>6, <2>1, <2>2 DEF Enter, FreshBroker
<1>7. CASE Broken
  BY <1>7 DEF Broken
<1>8. CASE Hook \/ HookEnds
  <2>1. /\ pc' \in PC /\ fault' \in {fault, "other"} /\ jammed' \in BOOLEAN
        /\ UNCHANGED <<opts, phase, result, ledger, cancel, process, watch, broker>>
    BY <1>8 DEF Hook, HookEnds, AfterHook
  <2> QED
    BY <2>1
<1>9. CASE Plan
  <2>1. /\ pc' \in PC /\ fault' \in {fault, "other"} /\ jammed' \in BOOLEAN
        /\ planOk' \in BOOLEAN /\ planned' \in BOOLEAN
        /\ UNCHANGED <<opts, phase, result, ledger, cancel, process, watch,
                       asked, writes, allowed, granted>>
    BY <1>9 DEF Plan
  <2> QED
    BY <2>1
<1>10. CASE Decide
  BY <1>10 DEF Decide, BrokerInv, Permitting
<1>11. CASE Reply
  BY <1>11 DEF Reply, Replying, BrokerInv, Permitting
<1>12. CASE Handle
  <2>1. result' \in Outcomes
    BY <1>12 DEF Handle
  <2> QED
    BY <1>12, <2>1 DEF Handle
<1>13. CASE CloseClient
  BY <1>13 DEF CloseClient
<1>14. CASE Finish
  BY <1>14 DEF Finish, LedgerInv, Attempt, Outcomes
<1>15. CASE After
  BY <1>15 DEF After
<1>16. CASE FallBack
  BY <1>16 DEF FallBack
<1>17. CASE Agent
  <2>1. CASE Stall
    BY <2>1 DEF Stall
  <2>2. CASE AnswerNew
    BY <2>2 DEF AnswerNew
  <2>3. CASE AnswerPrompt
    BY <2>3 DEF AnswerPrompt
  <2>4. CASE Ask
    BY <2>4 DEF Ask
  <2>5. CASE AnswerClose
    BY <2>5 DEF AnswerClose
  <2>6. CASE Unjam
    BY <2>6 DEF Unjam
  <2> QED
    BY <1>17, <2>1, <2>2, <2>3, <2>4, <2>5, <2>6 DEF Agent
<1>18. CASE Cancel
  BY <1>18 DEF Cancel
<1>19. CASE \E p \in Phases : Watch(p) \/ Reap(p) \/ AgentDies(p)
  <2>1. PICK p \in Phases : Watch(p) \/ Reap(p) \/ AgentDies(p)
    BY <1>19
  <2>2. CASE Watch(p)
    BY <2>2 DEF Watch
  <2>3. CASE Reap(p)
    BY <2>3 DEF Reap
  <2>4. CASE AgentDies(p)
    BY <2>4 DEF AgentDies
  <2> QED
    BY <2>1, <2>2, <2>3, <2>4
<1> QED
  BY <1>1, <1>2, <1>3, <1>4, <1>5, <1>6, <1>7, <1>8, <1>9, <1>10, <1>11, <1>12, <1>13,
     <1>14, <1>15, <1>16, <1>17, <1>18, <1>19 DEF Next, Thread, Connect, Permission

-----------------------------------------------------------------------------
(* The attempts' records, run.ended and exit codes. *)
Books == LedgerInv /\ PhaseInv /\ ReturnsClean /\ ExitTellsOutcome

LEMMA ExitResult ==
  ASSUME NEW code, result \in Outcomes, Exit(code)
  PROVE result'.exit = code /\ result'.status = result.status
BY DEF Exit, Outcomes

LEMMA SettledStatus ==
  \A r \in Settled : /\ r.exit = 0 <=> r.status \in {"ok", "cancelled"}
                     /\ r.triggered => r.status = "error"
<1>1. /\ [Failure EXCEPT !.triggered = TRUE].status = "error"
      /\ [Failure EXCEPT !.triggered = TRUE].exit = 5
  BY DEF Failure
<1> QED
  BY <1>1 DEF Settled, Success, Failure, Cancelled, LoginMissing

LEMMA StepBooks == ASSUME Inv, Next PROVE Books'
<1> USE DEF Inv, TypeOK, Books, LedgerInv, PhaseInv, ReturnsClean, ExitTellsOutcome, Phases,
            runVars, ledger, agentVars, broker, Goto, Stay, Raise, AuditEnded, Fail,
            Send, process, Connecting, Attempt, Talking, Permitting
<1>1. CASE Preflight
  <2>1. CASE UNCHANGED result /\ pc' \in {"connect", "raised"}
    BY <1>1, <2>1 DEF Preflight
  <2>2. CASE Exit(3)
    <3>1. result'.exit = 3 /\ result'.status = result.status
      BY <2>2, ExitResult
    <3>2. pc' = "done"
      BY <2>2 DEF Exit
    <3> QED
      BY <1>1, <3>1, <3>2 DEF Preflight
  <2> QED
    BY <1>1, <2>1, <2>2 DEF Preflight
<1>2. CASE Connected
  BY <1>2 DEF Connected
<1>3. CASE ConnectAuth
  <2>1. CASE phase = "primary" /\ opts.overflow
    BY <1>3, <2>1 DEF ConnectAuth
  <2>2. CASE ~(phase = "primary" /\ opts.overflow)
    <3>1. Exit(2) /\ phase \in missing' /\ UNCHANGED <<record, ended, client, watch, phase>>
      BY <1>3, <2>2 DEF ConnectAuth
    <3>2. result'.exit = 2 /\ result'.status = result.status /\ pc' = "done"
      BY <3>1, ExitResult DEF Exit
    <3> QED
      BY <1>3, <2>2, <3>1, <3>2 DEF ConnectAuth
  <2> QED
    BY <2>1, <2>2
<1>4. CASE ConnectError
  <2>1. result'.exit = 5 /\ result'.status = result.status /\ pc' = "done"
    BY <1>4, ExitResult DEF ConnectError, Exit
  <2> QED
    BY <1>4, <2>1 DEF ConnectError
<1>5. CASE Start
  BY <1>5 DEF Start
<1>6. CASE Enter
  <2>1. CASE cancel
    BY <1>6, <2>1 DEF Enter, Cancelled
  <2>2. CASE ~cancel
    BY <1>6, <2>2 DEF Enter, Failure
  <2> QED
    BY <2>1, <2>2
<1>7. CASE Broken
  BY <1>7 DEF Broken, Waiting, Replying, Settled, Success
<1>8. CASE Hook \/ HookEnds
  <2>1. /\ pc \in {"hook", "hooking"} /\ pc' \in {"deny", "plan", "decide", "hooking", "failing"}
        /\ UNCHANGED <<opts, phase, result, ledger, cancel, client, watch>>
    BY <1>8 DEF Hook, HookEnds, AfterHook
  <2> QED
    BY <2>1
<1>9. CASE Plan
  BY <1>9 DEF Plan
<1>10. CASE Decide
  BY <1>10 DEF Decide
<1>11. CASE Reply
  BY <1>11 DEF Reply, Replying
<1>12. CASE Handle
  <2>1. result' \in Settled /\ (result'.exit = 2 <=> fault = "auth")
    <3>1. CASE fault = "auth" \/ cancel
      BY <1>12, <3>1 DEF Handle, Settled, Cancelled, LoginMissing
    <3>2. CASE fault = "limit" /\ ~cancel
      <4>1. result' = [Failure EXCEPT !.triggered = TRUE]
        BY <1>12, <3>2 DEF Handle
      <4>2. [Failure EXCEPT !.triggered = TRUE].exit = 5
        BY DEF Failure
      <4> QED
        BY <3>2, <4>1, <4>2 DEF Settled
    <3>3. CASE fault \in {"none", "lost", "other"} /\ ~cancel
      <4>1. result' = [Failure EXCEPT !.triggered = FALSE]
        BY <1>12, <3>3 DEF Handle
      <4>2. result' = Failure
        BY <4>1 DEF Failure
      <4> QED
        BY <3>3, <4>2 DEF Settled, Failure
    <3> QED
      BY <3>1, <3>2, <3>3
  <2> QED
    BY <1>12, <2>1 DEF Handle
<1>13. CASE CloseClient
  BY <1>13 DEF CloseClient
<1>14. CASE Finish
  BY <1>14 DEF Finish
<1>15. CASE After
  <2>1. /\ result.exit = 0 <=> record[phase] = "ok" \/ result.status = "cancelled"
        /\ result.exit = 2 <=> phase \in missing
        /\ result.triggered => record[phase] = "error" /\ result.status = "error"
        /\ record[phase] # "running"
    BY <1>15, SettledStatus DEF After, Outcomes
  <2>2. UNCHANGED <<opts, phase, result, ledger, cancel, agentVars, watch>>
    BY <1>15 DEF After
  <2>3. CASE phase = "primary" /\ result.triggered /\ pc' = "fallback"
    BY <1>15, <2>1, <2>2, <2>3 DEF After
  <2>4. CASE pc' = "done"
    BY <1>15, <2>1, <2>2, <2>4 DEF After
  <2>5. CASE pc' = "raised"
    BY <1>15, <2>1, <2>2, <2>5 DEF After
  <2> QED
    BY <1>15, <2>3, <2>4, <2>5 DEF After
<1>16. CASE FallBack
  BY <1>16 DEF FallBack
<1>17. CASE Agent
  <2>1. CASE Stall \/ Unjam
    <3>1. /\ pc' = pc \/ (pc = "connect" /\ pc' = "stalled")
          /\ UNCHANGED <<opts, phase, result, ledger, cancel, client, watch>>
      BY <2>1 DEF Stall, Unjam
    <3> QED
      BY <3>1
  <2>2. CASE AnswerNew
    BY <2>2 DEF AnswerNew
  <2>3. CASE AnswerPrompt
    BY <2>3 DEF AnswerPrompt
  <2>4. CASE AnswerClose
    BY <2>4 DEF AnswerClose, Settled, Success
  <2>5. CASE Ask
    BY <2>5 DEF Ask
  <2> QED
    BY <1>17, <2>1, <2>2, <2>3, <2>4, <2>5 DEF Agent
<1>18. CASE Cancel
  BY <1>18 DEF Cancel, Final
<1>19. CASE \E p \in Phases : Watch(p) \/ Reap(p) \/ AgentDies(p)
  <2>1. PICK p \in Phases : Watch(p) \/ Reap(p) \/ AgentDies(p)
    BY <1>19
  <2>2. CASE Watch(p)
    BY <2>2 DEF Watch
  <2>3. CASE Reap(p)
    BY <2>3 DEF Reap
  <2>4. CASE AgentDies(p)
    BY <2>4 DEF AgentDies
  <2> QED
    BY <2>1, <2>2, <2>3, <2>4
<1> QED
  BY <1>1, <1>2, <1>3, <1>4, <1>5, <1>6, <1>7, <1>8, <1>9, <1>10, <1>11, <1>12, <1>13,
     <1>14, <1>15, <1>16, <1>17, <1>18, <1>19 DEF Next, Thread, Connect, Permission

LEMMA StepBrokerInv == ASSUME Inv, Next PROVE BrokerInv'
<1> USE Constants
    DEF Inv, TypeOK, BrokerInv, PlanBeforeWrite, runVars, ledger, agentVars, broker,
        Goto, Stay, Exit, Raise, Fail, Send, process, Connecting, Permitting
<1>1. CASE Preflight \/ Connect \/ Start \/ Handle \/ CloseClient \/ Finish \/ After
             \/ FallBack
  BY <1>1 DEF Preflight, Connect, Connected, ConnectAuth, ConnectError, Start, Handle,
              CloseClient, Finish, After, FallBack
<1>2. CASE Enter
  BY <1>2 DEF Enter, FreshBroker
<1>3. CASE Broken
  BY <1>3 DEF Broken
<1>4. CASE Hook \/ HookEnds
  <2>1. /\ pc \in {"hook", "hooking"} /\ UNCHANGED <<opts, broker>>
        /\ pc' \in {"deny", "plan", "hooking", "failing"}
           \/ (pc' = "decide" /\ ~(opts.plan /\ asked \in writes /\ ~planOk))
    BY <1>4 DEF Hook, HookEnds, AfterHook, IsWrite
  <2> QED
    BY <2>1
<1>5. CASE Plan
  <2>1. /\ pc = "plan" /\ UNCHANGED <<opts, asked, writes, allowed, granted>>
        /\ \/ pc' \in {"deny", "failing"} /\ UNCHANGED <<planOk, planned>>
           \/ pc' = "decide" /\ planOk' = TRUE /\ planned' = TRUE
    BY <1>5 DEF Plan
  <2> QED
    BY <2>1
<1>6. CASE Decide
  <2>1. asked \in Asks /\ asked \in 1 .. asked
    BY <1>6 DEF Decide
  <2> QED
    BY <1>6, <2>1 DEF Decide
<1>7. CASE Reply
  BY <1>7 DEF Reply, Replying
<1>8. CASE Ask
  BY <1>8 DEF Ask
<1>9. CASE Stall \/ Unjam \/ AnswerNew \/ AnswerPrompt \/ AnswerClose
  <2>1. UNCHANGED <<opts, broker>> /\ (pc' \notin Permitting \/ pc' = pc)
    BY <1>9 DEF Stall, Unjam, AnswerNew, AnswerPrompt, AnswerClose
  <2> QED
    BY <2>1
<1>10. CASE Cancel \/ \E p \in Phases : Watch(p) \/ Reap(p) \/ AgentDies(p)
  <2>1. UNCHANGED <<opts, pc, broker>>
    BY <1>10 DEF Cancel, Watch, Reap, AgentDies
  <2> QED
    BY <2>1
<1> QED
  BY <1>1, <1>2, <1>3, <1>4, <1>5, <1>6, <1>7, <1>8, <1>9, <1>10
  DEF Next, Thread, Permission, Agent

-----------------------------------------------------------------------------
LEMMA NextInv == Inv /\ [Next]_vars => Inv'
<1> SUFFICES ASSUME Inv, [Next]_vars PROVE Inv'
  OBVIOUS
<1>1. CASE Next
  BY <1>1, StepTypeOK, StepBooks, StepBrokerInv DEF Inv, Books
<1>2. CASE UNCHANGED vars
  BY <1>2 DEF vars, runVars, ledger, agentVars, process, broker, Inv, TypeOK, LedgerInv, PhaseInv,
              BrokerInv, PlanBeforeWrite, ReturnsClean, ExitTellsOutcome
<1> QED
  BY <1>1, <1>2

LEMMA Invariance == Spec => []Inv
<1> QED
  BY InitInv, NextInv, PTL DEF Spec

(* Type correctness of run_prompt; in particular no attempt is reported    *)
(* ended twice.                                                            *)
THEOREM RunPromptTypeOK == Spec => []TypeOK
<1>1. Inv => TypeOK
  BY DEF Inv
<1> QED
  BY <1>1, Invariance, PTL

(* SessionStore.start is never asked to start the overflow attempt over a  *)
(* record of the primary one that blocks it.                               *)
THEOREM RunPromptOverflowAccepted == Spec => []OverflowAccepted
<1>1. Inv => OverflowAccepted
  BY DEF Inv, PhaseInv, OverflowAccepted
<1> QED
  BY <1>1, Invariance, PTL

(* _ensure_plan_allowed: no write is granted before the attempt's plan. *)
THEOREM RunPromptPlanBeforeWrite == Spec => []PlanBeforeWrite
<1>1. Inv => PlanBeforeWrite
  BY DEF Inv, BrokerInv
<1> QED
  BY <1>1, Invariance, PTL

(* on_permission: every allow the agent gets was audited. *)
THEOREM RunPromptGrantsAudited == Spec => []GrantsAudited
<1>1. Inv => GrantsAudited
  BY DEF Inv, BrokerInv, GrantsAudited
<1> QED
  BY <1>1, Invariance, PTL

(* run_prompt returns with closed records, one run.ended for each, and no  *)
(* open client, unless it was cancelled.                                   *)
THEOREM RunPromptReturnsClean == Spec => []ReturnsClean
<1>1. Inv => ReturnsClean
  BY DEF Inv
<1> QED
  BY <1>1, Invariance, PTL

(* run_prompt's exit code is that of its last attempt. *)
THEOREM RunPromptExitTellsOutcome == Spec => []ExitTellsOutcome
<1>1. Inv => ExitTellsOutcome
  BY DEF Inv
<1> QED
  BY <1>1, Invariance, PTL
=============================================================================
