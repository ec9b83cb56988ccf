------------------------------ MODULE RunPrompt ------------------------------
(***************************************************************************)
(* One call of run_prompt(): the primary attempt, and the overflow attempt *)
(* of the same task after it.  The run thread talks to an agent process    *)
(* that may answer, ask for permission, fail, hang or die; a watcher       *)
(* thread closes the client when the caller sets the cancel event.         *)
(*                                                                         *)
(* A step of the run thread is what it does between two points where the   *)
(* agent, the watcher or the caller can interfere.                         *)
(***************************************************************************)
EXTENDS Naturals

CONSTANT MaxAsks   \* permission requests in one attempt (bound)

ASSUME RunPromptAssumption == MaxAsks \in Nat

Phases == {"primary", "overflow"}
Asks == 1 .. MaxAsks
StartBlocked == {"running", "ok", "done"}

VARIABLES
    opts,      \* what the caller and the policy chose, fixed from the start
    pc,        \* where the run thread is
    phase,     \* the attempt it is in
    record,    \* the status in each attempt's session record
    started,   \* the attempts with an audited run.started
    ended,     \* how many run.ended each attempt audited
    missing,   \* the attempts that audited auth.missing
    cancel,    \* the caller's cancel event
    client,    \* each attempt's AcpClient: "none", "open" or "closed" stdin
    alive,     \* the attempts whose agent process runs
    watch,     \* the attempts whose watcher waits for the cancel event
    stuck,     \* a broken send left its bytes in the stdin buffer
    jammed,    \* the run thread is in a write to an agent that has stopped
               \* reading, and holds the lock of stdin
    fault,     \* the exception on its way out of the attempt
    result,    \* status and exit code of the attempt, overflow triggered?
    \* Of the current attempt:
    planOk,    \* plan_allowed
    asked,     \* permission requests received
    writes,    \* those that were for a write or a shell
    planned,   \* plan.allow was audited
    allowed,   \* requests with an audited permission.allow
    granted    \* requests answered with an allow option

runVars == <<pc, phase, fault, result>>
ledger == <<record, started, ended, missing>>
agentVars == <<client, alive, stuck, jammed>>
process == <<client, alive, stuck>>
broker == <<planOk, asked, writes, planned, allowed, granted>>
vars == <<opts, runVars, ledger, cancel, agentVars, watch, broker>>

Options == [overflow : BOOLEAN,     \* an overflow agent that is not denied
            plan : BOOLEAN,         \* plan mode
            planner : BOOLEAN,      \* ask_plan is given
            cancels : BOOLEAN]      \* a cancel event is given

Final == {"done", "raised"}
PC == Final \union {"preflight", "connect", "stalled", "start", "enter", "new", "prompt",
                    "hook", "hooking", "plan", "decide", "allow", "deny", "close",
                    "failing", "finally", "finish", "after", "fallback"}
Outcomes == [status : {"error", "ok", "auth", "cancelled"},
             exit : {0, 2, 3, 5}, triggered : BOOLEAN]
Success == [status |-> "ok", exit |-> 0, triggered |-> FALSE]
Failure == [status |-> "error", exit |-> 5, triggered |-> FALSE]
Cancelled == [status |-> "cancelled", exit |-> 0, triggered |-> FALSE]
LoginMissing == [status |-> "auth", exit |-> 2, triggered |-> FALSE]

TypeOK == /\ opts \in Options
          /\ pc \in PC
          /\ phase \in Phases
          /\ record \in [Phases -> {"none", "running", "ok", "error", "auth", "cancelled"}]
          /\ started \subseteq Phases
          /\ ended \in [Phases -> 0 .. 1]
          /\ missing \subseteq Phases
          /\ cancel \in BOOLEAN
          /\ client \in [Phases -> {"none", "open", "closed"}]
          /\ alive \subseteq Phases
          /\ watch \subseteq Phases
          /\ stuck \in BOOLEAN
          /\ jammed \in BOOLEAN
          /\ fault \in {"none", "auth", "limit", "lost", "other"}
          /\ result \in Outcomes
          /\ planOk \in BOOLEAN
          /\ asked \in 0 .. MaxAsks
          /\ writes \subseteq Asks
          /\ planned \in BOOLEAN
          /\ allowed \subseteq Asks
          /\ granted \subseteq Asks

Init == /\ opts \in Options
        /\ pc = "preflight"
        /\ phase = "primary"
        /\ record = [p \in Phases |-> "none"]
        /\ started = {}
        /\ ended = [p \in Phases |-> 0]
        /\ missing = {}
        /\ cancel = FALSE
        /\ client = [p \in Phases |-> "none"]
        /\ alive = {}
        /\ watch = {}
        /\ stuck = FALSE
        /\ jammed = FALSE
        /\ fault = "none"
        /\ result = Failure
        /\ planOk = FALSE
        /\ planned = FALSE
        /\ asked = 0
        /\ writes = {}
        /\ allowed = {}
        /\ granted = {}

-----------------------------------------------------------------------------
(* Before the attempt *)

Goto(l) == pc' = l
(* The same, to send a request or a reply: the write is through at once, or *)
(* the pipe is full and nobody empties it.                                  *)
Send(l) == /\ Goto(l)
           /\ jammed' \in {FALSE, (phase \in alive /\ client[phase] = "open")}
Stay == UNCHANGED <<phase, fault>>
Exit(code) == /\ Goto("done")
              /\ result' = [result EXCEPT !.exit = code]
Raise == Goto("raised") /\ UNCHANGED result
AuditEnded == ended' = [ended EXCEPT ![phase] = @ + 1]

(* The bus probe, the memory store; or, before the second attempt, the     *)
(* overflow agent's resolve().                                             *)
Preflight ==
    /\ pc = "preflight"
    /\ \/ Goto("connect") /\ UNCHANGED result
       \/ Raise
       \/ phase = "primary" /\ Exit(3)
    /\ Stay
    /\ UNCHANGED <<opts, ledger, cancel, agentVars, watch, broker>>

(* spawn, initialize, authenticate.  Both requests have a deadline, which  *)
(* is looked at before a line is read and not while it is.                 *)
Connecting == {"connect", "stalled"}

Connected ==
    /\ pc \in Connecting
    /\ client' = [client EXCEPT ![phase] = "open"]
    /\ alive' = alive \union {phase}
    /\ stuck' = FALSE
    /\ Goto("start")
    /\ Stay
    /\ UNCHANGED <<opts, result, ledger, cancel, jammed, watch, broker>>

(* Faulty variant: the record of a login miss is closed without run.ended. *)
ConnectAuthUnaudited ==
    /\ pc \in Connecting
    /\ Stay
    /\ IF phase = "primary" /\ opts.overflow
       THEN /\ record' = [record EXCEPT ![phase] = "auth"]
            /\ Goto("fallback")
            /\ UNCHANGED <<result, missing>>
       ELSE /\ missing' = missing \union {phase}
            /\ Exit(2)
            /\ UNCHANGED record
    /\ UNCHANGED <<opts, started, ended, cancel, agentVars, watch, broker>>

(* AuthRequired: exit 2, unless there is an overflow agent to fall back    *)
(* to; the primary attempt then gets a record that is closed at once.      *)
ConnectAuth ==
    /\ pc \in Connecting
    /\ Stay
    /\ IF phase = "primary" /\ opts.overflow
       THEN \/ /\ record' = [record EXCEPT ![phase] = "auth"]
               /\ AuditEnded
               /\ Goto("fallback")
               /\ UNCHANGED <<result, missing>>
            \/ Raise /\ UNCHANGED <<record, ended, missing>>
       ELSE /\ missing' = missing \union {phase}
            /\ Exit(2)
            /\ UNCHANGED <<record, ended>>
    /\ UNCHANGED <<opts, started, cancel, agentVars, watch, broker>>

(* Any other exception of _connect, which has closed the client. *)
ConnectError ==
    /\ pc \in Connecting
    /\ AuditEnded
    /\ Exit(5)
    /\ Stay
    /\ UNCHANGED <<opts, record, started, missing, cancel, agentVars, watch, broker>>

(* store.start and run.started.  The store refuses a second start of the   *)
(* task, and raises on another process's half-written file.                *)
Start ==
    /\ pc = "start"
    /\ \/ /\ \A p \in Phases : record[p] \notin StartBlocked
          /\ record' = [record EXCEPT ![phase] = "running"]
          /\ started' = started \union {phase}
          /\ Goto("enter")
          /\ UNCHANGED result
       \/ Raise /\ UNCHANGED <<record, started>>
    /\ Stay
    /\ UNCHANGED <<opts, ended, missing, cancel, agentVars, watch, broker>>

-----------------------------------------------------------------------------
(* The attempt *)

(* The attempt's own plan_allowed, and nothing asked or granted yet. *)
FreshBroker == /\ planOk' = FALSE /\ planned' = FALSE /\ asked' = 0
               /\ writes' = {} /\ allowed' = {} /\ granted' = {}

(* Faulty variant: only the primary attempt is watched. *)
EnterUnwatched ==
    /\ pc = "enter"
    /\ watch' = IF opts.cancels /\ phase = "primary" THEN watch \union {phase} ELSE watch
    /\ result' = IF cancel THEN Cancelled ELSE Failure
    /\ IF cancel THEN Goto("done") /\ UNCHANGED jammed ELSE Send("new")
    /\ FreshBroker
    /\ Stay
    /\ UNCHANGED <<opts, ledger, cancel, process>>

(* The locals, the watcher, and the return at once when cancelled, which   *)
(* skips the finally below.                                                *)
Enter ==
    /\ pc = "enter"
    /\ watch' = IF opts.cancels THEN watch \union {phase} ELSE watch
    /\ result' = IF cancel THEN Cancelled ELSE Failure
    /\ IF cancel THEN Goto("done") /\ UNCHANGED jammed ELSE Send("new")
    /\ FreshBroker
    /\ Stay
    /\ UNCHANGED <<opts, ledger, cancel, process>>

Waiting == {"new", "prompt", "close"}
Replying == {"allow", "deny"}
Fail(f) == Goto("failing") /\ fault' = f

(* A send or a receive fails: EOF from a dead agent, a stdin the watcher   *)
(* closed, or a broken pipe that leaves the bytes in the stdin buffer.     *)
(* The exceptions of session/close are swallowed.                          *)
Broken ==
    /\ pc \in Waiting \union Replying
    /\ phase \notin alive \/ client[phase] = "closed"
    /\ jammed' = FALSE
    /\ stuck' \in {FALSE, client[phase] = "open" /\ (pc = "prompt" => asked = 0)}
    /\ IF pc = "close"
       THEN /\ Goto("finally")
            /\ result' = Success
            /\ UNCHANGED fault
       ELSE /\ Fail(IF client[phase] = "open" THEN "lost" ELSE "other")
            /\ UNCHANGED result
    /\ UNCHANGED <<opts, phase, ledger, cancel, client, alive, watch, broker>>

(* The agent writes a part of a line during the handshake, and readline    *)
(* waits for the rest of it.  (The requests of the handshake fit in the    *)
(* pipe of a new process.)                                                 *)
Stall ==
    /\ pc = "connect"
    /\ Goto("stalled")
    /\ UNCHANGED <<opts, phase, fault, result, ledger, cancel, agentVars, watch, broker>>

(* The agent reads again, and the write returns. *)
Unjam == jammed /\ jammed' = FALSE
         /\ UNCHANGED <<opts, runVars, ledger, cancel, process, watch, broker>>

(* The agent answers session/new.  An auth error becomes AuthRequired.     *)
AnswerNew ==
    /\ pc = "new" /\ phase \in alive /\ ~jammed
    /\ \/ Send("prompt") /\ UNCHANGED fault
       \/ \E f \in {"auth", "limit", "other"} : Fail(f) /\ UNCHANGED jammed
    /\ UNCHANGED <<opts, phase, result, ledger, cancel, process, watch, broker>>

(* The agent answers session/prompt; an error is a limit when its text     *)
(* names one of the overflow markers.                                      *)
AnswerPrompt ==
    /\ pc = "prompt" /\ phase \in alive /\ ~jammed
    /\ \/ Send("close") /\ UNCHANGED fault
       \/ \E f \in {"limit", "other"} : Fail(f) /\ UNCHANGED jammed
    /\ UNCHANGED <<opts, phase, result, ledger, cancel, process, watch, broker>>

(* The agent answers session/close, with a result or an error. *)
AnswerClose ==
    /\ pc = "close" /\ phase \in alive /\ ~jammed
    /\ Goto("finally")
    /\ result' = Success
    /\ UNCHANGED <<opts, phase, fault, ledger, cancel, agentVars, watch, broker>>

(* The agent asks for permission during session/prompt. *)
Ask ==
    /\ pc = "prompt" /\ phase \in alive /\ ~jammed /\ asked < MaxAsks
    /\ asked' = asked + 1
    /\ writes' \in {writes, writes \union {asked + 1}}
    /\ Goto("hook")
    /\ UNCHANGED <<opts, phase, fault, result, ledger, cancel, agentVars, watch,
                   planOk, planned, allowed, granted>>

IsWrite == asked \in writes

(* on_permission: what comes after the hook. *)
AfterHook == /\ Goto(IF opts.plan /\ IsWrite /\ ~planOk THEN "plan" ELSE "decide")
             /\ UNCHANGED jammed

(* on_permission: harness.toml, and the tool.pre hook it may name, which   *)
(* is started, or cannot be, and then denies.                              *)
Hook ==
    /\ pc = "hook"
    /\ \/ Fail("other") /\ UNCHANGED jammed
       \/ /\ \/ Send("deny")
             \/ AfterHook
             \/ Goto("hooking") /\ UNCHANGED jammed
          /\ UNCHANGED fault
    /\ UNCHANGED <<opts, phase, result, ledger, cancel, process, watch, broker>>

(* The hook's command, which has no timeout, ends. *)
HookEnds ==
    /\ pc = "hooking"
    /\ \/ Fail("other") /\ UNCHANGED jammed
       \/ (Send("deny") \/ AfterHook) /\ UNCHANGED fault
    /\ UNCHANGED <<opts, phase, result, ledger, cancel, process, watch, broker>>

(* Faulty variant: having shown the plan counts as having it allowed. *)
PlanShown ==
    /\ pc = "plan"
    /\ \/ opts.planner /\ planned' = TRUE /\ Goto("decide") /\ UNCHANGED jammed
       \/ Send("deny") /\ UNCHANGED planned
    /\ planOk' = TRUE
    /\ UNCHANGED <<opts, phase, fault, result, ledger, cancel, process, watch,
                   asked, writes, allowed, granted>>

(* The plan gate: audited, and remembered when it was allowed; or the      *)
(* caller's question or the audit log raises.                              *)
Plan ==
    /\ pc = "plan"
    /\ \/ /\ opts.planner
          /\ planOk' = TRUE
          /\ planned' = TRUE
          /\ Goto("decide")
          /\ UNCHANGED <<fault, jammed>>
       \/ Send("deny") /\ UNCHANGED <<fault, planOk, planned>>
       \/ Fail("other") /\ UNCHANGED <<jammed, planOk, planned>>
    /\ UNCHANGED <<opts, phase, result, ledger, cancel, process, watch,
                   asked, writes, allowed, granted>>

(* Faulty variant: only what the user was asked about is audited. *)
DecideQuietly ==
    /\ pc = "decide"
    /\ \/ /\ allowed' \in {allowed, allowed \union {asked}}
          /\ Send("allow")
       \/ Send("deny") /\ UNCHANGED allowed
    /\ UNCHANGED <<opts, phase, fault, result, ledger, cancel, process, watch,
                   planOk, asked, writes, planned, granted>>

(* The broker, then the user: the decision is audited before the reply,    *)
(* and there is none if either raises.                                     *)
Decide ==
    /\ pc = "decide"
    /\ \/ /\ allowed' = allowed \union {asked}
          /\ Send("allow")
          /\ UNCHANGED fault
       \/ Send("deny") /\ UNCHANGED <<fault, allowed>>
       \/ Fail("other") /\ UNCHANGED <<jammed, allowed>>
    /\ UNCHANGED <<opts, phase, result, ledger, cancel, process, watch,
                   planOk, asked, writes, planned, granted>>

(* The reply.  pick_option_id raises when no option fits, and falls back   *)
(* to a reject option when an allow finds none.                            *)
Reply ==
    /\ pc \in Replying /\ ~jammed
    /\ \/ /\ phase \in alive /\ client[phase] = "open"
          /\ \/ pc = "allow" /\ granted' = granted \union {asked}
             \/ UNCHANGED granted
          /\ Goto("prompt")
          /\ UNCHANGED fault
       \/ Fail("other") /\ UNCHANGED granted
    /\ UNCHANGED <<opts, phase, result, ledger, cancel, agentVars, watch,
                   planOk, asked, writes, planned, allowed>>

(* Faulty variant: a cancelled run keeps the exit code of a failed one. *)
HandleAsFailure ==
    /\ pc = "failing"
    /\ Goto("finally") /\ fault' = "none"
    /\ missing' = IF fault = "auth" THEN missing \union {phase} ELSE missing
    /\ result' = IF fault = "auth" THEN LoginMissing
                 ELSE IF cancel THEN [Cancelled EXCEPT !.exit = 5]
                 ELSE [Failure EXCEPT !.triggered = (fault = "limit")]
    /\ UNCHANGED <<opts, phase, record, started, ended, cancel, agentVars, watch, broker>>

(* The except clauses. *)
Handle ==
    /\ pc = "failing"
    /\ Goto("finally") /\ fault' = "none"
    /\ missing' = IF fault = "auth" THEN missing \union {phase} ELSE missing
    /\ result' = IF fault = "auth" THEN LoginMissing
                 ELSE IF cancel THEN Cancelled
                 ELSE [Failure EXCEPT !.triggered = (fault = "limit")]
    /\ UNCHANGED <<opts, phase, record, started, ended, cancel, agentVars, watch, broker>>

(* finally, first call: client.close() flushes stdin, and raises again     *)
(* when a broken send left its bytes there.                                *)
CloseClient ==
    /\ pc = "finally"
    /\ client' = [client EXCEPT ![phase] = "closed"]
    /\ IF stuck /\ client[phase] = "open"
       THEN Goto("raised") /\ UNCHANGED alive
       ELSE Goto("finish") /\ alive' = alive \ {phase}
    /\ Stay
    /\ UNCHANGED <<opts, result, ledger, cancel, stuck, jammed, watch, broker>>

(* Faulty variant: a run that falls back is not finished. *)
FinishLast ==
    /\ pc = "finish"
    /\ record' = IF result.triggered /\ opts.overflow THEN record
                 ELSE [record EXCEPT ![phase] = result.status]
    /\ AuditEnded
    /\ Goto("after")
    /\ Stay
    /\ UNCHANGED <<opts, result, started, missing, cancel, agentVars, watch, broker>>

(* finally, the rest: store.finish and run.ended. *)
Finish ==
    /\ pc = "finish"
    /\ record' = [record EXCEPT ![phase] = result.status]
    /\ AuditEnded
    /\ Goto("after")
    /\ Stay
    /\ UNCHANGED <<opts, result, started, missing, cancel, agentVars, watch, broker>>

(* Back in run_prompt: overflow only after the primary attempt.  After a   *)
(* success the prompt becomes a memory note, which the store may refuse.   *)
After ==
    /\ pc = "after"
    /\ \/ Goto(IF phase = "primary" /\ result.triggered /\ opts.overflow
               THEN "fallback" ELSE "done")
       \/ phase = "primary" /\ result.status = "ok" /\ Goto("raised")
    /\ Stay
    /\ UNCHANGED <<opts, result, ledger, cancel, agentVars, watch, broker>>

(* _run_overflow: agent.overflow, then the second attempt of the task. *)
FallBack ==
    /\ pc = "fallback"
    /\ phase' = "overflow"
    /\ Goto("preflight")
    /\ UNCHANGED <<opts, fault, result, ledger, cancel, agentVars, watch, broker>>

-----------------------------------------------------------------------------
(* The caller, the watchers and the agents *)

Cancel ==
    /\ opts.cancels /\ ~cancel /\ pc \notin Final
    /\ cancel' = TRUE
    /\ UNCHANGED <<opts, runVars, ledger, agentVars, watch, broker>>

(* _watch_cancel's thread closes its client, for which it needs the lock   *)
(* of stdin ...                                                            *)
Watch(p) ==
    /\ p \in watch /\ cancel /\ ~(p = phase /\ jammed)
    /\ watch' = watch \ {p}
    /\ client' = [client EXCEPT ![p] = "closed"]
    /\ UNCHANGED <<opts, runVars, ledger, cancel, alive, stuck, jammed, broker>>

(* ... and waits for the agent to exit, or kills it. *)
Reap(p) ==
    /\ p \in alive /\ client[p] = "closed"
    /\ alive' = alive \ {p}
    /\ UNCHANGED <<opts, runVars, ledger, cancel, client, stuck, jammed, watch, broker>>

AgentDies(p) ==
    /\ p \in alive
    /\ alive' = alive \ {p}
    /\ UNCHANGED <<opts, runVars, ledger, cancel, client, stuck, jammed, watch, broker>>

Connect == Connected \/ ConnectAuth \/ ConnectError
Permission == Hook \/ HookEnds \/ Plan \/ Decide \/ Reply
Thread == \/ Preflight \/ Connect \/ Start \/ Enter \/ Broken \/ Permission
          \/ Handle \/ CloseClient \/ Finish \/ After \/ FallBack
Agent == Stall \/ Unjam \/ AnswerNew \/ AnswerPrompt \/ AnswerClose \/ Ask

Next == \/ Thread \/ Agent \/ Cancel
        \/ \E p \in Phases : Watch(p) \/ Reap(p) \/ AgentDies(p)

(* What nothing bounds: the rest of a line in the handshake, the hook's    *)
(* command, a write that the agent does not read.                          *)
Held == pc \in {"stalled", "hooking"} \/ jammed

(* The run thread and the watchers are scheduled, the handshake has        *)
(* deadlines and a user answers a question.  An agent owes nothing, nor    *)
(* does a hook.                                                            *)
Fairness == /\ WF_vars(pc \notin {"stalled", "hooking"} /\ Thread)
            /\ \A p \in Phases : WF_vars(Watch(p)) /\ WF_vars(Reap(p))

Spec == Init /\ [][Next]_vars /\ Fairness

-----------------------------------------------------------------------------
(* Properties *)

(* The session store never refuses the overflow attempt: whatever ended    *)
(* the primary one has closed its record with a status that lets the same  *)
(* task start again, and a cancelled or successful run does not fall back. *)
OverflowAccepted == phase = "overflow" => record["primary"] \in {"error", "auth"}

(* In plan mode no write or shell is granted in an attempt before the plan *)
(* was allowed in that very attempt.                                       *)
PlanBeforeWrite == opts.plan /\ granted \intersect writes # {} => planned

(* The agent never gets an allow that is not in the audit log. *)
GrantsAudited == granted \subseteq allowed

(* When run_prompt returns and was not cancelled, every record it started  *)
(* is closed and has exactly one run.ended, and no agent is left behind.   *)
ReturnsClean ==
    pc = "done" /\ ~cancel =>
        \A p \in Phases : /\ record[p] # "running"
                          /\ record[p] # "none" => ended[p] = 1
                          /\ client[p] # "open"

(* The exit code is that of the last attempt: 0 iff it ended ok or was     *)
(* cancelled, 2 only after auth.missing was audited for it.                *)
ExitTellsOutcome ==
    pc = "done" => /\ result.exit = 0 <=> \/ record[phase] = "ok"
                                          \/ result.status = "cancelled"
                   /\ result.exit = 2 <=> phase \in missing

(* A cancelled run ends, whatever the agent does once it is connected,     *)
(* unless the run thread is held for ever where neither a deadline nor the *)
(* watcher's close() reaches it.                                           *)
CancelEnds == (cancel ~> pc \in Final) \/ <>[]Held
=============================================================================
