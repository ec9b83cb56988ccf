---------------------------------- MODULE Steps ----------------------------------
(***************************************************************************)
(* run_workflow and run_pipeline: load the steps from the harness, order   *)
(* them, resolve the policy of every one (run_policy_steps), then dispatch *)
(* one after the other.  The harness is read anew for every resolution and *)
(* is edited in between; the bus goes down and comes back.                 *)
(*                                                                         *)
(* A step here is an entry of the harness: [id, ok, agent, account, needs, *)
(* functions, subagents], ok when it parses; a stage of a pipeline is one  *)
(* without needs.  A step of the runner is one reading of the harness, or  *)
(* one dispatch from its probe of the bus to its message.                  *)
(***************************************************************************)
EXTENDS Policy, SequencesExt

CONSTANTS Plans,      \* [kind: "workflow" or "pipeline", steps: sequence of entries]
          HarnessOf,  \* harnesses by name
          Editable,   \* the names the harness may have, from the start and by edits
          User,       \* the user's configuration
          MaxEdits    \* bound on the edits

IsSequence(s) == s \in Seq(ToSet(s))

ASSUME StepsAssumption ==
    /\ MaxEdits \in Nat /\ Editable \subseteq DOMAIN HarnessOf
    /\ \A name \in Editable : HarnessOf[name].state \in {"file", "missing", "unreachable", "broken"}
    /\ User.state \in {"file", "unreachable", "broken"}
    /\ \A p \in Plans :
          /\ p.kind \in {"workflow", "pipeline"} /\ IsSequence(p.steps)
          /\ \A s \in ToSet(p.steps) : IsSequence(s.needs) /\ IsSequence(s.subagents)

VARIABLES plan, harness, edits,
          torn,       \* a session record that cannot be parsed lies in the store
          at,         \* where the runner is
          order,      \* the steps in the order of their dispatch
          next,       \* the step it is at
          subs,       \* the subagents of that step still to resolve
          sent,       \* how many of the steps have a message
          audited,    \* the ids named in an agent.denied
          silent,     \* history: why the denial that stopped the run has no such
                      \* line: "log", it could not be written; "text", the bus
                      \* refused the text of a message; or "none"
          readings    \* history: what for, which step, for which agent, in which harness

vars == <<plan, harness, edits, torn, at, order, next, subs, sent, audited, silent, readings>>

Ended == {"done", "refused", "raised"}

TypeOK == /\ harness \in Editable /\ edits \in 0..MaxEdits
          /\ torn \in BOOLEAN /\ at \in Ended \union {"load", "plan", "subs", "dispatch", "send"}
          /\ order \in Seq(ToSet(plan.steps)) /\ Len(order) \in {0, Len(plan.steps)}
          /\ at \in {"plan", "subs", "dispatch", "send"} => next \in 1..Len(order)
          /\ IsSequence(subs) /\ (at = "subs" => subs # <<>>)
          /\ at \in {"dispatch", "send"} => sent = next - 1
          /\ sent \in 0..Len(order) /\ audited \subseteq {s.id : s \in ToSet(plan.steps)}
          /\ silent \in {"none", "log", "text"}

Init == /\ plan \in Plans /\ harness \in Editable /\ edits = 0 /\ torn \in BOOLEAN
        /\ at = "load" /\ order = <<>> /\ next = 1 /\ subs = <<>> /\ sent = 0
        /\ audited = {} /\ silent = "none" /\ readings = {}

-----------------------------------------------------------------------------
(* The order of a workflow *)

Duplicate(steps) == \E i, k \in DOMAIN steps : i # k /\ steps[i].id = steps[k].id
UnknownNeed(steps) ==
    \E s \in ToSet(steps) : ToSet(s.needs) \ {t.id : t \in ToSet(steps)} # {}

(* Faulty variant: a repeated need is waited for once and released twice. *)
IncomingOnce(steps) == [i \in DOMAIN steps |-> Cardinality(ToSet(steps[i].needs))]

(* The number of needs a step waits for, repeated ones and all, and how     *)
(* often a step is among them: that many edges lead from the one to the    *)
(* other.                                                                  *)
Incoming(steps) == [i \in DOMAIN steps |-> Len(steps[i].needs)]
Edges(step, id) == Cardinality({k \in DOMAIN step.needs : step.needs[k] = id})

(* The steps of a set as they come in the harness. *)
Listed(set) == CHOOSE q \in [1..Cardinality(set) -> set] :
                  \A i, k \in 1..Cardinality(set) : i < k => q[i] < q[k]

(* One round: the first ready step is put in order; the others lose their  *)
(* edges from it, and are ready when the last is gone.                     *)
Round(steps, state) ==
    IF state.ready = <<>> THEN state
    ELSE LET i == Head(state.ready)
             left == [k \in DOMAIN steps |-> state.incoming[k] - Edges(steps[k], steps[i].id)]
         IN [incoming |-> left, ordered |-> Append(state.ordered, i),
             ready |-> Tail(state.ready)
                         \o Listed({k \in DOMAIN steps : state.incoming[k] > 0 /\ left[k] <= 0})]

Start(steps) == [incoming |-> Incoming(steps), ordered |-> <<>>,
                 ready |-> Listed({i \in DOMAIN steps : Incoming(steps)[i] = 0})]

(* Kahn's algorithm, first in, first out; shorter than steps on a cycle. *)
Rounds(steps) ==
    LET after[n \in 0..Len(steps)] ==
            IF n = 0 THEN Start(steps) ELSE Round(steps, after[n - 1])
    IN after
Topo(steps) ==
    LET ordered == Rounds(steps)[Len(steps)].ordered
    IN [n \in 1..Len(ordered) |-> steps[ordered[n]]]

(* Every entry has an id and a prompt, and its fields are of their types. *)
Parses(steps) == \A s \in ToSet(steps) : s.ok

(* What else makes load_workflow raise, and load_pipeline. *)
WorkflowRefused(steps) ==
    Duplicate(steps) \/ UnknownNeed(steps) \/ Len(Topo(steps)) # Len(steps)
PipelineRefused(steps) == Duplicate(steps)

-----------------------------------------------------------------------------
(* The runner *)

Still == UNCHANGED <<plan, harness, edits, torn>>
Fails(place) == at' = place /\ UNCHANGED next

(* Faulty variant: one step too many. *)
AdvanceLate(place, afterwards, n) ==
    IF n <= Len(order) THEN at' = place /\ next' = n + 1
    ELSE at' = afterwards /\ next' = 1

(* Planning is over with the last step; then the first is dispatched. *)
Advance(place, afterwards, n) ==
    IF n < Len(order) THEN at' = place /\ next' = n + 1
    ELSE at' = afterwards /\ next' = 1

(* A harness without the table is a run without steps; one that does not    *)
(* parse or cannot be read raises.                                          *)
Load ==
    /\ at = "load"
    /\ LET state == HarnessOf[harness].state
           steps == plan.steps
           refused == \/ ~Parses(steps)
                      \/ plan.kind = "workflow" /\ WorkflowRefused(steps)
                      \/ plan.kind = "pipeline" /\ PipelineRefused(steps)
       IN \/ state = "missing" /\ at' = "done" /\ UNCHANGED order
          \/ state \in {"unreachable", "broken"} /\ at' = "raised" /\ UNCHANGED order
          \/ state = "file" /\ refused /\ at' = "refused" /\ UNCHANGED order
          \/ /\ state = "file" /\ ~refused
             /\ order' = IF plan.kind = "workflow" THEN Topo(steps) ELSE steps
             /\ at' = IF steps = <<>> THEN "done" ELSE "plan"
    /\ UNCHANGED <<next, subs, sent, audited, silent, readings>> /\ Still

(* What resolving an agent for the step at hand comes to now, and that the *)
(* harness was read for it: by the plan, for a subagent, by dispatch.      *)
Outcome(agent) == Resolve(None, agent, order[next].account, HarnessOf[harness], User)
Reads(purpose, agent) ==
    readings' = readings \union {[purpose |-> purpose, step |-> next, agent |-> agent,
                                  harness |-> harness]}

(* _deny, and dispatch's _audit_denied.  If the log cannot be written, the *)
(* one raises OSError in place of the denial and the other swallows it.    *)
Denied == /\ \/ audited' = audited \union {order[next].id} /\ UNCHANGED silent
             \/ silent' = "log" /\ UNCHANGED audited
          /\ UNCHANGED subs /\ Fails("raised")

Quiet == UNCHANGED <<audited, silent>>

(* PolicyDenied and UnknownAgent are audited; what else resolve raises is not. *)
Raised(outcome) ==
    \/ outcome \in {"denied", "unknown"} /\ Denied
    \/ outcome \in {"unreachable", "broken"} /\ Quiet /\ UNCHANGED subs /\ Fails("raised")

(* Faulty variant: of several functions the first is looked up. *)
PlanStepFirst ==
    /\ at = "plan" /\ Reads("plan", order[next].agent)
    /\ LET step == order[next]
           outcome == Outcome(step.agent)
           bound == step.functions # <<>> => FunctionAllowed(step.functions[1], HarnessOf[harness])
       IN \/ Raised(outcome)
          \/ outcome = "ok" /\ ~bound /\ Denied
          \/ /\ outcome = "ok" /\ bound
             /\ subs' = step.subagents /\ Quiet
             /\ IF step.subagents # <<>> THEN at' = "subs" /\ UNCHANGED next
                ELSE Advance("plan", "dispatch", next)
    /\ UNCHANGED <<order, sent>> /\ Still

(* The step's own agent and its functions. *)
PlanStep ==
    /\ at = "plan" /\ Reads("plan", order[next].agent)
    /\ LET step == order[next]
           outcome == Outcome(step.agent)
           bound == \A f \in ToSet(step.functions) : FunctionAllowed(f, HarnessOf[harness])
       IN \/ Raised(outcome)
          \/ outcome = "ok" /\ ~bound /\ Denied
          \/ /\ outcome = "ok" /\ bound
             /\ subs' = step.subagents /\ Quiet
             /\ IF step.subagents # <<>> THEN at' = "subs" /\ UNCHANGED next
                ELSE Advance("plan", "dispatch", next)
    /\ UNCHANGED <<order, sent>> /\ Still

(* Its subagents, one reading each. *)
PlanSubagent ==
    /\ at = "subs" /\ Reads("sub", Head(subs))
    /\ LET outcome == Outcome(Head(subs)) IN
       \/ Raised(outcome)
       \/ /\ outcome = "ok" /\ subs' = Tail(subs) /\ Quiet
          /\ IF Len(subs) > 1 THEN at' = "subs" /\ UNCHANGED next
             ELSE Advance("plan", "dispatch", next)
    /\ UNCHANGED <<order, sent>> /\ Still

(* Faulty variant: dispatch relies on the plan. *)
DispatchPlanned ==
    /\ at = "dispatch" /\ at' = "send"
    /\ Quiet /\ UNCHANGED <<readings, subs, next, order, sent>> /\ Still

(* dispatch resolves the step's agent again and audits every FailClosed. *)
DispatchResolve ==
    /\ at = "dispatch" /\ Reads("dispatch", order[next].agent)
    /\ LET outcome == Outcome(order[next].agent) IN
       \/ outcome = "ok" /\ at' = "send" /\ Quiet /\ UNCHANGED <<subs, next>>
       \/ outcome \in {"denied", "unknown", "unreachable"} /\ Denied
       \/ outcome = "broken" /\ Quiet /\ UNCHANGED subs /\ Fails("raised")
    /\ UNCHANGED <<order, sent>> /\ Still

(* Faulty variant: a bus that is down is nobody's denial. *)
DispatchSendSilent ==
    /\ at = "send"
    /\ \/ Quiet /\ UNCHANGED <<subs, sent>> /\ Fails("raised")
       \/ ~torn /\ Quiet /\ UNCHANGED subs /\ sent' = next /\ Advance("dispatch", "done", next)
    /\ UNCHANGED <<order, readings>> /\ Still

(* The bus is down at the probe, or by the time of the send: a denial.     *)
(* TaskMessage refuses a text that names a credential, or a record in the  *)
(* store cannot be parsed: neither is caught here or audited.  Or the      *)
(* message is sent; the task id is fresh, so the store never refuses it.   *)
DispatchSend ==
    /\ at = "send"
    /\ \/ Denied /\ UNCHANGED sent
       \/ silent' = "text" /\ UNCHANGED <<audited, subs, sent>> /\ Fails("raised")
       \/ torn /\ Quiet /\ UNCHANGED <<subs, sent>> /\ Fails("raised")
       \/ ~torn /\ Quiet /\ UNCHANGED subs /\ sent' = next /\ Advance("dispatch", "done", next)
    /\ UNCHANGED <<order, readings>> /\ Still

Edit == /\ edits < MaxEdits /\ at \notin Ended /\ edits' = edits + 1
        /\ harness' \in Editable \ {harness}
        /\ UNCHANGED <<plan, torn, at, order, next, subs, sent, audited, silent, readings>>

Next == Load \/ PlanStep \/ PlanSubagent \/ DispatchResolve \/ DispatchSend \/ Edit

Spec == Init /\ [][Next]_vars

-----------------------------------------------------------------------------
(* Properties *)

(* A workflow is refused exactly if its ids or needs are bad or no order    *)
(* respects them; otherwise each step comes after all it needs.             *)
Respects(steps) == \A i \in DOMAIN steps : \A n \in ToSet(steps[i].needs) :
                      \E k \in 1..(i - 1) : steps[k].id = n
Orders(steps) == {[i \in DOMAIN steps |-> steps[f[i]]] :
                     f \in {f \in [DOMAIN steps -> DOMAIN steps] : IsInjective(f)}}
NeedsFirst ==
    plan.kind = "workflow" =>
       /\ order # <<>> => order \in Orders(plan.steps) /\ Respects(order)
       /\ at = "refused" => \/ Duplicate(plan.steps) \/ ~Parses(plan.steps)
                            \/ ~\E steps \in Orders(plan.steps) : Respects(steps)

(* "Plans all steps before any side effect": once there is a message, every *)
(* step has had, in the harness as it was when it was planned, a lawful     *)
(* agent, lawful subagents and its functions; and what is sent had a lawful *)
(* agent again when it was dispatched.                                      *)
LawfulReading(purpose, i, agent) ==
    \E r \in readings :
       /\ r.purpose = purpose /\ r.step = i /\ r.agent = agent
       /\ Lawful(agent, order[i].account, HarnessOf[r.harness], User)
       /\ purpose = "plan" => LET allow == HarnessOf[r.harness].functions
                              IN allow # {} => ToSet(order[i].functions) \subseteq allow
AllowedWhenSent ==
    sent > 0 =>
       /\ \A i \in 1..Len(order) :
             /\ LawfulReading("plan", i, order[i].agent)
             /\ \A a \in ToSet(order[i].subagents) : LawfulReading("sub", i, a)
       /\ \A i \in 1..sent : LawfulReading("dispatch", i, order[i].agent)

(* A run that stopped short names the step it stopped at, and no other, in *)
(* an audit line, unless the store, the harness or the user's              *)
(* configuration could not be read, the line could not be written, or the  *)
(* bus refused a text; a run that did not stop has sent every step and     *)
(* denied none.                                                            *)
ShortRunExplained ==
    /\ at = "raised" /\ order # <<>> =>
          \/ audited = {order[next].id} /\ \A i \in 1..sent : order[i].id \notin audited
          \/ audited = {} /\ (torn \/ User.state # "file" \/ silent # "none")
          \/ /\ audited = {}
             /\ \E r \in readings : r.step = next
                                  /\ HarnessOf[r.harness].state \in {"unreachable", "broken"}
    /\ at = "done" => audited = {} /\ silent = "none" /\ sent = Len(order)
=============================================================================
