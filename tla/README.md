# Formal model of Ravand Agents

Ravand runs coding agents (processes that speak ACP, JSON-RPC over stdio) on
behalf of a user or an organisation. A *policy* decides which agent may run
where; a *task* is a prompt for an agent; it is either run at once
(`run_prompt`) or dispatched to a queue from which a *worker* takes it. The
code under `src/packages` is Python; this directory holds its TLA+ model, the
TLC runs that check the model on small instances, and the TLAPS proofs of what
holds for every instance.

## 1. Inventory

Paths are below `src/packages`; `runtime/` stands for
`runtime/src/ravand_runtime/`.

| Component | State it keeps | Operations | Correct when |
|---|---|---|---|
| Bus (`bus/.../__init__.py` in memory, `pgmq.py` on Postgres) | rows of `q.tasks`, their visibility time, the receipts of each process | `send read heartbeat archive ack poison` | a task leaves the queue only through a successful run; a task that was read comes back |
| Worker (`runtime/worker.py`) | flags cordoned, draining, stopped, busy; the idle event; a heartbeat thread per run | `run_once cordon drain`, `serve_worker` loop | runs of one task do not overlap; after `drain()` nothing runs; the lease is renewed while the run lives |
| Session store (`sessions/`) | one JSON file per record, shared by all processes of a user | `start finish load` | a task that runs or has run is not started again |
| Dispatcher (`runtime/dispatch.py`) | none; writes a record, then a message | `dispatch` | a queued message has its record; the caller learns what happened |
| ACP run (`runtime/run.py`, `plan.py`) | status, exit code, overflow flag, plan flag of an attempt; a watcher thread | `run_prompt`, `on_permission`, overflow | records, audit log, grants and exit code agree; a cancelled run ends |
| ACP client (`runtime/acp.py`) | the agent's pipes, the reader's buffer, the request id | `request`, handshake deadline, `ensure_authenticated` | every message of a turn reaches its handler once; the handshake ends; an answer that came is heard |
| Human queue (`runtime/human_queue.py`) | one JSON file per request | `enqueue decide wait` | allowed only by the named approver in time; timeout is deny and stays deny |
| Policy (`policy/`) | none; reads harness.toml, user config, vault | `resolve`, `secret_present` | denied agents and accounts never resolve |
| Workflow, pipeline, step runner (`runtime/workflow.py pipeline.py step_runner.py`) | none; a list of steps | `run_workflow run_pipeline run_policy_steps` | order respects `needs`; nothing is dispatched when a step is denied |
| Cron (`runtime/cron.py`) | jobs file; the loop's tick | `add_job fire_cron serve_cron` | an occurrence is dispatched at most once |
| HTTP and webhook (`runtime/http_api.py webhook.py`) | none between requests | `POST` handlers | one request, one dispatch |
| serve (`runtime/serve.py`) | cron and worker threads, one bus, a stop event | `serve_all` | the threads end with the server |
| ACP server (`runtime/serve_acp.py`), steer (`steer.py`) | map of sessions; none | request loop; `session/load` and prompt | a prompt runs under the policy of its session |
| Memory, audit, plugins, hooks, permissions, profile, registry, tracer | append-only files, directories; no shared flags | | |
| Terminal UI (`cli/.../tui.py`) | busy, asking, the answer, the cancel event; a queue of events, buffers, a transcript | the prompt, y and n, ctrl+c, the timer, the run thread's callbacks | a run learns what the user did and nothing else; no event is lost; a stop ends the run |
| CLI (`cli/.../cli.py`) | pause markers | | |

How they interact: CLI, UI and ACP server call `run_prompt`; cron, HTTP and
workflows call `dispatch`, which calls the session store and then the bus; the
worker reads from the bus and runs the task. `dispatch` and `run_prompt` of
different threads and processes meet in the session directory, which has no
lock. Workers meet in the bus. Within a worker process the worker thread, its
heartbeat thread and whoever calls `cordon()` or `drain()` share flags; within
a run, the run thread, the watcher thread of the cancel event and the agent
process share two pipes.

What is hard here: a lease that expires under a live run; bus calls that fail,
or succeed without an answer, at every point of `run_once`; a heartbeat thread
that outlives its run; a drain between the read and the busy flag; a process
that dies between the record and the message; two starts of one task whose file
operations interleave; an agent that dies, hangs, stops reading, or closes its
pipe at any point of a run; a hook that does not end; a cancel at any point,
including the one before the first request; two attempts that share a task, a
session store and one exit code; a human's answer that races a timeout on one
file; a harness that is edited between two of its readings; a timer that flushes
the events a second thread is still writing; a deadline that watches a pipe
while the answer is in a buffer. `PROJECT.json` lists them as hazards, each at
its line and with the properties that would catch it.

## 2. Modules

| Module | Models | Extends or instantiates |
|---|---|---|
| `Bus` | the queue, its visibility times and receipts, as operators on state | |
| `TaskQueue` | abstract: what the queue promises a dispatcher | |
| `Worker` | `run_once`, heartbeat thread, `cordon`, `drain`, crash, restart, the clock | `Bus`; `TaskQueue` through the mapping `Delivery` |
| `SessionStore` | the record files, `start` as listing, reads and write, `finish` | |
| `Dispatch` | `dispatch` calls beside `run_prompt` calls on one directory and one bus | `SessionStore` |
| `RunPrompt` | both attempts of `run_prompt`, agents, watchers, cancel | |
| `AcpClient` | one connection: requests, framing, pipe, buffer, deadline | |
| `HumanQueue` | callers of `ask_*`, `decide`, `wait` on one directory; the wall clock | |
| `Policy` | `resolve` and what it calls, as operators; the documents' rules beside them | |
| `Steps` | `run_workflow`, `run_pipeline`, `run_policy_steps` over an edited harness | `Policy` |
| `CronSpec` | the five-field matcher, and what a spec means, as operators | |
| `Gateway` | `serve`: HTTP, cron and worker threads, one bus, edits, kill, restart | `CronSpec` |
| `Tui` | the UI thread, the user, the run thread and its sink | |
| `WorkerProofs`, `DispatchProofs`, `RunPromptProofs`, `HumanQueueProofs`, `GatewayProofs`, `TuiProofs`, `AcpClientProofs`, `StepsProofs` | the theorems | the module they are about |
| `MCWorker`, `MCDispatch`, `MCRunPrompt`, `MCHumanQueue`, `MCSteps`, `MCGateway` | constants for TLC | |

**Grain.** A step of a thread is what it does between two points where another
thread, process or the agent can see or change what it uses: one bus call, one
file operation, one block under `Worker._lock`, one exchange with the agent.
Local code next to it belongs to the same step. `PROJECT.json` maps every
definition to its lines.

**Bus and Worker.** Time is relative: `hidden[m]` is `visible_at - now` in
ticks, so nothing grows. The code's 30 s heartbeat interval and 600 s timeout
are the constants `HB` and `VT`, of which only `HB < VT` is used.
`receipts[w]` is the provider object's dictionary, separate from the row, so
that a row can be redelivered or removed behind a receipt. `_busy` and `_idle`
always change together under the lock and are one variable. A bus call that
raises may have taken effect (`Unanswered`): the statement was executed and
its reply was lost. A heartbeat is a lookup and a write; after
`join(timeout=1)` gave up, the write may still come (`strays`).

**SessionStore and Dispatch.** `write_text` truncates and then fills, so a
reader may meet an empty file, which `start()` does not survive. `earlier` is a
history variable, set when a call lists the directory: the records that were
then obliged to refuse it. `_audit_denied` swallows an `OSError` of the audit
log; `unlogged` is history and has the calls to which that happened. The refusal
of `TaskMessage` (a text that names a credential) and a harness that is no TOML
are audited by nobody.

**RunPrompt.** The record, run.started, run.ended and auth.missing of each
attempt are kept apart. Text, events and spans are left out. The policy, the
hook, the broker and the user are nondeterministic verdicts; the agent may
answer, ask, fail, or die at any point, and owes nothing. `stuck` says that a
broken send left its bytes in the stdin buffer, which `close()` then flushes.
`jammed` says that the run thread is in a write to an agent that has stopped
reading; it holds the lock of stdin, so the watcher cannot close it. The place
`hooking` is the wait for the hook's command, which has no timeout. `Held` names
these two and the unfinished line of a handshake: what nothing in the code ends.

**AcpClient.** What `RunPrompt` takes as one exchange is here the stream of
bytes. The agent's output is one sequence of pieces (a header, a blank line,
the begin and the end of a message) and four counters say how many have been
said, have reached the pipe, are in the reader's buffer, and have been taken.
`select` sees the second and the third only by their difference; that is where
the deadline and the buffer disagree. Bytes within a piece are not counted, so
"a part of a line" is a begin without its end. A line that is no JSON is `Junk`:
the request raises. Writes do not block here; that is in `RunPrompt`.

**HumanQueue.** A call of any process is: read the file, read the clock,
truncate, fill, audit. The clock is a number that may move anywhere between two
steps. `raced` and `consent` are history: the requests two calls held as
pending at once, and those whose approver allowed them in time.

**Policy and Steps.** `Checks` is the sequence of `resolve`'s checks, each with
what its failure raises, because who catches what depends on it. `Lawful` is the
same question asked of the documents: who may ever run here. `Steps` reads the
harness once for each call of `resolve`, and the harness may be another one at
the next. `silent` says why a failure left no line: the audit log could not be
written, or the bus refused the text. `Topo` is Kahn's algorithm in rounds, one
for each step that can be put in order; a need that is repeated is as many
edges. A `permissions` mode that SCHEMA.md does not list is not rejected by
`resolve`, which knows only the three that may write (`WriteShellPermissions`);
`CustomerRule` is stated for those.

**CronSpec and Gateway.** `FieldMatch` tries the parts of a field as the code
does, `Denotes` is the set of values they count out, from where a part
starts, which may be below the first value of the field. `Gateway` is one `serve`
process: its main thread serves HTTP, one request at a time; the cron thread
sleeps, loads the jobs and dispatches those that are due; the worker thread runs
the first message. They share the in-memory bus and the session directory, and
the dispatch of each thread is here in four steps (resolve, start, fill, send).
`policy` is what a reading of the harness would give at this moment: it fits
the triggers, misfits them, denies them, has no jobs, is not there, cannot be
reached, has a bad cron or webhook entry, or is no TOML. `load_cron_jobs` then
finds the jobs, finds none (and the tick is over), or raises (and the thread
ends). A request runs a task (`POST /run`, whose `taskId` the client chooses, an
occurrence's name too) or delivers a webhook, whose id is fresh. Its head and
its body come when the client sends them (`Receive`). `raced` is history: the
tasks that the cron and the main thread were starting at once. A kill loses the
bus and keeps the directory.

**Tui.** A handler of textual's event loop is one step. The timer's flush is
not: it takes one event of its batch at a time while the sink appends behind
it, and a line of its own starts a flush inside the flush (`frames`). `view` has
what is displayed, what is in `#stream` only, and the buffers of thinking and
text, each event by its number; `Applied` is a callback's flush, event by event.
`call_from_thread` blocks the run thread, so a callback's flush is one step.
`run_prompt` appears by what the UI sees of it: events, questions, its return,
and that it may be held (`stalled`) where nothing bounds the time.

**Faulty variants.** An operator whose comment begins with "Faulty variant" is
no part of the specification. It is the definition after it with one plausible
mistake; each property is shown to fail when such a variant replaces the
definition, so that a property that holds says something about the code.

## 3. What is checked

| Run | Instance | Shows |
|---|---|---|
| `worker_timely` | 2 workers, 1 task, VT = 2, HB = 1, no bus faults; both may be cordoned, drained, killed, restarted | `OneRunner`, `DeliversTasks` (in the exclusive form), `DrainReturns` |
| `worker_faults` | 2 workers of different fitness and disks, 2 tasks, bus faults, threads as slow as they like; one is operated, the other may die | `TypeOK`, `ReceiptHeld`, `DrainedIsIdle`, `DeliversTasks` (at least once), `BecomesVisible` |
| `dispatch` | 2 dispatch calls of one task, 1 of another, 1 `run_prompt` call; deaths, bus outages, an audit log that fails | `TypeOK`, `QueuedIsRecorded`, `LaterStartRefused`, `ToldTheTruth` |
| `run_prompt` | every choice of options, up to 2 permission requests in each attempt | `OverflowAccepted`, `PlanBeforeWrite`, `GrantsAudited`, `ReturnsClean`, `ExitTellsOutcome`, `CancelEnds` |
| `human_queue` | 3 callers, 1 request, its approver and another name, a clock of 3 values | `TypeOK`, `AllowedByApprover`, `OneAnswer`, `DecisionAudited`, `DecisionStands` |
| `gateway` | 2 cron jobs (Sunday as 7; a bad part), a request named like an occurrence and a webhook's delivery, 2 minutes across midnight of a Saturday with a tick in each, 2 starts or 1 start and 1 edit (to any of 5 harnesses) | `TypeOK`, `OncePerTask`, `TickAccounts`, `MatchedOrEdited`, `EveryTaskRuns`, `RequestsEnd` |
| `steps` | all graphs of 3 steps with up to 3 needs (repeated, unknown, circular), pipelines; 9 harnesses, 2 edits | `TypeOK`, `NeedsFirst`, `AllowedWhenSent`, `ShortRunExplained` |
| `tui` | 2 runs, 2 questions, 2 events beside those of questions and endings | `TypeOK`, `ToldByUser`, `EventsShown`, `StopEnds` |
| `acp_client` | both framings, 5 messages of the agent, 2 login methods | `TypeOK`, `TurnComplete`, `HandshakeEndsOrTorn` |

Some of the properties deserve a word.

- `DeliversTasks` is a refinement: with `runs` as the workers between the start
  of `_run` and the answer to it, the worker model implements `TaskQueue`, in
  which a task leaves only by `Complete`.
- `LaterStartRefused` is what `start()` guarantees without a lock: a call that
  lists the directory after another's record is complete sends nothing,
  whatever the interleaving of its reads with other writes.
- `OverflowAccepted` relates the two attempts through the store's own rule.
- `ToldTheTruth` is about what stays behind when `dispatch` raises: a complete
  record without its run, and maybe a message, has its refusal in the audit log.
  It excepts a log that could not be written (`_audit_denied` is best effort),
  and nothing else: the unaudited refusals come before the record.
- `CancelEnds` says that the watcher reaches a run thread that waits without a
  deadline, in either attempt. It excepts a run that is held for ever: by an
  agent that stalls within a line of its handshake, when there is no watcher
  yet; by a hook's command; by a write that the agent never reads. `StopEnds` is
  the same promise as ctrl+c makes it, with the same exception.
  `HandshakeEndsOrTorn` shows that nothing else makes a handshake hang.
- `OneAnswer` and `DecisionStands` say exactly how far "timeout is deny" goes
  without a lock: answers differ only if two calls had both loaded the request
  as pending before either wrote, and once nobody holds it, nobody will.
- `TickAccounts` compares the matcher with the meaning of a spec and says
  "skipped and audited" of every job that was due in a tick that found the jobs.
  A tick that finds no harness, or no jobs in it, passes in silence: the code
  audits nothing there.
- `OncePerTask` is the same occurrence under kills, restarts and a tick repeated
  within a minute. It allows two messages for an occurrence whose name a client
  gives to a request, if the two threads start it at once (`raced`).
- `RequestsEnd` has two clients: the one behind waits only as long as a client
  that owes its head or its body holds the thread, for which the code has no
  timeout. `EveryTaskRuns` likewise has messages behind others.
- `MatchedOrEdited` says how stale a trigger's check may be: only an edit
  between it and the dispatch's own reading lets a misfit pass.
- `AllowedWhenSent` holds "plans all steps before any side effect" against the
  documents' rules, in the harness as it was at each of its readings;
  `ShortRunExplained` says what a failure in the middle leaves behind, and that
  the audit log names the step. It excepts what is raised without a denial: a
  store's record, a harness or a user's configuration that cannot be read, a
  text the bus refuses, and a line the log could not take. The instance has a
  user that can be read; the theorem has any.
- `EventsShown` accounts for every event of a run across queue, batches,
  buffers and screen. Order is promised only across the line of a decision.

Runs that show where the code and its documents disagree:

| Run | Document | What happens |
|---|---|---|
| `worker_drain_hang` | HLD "drain: finish in-flight, then stop" | the first heartbeat is outside the `try`; when it fails, busy stays raised and `drain()` waits for ever |
| `dispatch_twice` | HLD "rejects second start if status is running" | two starts list the directory before either writes: two messages |
| `acp_handshake` | `acp.py` "Content-Length framing"; AuthRequired is "no cached credential satisfied the handshake" | `select` asks the pipe while the answer lies in the reader's buffer: an answer with headers in one write, or a line behind a notification, runs into the deadline and is reported as a missing login |

Other disagreements are behaviours of the models above without a run of their
own; the properties are stated so that they allow them:

- One failed heartbeat call ends the heartbeat thread and the run goes on
  without a lease (`worker.py:128`; HLD "Heartbeat while the run is live"). In
  `worker_faults` two workers may therefore run one task.
- The agent is gone before a request is written: `close()` raises a second time
  in the `finally`, and neither `store.finish` nor run.ended happens
  (`run.py:521`). `ReturnsClean` speaks of runs that return.
- The deadline guards the wait for the first byte only; a part of a line, and
  `readline()` waits for ever (`acp.py:132`; test_acp_auth "must not block
  forever").
- A real crash of the agent is an EOF or a broken pipe and names no overflow
  marker (`run.py:43`), though USAGE lists a crash as a reason for overflow.
- A cancel between `store.start` and the attempt returns before the `try`
  (`Enter`): the record stays running, the client open, run.ended unaudited.
  `ReturnsClean` therefore speaks of runs that were not cancelled.
- A hook is run without a timeout (`hooks/__init__.py:40`), and a write to an
  agent that has stopped reading holds the lock that `close()` needs
  (`acp.py:115`, `acp.py:106`): neither the watcher nor ctrl+c ends such a run.
- `TaskMessage` refuses a text that names a credential outside of any `try`
  (`dispatch.py:62`): the refusal is in no audit log, and a workflow stops
  between two steps with an exception that nobody catches
  (`step_runner.py:128`).
- Without a harness at the moment of a tick, or without jobs in it, what was due
  is skipped and not audited (`cron.py:104`; MODULAR.md speaks of a job "whose
  account or classification no longer matches").
- `POST /run` takes any `taskId`, that of a cron occurrence included: started by
  both threads at once it gets two messages, started by the client first it
  is refused to the cron job without an audit line (`cron.py:288`).
- A client that sends no head, or less than it announced, keeps every other
  waiting (`http_api.py:96`).
- Terminal UI: a flush inside a flush can show a newer event before an older
  one; `_idle` gives up the reply's bubble before its last flush, so the last
  text of a reply may be in `#stream` only, which is not displayed; "ctrl+c
  again to quit" never quits while a run is going, a stalled handshake included;
  an exception of `run_prompt` other than the two that are caught ends the app.

**Bounds.** Two workers are enough for every overlap of two runs, and one of
them can crash while the other takes over. `VT = 2` with `HB = 1` is the
smallest pair in which a heartbeat may be on time or late. Two tasks let a read
pass over a hidden message. Three dispatch calls have a racing pair and a
bystander, and the `run_prompt` call is the only one that rewrites a file. Two
permission requests are the fewest in which a plan allowed for the first is
remembered for the second. Three callers of the human queue are a maker who
waits, an approver, and one who races or outlives both; requests do not
interact, so one is enough. The gateway's two minutes straddle the hour, the
midnight and the weekday at which its two specs change their mind, and a process
that lives ticks in both; two starts let a kill come between any two steps and
the tick be repeated; one edit falls between any two readings. The five
harnesses are those that differ in what a reading does; of the others, one
without jobs is like a missing one to the cron thread, and one with a bad entry
or out of reach ends a thread, as the broken one does. They are in the proofs.
Three steps have every shape of order, diamond and cycle short of a fourth step.
Two runs of the terminal UI let everything that is left of one meet the other,
two questions an answer that is left over; two events are a flush with one
behind it. Five messages are the four answers that lead into the prompt and one
that goes before, between or into any of them. Where there are proofs they
remove these bounds for the safety properties.

**Deadlock** is checked in the worker runs and in `human_queue`, where a
clock, a reader or a caller can always act. The others end (a run, a
connection, an app) or may find that nobody types or connects, and so turn it
off.

**Fairness.** Worker: each worker thread, its heartbeat thread and a waiting
`drain()` are scheduled, a run ends, time passes. Nobody must cordon, drain,
restart or send, and a bus call may fail every time. Dispatch: each call goes on
unless its process dies. RunPrompt: the run thread and the watcher are
scheduled; a silent handshake runs into its deadlines and a user who is asked
answers. The agent has no fairness at all and neither has a hook: nobody ends
the wait for the rest of a line (`Stall`), for the hook (`HookEnds`), or in a
write (`Unjam`); `CancelEnds` holds when the agent is silent for ever.
AcpClient: the run thread is scheduled and the deadline passes. Gateway: the
main and the worker thread are scheduled, a run of the worker ends, `serve`'s
joins give up after their second; nothing is asked of the cron thread, of a
client that owes its head or its body (`Receive`), or of whoever edits,
interrupts and restarts. Tui: textual's loop runs the timer and the callbacks,
the run thread is scheduled where the UI can tell (policy, handshake deadlines,
the wait for an answer), and a live run that was cancelled ends unless it is
held for ever, which is `CancelEnds` (strong fairness, as the run may be held
and come back); nothing is asked of the user, the agent or a hook. HumanQueue
and Steps have safety properties only and no fairness. `Timely` (in
`worker_timely` and `WorkerOneRunner`) says that the short steps around a run,
and a heartbeat that is due, happen within a tick. Without it a lease can expire
under any code.

## 4. What is proved

The proofs are for every value of the constants, under the assumptions
`BusAssumption`, `WorkerAssumption` (`HB < VT`; sets are subsets of what they
select from), `DispatchAssumption` (a `run_prompt` draws a fresh task id),
`RunPromptAssumption`, `HumanQueueAssumption`, `GatewayAssumption` (specs are
what `split` and `int` can leave of a text; a webhook draws a fresh task id, a
request has any), `TuiAssumption`,
`AcpClientAssumption` and `StepsAssumption` (needs and subagents are lists, and
a file is there, missing, unreachable or no TOML). TLC evaluates the assumptions
in the runs.

- `WorkerProofs`. `SafeInv` is `TypeOK` with three facts: a thread that holds a
  message knows which (`JobKnown`), a heartbeat thread exists only beside a run
  (`BeatOwned`), and `ReceiptHeld`. It is inductive and gives `WorkerTypeOK` and
  `WorkerReceiptHeld`. `DrainInv` (busy from the claim to the close, a drainer
  implies draining, a drainer that returned implies stopped and idle) gives
  `WorkerDrainedIsIdle`: `DrainedIsIdle` alone is not inductive, since a claim
  must be excluded by the flag it rechecks. `LeaseInv` gives `WorkerOneRunner`
  for timely threads and a bus that is up: whoever holds a message has at
  least as much of its lease left as time until its next heartbeat, plus one
  tick, hence nobody else can read it. `WorkerDeliversTasks` is the refinement:
  Init maps to `TaskQueue`'s Init, and every step, under `SafeInv`, `JobSent`
  (what a worker holds was sent) and for timely threads `LeaseInv`, to a step of
  `TaskQueue` or a stutter. `RunsGain` and `RunsLose` say how one worker's place
  changes the set of runs.
- `DispatchProofs`. `OwnFile` ties each call's place in the code to what its
  file holds; `StillRefused` says that a call whose listing contained a record
  that must refuse it still has that record to read, and that the record still
  refuses. Both are needed for `DispatchLaterStartRefused`, since the call may
  read other files first. `DispatchQueuedIsRecorded` follows from `OwnFile`.
  `DispatchToldTheTruth` is inductive beside the types and `OwnFile`: nobody but
  the call itself moves it, sends its message or audits its refusal, and it
  raises with a complete record in `Send` alone.
- `RunPromptProofs`. `LedgerInv` ties the run thread's place to the current
  attempt's record, run.ended count, client and exit code; `PhaseInv` says that
  the other attempt is still to come, or over with a record that lets the task
  start again; `BrokerInv` relates requests, grants, audit and plan. Together
  they are inductive and give the six theorems. Type correctness of this model
  is proved and not repeated in a run.
- `HumanQueueProofs`, for any number of requests and callers, any windows, any
  movement of the clock. `AllowInv` adds to `AllowedByApprover` that a call on
  its way to write an allow has the approver's consent. `AuditInv` strengthens
  `DecisionAudited`: the call that is about to audit holds just the decision
  that is on disk, for otherwise its line would not be the one that is missing.
  `OneInv` is what makes `OneAnswer` inductive. It says who knows of a request
  that is still to be filled (`MakerInv`: its maker only), and that, as long as
  no two calls held it, the one that does finds it as it left it and nobody was
  told anything (`SoleInv`). `DecisionStands` is an action property and needs
  only the types: the one way into `Holders` is a file that says "pending", and
  the one way back to "pending" is from a file that is not yet filled.
- `GatewayProofs`. `JobIsDueDecides` compares the matcher with the meaning of a
  spec, for every spec; `TickAccounts` carries it into a tick. `TypeInv` has one
  part for each thread (`CronOK`, `HttpOK`, `WorkerOK`), one for the rest, and
  two that relate them. `FileInv` is about one task at a time: the messages
  sent and those a thread past `start()` still owes are one together, two if
  both threads were starting it, and unless they were, the record tells how far
  its one dispatch is (`Fine`). A dispatching thread changes it in one of a few
  ways (`Goes`), which `GoesKeeps` checks once for both. `QueueInv` says that a
  message has its record. `FileInv` gives `GatewayOncePerTask`, for requests of
  any name: `OncePerTask` alone does not say that a thread about to send has not
  sent. `MatchInv` gives `GatewayMatchedOrEdited`, `TickInv` (the jobs of a tick
  before those still to do are accounted for, the one in hand is due)
  `GatewayTickAccounts`.
- `TuiProofs`. `ToldInv` is `ControlOK` with `AskInv`: the request in hand has
  been pressed by nobody until it is answered, and the answer that waits for the
  run is what was pressed. It gives `TuiControlOK` and `TuiToldByUser`. `OutInv`
  is about the output: every event emitted is in exactly one place (the queue, a
  batch or a line of a flush under way, a buffer, the screen or `#stream`); one
  that is still to be displayed is no decision and is newer than every decision
  on the screen (`Waits`, without which `AskOrder` is not inductive); decisions
  are in order on the screen; and no run emits more than its updates, decisions
  and two endings (`CreditInv`). Every step of a flush, nested ones included,
  moves the first events of one place to the end of another, and `MoveGood`
  shows once and for all that such a move keeps the invariant; `NewGood` does so
  for a new event, and `FlushedGood` for a callback's whole flush, by induction
  over the queue. Hence `TuiTypeOK` and `TuiEventsShown`, for any length of the
  queue and any depth of flushes.
- `AcpClientProofs`. `TurnInv` follows the turn from its first piece: before the
  prompt nothing counts, during it the reader stands within the message after
  the last one handled, and `handed` and `answered` are the begins of the
  messages so far, in order. With `TypeOK` it is inductive and gives
  `AcpTurnComplete`.
- `StepsProofs` has three parts. *Kahn's algorithm*, for any list of steps with
  distinct ids: `KahnInv` says of every round that `ordered` and `ready` are the
  steps whose needs are all ordered, each once, and that `incoming` counts the
  needs that are not; after as many rounds as there are steps none is ready.
  Hence `TopoRespects`, `TopoOrders`, and `TopoComplete`: in an order that
  respects the needs, the first step that Kahn's algorithm left out would have
  all its needs ordered. The induction over rounds is one over a set of numbers
  (`AllNumbers`, from the least element of its complement). *resolve*:
  `ResolveIsLawful` says that a call that passes the sixteen checks is granted
  by the documents' rules. *The runner*: `PlanInv` follows the planning (all
  steps before the one in hand, of that one its agent and the subagents no
  longer to do) and what has been dispatched, `AuditInv` what has been denied, or
  why there is no line of it (`silent`);
  with the types and the order they are inductive and give the four `Steps`
  theorems.

Only model-checked: liveness under fairness, which the prover does not do
(`DrainReturns`, `BecomesVisible`, `CancelEnds`, `EveryTaskRuns`, `RequestsEnd`,
`StopEnds`, `HandshakeEndsOrTorn`), and the three disagreements. Every invariant
and every other action property of the runs has its theorem.

## 5. Not modelled, and why

- PGMQ and Postgres, ACP agents, model services, textual: external, seen
  through their use in `src/packages`.
- `poison`, `ack(success=True)`, `users.py`, `require_skill`: no caller in
  the repository. The run callback of `run_policy_steps`: only tests pass one.
- Parsing and validation (TOML, HTTP bodies, manifests), signatures,
  rendering, spans, secrets' contents: no state, one exit per refusal; their
  outcome is a choice where a modelled component calls them.
- ACP server: one thread, one request at a time, each prompt a `run_prompt`
  without a cancel event; `session/close` ends the server. Nothing interleaves.
- Steer: one `session/load` and one prompt on a finished record, without a
  record of its own and without the plan gate; `RunPrompt`'s attempt minus the
  store.
- Native loop: one blocking request to a model service.
- Memory, audit log: an append of a line, a read of a file. What a failure of
  either does to a run is in `RunPrompt`.
- Plugin host: one writer, `rmtree` and then `copytree`. A crash between the two
  loses the plugin; no document promises otherwise.
- Hooks, permissions, profile and registry helpers: lookups, whose verdicts are
  choices in `RunPrompt`, where a hook's command also takes its time. The
  classification of a tool call as a write or a shell likewise.
- Tracer: output only.
- CLI: argument parsing. The pause marker is read once by `ravand run`, and by no
  other caller of `run_prompt`.

## 6. Plan

Done, in this order: `Bus`, `TaskQueue`, `Worker`; `SessionStore`, `Dispatch`;
`RunPrompt`; `HumanQueue`; `Policy`, `Steps`; `CronSpec`, `Gateway`; `Tui`;
`AcpClient`; proofs of `Worker`, `Dispatch`, `RunPrompt`, `HumanQueue`, then of
`Gateway`, `Tui`, `AcpClient`, `Steps` and of the refinement of `TaskQueue`. To
come:

1. An abstract approval (a question answered once, by an approver or by its
   deadline) that `HumanQueue` implements, with the proof of the refinement.
2. `Steer` and the ACP server, should they come to run beside another prompt of
   the same session.
