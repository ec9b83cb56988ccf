-------------------------------- MODULE Gateway --------------------------------
(***************************************************************************)
(* ravand serve: one process whose main thread answers HTTP requests, one  *)
(* at a time, beside a cron thread and a worker thread, over one in-memory *)
(* bus and the session directory on disk.  The harness is edited, the      *)
(* process interrupted, killed and started again at any time.              *)
(*                                                                         *)
(* A step of a thread is a reading of the harness, one operation on the    *)
(* session directory or one on the bus.  start() reads the directory in    *)
(* one step here: only one other thread writes, a file at a time (Dispatch *)
(* has a step for each file).                                              *)
(***************************************************************************)
EXTENDS CronSpec

CONSTANTS Jobs,       \* cron jobs, in the order of the harness (a sequence)
          SpecOf,     \* their specs
          Requests,   \* HTTP requests: to run a task (POST /run), or
          Hooks,      \* those that are deliveries to a webhook
          TaskOf,     \* the task of a request: the client's taskId, which may be
                      \* an occurrence's; a webhook's is fresh
          Unit,       \* units of time in a minute
          Epoch,      \* minutes of the calendar at time 0
          EditTo,     \* what an edit may make of the harness (see Policies)
          MaxTime,    \* bound on the time
          MaxTurns    \* bound on the starts of the process and the changes of
                      \* the harness together

JobSet == {Jobs[i] : i \in DOMAIN Jobs}
Minutes == 0..(MaxTime \div Unit)
Tasks == (JobSet \X Minutes) \union {TaskOf[r] : r \in Requests}

(* What the harness makes of a trigger: it resolves to the classification   *)
(* and account the trigger names, or to others, is denied, has no jobs, is  *)
(* not there, cannot be reached, has a cron job or a webhook with a bad     *)
(* entry, or is no TOML.                                                    *)
Policies == {"fits", "misfit", "denied", "nojobs", "missing", "unreachable",
             "badjob", "badhook", "broken"}

ASSUME GatewayAssumption ==
    /\ Jobs \in Seq(JobSet) /\ SpecOf \in [JobSet -> CronSpecs] /\ Requests # {}
    /\ Hooks \subseteq Requests /\ EditTo \subseteq Policies
    /\ \A h \in Hooks : /\ TaskOf[h] \notin JobSet \X Minutes
                        /\ \A r \in Requests \ {h} : TaskOf[r] # TaskOf[h]
    /\ Unit \in Nat \ {0} /\ MaxTime \in Nat /\ MaxTurns \in Nat /\ Epoch \in Nat

VARIABLES now, policy, edits, up, starts,
          cron,       \* the cron thread: place, jobs to do, its minute, wake time
          http,       \* the main thread: place, request
          worker,     \* the worker thread: place, task
          backlog,    \* connections not yet accepted
          answer,     \* whether a request is being made, or was
          queue,      \* the bus: task messages in order
          file,       \* session records: "absent", "torn" or "running"
          audited,    \* occurrences with a trigger.denied in the log
          sent, ticked,   \* history: messages per task, minutes whose tick went
                          \* through the jobs
          raced,      \* history: tasks that both threads were starting at once
          misfits     \* history: triggers that went on under a misfit, although
                      \* the harness was not edited since their own check

threads == <<cron, http, worker, backlog, answer>>
history == <<audited, sent, ticked, raced, misfits>>
vars == <<now, policy, edits, up, starts, threads, queue, file, history>>

(* load_cron_jobs and load_webhook parse every entry, or raise; without a   *)
(* harness or without jobs there is nothing to do.                          *)
CronFails == policy \in {"badjob", "broken", "unreachable"}
NoJobs == policy \in {"nojobs", "missing", "unreachable"}
HasJobs == policy \notin {"badjob", "broken", "nojobs", "missing"}

(* resolve looks at neither, but refuses without a harness. *)
Resolves == policy \in {"fits", "misfit", "nojobs", "badjob", "badhook"}
Denies == policy \in {"denied", "missing"}

(* The places of a dispatch; it is "late" when the harness was edited since *)
(* the thread's last look at it.                                            *)
Busy == {"dispatch", "late", "start", "write", "fill", "send"}

TypeOK == /\ now \in 0..MaxTime /\ policy \in Policies /\ edits \in 0..MaxTurns
          /\ up \in {"up", "stopping", "down"} /\ starts \in 0..MaxTurns
          /\ cron \in [at : Busy \union {"sleep", "job", "ended"},
                      todo : {SubSeq(Jobs, i, Len(Jobs)) : i \in 1..(Len(Jobs) + 1)},
                      minute : Minutes, wake : 0..(MaxTime + Unit)]
          /\ cron.at \in Busy => cron.todo # <<>>
          /\ http \in [at : Busy \union {"accept", "read", "handle", "ended"}, req : Requests]
          /\ worker \in [at : {"idle", "run", "ended"}, task : Tasks]
          /\ worker.at = "run" => queue # <<>>
          /\ backlog \in Seq(Requests) /\ answer \in [Requests -> {"none", "waiting", "done"}]
          /\ \A i \in DOMAIN backlog : answer[backlog[i]] = "waiting"
          /\ queue \in Seq(Tasks) /\ file \in [Tasks -> {"absent", "torn", "running"}]
          /\ \A i \in DOMAIN queue :
                file[queue[i]] = "running" \/ (file[queue[i]] = "torn" /\ queue[i] \in raced)
          /\ sent \in [Tasks -> Nat] /\ ticked \subseteq Minutes
          /\ audited \subseteq Tasks /\ raced \subseteq Tasks /\ misfits \subseteq Tasks

(* The threads of a process that has just started. *)
FreshCron == [at |-> "sleep", todo |-> <<>>, minute |-> 0, wake |-> now]
NoCron == [at |-> "ended", todo |-> <<>>, minute |-> 0, wake |-> 0]
IdleHttp(place) == [at |-> place, req |-> CHOOSE r \in Requests : TRUE]
IdleWorker(place) == [at |-> place, task |-> CHOOSE t \in Tasks : TRUE]

Init == /\ now = 0 /\ policy = "fits" /\ edits = 0 /\ up = "down" /\ starts = 0
        /\ cron = NoCron
        /\ http = IdleHttp("ended") /\ worker = IdleWorker("ended")
        /\ backlog = <<>> /\ answer = [r \in Requests |-> "none"]
        /\ queue = <<>> /\ file = [t \in Tasks |-> "absent"]
        /\ audited = {} /\ sent = [t \in Tasks |-> 0]
        /\ ticked = {} /\ raced = {} /\ misfits = {}

(* The calendar (datetime), external; months are taken to have 31 days. *)
InstantAt(minute) ==
    LET m == Epoch + minute
    IN [minute |-> m % 60, hour |-> (m \div 60) % 24, weekday |-> (m \div 1440) % 7,
        day |-> 1 + ((m \div 1440) % 31), month |-> 1 + ((m \div 44640) % 12)]

-----------------------------------------------------------------------------
(* dispatch, for the thread whose task is t *)

(* dispatch resolves again: Going is the thread's way on, Denied its way    *)
(* out (TaskMessage may refuse a text as well), Raised the way out of a     *)
(* harness that is no TOML.  A trigger that went on has been checked.       *)
DispatchResolve(t, checked, Going, Denied, Raised) ==
    \/ /\ Resolves /\ Going
       /\ misfits' = IF policy = "misfit" /\ checked THEN misfits \union {t} ELSE misfits
    \/ policy # "broken" /\ Denied /\ UNCHANGED misfits
    \/ policy = "broken" /\ Raised /\ UNCHANGED misfits

Torn == \E t \in Tasks : file[t] = "torn"

(* The cron thread, or the main thread, is between reading the directory    *)
(* and writing its record of t.                                             *)
CronAbout(t, places) == cron.at \in places /\ <<Head(cron.todo), cron.minute>> = t
HttpAbout(t, places) == http.at \in places /\ TaskOf[http.req] = t
Writing(t) == CronAbout(t, {"write"}) \/ HttpAbout(t, {"write"})

(* Faulty variant: a record of a task that is not queued may be started anew. *)
StartLost(t, Going, Refused, Raised) ==
    \/ /\ ~Torn /\ (file[t] = "absent" \/ \A i \in DOMAIN queue : queue[i] # t)
       /\ Going /\ raced' = IF Writing(t) THEN raced \union {t} ELSE raced
    \/ /\ file[t] = "running" /\ \E i \in DOMAIN queue : queue[i] = t
       /\ Refused /\ UNCHANGED raced
    \/ (Torn \/ worker.at = "run") /\ Raised /\ UNCHANGED raced

(* store.start reads every record: one of this task refuses it, a torn one  *)
(* (the worker's run writes some of its own as well) raises what nobody     *)
(* catches.                                                                 *)
Start(t, Going, Refused, Raised) ==
    \/ /\ ~Torn /\ file[t] = "absent" /\ Going
       /\ raced' = IF Writing(t) THEN raced \union {t} ELSE raced
    \/ file[t] = "running" /\ Refused /\ UNCHANGED raced
    \/ (Torn \/ worker.at = "run") /\ Raised /\ UNCHANGED raced

(* Its own record: truncated, then written. *)
Truncate(t) == file' = [file EXCEPT ![t] = "torn"]

(* Faulty variant: the record is never filled. *)
FillNothing(t) == UNCHANGED file

Fill(t) == file' = [file EXCEPT ![t] = "running"]

(* The in-memory bus is always reachable. *)
Send(t) == queue' = Append(queue, t) /\ sent' = [sent EXCEPT ![t] = @ + 1]

-----------------------------------------------------------------------------
(* The cron thread *)

CronTask == <<Head(cron.todo), cron.minute>>
CronAt(place) == cron' = [cron EXCEPT !.at = place]
CronNext == cron' = [cron EXCEPT !.at = "job", !.todo = Tail(@)]
CronEnds == cron' = NoCron
CronSleeps == cron' = [FreshCron EXCEPT !.wake = now + Unit]
Rest == UNCHANGED <<now, policy, edits, up, starts>>
NotCron == UNCHANGED <<http, worker, backlog, answer>>

(* serve_cron wakes; fire_cron takes the instant and loads the jobs.  If    *)
(* there are none the tick is over.                                         *)
CronWake ==
    /\ up = "up" /\ cron.at = "sleep" /\ now >= cron.wake
    /\ \/ HasJobs /\ cron' = [cron EXCEPT !.at = "job", !.todo = Jobs, !.minute = now \div Unit]
       \/ NoJobs /\ CronSleeps
       \/ CronFails /\ CronEnds
    /\ UNCHANGED <<queue, file, history>>
    /\ Rest /\ NotCron

DueNow == JobIsDue(SpecOf[Head(cron.todo)], InstantAt(cron.minute))

(* The job is refused, or its trigger no longer matches. *)
Unlawful == policy = "misfit" \/ Denies

(* A spec that cannot be read, or a due job and a policy that cannot, or a  *)
(* refusal that cannot be logged.                                           *)
Fatal(due) == \/ due = "raise"
              \/ due = "yes" /\ (Unlawful \/ policy \in {"unreachable", "broken"})

(* Faulty variant: the trigger's classification is not compared. *)
CronCheckAny ==
    /\ cron.at = "job" /\ cron.todo # <<>>
    /\ LET due == DueNow IN
       \/ due = "no" /\ CronNext /\ UNCHANGED audited
       \/ due = "yes" /\ Resolves /\ CronAt("dispatch") /\ UNCHANGED audited
       \/ due = "yes" /\ Denies /\ CronNext /\ audited' = audited \union {CronTask}
       \/ Fatal(due) /\ CronEnds /\ UNCHANGED audited
    /\ UNCHANGED <<queue, file, sent, ticked, raced, misfits>>
    /\ Rest /\ NotCron

(* Faulty variant: a job that policy denies is skipped in silence. *)
CronCheckSilent ==
    /\ cron.at = "job" /\ cron.todo # <<>>
    /\ LET due == DueNow IN
       \/ due = "no" /\ CronNext
       \/ due = "yes" /\ Unlawful /\ CronNext
       \/ due = "yes" /\ Resolves /\ policy # "misfit" /\ CronAt("dispatch")
       \/ Fatal(due) /\ CronEnds
    /\ UNCHANGED <<queue, file, history>>
    /\ Rest /\ NotCron

(* The next job: skipped when not due, skipped and audited when policy      *)
(* denies it or its classification, account or secret no longer matches.    *)
CronCheck ==
    /\ cron.at = "job" /\ cron.todo # <<>>
    /\ LET due == DueNow IN
       \/ due = "no" /\ CronNext /\ UNCHANGED audited
       \/ due = "yes" /\ Resolves /\ policy # "misfit" /\ CronAt("dispatch") /\ UNCHANGED audited
       \/ /\ due = "yes" /\ Unlawful /\ CronNext
          /\ audited' = audited \union {CronTask}
       \/ Fatal(due) /\ CronEnds /\ UNCHANGED audited
    /\ UNCHANGED <<queue, file, sent, ticked, raced, misfits>>
    /\ Rest /\ NotCron

(* The job's dispatch.  Only a refused start lets the tick go on. *)
CronDispatch ==
    /\ \/ /\ cron.at \in {"dispatch", "late"}
          /\ DispatchResolve(CronTask, cron.at = "dispatch", CronAt("start"), CronEnds, CronEnds)
          /\ UNCHANGED <<audited, raced, file, queue, sent>>
       \/ /\ cron.at = "start" /\ Start(CronTask, CronAt("write"), CronNext, CronEnds)
          /\ UNCHANGED <<audited, misfits, file, queue, sent>>
       \/ /\ cron.at = "write" /\ Truncate(CronTask) /\ CronAt("fill")
          /\ UNCHANGED <<audited, raced, misfits, queue, sent>>
       \/ /\ cron.at = "fill" /\ Fill(CronTask) /\ CronAt("send")
          /\ UNCHANGED <<audited, raced, misfits, queue, sent>>
       \/ /\ cron.at = "send" /\ Send(CronTask) /\ CronNext
          /\ UNCHANGED <<audited, raced, misfits, file>>
    /\ UNCHANGED ticked /\ Rest /\ NotCron

(* The tick is over; sleep(interval) begins now, whatever the tick took. *)
CronSleep ==
    /\ cron.at = "job" /\ cron.todo = <<>>
    /\ CronSleeps
    /\ ticked' = ticked \union {cron.minute}
    /\ UNCHANGED <<queue, file, audited, sent, raced, misfits>>
    /\ Rest /\ NotCron

-----------------------------------------------------------------------------
(* The main thread *)

HttpAt(place) == http' = [http EXCEPT !.at = place] /\ UNCHANGED answer
Answered(r) == IF r \in Hooks THEN "done" ELSE "none"

(* Faulty variant: an exception of a handler ends serve_forever. *)
ReplyOrEnd(code) == /\ http' = IdleHttp(IF code = "closed" THEN "ended" ELSE "accept")
                    /\ answer' = [answer EXCEPT ![http.req] = Answered(http.req)]

(* The request ends: with an HTTP status, or "closed" without one. *)
Reply(code) == /\ http' = IdleHttp("accept")
               /\ answer' = [answer EXCEPT ![http.req] = Answered(http.req)]

NotHttp == UNCHANGED <<cron, worker, ticked>>
Quiet == UNCHANGED <<queue, file, audited, sent, raced, misfits>>

(* A client connects; it may repeat a request to run a task, a webhook's    *)
(* delivery has a task of its own.                                          *)
Connect(r) ==
    /\ up = "up" /\ answer[r] = "none"
    /\ backlog' = Append(backlog, r)
    /\ answer' = [answer EXCEPT ![r] = "waiting"]
    /\ Rest /\ NotHttp /\ Quiet /\ UNCHANGED http

(* serve_forever takes the next connection; the request's head, and the     *)
(* body it announces, come when the client sends them, or the client goes   *)
(* away.                                                                    *)
Accept ==
    /\ up = "up" /\ http.at = "accept" /\ backlog # <<>>
    /\ http' = [at |-> "read", req |-> Head(backlog)]
    /\ backlog' = Tail(backlog)
    /\ Rest /\ NotHttp /\ Quiet /\ UNCHANGED answer

Receive ==
    /\ http.at = "read"
    /\ HttpAt("handle") \/ Reply("400") \/ Reply("closed")
    /\ Rest /\ NotHttp /\ Quiet /\ UNCHANGED backlog

(* handle_webhook: an unknown path, a missing secret, a wrong signature and *)
(* a policy that denies or no longer matches are 403, "closed" if that      *)
(* cannot be logged (under the trigger's name, which is no task's); so is a *)
(* harness that cannot be read.                                             *)
Webhook ==
    /\ http.at = "handle" /\ http.req \in Hooks
    /\ \/ policy \in {"fits", "nojobs", "badjob"} /\ HttpAt("dispatch")
       \/ policy # "broken" /\ Reply("403")
       \/ policy # "badhook" /\ Reply("closed")
    /\ Rest /\ NotHttp /\ Quiet /\ UNCHANGED backlog

(* _handle_run: what the body says is checked, then dispatched. *)
RunRequest ==
    /\ http.at = "handle" /\ http.req \notin Hooks
    /\ HttpAt("dispatch") \/ Reply("400")
    /\ Rest /\ NotHttp /\ Quiet /\ UNCHANGED backlog

(* The request's dispatch: a refusal is 403, any other exception ends the   *)
(* connection without an answer, as does a refusal by the store that the    *)
(* webhook cannot log.                                                      *)
HttpDispatch ==
    LET t == TaskOf[http.req] IN
    /\ \/ /\ http.at \in {"dispatch", "late"}
          /\ DispatchResolve(t, http.at = "dispatch" /\ http.req \in Hooks,
                             HttpAt("start"), Reply("403"), Reply("closed"))
          /\ UNCHANGED <<audited, raced, file, queue, sent>>
       \/ /\ http.at = "start"
          /\ Start(t, HttpAt("write"), Reply("403") \/ Reply("closed"), Reply("closed"))
          /\ UNCHANGED <<audited, misfits, file, queue, sent>>
       \/ /\ http.at = "write" /\ Truncate(t) /\ HttpAt("fill")
          /\ UNCHANGED <<audited, raced, misfits, queue, sent>>
       \/ /\ http.at = "fill" /\ Fill(t) /\ HttpAt("send")
          /\ UNCHANGED <<audited, raced, misfits, queue, sent>>
       \/ /\ http.at = "send" /\ Send(t) /\ (Reply("200") \/ Reply("closed"))
          /\ UNCHANGED <<audited, raced, misfits, file>>
    /\ Rest /\ NotHttp /\ UNCHANGED backlog

-----------------------------------------------------------------------------
(* The worker thread *)

NotWorker == UNCHANGED <<now, policy, edits, up, starts, cron, http, backlog, answer,
                         file, history>>

(* Faulty variant: the message is settled before its policy is resolved. *)
WorkerReadSettle ==
    /\ up = "up" /\ worker.at = "idle" /\ queue # <<>>
    /\ IF Resolves
       THEN worker' = [at |-> "run", task |-> Head(queue)] /\ UNCHANGED queue
       ELSE queue' = Tail(queue) /\ UNCHANGED worker
    /\ NotWorker

(* run_once reads the first visible message, which for a worker alone is    *)
(* the first; if its workspace is gone, the thread ends.                    *)
WorkerRead ==
    /\ up = "up" /\ worker.at = "idle" /\ queue # <<>>
    /\ \/ worker' = [at |-> "run", task |-> Head(queue)]
       \/ worker' = IdleWorker("ended")
    /\ UNCHANGED queue
    /\ NotWorker

(* A run that succeeded is archived; another is visible again, in its       *)
(* place; one that raises ends the thread.                                  *)
WorkerSettle ==
    /\ worker.at = "run"
    /\ \/ worker' = IdleWorker("idle") /\ queue' \in {queue, Tail(queue)}
       \/ worker' = IdleWorker("ended") /\ UNCHANGED queue
    /\ NotWorker

-----------------------------------------------------------------------------
(* The process and its surroundings *)

(* The harness is edited, or goes out of reach and comes back. *)
Overtaken(place) == IF place = "dispatch" THEN "late" ELSE place
Edit ==
    /\ edits + starts < MaxTurns /\ edits' = edits + 1
    /\ policy' \in EditTo \ {policy}
    /\ cron' = [cron EXCEPT !.at = Overtaken(@)] /\ http' = [http EXCEPT !.at = Overtaken(@)]
    /\ UNCHANGED <<now, up, starts, worker, backlog, answer, queue, file, history>>

Tick == /\ now < MaxTime /\ now' = now + 1
        /\ UNCHANGED <<policy, edits, up, starts, threads, queue, file, history>>

(* serve_all resolves its root and starts the three threads. *)
Serve ==
    /\ up = "down" /\ edits + starts < MaxTurns /\ Resolves
    /\ up' = "up" /\ starts' = starts + 1
    /\ cron' = FreshCron /\ http' = IdleHttp("accept") /\ worker' = IdleWorker("idle")
    /\ UNCHANGED <<now, policy, edits, backlog, answer, queue, file, history>>

(* Ctrl+C, in whatever the main thread was doing: it sets the stop event    *)
(* and joins the others for a second each; they stop at their next sleep.   *)
Interrupt ==
    /\ up = "up"
    /\ up' = "stopping"
    /\ http' = IdleHttp("ended")
    /\ UNCHANGED <<now, policy, edits, starts, cron, worker, backlog, answer, queue, file, history>>

(* The process is gone, and its bus with it. *)
Gone ==
    /\ up' = "down"
    /\ cron' = NoCron
    /\ http' = IdleHttp("ended") /\ worker' = IdleWorker("ended")
    /\ backlog' = <<>> /\ queue' = <<>>
    /\ answer' = [r \in Requests |-> IF answer[r] = "waiting" THEN Answered(r) ELSE answer[r]]
    /\ UNCHANGED <<now, policy, edits, starts, file, history>>

(* The joins are over: what still runs in a thread is cut off. *)
Exit == up = "stopping" /\ Gone
Crash == up # "down" /\ Gone

CronStep == CronWake \/ CronCheck \/ CronDispatch \/ CronSleep
HttpStep == Accept \/ Webhook \/ RunRequest \/ HttpDispatch
WorkerStep == WorkerRead \/ WorkerSettle

Next == \/ CronStep \/ HttpStep \/ Receive \/ WorkerStep
        \/ \E r \in Requests : Connect(r)
        \/ Edit \/ Tick \/ Serve \/ Interrupt \/ Exit \/ Crash

(* The main and the worker thread are scheduled, a run ends, and the joins  *)
(* give up; nothing is asked of the cron thread, and nobody need edit,      *)
(* connect, send its request, interrupt or restart.                         *)
Spec == /\ Init /\ [][Next]_vars
        /\ WF_vars(HttpStep) /\ WF_vars(WorkerStep) /\ WF_vars(Exit)

-----------------------------------------------------------------------------
(* Properties *)

(* However often the process is killed and started again within a minute,   *)
(* and a client repeats a request: one message per occurrence and per task, *)
(* or two for an occurrence whose name a client gives to a request that the *)
(* main thread starts while the cron thread starts it.                      *)
OncePerTask == \A t \in Tasks : sent[t] <= (IF t \in raced THEN 2 ELSE 1)

(* "Skipped and audited": a tick that found the jobs and finished has left, *)
(* for every job that its spec (read as a set of minutes) makes due, a      *)
(* record or an audit line, and no tick a message for a minute the spec     *)
(* does not mean, unless a client asked for it by that name.                *)
TickAccounts ==
    \A i \in DOMAIN Jobs, m \in Minutes :
       LET t == <<Jobs[i], m>>
           due == Due(SpecOf[Jobs[i]], InstantAt(m))
       IN /\ m \in ticked /\ file[t] = "absent" /\ t \notin audited => ~due
          /\ sent[t] > 0 => due \/ \E r \in Requests : TaskOf[r] = t

(* A trigger's task is dispatched under a classification that no longer     *)
(* matches only if the harness was edited after the trigger's own check.    *)
MatchedOrEdited == misfits = {}

(* A message in the bus is taken up while the process is up and its worker  *)
(* thread lives, unless the worker runs some other task for ever again.     *)
RunsTask(t) == worker.at = "run" /\ worker.task = t
EveryTaskRuns ==
    \A t \in Tasks :
       \/ (\E i \in DOMAIN queue : queue[i] = t)
             ~> (RunsTask(t) \/ up # "up" \/ worker.at = "ended")
       \/ \E u \in Tasks \ {t} : []<>RunsTask(u)

(* Whoever has connected is answered or cut off, however many are before    *)
(* it, unless a client that never sends the rest of its request (its head,  *)
(* or the body it announced) holds the only HTTP thread.                    *)
RequestsEnd ==
    <>[](http.at = "read") \/ \A r \in Requests : answer[r] = "waiting" ~> answer[r] # "waiting"
=============================================================================
