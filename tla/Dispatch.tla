------------------------------- MODULE Dispatch -------------------------------
(***************************************************************************)
(* dispatch(): resolve the policy, probe the bus, start a session record,  *)
(* send the message; called by cron and HTTP threads of several processes  *)
(* that share the session directory, next to run_prompt calls that start   *)
(* and finish records of their own in it.  A step is one call of the bus,  *)
(* one file operation, or local code.  A process may die between two       *)
(* steps, and the bus may go down and come back at any time.               *)
(***************************************************************************)
EXTENDS SessionStore

CONSTANTS Calls,     \* calls of dispatch()
          Runs       \* calls of run_prompt()

ASSUME DispatchAssumption ==
    /\ Records = Calls \union Runs
    /\ Calls \intersect Runs = {}
    \* run_prompt draws a fresh task id
    /\ \A r \in Runs, x \in Records : TaskOf[r] = TaskOf[x] => r = x

VARIABLES pc,        \* where each call is
          busUp,     \* what require_reachable and send find
          queue,     \* the calls whose message is on q.tasks
          denied,    \* the calls that audited agent.denied
          unlogged,  \* history: the calls whose agent.denied the audit log
                     \* could not take
          earlier    \* history: at the listing of a call, the records that
                     \* had to refuse it

vars == <<storeVars, pc, busUp, queue, denied, unlogged, earlier>>

Ended == {"returned", "raised", "dead"}
PC == Ended \union {"resolve", "probe", "build", "scan", "write", "fill",
                    "send", "live", "rewrite"}

TypeOK == /\ StoreTypeOK
          /\ pc \in [Records -> PC]
          /\ busUp \in BOOLEAN
          /\ queue \subseteq Calls
          /\ denied \subseteq Calls
          /\ unlogged \subseteq Calls
          /\ earlier \in [Records -> SUBSET Records]

Init == /\ StoreInit
        /\ pc = [r \in Records |-> IF r \in Calls THEN "resolve" ELSE "build"]
        /\ busUp = TRUE
        /\ queue = {}
        /\ denied = {}
        /\ unlogged = {}
        /\ earlier = [r \in Records |-> {}]

At(r, l) == pc[r] = l
Goto(r, l) == pc' = [pc EXCEPT ![r] = l]

-----------------------------------------------------------------------------
(* dispatch *)

(* _audit_denied: best effort, an OSError of the audit log is swallowed. *)
AuditDenied(c) == \/ denied' = denied \union {c} /\ UNCHANGED unlogged
                  \/ unlogged' = unlogged \union {c} /\ UNCHANGED denied

(* resolve(): a refusal is audited and raised; what is no TOML only raises. *)
Resolve(c) ==
    /\ c \in Calls /\ At(c, "resolve")
    /\ \/ (Goto(c, "probe") \/ Goto(c, "raised")) /\ UNCHANGED <<denied, unlogged>>
       \/ Goto(c, "raised") /\ AuditDenied(c)
    /\ UNCHANGED <<storeVars, busUp, queue, earlier>>

(* bus.require_reachable(). *)
Probe(c) ==
    /\ At(c, "probe")
    /\ \/ busUp /\ Goto(c, "build") /\ UNCHANGED <<denied, unlogged>>
       \/ ~busUp /\ Goto(c, "raised") /\ AuditDenied(c)
    /\ UNCHANGED <<storeVars, busUp, queue, earlier>>

(* The listing sees records that must refuse r: complete ones of its task, *)
(* and files whose writer died half way.                                   *)
MustRefuse(r) ==
    {q \in Present : Blocks(q, r) \/ (Torn(q) /\ At(q, "dead"))}

(* TaskMessage refuses a text that names a credential, which nobody        *)
(* audits, or store.start lists the directory.  run_prompt, its agent      *)
(* connected, begins here.                                                 *)
Begin(r) ==
    /\ At(r, "build")
    /\ \/ /\ ListFiles(r)
          /\ Goto(r, "scan")
          /\ earlier' = [earlier EXCEPT ![r] = MustRefuse(r)]
       \/ Goto(r, "raised") /\ UNCHANGED <<storeVars, earlier>>
    /\ UNCHANGED <<busUp, queue, denied, unlogged>>

(* store.start reads the next file of its listing. *)
Scan(r) ==
    /\ At(r, "scan")
    /\ \/ PassFile(r) /\ UNCHANGED pc
       \/ RefuseStart(r) /\ Goto(r, "raised")
       \/ todo[r] = {} /\ Goto(r, "write") /\ UNCHANGED storeVars
    /\ UNCHANGED <<busUp, queue, denied, unlogged, earlier>>

(* Faulty variant: run_prompt's record is treated like a dispatched one. *)
WriteAndSend(r) ==
    /\ \/ At(r, "write") /\ Truncate(r) /\ Goto(r, "fill")
       \/ At(r, "fill") /\ Fill(r, "running") /\ Goto(r, "send")
    /\ UNCHANGED <<busUp, queue, denied, unlogged, earlier>>

(* store.start writes its own record. *)
Write(r) ==
    /\ \/ At(r, "write") /\ Truncate(r) /\ Goto(r, "fill")
       \/ /\ At(r, "fill")
          /\ Fill(r, "running")
          /\ Goto(r, IF r \in Calls THEN "send" ELSE "live")
    /\ UNCHANGED <<busUp, queue, denied, unlogged, earlier>>

(* Faulty variant: the message goes out before the record is complete. *)
SendEarly(c) ==
    /\ pc[c] \in {"fill", "send"} /\ c \in Calls /\ busUp
    /\ queue' = queue \union {c}
    /\ Goto(c, "returned")
    /\ UNCHANGED <<storeVars, busUp, denied, unlogged, earlier>>

(* Faulty variant: a send that fails is not raised. *)
SendQuietly(c) ==
    /\ At(c, "send")
    /\ queue' = IF busUp THEN queue \union {c} ELSE queue
    /\ Goto(c, "returned")
    /\ UNCHANGED <<storeVars, busUp, denied, unlogged, earlier>>

(* bus.send: on failure the record stays, and FailClosed is raised, even   *)
(* if the message was stored and only the reply was lost.                  *)
Send(c) ==
    /\ At(c, "send")
    /\ \/ /\ busUp
          /\ queue' = queue \union {c}
          /\ Goto(c, "returned")
          /\ UNCHANGED <<denied, unlogged>>
       \/ /\ queue' \in {queue} \union (IF busUp THEN {queue \union {c}} ELSE {})
          /\ Goto(c, "raised")
          /\ AuditDenied(c)
    /\ UNCHANGED <<storeVars, busUp, earlier>>

-----------------------------------------------------------------------------
(* run_prompt's finish(): truncate, then write the final status. *)
Finish(r) ==
    /\ \/ At(r, "live") /\ Truncate(r) /\ Goto(r, "rewrite")
       \/ /\ At(r, "rewrite")
          /\ \E s \in {"ok", "error", "auth"} : Fill(r, s)
          /\ Goto(r, "returned")
    /\ UNCHANGED <<busUp, queue, denied, unlogged, earlier>>

(* The process of the call dies; its file stays as it is. *)
Die(r) ==
    /\ pc[r] \notin Ended
    /\ Goto(r, "dead")
    /\ UNCHANGED <<storeVars, busUp, queue, denied, unlogged, earlier>>

(* The bus is lost and found. *)
BusFlips ==
    /\ busUp' = ~busUp
    /\ UNCHANGED <<storeVars, pc, queue, denied, unlogged, earlier>>

Step(r) == Resolve(r) \/ Probe(r) \/ Begin(r) \/ Scan(r) \/ Write(r)
           \/ Send(r) \/ Finish(r)

Next == \/ \E r \in Records : Step(r) \/ Die(r)
        \/ BusFlips

Spec == Init /\ [][Next]_vars /\ \A r \in Records : WF_vars(Step(r))

-----------------------------------------------------------------------------
(* Properties *)

(* A message on q.tasks has its session record on disk, whatever died or   *)
(* failed meanwhile, and the record still says running.                    *)
QueuedIsRecorded == \A c \in queue : file[c] = "running"

(* A start that lists the directory when a running or finished record of   *)
(* its task is in it, or one whose writer died half way, sends nothing,    *)
(* even if it reads the files while others write theirs.                   *)
LaterStartRefused == \A c \in queue : earlier[c] = {}

(* dispatch returns only when its message was sent.  A caller that got an  *)
(* exception when its record was complete, so that a session that says     *)
(* running stays behind and maybe a message too, finds the refusal in the  *)
(* audit log, unless the log itself could not be written.                  *)
ToldTheTruth ==
    \A c \in Calls :
        /\ At(c, "returned") => c \in queue
        /\ At(c, "raised") /\ file[c] = "running" => c \in denied \union unlogged

(* At most one message per task: "Session Store rejects second start". *)
OneMessagePerTask == \A c, d \in queue : TaskOf[c] = TaskOf[d] => c = d
=============================================================================
