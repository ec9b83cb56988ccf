------------------------------ MODULE HumanQueue ------------------------------
(***************************************************************************)
(* HumanQueue: one JSON file per request under RAVAND_HOME, with a named   *)
(* approver and a deadline.  Any process may create a request and wait for *)
(* it (ask_permission, ask_plan), or decide one.  A call reads the file    *)
(* and the wall clock and then writes, with no lock; write_text truncates  *)
(* the file before it fills it.  The wall clock may jump.                  *)
(***************************************************************************)
EXTENDS Integers, FiniteSets

CONSTANTS Requests,   \* the requests that are ever made
          Callers,    \* processes that call the queue, one call at a time
          Names,      \* what a caller may give as actor
          ApproverOf, \* the approver a request names
          WindowOf,   \* its timeout_sec
          MaxTime     \* bound: the wall clock shows 0..MaxTime

ASSUME HumanQueueAssumption ==
    /\ Requests # {} /\ Names # {}
    /\ ApproverOf \in [Requests -> Names]
    /\ WindowOf \in [Requests -> Nat]
    /\ MaxTime \in Nat

VARIABLES file,       \* what the file of each request holds
          created,    \* created_at of each request
          clock,      \* what the wall clock shows
          pc,         \* where each caller is in its call
          call,       \* its call: request, method, actor, and the status it
                      \* would write
          told,       \* history: the answers callers got for a request
          audited,    \* the decisions of a request in the audit log
          consent,    \* history: requests whose approver allowed them in time
          raced,      \* history: requests that two calls held as pending
          unlogged    \* history: requests of which a writer died too early

vars == <<file, created, clock, pc, call, told, audited, consent, raced,
          unlogged>>
history == <<told, audited, consent, raced, unlogged>>

Decisions == {"allow", "deny"}
CallType == [q : Requests, method : {"ask", "decide", "wait"}, actor : Names,
             status : Decisions]
Nothing == [q |-> CHOOSE q \in Requests : TRUE, method |-> "wait",
            actor |-> CHOOSE n \in Names : TRUE, status |-> "deny"]

TypeOK == /\ file \in [Requests -> Decisions \union {"absent", "torn", "pending"}]
          /\ created \in [Requests -> 0..MaxTime]
          /\ clock \in 0..MaxTime
          /\ pc \in [Callers -> {"idle", "enqueue", "load", "check", "write",
                                 "fill", "audit"}]
          /\ call \in [Callers -> CallType]
          /\ told \in [Requests -> SUBSET Decisions]
          /\ audited \in [Requests -> SUBSET Decisions]
          /\ consent \subseteq Requests
          /\ raced \subseteq Requests
          /\ unlogged \subseteq Requests

Init == /\ file = [q \in Requests |-> "absent"]
        /\ created = [q \in Requests |-> 0]
        /\ clock \in 0..MaxTime
        /\ pc = [p \in Callers |-> "idle"]
        /\ call = [p \in Callers |-> Nothing]
        /\ told = [q \in Requests |-> {}]
        /\ audited = [q \in Requests |-> {}]
        /\ consent = {}
        /\ raced = {}
        /\ unlogged = {}

Req(p) == call[p].q
Goto(p, l) == pc' = [pc EXCEPT ![p] = l]
SetFile(q, s) == file' = [file EXCEPT ![q] = s]

(* The calls that read a request as pending and may still write it. *)
Holders(q) == {p \in Callers : Req(p) = q /\ pc[p] \in {"check", "write", "fill"}}

(* A call ends, by an exception or with an answer for its request. *)
End(p) == /\ Goto(p, "idle")
          /\ call' = [call EXCEPT ![p] = Nothing]
Tell(p, answer) == /\ End(p)
                   /\ told' = [told EXCEPT ![Req(p)] = @ \union {answer}]

-----------------------------------------------------------------------------
(* A caller makes a request and waits for it, decides one, or waits for one. *)
(* Arguments that the queue refuses at once are left out.                   *)
Begin(p) ==
    /\ pc[p] = "idle"
    /\ \E c \in CallType :
          /\ c.method = "ask" => /\ file[c.q] = "absent"
                                 /\ \A r \in Callers : pc[r] = "enqueue" => Req(r) # c.q
          /\ c.method # "decide" => c.actor = Nothing.actor /\ c.status = "deny"
          /\ call' = [call EXCEPT ![p] = c]
          /\ Goto(p, IF c.method = "ask" THEN "enqueue" ELSE "load")
    /\ UNCHANGED <<file, created, clock, history>>

(* enqueue reads the clock and creates the file, then fills it; wait next. *)
Enqueue(p) ==
    /\ pc[p] = "enqueue"
    /\ \/ /\ file[Req(p)] = "absent"
          /\ created' = [created EXCEPT ![Req(p)] = clock]
          /\ SetFile(Req(p), "torn")
          /\ UNCHANGED <<pc, call>>
       \/ /\ file[Req(p)] = "torn"
          /\ SetFile(Req(p), "pending")
          /\ call' = [call EXCEPT ![p].method = "wait"]
          /\ Goto(p, "load")
          /\ UNCHANGED created
    /\ UNCHANGED <<clock, history>>

(* The call goes on with a request it read as pending. *)
Hold(p) == /\ Goto(p, "check")
           /\ raced' = IF Holders(Req(p)) = {} THEN raced ELSE raced \union {Req(p)}
           /\ UNCHANGED <<call, told>>

(* Faulty variant: whatever is not pending is the answer. *)
LoadAny(p) ==
    /\ pc[p] = "load"
    /\ \/ file[Req(p)] # "pending" /\ Tell(p, file[Req(p)]) /\ UNCHANGED raced
       \/ file[Req(p)] = "pending" /\ Hold(p)
    /\ UNCHANGED <<file, created, clock, audited, consent, unlogged>>

(* Faulty variant: decide() may overrule a deny. *)
LoadDenied(p) ==
    /\ pc[p] = "load"
    /\ \/ file[Req(p)] \in {"absent", "torn"} /\ End(p) /\ UNCHANGED <<told, raced>>
       \/ /\ file[Req(p)] \in (IF call[p].method = "wait" THEN Decisions ELSE {"allow"})
          /\ Tell(p, file[Req(p)]) /\ UNCHANGED raced
       \/ file[Req(p)] \in {"pending", "deny"} /\ Hold(p)
    /\ UNCHANGED <<file, created, clock, audited, consent, unlogged>>

(* _load: an unknown request and a torn file raise; a decided request is    *)
(* answered from the file.                                                  *)
Load(p) ==
    /\ pc[p] = "load"
    /\ \/ file[Req(p)] \in {"absent", "torn"} /\ End(p) /\ UNCHANGED <<told, raced>>
       \/ file[Req(p)] \in Decisions /\ Tell(p, file[Req(p)]) /\ UNCHANGED raced
       \/ file[Req(p)] = "pending" /\ Hold(p)
    /\ UNCHANGED <<file, created, clock, audited, consent, unlogged>>

(* _expired: outside the window, or before it when the clock was set back. *)
Expired(q) == clock < created[q] \/ clock >= created[q] + WindowOf[q]

(* Faulty variant: whoever comes in time decides. *)
CheckAnybody(p) ==
    /\ pc[p] = "check"
    /\ LET q == Req(p) IN
       \/ /\ Expired(q) \/ call[p].method = "decide"
          /\ Goto(p, "write")
          /\ call' = [call EXCEPT ![p].status = IF Expired(q) THEN "deny" ELSE @]
          /\ consent' = IF ~Expired(q) /\ call'[p].status = "allow" /\ call[p].actor = ApproverOf[q]
                        THEN consent \union {q} ELSE consent
       \/ ~Expired(q) /\ call[p].method = "wait" /\ End(p) /\ UNCHANGED consent
    /\ UNCHANGED <<file, created, clock, told, audited, raced, unlogged>>

(* A pending request is denied once it has expired, whoever asks; before,   *)
(* its approver decides it, and any other decide() and a wait() raise.      *)
Check(p) ==
    /\ pc[p] = "check"
    /\ LET q == Req(p)
           approver == call[p].method = "decide" /\ call[p].actor = ApproverOf[q] IN
       \/ /\ Expired(q) \/ approver
          /\ Goto(p, "write")
          /\ call' = [call EXCEPT ![p].status = IF Expired(q) THEN "deny" ELSE @]
          /\ consent' = IF call'[p].status = "allow" THEN consent \union {q} ELSE consent
       \/ ~Expired(q) /\ ~approver /\ End(p) /\ UNCHANGED consent
    /\ UNCHANGED <<file, created, clock, told, audited, raced, unlogged>>

(* _write: truncate, then fill. *)
Write(p) ==
    /\ \/ pc[p] = "write" /\ SetFile(Req(p), "torn") /\ Goto(p, "fill")
       \/ pc[p] = "fill" /\ SetFile(Req(p), call[p].status) /\ Goto(p, "audit")
    /\ UNCHANGED <<created, clock, call, history>>

(* Faulty variant: a deny by timeout is not audited. *)
AuditDecided(p) ==
    /\ pc[p] = "audit"
    /\ audited' = IF call[p].method = "wait" THEN audited
                  ELSE [audited EXCEPT ![Req(p)] = @ \union {call[p].status}]
    /\ Tell(p, call[p].status)
    /\ UNCHANGED <<file, created, clock, consent, raced, unlogged>>

(* _audit_decision; the call returns what it decided. *)
Audit(p) ==
    /\ pc[p] = "audit"
    /\ audited' = [audited EXCEPT ![Req(p)] = @ \union {call[p].status}]
    /\ Tell(p, call[p].status)
    /\ UNCHANGED <<file, created, clock, consent, raced, unlogged>>

(* The process of a caller dies in its call; files stay as they are. *)
Die(p) ==
    /\ pc[p] # "idle"
    /\ End(p)
    /\ unlogged' = IF pc[p] = "audit" THEN unlogged \union {Req(p)} ELSE unlogged
    /\ UNCHANGED <<file, created, clock, told, audited, consent, raced>>

(* The clock ticks, is set forward or set back. *)
ClockMoves ==
    /\ clock' \in (0..MaxTime) \ {clock}
    /\ UNCHANGED <<file, created, pc, call, history>>

Next == \/ \E p \in Callers : Begin(p) \/ Enqueue(p) \/ Load(p) \/ Check(p)
                              \/ Write(p) \/ Audit(p) \/ Die(p)
        \/ ClockMoves

Spec == Init /\ [][Next]_vars

-----------------------------------------------------------------------------
(* Properties *)

(* Whatever races, jumps of the clock and deaths there were: a request is   *)
(* allowed, in its file or to a caller, only if the approver it names said  *)
(* so in a decide() that found the clock within the window.                 *)
AllowedByApprover ==
    \A q \in Requests : (file[q] = "allow" \/ "allow" \in told[q]) => q \in consent

(* "Timeout is deny", as far as the code can keep it without a lock: two    *)
(* callers get different answers for one request only if two calls had      *)
(* both loaded it as pending before either wrote.                           *)
OneAnswer == \A q \in Requests : told[q] = Decisions => q \in raced

(* A decision that no call can race with any more is final: once a request  *)
(* is decided and no call holds it as pending, none comes to hold it again, *)
(* in time or late, whoever asks, and its file stays as it is.              *)
Settled(q) == file[q] \in Decisions /\ Holders(q) = {}
DecisionStands ==
    [][\A q \in Requests : Settled(q) => Settled(q)' /\ file'[q] = file[q]]_vars

(* A decision on disk is in the audit log unless its writer is about to     *)
(* write it there, or died in between.                                      *)
DecisionAudited ==
    \A q \in Requests :
       file[q] \in Decisions => \/ file[q] \in audited[q]
                                \/ q \in unlogged
                                \/ \E p \in Callers : Req(p) = q /\ pc[p] = "audit"
=============================================================================
