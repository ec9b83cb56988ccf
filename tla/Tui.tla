----------------------------------- MODULE Tui -----------------------------------
(***************************************************************************)
(* ravand tui: the user, the UI thread (textual's event loop) and the      *)
(* thread of a run, which calls run_prompt with a sink for its events, an  *)
(* ask that blocks on the user and an event that cancels it.               *)
(*                                                                         *)
(* A handler of the UI thread is one step, except the timer's flush, which *)
(* the run thread's sink can interleave with.  call_from_thread blocks the *)
(* run thread until the UI thread has run the callback, so a callback's    *)
(* flush meets no interference.  run_prompt is the part of it the UI can   *)
(* tell apart; RunPrompt has its inside.                                   *)
(***************************************************************************)
EXTENDS SequencesExt

CONSTANTS MaxEvents,   \* no session/update comes after so many events (bound)
          MaxAsks,     \* permission requests, in all (bound)
          MaxRuns      \* prompts submitted (bound)

ASSUME TuiAssumption == MaxEvents \in Nat /\ MaxAsks \in Nat /\ MaxRuns \in Nat

VARIABLES
    app,                    \* "up", "quit" by the user, or "crashed"
    busy, asking, armed,    \* _busy, _asking, _quit_armed
    cancel,                 \* _cancel
    permSet, permOk,        \* _perm_event, _perm_ok
    at,                     \* where the run thread is
    fellBack,               \* this run is in its overflow attempt
    queue,                  \* _event_q
    frames,                 \* the timer's flush and the flushes inside it, by what is left
    view,                   \* the transcript, the text only in #stream, _think_buf, _agent_buf
    bubble,                 \* there is an _agent_turn to append to
    emitted, asks, runs,    \* counts
    \* History:
    pressed,                \* the user's first answer to each request shown
    told,                   \* what _ask returned for it
    stopped                 \* ctrl+c was pressed during this run

input == <<app, busy, asking, armed, cancel, permSet, permOk>>
run == <<at, fellBack, asks, runs>>
output == <<queue, frames, view, bubble, emitted>>
history == <<pressed, told, stopped>>
vars == <<input, run, output, history>>

Answers == {"none", "yes", "no"}
Kinds == {"text", "thinking", "mark", "ask"}
Events == [id : 1..emitted, kind : Kinds]
RunGoes == {"resolve", "refuse", "connect", "stalled", "live", "show", "wait", "tell", "idle"}

ControlOK == /\ app \in {"up", "quit", "crashed"}
             /\ busy \in BOOLEAN /\ asking \in BOOLEAN /\ armed \in BOOLEAN /\ cancel \in BOOLEAN
             /\ permSet \in BOOLEAN /\ permOk \in BOOLEAN /\ stopped \in BOOLEAN
             /\ fellBack \in BOOLEAN /\ bubble \in BOOLEAN
             /\ at \in RunGoes \union {"none", "raised"} /\ (busy <=> at # "none")
             /\ asking => at = "wait" /\ ~permSet
             /\ at = "wait" /\ ~asking => permSet
             /\ asks \in 0..MaxAsks /\ runs \in 0..MaxRuns
             /\ pressed \in [1..MaxAsks -> Answers] /\ told \in [1..MaxAsks -> Answers]
OutputOK == /\ emitted \in 0..(MaxEvents + MaxAsks + 2 * MaxRuns)
            /\ queue \in Seq(Events)
            /\ frames \in Seq([batch : Seq(Events), line : Seq(Events)])
            /\ view \in [shown : Seq(Events), hidden : Seq(Events),
                         think : Seq(Events), text : Seq(Events)]
            /\ frames = <<>> => view.think = <<>> /\ view.text = <<>>
TypeOK == ControlOK /\ OutputOK

Init == /\ app = "up" /\ busy = FALSE /\ asking = FALSE /\ armed = FALSE
        /\ cancel = FALSE /\ permSet = FALSE /\ permOk = FALSE
        /\ at = "none" /\ fellBack = FALSE /\ asks = 0 /\ runs = 0
        /\ queue = <<>> /\ frames = <<>> /\ bubble = FALSE /\ emitted = 0
        /\ view = [shown |-> <<>>, hidden |-> <<>>, think |-> <<>>, text |-> <<>>]
        /\ pressed = [i \in 1..MaxAsks |-> "none"] /\ told = pressed /\ stopped = FALSE

(* The UI thread is at its event loop. *)
Loop == app = "up" /\ frames = <<>>

-----------------------------------------------------------------------------
(* The user *)

(* Enter: not while a run is going. *)
Submit ==
    /\ Loop /\ ~busy /\ ~asking /\ runs < MaxRuns
    /\ busy' = TRUE /\ armed' = FALSE /\ cancel' = FALSE
    /\ bubble' = TRUE /\ at' = "resolve" /\ fellBack' = FALSE /\ runs' = runs + 1
    /\ stopped' = FALSE
    /\ UNCHANGED <<app, asking, permSet, permOk, asks, queue, frames, view, emitted, pressed, told>>

(* "q", "quit" or "exit" for a prompt. *)
QuitWord ==
    /\ Loop /\ ~busy /\ ~asking
    /\ app' = "quit"
    /\ UNCHANGED <<busy, asking, armed, cancel, permSet, permOk, run, output, history>>

(* Faulty variant: the request stays on the screen until the run goes on. *)
FinishAskShown(ok) == permOk' = ok /\ permSet' = TRUE /\ UNCHANGED asking

FinishAsk(ok) == permOk' = ok /\ permSet' = TRUE /\ asking' = FALSE

(* What the user said first to the request on the screen. *)
Press(answer) == pressed' = [pressed EXCEPT ![asks] = IF @ = "none" THEN answer ELSE @]

(* y or n. *)
Key(answer) ==
    /\ Loop /\ asking
    /\ FinishAsk(answer = "yes") /\ Press(answer)
    /\ UNCHANGED <<app, busy, armed, cancel, run, output, told, stopped>>

(* Faulty variant: an interrupt of a question is only an answer to it. *)
InterruptAnswer ==
    /\ Loop
    /\ IF asking THEN FinishAsk(FALSE) /\ Press("no")
       ELSE UNCHANGED <<asking, permSet, permOk, pressed>>
    /\ stopped' = busy
    /\ cancel' = (cancel \/ (busy /\ ~asking)) /\ armed' = TRUE
    /\ app' = IF armed /\ ~busy THEN "quit" ELSE app
    /\ UNCHANGED <<busy, run, output, told>>

(* ctrl+c: denies a question; stops the run that is going, however often   *)
(* it is pressed; else quits when pressed twice.                           *)
Interrupt ==
    /\ Loop
    /\ IF asking THEN FinishAsk(FALSE) /\ Press("no")
       ELSE UNCHANGED <<asking, permSet, permOk, pressed>>
    /\ stopped' = busy
    /\ cancel' = (cancel \/ busy) /\ armed' = TRUE
    /\ app' = IF armed /\ ~busy THEN "quit" ELSE app
    /\ UNCHANGED <<busy, run, output, told>>

-----------------------------------------------------------------------------
(* Output: events, from the sink to the screen *)

Event(kind) == [id |-> emitted + 1, kind |-> kind]

(* Thinking comes first, in a bubble of its own; a reply without a bubble  *)
(* is in #stream only, which is not displayed.                             *)
Written(v, bubbled) ==
    [shown |-> v.shown \o v.think \o (IF bubbled THEN v.text ELSE <<>>),
     hidden |-> v.hidden \o (IF bubbled THEN <<>> ELSE v.text),
     think |-> <<>>, text |-> <<>>]

Buffered(v, e) == IF e.kind = "thinking" THEN [v EXCEPT !.think = Append(@, e)]
                                         ELSE [v EXCEPT !.text = Append(@, e)]
Line(v, e) == [v EXCEPT !.shown = Append(@, e)]

(* _flush_pending with the run thread blocked: every event of the queue,   *)
(* then the buffers.                                                       *)
Applied(bubbled) ==
    LET after[n \in 0..Len(queue)] ==
            IF n = 0 THEN view
            ELSE IF queue[n].kind = "mark" THEN Line(Written(after[n - 1], bubbled), queue[n])
            ELSE Buffered(after[n - 1], queue[n])
    IN after
Flushed(bubbled) == Written(Applied(bubbled)[Len(queue)], bubbled)

(* The timer: takes the queue ... *)
Tick ==
    /\ Loop /\ queue # <<>>
    /\ frames' = <<[batch |-> queue, line |-> <<>>]>> /\ queue' = <<>>
    /\ UNCHANGED <<input, run, view, bubble, emitted, history>>

(* ... applies one event after the other, where a line of its own (a tool  *)
(* call, a tool result, the run's end) first flushes what is queued now ... *)
Apply ==
    /\ app = "up" /\ frames # <<>> /\ Last(frames).batch # <<>>
    /\ LET e == Head(Last(frames).batch)
           rest == [frames EXCEPT ![Len(frames)].batch = Tail(@)]
       IN IF e.kind = "mark"
          THEN /\ frames' = Append(rest, [batch |-> queue, line |-> <<e>>])
               /\ queue' = <<>> /\ UNCHANGED view
          ELSE frames' = rest /\ view' = Buffered(view, e) /\ UNCHANGED queue
    /\ UNCHANGED <<input, run, bubble, emitted, history>>

(* ... and at the end of its events writes the buffers. *)
WriteOut ==
    /\ app = "up" /\ frames # <<>> /\ Last(frames).batch = <<>>
    /\ frames' = Front(frames)
    /\ LET v == Written(view, bubble) IN view' = [v EXCEPT !.shown = @ \o Last(frames).line]
    /\ UNCHANGED <<input, run, queue, bubble, emitted, history>>

-----------------------------------------------------------------------------
(* The run thread *)

(* PolicyDenied and UnknownAgent are told, any other error raises. *)
Resolve ==
    /\ at = "resolve" /\ at' \in {"connect", "refuse", "raised"}
    /\ UNCHANGED <<input, fellBack, asks, runs, output, history>>

Refuse ==
    /\ Loop /\ at = "refuse" /\ at' = "idle"
    /\ UNCHANGED <<input, fellBack, asks, runs, output, history>>

(* The handshake is over, or the run has come back from where it was held. *)
Connected ==
    /\ at \in {"connect", "stalled"} /\ at' = "live"
    /\ UNCHANGED <<input, fellBack, asks, runs, output, history>>

(* The run is held where nothing bounds the time (Held of RunPrompt): by an *)
(* unfinished line of the handshake, by a hook's command, or by a write    *)
(* that the agent does not read.                                           *)
Stall ==
    /\ at \in {"connect", "live"} /\ at' = "stalled"
    /\ UNCHANGED <<input, fellBack, asks, runs, output, history>>

Sink(e) == queue' = Append(queue, e) /\ emitted' = emitted + 1

(* session/update *)
Update(kind) ==
    /\ at = "live" /\ emitted < MaxEvents
    /\ Sink(Event(kind))
    /\ UNCHANGED <<input, run, frames, view, bubble, history>>

(* run.ended, and the overflow attempt. *)
FallBack ==
    /\ at \in {"connect", "live"} /\ ~fellBack
    /\ fellBack' = TRUE /\ at' = "connect"
    /\ Sink(Event("mark"))
    /\ UNCHANGED <<input, asks, runs, frames, view, bubble, history>>

(* run_prompt returns, on most ways after a run.ended. *)
Return ==
    /\ at \in {"connect", "stalled", "live"} /\ at' = "idle"
    /\ Sink(Event("mark")) \/ UNCHANGED <<queue, emitted>>
    /\ UNCHANGED <<input, fellBack, asks, runs, frames, view, bubble, history>>

(* run_prompt raises: the worker has failed, and with it the app. *)
Raise ==
    /\ at \in {"connect", "stalled", "live"} /\ at' = "raised"
    /\ UNCHANGED <<input, fellBack, asks, runs, output, history>>

Crash ==
    /\ Loop /\ at = "raised" /\ app' = "crashed"
    /\ UNCHANGED <<busy, asking, armed, cancel, permSet, permOk, run, output, history>>

(* Faulty variant: an answer is left over for the next question. *)
AskUncleared ==
    /\ at = "live" /\ asks < MaxAsks
    /\ asks' = asks + 1 /\ at' = "show"
    /\ UNCHANGED <<app, busy, asking, armed, cancel, permSet, permOk, fellBack, runs, output, history>>

(* _ask: clear the answer, show the question, wait. *)
Ask ==
    /\ at = "live" /\ asks < MaxAsks
    /\ asks' = asks + 1 /\ at' = "show"
    /\ permSet' = FALSE /\ permOk' = FALSE
    /\ UNCHANGED <<app, busy, asking, armed, cancel, fellBack, runs, output, history>>

ShowAsk ==
    /\ Loop /\ at = "show" /\ at' = "wait" /\ asking' = TRUE
    /\ UNCHANGED <<app, busy, armed, cancel, permSet, permOk, fellBack, asks, runs, output, history>>

Answer ==
    /\ at = "wait" /\ permSet /\ at' = "tell"
    /\ told' = [told EXCEPT ![asks] = IF permOk THEN "yes" ELSE "no"]
    /\ UNCHANGED <<input, fellBack, asks, runs, output, pressed, stopped>>

(* A request that the hook, the plan gate or the broker denies. *)
Deny ==
    /\ at = "live" /\ asks < MaxAsks
    /\ asks' = asks + 1 /\ at' = "tell"
    /\ UNCHANGED <<input, fellBack, runs, output, history>>

(* Faulty variant: the decision's line does not wait for earlier events. *)
TellAhead ==
    /\ Loop /\ at = "tell" /\ at' = "live"
    /\ emitted' = emitted + 1 /\ UNCHANGED <<bubble, queue>>
    /\ view' = Line(view, Event("ask"))
    /\ UNCHANGED <<input, fellBack, asks, runs, frames, history>>

(* The decision's permission.ask event is applied before the run goes on. *)
Tell ==
    /\ Loop /\ at = "tell" /\ at' = "live"
    /\ emitted' = emitted + 1 /\ queue' = <<>> /\ UNCHANGED bubble
    /\ view' = Line(Flushed(bubble), Event("ask"))
    /\ UNCHANGED <<input, fellBack, asks, runs, frames, history>>

(* _idle: the reply's bubble is given up before the last flush. *)
Idle ==
    /\ Loop /\ at = "idle" /\ at' = "none"
    /\ busy' = FALSE /\ bubble' = FALSE
    /\ view' = Flushed(FALSE) /\ queue' = <<>>
    /\ UNCHANGED <<app, asking, armed, cancel, permSet, permOk, fellBack, asks, runs, frames,
                   emitted, history>>

-----------------------------------------------------------------------------
User == Submit \/ QuitWord \/ Interrupt \/ \E answer \in {"yes", "no"} : Key(answer)
Flush == Tick \/ Apply \/ WriteOut
Callback == Refuse \/ ShowAsk \/ Tell \/ Idle \/ Crash
Thread == Resolve \/ Connected \/ FallBack \/ Return \/ Raise \/ Answer
Agent == Stall \/ Ask \/ Deny \/ \E kind \in {"text", "thinking", "mark"} : Update(kind)

Next == User \/ Flush \/ Callback \/ Thread \/ Agent

(* Both threads are scheduled, the handshake has deadlines, and a          *)
(* cancelled run ends unless it is held for ever (CancelEnds of RunPrompt): *)
(* its client is closed, so that it gets on to its end when it comes back. *)
(* Neither the user nor an agent nor a hook owes anything.                 *)
Fairness == /\ WF_vars(Flush) /\ WF_vars(Callback)
            /\ WF_vars(at \in {"resolve", "connect", "wait"} /\ Thread)
            /\ SF_vars(cancel /\ at = "live" /\ Thread)

Spec == Init /\ [][Next]_vars /\ Fairness

-----------------------------------------------------------------------------
(* Properties *)

(* A run learns only what the user did: an answer is the first one given   *)
(* to that very request while it was shown, never a leftover or a default, *)
(* and a run that is cancelled was stopped during that very run.           *)
ToldByUser == /\ \A i \in 1..MaxAsks : told[i] # "none" => told[i] = pressed[i]
              /\ cancel /\ busy => stopped

(* The places an event can be in, and what is in each. *)
Places == {"queue", "shown", "hidden", "think", "text"} \X {0}
              \union {"batch", "line"} \X DOMAIN frames
Kept(place) ==
    CASE place[1] = "queue" -> queue
      [] place[1] = "batch" -> frames[place[2]].batch
      [] place[1] = "line" -> frames[place[2]].line
      [] OTHER -> view[place[1]]

(* Every event a run emits is in exactly one place, and displayed (or in   *)
(* #stream) when no run is going.  The timer's flush may show a newer      *)
(* event before an older one, but never across the line of a permission    *)
(* request: what precedes a decision is on the screen before the next step *)
(* of the agent.                                                           *)
NoneLost == \A n \in 1..emitted :
                \E place \in Places : \E i \in DOMAIN Kept(place) : Kept(place)[i].id = n
NoneTwice == \A p, q \in Places : \A i \in DOMAIN Kept(p), k \in DOMAIN Kept(q) :
                Kept(p)[i].id = Kept(q)[k].id => p = q /\ i = k
AllDisplayed == queue = <<>> /\ frames = <<>> /\ view.think = <<>> /\ view.text = <<>>
AskOrder == \A i, k \in DOMAIN view.shown :
               i < k /\ "ask" \in {view.shown[i].kind, view.shown[k].kind}
                  => view.shown[i].id < view.shown[k].id
EventsShown == NoneLost /\ NoneTwice /\ (~busy => AllDisplayed) /\ AskOrder

(* After ctrl+c a run is over, or the user is asked once more, unless the  *)
(* run is held for ever where ctrl+c does not reach it.                    *)
StopEnds == (stopped /\ busy ~> ~busy \/ asking \/ app # "up") \/ <>[](at = "stalled")
=============================================================================
