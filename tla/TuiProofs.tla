------------------------------- MODULE TuiProofs -------------------------------
(***************************************************************************)
(* What holds of Tui for any numbers of events, permission requests and    *)
(* runs. The control: who is where, and what a run is told. The output:    *)
(* the events of the runs, kept in a few places (the queue, the batches of *)
(* the flushes under way, the buffers of the view, the screen), where a    *)
(* flush only ever moves the first of one place to the end of another.     *)
(***************************************************************************)
EXTENDS Tui, SequenceTheorems, WellFoundedInduction, TLAPS

(* A flush moves events and nothing else. *)
LEMMA FlushMoves == Flush => UNCHANGED <<input, run, history, bubble>>
  BY DEF Flush, Tick, Apply, WriteOut

(* The request in hand has been pressed by nobody until it is answered, and *)
(* the answer waiting for the run is what was pressed.                      *)
AskInv ==
    /\ at \in {"show", "wait"} => asks >= 1
    /\ at = "show" \/ asking => pressed[asks] = "none"
    /\ at = "show" => ~permSet
    /\ at = "wait" /\ permSet => pressed[asks] = IF permOk THEN "yes" ELSE "no"
    /\ \A i \in 1..MaxAsks : i > asks => pressed[i] = "none" /\ told[i] = "none"

ToldInv == ControlOK /\ AskInv /\ ToldByUser

(* ControlOK, by kinds of fact. *)
Flags == /\ busy \in BOOLEAN /\ asking \in BOOLEAN /\ armed \in BOOLEAN /\ cancel \in BOOLEAN
         /\ permSet \in BOOLEAN /\ permOk \in BOOLEAN /\ stopped \in BOOLEAN
         /\ fellBack \in BOOLEAN /\ bubble \in BOOLEAN
Whereabouts == /\ app \in {"up", "quit", "crashed"}
          /\ at \in {"resolve", "refuse", "connect", "stalled", "live", "show", "wait", "tell",
                    "idle", "none", "raised"}
Placed == /\ busy <=> at # "none"
          /\ asking => at = "wait" /\ ~permSet
          /\ at = "wait" /\ ~asking => permSet
Counts == /\ asks \in 0..MaxAsks /\ runs \in 0..MaxRuns
          /\ pressed \in [1..MaxAsks -> Answers] /\ told \in [1..MaxAsks -> Answers]

(* The type invariant of the control is the conjunction of those parts. *)
LEMMA ControlParts == ControlOK <=> Flags /\ Whereabouts /\ Placed /\ Counts
<1>1. at \in RunGoes \union {"none", "raised"}
        <=> at \in {"resolve", "refuse", "connect", "stalled", "live", "show", "wait", "tell",
                   "idle", "none", "raised"}
  BY DEF RunGoes
<1> QED BY <1>1, Zenon DEF ControlOK, Flags, Whereabouts, Placed, Counts

LEMMA ControlPartsNext == ControlOK' <=> Flags' /\ Whereabouts' /\ Placed' /\ Counts'
<1>1. (at \in RunGoes \union {"none", "raised"})'
        <=> (at \in {"resolve", "refuse", "connect", "stalled", "live", "show", "wait", "tell",
                    "idle", "none", "raised"})'
  BY DEF RunGoes
<1> QED BY <1>1, Zenon DEF ControlOK, Flags, Whereabouts, Placed, Counts

(* ToldInv holds at first and is kept by every step: those of the user, the *)
(* callbacks of the UI thread, the thread of the run and the agent.         *)
LEMMA ToldInit == Init => ToldInv
<1> SUFFICES ASSUME Init PROVE ToldInv
  OBVIOUS
<1> USE TuiAssumption DEF Init
<1>1. \A i \in 1..MaxAsks : pressed[i] = "none" /\ told[i] = "none"
  OBVIOUS
<1>2. pressed \in [1..MaxAsks -> Answers] /\ told = pressed
  BY DEF Answers
<1>3. Flags /\ Whereabouts /\ Placed /\ Counts
  <2>1. Flags
    BY DEF Flags
  <2>2. Whereabouts
    BY DEF Whereabouts
  <2>3. Placed
    BY DEF Placed
  <2>4. Counts
    BY <1>2 DEF Counts
  <2> QED BY <2>1, <2>2, <2>3, <2>4
<1>4. AskInv
  BY <1>1 DEF AskInv
<1>5. ToldByUser
  BY <1>1 DEF ToldByUser
<1> QED BY <1>3, <1>4, <1>5, ControlParts DEF ToldInv

(* An answer to the request on the screen, by a key or by ctrl+c. *)
LEMMA ToldPress ==
  ASSUME NEW answer \in {"yes", "no"},
         Flags, Whereabouts, Placed, Counts, AskInv, ToldByUser, asking,
         FinishAsk(answer = "yes"), Press(answer), UNCHANGED <<busy, run, output, told>>,
         cancel' \in BOOLEAN, armed' \in BOOLEAN, stopped' \in BOOLEAN,
         cancel' /\ busy' => stopped', app' \in {"up", "quit", "crashed"}
  PROVE  Flags' /\ Whereabouts' /\ Placed' /\ Counts' /\ AskInv' /\ ToldByUser'
<1> USE TuiAssumption DEF run, output
<1>1. at = "wait" /\ asks \in 1..MaxAsks /\ pressed[asks] = "none"
  BY DEF Placed, AskInv, Counts
<1>2. /\ permOk' = (answer = "yes") /\ permSet' = TRUE /\ asking' = FALSE
      /\ UNCHANGED <<busy, at, fellBack, asks, runs, bubble, told>>
  BY DEF FinishAsk
<1>3. pressed' = [pressed EXCEPT ![asks] = answer]
  BY <1>1 DEF Press
<1>4. pressed'[asks] = answer /\ \A i \in 1..MaxAsks : i # asks => pressed'[i] = pressed[i]
  BY <1>1, <1>3 DEF Counts
<1>5. told[asks] = "none"
  BY <1>1 DEF ToldByUser, Counts, Answers
<1>6. Flags'
  BY <1>2 DEF Flags
<1>7. Whereabouts'
  BY <1>2 DEF Whereabouts
<1>8. Placed'
  BY <1>1, <1>2 DEF Placed
<1>9. Counts'
  BY <1>1, <1>2, <1>3 DEF Counts, Answers
<1>10. AskInv'
  <2>1. pressed'[asks'] = IF permOk' THEN "yes" ELSE "no"
    BY <1>2, <1>4
  <2>2. \A i \in 1..MaxAsks : i > asks' => pressed'[i] = "none" /\ told'[i] = "none"
    BY <1>1, <1>2, <1>4 DEF AskInv
  <2> QED BY <1>1, <1>2, <2>1, <2>2 DEF AskInv
<1>11. ToldByUser'
  BY <1>2, <1>4, <1>5 DEF ToldByUser
<1> QED BY <1>6, <1>7, <1>8, <1>9, <1>10, <1>11

LEMMA ToldUser == ASSUME ToldInv, User PROVE ToldInv'
<1> USE TuiAssumption DEF Loop, run, output
<1>p. Flags /\ Whereabouts /\ Placed /\ Counts /\ AskInv /\ ToldByUser
  BY ControlParts DEF ToldInv
<1>c. Flags' /\ Whereabouts' /\ Placed' /\ Counts' /\ AskInv' /\ ToldByUser' => ToldInv'
  BY ControlPartsNext DEF ToldInv
<1>1. CASE Submit
  <2> USE <1>p, <1>1 DEF Submit
  <2>1. Flags'
    BY DEF Flags
  <2>2. Whereabouts'
    BY DEF Whereabouts
  <2>3. Placed'
    BY DEF Placed, Whereabouts
  <2>4. Counts'
    BY DEF Counts
  <2>5. AskInv'
    BY DEF AskInv, Placed
  <2>6. ToldByUser'
    BY DEF ToldByUser
  <2> QED BY <1>c, <2>1, <2>2, <2>3, <2>4, <2>5, <2>6
<1>2. CASE QuitWord
  BY <1>2 DEF QuitWord, history, ToldInv, ControlOK, AskInv, ToldByUser
<1>3. CASE Interrupt
  <2>1. CASE asking
    <3>1. /\ FinishAsk("no" = "yes") /\ Press("no") /\ stopped' = busy
          /\ cancel' = (cancel \/ busy) /\ armed' = TRUE /\ app' \in {app, "quit"}
          /\ UNCHANGED <<busy, run, output, told>>
      BY <1>3, <2>1 DEF Interrupt, FinishAsk
    <3>2. cancel' \in BOOLEAN /\ armed' \in BOOLEAN /\ stopped' \in BOOLEAN
      BY <3>1, <1>p DEF Flags
    <3>3. cancel' /\ busy' => stopped'
      BY <3>1
    <3>4. app' \in {"up", "quit", "crashed"}
      BY <3>1, <1>p DEF Whereabouts
    <3> QED BY <2>1, <3>1, <3>2, <3>3, <3>4, <1>p, <1>c, ToldPress
  <2>2. CASE ~asking
    BY <1>3, <2>2 DEF Interrupt, ToldInv, ControlOK, AskInv, ToldByUser
  <2> QED BY <2>1, <2>2
<1>4. ASSUME NEW answer \in {"yes", "no"}, Key(answer) PROVE ToldInv'
  <2>1. /\ asking /\ FinishAsk(answer = "yes") /\ Press(answer)
        /\ UNCHANGED <<app, busy, armed, cancel, run, output, told, stopped>>
    BY <1>4 DEF Key
  <2>2. cancel' \in BOOLEAN /\ armed' \in BOOLEAN /\ stopped' \in BOOLEAN
    BY <2>1, <1>p DEF Flags
  <2>3. cancel' /\ busy' => stopped'
    BY <2>1, <1>p DEF ToldByUser
  <2>4. app' \in {"up", "quit", "crashed"}
    BY <2>1, <1>p DEF Whereabouts
  <2> QED BY <2>1, <2>2, <2>3, <2>4, <1>p, <1>c, ToldPress
<1> QED BY <1>1, <1>2, <1>3, <1>4 DEF User

LEMMA ToldCallback == ASSUME ToldInv, Callback PROVE ToldInv'
<1> USE TuiAssumption DEF ToldInv, ControlOK, AskInv, ToldByUser, RunGoes, Loop, input, run, history
<1>1. CASE Refuse
  BY <1>1 DEF Refuse, output
<1>2. CASE ShowAsk
  BY <1>2 DEF ShowAsk, output
<1>3. CASE Tell
  BY <1>3 DEF Tell
<1>4. CASE Idle
  BY <1>4 DEF Idle
<1>5. CASE Crash
  BY <1>5 DEF Crash, output
<1> QED BY <1>1, <1>2, <1>3, <1>4, <1>5 DEF Callback

LEMMA ToldThread == ASSUME ToldInv, Thread PROVE ToldInv'
<1> USE TuiAssumption DEF ToldInv, ControlOK, AskInv, ToldByUser, Answers, RunGoes, input, output, history
<1>1. CASE Resolve \/ Connected \/ Raise
  BY <1>1 DEF Resolve, Connected, Raise
<1>2. CASE FallBack
  BY <1>2 DEF FallBack
<1>3. CASE Return
  BY <1>3 DEF Return
<1>4. CASE Answer
  BY <1>4 DEF Answer
<1> QED BY <1>1, <1>2, <1>3, <1>4 DEF Thread

LEMMA ToldAgent == ASSUME ToldInv, Agent PROVE ToldInv'
<1> USE TuiAssumption DEF ToldInv, ControlOK, AskInv, ToldByUser, RunGoes, input, run, output, history
<1>1. CASE Stall
  BY <1>1 DEF Stall
<1>2. CASE Ask
  <2> USE <1>2 DEF Ask
  <2>p. Flags /\ Whereabouts /\ Placed /\ Counts
    BY ControlParts
  <2>a. asks \in 0..MaxAsks /\ asks + 1 \in 1..MaxAsks
    BY <2>p DEF Counts
  <2>1. Flags'
    BY <2>p DEF Flags
  <2>2. Whereabouts'
    BY <2>p DEF Whereabouts
  <2>3. Placed'
    BY <2>p DEF Placed
  <2>4. Counts'
    BY <2>p, <2>a DEF Counts
  <2>5. AskInv'
    BY <2>a, <2>p DEF Placed
  <2>6. ToldByUser'
    OBVIOUS
  <2> QED BY <2>1, <2>2, <2>3, <2>4, <2>5, <2>6, ControlPartsNext
<1>3. CASE Deny
  BY <1>3 DEF Deny
<1>4. CASE \E kind \in {"text", "thinking", "mark"} : Update(kind)
  BY <1>4 DEF Update
<1> QED BY <1>1, <1>2, <1>3, <1>4 DEF Agent

LEMMA ToldStep == ToldInv /\ [Next]_vars => ToldInv'
<1>1. ASSUME ToldInv, UNCHANGED <<input, run, history, bubble>> PROVE ToldInv'
  BY <1>1 DEF ToldInv, ControlOK, AskInv, ToldByUser, input, run, history
<1>2. UNCHANGED vars => UNCHANGED <<input, run, history, bubble>>
  BY DEF vars, output
<1> QED BY <1>1, <1>2, FlushMoves, ToldUser, ToldCallback, ToldThread, ToldAgent DEF Next

LEMMA ToldInvHolds == Spec => []ToldInv
  BY ToldInit, ToldStep, PTL DEF Spec

(* Where the user, the UI thread and the run thread can be, together: a run *)
(* is going exactly while the app is busy, a request on the screen has a    *)
(* run waiting for it, and no run waits for one that is not shown, unless   *)
(* its answer is there.                                                     *)
THEOREM TuiControlOK == Spec => []ControlOK
<1>1. ToldInv => ControlOK
  BY DEF ToldInv
<1> QED BY <1>1, ToldInvHolds, PTL

(* A run learns only what the user did: what it is told of a request is the *)
(* first answer given to that very request while it was shown, and it is    *)
(* cancelled only when it was stopped itself.                               *)
THEOREM TuiToldByUser == Spec => []ToldByUser
<1>1. ToldInv => ToldByUser
  BY DEF ToldInv
<1> QED BY <1>1, ToldInvHolds, PTL
-----------------------------------------------------------------------------
(* Induction, for a set of numbers. *)
LEMMA AllNumbers ==
  ASSUME NEW S, 0 \in S, \A n \in Nat : n \in S => n + 1 \in S
  PROVE  Nat \subseteq S
<1> SUFFICES ASSUME Nat \ S # {} PROVE FALSE
  OBVIOUS
<1> DEFINE R == {ss \in Nat \X Nat : ss[1] < ss[2]}
<1>1. IsWellFoundedOn(R, Nat)
  BY NatLessThanWellFounded DEF OpToRel
<1>2. PICK n \in Nat \ S : \A m \in Nat \ S : <<m, n>> \notin R
  <2> HIDE DEF R
  <2> QED BY <1>1, WFMin
<1>3. n # 0 /\ n - 1 \in Nat
  OBVIOUS
<1>4. \A m \in Nat \ S : ~(m < n)
  BY <1>2
<1>5. n - 1 \in S
  BY <1>3, <1>4
<1>6. (n - 1) + 1 \in S
  BY <1>3, <1>5
<1> QED BY <1>3, <1>6

-----------------------------------------------------------------------------
(* The output: what is in each place, and events that move between them *)

Record == [id : Nat, kind : Kinds]
Frame == [batch : Seq(Record), line : Seq(Record)]
View == [shown : Seq(Record), hidden : Seq(Record), think : Seq(Record), text : Seq(Record)]

Queue == <<"queue", 0>>
Shown == <<"shown", 0>>
Hidden == <<"hidden", 0>>
Think == <<"think", 0>>
Text == <<"text", 0>>
Batch(k) == <<"batch", k>>
LineOf(k) == <<"line", k>>
Positive == Nat \ {0}
Single == {Queue, Shown, Hidden, Think, Text}
Anywhere == Single \union {Batch(k) : k \in Positive} \union {LineOf(k) : k \in Positive}
Done == {Shown, Hidden}

(* What is in each place, the frames that are not there included. *)
Stock(q, fr, v) ==
    [place \in Anywhere |->
        IF place = Queue THEN q
        ELSE IF place = Shown THEN v.shown
        ELSE IF place = Hidden THEN v.hidden
        ELSE IF place = Think THEN v.think
        ELSE IF place = Text THEN v.text
        ELSE IF place[2] \notin 1..Len(fr) THEN <<>>
        ELSE IF place[1] = "batch" THEN fr[place[2]].batch ELSE fr[place[2]].line]

(* Every event has its place, one only. *)
Known(F, n) == \A p \in Anywhere : \A i \in 1..Len(F[p]) : F[p][i].id \in 1..n
Covered(F, n) == \A m \in 1..n : \E p \in Anywhere : \E i \in 1..Len(F[p]) : F[p][i].id = m
Same(F, p, i, q, k) == F[p][i].id = F[q][k].id => p = q /\ i = k
Apart(F) == \A p, q \in Anywhere : \A i \in 1..Len(F[p]) : \A k \in 1..Len(F[q]) : Same(F, p, i, q, k)
Once(F, n) == Known(F, n) /\ Covered(F, n) /\ Apart(F)

(* What is still to be shown came after every decision that is shown. *)
Waits(F) ==
    \A p \in Anywhere \ Done : \A i \in 1..Len(F[p]) :
       /\ F[p][i].kind # "ask"
       /\ \A k \in 1..Len(F[Shown]) : F[Shown][k].kind = "ask" => F[Shown][k].id < F[p][i].id

InOrder(F) ==
    \A i, k \in 1..Len(F[Shown]) :
       i < k /\ (F[Shown][i].kind = "ask" \/ F[Shown][k].kind = "ask")
          => F[Shown][i].id < F[Shown][k].id

Good(F, n) == F \in [Anywhere -> Seq(Record)] /\ Once(F, n) /\ Waits(F) /\ InOrder(F)

(* The first events of one place, moved to the end of another. *)
Elsewhere(F, G, there) == \A r \in Anywhere \ there : G[r] = F[r]
Moved(F, G, p, q, a, b) ==
    /\ G \in [Anywhere -> Seq(Record)] /\ Elsewhere(F, G, {p, q})
    /\ a \in Seq(Record) /\ b \in Seq(Record)
    /\ F[p] = a \o b /\ G[p] = b /\ G[q] = F[q] \o a

(* Moving the first events of a place to the end of another keeps Good,     *)
(* when the place they leave is not one of those where events are done.     *)
LEMMA MoveGood ==
  ASSUME NEW n \in Nat, NEW F, Good(F, n), NEW G,
         NEW p \in Anywhere \ Done, NEW q \in Anywhere, p # q,
         NEW a, NEW b, Moved(F, G, p, q, a, b)
  PROVE  Good(G, n)
<1>0. /\ G \in [Anywhere -> Seq(Record)] /\ \A r \in Anywhere \ {p, q} : G[r] = F[r]
      /\ a \in Seq(Record) /\ b \in Seq(Record)
      /\ F[p] = a \o b /\ G[p] = b /\ G[q] = F[q] \o a
  BY DEF Moved, Elsewhere
<1> DEFINE from(r, i) == IF r = q /\ i > Len(F[q]) THEN p ELSE r
           at1(r, i) == IF r = q /\ i > Len(F[q]) THEN i - Len(F[q])
                        ELSE IF r = p THEN i + Len(a) ELSE i
<1>1. F \in [Anywhere -> Seq(Record)] /\ Once(F, n) /\ Waits(F) /\ InOrder(F)
  BY DEF Good
<1>2. \A r \in Anywhere : F[r] \in Seq(Record) /\ Len(F[r]) \in Nat
  BY <1>1
<1>3. Len(a) \in Nat /\ Len(b) \in Nat
  BY <1>0
<1>4. /\ Len(F[p]) = Len(a) + Len(b) /\ Len(G[p]) = Len(b) /\ Len(G[q]) = Len(F[q]) + Len(a)
      /\ \A r \in Anywhere \ {p, q} : Len(G[r]) = Len(F[r])
  BY <1>0, <1>2
<1>5. /\ \A i \in 1..Len(G[p]) : G[p][i] = F[p][i + Len(a)]
      /\ \A i \in 1..Len(F[q]) : G[q][i] = F[q][i]
      /\ \A i \in 1..Len(G[q]) : i > Len(F[q]) => G[q][i] = F[p][i - Len(F[q])]
      /\ \A r \in Anywhere \ {p, q} : G[r] = F[r]
  <2>1. \A i \in 1..Len(b) : (a \o b)[i + Len(a)] = b[i]
    BY <1>0, <1>3
  <2>2. \A i \in 1..Len(a) : (a \o b)[i] = a[i]
    BY <1>0, <1>3
  <2>3. \A i \in 1..Len(F[q]) : (F[q] \o a)[i] = F[q][i]
    BY <1>0, <1>2
  <2>4. \A i \in 1..(Len(F[q]) + Len(a)) : i > Len(F[q]) => (F[q] \o a)[i] = a[i - Len(F[q])]
    BY <1>0, <1>2, <1>3
  <2>5. \A i \in 1..Len(G[q]) : i > Len(F[q]) => i - Len(F[q]) \in 1..Len(a)
    BY <1>2, <1>3, <1>4
  <2> QED BY <1>0, <1>4, <2>1, <2>2, <2>3, <2>4, <2>5
<1>6. \A r \in Anywhere : \A i \in 1..Len(G[r]) :
         /\ from(r, i) \in Anywhere /\ at1(r, i) \in 1..Len(F[from(r, i)])
         /\ G[r][i] = F[from(r, i)][at1(r, i)]
  <2> SUFFICES ASSUME NEW r \in Anywhere, NEW i \in 1..Len(G[r])
               PROVE  /\ from(r, i) \in Anywhere /\ at1(r, i) \in 1..Len(F[from(r, i)])
                      /\ G[r][i] = F[from(r, i)][at1(r, i)]
    OBVIOUS
  <2>1. CASE r = p
    BY <2>1, <1>2, <1>3, <1>4, <1>5
  <2>2. CASE r = q /\ i > Len(F[q])
    <3>1. i \in 1..Len(G[q]) /\ i - Len(F[q]) \in 1..Len(F[p])
      BY <2>2, <1>2, <1>3, <1>4
    <3>2. G[q][i] = F[p][i - Len(F[q])]
      BY <2>2, <3>1, <1>5
    <3>3. from(r, i) = p /\ at1(r, i) = i - Len(F[q])
      BY <2>2
    <3> HIDE DEF from, at1
    <3> QED BY <2>2, <3>1, <3>2, <3>3
  <2>3. CASE r = q /\ ~(i > Len(F[q]))
    BY <2>3, <1>2, <1>3, <1>4, <1>5
  <2>4. CASE r # p /\ r # q
    BY <2>4, <1>2, <1>3, <1>4, <1>5
  <2> QED BY <2>1, <2>2, <2>3, <2>4
<1>7. \A r, t \in Anywhere : \A i \in 1..Len(G[r]) : \A k \in 1..Len(G[t]) :
         from(r, i) = from(t, k) /\ at1(r, i) = at1(t, k) => r = t /\ i = k
  BY <1>2, <1>3, <1>4, SMTT(20)
<1>8. \A r \in Anywhere : \A i \in 1..Len(F[r]) :
         \E t \in Anywhere : \E k \in 1..Len(G[t]) : G[t][k] = F[r][i]
  <2> SUFFICES ASSUME NEW r \in Anywhere, NEW i \in 1..Len(F[r])
               PROVE  \E t \in Anywhere : \E k \in 1..Len(G[t]) : G[t][k] = F[r][i]
    OBVIOUS
  <2>1. CASE r = p /\ i > Len(a)
    <3>1. i - Len(a) \in 1..Len(G[p]) /\ (i - Len(a)) + Len(a) = i
      BY <2>1, <1>2, <1>3, <1>4
    <3>2. G[p][i - Len(a)] = F[p][i]
      BY <3>1, <1>5
    <3> QED BY <2>1, <3>1, <3>2
  <2>2. CASE r = p /\ ~(i > Len(a))
    <3>1. /\ i + Len(F[q]) \in 1..Len(G[q]) /\ i + Len(F[q]) > Len(F[q])
          /\ (i + Len(F[q])) - Len(F[q]) = i
      BY <2>2, <1>2, <1>3, <1>4
    <3>2. G[q][i + Len(F[q])] = F[p][i]
      BY <3>1, <1>5
    <3> QED BY <2>2, <3>1, <3>2
  <2>3. CASE r = q
    <3>1. i \in 1..Len(G[q]) /\ G[q][i] = F[q][i]
      BY <2>3, <1>2, <1>3, <1>4, <1>5
    <3> QED BY <2>3, <3>1
  <2>4. CASE r # p /\ r # q
    BY <2>4, <1>4, <1>5
  <2> QED BY <2>1, <2>2, <2>3, <2>4
<1> HIDE DEF from, at1
<1>9. Once(G, n)
  <2>1. Known(G, n)
    <3> SUFFICES ASSUME NEW r \in Anywhere, NEW i \in 1..Len(G[r]) PROVE G[r][i].id \in 1..n
      BY DEF Known
    <3>1. /\ from(r, i) \in Anywhere /\ at1(r, i) \in 1..Len(F[from(r, i)])
          /\ G[r][i] = F[from(r, i)][at1(r, i)]
      BY <1>6
    <3> QED BY <3>1, <1>1 DEF Once, Known
  <2>2. Covered(G, n)
    <3> SUFFICES ASSUME NEW m \in 1..n
                 PROVE  \E r \in Anywhere : \E i \in 1..Len(G[r]) : G[r][i].id = m
      BY DEF Covered
    <3>1. PICK r \in Anywhere : \E i \in 1..Len(F[r]) : F[r][i].id = m
      BY <1>1 DEF Once, Covered
    <3>2. PICK i \in 1..Len(F[r]) : F[r][i].id = m
      BY <3>1
    <3>3. PICK t \in Anywhere : \E k \in 1..Len(G[t]) : G[t][k] = F[r][i]
      BY <1>8
    <3> QED BY <3>2, <3>3
  <2>3. Apart(G)
    <3> SUFFICES ASSUME NEW r \in Anywhere, NEW t \in Anywhere,
                        NEW i \in 1..Len(G[r]), NEW k \in 1..Len(G[t]), G[r][i].id = G[t][k].id
                 PROVE  r = t /\ i = k
      BY DEF Apart, Same
    <3>1. /\ from(r, i) \in Anywhere /\ at1(r, i) \in 1..Len(F[from(r, i)])
          /\ G[r][i] = F[from(r, i)][at1(r, i)]
          /\ from(t, k) \in Anywhere /\ at1(t, k) \in 1..Len(F[from(t, k)])
          /\ G[t][k] = F[from(t, k)][at1(t, k)]
      BY <1>6
    <3>2. from(r, i) = from(t, k) /\ at1(r, i) = at1(t, k)
      <4>1. F[from(r, i)][at1(r, i)].id = F[from(t, k)][at1(t, k)].id
        BY <3>1
      <4>2. Apart(F)
        BY <1>1 DEF Once
      <4>3. Same(F, from(r, i), at1(r, i), from(t, k), at1(t, k))
        BY <3>1, <4>2, Zenon DEF Apart
      <4> QED BY <4>1, <4>3 DEF Same
    <3> QED BY <3>2, <1>7
  <2> QED BY <2>1, <2>2, <2>3 DEF Once
<1>10. \A i \in 1..Len(F[p]) : /\ F[p][i].kind # "ask"
                               /\ \A k \in 1..Len(F[Shown]) : F[Shown][k].kind = "ask"
                                     => F[Shown][k].id < F[p][i].id
  BY <1>1 DEF Waits
<1>11. Shown \in Anywhere /\ Shown # p
  BY DEF Anywhere, Single, Done
<1>12. \A k \in 1..Len(G[Shown]) : G[Shown][k].kind = "ask"
          => k \in 1..Len(F[Shown]) /\ G[Shown][k] = F[Shown][k]
  <2>1. CASE Shown = q
    <3> SUFFICES ASSUME NEW k \in 1..Len(G[q]), G[q][k].kind = "ask"
                 PROVE  k \in 1..Len(F[q]) /\ G[q][k] = F[q][k]
      BY <2>1
    <3>1. k > Len(F[q]) => k - Len(F[q]) \in 1..Len(F[p])
      BY <1>2, <1>3, <1>4
    <3>2. ~(k > Len(F[q]))
      BY <3>1, <1>5, <1>10
    <3> QED BY <3>2, <1>2, <1>4, <1>5
  <2>2. CASE Shown # q
    BY <2>2, <1>11, <1>5
  <2> QED BY <2>1, <2>2
<1>13. Waits(G)
  <2> SUFFICES ASSUME NEW r \in Anywhere \ Done, NEW i \in 1..Len(G[r])
               PROVE  /\ G[r][i].kind # "ask"
                      /\ \A k \in 1..Len(G[Shown]) : G[Shown][k].kind = "ask"
                            => G[Shown][k].id < G[r][i].id
    BY DEF Waits
  <2>1. from(r, i) \in Anywhere \ Done
    BY DEF from
  <2>2. at1(r, i) \in 1..Len(F[from(r, i)]) /\ G[r][i] = F[from(r, i)][at1(r, i)]
    BY <1>6
  <2>3. /\ G[r][i].kind # "ask"
        /\ \A k \in 1..Len(F[Shown]) : F[Shown][k].kind = "ask" => F[Shown][k].id < G[r][i].id
    BY <1>1, <2>1, <2>2 DEF Waits
  <2> QED BY <2>3, <1>12
<1>14. InOrder(G)
  <2>1. CASE Shown = q
    <3> SUFFICES ASSUME NEW i \in 1..Len(G[q]), NEW k \in 1..Len(G[q]), i < k,
                        G[q][i].kind = "ask" \/ G[q][k].kind = "ask"
                 PROVE  G[q][i].id < G[q][k].id
      BY <2>1 DEF InOrder
    <3>1. CASE k > Len(F[q])
      <4>1. k - Len(F[q]) \in 1..Len(F[p]) /\ G[q][k] = F[p][k - Len(F[q])]
        BY <3>1, <1>2, <1>3, <1>4, <1>5, SMTT(20)
      <4>2. G[q][k].kind # "ask"
        BY <4>1, <1>10
      <4>3. i \in 1..Len(F[q]) /\ G[q][i] = F[q][i] /\ F[q][i].kind = "ask"
        BY <4>2, <1>12, <2>1
      <4> QED BY <4>1, <4>3, <1>10, <2>1
    <3>2. CASE ~(k > Len(F[q]))
      <4>1. i \in 1..Len(F[q]) /\ k \in 1..Len(F[q])
        BY <3>2, <1>2, <1>4
      <4> QED BY <4>1, <1>1, <1>5, <2>1 DEF InOrder
    <3> QED BY <3>1, <3>2
  <2>2. CASE Shown # q
    <3>1. G[Shown] = F[Shown]
      BY <2>2, <1>0, <1>11
    <3> QED BY <3>1, <1>1 DEF InOrder
  <2> QED BY <2>1, <2>2
<1> QED BY <1>0, <1>9, <1>13, <1>14 DEF Good

(* A new event: for later, or the line of a decision when all else is shown. *)
Added(F, G, p, e) == /\ G \in [Anywhere -> Seq(Record)] /\ Elsewhere(F, G, {p})
                     /\ G[p] = Append(F[p], e)
Empty(F) == \A r \in Anywhere \ Done : F[r] = <<>>

(* So does a new event at the end of a place: one that is no decision       *)
(* anywhere but on the screen, or the line of a decision on a screen that   *)
(* waits for nothing.                                                       *)
LEMMA NewGood ==
  ASSUME NEW n \in Nat, NEW F, Good(F, n), NEW G,
         NEW p \in Anywhere, NEW e \in Record, e.id = n + 1,
         (p \notin Done /\ e.kind # "ask") \/ (p = Shown /\ Empty(F)),
         Added(F, G, p, e)
  PROVE  Good(G, n + 1)
<1>0. /\ G \in [Anywhere -> Seq(Record)] /\ G[p] = Append(F[p], e)
      /\ \A r \in Anywhere \ {p} : G[r] = F[r]
  BY DEF Added, Elsewhere
<1>1. F \in [Anywhere -> Seq(Record)] /\ Once(F, n) /\ Waits(F) /\ InOrder(F)
  BY DEF Good
<1>2. \A r \in Anywhere : F[r] \in Seq(Record) /\ Len(F[r]) \in Nat
  BY <1>1
<1>3. /\ Len(G[p]) = Len(F[p]) + 1 /\ G[p][Len(F[p]) + 1] = e
      /\ \A i \in 1..Len(F[p]) : G[p][i] = F[p][i]
  <2>1. F[p] \in Seq(Record)
    BY <1>2
  <2> QED BY <2>1, <1>0
<1>4. \A r \in Anywhere : \A i \in 1..Len(F[r]) :
         i \in 1..Len(G[r]) /\ G[r][i] = F[r][i] /\ G[r][i].id \in 1..n
  <2>1. Known(F, n)
    BY <1>1 DEF Once
  <2> SUFFICES ASSUME NEW r \in Anywhere, NEW i \in 1..Len(F[r])
               PROVE  i \in 1..Len(G[r]) /\ G[r][i] = F[r][i] /\ F[r][i].id \in 1..n
    OBVIOUS
  <2>2. F[r][i].id \in 1..n
    BY <2>1 DEF Known
  <2>3. CASE r = p
    BY <2>2, <2>3, <1>2, <1>3
  <2>4. CASE r # p
    BY <2>2, <2>4, <1>0
  <2> QED BY <2>3, <2>4
<1>5. \A r \in Anywhere : \A i \in 1..Len(G[r]) :
         \/ i \in 1..Len(F[r]) /\ G[r][i] = F[r][i] /\ G[r][i].id \in 1..n
         \/ r = p /\ i = Len(F[p]) + 1 /\ G[r][i] = e /\ G[r][i].id = n + 1
  BY <1>0, <1>2, <1>3, <1>4
<1>6. Once(G, n + 1)
  <2>1. Known(G, n + 1)
    BY <1>5 DEF Known
  <2>2. Covered(G, n + 1)
    <3> SUFFICES ASSUME NEW m \in 1..(n + 1)
                 PROVE  \E r \in Anywhere : \E i \in 1..Len(G[r]) : G[r][i].id = m
      BY DEF Covered
    <3>1. CASE m = n + 1
      <4>1. Len(F[p]) + 1 \in 1..Len(G[p])
        BY <1>2, <1>3
      <4> QED BY <3>1, <4>1, <1>3
    <3>2. CASE m # n + 1
      <4>1. m \in 1..n
        BY <3>2
      <4>2. PICK r \in Anywhere : \E i \in 1..Len(F[r]) : F[r][i].id = m
        BY <1>1, <4>1 DEF Once, Covered
      <4>3. PICK i \in 1..Len(F[r]) : F[r][i].id = m
        BY <4>2
      <4>4. i \in 1..Len(G[r]) /\ G[r][i] = F[r][i]
        BY <1>4
      <4> QED BY <4>3, <4>4
    <3> QED BY <3>1, <3>2
  <2>3. Apart(G)
    <3> SUFFICES ASSUME NEW r \in Anywhere, NEW t \in Anywhere,
                        NEW i \in 1..Len(G[r]), NEW k \in 1..Len(G[t]), G[r][i].id = G[t][k].id
                 PROVE  r = t /\ i = k
      BY DEF Apart, Same
    <3>1. CASE i \in 1..Len(F[r]) /\ k \in 1..Len(F[t])
      <4>1. F[r][i].id = F[t][k].id
        BY <3>1, <1>4
      <4>2. Apart(F)
        BY <1>1 DEF Once
      <4>3. Same(F, r, i, t, k)
        BY <3>1, <4>2, Zenon DEF Apart
      <4> QED BY <4>1, <4>3 DEF Same
    <3>2. CASE ~(i \in 1..Len(F[r]) /\ k \in 1..Len(F[t]))
      BY <3>2, <1>4, <1>5, SMTT(20)
    <3> QED BY <3>1, <3>2
  <2> QED BY <2>1, <2>2, <2>3 DEF Once
<1>7. Shown \in Anywhere /\ Shown \in Done
  BY DEF Anywhere, Single, Done
<1>8. CASE p \notin Done /\ e.kind # "ask"
  <2>1. p # Shown /\ G[Shown] = F[Shown]
    BY <1>0, <1>7, <1>8
  <2>2. InOrder(G)
    BY <2>1, <1>1 DEF InOrder
  <2>3. Waits(G)
    <3> SUFFICES ASSUME NEW r \in Anywhere \ Done, NEW i \in 1..Len(G[r])
                 PROVE  /\ G[r][i].kind # "ask"
                        /\ \A k \in 1..Len(F[Shown]) : F[Shown][k].kind = "ask"
                              => F[Shown][k].id < G[r][i].id
      BY <2>1 DEF Waits
    <3>1. CASE i \in 1..Len(F[r])
      BY <3>1, <1>1, <1>4 DEF Waits
    <3>2. CASE i \notin 1..Len(F[r])
      <4>1. G[r][i] = e
        BY <3>2, <1>5
      <4>2. \A k \in 1..Len(F[Shown]) : F[Shown][k].id \in 1..n
        BY <1>1, <1>7 DEF Once, Known
      <4> QED BY <4>1, <4>2, <1>8
    <3> QED BY <3>1, <3>2
  <2> QED BY <1>6, <2>2, <2>3, <1>0 DEF Good
<1>9. CASE p = Shown /\ Empty(F)
  <2>1. Waits(G)
    <3>1. \A r \in Anywhere \ Done : G[r] = <<>>
      BY <1>0, <1>7, <1>9 DEF Empty
    <3> QED BY <3>1 DEF Waits
  <2>2. InOrder(G)
    <3> SUFFICES ASSUME NEW i \in 1..Len(G[p]), NEW k \in 1..Len(G[p]), i < k,
                        G[p][i].kind = "ask" \/ G[p][k].kind = "ask"
                 PROVE  G[p][i].id < G[p][k].id
      BY <1>9 DEF InOrder
    <3>1. i \in 1..Len(F[p])
      BY <1>2, <1>3
    <3>2. CASE k \in 1..Len(F[p])
      BY <3>1, <3>2, <1>1, <1>4, <1>9 DEF InOrder
    <3>3. CASE k \notin 1..Len(F[p])
      <4>1. G[p][k].id = n + 1 /\ G[p][i].id \in 1..n
        BY <3>1, <3>3, <1>4, <1>5
      <4> QED BY <4>1
    <3> QED BY <3>2, <3>3
  <2> QED BY <1>6, <2>1, <2>2, <1>0 DEF Good
<1> QED BY <1>8, <1>9

-----------------------------------------------------------------------------
(* The places, and what the steps of a flush do to them *)

(* The places are different. *)
LEMMA SeveralPlaces ==
  /\ Queue \in Anywhere \ Done /\ Think \in Anywhere \ Done /\ Text \in Anywhere \ Done
  /\ Shown \in Anywhere /\ Hidden \in Anywhere /\ Shown \in Done /\ Hidden \in Done
  /\ Queue # Shown /\ Queue # Hidden /\ Queue # Think /\ Queue # Text /\ Shown # Hidden
  /\ Shown # Think /\ Shown # Text /\ Hidden # Think /\ Hidden # Text /\ Think # Text
  /\ \A k \in Positive : /\ Batch(k) \in Anywhere \ Done /\ LineOf(k) \in Anywhere \ Done
                         /\ Batch(k) \notin Single /\ LineOf(k) \notin Single
                         /\ Batch(k)[1] = "batch" /\ Batch(k)[2] = k
                         /\ LineOf(k)[1] = "line" /\ LineOf(k)[2] = k
  /\ \A k, m \in Positive : /\ Batch(k) # LineOf(m)
                            /\ Batch(k) = Batch(m) => k = m
                            /\ LineOf(k) = LineOf(m) => k = m
  BY DEF Anywhere, Single, Done, Queue, Shown, Hidden, Think, Text, Batch, LineOf

Tied(F, q, v) == /\ F[Queue] = q /\ F[Shown] = v.shown /\ F[Hidden] = v.hidden
                 /\ F[Think] = v.think /\ F[Text] = v.text

(* What Stock puts in each place. *)
LEMMA StockOf == ASSUME NEW q, NEW fr, NEW v PROVE Tied(Stock(q, fr, v), q, v)
  BY SeveralPlaces DEF Stock, Tied

Holds(F, fr) == \A k \in Positive : /\ F[Batch(k)] = IF k \in 1..Len(fr) THEN fr[k].batch ELSE <<>>
                                   /\ F[LineOf(k)] = IF k \in 1..Len(fr) THEN fr[k].line ELSE <<>>

LEMMA StockFrames == ASSUME NEW q, NEW fr, NEW v PROVE Holds(Stock(q, fr, v), fr)
  BY SeveralPlaces DEF Stock, Single, Holds

(* Every place holds a sequence of events. *)
LEMMA StockTyped ==
  ASSUME NEW q \in Seq(Record), NEW fr \in Seq(Frame), NEW v \in View
  PROVE  Stock(q, fr, v) \in [Anywhere -> Seq(Record)]
<1>1. \A k \in 1..Len(fr) : fr[k] \in Frame
  OBVIOUS
<1>2. \A place \in Anywhere : Stock(q, fr, v)[place] \in Seq(Record)
  BY <1>1, SMTT(20) DEF Stock, View, Frame
<1>3. Stock(q, fr, v) = [place \in Anywhere |-> Stock(q, fr, v)[place]]
  BY DEF Stock
<1> QED BY <1>2, <1>3

(* What is elsewhere stays, when the rest of the stock is the same. *)
LEMMA SameStock ==
  ASSUME NEW F, NEW G, NEW there,
         \A place \in Single \ there : G[place] = F[place],
         \A k \in Positive : /\ Batch(k) \in there \/ G[Batch(k)] = F[Batch(k)]
                             /\ LineOf(k) \in there \/ G[LineOf(k)] = F[LineOf(k)]
  PROVE  Elsewhere(F, G, there)
<1>1. \A place \in Anywhere \ Single : \E k \in Positive : place = Batch(k) \/ place = LineOf(k)
  BY DEF Anywhere
<1> QED BY <1>1 DEF Elsewhere

Framed(F, G) == \A k \in Positive : G[Batch(k)] = F[Batch(k)] /\ G[LineOf(k)] = F[LineOf(k)]

(* Two stocks with the same frames. *)
LEMMA SameFrames ==
  ASSUME NEW q, NEW fr, NEW v, NEW r, NEW w
  PROVE  Framed(Stock(q, fr, v), Stock(r, fr, w))
  BY StockFrames DEF Framed, Holds

(* A buffer written out, and the first event of a place. *)
Poured(F, G, p, q) == /\ G \in [Anywhere -> Seq(Record)] /\ Elsewhere(F, G, {p, q})
                      /\ G[p] = <<>> /\ G[q] = F[q] \o F[p]
Passed(F, G, p, q) == /\ G \in [Anywhere -> Seq(Record)] /\ Elsewhere(F, G, {p, q})
                      /\ F[p] # <<>> /\ G[p] = Tail(F[p]) /\ G[q] = Append(F[q], Head(F[p]))

(* Pouring a buffer out and passing an event on keep Good. *)
LEMMA PourGood ==
  ASSUME NEW n \in Nat, NEW F, Good(F, n), NEW G,
         NEW p \in Anywhere \ Done, NEW q \in Anywhere, p # q, Poured(F, G, p, q)
  PROVE  Good(G, n)
<1>1. F[p] \in Seq(Record)
  BY DEF Good
<1>2. F[p] = F[p] \o <<>> /\ <<>> \in Seq(Record)
  BY <1>1, ConcatEmptySeq
<1>3. Moved(F, G, p, q, F[p], <<>>)
  BY <1>1, <1>2 DEF Moved, Poured
<1> QED BY <1>3, MoveGood

LEMMA PassGood ==
  ASSUME NEW n \in Nat, NEW F, Good(F, n), NEW G,
         NEW p \in Anywhere \ Done, NEW q \in Anywhere, p # q, Passed(F, G, p, q)
  PROVE  Good(G, n)
<1>1. F[p] \in Seq(Record) /\ F[q] \in Seq(Record) /\ F[p] # <<>>
  BY DEF Good, Passed
<1>2. Head(F[p]) \in Record /\ Tail(F[p]) \in Seq(Record)
  BY <1>1, HeadTailProperties
<1> DEFINE a == <<Head(F[p])>>
<1>3. a \in Seq(Record) /\ F[p] = a \o Tail(F[p])
  BY <1>1, <1>2, HeadTailProperties
<1>4. G[q] = F[q] \o a
  BY <1>1, <1>2, AppendIsConcat DEF Passed
<1>5. Moved(F, G, p, q, a, Tail(F[p]))
  BY <1>2, <1>3, <1>4 DEF Moved, Passed
<1> HIDE DEF a
<1> QED BY <1>5, MoveGood

(* A buffer written out, with the rest of the view as it was. *)
LEMMA ThinkShown ==
  ASSUME NEW n \in Nat, NEW q \in Seq(Record), NEW fr \in Seq(Frame), NEW v \in View, NEW w \in View,
         Good(Stock(q, fr, v), n),
         w.shown = v.shown \o v.think, w.think = <<>>, w.hidden = v.hidden, w.text = v.text
  PROVE  Good(Stock(q, fr, w), n)
<1> DEFINE F == Stock(q, fr, v)
           G == Stock(q, fr, w)
<1>1. Tied(F, q, v)
  BY StockOf
<1>2. Tied(G, q, w)
  BY StockOf
<1>3. Framed(F, G)
  BY SameFrames
<1>4. G \in [Anywhere -> Seq(Record)]
  BY StockTyped
<1>5. Good(F, n)
  OBVIOUS
<1> HIDE DEF F, G
<1>6. Elsewhere(F, G, {Think, Shown})
  BY <1>1, <1>2, <1>3, SameStock DEF Single, Tied, Framed
<1>7. Poured(F, G, Think, Shown)
  BY <1>1, <1>2, <1>4, <1>6 DEF Poured, Tied
<1>8. Good(G, n)
  BY <1>5, <1>7, SeveralPlaces, PourGood
<1> QED BY <1>8 DEF G

LEMMA TextShown ==
  ASSUME NEW n \in Nat, NEW q \in Seq(Record), NEW fr \in Seq(Frame), NEW v \in View, NEW w \in View,
         Good(Stock(q, fr, v), n),
         w.shown = v.shown \o v.text, w.text = <<>>, w.hidden = v.hidden, w.think = v.think
  PROVE  Good(Stock(q, fr, w), n)
<1> DEFINE F == Stock(q, fr, v)
           G == Stock(q, fr, w)
<1>1. Tied(F, q, v)
  BY StockOf
<1>2. Tied(G, q, w)
  BY StockOf
<1>3. Framed(F, G)
  BY SameFrames
<1>4. G \in [Anywhere -> Seq(Record)]
  BY StockTyped
<1>5. Good(F, n)
  OBVIOUS
<1> HIDE DEF F, G
<1>6. Elsewhere(F, G, {Text, Shown})
  BY <1>1, <1>2, <1>3, SameStock DEF Single, Tied, Framed
<1>7. Poured(F, G, Text, Shown)
  BY <1>1, <1>2, <1>4, <1>6 DEF Poured, Tied
<1>8. Good(G, n)
  BY <1>5, <1>7, SeveralPlaces, PourGood
<1> QED BY <1>8 DEF G

LEMMA TextHidden ==
  ASSUME NEW n \in Nat, NEW q \in Seq(Record), NEW fr \in Seq(Frame), NEW v \in View, NEW w \in View,
         Good(Stock(q, fr, v), n),
         w.hidden = v.hidden \o v.text, w.text = <<>>, w.shown = v.shown, w.think = v.think
  PROVE  Good(Stock(q, fr, w), n)
<1> DEFINE F == Stock(q, fr, v)
           G == Stock(q, fr, w)
<1>1. Tied(F, q, v)
  BY StockOf
<1>2. Tied(G, q, w)
  BY StockOf
<1>3. Framed(F, G)
  BY SameFrames
<1>4. G \in [Anywhere -> Seq(Record)]
  BY StockTyped
<1>5. Good(F, n)
  OBVIOUS
<1> HIDE DEF F, G
<1>6. Elsewhere(F, G, {Text, Hidden})
  BY <1>1, <1>2, <1>3, SameStock DEF Single, Tied, Framed
<1>7. Poured(F, G, Text, Hidden)
  BY <1>1, <1>2, <1>4, <1>6 DEF Poured, Tied
<1>8. Good(G, n)
  BY <1>5, <1>7, SeveralPlaces, PourGood
<1> QED BY <1>8 DEF G

(* What Written does to the view, by what is in the buffers. *)
LEMMA WrittenIs ==
  ASSUME NEW v \in View, NEW bubbled \in BOOLEAN
  PROVE  LET w == Written(v, bubbled)
         IN /\ w \in View /\ w.think = <<>> /\ w.text = <<>>
            /\ bubbled => w.shown = (v.shown \o v.think) \o v.text /\ w.hidden = v.hidden
            /\ ~bubbled => w.shown = v.shown \o v.think /\ w.hidden = v.hidden \o v.text
<1>1. /\ v.shown \in Seq(Record) /\ v.hidden \in Seq(Record)
      /\ v.think \in Seq(Record) /\ v.text \in Seq(Record) /\ <<>> \in Seq(Record)
  BY DEF View
<1>2. v.shown \o v.think \in Seq(Record)
  BY <1>1
<1>3. (v.shown \o v.think) \o v.text \in Seq(Record) /\ v.hidden \o v.text \in Seq(Record)
  BY <1>1, <1>2
<1>4. (v.shown \o v.think) \o <<>> = v.shown \o v.think /\ v.hidden \o <<>> = v.hidden
  BY <1>1, <1>2, ConcatEmptySeq
<1>5. v.shown \o v.think \o v.text = (v.shown \o v.think) \o v.text
  OBVIOUS
<1>6. CASE bubbled
  BY <1>1, <1>3, <1>4, <1>6 DEF Written, View
<1>7. CASE ~bubbled
  BY <1>1, <1>2, <1>3, <1>4, <1>7 DEF Written, View
<1> QED BY <1>6, <1>7

(* Writing the buffers out keeps Good. *)
LEMMA WrittenGood ==
  ASSUME NEW n \in Nat, NEW q \in Seq(Record), NEW fr \in Seq(Frame), NEW v \in View,
         NEW bubbled \in BOOLEAN, Good(Stock(q, fr, v), n)
  PROVE  Written(v, bubbled) \in View /\ Good(Stock(q, fr, Written(v, bubbled)), n)
<1> DEFINE u == [shown |-> v.shown \o v.think, hidden |-> v.hidden, think |-> <<>>, text |-> v.text]
           w == Written(v, bubbled)
<1>1. v.shown \o v.think \in Seq(Record)
  BY DEF View
<1>2. /\ u \in View /\ u.shown = v.shown \o v.think /\ u.hidden = v.hidden
      /\ u.think = <<>> /\ u.text = v.text
  BY <1>1 DEF View
<1>3. /\ w \in View /\ w.think = <<>> /\ w.text = <<>>
      /\ bubbled => w.shown = u.shown \o u.text /\ w.hidden = u.hidden
      /\ ~bubbled => w.shown = u.shown /\ w.hidden = u.hidden \o u.text
  BY WrittenIs
<1> HIDE DEF u, w
<1>4. Good(Stock(q, fr, u), n)
  BY <1>2, ThinkShown
<1>5. CASE bubbled
  BY <1>2, <1>3, <1>4, <1>5, TextShown DEF w
<1>6. CASE ~bubbled
  BY <1>2, <1>3, <1>4, <1>6, TextHidden DEF w
<1> QED BY <1>5, <1>6

(* A new event, and the first event of the queue or of a frame moved on. *)
LEMMA QueueGood ==
  ASSUME NEW n \in Nat, NEW q \in Seq(Record), NEW fr \in Seq(Frame), NEW v \in View,
         NEW e \in Record, e.id = n + 1, e.kind # "ask", Good(Stock(q, fr, v), n)
  PROVE  Append(q, e) \in Seq(Record) /\ Good(Stock(Append(q, e), fr, v), n + 1)
<1> DEFINE F == Stock(q, fr, v)
           G == Stock(Append(q, e), fr, v)
<1>1. Tied(F, q, v) /\ Tied(G, Append(q, e), v)
  BY StockOf
<1>2. Framed(F, G)
  BY SameFrames
<1>3. Append(q, e) \in Seq(Record)
  BY AppendProperties
<1>4. G \in [Anywhere -> Seq(Record)]
  BY <1>3, StockTyped
<1>5. Good(F, n)
  OBVIOUS
<1> HIDE DEF F, G
<1>6. Elsewhere(F, G, {Queue})
  BY <1>1, <1>2, SameStock DEF Single, Tied, Framed
<1>7. Added(F, G, Queue, e)
  BY <1>1, <1>4, <1>6 DEF Added, Tied
<1>8. Good(G, n + 1)
  BY <1>5, <1>7, SeveralPlaces, NewGood
<1> QED BY <1>3, <1>8 DEF G

(* The line of a decision, written when all else is shown. *)
LEMMA AskGood ==
  ASSUME NEW n \in Nat, NEW v \in View, NEW e \in Record, e.id = n + 1,
         v.think = <<>>, v.text = <<>>, Good(Stock(<<>>, <<>>, v), n)
  PROVE  Line(v, e) \in View /\ Good(Stock(<<>>, <<>>, Line(v, e)), n + 1)
<1> DEFINE w == Line(v, e)
           F == Stock(<<>>, <<>>, v)
           G == Stock(<<>>, <<>>, w)
<1>1. v.shown \in Seq(Record)
  BY DEF View
<1>2. Append(v.shown, e) \in Seq(Record)
  BY <1>1, AppendProperties
<1>3. /\ w \in View /\ w.shown = Append(v.shown, e) /\ w.hidden = v.hidden
      /\ w.think = v.think /\ w.text = v.text
  BY <1>2 DEF Line, View
<1>4. Tied(F, <<>>, v) /\ Tied(G, <<>>, w)
  BY StockOf
<1>5. Framed(F, G)
  BY SameFrames
<1>6. \A k \in Positive : F[Batch(k)] = <<>> /\ F[LineOf(k)] = <<>>
  BY StockFrames DEF Holds
<1>7. G \in [Anywhere -> Seq(Record)]
  <2>1. <<>> \in Seq(Record) /\ <<>> \in Seq(Frame)
    OBVIOUS
  <2> QED BY <1>3, <2>1, StockTyped
<1>8. Good(F, n)
  OBVIOUS
<1> HIDE DEF F, G, w
<1>9. Elsewhere(F, G, {Shown})
  BY <1>3, <1>4, <1>5, SameStock DEF Single, Tied, Framed
<1>10. Added(F, G, Shown, e)
  BY <1>3, <1>4, <1>7, <1>9 DEF Added, Tied
<1>11. Empty(F)
  BY <1>4, <1>6 DEF Empty, Anywhere, Single, Done, Tied
<1>12. Good(G, n + 1)
  BY <1>8, <1>10, <1>11, SeveralPlaces, NewGood
<1> QED BY <1>3, <1>12 DEF G, w

(* The first event of the queue is applied while the run waits: into a      *)
(* buffer, or, a line, onto the screen.                                     *)
LEMMA BufferGood ==
  ASSUME NEW n \in Nat, NEW q \in Seq(Record), q # <<>>, NEW fr \in Seq(Frame), NEW v \in View,
         Good(Stock(q, fr, v), n)
  PROVE  /\ Buffered(v, Head(q)) \in View
         /\ Good(Stock(Tail(q), fr, Buffered(v, Head(q))), n)
<1> DEFINE w == Buffered(v, Head(q))
           F == Stock(q, fr, v)
           G == Stock(Tail(q), fr, w)
<1>1. Head(q) \in Record /\ Tail(q) \in Seq(Record)
  BY HeadTailProperties
<1>2. v.think \in Seq(Record) /\ v.text \in Seq(Record)
  BY DEF View
<1>3. Append(v.think, Head(q)) \in Seq(Record) /\ Append(v.text, Head(q)) \in Seq(Record)
  BY <1>1, <1>2, AppendProperties
<1>4. /\ w \in View /\ w.shown = v.shown /\ w.hidden = v.hidden
      /\ \/ w.think = Append(v.think, Head(q)) /\ w.text = v.text
         \/ w.text = Append(v.text, Head(q)) /\ w.think = v.think
  BY <1>3 DEF Buffered, View
<1> HIDE DEF w
<1>5. Tied(F, q, v) /\ Tied(G, Tail(q), w)
  BY StockOf
<1>6. Framed(F, G)
  BY SameFrames
<1>7. G \in [Anywhere -> Seq(Record)]
  BY <1>1, <1>4, StockTyped
<1>8. Good(F, n)
  OBVIOUS
<1> HIDE DEF F, G, w
<1>9. CASE w.think = Append(v.think, Head(q)) /\ w.text = v.text
  <2>1. Elsewhere(F, G, {Queue, Think})
    BY <1>4, <1>5, <1>6, <1>9, SameStock DEF Single, Tied, Framed
  <2>2. Passed(F, G, Queue, Think)
    BY <1>5, <1>7, <1>9, <2>1 DEF Passed, Tied
  <2>3. Good(G, n)
    BY <1>8, <2>2, SeveralPlaces, PassGood
  <2> QED BY <1>4, <2>3 DEF G, w
<1>10. CASE w.text = Append(v.text, Head(q)) /\ w.think = v.think
  <2>1. Elsewhere(F, G, {Queue, Text})
    BY <1>4, <1>5, <1>6, <1>10, SameStock DEF Single, Tied, Framed
  <2>2. Passed(F, G, Queue, Text)
    BY <1>5, <1>7, <1>10, <2>1 DEF Passed, Tied
  <2>3. Good(G, n)
    BY <1>8, <2>2, SeveralPlaces, PassGood
  <2> QED BY <1>4, <2>3 DEF G, w
<1> QED BY <1>4, <1>9, <1>10

LEMMA LineGood ==
  ASSUME NEW n \in Nat, NEW q \in Seq(Record), q # <<>>, NEW fr \in Seq(Frame), NEW v \in View,
         Good(Stock(q, fr, v), n)
  PROVE  Line(v, Head(q)) \in View /\ Good(Stock(Tail(q), fr, Line(v, Head(q))), n)
<1> DEFINE w == Line(v, Head(q))
           F == Stock(q, fr, v)
           G == Stock(Tail(q), fr, w)
<1>1. Head(q) \in Record /\ Tail(q) \in Seq(Record)
  BY HeadTailProperties
<1>2. v.shown \in Seq(Record)
  BY DEF View
<1>3. Append(v.shown, Head(q)) \in Seq(Record)
  BY <1>1, <1>2, AppendProperties
<1>4. /\ w \in View /\ w.shown = Append(v.shown, Head(q)) /\ w.hidden = v.hidden
      /\ w.think = v.think /\ w.text = v.text
  BY <1>3 DEF Line, View
<1>5. Tied(F, q, v) /\ Tied(G, Tail(q), w)
  BY StockOf
<1>6. Framed(F, G)
  BY SameFrames
<1>7. G \in [Anywhere -> Seq(Record)]
  BY <1>1, <1>4, StockTyped
<1>8. Good(F, n)
  OBVIOUS
<1> HIDE DEF F, G, w
<1>9. Elsewhere(F, G, {Queue, Shown})
  BY <1>4, <1>5, <1>6, SameStock DEF Single, Tied, Framed
<1>10. Passed(F, G, Queue, Shown)
  BY <1>4, <1>5, <1>7, <1>9 DEF Passed, Tied
<1>11. Good(G, n)
  BY <1>8, <1>10, SeveralPlaces, PassGood
<1> QED BY <1>4, <1>11 DEF G, w

(* The flush of a callback: event after event, then the buffers. *)
LEMMA AppliedUnfold ==
  ASSUME NEW bubbled, Len(queue) \in Nat
  PROVE  Applied(bubbled) =
           [n \in 0..Len(queue) |->
              IF n = 0 THEN view
              ELSE IF queue[n].kind = "mark"
                   THEN Line(Written(Applied(bubbled)[n - 1], bubbled), queue[n])
              ELSE Buffered(Applied(bubbled)[n - 1], queue[n])]
<1> DEFINE Next1(v, n) == IF queue[n].kind = "mark" THEN Line(Written(v, bubbled), queue[n])
                          ELSE Buffered(v, queue[n])
           Grows(g, n) == g = [k \in 0..n |-> IF k = 0 THEN view ELSE Next1(g[k - 1], k)]
           S == {n \in Nat : \E g : Grows(g, n)}
<1>5. Applied(bubbled) = CHOOSE g : Grows(g, Len(queue))
  BY DEF Applied
<1> HIDE DEF Next1
<1>1. 0 \in S
  <2> DEFINE g == [k \in 0..0 |-> view]
  <2>1. Grows(g, 0)
    OBVIOUS
  <2> QED BY <2>1
<1>2. ASSUME NEW n \in Nat, n \in S PROVE n + 1 \in S
  <2>1. PICK g : Grows(g, n)
    BY <1>2
  <2> DEFINE h == [k \in 0..(n + 1) |-> IF k <= n THEN g[k] ELSE Next1(g[n], n + 1)]
  <2>2. \A k \in 0..(n + 1) : h[k] = IF k = 0 THEN view ELSE Next1(h[k - 1], k)
    <3> SUFFICES ASSUME NEW k \in 0..(n + 1)
                 PROVE  h[k] = IF k = 0 THEN view ELSE Next1(h[k - 1], k)
      OBVIOUS
    <3>1. CASE k <= n
      <4>1. k \in 0..n /\ h[k] = g[k] /\ (k # 0 => h[k - 1] = g[k - 1])
        BY <3>1
      <4>2. g[k] = IF k = 0 THEN view ELSE Next1(g[k - 1], k)
        BY <2>1, <4>1
      <4> QED BY <4>1, <4>2
    <3>2. CASE k = n + 1
      <4>1. h[k] = Next1(g[n], n + 1) /\ h[k - 1] = g[n] /\ k # 0
        BY <3>2
      <4> QED BY <3>2, <4>1
    <3> QED BY <3>1, <3>2
  <2>3. h = [k \in 0..(n + 1) |-> h[k]]
    OBVIOUS
  <2> HIDE DEF h
  <2>4. Grows(h, n + 1)
    BY <2>2, <2>3
  <2> QED BY <2>4
<1>3. Len(queue) \in S
  <2> HIDE DEF S
  <2> QED BY <1>1, <1>2, AllNumbers
<1>4. \E g : Grows(g, Len(queue))
  BY <1>3
<1> HIDE DEF Grows
<1>6. Grows(Applied(bubbled), Len(queue))
  BY <1>4, <1>5
<1> QED BY <1>6 DEF Grows, Next1

(* A whole flush in a callback keeps Good and leaves nothing waiting. *)
LEMMA FlushedGood ==
  ASSUME NEW n \in Nat, NEW bubbled \in BOOLEAN, queue \in Seq(Record), view \in View,
         Good(Stock(queue, <<>>, view), n)
  PROVE  LET w == Flushed(bubbled)
         IN w \in View /\ w.think = <<>> /\ w.text = <<>> /\ Good(Stock(<<>>, <<>>, w), n)
<1> DEFINE N == Len(queue)
           Left(m) == SubSeq(queue, m + 1, N)
           At(m) == Applied(bubbled)[m]
           S == {m \in Nat : m <= N => At(m) \in View /\ Good(Stock(Left(m), <<>>, At(m)), n)}
<1>1. N \in Nat /\ <<>> \in Seq(Frame) /\ <<>> \in Seq(Record)
  OBVIOUS
<1>2. \A m \in 0..N : At(m) = IF m = 0 THEN view
                              ELSE IF queue[m].kind = "mark"
                                   THEN Line(Written(At(m - 1), bubbled), queue[m])
                              ELSE Buffered(At(m - 1), queue[m])
  BY <1>1, AppliedUnfold
<1>3. \A m \in 0..(N - 1) : /\ Left(m) \in Seq(Record) /\ Left(m) # <<>>
                            /\ Head(Left(m)) = queue[m + 1] /\ Tail(Left(m)) = Left(m + 1)
  <2> SUFFICES ASSUME NEW m \in 0..(N - 1)
               PROVE  /\ Left(m) \in Seq(Record) /\ Left(m) # <<>>
                      /\ Head(Left(m)) = queue[m + 1] /\ Tail(Left(m)) = Left(m + 1)
    OBVIOUS
  <2>1. m + 1 \in 1..(N + 1) /\ m + 1 <= N /\ N \in (m + 1)..N /\ m + 1 \in 1..N
    BY <1>1
  <2>2. Left(m) \in Seq(Record) /\ Len(Left(m)) = N - m
    BY <1>1, <2>1, SubSeqProperties
  <2>3. Left(m) # <<>>
    <3>1. N - m # 0 /\ Len(<<>>) = 0
      BY <1>1
    <3> HIDE DEF Left
    <3> QED BY <2>2, <3>1
  <2>4. Head(Left(m)) = queue[m + 1] /\ Tail(Left(m)) = SubSeq(queue, (m + 1) + 1, N)
    BY <1>1, <2>1, HeadTailOfSubSeq
  <2> QED BY <2>2, <2>3, <2>4
<1>4. Left(0) = queue
  BY SubSeqFull
<1>5. Left(N) = <<>>
  BY <1>1, SubSeqEmpty
<1> HIDE DEF Left, At
<1>6. 0 \in S
  <2>1. At(0) = view
    BY <1>1, <1>2
  <2> QED BY <1>4, <2>1
<1>7. ASSUME NEW m \in Nat, m \in S PROVE m + 1 \in S
  <2> SUFFICES ASSUME m + 1 <= N
               PROVE  At(m + 1) \in View /\ Good(Stock(Left(m + 1), <<>>, At(m + 1)), n)
    OBVIOUS
  <2>1. m \in 0..(N - 1) /\ m + 1 \in 0..N /\ m + 1 # 0 /\ (m + 1) - 1 = m
    BY <1>1
  <2>2. At(m) \in View /\ Good(Stock(Left(m), <<>>, At(m)), n)
    BY <1>1, <1>7, <2>1
  <2>3. /\ Left(m) \in Seq(Record) /\ Left(m) # <<>>
        /\ queue[m + 1] = Head(Left(m)) /\ Left(m + 1) = Tail(Left(m))
    BY <1>3, <2>1
  <2>4. CASE queue[m + 1].kind = "mark"
    <3>1. At(m + 1) = Line(Written(At(m), bubbled), Head(Left(m)))
      BY <1>2, <2>1, <2>3, <2>4
    <3>2. /\ Written(At(m), bubbled) \in View
          /\ Good(Stock(Left(m), <<>>, Written(At(m), bubbled)), n)
      BY <1>1, <2>2, <2>3, WrittenGood
    <3> QED BY <1>1, <2>3, <3>1, <3>2, LineGood
  <2>5. CASE queue[m + 1].kind # "mark"
    <3>1. At(m + 1) = Buffered(At(m), Head(Left(m)))
      BY <1>2, <2>1, <2>3, <2>5
    <3> QED BY <1>1, <2>2, <2>3, <3>1, BufferGood
  <2> QED BY <2>4, <2>5
<1>8. N \in S
  <2> HIDE DEF S
  <2> QED BY <1>1, <1>6, <1>7, AllNumbers
<1>9. At(N) \in View /\ Good(Stock(<<>>, <<>>, At(N)), n)
  BY <1>1, <1>5, <1>8
<1>10. Flushed(bubbled) = Written(At(N), bubbled)
  BY DEF Flushed, At
<1>11. /\ Written(At(N), bubbled) \in View
       /\ Good(Stock(<<>>, <<>>, Written(At(N), bubbled)), n)
  BY <1>1, <1>9, WrittenGood
<1>12. Written(At(N), bubbled).think = <<>> /\ Written(At(N), bubbled).text = <<>>
  BY <1>9, WrittenIs
<1> QED BY <1>10, <1>11, <1>12

-----------------------------------------------------------------------------
(* The output, inductively *)

(* The events a run can still emit besides its updates: the line of the     *)
(* decision at hand, and a run.ended for each attempt.                      *)
Owed == (IF at \in {"show", "wait", "tell"} THEN 1 ELSE 0)
        + (IF at \in {"none", "raised", "idle"} THEN 0 ELSE IF fellBack THEN 1 ELSE 2)
CreditInv == /\ emitted + Owed <= MaxEvents + asks + 2 * runs
             /\ busy => runs >= 1

Moving == /\ emitted \in Nat /\ queue \in Seq(Record) /\ frames \in Seq(Frame) /\ view \in View
          /\ Good(Stock(queue, frames, view), emitted)
          /\ frames = <<>> => view.think = <<>> /\ view.text = <<>>

OutInv == Moving /\ (~busy => AllDisplayed) /\ CreditInv

(* Moving is about what is in the places only. *)
LEMMA MovingSame ==
  ASSUME Moving, UNCHANGED <<emitted, queue, frames, view>> PROVE Moving'
<1>1. Stock(queue, frames, view)' = Stock(queue, frames, view)
  BY DEF Stock
<1>2. Good(Stock(queue, frames, view), emitted)' <=> Good(Stock(queue, frames, view), emitted)
  BY <1>1 DEF Good, Once, Known, Covered, Apart, Same, Waits, InOrder
<1> QED BY <1>2 DEF Moving

(* The empty app. *)
LEMMA OutInit == Init => OutInv
<1> SUFFICES ASSUME Init PROVE OutInv
  OBVIOUS
<1> USE DEF Init
<1> DEFINE F == Stock(queue, frames, view)
<1>1. /\ queue = <<>> /\ frames = <<>> /\ emitted = 0 /\ view \in View
      /\ view.shown = <<>> /\ view.hidden = <<>> /\ view.think = <<>> /\ view.text = <<>>
  BY DEF View
<1>2. <<>> \in Seq(Record) /\ <<>> \in Seq(Frame)
  OBVIOUS
<1>3. F \in [Anywhere -> Seq(Record)]
  BY <1>1, <1>2, StockTyped
<1>4. \A place \in Anywhere : F[place] = <<>>
  <2>1. Tied(F, queue, view)
    BY StockOf
  <2>2. \A k \in Positive : F[Batch(k)] = <<>> /\ F[LineOf(k)] = <<>>
    BY <1>1, StockFrames DEF Holds
  <2> HIDE DEF F
  <2> QED BY <1>1, <2>1, <2>2 DEF Tied, Anywhere, Single
<1>5. Good(F, 0)
  <2> HIDE DEF F
  <2>1. Shown \in Anywhere
    BY SeveralPlaces
  <2> QED BY <1>3, <1>4, <2>1 DEF Good, Once, Known, Covered, Apart, Waits, InOrder
<1>6. Moving
  BY <1>1, <1>2, <1>5 DEF Moving
<1>7. CreditInv
  BY TuiAssumption DEF CreditInv, Owed
<1> QED BY <1>1, <1>6, <1>7 DEF OutInv, AllDisplayed

(* The types the steps below start from. *)
LEMMA OutTypes ==
  ASSUME ControlOK
  PROVE  /\ asks \in Nat /\ runs \in Nat /\ fellBack \in BOOLEAN /\ bubble \in BOOLEAN
         /\ busy \in BOOLEAN /\ (busy <=> at # "none")
  BY TuiAssumption DEF ControlOK

(* Nothing moves. *)
LEMMA OutStill ==
  ASSUME ControlOK, OutInv, UNCHANGED <<emitted, queue, frames, view>>,
         \/ User
         \/ Refuse \/ ShowAsk \/ Crash \/ Resolve \/ Connected \/ Raise \/ Answer
         \/ Stall \/ Ask \/ Deny
         \/ at \in {"connect", "stalled", "live"} /\ at' = "idle" /\ UNCHANGED <<input, fellBack, asks, runs>>
         \/ UNCHANGED vars
  PROVE  OutInv'
<1>0. /\ Moving /\ (~busy => AllDisplayed) /\ CreditInv
      /\ emitted \in Nat /\ MaxEvents \in Nat
  BY TuiAssumption DEF OutInv, Moving
<1>1. Moving'
  BY <1>0, MovingSame
<1>2. busy' = busy \/ busy'
  BY DEF User, Submit, QuitWord, Interrupt, Key, FinishAsk, Refuse, ShowAsk, Crash, Resolve, Connected,
         Raise, Answer, Stall, Ask, Deny, input, vars
<1>3. ~busy' => AllDisplayed'
  BY <1>0, <1>2, OutTypes DEF AllDisplayed
<1>4. CreditInv'
  <2> USE <1>0, OutTypes DEF CreditInv, Owed
  <2>1. CASE User
    <3>1. CASE Submit
      BY <3>1 DEF Submit
    <3>2. CASE ~Submit
      <4>1. UNCHANGED <<at, fellBack, asks, runs, busy>>
        BY <2>1, <3>2 DEF User, QuitWord, Interrupt, Key, run
      <4> QED BY <4>1
    <3> QED BY <3>1, <3>2
  <2>2. CASE Refuse \/ ShowAsk \/ Resolve \/ Connected \/ Raise \/ Answer \/ Stall
    BY <2>2 DEF Refuse, ShowAsk, Resolve, Connected, Raise, Answer, Stall, input
  <2>3. CASE Ask \/ Deny
    BY <2>3 DEF Ask, Deny, input
  <2>4. CASE Crash \/ UNCHANGED vars
    BY <2>4 DEF Crash, vars, run, input
  <2>5. CASE at \in {"connect", "stalled", "live"} /\ at' = "idle" /\ UNCHANGED <<input, fellBack, asks, runs>>
    BY <2>5 DEF input
  <2> QED BY <2>1, <2>2, <2>3, <2>4, <2>5
<1> QED BY <1>1, <1>3, <1>4 DEF OutInv

(* An event goes to the queue. *)
LEMMA OutSink ==
  ASSUME ControlOK, OutInv, NEW kind \in {"text", "thinking", "mark"}, Sink(Event(kind)),
         UNCHANGED <<frames, view>>
  PROVE  Moving' /\ emitted' = emitted + 1
<1> DEFINE e == Event(kind)
<1>1. /\ emitted \in Nat /\ queue \in Seq(Record) /\ frames \in Seq(Frame) /\ view \in View
      /\ Good(Stock(queue, frames, view), emitted)
      /\ frames = <<>> => view.think = <<>> /\ view.text = <<>>
  BY DEF OutInv, Moving
<1>2. e \in Record /\ e.id = emitted + 1 /\ e.kind # "ask"
  BY <1>1 DEF Event, Record, Kinds
<1>3. queue' = Append(queue, e) /\ emitted' = emitted + 1
  BY DEF Sink
<1> HIDE DEF e
<1>4. Append(queue, e) \in Seq(Record) /\ Good(Stock(Append(queue, e), frames, view), emitted + 1)
  BY <1>1, <1>2, QueueGood
<1>5. Good(Stock(queue', frames', view'), emitted')
  BY <1>3, <1>4
<1> QED BY <1>1, <1>3, <1>4, <1>5 DEF Moving

(* The steps of the run that put an event on the queue. *)
LEMMA OutEmits ==
  ASSUME ControlOK, OutInv,
         \/ \E kind \in {"text", "thinking", "mark"} : Update(kind)
         \/ FallBack
         \/ at \in {"connect", "stalled", "live"} /\ at' = "idle" /\ Sink(Event("mark"))
               /\ UNCHANGED <<input, fellBack, asks, runs, frames, view>>
  PROVE  OutInv'
<1>0. CreditInv /\ emitted \in Nat /\ MaxEvents \in Nat
  BY TuiAssumption DEF OutInv, Moving
<1>1. PICK kind \in {"text", "thinking", "mark"} : Sink(Event(kind))
  BY DEF Update, FallBack
<1>2. UNCHANGED <<frames, view, busy, asks, runs>> /\ busy
  BY OutTypes DEF Update, FallBack, input, run
<1>3. Moving' /\ emitted' = emitted + 1
  BY <1>1, <1>2, OutSink
<1>4. CreditInv'
  <2> USE <1>0, <1>2, <1>3, OutTypes DEF CreditInv, Owed
  <2>1. CASE \E k \in {"text", "thinking", "mark"} : Update(k)
    BY <2>1 DEF Update, run
  <2>2. CASE FallBack
    BY <2>2 DEF FallBack
  <2>3. CASE at \in {"connect", "stalled", "live"} /\ at' = "idle" /\ UNCHANGED <<fellBack, asks, runs>>
    BY <2>3
  <2> QED BY <2>1, <2>2, <2>3
<1> QED BY <1>2, <1>3, <1>4 DEF OutInv

(* The queue is taken into a frame. *)
Takes(q, fr, gr, d) ==
    /\ d \in Positive /\ d = Len(gr) /\ Len(fr) \in {d - 1, d}
    /\ \A k \in 1..(d - 1) : gr[k] = fr[k]
    /\ gr[d].batch = q
    /\ Len(fr) = d => fr[d].batch = <<>> /\ fr[d].line = gr[d].line
    /\ Len(fr) # d => gr[d].line = <<>>

(* Taking the whole queue into a new frame moves it. *)
LEMMA TakeGood ==
  ASSUME NEW n \in Nat, NEW q \in Seq(Record), NEW fr \in Seq(Frame), NEW gr \in Seq(Frame), NEW v \in View,
         NEW d, Takes(q, fr, gr, d), Good(Stock(q, fr, v), n)
  PROVE  Good(Stock(<<>>, gr, v), n)
<1> DEFINE F == Stock(q, fr, v)
           G == Stock(<<>>, gr, v)
<1>1. Tied(F, q, v) /\ Tied(G, <<>>, v)
  BY StockOf
<1>2. \A k \in Positive : /\ F[Batch(k)] = IF k \in 1..Len(fr) THEN fr[k].batch ELSE <<>>
                          /\ F[LineOf(k)] = IF k \in 1..Len(fr) THEN fr[k].line ELSE <<>>
  BY StockFrames DEF Holds
<1>3. \A k \in Positive : /\ G[Batch(k)] = IF k \in 1..Len(gr) THEN gr[k].batch ELSE <<>>
                          /\ G[LineOf(k)] = IF k \in 1..Len(gr) THEN gr[k].line ELSE <<>>
  BY StockFrames DEF Holds
<1>4. G \in [Anywhere -> Seq(Record)]
  <2>1. <<>> \in Seq(Record)
    OBVIOUS
  <2> QED BY <2>1, StockTyped
<1>5. Good(F, n)
  OBVIOUS
<1> HIDE DEF F, G
<1>0. /\ d \in Nat /\ d # 0 /\ d \in Positive /\ d = Len(gr)
      /\ Len(fr) \in {d - 1, d} /\ 1..Len(gr) = 1..d
      /\ \A k \in 1..(d - 1) : gr[k] = fr[k]
  BY DEF Takes, Positive
<1>6. F[Batch(d)] = <<>> /\ G[Batch(d)] = q /\ G[LineOf(d)] = F[LineOf(d)]
  <2>1. G[Batch(d)] = gr[d].batch /\ G[LineOf(d)] = gr[d].line
    BY <1>0, <1>3
  <2>2. CASE Len(fr) = d
    BY <1>0, <1>2, <2>1, <2>2 DEF Takes
  <2>3. CASE Len(fr) = d - 1
    <3>1. d \notin 1..Len(fr)
      BY <1>0, <2>3
    <3> QED BY <1>0, <1>2, <2>1, <2>3, <3>1 DEF Takes
  <2> QED BY <1>0, <2>2, <2>3
<1>7. \A k \in Positive : k # d => G[Batch(k)] = F[Batch(k)] /\ G[LineOf(k)] = F[LineOf(k)]
  <2> SUFFICES ASSUME NEW k \in Positive, k # d
               PROVE  G[Batch(k)] = F[Batch(k)] /\ G[LineOf(k)] = F[LineOf(k)]
    OBVIOUS
  <2>1. CASE k \in 1..(d - 1)
    <3>1. k \in 1..Len(fr)
      BY <1>0, <2>1
    <3>2. k \in 1..Len(gr)
      BY <1>0, <2>1
    <3>3. gr[k] = fr[k]
      BY <1>0, <2>1
    <3> QED BY <1>2, <1>3, <3>1, <3>2, <3>3
  <2>2. CASE k \notin 1..(d - 1)
    <3>1. k \notin 1..Len(fr) /\ k \notin 1..Len(gr)
      BY <1>0, <2>2 DEF Positive
    <3> QED BY <1>2, <1>3, <3>1
  <2> QED BY <2>1, <2>2
<1>8. Elsewhere(F, G, {Queue, Batch(d)})
  <2>1. \A place \in Single \ {Queue} : G[place] = F[place]
    BY <1>1 DEF Single, Tied
  <2> QED BY <1>6, <1>7, <2>1, SameStock
<1>9. F[Batch(d)] \o F[Queue] = q
  BY <1>1, <1>6, ConcatEmptySeq DEF Tied
<1>10. Poured(F, G, Queue, Batch(d))
  BY <1>1, <1>4, <1>6, <1>8, <1>9 DEF Poured, Tied
<1>11. Good(G, n)
  <2>1. Queue \in Anywhere \ Done /\ Batch(d) \in Anywhere /\ Queue # Batch(d)
    BY <1>0, SeveralPlaces DEF Single
  <2> QED BY <1>5, <1>10, <2>1, PourGood
<1> QED BY <1>11 DEF G

(* A new frame on the stack. *)
LEMMA FrameSeq == ASSUME NEW fr \in Seq(Frame), NEW f \in Frame
                  PROVE  /\ Append(fr, f) \in Seq(Frame) /\ Len(Append(fr, f)) = Len(fr) + 1
                         /\ Append(fr, f)[Len(fr) + 1] = f /\ Len(fr) \in Nat
                         /\ \A k \in 1..Len(fr) : fr[k] \in Frame /\ Append(fr, f)[k] = fr[k]
  OBVIOUS

(* A flush begins. *)
LEMMA OutTick == ASSUME ControlOK, OutInv, Tick PROVE OutInv'
<1>1. /\ emitted \in Nat /\ queue \in Seq(Record) /\ frames = <<>> /\ view \in View
      /\ Good(Stock(queue, <<>>, view), emitted)
      /\ view.think = <<>> /\ view.text = <<>> /\ queue # <<>>
  BY DEF OutInv, Moving, Tick, Loop
<1> DEFINE f == [batch |-> queue, line |-> <<>>]
<1>2. f \in Frame /\ f.batch = queue /\ f.line = <<>> /\ <<>> \in Seq(Frame) /\ <<>> \in Seq(Record)
  BY <1>1 DEF Frame
<1>3. frames' = <<f>> /\ queue' = <<>> /\ UNCHANGED <<view, emitted, busy, at, fellBack, asks, runs>>
  BY DEF Tick, input, run
<1> HIDE DEF f
<1>4. <<f>> \in Seq(Frame) /\ Len(<<f>>) = 1 /\ <<f>>[1] = f /\ <<f>> # <<>>
  BY <1>2
<1>5. Good(Stock(<<>>, <<f>>, view), emitted)
  <2>1. 1 \in Positive /\ Len(<<>>) = 0
    BY DEF Positive
  <2>2. Takes(queue, <<>>, <<f>>, 1)
    BY <1>2, <1>4, <2>1 DEF Takes
  <2> QED BY <1>1, <1>2, <1>4, <2>2, TakeGood
<1>6. Moving'
  BY <1>1, <1>2, <1>3, <1>4, <1>5 DEF Moving
<1>7. busy
  BY <1>1 DEF OutInv, AllDisplayed
<1>8. CreditInv'
  BY <1>3 DEF OutInv, CreditInv, Owed
<1> QED BY <1>3, <1>6, <1>7, <1>8 DEF OutInv

(* The first event of the innermost frame. *)
Drops(fr, gr, d) ==
    /\ d \in Positive /\ d = Len(fr) /\ d = Len(gr) /\ fr[d].batch # <<>>
    /\ gr[d].batch = Tail(fr[d].batch) /\ gr[d].line = fr[d].line
    /\ \A k \in 1..(d - 1) : gr[k] = fr[k]

(* A frame with another batch, and a sequence with one element replaced. *)
LEMMA FrameSet ==
  ASSUME NEW f \in Frame, NEW batch PROVE [f EXCEPT !.batch = batch] = [batch |-> batch, line |-> f.line]
  BY DEF Frame

LEMMA SeqSet ==
  ASSUME NEW S, NEW seq \in Seq(S), NEW x \in S, NEW i \in 1..Len(seq)
  PROVE  LET new == [seq EXCEPT ![i] = x]
         IN /\ new \in Seq(S) /\ Len(new) = Len(seq) /\ new[i] = x
            /\ \A k \in 1..Len(seq) : k # i => new[k] = seq[k]
  OBVIOUS

(* The stack with the first event of its innermost frame gone. *)
LEMMA DropSeq ==
  ASSUME NEW fr \in Seq(Frame), fr # <<>>, Last(fr).batch # <<>>,
         NEW gr, gr = [fr EXCEPT ![Len(fr)].batch = Tail(@)]
  PROVE  /\ gr \in Seq(Frame) /\ Drops(fr, gr, Len(fr))
         /\ fr[Len(fr)] \in Frame /\ Head(fr[Len(fr)].batch) \in Record
<1> DEFINE d == Len(fr)
           f == [batch |-> Tail(fr[d].batch), line |-> fr[d].line]
<1>1. d \in Nat /\ d # 0 /\ d \in Positive /\ d \in 1..d /\ DOMAIN fr = 1..d
  BY EmptySeq DEF Positive
<1>2. fr[d] \in Frame /\ fr[d].batch # <<>>
  BY <1>1 DEF Last
<1>3. fr[d].batch \in Seq(Record) /\ fr[d].line \in Seq(Record)
  BY <1>2 DEF Frame
<1>4. Head(fr[d].batch) \in Record /\ Tail(fr[d].batch) \in Seq(Record)
  BY <1>2, <1>3, HeadTailProperties
<1>5. f \in Frame /\ f.batch = Tail(fr[d].batch) /\ f.line = fr[d].line
  BY <1>3, <1>4 DEF Frame
<1>6. [fr[d] EXCEPT !.batch = Tail(@)] = f
  BY <1>2, FrameSet
<1>7. gr = [fr EXCEPT ![d] = f]
  BY <1>6
<1> HIDE DEF f
<1>8. gr \in Seq(Frame) /\ Len(gr) = d /\ gr[d] = f /\ \A k \in 1..(d - 1) : gr[k] = fr[k]
  <2>1. /\ gr \in Seq(Frame) /\ Len(gr) = d /\ gr[d] = f
        /\ \A k \in 1..d : k # d => gr[k] = fr[k]
    <3> DEFINE new == [fr EXCEPT ![d] = f]
    <3>1. /\ new \in Seq(Frame) /\ Len(new) = d /\ new[d] = f
          /\ \A k \in 1..d : k # d => new[k] = fr[k]
      BY <1>1, <1>5, SeqSet
    <3> HIDE DEF new
    <3>2. gr = new
      BY <1>7 DEF new
    <3> QED BY <3>1, <3>2
  <2> QED BY <1>1, <2>1
<1> QED BY <1>1, <1>2, <1>4, <1>5, <1>8 DEF Drops

Dropped(F, G, fr, d) ==
    /\ Batch(d) \in Anywhere \ Done /\ Batch(d) \notin Single
    /\ F[Batch(d)] = fr[d].batch /\ G[Batch(d)] = Tail(fr[d].batch)
    /\ G[LineOf(d)] = F[LineOf(d)]
    /\ \A k \in Positive : k # d => G[Batch(k)] = F[Batch(k)] /\ G[LineOf(k)] = F[LineOf(k)]

(* What that does to the places. *)
LEMMA DropFrames ==
  ASSUME NEW q, NEW fr, NEW gr, NEW v, NEW w, NEW d, Drops(fr, gr, d)
  PROVE  Dropped(Stock(q, fr, v), Stock(q, gr, w), fr, d)
<1> DEFINE F == Stock(q, fr, v)
           G == Stock(q, gr, w)
<1>1. /\ d \in Positive /\ d \in Nat /\ d # 0 /\ d = Len(fr) /\ d = Len(gr) /\ d \in 1..d
      /\ gr[d].batch = Tail(fr[d].batch) /\ gr[d].line = fr[d].line
      /\ \A k \in 1..(d - 1) : gr[k] = fr[k]
  BY DEF Drops, Positive
<1>2. Holds(F, fr) /\ Holds(G, gr)
  BY StockFrames
<1> HIDE DEF F, G
<1>3. /\ F[Batch(d)] = fr[d].batch /\ F[LineOf(d)] = fr[d].line
      /\ G[Batch(d)] = gr[d].batch /\ G[LineOf(d)] = gr[d].line
  BY <1>1, <1>2 DEF Holds
<1>4. ASSUME NEW k \in Positive, k # d PROVE G[Batch(k)] = F[Batch(k)] /\ G[LineOf(k)] = F[LineOf(k)]
  <2>1. CASE k \in 1..(d - 1)
    <3>1. k \in 1..Len(fr) /\ k \in 1..Len(gr) /\ gr[k] = fr[k]
      BY <1>1, <2>1
    <3> QED BY <1>2, <3>1 DEF Holds
  <2>2. CASE k \notin 1..(d - 1)
    <3>1. k \notin 1..Len(fr) /\ k \notin 1..Len(gr)
      BY <1>1, <1>4, <2>2 DEF Positive
    <3> QED BY <1>2, <3>1 DEF Holds
  <2> QED BY <2>1, <2>2
<1>5. Dropped(F, G, fr, d)
  BY <1>1, <1>3, <1>4, SeveralPlaces DEF Dropped
<1> QED BY <1>5 DEF F, G

(* That event goes into a buffer. *)
LEMMA FrameBuffer ==
  ASSUME NEW n \in Nat, NEW q \in Seq(Record), NEW fr \in Seq(Frame), NEW gr \in Seq(Frame), NEW v \in View,
         NEW d, Drops(fr, gr, d), NEW e \in Record, e = Head(fr[d].batch),
         Good(Stock(q, fr, v), n)
  PROVE  Buffered(v, e) \in View /\ Good(Stock(q, gr, Buffered(v, e)), n)
<1> DEFINE w == Buffered(v, e)
           F == Stock(q, fr, v)
           G == Stock(q, gr, w)
<1>1. v.think \in Seq(Record) /\ v.text \in Seq(Record)
  BY DEF View
<1>2. Append(v.think, e) \in Seq(Record) /\ Append(v.text, e) \in Seq(Record)
  BY <1>1, AppendProperties
<1>3. /\ w \in View /\ w.shown = v.shown /\ w.hidden = v.hidden
      /\ \/ w.think = Append(v.think, e) /\ w.text = v.text
         \/ w.text = Append(v.text, e) /\ w.think = v.think
  BY <1>2 DEF Buffered, View
<1> HIDE DEF w
<1>4. Tied(F, q, v) /\ Tied(G, q, w)
  BY StockOf
<1>5. Dropped(F, G, fr, d)
  BY DropFrames
<1>6. G \in [Anywhere -> Seq(Record)]
  BY <1>3, StockTyped
<1>7. Good(F, n) /\ fr[d].batch # <<>>
  BY DEF Drops
<1> HIDE DEF F, G
<1>8. CASE w.think = Append(v.think, e) /\ w.text = v.text
  <2>1. \A place \in Single \ {Think} : G[place] = F[place]
    BY <1>3, <1>4, <1>8 DEF Single, Tied
  <2>2. Elsewhere(F, G, {Batch(d), Think})
    BY <1>5, <2>1, SameStock DEF Dropped
  <2>3. Passed(F, G, Batch(d), Think)
    BY <1>4, <1>5, <1>6, <1>7, <1>8, <2>2 DEF Passed, Tied, Dropped
  <2>4. Think \in Anywhere /\ Batch(d) # Think
    BY <1>5, SeveralPlaces DEF Single, Dropped
  <2>5. Good(G, n)
    BY <1>5, <1>7, <2>3, <2>4, PassGood DEF Dropped
  <2> QED BY <1>3, <2>5 DEF G, w
<1>9. CASE w.text = Append(v.text, e) /\ w.think = v.think
  <2>1. \A place \in Single \ {Text} : G[place] = F[place]
    BY <1>3, <1>4, <1>9 DEF Single, Tied
  <2>2. Elsewhere(F, G, {Batch(d), Text})
    BY <1>5, <2>1, SameStock DEF Dropped
  <2>3. Passed(F, G, Batch(d), Text)
    BY <1>4, <1>5, <1>6, <1>7, <1>9, <2>2 DEF Passed, Tied, Dropped
  <2>4. Text \in Anywhere /\ Batch(d) # Text
    BY <1>5, SeveralPlaces DEF Single, Dropped
  <2>5. Good(G, n)
    BY <1>5, <1>7, <2>3, <2>4, PassGood DEF Dropped
  <2> QED BY <1>3, <2>5 DEF G, w
<1> QED BY <1>3, <1>8, <1>9

(* Its line, in a frame of its own. *)
LEMMA FrameLine ==
  ASSUME NEW n \in Nat, NEW q \in Seq(Record), NEW fr \in Seq(Frame), NEW gr \in Seq(Frame), NEW v \in View,
         NEW d, Drops(fr, gr, d), NEW e \in Record, e = Head(fr[d].batch),
         NEW f \in Frame, f.batch = <<>>, f.line = <<e>>,
         Good(Stock(q, fr, v), n)
  PROVE  Append(gr, f) \in Seq(Frame) /\ Good(Stock(q, Append(gr, f), v), n)
<1> DEFINE hr == Append(gr, f)
           F == Stock(q, fr, v)
           G == Stock(q, gr, v)
           H == Stock(q, hr, v)
<1>1. /\ d \in Positive /\ d \in Nat /\ d = Len(fr) /\ d = Len(gr) /\ d + 1 \in Positive
      /\ fr[d].batch # <<>>
  BY DEF Drops, Positive
<1>2. /\ hr \in Seq(Frame) /\ Len(hr) = d + 1 /\ hr[d + 1] = f
      /\ \A k \in 1..d : hr[k] = gr[k]
  BY <1>1, FrameSeq
<1> HIDE DEF hr
<1>3. Tied(F, q, v) /\ Tied(H, q, v)
  BY StockOf
<1>4. Dropped(F, G, fr, d)
  BY DropFrames
<1>5. Holds(F, fr) /\ Holds(G, gr) /\ Holds(H, hr)
  BY StockFrames
<1>6. \A k \in Positive : k # d + 1 => H[Batch(k)] = G[Batch(k)] /\ H[LineOf(k)] = G[LineOf(k)]
  <2> HIDE DEF F, G, H
  <2> SUFFICES ASSUME NEW k \in Positive, k # d + 1
               PROVE  H[Batch(k)] = G[Batch(k)] /\ H[LineOf(k)] = G[LineOf(k)]
    OBVIOUS
  <2>1. CASE k \in 1..d
    <3>1. k \in 1..Len(gr)
      BY <1>1, <2>1
    <3>2. k \in 1..Len(hr)
      BY <1>1, <1>2, <2>1
    <3>3. hr[k] = gr[k]
      BY <1>2, <2>1
    <3> QED BY <1>5, <3>1, <3>2, <3>3 DEF Holds
  <2>2. CASE k \notin 1..d
    <3>1. k \notin 1..Len(gr) /\ k \notin 1..Len(hr)
      BY <1>1, <1>2, <2>2 DEF Positive
    <3> QED BY <1>5, <3>1 DEF Holds
  <2> QED BY <2>1, <2>2
<1>7. /\ H[Batch(d + 1)] = <<>> /\ H[LineOf(d + 1)] = <<e>>
      /\ F[Batch(d + 1)] = <<>> /\ F[LineOf(d + 1)] = <<>>
  <2> HIDE DEF F, G, H
  <2>1. d + 1 \in 1..Len(hr) /\ d + 1 \notin 1..Len(fr)
    BY <1>1, <1>2
  <2> QED BY <1>1, <1>2, <1>5, <2>1 DEF Holds
<1>8. H \in [Anywhere -> Seq(Record)]
  BY <1>2, StockTyped
<1>9. Good(F, n)
  OBVIOUS
<1> HIDE DEF F, G, H
<1>10. \A k \in Positive : /\ k # d => H[Batch(k)] = F[Batch(k)]
                           /\ k # d + 1 => H[LineOf(k)] = F[LineOf(k)]
  BY <1>1, <1>4, <1>6, <1>7 DEF Dropped
<1>11. H[Batch(d)] = Tail(fr[d].batch)
  BY <1>1, <1>4, <1>6 DEF Dropped
<1>12. Elsewhere(F, H, {Batch(d), LineOf(d + 1)})
  <2>1. \A place \in Single : H[place] = F[place]
    BY <1>3 DEF Single, Tied
  <2> QED BY <1>10, <2>1, SameStock
<1>13. Passed(F, H, Batch(d), LineOf(d + 1))
  <2>1. Append(<<>>, e) = <<e>>
    OBVIOUS
  <2> QED BY <1>1, <1>4, <1>7, <1>8, <1>11, <1>12, <2>1 DEF Passed, Dropped
<1>14. LineOf(d + 1) \in Anywhere /\ Batch(d) # LineOf(d + 1)
  BY <1>1, SeveralPlaces
<1>15. Good(H, n)
  BY <1>4, <1>9, <1>13, <1>14, PassGood DEF Dropped
<1> QED BY <1>2, <1>15 DEF H, hr

(* The line of the innermost frame, when its batch is done. *)
LEMMA FrontSeq ==
  ASSUME NEW fr \in Seq(Frame), fr # <<>>
  PROVE  /\ Front(fr) \in Seq(Frame) /\ Len(fr) \in Positive /\ Len(Front(fr)) = Len(fr) - 1
         /\ \A k \in 1..(Len(fr) - 1) : Front(fr)[k] = fr[k]
         /\ fr[Len(fr)] \in Frame
<1>1. Len(fr) \in Nat /\ Len(fr) # 0
  BY EmptySeq
<1>2. Front(fr) = SubSeq(fr, 1, Len(fr) - 1)
  BY DEF Front
<1>3. \A i \in 1..(Len(fr) - 1) : fr[i] \in Frame
  BY <1>1
<1>4. /\ SubSeq(fr, 1, Len(fr) - 1) \in Seq(Frame)
      /\ Len(SubSeq(fr, 1, Len(fr) - 1)) = Len(fr) - 1
      /\ \A k \in 1..(Len(fr) - 1) : SubSeq(fr, 1, Len(fr) - 1)[k] = fr[k]
  <2>1. 1 \in Int /\ Len(fr) - 1 \in Int /\ Len(fr) - 1 >= 0
    BY <1>1
  <2>2. Len(SubSeq(fr, 1, Len(fr) - 1)) = Len(fr) - 1
    <3> DEFINE m == Len(fr) - 1
    <3>1. m \in Int /\ m >= 0 /\ 1 \in Int
      BY <2>1
    <3>2. \A i \in 1..m : fr[i] \in Frame
      BY <1>3
    <3>3. Len(SubSeq(fr, 1, m)) = IF 1 <= m THEN m - 1 + 1 ELSE 0
      BY <1>1, <3>1, SubSeqProperties DEF m
    <3> HIDE DEF m
    <3>4. Len(SubSeq(fr, 1, m)) = m
      BY <3>1, <3>3
    <3> QED BY <3>4 DEF m
  <2>3. SubSeq(fr, 1, Len(fr) - 1) \in Seq(Frame)
    BY <1>1, <1>3, <2>1, SubSeqProperties
  <2>4. \A k \in 1..(Len(fr) - 1) : SubSeq(fr, 1, Len(fr) - 1)[k] = fr[k]
    BY <1>1, <1>3, <2>1, SubSeqProperties
  <2> QED BY <2>2, <2>3, <2>4
<1> QED BY <1>1, <1>2, <1>4 DEF Positive

(* The line goes onto the screen and the frame is left. *)
LEMMA FrontGood ==
  ASSUME NEW n \in Nat, NEW q \in Seq(Record), NEW fr \in Seq(Frame), fr # <<>>, fr[Len(fr)].batch = <<>>,
         NEW v \in View, NEW w \in View, w.shown = v.shown \o fr[Len(fr)].line,
         w.hidden = v.hidden, w.think = v.think, w.text = v.text,
         Good(Stock(q, fr, v), n)
  PROVE  Front(fr) \in Seq(Frame) /\ Good(Stock(q, Front(fr), w), n)
<1> DEFINE d == Len(fr)
           gr == Front(fr)
           F == Stock(q, fr, v)
           G == Stock(q, gr, w)
<1>1. /\ gr \in Seq(Frame) /\ d \in Positive /\ d \in Nat /\ d # 0 /\ Len(gr) = d - 1 /\ d = Len(fr)
      /\ \A k \in 1..(d - 1) : gr[k] = fr[k]
      /\ fr[d] \in Frame /\ fr[d].line \in Seq(Record)
  BY FrontSeq DEF Positive, Frame
<1>3. /\ w.shown = v.shown \o fr[d].line /\ w.hidden = v.hidden
      /\ w.think = v.think /\ w.text = v.text
  OBVIOUS
<1>4. Tied(F, q, v) /\ Tied(G, q, w)
  BY StockOf
<1>5. Holds(F, fr) /\ Holds(G, gr)
  BY StockFrames
<1>6. G \in [Anywhere -> Seq(Record)]
  BY <1>1, <1>3, StockTyped
<1>7. Good(F, n) /\ fr[d].batch = <<>>
  OBVIOUS
<1> HIDE DEF F, G, gr, d
<1>8. /\ F[LineOf(d)] = fr[d].line /\ G[LineOf(d)] = <<>>
      /\ F[Batch(d)] = <<>> /\ G[Batch(d)] = <<>>
  <2>1. d \in 1..Len(fr) /\ d \notin 1..Len(gr)
    BY <1>1
  <2> QED BY <1>1, <1>5, <1>7, <2>1 DEF Holds
<1>9. \A k \in Positive : k # d => G[Batch(k)] = F[Batch(k)] /\ G[LineOf(k)] = F[LineOf(k)]
  <2> SUFFICES ASSUME NEW k \in Positive, k # d
               PROVE  G[Batch(k)] = F[Batch(k)] /\ G[LineOf(k)] = F[LineOf(k)]
    OBVIOUS
  <2>1. CASE k \in 1..(d - 1)
    <3>1. k \in 1..Len(fr)
      BY <1>1, <2>1
    <3>2. k \in 1..Len(gr)
      BY <1>1, <2>1
    <3>3. gr[k] = fr[k]
      BY <1>1, <2>1
    <3> QED BY <1>5, <3>1, <3>2, <3>3 DEF Holds
  <2>2. CASE k \notin 1..(d - 1)
    <3>1. k \notin 1..Len(fr) /\ k \notin 1..Len(gr)
      BY <1>1, <2>2 DEF Positive
    <3> QED BY <1>5, <3>1 DEF Holds
  <2> QED BY <2>1, <2>2
<1>10. Elsewhere(F, G, {LineOf(d), Shown})
  <2>1. \A place \in Single \ {Shown} : G[place] = F[place]
    BY <1>3, <1>4 DEF Single, Tied
  <2> QED BY <1>8, <1>9, <2>1, SameStock
<1>11. Poured(F, G, LineOf(d), Shown)
  BY <1>3, <1>4, <1>6, <1>8, <1>10 DEF Poured, Tied
<1>12. LineOf(d) \in Anywhere \ Done /\ Shown \in Anywhere /\ LineOf(d) # Shown
  BY <1>1, SeveralPlaces DEF Single
<1>13. Good(G, n)
  BY <1>7, <1>11, <1>12, PourGood
<1> QED BY <1>1, <1>13 DEF G, gr

(* A flush applies its next event. *)
LEMMA OutApply == ASSUME ControlOK, OutInv, Apply PROVE OutInv'
<1> DEFINE d == Len(frames)
           e == Head(frames[d].batch)
           rest == [frames EXCEPT ![Len(frames)].batch = Tail(@)]
<1>1. /\ emitted \in Nat /\ queue \in Seq(Record) /\ frames \in Seq(Frame) /\ view \in View
      /\ Good(Stock(queue, frames, view), emitted)
      /\ frames # <<>> /\ Last(frames).batch # <<>> /\ <<>> \in Seq(Record)
  BY DEF OutInv, Moving, Apply
<1>2. UNCHANGED <<emitted, busy, at, fellBack, asks, runs>>
  BY DEF Apply, input, run
<1>3. busy
  BY <1>1 DEF OutInv, AllDisplayed
<1>4. CreditInv'
  BY <1>2 DEF OutInv, CreditInv, Owed
<1>5. rest \in Seq(Frame) /\ Drops(frames, rest, d) /\ frames[d] \in Frame /\ e \in Record
  BY <1>1, DropSeq
<1>6. \/ /\ e.kind = "mark" /\ frames' = Append(rest, [batch |-> queue, line |-> <<e>>])
         /\ queue' = <<>> /\ view' = view
      \/ frames' = rest /\ view' = Buffered(view, e) /\ queue' = queue
  BY DEF Apply, Last
<1>7. d \in Positive /\ d \in Nat /\ d = Len(rest)
  BY <1>5 DEF Drops, Positive
<1> HIDE DEF d, e, rest
<1>8. CASE frames' = rest /\ view' = Buffered(view, e) /\ queue' = queue
  <2>1. Buffered(view, e) \in View /\ Good(Stock(queue, rest, Buffered(view, e)), emitted)
    BY <1>1, <1>5, FrameBuffer DEF e
  <2>2. rest # <<>>
    BY <1>5, <1>7, EmptySeq DEF Positive
  <2>3. Moving'
    BY <1>1, <1>2, <1>5, <1>8, <2>1, <2>2 DEF Moving
  <2> QED BY <1>2, <1>3, <1>4, <2>3 DEF OutInv
<1>9. CASE /\ frames' = Append(rest, [batch |-> queue, line |-> <<e>>])
           /\ queue' = <<>> /\ view' = view
  <2> DEFINE f == [batch |-> <<>>, line |-> <<e>>]
             g == [batch |-> queue, line |-> <<e>>]
  <2>1. /\ f \in Frame /\ f.batch = <<>> /\ f.line = <<e>>
        /\ g \in Frame /\ g.batch = queue /\ g.line = <<e>>
    BY <1>1, <1>5 DEF Frame
  <2>2. frames' = Append(rest, g)
    BY <1>9
  <2> HIDE DEF f, g
  <2>3. Append(rest, f) \in Seq(Frame) /\ Good(Stock(queue, Append(rest, f), view), emitted)
    BY <1>1, <1>5, <2>1, FrameLine DEF e
  <2>4. /\ Append(rest, f) \in Seq(Frame) /\ Len(Append(rest, f)) = d + 1
        /\ Append(rest, f)[d + 1] = f /\ \A k \in 1..d : Append(rest, f)[k] = rest[k]
    BY <1>5, <1>7, <2>1, FrameSeq
  <2>5. /\ Append(rest, g) \in Seq(Frame) /\ Len(Append(rest, g)) = d + 1
        /\ Append(rest, g)[d + 1] = g /\ \A k \in 1..d : Append(rest, g)[k] = rest[k]
    BY <1>5, <1>7, <2>1, FrameSeq
  <2>6. Takes(queue, Append(rest, f), Append(rest, g), d + 1)
    BY <1>7, <2>1, <2>4, <2>5 DEF Takes, Positive
  <2>7. Good(Stock(<<>>, Append(rest, g), view), emitted)
    BY <1>1, <2>3, <2>5, <2>6, TakeGood
  <2>8. Append(rest, g) # <<>>
    BY <1>7, <2>5, EmptySeq
  <2>9. Moving'
    BY <1>1, <1>2, <1>9, <2>2, <2>5, <2>7, <2>8 DEF Moving
  <2> QED BY <1>2, <1>3, <1>4, <2>9 DEF OutInv
<1> QED BY <1>6, <1>8, <1>9

(* A flush ends: the buffers are written out, then its line. *)
LEMMA OutWriteOut == ASSUME ControlOK, OutInv, WriteOut PROVE OutInv'
<1> DEFINE v == Written(view, bubble)
<1>1. /\ emitted \in Nat /\ queue \in Seq(Record) /\ frames \in Seq(Frame) /\ view \in View
      /\ Good(Stock(queue, frames, view), emitted) /\ bubble \in BOOLEAN
      /\ frames # <<>> /\ frames[Len(frames)].batch = <<>>
  BY OutTypes DEF OutInv, Moving, WriteOut, Last
<1>2. /\ frames' = Front(frames) /\ view' = [v EXCEPT !.shown = @ \o frames[Len(frames)].line]
      /\ UNCHANGED <<queue, emitted, busy, at, fellBack, asks, runs>>
  BY DEF WriteOut, Last, input, run
<1>3. v \in View /\ Good(Stock(queue, frames, v), emitted) /\ v.think = <<>> /\ v.text = <<>>
  BY <1>1, WrittenGood, WrittenIs
<1> HIDE DEF v
<1>4. /\ Front(frames) \in Seq(Frame) /\ view' \in View /\ view'.think = <<>> /\ view'.text = <<>>
      /\ Good(Stock(queue, Front(frames), view'), emitted)
  <2> DEFINE w == [v EXCEPT !.shown = @ \o frames[Len(frames)].line]
  <2>1. frames[Len(frames)].line \in Seq(Record) /\ v.shown \in Seq(Record)
    BY <1>1, <1>3, FrontSeq DEF Frame, View
  <2>2. v.shown \o frames[Len(frames)].line \in Seq(Record)
    BY <2>1
  <2>3. /\ w \in View /\ w.shown = v.shown \o frames[Len(frames)].line /\ w.hidden = v.hidden
        /\ w.think = v.think /\ w.text = v.text
    BY <1>3, <2>2 DEF View
  <2>4. view' = w
    BY <1>2
  <2> HIDE DEF w
  <2>5. Front(frames) \in Seq(Frame) /\ Good(Stock(queue, Front(frames), w), emitted)
    BY <1>1, <1>3, <2>3, FrontGood
  <2> QED BY <1>3, <2>3, <2>4, <2>5
<1>5. Moving'
  BY <1>1, <1>2, <1>4 DEF Moving
<1>6. busy
  BY <1>1 DEF OutInv, AllDisplayed
<1>7. CreditInv'
  BY <1>2 DEF OutInv, CreditInv, Owed
<1> QED BY <1>2, <1>5, <1>6, <1>7 DEF OutInv

(* The line of a decision. *)
LEMMA OutTell == ASSUME ControlOK, OutInv, Tell PROVE OutInv'
<1> DEFINE w == Flushed(bubble)
           e == Event("ask")
<1>1. /\ emitted \in Nat /\ queue \in Seq(Record) /\ view \in View
      /\ Good(Stock(queue, <<>>, view), emitted) /\ bubble \in BOOLEAN
      /\ frames = <<>> /\ <<>> \in Seq(Record) /\ <<>> \in Seq(Frame)
  BY OutTypes DEF OutInv, Moving, Tell, Loop
<1>2. /\ w \in View /\ w.think = <<>> /\ w.text = <<>> /\ Good(Stock(<<>>, <<>>, w), emitted)
  BY <1>1, FlushedGood
<1>3. e \in Record /\ e.id = emitted + 1
  BY <1>1 DEF Event, Record, Kinds
<1>4. /\ view' = Line(w, e) /\ queue' = <<>> /\ emitted' = emitted + 1 /\ frames' = frames
      /\ UNCHANGED <<busy, fellBack, asks, runs>> /\ at = "tell" /\ at' = "live"
  BY DEF Tell, input
<1> HIDE DEF w, e
<1>5. Line(w, e) \in View /\ Good(Stock(<<>>, <<>>, Line(w, e)), emitted + 1)
  BY <1>1, <1>2, <1>3, AskGood
<1>6. Line(w, e).think = <<>> /\ Line(w, e).text = <<>>
  BY <1>2 DEF Line, View
<1>7. Moving'
  BY <1>1, <1>4, <1>5, <1>6 DEF Moving
<1>8. busy
  BY <1>4, OutTypes
<1>9. CreditInv'
  <2>1. CreditInv
    BY DEF OutInv
  <2> QED BY <1>1, <1>4, <2>1, OutTypes, TuiAssumption DEF CreditInv, Owed
<1> QED BY <1>4, <1>7, <1>8, <1>9 DEF OutInv

(* The end of a run, when all its output is displayed. *)
LEMMA OutIdle == ASSUME ControlOK, OutInv, Idle PROVE OutInv'
<1> DEFINE w == Flushed(FALSE)
<1>1. /\ emitted \in Nat /\ queue \in Seq(Record) /\ view \in View
      /\ Good(Stock(queue, <<>>, view), emitted)
      /\ frames = <<>> /\ <<>> \in Seq(Record) /\ <<>> \in Seq(Frame)
  BY DEF OutInv, Moving, Idle, Loop
<1>2. /\ w \in View /\ w.think = <<>> /\ w.text = <<>> /\ Good(Stock(<<>>, <<>>, w), emitted)
  BY <1>1, FlushedGood
<1>3. /\ view' = w /\ queue' = <<>> /\ UNCHANGED <<frames, emitted, fellBack, asks, runs>>
      /\ at = "idle" /\ at' = "none" /\ busy' = FALSE
  BY DEF Idle
<1> HIDE DEF w
<1>4. Moving'
  BY <1>1, <1>2, <1>3 DEF Moving
<1>5. AllDisplayed'
  BY <1>1, <1>2, <1>3 DEF AllDisplayed
<1>6. CreditInv'
  BY <1>3 DEF OutInv, CreditInv, Owed
<1> QED BY <1>4, <1>5, <1>6 DEF OutInv

(* Every step of the app keeps the invariant of the output. *)
LEMMA OutStep == ToldInv /\ OutInv /\ [Next]_vars => OutInv'
<1> SUFFICES ASSUME ToldInv, OutInv, [Next]_vars PROVE OutInv'
  OBVIOUS
<1>0. ControlOK
  BY DEF ToldInv
<1>1. CASE User
  BY <1>0, <1>1, OutStill DEF User, Submit, QuitWord, Interrupt, Key, output
<1>2. CASE Flush
  BY <1>0, <1>2, OutTick, OutApply, OutWriteOut DEF Flush
<1>3. CASE Callback
  <2>1. CASE Refuse \/ ShowAsk \/ Crash
    BY <1>0, <2>1, OutStill DEF Refuse, ShowAsk, Crash, output
  <2> QED BY <1>0, <1>3, <2>1, OutTell, OutIdle DEF Callback
<1>4. CASE Thread
  <2>1. CASE Resolve \/ Connected \/ Raise \/ Answer
    BY <1>0, <2>1, OutStill DEF Resolve, Connected, Raise, Answer, output
  <2>2. CASE FallBack
    BY <1>0, <2>2, OutEmits
  <2>3. CASE Return
    <3>1. /\ at \in {"connect", "stalled", "live"} /\ at' = "idle"
          /\ UNCHANGED <<input, fellBack, asks, runs, frames, view>>
          /\ Sink(Event("mark")) \/ UNCHANGED <<queue, emitted>>
      BY <2>3 DEF Return
    <3>2. CASE Sink(Event("mark"))
      BY <1>0, <3>1, <3>2, OutEmits
    <3>3. CASE UNCHANGED <<queue, emitted>>
      BY <1>0, <3>1, <3>3, OutStill
    <3> QED BY <3>1, <3>2, <3>3
  <2> QED BY <1>4, <2>1, <2>2, <2>3 DEF Thread
<1>5. CASE Agent
  <2>1. CASE Stall \/ Ask \/ Deny
    BY <1>0, <2>1, OutStill DEF Stall, Ask, Deny, output
  <2>2. CASE \E kind \in {"text", "thinking", "mark"} : Update(kind)
    BY <1>0, <2>2, OutEmits
  <2> QED BY <1>5, <2>1, <2>2 DEF Agent
<1>6. CASE UNCHANGED vars
  BY <1>0, <1>6, OutStill DEF vars, output
<1> QED BY <1>1, <1>2, <1>3, <1>4, <1>5, <1>6 DEF Next

(* The invariant of the control and that of the output, together. *)
LEMMA OutInvHolds == Spec => [](ToldInv /\ OutInv)
<1>1. Init => ToldInv /\ OutInv
  BY ToldInit, OutInit
<1>2. ToldInv /\ OutInv /\ [Next]_vars => (ToldInv /\ OutInv)'
  BY ToldStep, OutStep
<1> QED BY <1>1, <1>2, PTL DEF Spec

-----------------------------------------------------------------------------
(* What the invariant says of the places of the model *)

(* Kept, of the model, is the stock. *)
LEMMA KeptStock ==
  ASSUME Moving
  PROVE  /\ Places \subseteq Anywhere
         /\ \A place \in Places : Kept(place) = Stock(queue, frames, view)[place]
         /\ \A place \in Anywhere \ Places : Stock(queue, frames, view)[place] = <<>>
         /\ \A place \in Places : Kept(place) \in Seq(Record) /\ DOMAIN Kept(place) = 1..Len(Kept(place))
<1> DEFINE F == Stock(queue, frames, view)
<1>1. /\ frames \in Seq(Frame) /\ Len(frames) \in Nat /\ DOMAIN frames = 1..Len(frames)
      /\ F \in [Anywhere -> Seq(Record)]
  BY DEF Moving, Good
<1>2. Tied(F, queue, view) /\ Holds(F, frames)
  BY StockOf, StockFrames
<1> HIDE DEF F
<1>3. \A k \in 1..Len(frames) : k \in Positive
  BY <1>1 DEF Positive
<1>4. \A place \in Places : \/ place \in Single
                            \/ \E k \in 1..Len(frames) : place = Batch(k) \/ place = LineOf(k)
  BY <1>1 DEF Places, Single, Batch, LineOf, Queue, Shown, Hidden, Think, Text
<1>5. Single \subseteq Places /\ \A k \in 1..Len(frames) : Batch(k) \in Places /\ LineOf(k) \in Places
  BY <1>1 DEF Places, Single, Batch, LineOf, Queue, Shown, Hidden, Think, Text
<1>6. Places \subseteq Anywhere
  BY <1>3, <1>4 DEF Anywhere
<1>7. \A place \in Single : Kept(place) = F[place]
  BY <1>2 DEF Single, Tied, Kept, Queue, Shown, Hidden, Think, Text
<1>8. \A k \in 1..Len(frames) : Kept(Batch(k)) = F[Batch(k)] /\ Kept(LineOf(k)) = F[LineOf(k)]
  <2> TAKE k \in 1..Len(frames)
  <2>1. Kept(Batch(k)) = frames[k].batch /\ Kept(LineOf(k)) = frames[k].line
    BY DEF Kept, Batch, LineOf
  <2> QED BY <1>2, <1>3, <2>1 DEF Holds
<1>9. \A place \in Places : Kept(place) = F[place]
  BY <1>4, <1>7, <1>8
<1>10. \A place \in Anywhere \ Places : F[place] = <<>>
  <2> TAKE place \in Anywhere \ Places
  <2>1. PICK k \in Positive : place = Batch(k) \/ place = LineOf(k)
    BY <1>5 DEF Anywhere
  <2>2. k \notin 1..Len(frames)
    BY <1>5, <2>1
  <2> QED BY <1>2, <2>1, <2>2 DEF Holds
<1>11. \A place \in Places : Kept(place) \in Seq(Record) /\ DOMAIN Kept(place) = 1..Len(Kept(place))
  <2> TAKE place \in Places
  <2>1. Kept(place) \in Seq(Record)
    BY <1>1, <1>6, <1>9
  <2> QED BY <2>1
<1> QED BY <1>6, <1>9, <1>10, <1>11 DEF F

(* A sequence is a sequence over any set that holds all its elements. *)
LEMMA SeqOver ==
  ASSUME NEW S, NEW T, NEW seq \in Seq(S), \A k \in 1..Len(seq) : seq[k] \in T
  PROVE  seq \in Seq(T)
OBVIOUS

(* Records with numbers that were emitted are events. *)
LEMMA KnownSeq ==
  ASSUME NEW seq \in Seq(Record), \A i \in 1..Len(seq) : seq[i].id \in 1..emitted
  PROVE  seq \in Seq(Events)
<1>1. \A i \in 1..Len(seq) : seq[i] \in Events
  <2> TAKE i \in 1..Len(seq)
  <2>1. seq[i] \in Record /\ seq[i].id \in 1..emitted
    OBVIOUS
  <2> QED BY <2>1 DEF Record, Events
<1> QED BY <1>1

(* The invariants imply the type of the output. *)
LEMMA OutputTyped == ToldInv /\ OutInv => OutputOK
<1> SUFFICES ASSUME ToldInv, OutInv PROVE OutputOK
  OBVIOUS
<1> DEFINE F == Stock(queue, frames, view)
<1>1. /\ Moving /\ emitted \in Nat /\ queue \in Seq(Record) /\ frames \in Seq(Frame) /\ view \in View
      /\ frames = <<>> => view.think = <<>> /\ view.text = <<>>
      /\ Known(F, emitted) /\ CreditInv
  BY DEF OutInv, Moving, Good, Once
<1>2. Tied(F, queue, view) /\ Holds(F, frames)
  BY StockOf, StockFrames
<1> HIDE DEF F
<1>3. emitted \in 0..(MaxEvents + MaxAsks + 2 * MaxRuns)
  <2>1. asks \in 0..MaxAsks /\ runs \in 0..MaxRuns
    BY DEF ToldInv, ControlOK
  <2>2. Owed \in Nat
    BY DEF Owed
  <2> QED BY <1>1, <2>1, <2>2, TuiAssumption DEF CreditInv
<1>4. \A place \in Anywhere : \A i \in 1..Len(F[place]) : F[place][i].id \in 1..emitted
  BY <1>1 DEF Known
<1>5. queue \in Seq(Events)
  BY <1>1, <1>2, <1>4, SeveralPlaces, KnownSeq DEF Tied
<1>6. /\ view.shown \in Seq(Events) /\ view.hidden \in Seq(Events)
      /\ view.think \in Seq(Events) /\ view.text \in Seq(Events)
  <2>1. /\ view.shown \in Seq(Record) /\ view.hidden \in Seq(Record)
        /\ view.think \in Seq(Record) /\ view.text \in Seq(Record)
    BY <1>1 DEF View
  <2> QED BY <1>2, <1>4, <2>1, SeveralPlaces, KnownSeq DEF Tied
<1>7. view \in [shown : Seq(Events), hidden : Seq(Events), think : Seq(Events), text : Seq(Events)]
  BY <1>1, <1>6 DEF View
<1>8. \A k \in 1..Len(frames) : frames[k] \in [batch : Seq(Events), line : Seq(Events)]
  <2> TAKE k \in 1..Len(frames)
  <2>1. frames[k] \in Frame /\ k \in Positive
    BY <1>1 DEF Positive
  <2>2. frames[k].batch \in Seq(Record) /\ frames[k].line \in Seq(Record)
    BY <2>1 DEF Frame
  <2>3. F[Batch(k)] = frames[k].batch /\ F[LineOf(k)] = frames[k].line
    BY <1>2, <2>1 DEF Holds
  <2>4. frames[k].batch \in Seq(Events) /\ frames[k].line \in Seq(Events)
    BY <1>4, <2>1, <2>2, <2>3, SeveralPlaces, KnownSeq
  <2> QED BY <2>1, <2>4 DEF Frame
<1>9. frames \in Seq([batch : Seq(Events), line : Seq(Events)])
  BY <1>1, <1>8, SeqOver
<1> QED BY <1>1, <1>3, <1>5, <1>7, <1>9 DEF OutputOK

(* The invariant implies what the user sees. *)
LEMMA OutputShown == OutInv => EventsShown
<1> SUFFICES ASSUME OutInv PROVE EventsShown
  OBVIOUS
<1> DEFINE F == Stock(queue, frames, view)
<1>1. /\ Moving /\ view \in View /\ F \in [Anywhere -> Seq(Record)] /\ (~busy => AllDisplayed)
      /\ Covered(F, emitted) /\ Apart(F) /\ InOrder(F)
  BY DEF OutInv, Moving, Good, Once
<1>2. /\ Places \subseteq Anywhere
      /\ \A place \in Places : Kept(place) = F[place] /\ DOMAIN Kept(place) = 1..Len(F[place])
      /\ \A place \in Anywhere \ Places : F[place] = <<>>
  BY <1>1, KeptStock
<1>3. F[Shown] = view.shown
  BY StockOf DEF Tied
<1> HIDE DEF F
<1>4. NoneLost
  <2> SUFFICES ASSUME NEW n \in 1..emitted
               PROVE  \E place \in Places : \E i \in DOMAIN Kept(place) : Kept(place)[i].id = n
    BY DEF NoneLost
  <2>1. PICK place \in Anywhere : \E i \in 1..Len(F[place]) : F[place][i].id = n
    BY <1>1 DEF Covered
  <2>2. place \in Places
    <3>1. Len(<<>>) = 0
      OBVIOUS
    <3> QED BY <1>2, <2>1, <3>1
  <2> QED BY <1>2, <2>1, <2>2
<1>5. NoneTwice
  <2> SUFFICES ASSUME NEW p \in Places, NEW q \in Places, NEW i \in DOMAIN Kept(p), NEW k \in DOMAIN Kept(q),
                      Kept(p)[i].id = Kept(q)[k].id
               PROVE  p = q /\ i = k
    BY DEF NoneTwice
  <2>1. p \in Anywhere /\ q \in Anywhere /\ i \in 1..Len(F[p]) /\ k \in 1..Len(F[q])
    BY <1>2
  <2>2. F[p][i].id = F[q][k].id
    BY <1>2
  <2>3. Same(F, p, i, q, k)
    BY <1>1, <2>1, Zenon DEF Apart
  <2> QED BY <2>2, <2>3 DEF Same
<1>6. AskOrder
  <2>1. DOMAIN view.shown = 1..Len(view.shown)
    BY <1>1 DEF View
  <2> SUFFICES ASSUME NEW i \in DOMAIN view.shown, NEW k \in DOMAIN view.shown, i < k,
                      "ask" \in {view.shown[i].kind, view.shown[k].kind}
               PROVE  view.shown[i].id < view.shown[k].id
    BY DEF AskOrder
  <2> QED BY <1>1, <1>3, <2>1 DEF InOrder
<1> QED BY <1>1, <1>4, <1>5, <1>6 DEF EventsShown

(* The type invariant, the output's part included: no run emits more events *)
(* than its updates, the lines of its decisions and one run.ended for each  *)
(* of its two attempts, and no text is left in a buffer when no flush is    *)
(* under way.                                                               *)
THEOREM TuiTypeOK == Spec => []TypeOK
<1>1. ToldInv /\ OutInv => TypeOK
  BY OutputTyped DEF TypeOK, ToldInv
<1> QED BY <1>1, OutInvHolds, PTL

(* However the flushes of the timer interleave with the run thread, no      *)
(* event is lost or shown twice, all of them are displayed when no run is   *)
(* going, and none crosses the line of a permission decision.               *)
THEOREM TuiEventsShown == Spec => []EventsShown
  BY OutInvHolds, OutputShown, PTL
=============================================================================
