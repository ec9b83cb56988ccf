----------------------------- MODULE GatewayProofs -----------------------------
(***************************************************************************)
(* What holds of CronSpec and of Gateway for any jobs and specs and any     *)
(* requests, however often the harness is edited and the process killed    *)
(* and started again.                                                      *)
(***************************************************************************)
EXTENDS Gateway, SequenceTheorems, TLAPS

-----------------------------------------------------------------------------
(* Whether a job is due, for every spec that split and int can leave *)

StartOf(part, lo) == IF part.kind = "star" THEN lo ELSE part.from
EndOf(part, hi) == IF part.kind = "star" THEN hi ELSE part.to

(* The test by remainder finds the values a part counts out. *)
LEMMA PartCounts ==
  ASSUME NEW part \in Parts, NEW lo \in Nat, NEW hi \in Nat, NEW value \in lo..hi
  PROVE  PartMatch(part, value, lo, hi)
           <=> /\ value <= EndOf(part, hi)
               /\ \E n \in 0..hi : value = StartOf(part, lo) + n * part.step
<1> DEFINE s == StartOf(part, lo)
           k == part.step
<1>1. s \in Nat /\ k \in Nat \ {0} /\ value \in Nat
  BY DEF Parts, StartOf
<1>2. PartMatch(part, value, lo, hi) <=> s <= value /\ value <= EndOf(part, hi) /\ (value - s) % k = 0
  BY DEF PartMatch, StartOf, EndOf
<1> HIDE DEF s, k
<1>3. s <= value /\ (value - s) % k = 0 => \E n \in 0..hi : value = s + n * k
  <2> SUFFICES ASSUME s <= value, (value - s) % k = 0 PROVE \E n \in 0..hi : value = s + n * k
    OBVIOUS
  <2> DEFINE n == (value - s) \div k
  <2>1. n \in Nat /\ value - s = (k * n) + ((value - s) % k)
    BY <1>1
  <2>2. value = s + n * k /\ n <= hi
    BY <1>1, <2>1
  <2> QED BY <2>1, <2>2
<1>4. ASSUME NEW n \in 0..hi, value = s + n * k PROVE s <= value /\ (value - s) % k = 0
  <2>1. value - s = n * k
    BY <1>1, <1>4
  <2>2. (n * k) % k = 0 /\ n * k >= 0
    BY <1>1
  <2> QED BY <1>1, <2>1, <2>2
<1> QED BY <1>2, <1>3, <1>4 DEF s, k

(* A field answers "yes" only to a value it denotes, "no" to no such value; *)
(* a part that cannot be parsed may hide either.                            *)
LEMMA FieldDecides ==
  ASSUME NEW field \in Seq(Parts), NEW lo \in Nat, NEW hi \in Nat, NEW value \in lo..hi
  PROVE  /\ FieldMatch(field, value, lo, hi) \in {"yes", "no", "raise"}
         /\ FieldMatch(field, value, lo, hi) = "yes" => Denotes(field, value, lo, hi)
         /\ FieldMatch(field, value, lo, hi) = "no" => ~Denotes(field, value, lo, hi)
<1> DEFINE Counts(i) == /\ field[i].kind # "bad" /\ value <= EndOf(field[i], hi)
                        /\ \E n \in 0..hi : value = StartOf(field[i], lo) + n * field[i].step
           Matches(i) == field[i].kind # "bad" /\ PartMatch(field[i], value, lo, hi)
<1>1. \A i \in DOMAIN field : field[i] \in Parts
  OBVIOUS
<1>2. \A i \in DOMAIN field : Matches(i) <=> Counts(i)
  BY <1>1, PartCounts
<1>3. Denotes(field, value, lo, hi) <=> \E i \in DOMAIN field : Counts(i)
  BY DEF Denotes, StartOf, EndOf
<1>4. /\ FieldMatch(field, value, lo, hi) \in {"yes", "no", "raise"}
      /\ FieldMatch(field, value, lo, hi) = "yes" => \E i \in DOMAIN field : Matches(i)
      /\ FieldMatch(field, value, lo, hi) = "no" => \A i \in DOMAIN field : ~Matches(i)
  BY DEF FieldMatch
<1> QED BY <1>2, <1>3, <1>4

Instants == [minute : 0..59, hour : 0..23, day : 1..31, month : 1..12, weekday : 0..6]

(* Sunday is 0 and 7. *)
DueOn(field, weekday) == \E d \in 0..7 : Denotes(field, d, 0, 7) /\ weekday = (d + 6) % 7

LEMMA DayDecides ==
  ASSUME NEW field \in Seq(Parts), NEW weekday \in 0..6
  PROVE  /\ DowMatch(field, weekday) \in {"yes", "no", "raise"}
         /\ DowMatch(field, weekday) = "yes" => DueOn(field, weekday)
         /\ DowMatch(field, weekday) = "no" => ~DueOn(field, weekday)
<1> DEFINE dow == (weekday + 1) % 7
<1>1. dow \in 0..7 /\ weekday = (dow + 6) % 7 /\ (dow = 0 => weekday = (7 + 6) % 7)
  OBVIOUS
<1>2. \A d \in 0..7 : weekday = (d + 6) % 7 => d = dow \/ (dow = 0 /\ d = 7)
  OBVIOUS
<1> HIDE DEF dow
<1>3. /\ FieldMatch(field, 7, 0, 7) \in {"yes", "no", "raise"}
      /\ FieldMatch(field, 7, 0, 7) = "yes" => Denotes(field, 7, 0, 7)
      /\ FieldMatch(field, 7, 0, 7) = "no" => ~Denotes(field, 7, 0, 7)
  BY FieldDecides
<1>4. /\ FieldMatch(field, dow, 0, 7) \in {"yes", "no", "raise"}
      /\ FieldMatch(field, dow, 0, 7) = "yes" => Denotes(field, dow, 0, 7)
      /\ FieldMatch(field, dow, 0, 7) = "no" => ~Denotes(field, dow, 0, 7)
  BY <1>1, FieldDecides
<1>5. DowMatch(field, weekday) = IF FieldMatch(field, dow, 0, 7) = "no" /\ dow = 0
                                 THEN FieldMatch(field, 7, 0, 7) ELSE FieldMatch(field, dow, 0, 7)
  BY DEF DowMatch, dow
<1>6. /\ Denotes(field, dow, 0, 7) => DueOn(field, weekday)
      /\ dow = 0 => (Denotes(field, 7, 0, 7) => DueOn(field, weekday))
  <2>1. 7 \in 0..7
    OBVIOUS
  <2> QED BY <1>1, <2>1, Zenon DEF DueOn
<1>7. DueOn(field, weekday) => Denotes(field, dow, 0, 7) \/ (dow = 0 /\ Denotes(field, 7, 0, 7))
  BY <1>2, Zenon DEF DueOn
<1> QED BY <1>3, <1>4, <1>5, <1>6, <1>7, Zenon

(* cron.py's job_is_due fires a job only at an instant its spec means, and  *)
(* passes over one only if the spec does not mean it: the order of the      *)
(* parts and of the fields, which ends the test early, changes nothing but  *)
(* whether a part that cannot be parsed is met.                             *)
THEOREM JobIsDueDecides ==
  ASSUME NEW spec \in CronSpecs, NEW t \in Instants
  PROVE  /\ JobIsDue(spec, t) \in {"yes", "no", "raise"}
         /\ JobIsDue(spec, t) = "yes" => Due(spec, t)
         /\ JobIsDue(spec, t) = "no" => ~Due(spec, t)
<1> DEFINE r == <<FieldMatch(spec.minute, t.minute, 0, 59), FieldMatch(spec.hour, t.hour, 0, 23),
                  FieldMatch(spec.day, t.day, 1, 31), FieldMatch(spec.month, t.month, 1, 12),
                  DowMatch(spec.dow, t.weekday)>>
           m == <<Denotes(spec.minute, t.minute, 0, 59), Denotes(spec.hour, t.hour, 0, 23),
                  Denotes(spec.day, t.day, 1, 31), Denotes(spec.month, t.month, 1, 12),
                  DueOn(spec.dow, t.weekday)>>
<1>1. /\ r[1] \in {"yes", "no", "raise"} /\ (r[1] = "yes" => m[1]) /\ (r[1] = "no" => ~m[1])
      /\ r[2] \in {"yes", "no", "raise"} /\ (r[2] = "yes" => m[2]) /\ (r[2] = "no" => ~m[2])
      /\ r[3] \in {"yes", "no", "raise"} /\ (r[3] = "yes" => m[3]) /\ (r[3] = "no" => ~m[3])
      /\ r[4] \in {"yes", "no", "raise"} /\ (r[4] = "yes" => m[4]) /\ (r[4] = "no" => ~m[4])
      /\ r[5] \in {"yes", "no", "raise"} /\ (r[5] = "yes" => m[5]) /\ (r[5] = "no" => ~m[5])
  BY FieldDecides, DayDecides DEF CronSpecs, Instants
<1>2. JobIsDue(spec, t) = IF \A i \in 1..5 : r[i] = "yes" THEN "yes"
                          ELSE IF \E i \in 1..5 : r[i] = "raise" /\ \A k \in 1..(i - 1) : r[k] = "yes"
                          THEN "raise" ELSE "no"
  BY DEF JobIsDue
<1>3. Due(spec, t) <=> m[1] /\ m[2] /\ m[3] /\ m[4] /\ m[5]
  BY DEF Due, DueOn
<1> HIDE DEF r, m
<1>4. JobIsDue(spec, t) = "yes" => \A i \in 1..5 : r[i] = "yes"
  BY <1>2
<1>5. ASSUME JobIsDue(spec, t) = "no" PROVE \E i \in 1..5 : r[i] = "no"
  BY <1>1, <1>2, <1>5
<1> QED BY <1>1, <1>2, <1>3, <1>4, <1>5

-----------------------------------------------------------------------------
(* The jobs still to do are a tail of the harness's list. *)

LEMMA JobInHarness == \A i \in 1..Len(Jobs) : Jobs[i] \in JobSet
  BY GatewayAssumption DEF JobSet

LEMMA TodoIsTail ==
  ASSUME NEW i \in 1..(Len(Jobs) + 1), SubSeq(Jobs, i, Len(Jobs)) # <<>>
  PROVE  /\ i \in 1..Len(Jobs)
         /\ Head(SubSeq(Jobs, i, Len(Jobs))) = Jobs[i]
         /\ Tail(SubSeq(Jobs, i, Len(Jobs))) = SubSeq(Jobs, i + 1, Len(Jobs))
<1>0. Jobs \in Seq(JobSet) /\ Len(Jobs) \in Nat
  BY GatewayAssumption
<1>1. i \in 1..Len(Jobs)
  <2>1. SUFFICES ASSUME i = Len(Jobs) + 1 PROVE FALSE
    BY <1>0, <2>1
  <2> QED BY <1>0, <2>1, SubSeqEmpty
<1> QED BY <1>0, <1>1, HeadTailOfSubSeq

LEMMA TodoLength ==
  ASSUME NEW i \in 1..(Len(Jobs) + 1)
  PROVE  /\ SubSeq(Jobs, i, Len(Jobs)) \in Seq(JobSet)
         /\ Len(SubSeq(Jobs, i, Len(Jobs))) = Len(Jobs) + 1 - i
<1>0. Jobs \in Seq(JobSet) /\ Len(Jobs) \in Nat
  BY GatewayAssumption
<1>1. \A k \in i..Len(Jobs) : Jobs[k] \in JobSet
  BY <1>0, JobInHarness
<1> QED BY <1>0, <1>1, SubSeqProperties

LEMMA AllTodo == /\ Jobs = SubSeq(Jobs, 1, Len(Jobs)) /\ <<>> = SubSeq(Jobs, Len(Jobs) + 1, Len(Jobs))
                 /\ 1 \in 1..(Len(Jobs) + 1) /\ Len(Jobs) + 1 \in 1..(Len(Jobs) + 1)
<1>0. Jobs \in Seq(JobSet) /\ Len(Jobs) \in Nat
  BY GatewayAssumption
<1> QED BY <1>0, SubSeqFull, SubSeqEmpty

Todos == {SubSeq(Jobs, i, Len(Jobs)) : i \in 1..(Len(Jobs) + 1)}

LEMMA TodoStep ==
  ASSUME NEW s \in Todos, s # <<>>
  PROVE  Head(s) \in JobSet /\ Tail(s) \in Todos /\ Len(Tail(s)) = Len(s) - 1
<1>1. PICK i \in 1..(Len(Jobs) + 1) : s = SubSeq(Jobs, i, Len(Jobs))
  BY DEF Todos
<1>2. Len(Jobs) \in Nat
  BY GatewayAssumption
<1>3. i \in 1..Len(Jobs) /\ Head(s) = Jobs[i] /\ Tail(s) = SubSeq(Jobs, i + 1, Len(Jobs))
  BY <1>1, TodoIsTail
<1>4. i + 1 \in 1..(Len(Jobs) + 1)
  BY <1>2, <1>3
<1>5. Len(Tail(s)) = Len(s) - 1
  <2>1. s \in Seq(JobSet)
    BY <1>1, TodoLength
  <2> QED BY <2>1, HeadTailProperties
<1> QED BY <1>2, <1>3, <1>4, <1>5, JobInHarness DEF Todos

LEMMA TodoEnds == Jobs \in Todos /\ <<>> \in Todos
  BY AllTodo DEF Todos

-----------------------------------------------------------------------------
(* Types *)

LEMMA MinuteType == \A n \in 0..MaxTime : n \div Unit \in Minutes
<1> SUFFICES ASSUME NEW n \in 0..MaxTime PROVE n \div Unit \in 0..(MaxTime \div Unit)
  BY DEF Minutes
<1>1. Unit \in Nat \ {0} /\ MaxTime \in Nat
  BY GatewayAssumption
<1>2. n = Unit * (n \div Unit) + (n % Unit) /\ n % Unit \in 0..(Unit - 1) /\ n \div Unit \in Int
  BY <1>1
<1>3. /\ MaxTime = Unit * (MaxTime \div Unit) + (MaxTime % Unit)
      /\ MaxTime % Unit \in 0..(Unit - 1) /\ MaxTime \div Unit \in Int
  BY <1>1
<1>4. n \div Unit >= 0
  BY <1>1, <1>2
<1>5. n \div Unit <= MaxTime \div Unit
  BY <1>1, <1>2, <1>3
<1> QED BY <1>2, <1>3, <1>4, <1>5

CronType == [at : Busy \union {"sleep", "job", "ended"}, todo : Todos,
             minute : Minutes, wake : 0..(MaxTime + Unit)]
HttpType == [at : Busy \union {"accept", "read", "handle", "ended"}, req : Requests]
WorkerType == [at : {"idle", "run", "ended"}, task : Tasks]
Answers == [Requests -> {"none", "waiting", "done"}]

CronOK == cron \in CronType /\ (cron.at \in Busy => cron.todo # <<>>)

(* What the main thread serves waits for an answer, and is none of the      *)
(* connections not yet accepted, which are distinct.                        *)
Serving == http.at \in Busy \union {"read", "handle"}
HttpOK == /\ http \in HttpType /\ backlog \in Seq(Requests) /\ answer \in Answers
          /\ \A i \in DOMAIN backlog : answer[backlog[i]] = "waiting"
          /\ \A i, k \in DOMAIN backlog : backlog[i] = backlog[k] => i = k
          /\ Serving => /\ answer[http.req] = "waiting"
                        /\ \A i \in DOMAIN backlog : backlog[i] # http.req

WorkerOK == worker \in WorkerType /\ (worker.at = "run" => queue # <<>>) /\ queue \in Seq(Tasks)

RestOK == /\ now \in 0..MaxTime /\ policy \in Policies /\ edits \in 0..MaxTurns
          /\ up \in {"up", "stopping", "down"} /\ starts \in 0..MaxTurns
          /\ file \in [Tasks -> {"absent", "torn", "running"}]
          /\ sent \in [Tasks -> Nat] /\ ticked \subseteq Minutes
          /\ audited \subseteq Tasks /\ raced \subseteq Tasks /\ misfits \subseteq Tasks

(* How far each dispatching thread is with t, and how often t may be sent.  *)
CronPlace(t) == IF CronAbout(t, Busy) THEN cron.at ELSE "none"
HttpPlace(t) == IF HttpAbout(t, Busy) THEN http.at ELSE "none"
Limit(t) == IF t \in raced THEN 2 ELSE 1

(* A thread past start() owes a message.  Sent and owed, there is one       *)
(* message for a task, two if both threads were starting it; and for a task *)
(* they did not race for, the record tells how far its one dispatch is.     *)
Late == {"write", "fill", "send"}
Owes(place) == IF place \in Late THEN 1 ELSE 0
Fine(c, h, record, n, limit) ==
    /\ n \in Nat /\ n + Owes(c) + Owes(h) <= limit
    /\ record = "absent" => n = 0 /\ c \notin {"fill", "send"} /\ h \notin {"fill", "send"}
    /\ limit = 1 => /\ c = "write" \/ h = "write" => record = "absent"
                    /\ c = "fill" \/ h = "fill" => record = "torn"
                    /\ c = "send" \/ h = "send" \/ n > 0 => record = "running"
FileInv == \A t \in Tasks : Fine(CronPlace(t), HttpPlace(t), file[t], sent[t], Limit(t))

(* Every message has its record, complete unless two threads wrote it.      *)
Recorded(t) == file[t] = "running" \/ (file[t] = "torn" /\ t \in raced)
QueueInv == \A i \in DOMAIN queue : Recorded(queue[i])

TypeInv == CronOK /\ HttpOK /\ WorkerOK /\ RestOK /\ FileInv /\ QueueInv

LEMMA TypeOfParts == TypeInv => TypeOK
  BY ZenonT(60) DEF TypeInv, CronOK, HttpOK, WorkerOK, RestOK, QueueInv, Recorded, TypeOK,
                    CronType, HttpType, WorkerType, Todos, Answers

(* The values of threads at rest. *)
LEMMA Rests ==
  /\ NoCron \in CronType
  /\ now \in 0..MaxTime => /\ FreshCron \in CronType
                          /\ [FreshCron EXCEPT !.wake = now + Unit] \in CronType
  /\ \A a \in {"accept", "ended"} : IdleHttp(a) \in HttpType
  /\ \A a \in {"idle", "ended"} : IdleWorker(a) \in WorkerType
<1>1. MaxTime \in Nat /\ Unit \in Nat /\ 0 \in 0..MaxTime
  BY GatewayAssumption
<1>2. 0 \in Minutes
  <2>1. 0 \div Unit = 0
    BY GatewayAssumption
  <2> QED BY <1>1, <2>1, MinuteType
<1>3. \A a \in {"accept", "ended"} : IdleHttp(a) \in HttpType
  BY GatewayAssumption DEF IdleHttp, HttpType
<1>4. \E t : t \in Tasks
  BY GatewayAssumption DEF Tasks
<1>5. \A a \in {"idle", "ended"} : IdleWorker(a) \in WorkerType
  BY <1>4 DEF IdleWorker, WorkerType
<1> QED BY <1>1, <1>2, <1>3, <1>5, TodoEnds DEF NoCron, FreshCron, CronType

LEMMA TaskTypes == ASSUME TypeInv
                   PROVE  /\ TaskOf[http.req] \in Tasks
                          /\ cron.todo # <<>> => CronTask \in JobSet \X Minutes /\ CronTask \in Tasks
<1>1. TaskOf[http.req] \in Tasks
  BY DEF TypeInv, HttpOK, HttpType, Tasks
<1>2. cron.todo \in Todos /\ cron.minute \in Minutes
  BY DEF TypeInv, CronOK, CronType
<1> QED BY <1>1, <1>2, TodoStep DEF CronTask, Tasks

LEMMA TypeInit == Init => TypeInv
<1> SUFFICES ASSUME Init PROVE TypeInv
  OBVIOUS
<1>1. /\ now \in 0..MaxTime /\ edits \in 0..MaxTurns /\ starts \in 0..MaxTurns
      /\ cron \in CronType /\ http \in HttpType /\ worker \in WorkerType
  BY GatewayAssumption, Rests DEF Init
<1>2. cron.at = "ended" /\ http.at = "ended" /\ worker.at = "ended"
  BY DEF Init, NoCron, IdleHttp, IdleWorker
<1>3. CronOK /\ HttpOK /\ WorkerOK
  <2>1. /\ backlog \in Seq(Requests) /\ DOMAIN backlog = {} /\ answer \in Answers
        /\ queue \in Seq(Tasks)
    BY DEF Init, Answers
  <2> QED BY <1>1, <1>2, <2>1 DEF CronOK, HttpOK, WorkerOK, Serving, Busy
<1>4. RestOK
  BY <1>1 DEF Init, RestOK, Policies
<1>5. FileInv
  <2>1. \A t : CronPlace(t) = "none" /\ HttpPlace(t) = "none"
    BY <1>2 DEF CronPlace, HttpPlace, CronAbout, HttpAbout, Busy
  <2>2. \A t \in Tasks : sent[t] = 0 /\ file[t] = "absent" /\ Limit(t) = 1
    BY DEF Init, Limit
  <2> QED BY <2>1, <2>2 DEF FileInv, Fine, Owes, Late
<1>6. QueueInv
  BY DEF Init, QueueInv
<1> QED BY <1>1, <1>3, <1>4, <1>5, <1>6 DEF TypeInv

-----------------------------------------------------------------------------
(* What each action leaves alone, and where the threads' ways lead. *)

Surroundings == Edit \/ Tick \/ Serve \/ Interrupt \/ Exit \/ Crash

LEMMA Frames ==
  /\ CronStep => UNCHANGED <<now, policy, edits, up, starts, http, worker, backlog, answer>>
  /\ HttpStep \/ Receive => UNCHANGED <<now, policy, edits, up, starts, cron, worker, ticked>>
  /\ WorkerStep => UNCHANGED <<now, policy, edits, up, starts, cron, http, backlog, answer, file,
                              audited, sent, ticked, raced, misfits>>
  /\ \A r \in Requests : Connect(r) =>
        UNCHANGED <<now, policy, edits, up, starts, cron, http, worker, queue, file,
                    audited, sent, ticked, raced, misfits>>
  /\ Surroundings => UNCHANGED <<file, audited, sent, ticked, raced, misfits>>
<1>1. CronStep => UNCHANGED <<now, policy, edits, up, starts, http, worker, backlog, answer>>
  BY DEF CronStep, CronWake, CronCheck, CronDispatch, CronSleep, Rest, NotCron
<1>2. HttpStep \/ Receive => UNCHANGED <<now, policy, edits, up, starts, cron, worker, ticked>>
  BY DEF HttpStep, Accept, Webhook, RunRequest, HttpDispatch, Receive, Rest, NotHttp
<1>3. WorkerStep => UNCHANGED <<now, policy, edits, up, starts, cron, http, backlog, answer, file,
                                audited, sent, ticked, raced, misfits>>
  BY DEF WorkerStep, WorkerRead, WorkerSettle, NotWorker, history
<1>4. \A r \in Requests : Connect(r) =>
        UNCHANGED <<now, policy, edits, up, starts, cron, http, worker, queue, file,
                    audited, sent, ticked, raced, misfits>>
  BY DEF Connect, Rest, NotHttp, Quiet
<1>5. Surroundings => UNCHANGED <<file, audited, sent, ticked, raced, misfits>>
  BY DEF Surroundings, Edit, Tick, Serve, Interrupt, Exit, Crash, Gone, history
<1> QED BY <1>1, <1>2, <1>3, <1>4, <1>5

LEMMA CronPlaces ==
  ASSUME TypeInv
  PROVE  /\ CronNext => cron'.at = "job" /\ cron'.minute = cron.minute /\ cron'.todo = Tail(cron.todo)
         /\ CronEnds => cron'.at = "ended"
         /\ CronSleeps => cron'.at = "sleep"
         /\ \A a \in Busy : CronAt(a) => /\ cron'.at = a /\ CronTask' = CronTask
                                        /\ cron'.minute = cron.minute /\ cron'.todo = cron.todo
<1>1. cron \in CronType
  BY DEF TypeInv, CronOK
<1>2. CronNext => cron'.at = "job" /\ cron'.minute = cron.minute /\ cron'.todo = Tail(cron.todo)
  BY <1>1 DEF CronType, CronNext
<1>3. \A a \in Busy : CronAt(a) => cron'.at = a /\ cron'.minute = cron.minute /\ cron'.todo = cron.todo
  BY <1>1 DEF CronType, CronAt
<1>4. CronSleeps => cron'.at = "sleep"
  BY DEF CronSleeps, FreshCron
<1> QED BY <1>2, <1>3, <1>4 DEF CronEnds, NoCron, CronTask

LEMMA HttpPlaces ==
  ASSUME TypeInv
  PROVE  /\ \A a \in Busy \union {"handle"} :
               HttpAt(a) => http'.at = a /\ http'.req = http.req /\ answer' = answer
         /\ \A code : Reply(code) => http'.at = "accept"
<1>1. \A a \in Busy \union {"handle"} :
         HttpAt(a) => http'.at = a /\ http'.req = http.req /\ answer' = answer
  BY DEF TypeInv, HttpOK, HttpType, HttpAt
<1>2. \A code : Reply(code) => http'.at = "accept"
  BY DEF Reply, IdleHttp
<1> QED BY <1>1, <1>2

-----------------------------------------------------------------------------
(* The step of a dispatching thread, as far as the record, the messages and *)
(* the limit of one task go; q is the other thread's place.                 *)
Goes(p, p2, q, record, record2, n, n2, limit, limit2) ==
    \/ p2 \notin Late /\ record2 = record /\ n2 = n /\ limit2 = limit
    \/ /\ p \notin Late /\ p2 = "write" /\ record = "absent" /\ record2 = record /\ n2 = n
       /\ limit2 = IF q = "write" THEN 2 ELSE limit
    \/ p = "write" /\ p2 = "fill" /\ record2 = "torn" /\ n2 = n /\ limit2 = limit
    \/ p = "fill" /\ p2 = "send" /\ record2 = "running" /\ n2 = n /\ limit2 = limit
    \/ p = "send" /\ p2 \notin Late /\ record2 = record /\ n2 = n + 1 /\ limit2 = limit

LEMMA GoesKeeps ==
  ASSUME NEW p, NEW p2, NEW q, NEW record, NEW record2, NEW n, NEW n2,
         NEW limit \in {1, 2}, NEW limit2 \in {1, 2},
         Goes(p, p2, q, record, record2, n, n2, limit, limit2)
  PROVE  /\ Fine(p, q, record, n, limit) => Fine(p2, q, record2, n2, limit2)
         /\ Fine(q, p, record, n, limit) => Fine(q, p2, record2, n2, limit2)
  BY SMTT(20) DEF Goes, Fine, Owes, Late

(* Threads that give up, or are cut off, owe no more than they did. *)
LEMMA LeavingKeeps ==
  ASSUME NEW c, NEW c2, NEW h, NEW h2, NEW record, NEW n, NEW limit \in {1, 2},
         Fine(c, h, record, n, limit),
         c2 = c \/ c2 \notin Late, h2 = h \/ h2 \notin Late
  PROVE  Fine(c2, h2, record, n, limit)
  BY DEF Fine, Owes, Late

LEMMA LimitType == \A t : Limit(t) \in {1, 2}
  BY DEF Limit

(* CronDispatch, from place to place. *)
LEMMA CronDispatchMoves ==
  ASSUME TypeInv, CronDispatch
  PROVE  /\ cron.at \in Busy /\ cron.todo # <<>> /\ CronTask \in Tasks
         /\ \/ /\ cron.at \in {"dispatch", "late"}
               /\ CronAt("start") \/ CronEnds
               /\ UNCHANGED <<file, sent, queue, raced>>
            \/ /\ cron.at = "start" /\ CronAt("write") /\ file[CronTask] = "absent"
               /\ raced' = IF Writing(CronTask) THEN raced \union {CronTask} ELSE raced
               /\ UNCHANGED <<file, sent, queue>>
            \/ /\ cron.at = "start"
               /\ CronEnds \/ (CronNext /\ file[CronTask] = "running")
               /\ UNCHANGED <<file, sent, queue, raced>>
            \/ /\ cron.at = "write" /\ CronAt("fill") /\ file' = [file EXCEPT ![CronTask] = "torn"]
               /\ UNCHANGED <<sent, queue, raced>>
            \/ /\ cron.at = "fill" /\ CronAt("send") /\ file' = [file EXCEPT ![CronTask] = "running"]
               /\ UNCHANGED <<sent, queue, raced>>
            \/ /\ cron.at = "send" /\ CronNext /\ UNCHANGED <<file, raced>>
               /\ queue' = Append(queue, CronTask) /\ sent' = [sent EXCEPT ![CronTask] = @ + 1]
<1>1. cron.at \in Busy /\ cron.todo # <<>> /\ CronTask \in Tasks
  BY TaskTypes DEF TypeInv, CronOK, CronDispatch, Busy
<1> QED BY <1>1, ZenonT(60) DEF CronDispatch, DispatchResolve, Start, Truncate, Fill, Send

LEMMA HttpDispatchMoves ==
  ASSUME TypeInv, HttpDispatch, NEW t, t = TaskOf[http.req]
  PROVE  /\ http.at \in Busy /\ t \in Tasks
         /\ \/ /\ http.at \in {"dispatch", "late"}
               /\ HttpAt("start") \/ \E code : Reply(code)
               /\ UNCHANGED <<file, sent, queue, raced>>
            \/ /\ http.at = "start" /\ HttpAt("write") /\ file[t] = "absent"
               /\ raced' = IF Writing(t) THEN raced \union {t} ELSE raced
               /\ UNCHANGED <<file, sent, queue>>
            \/ /\ http.at = "start" /\ \E code : Reply(code)
               /\ UNCHANGED <<file, sent, queue, raced>>
            \/ /\ http.at = "write" /\ HttpAt("fill") /\ file' = [file EXCEPT ![t] = "torn"]
               /\ UNCHANGED <<sent, queue, raced>>
            \/ /\ http.at = "fill" /\ HttpAt("send") /\ file' = [file EXCEPT ![t] = "running"]
               /\ UNCHANGED <<sent, queue, raced>>
            \/ /\ http.at = "send" /\ (\E code : Reply(code)) /\ UNCHANGED <<file, raced>>
               /\ queue' = Append(queue, t) /\ sent' = [sent EXCEPT ![t] = @ + 1]
<1>1. http.at \in Busy /\ t \in Tasks
  BY TaskTypes DEF HttpDispatch, Busy
<1> QED BY <1>1, ZenonT(60) DEF HttpDispatch, DispatchResolve, Start, Truncate, Fill, Send

(* A thread elsewhere, or dispatching another task, has no place with t. *)
LEMMA PlaceTypes ==
  \A t : /\ CronPlace(t) \in Busy \union {"none"} /\ HttpPlace(t) \in Busy \union {"none"}
         /\ CronPlace(t) # "none" => CronPlace(t) = cron.at /\ t = CronTask
         /\ HttpPlace(t) # "none" => HttpPlace(t) = http.at /\ t = TaskOf[http.req]
  BY DEF CronPlace, HttpPlace, CronAbout, HttpAbout, CronTask, Busy

LEMMA WritingPlaces ==
  \A t : Writing(t) <=> CronPlace(t) = "write" \/ HttpPlace(t) = "write"
  BY DEF Writing, CronPlace, HttpPlace, CronAbout, HttpAbout, Busy

(* What every action but the two dispatches leaves alone. *)
LEMMA OthersSendNothing ==
  ASSUME TypeInv, [Next]_vars, ~CronDispatch, ~HttpDispatch
  PROVE  /\ UNCHANGED <<file, sent, raced>>
         /\ cron' = cron \/ cron'.at \notin Late \union {"start"}
         /\ http' = http \/ http'.at \notin Late \union {"start"}
<1> USE DEF history, threads, Late
<1>1. CASE CronStep
  <2>0. UNCHANGED <<http, file, sent, raced>>
    BY <1>1, Frames DEF CronStep, CronWake, CronCheck, CronSleep
  <2>1. CASE CronWake
    BY <2>0, <2>1, CronPlaces DEF CronWake, TypeInv, CronOK, CronType
  <2>2. CASE CronCheck
    <3>1. CronNext \/ CronAt("dispatch") \/ CronEnds
      BY <2>2 DEF CronCheck
    <3> QED BY <2>0, <3>1, CronPlaces DEF Busy
  <2>3. CASE CronSleep
    BY <2>0, <2>3, CronPlaces DEF CronSleep
  <2> QED BY <1>1, <2>1, <2>2, <2>3 DEF CronStep
<1>2. CASE HttpStep \/ Receive
  <2>0. UNCHANGED <<cron, file, sent, raced>>
    BY <1>2, Frames DEF HttpStep, Accept, Webhook, RunRequest, Receive, Quiet
  <2>1. CASE Accept
    BY <2>0, <2>1 DEF Accept
  <2>2. CASE Webhook \/ RunRequest \/ Receive
    <3>1. HttpAt("handle") \/ HttpAt("dispatch") \/ \E code : Reply(code)
      BY <2>2 DEF Webhook, RunRequest, Receive
    <3> QED BY <2>0, <3>1, HttpPlaces DEF Busy
  <2> QED BY <1>2, <2>1, <2>2 DEF HttpStep
<1>3. CASE WorkerStep
  BY <1>3, Frames
<1>4. CASE \E r \in Requests : Connect(r)
  BY <1>4, Frames
<1>5. CASE Edit
  <2>1. cron'.at \in {cron.at, "late"} /\ (cron'.at = cron.at => cron' = cron)
    BY <1>5 DEF Edit, Overtaken, TypeInv, CronOK, CronType
  <2>2. http'.at \in {http.at, "late"} /\ (http'.at = http.at => http' = http)
    BY <1>5 DEF Edit, Overtaken, TypeInv, HttpOK, HttpType
  <2>3. UNCHANGED <<file, sent, raced>>
    BY <1>5 DEF Edit
  <2> QED BY <2>1, <2>2, <2>3
<1>6. CASE Tick \/ Serve \/ Interrupt \/ Exit \/ Crash \/ UNCHANGED vars
  BY <1>6 DEF Tick, Serve, Interrupt, Exit, Crash, Gone, FreshCron, NoCron, IdleHttp, vars
<1> QED BY <1>1, <1>2, <1>3, <1>4, <1>5, <1>6 DEF Next

LEMMA FileStep == TypeInv /\ [Next]_vars => FileInv'
<1> SUFFICES ASSUME TypeInv, [Next]_vars, NEW t \in Tasks
             PROVE  Fine(CronPlace(t), HttpPlace(t), file[t], sent[t], Limit(t))'
  BY DEF FileInv
<1>0. /\ Fine(CronPlace(t), HttpPlace(t), file[t], sent[t], Limit(t))
      /\ Limit(t) \in {1, 2} /\ Limit(t)' \in {1, 2}
      /\ file \in [Tasks -> {"absent", "torn", "running"}] /\ sent \in [Tasks -> Nat]
  BY LimitType DEF TypeInv, FileInv, RestOK, Limit
<1>1. CASE CronDispatch
  <2>1. http' = http /\ HttpPlace(t)' = HttpPlace(t)
    BY <1>1, Frames DEF CronStep, HttpPlace, HttpAbout
  <2>2. Goes(CronPlace(t), CronPlace(t)', HttpPlace(t), file[t], file'[t], sent[t], sent'[t],
             Limit(t), Limit(t)')
    <3>0. cron.at \in Busy /\ cron.todo # <<>> /\ CronTask \in Tasks
      BY <1>1, CronDispatchMoves
    <3>a. /\ cron'.at \notin Busy => CronPlace(t)' = "none"
          /\ \A a \in Busy : CronAt(a) => CronPlace(t)' = IF t = CronTask THEN a ELSE "none"
      <4>1. cron'.at \notin Busy => CronPlace(t)' = "none"
        BY DEF CronPlace, CronAbout
      <4>2. ASSUME NEW a \in Busy, CronAt(a) PROVE CronPlace(t)' = IF t = CronTask THEN a ELSE "none"
        <5>1. cron'.at = a /\ CronTask' = CronTask
          BY <4>2, CronPlaces
        <5> QED BY <4>2, <5>1 DEF CronPlace, CronAbout, CronTask
      <4> QED BY <4>1, <4>2
    <3>b. CronPlace(t) = IF t = CronTask THEN cron.at ELSE "none"
      BY <3>0 DEF CronPlace, CronAbout, CronTask
    <3>c. (CronNext \/ CronEnds) => CronPlace(t)' = "none"
      BY <3>a, CronPlaces DEF Busy
    <3>d. Limit(t)' = IF t \in raced' THEN 2 ELSE 1
      BY DEF Limit
    <3>e. cron.at # "write" => (Writing(CronTask) <=> HttpPlace(CronTask) = "write")
      BY <3>0, WritingPlaces, PlaceTypes DEF Busy
    <3>1. CASE cron.at \in {"dispatch", "late"}
      BY <1>1, <3>1, <3>a, <3>c, CronDispatchMoves DEF Goes, Late, Busy, Limit
    <3>2. CASE cron.at = "start"
      <4>1. \/ CronAt("write") /\ file[CronTask] = "absent" /\ UNCHANGED <<file, sent>>
               /\ raced' = IF HttpPlace(CronTask) = "write" THEN raced \union {CronTask} ELSE raced
            \/ (CronNext \/ CronEnds) /\ UNCHANGED <<file, sent, raced>>
        BY <1>1, <3>2, <3>e, CronDispatchMoves
      <4>2. CASE (CronNext \/ CronEnds) /\ UNCHANGED <<file, sent, raced>>
        BY <3>c, <4>2 DEF Goes, Late, Limit
      <4>3. CASE /\ CronAt("write") /\ file[CronTask] = "absent" /\ UNCHANGED <<file, sent>>
                 /\ raced' = IF HttpPlace(CronTask) = "write" THEN raced \union {CronTask} ELSE raced
        <5>1. CronPlace(t)' = IF t = CronTask THEN "write" ELSE "none"
          BY <3>a, <4>3 DEF Busy
        <5> QED BY <3>2, <3>b, <4>3, <5>1 DEF Goes, Late, Limit
      <4> QED BY <4>1, <4>2, <4>3
    <3>3. CASE cron.at \in {"write", "fill"}
      <4>1. PICK a \in {"fill", "send"}, record \in {"torn", "running"} :
               /\ CronAt(a) /\ file' = [file EXCEPT ![CronTask] = record] /\ UNCHANGED <<sent, raced>>
               /\ cron.at = "write" => a = "fill" /\ record = "torn"
               /\ cron.at = "fill" => a = "send" /\ record = "running"
        BY <1>1, <3>3, CronDispatchMoves
      <4>2. CronPlace(t)' = IF t = CronTask THEN a ELSE "none"
        BY <3>a, <4>1 DEF Busy
      <4> QED BY <1>0, <3>0, <3>3, <3>b, <4>1, <4>2 DEF Goes, Late, Limit
    <3>4. CASE cron.at = "send"
      <4>1. CronNext /\ UNCHANGED <<file, raced>> /\ sent' = [sent EXCEPT ![CronTask] = @ + 1]
        BY <1>1, <3>4, CronDispatchMoves
      <4> QED BY <1>0, <3>0, <3>4, <3>b, <3>c, <4>1 DEF Goes, Late, Limit
    <3> QED BY <3>0, <3>1, <3>2, <3>3, <3>4 DEF Busy
  <2> QED BY <1>0, <2>1, <2>2, GoesKeeps
<1>2. CASE HttpDispatch
  <2> DEFINE u == TaskOf[http.req]
  <2>1. cron' = cron /\ CronPlace(t)' = CronPlace(t)
    BY <1>2, Frames DEF HttpStep, CronPlace, CronAbout
  <2>2. Goes(HttpPlace(t), HttpPlace(t)', CronPlace(t), file[t], file'[t], sent[t], sent'[t],
             Limit(t), Limit(t)')
    <3>0. http.at \in Busy /\ u \in Tasks
      BY <1>2, HttpDispatchMoves
    <3>a. /\ http'.at \notin Busy => HttpPlace(t)' = "none"
          /\ \A a \in Busy : HttpAt(a) => HttpPlace(t)' = IF t = u THEN a ELSE "none"
      BY HttpPlaces DEF HttpPlace, HttpAbout
    <3>b. HttpPlace(t) = IF t = u THEN http.at ELSE "none"
      BY <3>0 DEF HttpPlace, HttpAbout
    <3>c. (\E code : Reply(code)) => HttpPlace(t)' = "none"
      BY <3>a, HttpPlaces DEF Busy
    <3>e. http.at # "write" => (Writing(u) <=> CronPlace(u) = "write")
      BY <3>0, WritingPlaces, PlaceTypes DEF Busy
    <3>1. CASE http.at \in {"dispatch", "late"}
      BY <1>2, <3>1, <3>a, <3>c, HttpDispatchMoves DEF Goes, Late, Busy, Limit
    <3>2. CASE http.at = "start"
      <4>1. \/ HttpAt("write") /\ file[u] = "absent" /\ UNCHANGED <<file, sent>>
               /\ raced' = IF CronPlace(u) = "write" THEN raced \union {u} ELSE raced
            \/ (\E code : Reply(code)) /\ UNCHANGED <<file, sent, raced>>
        BY <1>2, <3>2, <3>e, HttpDispatchMoves
      <4>2. CASE (\E code : Reply(code)) /\ UNCHANGED <<file, sent, raced>>
        BY <3>c, <4>2 DEF Goes, Late, Limit
      <4>3. CASE /\ HttpAt("write") /\ file[u] = "absent" /\ UNCHANGED <<file, sent>>
                 /\ raced' = IF CronPlace(u) = "write" THEN raced \union {u} ELSE raced
        <5>1. HttpPlace(t)' = IF t = u THEN "write" ELSE "none"
          BY <3>a, <4>3 DEF Busy
        <5> QED BY <3>2, <3>b, <4>3, <5>1 DEF Goes, Late, Limit
      <4> QED BY <4>1, <4>2, <4>3
    <3>3. CASE http.at \in {"write", "fill"}
      <4>1. PICK a \in {"fill", "send"}, record \in {"torn", "running"} :
               /\ HttpAt(a) /\ file' = [file EXCEPT ![u] = record] /\ UNCHANGED <<sent, raced>>
               /\ http.at = "write" => a = "fill" /\ record = "torn"
               /\ http.at = "fill" => a = "send" /\ record = "running"
        BY <1>2, <3>3, HttpDispatchMoves
      <4>2. HttpPlace(t)' = IF t = u THEN a ELSE "none"
        BY <3>a, <4>1 DEF Busy
      <4> QED BY <1>0, <3>0, <3>3, <3>b, <4>1, <4>2 DEF Goes, Late, Limit
    <3>4. CASE http.at = "send"
      <4>1. (\E code : Reply(code)) /\ UNCHANGED <<file, raced>> /\ sent' = [sent EXCEPT ![u] = @ + 1]
        BY <1>2, <3>4, HttpDispatchMoves
      <4> QED BY <1>0, <3>0, <3>4, <3>b, <3>c, <4>1 DEF Goes, Late, Limit
    <3> QED BY <3>0, <3>1, <3>2, <3>3, <3>4 DEF Busy
  <2> QED BY <1>0, <2>1, <2>2, GoesKeeps
<1>3. CASE ~CronDispatch /\ ~HttpDispatch
  <2>1. /\ UNCHANGED <<file, sent, raced>>
        /\ cron' = cron \/ cron'.at \notin Late
        /\ http' = http \/ http'.at \notin Late
    BY <1>3, OthersSendNothing
  <2>2. CronPlace(t)' = CronPlace(t) \/ CronPlace(t)' \notin Late
    BY <2>1 DEF CronPlace, CronAbout, Late
  <2>3. HttpPlace(t)' = HttpPlace(t) \/ HttpPlace(t)' \notin Late
    BY <2>1 DEF HttpPlace, HttpAbout, Late
  <2>4. Limit(t)' = Limit(t)
    BY <2>1 DEF Limit
  <2> QED BY <1>0, <2>1, <2>2, <2>3, <2>4, LeavingKeeps
<1> QED BY <1>1, <1>2, <1>3

(* A complete record is opened again only by the second of two threads that *)
(* raced for it; at a send there is one.                                    *)
LEMMA RecordStays == ASSUME TypeInv, [Next]_vars, NEW t \in Tasks, Recorded(t) PROVE Recorded(t)'
<1>0. /\ Fine(CronPlace(t), HttpPlace(t), file[t], sent[t], Limit(t))
      /\ file \in [Tasks -> {"absent", "torn", "running"}]
  BY DEF TypeInv, FileInv, RestOK
<1>1. \/ UNCHANGED <<file, raced>>
      \/ UNCHANGED file /\ raced \subseteq raced'
      \/ /\ raced' = raced
         /\ \E u \in Tasks : /\ CronPlace(u) = "write" \/ HttpPlace(u) = "write"
                             /\ file' = [file EXCEPT ![u] = "torn"]
      \/ raced' = raced /\ \E u \in Tasks : file' = [file EXCEPT ![u] = "running"]
  <2>1. CASE CronDispatch
    <3>1. CronTask \in Tasks /\ CronPlace(CronTask) = cron.at
      BY <2>1, CronDispatchMoves DEF CronPlace, CronAbout, CronTask
    <3> QED BY <2>1, <3>1, CronDispatchMoves
  <2>2. CASE HttpDispatch
    <3> DEFINE u == TaskOf[http.req]
    <3>1. u \in Tasks /\ HttpPlace(u) = http.at
      BY <2>2, HttpDispatchMoves DEF HttpPlace, HttpAbout
    <3> QED BY <2>2, <3>1, HttpDispatchMoves
  <2>3. CASE ~CronDispatch /\ ~HttpDispatch
    BY <2>3, OthersSendNothing
  <2> QED BY <2>1, <2>2, <2>3
<1>2. CASE UNCHANGED file /\ raced \subseteq raced'
  BY <1>2 DEF Recorded
<1>3. CASE raced' = raced /\ \E u \in Tasks : file' = [file EXCEPT ![u] = "running"]
  BY <1>0, <1>3 DEF Recorded
<1>4. CASE /\ raced' = raced
           /\ \E u \in Tasks : /\ CronPlace(u) = "write" \/ HttpPlace(u) = "write"
                               /\ file' = [file EXCEPT ![u] = "torn"]
  <2>1. PICK u \in Tasks : /\ CronPlace(u) = "write" \/ HttpPlace(u) = "write"
                           /\ file' = [file EXCEPT ![u] = "torn"]
    BY <1>4
  <2>2. CASE u = t
    <3>1. t \in raced
      BY <1>0, <2>1, <2>2 DEF Fine, Limit, Recorded
    <3> QED BY <1>0, <1>4, <2>1, <2>2, <3>1 DEF Recorded
  <2>3. CASE u # t
    BY <1>0, <1>4, <2>1, <2>3 DEF Recorded
  <2> QED BY <2>2, <2>3
<1> QED BY <1>1, <1>2, <1>3, <1>4

LEMMA SendRecorded ==
  ASSUME TypeInv, NEW t \in Tasks, CronPlace(t) = "send" \/ HttpPlace(t) = "send"
  PROVE  Recorded(t)
<1>1. /\ Fine(CronPlace(t), HttpPlace(t), file[t], sent[t], Limit(t))
      /\ file[t] \in {"absent", "torn", "running"}
  BY DEF TypeInv, FileInv, RestOK
<1> QED BY <1>1 DEF Fine, Limit, Recorded

(* The queue grows by a send, at its end, and shrinks from its head. *)
LEMMA QueueMoves ==
  ASSUME TypeInv, [Next]_vars
  PROVE  \/ queue' = queue \/ queue' = <<>> \/ (queue # <<>> /\ queue' = Tail(queue))
         \/ \E t \in Tasks : Recorded(t) /\ queue' = Append(queue, t)
<1>1. CASE CronDispatch
  <2>1. CronTask \in Tasks /\ CronPlace(CronTask) = cron.at
    BY <1>1, CronDispatchMoves DEF CronPlace, CronAbout, CronTask
  <2> QED BY <1>1, <2>1, CronDispatchMoves, SendRecorded
<1>2. CASE HttpDispatch
  <2> DEFINE u == TaskOf[http.req]
  <2>1. u \in Tasks /\ HttpPlace(u) = http.at
    BY <1>2, HttpDispatchMoves DEF HttpPlace, HttpAbout
  <2> QED BY <1>2, <2>1, HttpDispatchMoves, SendRecorded
<1>3. CASE WorkerStep
  BY <1>3 DEF WorkerStep, WorkerRead, WorkerSettle, TypeInv, WorkerOK
<1>4. CASE CronWake \/ CronCheck \/ CronSleep \/ Accept \/ Webhook \/ RunRequest \/ Receive
  BY <1>4 DEF CronWake, CronCheck, CronSleep, Accept, Webhook, RunRequest, Receive, Quiet
<1>5. CASE (\E r \in Requests : Connect(r)) \/ Edit \/ Tick \/ Serve \/ Interrupt \/ Exit \/ Crash
           \/ UNCHANGED vars
  BY <1>5 DEF Connect, Quiet, Edit, Tick, Serve, Interrupt, Exit, Crash, Gone, vars
<1> QED BY <1>1, <1>2, <1>3, <1>4, <1>5 DEF Next, CronStep, HttpStep

LEMMA QueueStep == TypeInv /\ [Next]_vars => queue' \in Seq(Tasks) /\ QueueInv'
<1> SUFFICES ASSUME TypeInv, [Next]_vars PROVE queue' \in Seq(Tasks) /\ QueueInv'
  OBVIOUS
<1>1. queue \in Seq(Tasks) /\ \A i \in 1..Len(queue) : queue[i] \in Tasks /\ Recorded(queue[i])
  BY DEF TypeInv, WorkerOK, QueueInv
<1>2. \A t \in Tasks : Recorded(t) => Recorded(t)'
  BY RecordStays
<1>3. SUFFICES queue' \in Seq(Tasks) /\ \A i \in 1..Len(queue') : queue'[i] \in Tasks /\ Recorded(queue'[i])
  BY <1>2 DEF QueueInv, Recorded
<1>4. CASE queue' = queue \/ queue' = <<>>
  <2>1. <<>> \in Seq(Tasks) /\ Len(<<>>) = 0
    OBVIOUS
  <2>2. CASE queue' = <<>>
    BY <2>1, <2>2
  <2>3. CASE queue' = queue
    BY <1>1, <2>3
  <2> QED BY <1>4, <2>2, <2>3
<1>5. CASE queue # <<>> /\ queue' = Tail(queue)
  <2>1. /\ Tail(queue) \in Seq(Tasks) /\ Len(queue) \in Nat /\ Len(Tail(queue)) = Len(queue) - 1
        /\ \A i \in 1..Len(Tail(queue)) : Tail(queue)[i] = queue[i + 1]
    BY <1>1, <1>5, HeadTailProperties, LenProperties
  <2>2. \A i \in 1..(Len(queue) - 1) : i + 1 \in 1..Len(queue)
    BY <2>1
  <2> QED BY <1>1, <1>5, <2>1, <2>2
<1>6. CASE \E t \in Tasks : Recorded(t) /\ queue' = Append(queue, t)
  <2>1. PICK t \in Tasks : Recorded(t) /\ queue' = Append(queue, t)
    BY <1>6
  <2>2. /\ queue' \in Seq(Tasks) /\ Len(queue) \in Nat /\ Len(queue') = Len(queue) + 1
        /\ queue'[Len(queue) + 1] = t /\ \A i \in 1..Len(queue) : queue'[i] = queue[i]
    BY <1>1, <2>1, AppendProperties, LenProperties
  <2>3. \A i \in 1..Len(queue') : i \in 1..Len(queue) \/ i = Len(queue) + 1
    BY <2>2
  <2> QED BY <1>1, <2>1, <2>2, <2>3
<1> QED BY <1>4, <1>5, <1>6, QueueMoves

LEMMA CronStepOK == TypeInv /\ [Next]_vars => CronOK'
<1> SUFFICES ASSUME TypeInv, [Next]_vars PROVE CronOK'
  OBVIOUS
<1>0. cron \in CronType /\ (cron.at \in Busy => cron.todo # <<>>) /\ now \in 0..MaxTime
  BY DEF TypeInv, CronOK, RestOK
<1>1. ASSUME cron' \in CronType, cron'.at \notin Busy PROVE CronOK'
  BY <1>1 DEF CronOK
<1>2. ASSUME CronNext, cron.todo # <<>> PROVE CronOK'
  <2>1. cron' = [cron EXCEPT !.at = "job", !.todo = Tail(@)] /\ Tail(cron.todo) \in Todos
    BY <1>0, <1>2, TodoStep DEF CronNext, CronType
  <2> QED BY <1>0, <1>1, <2>1 DEF CronType, Busy
<1>3. ASSUME CronEnds \/ CronSleeps PROVE CronOK'
  BY <1>0, <1>1, <1>3, Rests DEF CronEnds, CronSleeps, NoCron, FreshCron, Busy
<1>4. ASSUME NEW a \in Busy, CronAt(a), cron.todo # <<>> PROVE CronOK'
  BY <1>0, <1>4 DEF CronAt, CronType, CronOK
<1>5. CASE CronWake
  <2>1. CASE cron' = [cron EXCEPT !.at = "job", !.todo = Jobs, !.minute = now \div Unit]
    <3>1. Jobs \in Todos /\ now \div Unit \in Minutes
      BY <1>0, TodoEnds, MinuteType
    <3> QED BY <1>0, <1>1, <2>1, <3>1 DEF CronType, Busy
  <2> QED BY <1>3, <1>5, <2>1 DEF CronWake
<1>6. CASE CronCheck
  <2>1. cron.todo # <<>> /\ (CronNext \/ CronAt("dispatch") \/ CronEnds)
    BY <1>6 DEF CronCheck
  <2> QED BY <1>2, <1>3, <1>4, <2>1 DEF Busy
<1>7. CASE CronDispatch
  <2>1. cron.todo # <<>> /\ (CronNext \/ CronEnds \/ \E a \in Busy : CronAt(a))
    BY <1>7, CronDispatchMoves DEF Busy
  <2> QED BY <1>2, <1>3, <1>4, <2>1
<1>8. CASE CronSleep
  BY <1>3, <1>8 DEF CronSleep
<1>9. CASE Edit
  <2>1. cron' = [cron EXCEPT !.at = Overtaken(@)]
    BY <1>9 DEF Edit
  <2> QED BY <1>0, <2>1 DEF Overtaken, CronType, CronOK, Busy
<1>10. CASE Serve \/ Exit \/ Crash
  <2>1. cron' = FreshCron \/ cron' = NoCron
    BY <1>10 DEF Serve, Exit, Crash, Gone
  <2> QED BY <1>0, <1>1, <2>1, Rests DEF FreshCron, NoCron, Busy
<1>11. CASE HttpStep \/ Receive \/ WorkerStep \/ (\E r \in Requests : Connect(r))
            \/ Tick \/ Interrupt \/ UNCHANGED vars
  <2>1. cron' = cron
    BY <1>11, Frames DEF Tick, Interrupt, vars, threads
  <2> QED BY <1>0, <2>1 DEF CronOK
<1> QED BY <1>5, <1>6, <1>7, <1>8, <1>9, <1>10, <1>11 DEF Next, CronStep

LEMMA HttpStepOK == TypeInv /\ [Next]_vars => HttpOK'
<1> SUFFICES ASSUME TypeInv, [Next]_vars PROVE HttpOK'
  OBVIOUS
<1>0. /\ http \in HttpType /\ backlog \in Seq(Requests) /\ answer \in Answers
      /\ \A i \in DOMAIN backlog : answer[backlog[i]] = "waiting"
      /\ \A i, k \in DOMAIN backlog : backlog[i] = backlog[k] => i = k
      /\ Serving => /\ answer[http.req] = "waiting"
                    /\ \A i \in DOMAIN backlog : backlog[i] # http.req
  BY DEF TypeInv, HttpOK
<1>1. ASSUME NEW code, Reply(code), Serving, backlog' = backlog PROVE HttpOK'
  <2>1. http' \in HttpType /\ http'.at = "accept"
    BY <1>1, Rests DEF Reply, IdleHttp
  <2>2. answer' = [answer EXCEPT ![http.req] = Answered(http.req)] /\ Answered(http.req) \in {"none", "done"}
    BY <1>1 DEF Reply, Answered
  <2>3. \A i \in DOMAIN backlog : backlog[i] # http.req /\ backlog[i] \in Requests
    BY <1>0, <1>1
  <2>4. answer' \in Answers /\ \A i \in DOMAIN backlog : answer'[backlog[i]] = "waiting"
    BY <1>0, <2>2, <2>3 DEF Answers
  <2>5. ~Serving'
    BY <2>1 DEF Serving, Busy
  <2> QED BY <1>0, <1>1, <2>1, <2>4, <2>5 DEF HttpOK
<1>2. ASSUME NEW a \in Busy \union {"handle"}, HttpAt(a), Serving, backlog' = backlog PROVE HttpOK'
  BY <1>0, <1>2 DEF HttpAt, HttpType, HttpOK, Serving
<1>3. CASE Accept
  <2>1. /\ Head(backlog) \in Requests
        /\ Tail(backlog) \in Seq(Requests) /\ Head(backlog) = backlog[1]
        /\ DOMAIN backlog = 1..Len(backlog) /\ Len(backlog) \in Nat \ {0}
        /\ DOMAIN Tail(backlog) = 1..(Len(backlog) - 1)
        /\ \A i \in 1..(Len(backlog) - 1) : Tail(backlog)[i] = backlog[i + 1]
    BY <1>0, <1>3, HeadTailProperties, LenProperties DEF Accept
  <2>2. /\ http' \in HttpType /\ http'.req = backlog[1]
        /\ backlog' = Tail(backlog) /\ answer' = answer
    BY <1>3, <2>1 DEF Accept, HttpType
  <2>3. \A i \in DOMAIN backlog' : i + 1 \in DOMAIN backlog /\ i + 1 # 1 /\ backlog'[i] = backlog[i + 1]
    BY <2>1, <2>2
  <2>4. \A i \in DOMAIN backlog' : answer'[backlog'[i]] = "waiting" /\ backlog'[i] # http'.req
    BY <1>0, <2>1, <2>2, <2>3
  <2>5. \A i, k \in DOMAIN backlog' : backlog'[i] = backlog'[k] => i = k
    BY <1>0, <2>1, <2>2, <2>3
  <2>6. answer'[http'.req] = "waiting"
    BY <1>0, <2>1, <2>2
  <2> QED BY <1>0, <2>1, <2>2, <2>4, <2>5, <2>6 DEF HttpOK
<1>4. CASE Webhook \/ RunRequest \/ Receive
  <2>1. Serving /\ backlog' = backlog
    BY <1>4 DEF Webhook, RunRequest, Receive, Serving, Busy
  <2>2. HttpAt("handle") \/ HttpAt("dispatch") \/ \E code : Reply(code)
    BY <1>4 DEF Webhook, RunRequest, Receive
  <2> QED BY <1>1, <1>2, <2>1, <2>2 DEF Busy
<1>5. CASE HttpDispatch
  <2>1. Serving /\ backlog' = backlog
    BY <1>5 DEF HttpDispatch, Serving, Busy
  <2>2. (\E a \in Busy : HttpAt(a)) \/ \E code : Reply(code)
    BY <1>5, HttpDispatchMoves DEF Busy
  <2> QED BY <1>1, <1>2, <2>1, <2>2
<1>6. ASSUME NEW r \in Requests, Connect(r) PROVE HttpOK'
  <2>1. /\ answer' = [answer EXCEPT ![r] = "waiting"] /\ backlog' = Append(backlog, r)
        /\ answer[r] = "none" /\ http' = http
    BY <1>6 DEF Connect
  <2>2. /\ backlog' \in Seq(Requests) /\ Len(backlog) \in Nat
        /\ DOMAIN backlog = 1..Len(backlog) /\ DOMAIN backlog' = 1..(Len(backlog) + 1)
        /\ backlog'[Len(backlog) + 1] = r /\ \A i \in 1..Len(backlog) : backlog'[i] = backlog[i]
    BY <1>0, <2>1, AppendProperties, LenProperties
  <2>3. /\ \A i \in DOMAIN backlog' : i \in DOMAIN backlog \/ i = Len(backlog) + 1
        /\ \A i \in DOMAIN backlog : backlog[i] \in Requests /\ backlog[i] # r
    BY <1>0, <2>1, <2>2
  <2>4. answer' \in Answers /\ \A i \in DOMAIN backlog' : answer'[backlog'[i]] = "waiting"
    BY <1>0, <2>1, <2>2, <2>3 DEF Answers
  <2>5. \A i, k \in DOMAIN backlog' : backlog'[i] = backlog'[k] => i = k
    BY <1>0, <2>2, <2>3
  <2>6. Serving' => /\ answer'[http.req] = "waiting"
                    /\ \A i \in DOMAIN backlog' : backlog'[i] # http.req
    <3>1. Serving => http.req # r /\ http.req \in Requests
      BY <1>0, <2>1 DEF HttpType
    <3>2. Serving' <=> Serving
      BY <2>1 DEF Serving
    <3> QED BY <1>0, <2>1, <2>2, <2>3, <3>1, <3>2 DEF Answers
  <2> QED BY <1>0, <2>1, <2>2, <2>4, <2>5, <2>6 DEF HttpOK
<1>7. CASE Edit
  <2>1. http' = [http EXCEPT !.at = Overtaken(@)] /\ UNCHANGED <<backlog, answer>>
    BY <1>7 DEF Edit
  <2>2. http' \in HttpType /\ http'.req = http.req /\ (Serving' => Serving)
    BY <1>0, <2>1 DEF Overtaken, HttpType, Serving, Busy
  <2> QED BY <1>0, <2>1, <2>2 DEF HttpOK
<1>8. CASE Serve \/ Interrupt
  <2>1. PICK a \in {"accept", "ended"} : http' = IdleHttp(a)
    BY <1>8 DEF Serve, Interrupt
  <2>2. http' \in HttpType /\ http'.at = a /\ UNCHANGED <<backlog, answer>>
    BY <1>8, <2>1, Rests DEF Serve, Interrupt, IdleHttp
  <2>3. ~Serving'
    BY <2>2 DEF Serving, Busy
  <2> QED BY <1>0, <2>2, <2>3 DEF HttpOK
<1>9. CASE Gone
  <2>1. http' \in HttpType /\ ~Serving' /\ backlog' = <<>>
    BY <1>9, Rests DEF Gone, IdleHttp, Serving, Busy
  <2>2. answer' \in Answers
    BY <1>0, <1>9 DEF Gone, Answers, Answered
  <2> QED BY <2>1, <2>2 DEF HttpOK
<1>10. CASE CronStep \/ WorkerStep \/ Tick \/ UNCHANGED vars
  <2>1. UNCHANGED <<http, backlog, answer>>
    BY <1>10, Frames DEF Tick, vars, threads
  <2> QED BY <1>0, <2>1 DEF HttpOK, Serving
<1> QED BY <1>3, <1>4, <1>5, <1>6, <1>7, <1>8, <1>9, <1>10 DEF Next, HttpStep, Exit, Crash

LEMMA WorkerStepOK == TypeInv /\ [Next]_vars => WorkerOK'
<1> SUFFICES ASSUME TypeInv, [Next]_vars PROVE WorkerOK'
  OBVIOUS
<1>0. worker \in WorkerType /\ (worker.at = "run" => queue # <<>>) /\ queue \in Seq(Tasks)
  BY DEF TypeInv, WorkerOK
<1>1. queue' \in Seq(Tasks)
  BY QueueStep
<1>2. worker' \in WorkerType /\ (worker'.at = "run" => queue' # <<>>)
  <2>1. CASE WorkerRead
    BY <1>0, <2>1, Rests, HeadTailProperties DEF WorkerRead, WorkerType, IdleWorker
  <2>2. CASE WorkerSettle \/ Serve \/ Exit \/ Crash
    <3>1. \E a \in {"idle", "ended"} : worker' = IdleWorker(a)
      BY <2>2 DEF WorkerSettle, Serve, Exit, Crash, Gone
    <3>2. PICK a \in {"idle", "ended"} : worker' = IdleWorker(a)
      BY <3>1
    <3>3. worker'.at = a /\ a # "run"
      BY <3>2 DEF IdleWorker
    <3> QED BY <3>2, <3>3, Rests
  <2>3. CASE CronStep \/ HttpStep \/ Receive \/ (\E r \in Requests : Connect(r)) \/ Edit \/ Tick
             \/ Interrupt \/ UNCHANGED vars
    <3>1. worker' = worker
      BY <2>3, Frames DEF Edit, Tick, Interrupt, vars, threads
    <3>2. queue' = queue \/ \E t \in Tasks : queue' = Append(queue, t)
      <4>1. CASE CronDispatch \/ HttpDispatch
        BY <4>1, CronDispatchMoves, HttpDispatchMoves
      <4>2. CASE ~CronDispatch /\ ~HttpDispatch
        BY <2>3, <4>2 DEF CronStep, HttpStep, CronWake, CronCheck, CronSleep, Accept, Webhook, RunRequest,
           Receive, Quiet, Connect, Edit, Tick, Interrupt, vars
      <4> QED BY <4>1, <4>2
    <3>3. queue # <<>> => queue' # <<>>
      BY <1>0, <3>2, AppendProperties
    <3> QED BY <1>0, <3>1, <3>3
  <2> QED BY <2>1, <2>2, <2>3 DEF Next, WorkerStep
<1> QED BY <1>1, <1>2 DEF WorkerOK

LEMMA RestStepOK == TypeInv /\ [Next]_vars => RestOK'
<1> SUFFICES ASSUME TypeInv, [Next]_vars PROVE RestOK'
  OBVIOUS
<1>0. RestOK
  BY DEF TypeInv
<1>1. /\ file' \in [Tasks -> {"absent", "torn", "running"}] /\ sent' \in [Tasks -> Nat]
      /\ raced' \subseteq Tasks
  <2>1. CASE CronDispatch
    <3>1. \/ UNCHANGED file
          \/ \E v \in {"torn", "running"} : file' = [file EXCEPT ![CronTask] = v]
      BY <2>1, CronDispatchMoves
    <3>2. sent' = sent \/ sent' = [sent EXCEPT ![CronTask] = @ + 1]
      BY <2>1, CronDispatchMoves
    <3>3. CronTask \in Tasks /\ raced' \subseteq raced \union {CronTask}
      BY <2>1, CronDispatchMoves
    <3> QED BY <1>0, <3>1, <3>2, <3>3 DEF RestOK
  <2>2. CASE HttpDispatch
    <3> DEFINE u == TaskOf[http.req]
    <3>1. UNCHANGED file \/ \E v \in {"torn", "running"} : file' = [file EXCEPT ![u] = v]
      BY <2>2, HttpDispatchMoves
    <3>2. sent' = sent \/ sent' = [sent EXCEPT ![u] = @ + 1]
      BY <2>2, HttpDispatchMoves
    <3>3. u \in Tasks /\ raced' \subseteq raced \union {u}
      BY <2>2, HttpDispatchMoves
    <3> QED BY <1>0, <3>1, <3>2, <3>3 DEF RestOK
  <2>3. CASE ~CronDispatch /\ ~HttpDispatch
    BY <1>0, <2>3, OthersSendNothing DEF RestOK
  <2> QED BY <2>1, <2>2, <2>3
<1>2. ticked' \subseteq Minutes /\ audited' \subseteq Tasks /\ misfits' \subseteq Tasks
  <2>1. CASE CronStep
    <3>1. cron.minute \in Minutes /\ (cron.todo # <<>> => CronTask \in Tasks)
      BY TaskTypes DEF TypeInv, CronOK, CronType
    <3>2. CASE CronWake
      BY <1>0, <3>2 DEF CronWake, history, RestOK
    <3>3. CASE CronCheck
      BY <1>0, <3>1, <3>3 DEF CronCheck, RestOK
    <3>4. CASE CronDispatch
      <4>1. CronTask \in Tasks /\ UNCHANGED ticked
        BY <3>4, CronDispatchMoves DEF CronDispatch
      <4>2. audited' = audited /\ misfits' \subseteq misfits \union {CronTask}
        BY <3>4 DEF CronDispatch, DispatchResolve
      <4> QED BY <1>0, <4>1, <4>2 DEF RestOK
    <3>5. CASE CronSleep
      BY <1>0, <3>1, <3>5 DEF CronSleep, RestOK
    <3> QED BY <2>1, <3>2, <3>3, <3>4, <3>5 DEF CronStep
  <2>2. CASE HttpStep \/ Receive
    <3>1. UNCHANGED <<ticked, audited>> /\ misfits' \subseteq misfits \union {TaskOf[http.req]}
      BY <2>2 DEF HttpStep, Accept, Webhook, RunRequest, HttpDispatch, Receive, Quiet, NotHttp, DispatchResolve
    <3> QED BY <1>0, <3>1, TaskTypes DEF RestOK
  <2>3. CASE WorkerStep \/ (\E r \in Requests : Connect(r)) \/ Surroundings \/ UNCHANGED vars
    <3>1. UNCHANGED <<ticked, audited, misfits>>
      BY <2>3, Frames DEF vars, history
    <3> QED BY <1>0, <3>1 DEF RestOK
  <2> QED BY <2>1, <2>2, <2>3 DEF Next, Surroundings
<1>3. /\ now' \in 0..MaxTime /\ policy' \in Policies /\ edits' \in 0..MaxTurns
      /\ up' \in {"up", "stopping", "down"} /\ starts' \in 0..MaxTurns
  <2>1. CASE Edit
    <3>1. edits + starts < MaxTurns /\ edits' = edits + 1 /\ policy' \in EditTo /\ UNCHANGED <<now, up, starts>>
      BY <2>1 DEF Edit
    <3> QED BY <1>0, <3>1, GatewayAssumption DEF RestOK
  <2>2. CASE Serve
    <3>1. /\ edits + starts < MaxTurns /\ starts' = starts + 1 /\ up' = "up"
          /\ UNCHANGED <<now, policy, edits>>
      BY <2>2 DEF Serve
    <3> QED BY <1>0, <3>1, GatewayAssumption DEF RestOK
  <2>3. CASE Tick
    <3>1. now < MaxTime /\ now' = now + 1 /\ UNCHANGED <<policy, edits, up, starts>>
      BY <2>3 DEF Tick
    <3> QED BY <1>0, <3>1, GatewayAssumption DEF RestOK
  <2>4. CASE Interrupt \/ Exit \/ Crash
    <3>1. up' \in {"stopping", "down"} /\ UNCHANGED <<now, policy, edits, starts>>
      BY <2>4 DEF Interrupt, Exit, Crash, Gone
    <3> QED BY <1>0, <3>1 DEF RestOK
  <2>5. CASE CronStep \/ HttpStep \/ Receive \/ WorkerStep \/ (\E r \in Requests : Connect(r))
             \/ UNCHANGED vars
    <3>1. UNCHANGED <<now, policy, edits, up, starts>>
      BY <2>5, Frames DEF vars
    <3> QED BY <1>0, <3>1 DEF RestOK
  <2> QED BY <2>1, <2>2, <2>3, <2>4, <2>5 DEF Next
<1> QED BY <1>1, <1>2, <1>3 DEF RestOK

LEMMA TypeStep == TypeInv /\ [Next]_vars => TypeInv'
  BY CronStepOK, HttpStepOK, WorkerStepOK, RestStepOK, FileStep, QueueStep DEF TypeInv

LEMMA TypeInvHolds == Spec => []TypeInv
  BY TypeInit, TypeStep, PTL DEF Spec

(* Type correctness of serve: in particular every message in the bus has    *)
(* its record, complete unless two threads were starting its task at once,  *)
(* and every connection not yet accepted waits for an answer.               *)
THEOREM GatewayTypeOK == Spec => []TypeOK
  BY TypeOfParts, TypeInvHolds, PTL

(* However often the process is killed and started again within a minute,   *)
(* whatever names clients give their tasks and however often they repeat a  *)
(* request, the record that precedes the message refuses the second: one    *)
(* message per occurrence and per task, or two where the main thread and    *)
(* the cron thread have both listed the directory before either wrote.      *)
THEOREM GatewayOncePerTask == Spec => []OncePerTask
<1>1. TypeInv => OncePerTask
  <2> SUFFICES ASSUME TypeInv, NEW t \in Tasks PROVE sent[t] <= IF t \in raced THEN 2 ELSE 1
    BY DEF OncePerTask
  <2>1. Fine(CronPlace(t), HttpPlace(t), file[t], sent[t], Limit(t))
    BY DEF TypeInv, FileInv
  <2> QED BY <2>1 DEF Fine, Limit, Owes
<1> QED BY <1>1, TypeInvHolds, PTL

-----------------------------------------------------------------------------
(* What is dispatched fits *)

(* A thread whose trigger passed its check, with no edit since, finds the   *)
(* harness that it fitted.                                                  *)
MatchInv ==
    /\ misfits = {}
    /\ cron.at = "dispatch" => policy # "misfit"
    /\ http.at = "dispatch" /\ http.req \in Hooks => policy # "misfit"

LEMMA MatchStep == TypeInv /\ MatchInv /\ [Next]_vars => MatchInv'
<1> SUFFICES ASSUME TypeInv, MatchInv, [Next]_vars PROVE MatchInv'
  OBVIOUS
<1> USE DEF history, threads
<1>1. CASE CronStep
  <2>0. UNCHANGED <<policy, http>>
    BY <1>1, Frames
  <2>1. misfits' = misfits /\ (cron'.at = "dispatch" => policy # "misfit")
    <3>1. CASE CronWake
      BY <3>1, CronPlaces DEF CronWake, TypeInv, CronOK, CronType
    <3>2. CASE CronCheck
      <4>1. misfits' = misfits /\ (CronNext \/ CronEnds \/ (CronAt("dispatch") /\ policy # "misfit"))
        BY <3>2 DEF CronCheck
      <4> QED BY <4>1, CronPlaces
    <3>3. CASE CronDispatch
      <4>1. cron'.at # "dispatch"
        BY <3>3, CronDispatchMoves, CronPlaces DEF Busy
      <4>2. misfits' = misfits
        BY <3>3 DEF CronDispatch, DispatchResolve, MatchInv
      <4> QED BY <4>1, <4>2
    <3>4. CASE CronSleep
      BY <3>4, CronPlaces DEF CronSleep
    <3> QED BY <1>1, <3>1, <3>2, <3>3, <3>4 DEF CronStep
  <2> QED BY <2>0, <2>1 DEF MatchInv
<1>2. CASE HttpStep \/ Receive
  <2>0. UNCHANGED <<policy, cron>>
    BY <1>2, Frames
  <2>1. misfits' = misfits /\ (http'.at = "dispatch" /\ http'.req \in Hooks => policy # "misfit")
    <3>1. CASE Accept
      BY <3>1 DEF Accept, Quiet
    <3>2. CASE Webhook
      <4>1. misfits' = misfits /\ ((\E code : Reply(code)) \/ policy # "misfit")
        BY <3>2 DEF Webhook, Quiet
      <4> QED BY <4>1, HttpPlaces
    <3>3. CASE RunRequest
      <4>1. /\ misfits' = misfits /\ http.req \notin Hooks
            /\ HttpAt("dispatch") \/ \E code : Reply(code)
        BY <3>3 DEF RunRequest, Quiet
      <4> QED BY <4>1, HttpPlaces DEF Busy
    <3>4. CASE Receive
      <4>1. misfits' = misfits /\ (HttpAt("handle") \/ \E code : Reply(code))
        BY <3>4 DEF Receive, Quiet
      <4> QED BY <4>1, HttpPlaces
    <3>5. CASE HttpDispatch
      <4>1. http'.at # "dispatch"
        BY <3>5, HttpDispatchMoves, HttpPlaces DEF Busy
      <4>2. misfits' = misfits
        BY <3>5 DEF HttpDispatch, DispatchResolve, MatchInv
      <4> QED BY <4>1, <4>2
    <3> QED BY <1>2, <3>1, <3>2, <3>3, <3>4, <3>5 DEF HttpStep
  <2> QED BY <2>0, <2>1 DEF MatchInv
<1>3. CASE WorkerStep \/ (\E r \in Requests : Connect(r)) \/ Tick \/ UNCHANGED vars
  <2>1. UNCHANGED <<policy, cron, http, misfits>>
    BY <1>3, Frames DEF Tick, vars
  <2> QED BY <2>1 DEF MatchInv
<1>4. CASE Edit
  <2>1. cron'.at # "dispatch" /\ http'.at # "dispatch" /\ misfits' = misfits
    BY <1>4 DEF Edit, Overtaken, TypeInv, CronOK, CronType, HttpOK, HttpType
  <2> QED BY <2>1 DEF MatchInv
<1>5. CASE Serve \/ Interrupt \/ Exit \/ Crash
  <2>1. /\ UNCHANGED <<policy, misfits>>
        /\ cron' = cron \/ cron'.at # "dispatch"
        /\ http'.at # "dispatch"
    BY <1>5 DEF Serve, Interrupt, Exit, Crash, Gone, FreshCron, NoCron, IdleHttp
  <2> QED BY <2>1 DEF MatchInv
<1> QED BY <1>1, <1>2, <1>3, <1>4, <1>5 DEF Next

(* A cron or webhook task is dispatched under a classification or account   *)
(* its trigger does not name only if the harness was edited in between.     *)
THEOREM GatewayMatchedOrEdited == Spec => []MatchedOrEdited
<1>1. Init => MatchInv
  BY DEF Init, MatchInv, NoCron, IdleHttp
<1>2. MatchInv => MatchedOrEdited
  BY DEF MatchInv, MatchedOrEdited
<1> QED BY <1>1, <1>2, TypeInvHolds, MatchStep, PTL DEF Spec

-----------------------------------------------------------------------------
(* What a tick leaves behind *)

LEMMA InstantType == \A m \in Minutes : InstantAt(m) \in Instants
<1> SUFFICES ASSUME NEW m \in Nat PROVE InstantAt(m) \in Instants
  BY GatewayAssumption DEF Minutes
<1>1. Epoch + m \in Nat
  BY GatewayAssumption
<1> QED BY <1>1 DEF InstantAt, Instants

Means(job, m) == Due(SpecOf[job], InstantAt(m))
Accounted(job, m) == file[<<job, m>>] # "absent" \/ <<job, m>> \in audited \/ ~Means(job, m)

Named(job, m) == \E r \in Requests : TaskOf[r] = <<job, m>>

(* The jobs before those still to do are accounted for at the tick's        *)
(* minute, the one in hand is due; only due occurrences have messages, and  *)
(* those a client named.                                                    *)
TickInv ==
    /\ \A job \in JobSet, m \in ticked : Accounted(job, m)
    /\ \A job \in JobSet, m \in Minutes : sent[<<job, m>>] > 0 => Means(job, m) \/ Named(job, m)
    /\ cron.at \in Busy \union {"job"} =>
          \A i \in 1..(Len(Jobs) - Len(cron.todo)) : Accounted(Jobs[i], cron.minute)
    /\ cron.at \in Busy => Means(Head(cron.todo), cron.minute)

(* What was accounted for stays so: no step forgets a record or an audit    *)
(* line.                                                                    *)
LEMMA StaysAccounted ==
  ASSUME TypeInv, [Next]_vars, NEW job \in JobSet, NEW m \in Minutes, Accounted(job, m)
  PROVE  Accounted(job, m)'
<1>0. file \in [Tasks -> {"absent", "torn", "running"}] /\ <<job, m>> \in Tasks
  BY DEF TypeInv, RestOK, Tasks
<1>1. audited \subseteq audited'
  <2>1. CASE CronDispatch \/ HttpDispatch
    BY <2>1 DEF CronDispatch, HttpDispatch
  <2>2. CASE CronWake \/ CronCheck \/ CronSleep \/ Accept \/ Webhook \/ RunRequest \/ Receive
    BY <2>2 DEF CronWake, CronCheck, CronSleep, Accept, Webhook, RunRequest, Receive, Quiet, history
  <2>3. CASE WorkerStep \/ (\E r \in Requests : Connect(r)) \/ Surroundings \/ UNCHANGED vars
    BY <2>3, Frames DEF vars, history
  <2> QED BY <2>1, <2>2, <2>3 DEF Next, CronStep, HttpStep, Surroundings
<1>2. \A t \in Tasks : file'[t] = file[t] \/ file'[t] # "absent"
  <2>1. CASE CronDispatch
    BY <1>0, <2>1, CronDispatchMoves
  <2>2. CASE HttpDispatch
    BY <1>0, <2>2, HttpDispatchMoves
  <2>3. CASE ~CronDispatch /\ ~HttpDispatch
    BY <2>3, OthersSendNothing
  <2> QED BY <2>1, <2>2, <2>3
<1> QED BY <1>0, <1>1, <1>2 DEF Accounted, Means

(* When the job in hand is accounted for, so are those before the next. *)
LEMMA NextJob ==
  ASSUME TypeInv, cron.todo # <<>>, cron.at \in Busy \union {"job"},
         NEW m, NEW job, job = Head(cron.todo),
         \A i \in 1..(Len(Jobs) - Len(cron.todo)) : Accounted(Jobs[i], m)',
         Accounted(job, m)'
  PROVE  \A i \in 1..(Len(Jobs) - Len(Tail(cron.todo))) : Accounted(Jobs[i], m)'
<1>1. PICK k \in 1..(Len(Jobs) + 1) : cron.todo = SubSeq(Jobs, k, Len(Jobs))
  BY DEF TypeInv, CronOK, CronType, Todos
<1>2. k \in 1..Len(Jobs) /\ Head(cron.todo) = Jobs[k] /\ Len(Jobs) \in Nat
  BY <1>1, TodoIsTail, GatewayAssumption
<1>3. Len(cron.todo) = Len(Jobs) + 1 - k /\ Len(Tail(cron.todo)) = Len(cron.todo) - 1
  BY <1>1, TodoLength, TodoStep DEF Todos
<1>4. \A i \in 1..(Len(Jobs) - Len(Tail(cron.todo))) : i \in 1..(Len(Jobs) - Len(cron.todo)) \/ i = k
  BY <1>2, <1>3
<1>5. job = Jobs[k]
  BY <1>2
<1> QED BY <1>4, <1>5

(* Everything but the cron thread's own steps leaves its progress, or ends  *)
(* its tick.                                                                *)
LEMMA CronAlone ==
  ASSUME TypeInv, [Next]_vars, ~CronStep
  PROVE  /\ ticked' = ticked /\ cron'.todo \in {cron.todo, <<>>}
         /\ \/ cron' = cron
            \/ cron.at \in Busy /\ cron'.at \in Busy /\ cron'.todo = cron.todo /\ cron'.minute = cron.minute
            \/ cron'.at \notin Busy \union {"job"}
<1>1. CASE HttpStep \/ Receive \/ WorkerStep \/ \E r \in Requests : Connect(r)
  BY <1>1, Frames
<1>2. CASE Edit
  <2>1. cron' = [cron EXCEPT !.at = Overtaken(@)] /\ ticked' = ticked /\ cron \in CronType
    BY <1>2 DEF Edit, history, TypeInv, CronOK
  <2>2. CASE cron.at = "dispatch"
    BY <2>1, <2>2 DEF Overtaken, CronType, Busy
  <2>3. CASE cron.at # "dispatch"
    BY <2>1, <2>3 DEF Overtaken, CronType
  <2> QED BY <2>1, <2>2, <2>3
<1>3. CASE Tick \/ Serve \/ Interrupt \/ Exit \/ Crash \/ UNCHANGED vars
  BY <1>3 DEF Tick, Serve, Interrupt, Exit, Crash, Gone, FreshCron, NoCron, Busy, vars, history, threads
<1> QED BY <1>1, <1>2, <1>3 DEF Next

(* ... and sends to no occurrence but those a client names. *)
LEMMA CronSendsAlone ==
  ASSUME TypeInv, [Next]_vars, ~CronDispatch, NEW job \in JobSet, NEW m \in Minutes
  PROVE  sent'[<<job, m>>] = sent[<<job, m>>] \/ Named(job, m)
<1>1. CASE HttpDispatch
  <2>1. sent \in [Tasks -> Nat] /\ <<job, m>> \in Tasks /\ http.req \in Requests
    BY DEF TypeInv, RestOK, HttpOK, HttpType, Tasks
  <2>2. sent' = sent \/ sent' = [sent EXCEPT ![TaskOf[http.req]] = @ + 1]
    BY <1>1, HttpDispatchMoves
  <2> QED BY <2>1, <2>2 DEF Named
<1>2. CASE ~HttpDispatch
  BY <1>2, OthersSendNothing
<1> QED BY <1>1, <1>2

LEMMA TickStep == TypeInv /\ TickInv /\ [Next]_vars => TickInv'
<1> SUFFICES ASSUME TypeInv, TickInv, [Next]_vars PROVE TickInv'
  OBVIOUS
<1>0. /\ ticked \subseteq Minutes /\ cron.minute \in Minutes
      /\ cron \in CronType /\ sent \in [Tasks -> Nat]
      /\ cron.at \in Busy => cron.todo # <<>>
  BY DEF TypeInv, CronOK, RestOK, CronType
<1>a. \A job \in JobSet, m \in Minutes : Accounted(job, m) => Accounted(job, m)'
  BY StaysAccounted
<1>b. Len(Jobs) \in Nat /\ \A i \in 1..Len(Jobs) : Jobs[i] \in JobSet
  BY JobInHarness, GatewayAssumption
<1>c. Len(cron.todo) \in Nat /\ \A i \in 1..(Len(Jobs) - Len(cron.todo)) : i \in 1..Len(Jobs)
  <2>1. PICK k \in 1..(Len(Jobs) + 1) : cron.todo = SubSeq(Jobs, k, Len(Jobs))
    BY DEF TypeInv, CronOK, CronType, Todos
  <2> QED BY <1>b, <2>1, TodoLength
<1>m. PICK m \in Minutes : m = cron.minute
  BY <1>0
<1>d. cron.at \in Busy \union {"job"} =>
        \A i \in 1..(Len(Jobs) - Len(cron.todo)) : Accounted(Jobs[i], m)'
  <2>1. SUFFICES ASSUME cron.at \in Busy \union {"job"}, NEW i \in 1..(Len(Jobs) - Len(cron.todo))
                 PROVE  Accounted(Jobs[i], m)'
    OBVIOUS
  <2>2. Accounted(Jobs[i], m) /\ Jobs[i] \in JobSet
    BY <1>b, <1>c, <1>m, <2>1 DEF TickInv
  <2> QED BY <1>a, <2>2
<1>e. \A job \in JobSet, n \in ticked : Accounted(job, n)'
  BY <1>0, <1>a DEF TickInv
(* The ways of the cron thread: on to the next job, or to the next place.   *)
<1>f. ASSUME NEW job \in JobSet, job = Head(cron.todo), cron.todo # <<>>, cron.at \in Busy \union {"job"},
             CronNext, Accounted(job, m)'
      PROVE  \A i \in 1..(Len(Jobs) - Len(cron'.todo)) : Accounted(Jobs[i], cron.minute)'
  <2>1. cron'.minute = m /\ cron'.todo = Tail(cron.todo)
    BY <1>0, <1>f, <1>m, CronPlaces
  <2>2. \A i \in 1..(Len(Jobs) - Len(Tail(cron.todo))) : Accounted(Jobs[i], m)'
    BY <1>0, <1>d, <1>f, NextJob
  <2> QED BY <2>1, <2>2 DEF Accounted, Means
<1>1. CASE CronWake
  <2>1. UNCHANGED <<ticked, sent>>
    BY <1>1 DEF CronWake, history
  <2>2. cron'.at \in {"ended", "sleep"} \/ (cron'.at = "job" /\ cron'.todo = Jobs)
    BY <1>0, <1>1, CronPlaces DEF CronWake, CronType
  <2>3. 1..(Len(Jobs) - Len(Jobs)) = {}
    BY <1>b
  <2> QED BY <1>0, <1>e, <2>1, <2>2, <2>3 DEF TickInv, Busy, Means, Named
<1>h. ASSUME NEW a \in Busy, CronAt(a), cron.at \in Busy \union {"job"}
      PROVE  /\ cron'.at = a /\ Head(cron'.todo) = Head(cron.todo) /\ cron'.minute = m
             /\ \A i \in 1..(Len(Jobs) - Len(cron'.todo)) : Accounted(Jobs[i], cron.minute)'
  <2>1. cron'.at = a /\ cron'.minute = m /\ cron'.todo = cron.todo
    BY <1>0, <1>h, <1>m, CronPlaces
  <2> QED BY <1>d, <1>h, <2>1 DEF Accounted, Means
<1>2. CASE CronCheck
  <2>0. /\ UNCHANGED <<ticked, sent>> /\ cron.at = "job" /\ cron.todo # <<>>
        /\ file' = file
    BY <1>2 DEF CronCheck
  <2>1. PICK job \in JobSet : job = Head(cron.todo)
    BY <1>0, <2>0, TodoStep DEF CronType
  <2>2. DueNow = JobIsDue(SpecOf[job], InstantAt(m)) /\ CronTask = <<job, m>>
    BY <1>m, <2>1 DEF DueNow, CronTask
  <2>3. (DueNow = "yes" => Means(job, m)) /\ (DueNow = "no" => ~Means(job, m))
    <3>1. SpecOf[job] \in CronSpecs /\ InstantAt(m) \in Instants
      BY InstantType, GatewayAssumption
    <3> QED BY <2>2, <3>1, JobIsDueDecides DEF Means
  <2>4. CASE CronNext
    <3>1. DueNow = "no" \/ audited' = audited \union {CronTask}
      <4>1. CronNext => cron'.at = "job"
        BY <1>0, CronPlaces
      <4>2. CronEnds => cron'.at = "ended"
        BY <1>0, CronPlaces
      <4>3. CronAt("dispatch") => cron'.at = "dispatch"
        BY <1>0, CronPlaces DEF Busy
      <4> QED BY <1>2, <2>4, <4>1, <4>2, <4>3 DEF CronCheck
    <3>2. Accounted(job, m)'
      BY <2>2, <2>3, <3>1 DEF Accounted, Means
    <3>3. \A i \in 1..(Len(Jobs) - Len(cron'.todo)) : Accounted(Jobs[i], cron.minute)'
      BY <1>f, <2>0, <2>1, <2>4, <3>2
    <3>4. cron'.at = "job"
      BY <1>0, <2>4, CronPlaces
    <3> QED BY <1>0, <1>e, <2>0, <3>3, <3>4 DEF TickInv, Busy, Means, Named
  <2>5. CASE CronEnds
    <3>1. cron'.at = "ended"
      BY <1>0, <2>5, CronPlaces
    <3> QED BY <1>0, <1>e, <2>0, <3>1 DEF TickInv, Busy, Means, Named
  <2>6. CASE CronAt("dispatch")
    <3>1. /\ cron'.at = "dispatch" /\ Head(cron'.todo) = job /\ cron'.minute = m
          /\ \A i \in 1..(Len(Jobs) - Len(cron'.todo)) : Accounted(Jobs[i], cron.minute)'
      BY <1>h, <2>0, <2>1, <2>6 DEF Busy
    <3>2. DueNow = "yes"
      <4>1. CronNext => cron'.at = "job"
        BY <1>0, CronPlaces
      <4>2. CronEnds => cron'.at = "ended"
        BY <1>0, CronPlaces
      <4> QED BY <1>2, <3>1, <4>1, <4>2 DEF CronCheck
    <3> QED BY <1>0, <1>e, <2>0, <2>3, <3>1, <3>2 DEF TickInv, Means
  <2> QED BY <1>2, <2>4, <2>5, <2>6 DEF CronCheck
<1>3. CASE CronDispatch
  <2>0. /\ ticked' = ticked /\ cron.at \in Busy /\ cron.todo # <<>>
    BY <1>0, <1>3, CronDispatchMoves DEF CronDispatch
  <2>1. PICK job \in JobSet : job = Head(cron.todo)
    BY <1>0, <2>0, TodoStep DEF CronType
  <2>2. CronTask = <<job, m>> /\ CronTask \in Tasks /\ Means(job, m)
    BY <1>m, <2>0, <2>1 DEF CronTask, Tasks, TickInv
  <2>3. sent' = sent \/ sent' = [sent EXCEPT ![<<job, m>>] = @ + 1]
    BY <1>3, <2>2, CronDispatchMoves
  <2>4. ASSUME NEW j \in JobSet, NEW n \in Minutes, sent'[<<j, n>>] > 0
        PROVE  Means(j, n) \/ Named(j, n)
    <3>1. CASE sent'[<<j, n>>] = sent[<<j, n>>]
      BY <2>4, <3>1 DEF TickInv
    <3>2. CASE sent'[<<j, n>>] # sent[<<j, n>>]
      <4>1. <<j, n>> \in Tasks /\ <<job, m>> \in Tasks
        BY DEF Tasks
      <4>2. j = job /\ n = m
        BY <1>0, <2>3, <3>2, <4>1
      <4> QED BY <2>2, <4>2
    <3> QED BY <3>1, <3>2
  <2>5. \/ \E a \in Busy : CronAt(a)
        \/ CronEnds
        \/ CronNext /\ file[CronTask] # "absent" /\ file' = file
    <3>1. cron.at = "send" => file[CronTask] # "absent"
      <4>1. Fine(CronPlace(CronTask), HttpPlace(CronTask), file[CronTask], sent[CronTask], Limit(CronTask))
        BY <2>2 DEF TypeInv, FileInv
      <4>2. CronPlace(CronTask) = cron.at
        BY <2>0 DEF CronPlace, CronAbout, CronTask
      <4> QED BY <4>1, <4>2 DEF Fine
    <3> QED BY <1>3, <3>1, CronDispatchMoves DEF Busy
  <2>6. CASE \E a \in Busy : CronAt(a)
    <3>1. PICK a \in Busy : CronAt(a)
      BY <2>6
    <3>2. /\ cron'.at = a /\ Head(cron'.todo) = job /\ cron'.minute = m
          /\ \A i \in 1..(Len(Jobs) - Len(cron'.todo)) : Accounted(Jobs[i], cron.minute)'
      BY <1>h, <2>0, <2>1, <3>1
    <3> QED BY <1>0, <1>e, <2>0, <2>2, <2>4, <3>2 DEF TickInv, Means, Named
  <2>7. CASE CronEnds
    <3>1. cron'.at = "ended"
      BY <1>0, <2>7, CronPlaces
    <3> QED BY <1>0, <1>e, <2>0, <2>4, <3>1 DEF TickInv, Busy, Means, Named
  <2>8. CASE CronNext /\ file[CronTask] # "absent" /\ file' = file
    <3>1. Accounted(job, m)'
      BY <2>2, <2>8 DEF Accounted
    <3>2. \A i \in 1..(Len(Jobs) - Len(cron'.todo)) : Accounted(Jobs[i], cron.minute)'
      BY <1>f, <2>0, <2>1, <2>8, <3>1
    <3>3. cron'.at = "job"
      BY <1>0, <2>8, CronPlaces
    <3> QED BY <1>0, <1>e, <2>0, <2>4, <3>2, <3>3 DEF TickInv, Busy, Means, Named
  <2> QED BY <2>5, <2>6, <2>7, <2>8
<1>4. CASE CronSleep
  <2>0. /\ cron.at = "job" /\ cron.todo = <<>> /\ ticked' = ticked \union {m} /\ UNCHANGED sent
        /\ cron'.at = "sleep"
    BY <1>m, <1>4, CronPlaces DEF CronSleep
  <2>1. \A job \in JobSet : Accounted(job, m)'
    <3>1. \A i \in 1..Len(Jobs) : Accounted(Jobs[i], m)'
      BY <1>b, <1>d, <2>0
    <3>2. \A job \in JobSet : \E i \in 1..Len(Jobs) : job = Jobs[i]
      BY GatewayAssumption DEF JobSet
    <3> QED BY <3>1, <3>2
  <2> QED BY <1>0, <1>e, <2>0, <2>1 DEF TickInv, Busy, Means, Named
<1>5. CASE ~CronStep
  <2>1. /\ ticked' = ticked
        /\ \/ cron' = cron
           \/ cron.at \in Busy /\ cron'.at \in Busy /\ cron'.todo = cron.todo /\ cron'.minute = cron.minute
           \/ cron'.at \notin Busy \union {"job"}
    BY <1>5, CronAlone
  <2>2. ASSUME NEW job \in JobSet, NEW n \in Minutes, sent'[<<job, n>>] > 0
        PROVE  Means(job, n) \/ Named(job, n)
    <3>1. sent'[<<job, n>>] = sent[<<job, n>>] \/ Named(job, n)
      BY <1>5, CronSendsAlone DEF CronStep
    <3> QED BY <2>2, <3>1 DEF TickInv
  <2>3. CASE \/ cron' = cron
             \/ cron.at \in Busy /\ cron'.at \in Busy /\ cron'.todo = cron.todo /\ cron'.minute = cron.minute
    <3>1. cron.at \in Busy \union {"job"} =>
            \A i \in 1..(Len(Jobs) - Len(cron.todo)) : Accounted(Jobs[i], cron.minute)'
      BY <1>d, <1>m, <2>3 DEF Accounted, Means
    <3>2. /\ cron'.todo = cron.todo /\ cron'.minute = cron.minute
          /\ cron'.at \in Busy => cron.at \in Busy
          /\ cron'.at \in Busy \union {"job"} => cron.at \in Busy \union {"job"}
      BY <2>3
    <3> QED BY <1>e, <2>1, <2>2, <3>1, <3>2 DEF TickInv, Means, Named
  <2>4. CASE cron'.at \notin Busy \union {"job"}
    BY <1>e, <2>1, <2>2, <2>4 DEF TickInv, Means, Named
  <2> QED BY <2>1, <2>3, <2>4
<1> QED BY <1>1, <1>2, <1>3, <1>4, <1>5 DEF CronStep

(* "Skipped and audited": a tick that found the jobs and finished has left, *)
(* for every job its spec (read as a set of minutes) makes due, a record or *)
(* an audit line, and no message was ever sent for a minute the spec does   *)
(* not mean unless a client named it, whatever the edits, failures and      *)
(* restarts.                                                                *)
THEOREM GatewayTickAccounts == Spec => []TickAccounts
<1>1. Init => TickInv
  <2> SUFFICES ASSUME Init PROVE TickInv
    OBVIOUS
  <2>1. ticked = {} /\ cron.at = "ended" /\ \A t \in Tasks : sent[t] = 0
    BY DEF Init, NoCron
  <2> QED BY <2>1 DEF TickInv, Busy, Tasks
<1>2. TickInv => TickAccounts
  <2> SUFFICES ASSUME TickInv, NEW i \in DOMAIN Jobs, NEW m \in Minutes
               PROVE  LET t == <<Jobs[i], m>>
                          due == Due(SpecOf[Jobs[i]], InstantAt(m))
                      IN /\ m \in ticked /\ file[t] = "absent" /\ t \notin audited => ~due
                         /\ sent[t] > 0 => due \/ \E r \in Requests : TaskOf[r] = t
    BY DEF TickAccounts
  <2>1. Jobs[i] \in JobSet
    BY DEF JobSet
  <2> QED BY <2>1 DEF TickInv, Accounted, Means, Named
<1> QED BY <1>1, <1>2, TypeInvHolds, TickStep, PTL DEF Spec
=============================================================================
