----------------------------- MODULE SessionStore -----------------------------
(***************************************************************************)
(* ravand_sessions.SessionStore: one JSON file per record in one directory *)
(* that every process of the user shares, with no lock.  write() truncates *)
(* the file and then fills it, so a reader may find it empty; start()      *)
(* reads the files of a directory listing one after another and then       *)
(* writes a file of its own.                                               *)
(*                                                                         *)
(* A record is named by the call of start() that would create it, and      *)
(* nothing of it but its status matters here.                              *)
(***************************************************************************)
EXTENDS Naturals, FiniteSets

CONSTANTS Records,   \* the records, one for each call of start()
          TaskOf     \* TaskOf[r]: the task_id that call is given

VARIABLES file,      \* what the file of each record holds
          todo       \* the files a call of start() has still to read

storeVars == <<file, todo>>

Statuses == {"running", "ok", "error", "auth"}
StartBlocked == {"running", "ok", "done"}

StoreTypeOK == /\ file \in [Records -> Statuses \union {"absent", "torn"}]
               /\ todo \in [Records -> SUBSET Records]

StoreInit == /\ file = [r \in Records |-> "absent"]
             /\ todo = [r \in Records |-> {}]

Present == {r \in Records : file[r] # "absent"}
Torn(r) == file[r] = "torn"

(* q refuses a start of r: same task, and its status is a blocking one. *)
Blocks(q, r) == TaskOf[q] = TaskOf[r] /\ file[q] \in StartBlocked

(* start: list the directory. *)
ListFiles(r) == /\ todo' = [todo EXCEPT ![r] = Present]
                /\ UNCHANGED file

(* Faulty variant: only a finished record of the task refuses a start. *)
PassRunning(r) == \E q \in todo[r] : /\ ~Torn(q)
                                     /\ Blocks(q, r) => file[q] = "running"
                                     /\ todo' = [todo EXCEPT ![r] = @ \ {q}]
                                     /\ UNCHANGED file

(* start: a listed file that does not refuse the start. *)
PassFile(r) == \E q \in todo[r] : /\ ~Torn(q) /\ ~Blocks(q, r)
                                  /\ todo' = [todo EXCEPT ![r] = @ \ {q}]
                                  /\ UNCHANGED file

(* start raises FailClosed, or JSONDecodeError on an empty file. *)
RefuseStart(r) == /\ \E q \in todo[r] : Torn(q) \/ Blocks(q, r)
                  /\ todo' = [todo EXCEPT ![r] = {}]
                  /\ UNCHANGED file

(* write, first half: the file is created, or truncated. *)
Truncate(r) == /\ file' = [file EXCEPT ![r] = "torn"]
               /\ UNCHANGED todo

(* write, second half. *)
Fill(r, status) == /\ file' = [file EXCEPT ![r] = status]
                   /\ UNCHANGED todo
=============================================================================
