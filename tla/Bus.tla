--------------------------------- MODULE Bus ---------------------------------
(***************************************************************************)
(* The bus seam's queue q.tasks, as a worker process sees it.  Two         *)
(* providers implement the seam: ravand_bus.Bus (in memory, one process)   *)
(* and ravand_bus.PgmqBus (Postgres + PGMQ, shared by processes).  They    *)
(* agree on everything below:                                              *)
(*                                                                         *)
(*   - messages are numbered in the order they were sent (PGMQ's msg_id,   *)
(*     the list order of the in-memory Bus), and read takes the first      *)
(*     visible one;                                                        *)
(*   - time is relative: hidden[m] is visible_at - now, in ticks, and 0    *)
(*     once visible_at <= now;                                             *)
(*   - receipts[p] is what process p thinks it holds: PgmqBus._in_flight,  *)
(*     or the entries whose in_flight flag the in-memory Bus has set.      *)
(*                                                                         *)
(* A row can disappear or be redelivered behind a receipt: the receipt is  *)
(* the process's own dictionary, the row is in the database.               *)
(***************************************************************************)
EXTENDS Naturals

CONSTANTS NumMsgs,   \* how many messages are ever sent (bound)
          Workers,   \* worker processes; each has its own provider object
          VT         \* visibility timeout of 600 s, in ticks

ASSUME BusAssumption == /\ NumMsgs \in Nat
                        /\ VT \in Nat \ {0}

Msgs == 1 .. NumMsgs

VARIABLES sent,      \* messages sent so far: 1 .. sent
          rows,      \* messages in the queue
          hidden,    \* ticks until the message is visible
          receipts   \* receipts held by each process

busVars == <<sent, rows, hidden, receipts>>

BusTypeOK == /\ sent \in 0 .. NumMsgs
             /\ rows \subseteq 1 .. sent
             /\ hidden \in [Msgs -> 0 .. VT]
             /\ receipts \in [Workers -> SUBSET Msgs]

BusInit == /\ sent = 0
           /\ rows = {}
           /\ hidden = [m \in Msgs |-> 0]
           /\ receipts = [w \in Workers |-> {}]

(* Faulty variant: the row gets the number of the message before it. *)
SendOffByOne == /\ sent < NumMsgs
                /\ sent' = sent + 1
                /\ rows' = rows \union {sent}
                /\ UNCHANGED <<hidden, receipts>>

(* send appends a message that is visible at once. *)
Send == /\ sent < NumMsgs
        /\ sent' = sent + 1
        /\ rows' = rows \union {sent + 1}
        /\ UNCHANGED <<hidden, receipts>>

Visible(m) == m \in rows /\ hidden[m] = 0

(* The message a read takes: the first visible one. *)
NextUp(m) == Visible(m) /\ \A k \in Msgs : Visible(k) => m <= k

(* Faulty variant: the message is handed out but stays visible. *)
ReadWithoutVt(w, m) ==
    /\ NextUp(m)
    /\ receipts' = [receipts EXCEPT ![w] = @ \union {m}]
    /\ UNCHANGED <<sent, rows, hidden>>

(* read: the message is hidden for VT and recorded as held. *)
Read(w, m) ==
    /\ NextUp(m)
    /\ hidden' = [hidden EXCEPT ![m] = VT]
    /\ receipts' = [receipts EXCEPT ![w] = @ \union {m}]
    /\ UNCHANGED <<sent, rows>>

(* read of a queue with no visible message returns None. *)
ReadNone == /\ \A m \in Msgs : ~Visible(m)
            /\ UNCHANGED busVars

(* set_vt, or the write of visible_at: nothing happens to a removed row. *)
WithVt(m, t) == [hidden EXCEPT ![m] = IF m \in rows THEN t ELSE @]

(* heartbeat, its lookup and its write together. *)
Heartbeat(w, m) == /\ m \in receipts[w]
                   /\ hidden' = WithVt(m, VT)
                   /\ UNCHANGED <<sent, rows, receipts>>

(* archive removes the row, if another reader has not done so already. *)
Archive(w, m) == /\ m \in receipts[w]
                 /\ rows' = rows \ {m}
                 /\ hidden' = [hidden EXCEPT ![m] = 0]
                 /\ receipts' = [receipts EXCEPT ![w] = @ \ {m}]
                 /\ UNCHANGED sent

(* ack(success=False): visible at once, and no longer held. *)
Nack(w, m) == /\ m \in receipts[w]
              /\ hidden' = WithVt(m, 0)
              /\ receipts' = [receipts EXCEPT ![w] = @ \ {m}]
              /\ UNCHANGED <<sent, rows>>
=============================================================================
