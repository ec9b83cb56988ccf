-------------------------------- MODULE AcpClient --------------------------------
(***************************************************************************)
(* AcpClient over the agent's stdin and stdout: the requests _connect and  *)
(* _attempt_run make one after the other, the frames of the agent's        *)
(* messages, the pipe, the buffer of the reader, and the deadline of a     *)
(* handshake request, which select() watches on the pipe.                  *)
(*                                                                         *)
(* The agent's output is one stream of pieces, read in order: a message of *)
(* a bare line is its begin and its end; under Content-Length a header and *)
(* a blank line come first.  A piece has been said, written to the pipe,   *)
(* fetched into the buffer, or consumed, by four counters.                 *)
(***************************************************************************)
EXTENDS SequencesExt

CONSTANTS MaxMessages,   \* messages of the agent (bound)
          MaxMethods     \* authentication methods to try (bound)

ASSUME AcpClientAssumption == MaxMessages \in Nat /\ MaxMethods \in Nat

VARIABLES
    framed, said, written, gone,   \* the agent: how it frames, messages, pieces written, dead
    fetched, consumed,             \* the reader: pieces in or past the buffer, pieces taken
    step, left,                    \* the caller: its request, methods left to try
    pc, rid, expired,              \* this request: place, id, deadline passed
    outcome,                       \* "none", or how it ended
    handed, answered,              \* history: messages given to a handler, and replied to
    turn                           \* history: pieces consumed when the prompt was sent, when it ended

agent == <<framed, said, written, gone>>
caller == <<step, left, outcome>>
request == <<pc, rid, expired>>
history == <<handed, answered, turn>>
vars == <<agent, fetched, consumed, caller, request, history>>

Handshake == {"initialize", "authenticate"}
Outcomes == {"none", "ok", "auth", "failed"}

Pieces == IF framed THEN 4 ELSE 2                    \* of a message
Part(n) == IF ~framed THEN "begin" ELSE <<"header", "blank", "begin">>[(n % 4) + 1]
MessageOf(n) == said[(n \div Pieces) + 1]              \* whose begin comes after n pieces

Kinds == {"result", "error", "note", "permission"}

TypeOK == /\ framed \in BOOLEAN /\ gone \in BOOLEAN /\ expired \in BOOLEAN
          /\ said \in Seq([kind : Kinds, id : Nat]) /\ Len(said) <= MaxMessages
          /\ rid \in Nat /\ \A i \in DOMAIN said : said[i].id <= rid
          /\ consumed \in Nat /\ fetched \in Nat /\ written \in Nat
          /\ consumed <= fetched /\ fetched <= written /\ written <= Pieces * Len(said)
          /\ consumed % Pieces # Pieces - 1
          /\ step \in Handshake \union {"new", "prompt", "close", "over"}
          /\ left \in 0..MaxMethods
          /\ pc \in {"call", "select", "read"}
          /\ outcome \in Outcomes /\ (outcome # "none") = (step = "over")
          /\ expired => step \in Handshake \union {"over"}
          /\ pc = "call" /\ step # "over" => consumed % Pieces = 0
          /\ handed \in Seq(Nat) /\ answered \in Seq(Nat) /\ turn \in Nat \X Nat

Init == /\ framed \in BOOLEAN /\ said = <<>> /\ written = 0 /\ gone = FALSE
        /\ fetched = 0 /\ consumed = 0
        /\ step = "initialize" /\ left = 0 /\ outcome = "none"
        /\ pc = "call" /\ rid = 0 /\ expired = FALSE
        /\ handed = <<>> /\ answered = <<>> /\ turn = <<0, 0>>

-----------------------------------------------------------------------------
(* The agent *)

Waiting == pc # "call" /\ step # "over"
Replied == \E i \in DOMAIN said : said[i].id = rid /\ said[i].kind \in {"result", "error"}

(* It answers a request once, asks for permission before it answers a      *)
(* prompt, with ids of its own that may be the client's, and notifies.   *)
Say(kind, id) ==
    /\ ~gone /\ Len(said) < MaxMessages
    /\ kind \in {"result", "error"} => Waiting /\ ~Replied /\ id = rid
    /\ kind = "permission" => Waiting /\ ~Replied /\ step = "prompt"
    /\ kind = "note" => id = 0
    /\ said' = Append(said, [kind |-> kind, id |-> id])
    /\ UNCHANGED <<framed, written, gone, fetched, consumed, caller, request, history>>

(* Any part of what it has said gets to the pipe at once. *)
Write ==
    /\ ~gone /\ written' \in (written + 1)..(Pieces * Len(said))
    /\ UNCHANGED <<framed, said, gone, fetched, consumed, caller, request, history>>

Die ==
    /\ ~gone /\ gone' = TRUE
    /\ UNCHANGED <<framed, said, written, fetched, consumed, caller, request, history>>

-----------------------------------------------------------------------------
(* The caller *)

(* The next request, or the end. *)
To(next) == /\ step' = next /\ pc' = "call" /\ expired' = FALSE
            /\ UNCHANGED <<rid, outcome>>
Over(how) == /\ step' = "over" /\ pc' = "call" /\ outcome' = how
             /\ UNCHANGED <<rid, expired, left>>

(* cached_token is tried first, whether it is advertised or not. *)
Returned ==
    \/ step = "initialize" /\ To("new") /\ UNCHANGED left
    \/ step = "initialize" /\ To("authenticate") /\ left' \in 0..(MaxMethods - 1)
    \/ step = "authenticate" /\ To("new") /\ UNCHANGED left
    \/ step = "new" /\ To("prompt") /\ UNCHANGED left
    \/ step = "prompt" /\ To("close") /\ UNCHANGED left
    \/ step = "close" /\ Over("ok")

(* An AcpError: the next method; session/new looks for an auth error. *)
Refused ==
    \/ step = "authenticate" /\ left > 0 /\ To("authenticate") /\ left' = left - 1
    \/ step = "authenticate" /\ left = 0 /\ Over("auth")
    \/ step = "new" /\ Over("auth")
    \/ step \in {"initialize", "new", "prompt"} /\ Over("failed")
    \/ step = "close" /\ Over("ok")

(* Any other exception. *)
Raised == Over(IF step = "close" THEN "ok" ELSE "failed")

-----------------------------------------------------------------------------
(* request_with_handlers *)

(* The request; a dead agent's stdin may raise.  (Those of the handshake    *)
(* fit in the pipe; that a later one may block is in RunPrompt.)           *)
Send ==
    /\ pc = "call" /\ step # "over"
    /\ \/ /\ pc' = "select" /\ rid' = rid + 1 /\ expired' = FALSE
          /\ turn' = IF step = "prompt" THEN <<consumed, consumed>> ELSE turn
          /\ UNCHANGED caller
       \/ gone /\ Raised /\ UNCHANGED turn
    /\ UNCHANGED <<agent, fetched, consumed, handed, answered>>

Expire ==
    /\ Waiting /\ step \in Handshake /\ ~expired
    /\ expired' = TRUE
    /\ UNCHANGED <<agent, fetched, consumed, caller, pc, rid, history>>

Readable == fetched < written \/ gone

(* Faulty variant: the deadline is for a message's first line. *)
SelectOnce ==
    /\ Waiting /\ pc = "select"
    /\ step \in Handshake /\ consumed % Pieces = 0 => ~expired /\ Readable
    /\ pc' = "read"
    /\ UNCHANGED <<agent, fetched, consumed, caller, rid, expired, history>>

(* _wait_readable: of no concern without a deadline. *)
Select ==
    /\ Waiting /\ pc = "select"
    /\ step \in Handshake => ~expired /\ Readable
    /\ pc' = "read"
    /\ UNCHANGED <<agent, fetched, consumed, caller, rid, expired, history>>

(* TimeoutError, hence AuthRequired, which no caller takes for a refusal. *)
TimeOut ==
    /\ Waiting /\ pc = "select" /\ expired
    /\ Over("auth")
    /\ UNCHANGED <<agent, fetched, consumed, history>>

(* Faulty variant: a read may return a part of what it was asked for. *)
WholeOrPart == fetched > consumed

(* A line, or n bytes, are in the buffer. *)
Whole == fetched >= consumed + (IF Part(consumed) = "begin" THEN 2 ELSE 1)

Reading == Waiting /\ pc = "read"

(* readline and read take all there is in the pipe, and wait without limit. *)
Fetch ==
    /\ Reading /\ ~Whole /\ fetched < written
    /\ fetched' = written
    /\ UNCHANGED <<agent, consumed, caller, request, history>>

(* The end of the stream: an AcpError between messages, else what is there *)
(* is no JSON.                                                             *)
Eof ==
    /\ Reading /\ ~Whole /\ fetched = written /\ gone
    /\ IF consumed % Pieces = 0 /\ fetched = consumed THEN Refused ELSE Raised
    /\ UNCHANGED <<agent, fetched, consumed, history>>

(* A header or its blank line. *)
Header ==
    /\ Reading /\ Whole /\ Part(consumed) # "begin"
    /\ consumed' = consumed + 1 /\ pc' = "select"
    /\ UNCHANGED <<agent, fetched, caller, rid, expired, history>>

Message == MessageOf(consumed)

Take == /\ Reading /\ Whole /\ Part(consumed) = "begin"
        /\ consumed' = consumed + 2
        /\ turn' = IF step = "prompt" THEN <<turn[1], consumed + 2>> ELSE turn
        /\ UNCHANGED <<agent, fetched>>

GoOn == pc' = "select" /\ UNCHANGED <<caller, rid, expired>>

(* Faulty variant: a message with the request's id is its answer. *)
AnswersById == Message.id = rid

Answers == Message.id = rid /\ Message.kind \in {"result", "error"}

Answer ==
    /\ Take /\ Answers
    /\ IF Message.kind = "error" THEN Refused ELSE Returned
    /\ UNCHANGED <<handed, answered>>

(* Only session/prompt has handlers.  The reply may find the agent dead. *)
Permission ==
    /\ Take /\ ~Answers /\ Message.kind = "permission"
    /\ IF step # "prompt" THEN Refused /\ UNCHANGED <<handed, answered>>
       ELSE /\ handed' = Append(handed, consumed)
            /\ \/ GoOn /\ answered' = Append(answered, consumed)
               \/ Raised /\ UNCHANGED answered

(* session/update, or something else, which is skipped. *)
Note ==
    /\ Take /\ ~Answers /\ Message.kind = "note"
    /\ GoOn /\ UNCHANGED answered
    /\ handed' = IF step = "prompt" THEN Append(handed, consumed) ELSE handed

(* What the agent notifies may be no JSON: json.loads raises, and nothing  *)
(* of the turn has been read.                                              *)
Junk ==
    /\ Reading /\ Whole /\ Part(consumed) = "begin" /\ Message.kind = "note"
    /\ consumed' = consumed + 2 /\ Raised
    /\ UNCHANGED <<agent, fetched, history>>

-----------------------------------------------------------------------------
Client == Send \/ Select \/ TimeOut \/ Fetch \/ Eof \/ Header \/ Answer \/ Permission \/ Note
          \/ Junk
Agent == Write \/ Die \/ \E kind \in Kinds, id \in {0, rid} : Say(kind, id)

Next == Client \/ Expire \/ Agent

(* The run thread is scheduled and time passes; an agent owes nothing. *)
Fairness == WF_vars(Client) /\ WF_vars(Expire)

Spec == Init /\ [][Next]_vars /\ Fairness

-----------------------------------------------------------------------------
(* Properties *)

(* The begins of the messages of a kind the client went through in a turn. *)
Begin(i) == Pieces * i - 2
InTurn(kinds) == {Begin(i) : i \in {i \in DOMAIN said : /\ said[i].kind \in kinds
                                                       /\ turn[1] <= Begin(i) /\ Begin(i) < turn[2]}}

(* The sequence has exactly these, once each, from the first to the last.  *)
InOrder(s, begins) == /\ ToSet(s) = begins
                      /\ \A i, k \in DOMAIN s : i < k => s[i] < s[k]

(* In its turn the agent's updates and requests for permission reach their *)
(* handlers once each and in their order, whatever was buffered before;    *)
(* when session/prompt has returned every request of the turn has had one  *)
(* reply.                                                                  *)
TurnComplete ==
    /\ InOrder(handed, InTurn({"note", "permission"}))
    /\ step = "close" \/ outcome = "ok" => InOrder(answered, InTurn({"permission"}))

(* initialize and authenticate end, answered or not, unless the agent      *)
(* leaves a line or a body unfinished: the deadline is not watched within. *)
Torn == Reading /\ Part(consumed) = "begin" /\ fetched = consumed + 1
HandshakeEndsOrTorn == step \in Handshake ~> step \notin Handshake \/ Torn

(* While the success of a handshake request lies in its buffer the client  *)
(* does not wait for the agent to write, to ask for a login in the end.    *)
AnswerHeard ==
    Waiting /\ pc = "select" /\ step \in Handshake
       => \A i \in DOMAIN said :
             said[i] = [kind |-> "result", id |-> rid] /\ Pieces * i <= fetched => Readable
=============================================================================
