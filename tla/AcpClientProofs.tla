---------------------------- MODULE AcpClientProofs ----------------------------
(***************************************************************************)
(* The stream of AcpClient for any number of messages and either framing:  *)
(* where the reader may stand in it, and that the turn of the prompt loses *)
(* and repeats nothing.                                                    *)
(***************************************************************************)
EXTENDS AcpClient, SequenceTheorems, TLAPS

-----------------------------------------------------------------------------
(* The stream *)

LEMMA PiecesOf == framed \in BOOLEAN => /\ framed => Pieces = 4
                                        /\ ~framed => Pieces = 2
                                        /\ Pieces \in {2, 4}
  BY DEF Pieces

(* The reader takes a message from its begin, which is that of one of the   *)
(* messages said, and stands before the next one then.                      *)
LEMMA TakesMessage ==
  ASSUME TypeOK, Part(consumed) = "begin", Whole, consumed' = consumed + 2
  PROVE  \E i \in DOMAIN said : /\ consumed = Begin(i) /\ Message = said[i]
                                /\ consumed' = Pieces * i /\ consumed' <= fetched
<1>1. /\ consumed \in Nat /\ fetched \in Nat /\ written \in Nat /\ Len(said) \in Nat
      /\ consumed <= fetched /\ fetched <= written /\ written <= Pieces * Len(said)
      /\ DOMAIN said = 1..Len(said) /\ framed \in BOOLEAN
  BY LenProperties DEF TypeOK
<1>2. Part(consumed) = "begin" /\ fetched >= consumed + 2 /\ consumed' = consumed + 2
  BY DEF Whole
<1>3. CASE framed
  <2>1. Pieces = 4
    BY <1>3, PiecesOf
  <2>2. (consumed % 4) = 2
    <3>1. (consumed % 4) \in {0, 1, 2}
      BY <1>1, <2>1 DEF TypeOK
    <3>2. Part(consumed) = <<"header", "blank", "begin">>[(consumed % 4) + 1]
      BY <1>3 DEF Part
    <3>3. (consumed % 4) # 0
      <4> SUFFICES ASSUME (consumed % 4) = 0 PROVE FALSE
        OBVIOUS
      <4> QED BY <3>2, <1>2
    <3>4. (consumed % 4) # 1
      <4> SUFFICES ASSUME (consumed % 4) = 1 PROVE FALSE
        OBVIOUS
      <4> QED BY <3>2, <1>2
    <3> QED BY <3>1, <3>3, <3>4
  <2>3. PICK m \in Nat : m = (consumed \div 4) /\ consumed = 4 * m + 2
    BY <1>1, <2>2
  <2>4. m + 1 \in 1..Len(said)
    BY <1>1, <1>2, <2>1, <2>3
  <2> QED BY <1>1, <1>2, <2>1, <2>3, <2>4 DEF Begin, Message, MessageOf
<1>4. CASE ~framed
  <2>1. Pieces = 2
    BY <1>1, <1>4, PiecesOf
  <2>2. (consumed % 2) = 0
    BY <1>1, <2>1 DEF TypeOK
  <2>3. PICK m \in Nat : m = (consumed \div 2) /\ consumed = 2 * m
    BY <1>1, <2>2
  <2>4. m + 1 \in 1..Len(said)
    BY <1>1, <1>2, <2>1, <2>3
  <2> QED BY <1>1, <1>2, <2>1, <2>3, <2>4 DEF Begin, Message, MessageOf
<1> QED BY <1>1, <1>3, <1>4

(* A header leaves the reader within the message. *)
LEMMA HeaderWithin ==
  ASSUME TypeOK, Header
  PROVE  /\ consumed' \in Nat /\ consumed' <= fetched /\ (consumed' % Pieces) # Pieces - 1
         /\ \A m \in Nat : Pieces * m <= consumed /\ consumed < Pieces * (m + 1)
                              => consumed' < Pieces * (m + 1)
<1>1. /\ consumed \in Nat /\ fetched \in Nat /\ framed \in BOOLEAN
      /\ consumed <= fetched /\ (consumed % Pieces) # Pieces - 1
  BY DEF TypeOK
<1>2. Part(consumed) # "begin" /\ fetched >= consumed + 1 /\ consumed' = consumed + 1
  BY DEF Header, Whole
<1>3. framed /\ Pieces = 4
  BY <1>1, <1>2, PiecesOf DEF Part
<1>4. (consumed % 4) \in {0, 1, 2}
  BY <1>1, <1>3
<1>5. (consumed % 4) # 2
  <2> SUFFICES ASSUME (consumed % 4) = 2 PROVE FALSE
    OBVIOUS
  <2>1. Part(consumed) = <<"header", "blank", "begin">>[3]
    BY <1>3 DEF Part
  <2> QED BY <2>1, <1>2
<1>6. (consumed' % 4) \in {1, 2}
  BY <1>1, <1>2, <1>4, <1>5
<1>7. \A m \in Nat : 4 * m <= consumed /\ consumed < 4 * (m + 1) => consumed + 1 < 4 * (m + 1)
  BY <1>1, <1>4, <1>5
<1> QED BY <1>1, <1>2, <1>3, <1>6, <1>7

-----------------------------------------------------------------------------
(* The turn *)

(* One more at the end, after all the others. *)
LEMMA OneMore ==
  ASSUME NEW s \in Seq(Nat), NEW begins, InOrder(s, begins), NEW n \in Nat,
         \A b \in begins : b < n
  PROVE  InOrder(Append(s, n), begins \union {n})
<1>1. /\ Len(Append(s, n)) = Len(s) + 1 /\ Len(s) \in Nat
      /\ DOMAIN s = 1..Len(s) /\ DOMAIN Append(s, n) = 1..(Len(s) + 1)
      /\ \A i \in 1..Len(s) : Append(s, n)[i] = s[i] /\ s[i] \in Nat
      /\ Append(s, n)[Len(s) + 1] = n
  OBVIOUS
<1>2. ToSet(s) = begins /\ \A i, k \in DOMAIN s : i < k => s[i] < s[k]
  BY DEF InOrder
<1>3. ToSet(Append(s, n)) = ToSet(s) \union {n}
  BY <1>1 DEF ToSet
<1>4. \A i \in 1..Len(s) : s[i] < n
  BY <1>1, <1>2 DEF ToSet
<1>5. ASSUME NEW i \in DOMAIN Append(s, n), NEW k \in DOMAIN Append(s, n), i < k
      PROVE  Append(s, n)[i] < Append(s, n)[k]
  BY <1>1, <1>2, <1>4, <1>5
<1> QED BY <1>2, <1>3, <1>5 DEF InOrder

(* What the agent says next is no part of what was read. *)
LEMMA TurnStays ==
  ASSUME TypeOK, turn[2] <= consumed, UNCHANGED <<framed, turn>>, NEW kinds,
         \/ UNCHANGED said
         \/ \E m : said' = Append(said, m)
  PROVE  InTurn(kinds)' = InTurn(kinds)
<1>1. CASE UNCHANGED said
  BY <1>1 DEF InTurn, Begin, Pieces
<1>2. ASSUME NEW m, said' = Append(said, m) PROVE InTurn(kinds)' = InTurn(kinds)
  <2>1. /\ DOMAIN said = 1..Len(said) /\ DOMAIN said' = 1..(Len(said) + 1) /\ Len(said) \in Nat
        /\ \A i \in 1..Len(said) : said'[i] = said[i]
    BY <1>2 DEF TypeOK
  <2>2. turn[2] <= Pieces * Len(said) /\ turn[2] \in Nat /\ Pieces \in {2, 4}
    BY PiecesOf DEF TypeOK
  <2>3. ~(Begin(Len(said) + 1) < turn[2])
    BY <2>1, <2>2 DEF Begin
  <2>4. \A i : Begin(i)' = Begin(i)
    BY DEF Begin, Pieces
  <2>5. \A i : /\ i \in DOMAIN said' /\ said'[i].kind \in kinds
               /\ turn[1] <= Begin(i) /\ Begin(i) < turn[2]
              <=> /\ i \in DOMAIN said /\ said[i].kind \in kinds
                  /\ turn[1] <= Begin(i) /\ Begin(i) < turn[2]
    BY <2>1, <2>3
  <2>6. InTurn(kinds)' = {Begin(i) : i \in {i \in DOMAIN said' :
                            /\ said'[i].kind \in kinds /\ turn[1] <= Begin(i) /\ Begin(i) < turn[2]}}
    BY <2>4 DEF InTurn
  <2> QED BY <2>5, <2>6 DEF InTurn
<1> QED BY <1>1, <1>2

(* A message taken during the prompt is the last of the turn by then. *)
LEMMA TurnGrows ==
  ASSUME TypeOK, NEW i \in DOMAIN said, NEW m \in Nat,
         turn[1] <= turn[2], turn[2] = Pieces * m, consumed = Begin(i),
         turn[2] <= consumed, consumed < turn[2] + Pieces,
         UNCHANGED <<framed, said>>, turn' = <<turn[1], Pieces * i>>, NEW kinds
  PROVE  /\ \A b \in InTurn(kinds) : b < consumed
         /\ said[i].kind \in kinds => InTurn(kinds)' = InTurn(kinds) \union {consumed}
         /\ said[i].kind \notin kinds => InTurn(kinds)' = InTurn(kinds)
<1>1. /\ DOMAIN said = 1..Len(said) /\ Len(said) \in Nat /\ i \in Nat
      /\ turn[1] \in Nat /\ turn[2] \in Nat /\ Pieces \in {2, 4}
  <2>1. said \in Seq([kind : Kinds, id : Nat]) /\ turn \in Nat \X Nat /\ framed \in BOOLEAN
    BY DEF TypeOK
  <2> QED BY <2>1, PiecesOf
<1>2. m = i - 1
  BY <1>1 DEF Begin
<1>3. \A k \in DOMAIN said : Begin(k) < turn[2] <=> k < i
  <2>1. turn[2] = Pieces * (i - 1)
    BY <1>2
  <2>2. CASE Pieces = 2
    BY <1>1, <2>1, <2>2 DEF Begin
  <2>3. CASE Pieces = 4
    BY <1>1, <2>1, <2>3 DEF Begin
  <2> QED BY <1>1, <2>2, <2>3
<1>4. \A k \in DOMAIN said : Begin(k) < Pieces * i <=> k <= i
  BY <1>1 DEF Begin
<1>5. turn[1] <= Begin(i)
  <2>1. consumed \in Nat
    BY DEF TypeOK
  <2> QED BY <1>1, <2>1
<1>6. InTurn(kinds)' = {Begin(k) : k \in {k \in DOMAIN said :
                           /\ said[k].kind \in kinds /\ turn[1] <= Begin(k) /\ Begin(k) < Pieces * i}}
  <2>1. \A k : Begin(k)' = Begin(k)
    BY DEF Begin, Pieces
  <2> QED BY <2>1 DEF InTurn
<1>7. \A k \in DOMAIN said : k < i => Begin(k) < Begin(i)
  BY <1>1 DEF Begin
<1>8. \A b \in InTurn(kinds) : b < consumed
  BY <1>3, <1>7 DEF InTurn
<1>9. \A k \in DOMAIN said : k <= i <=> k < i \/ k = i
  BY <1>1
<1>10. CASE said[i].kind \in kinds
  BY <1>3, <1>4, <1>5, <1>6, <1>8, <1>9, <1>10 DEF InTurn
<1>11. CASE said[i].kind \notin kinds
  BY <1>3, <1>4, <1>6, <1>8, <1>9, <1>11 DEF InTurn
<1> QED BY <1>8, <1>10, <1>11

-----------------------------------------------------------------------------
(* The invariant *)

(* TypeOK, by kinds of fact. *)
SaidOK == /\ said \in Seq([kind : Kinds, id : Nat]) /\ Len(said) <= MaxMessages
          /\ rid \in Nat /\ \A i \in DOMAIN said : said[i].id <= rid
StreamOK == /\ framed \in BOOLEAN /\ consumed \in Nat /\ fetched \in Nat /\ written \in Nat
            /\ consumed <= fetched /\ fetched <= written /\ written <= Pieces * Len(said)
            /\ (consumed % Pieces) # Pieces - 1
CallerOK == /\ step \in Handshake \union {"new", "prompt", "close", "over"}
            /\ left \in 0..MaxMethods /\ pc \in {"call", "select", "read"} /\ outcome \in Outcomes
            /\ (outcome # "none") = (step = "over")
            /\ expired => step \in Handshake \union {"over"}
BetweenMessages == pc = "call" /\ step # "over" => (consumed % Pieces) = 0
HistoryOK == handed \in Seq(Nat) /\ answered \in Seq(Nat) /\ turn \in Nat \X Nat

LEMMA TypeParts ==
  /\ TypeOK <=> /\ gone \in BOOLEAN /\ expired \in BOOLEAN
                /\ SaidOK /\ StreamOK /\ CallerOK /\ BetweenMessages /\ HistoryOK
  /\ TypeOK' <=> /\ gone' \in BOOLEAN /\ expired' \in BOOLEAN
                 /\ SaidOK' /\ StreamOK' /\ CallerOK' /\ BetweenMessages' /\ HistoryOK'
  BY Zenon DEF TypeOK, SaidOK, StreamOK, CallerOK, BetweenMessages, HistoryOK

(* No turn before the prompt is sent; while it is going the turn reaches to *)
(* the begin of the message the reader is in.                               *)
BeforeTurn == step \in Handshake \union {"new"} \/ (step = "prompt" /\ pc = "call")
                 => turn = <<0, 0>> /\ handed = <<>> /\ answered = <<>>
DuringTurn == step = "prompt" /\ pc # "call"
                 => \E m \in Nat : turn[2] = Pieces * m /\ consumed < Pieces * (m + 1)
TurnInv ==
    /\ turn[1] <= turn[2] /\ turn[2] <= consumed
    /\ BeforeTurn /\ DuringTurn
    /\ InOrder(handed, InTurn({"note", "permission"}))
    /\ step # "over" \/ outcome = "ok" => InOrder(answered, InTurn({"permission"}))

Inv == TypeOK /\ TurnInv

(* The caller goes from a request to the next, or ends. *)
Moved == /\ step # "over" /\ pc' = "call" /\ rid' = rid
         /\ step' \in Handshake \union {"new", "prompt"} => step \in Handshake \union {"new"}
         /\ step' = "close" => step = "prompt"

LEMMA CallerMoves ==
  ASSUME CallerOK, expired \in BOOLEAN, step # "over", Returned \/ Refused \/ Raised
  PROVE  CallerOK' /\ expired' \in BOOLEAN /\ Moved
<1> USE AcpClientAssumption DEF CallerOK, Moved, Handshake, Outcomes
<1>0. outcome = "none"
  OBVIOUS
<1>1. ASSUME NEW next \in {"authenticate", "new", "prompt", "close"}, To(next), left' \in 0..MaxMethods,
             next \in {"authenticate", "new", "prompt"} => step \in {"initialize", "authenticate", "new"},
             next = "close" => step = "prompt"
      PROVE  CallerOK' /\ expired' \in BOOLEAN /\ Moved
  BY <1>0, <1>1 DEF To
<1>2. ASSUME NEW how \in {"ok", "auth", "failed"}, Over(how)
      PROVE  CallerOK' /\ expired' \in BOOLEAN /\ Moved
  BY <1>2 DEF Over
<1>3. CASE Returned
  <2>1. left \in 0..MaxMethods /\ 0..(MaxMethods - 1) \subseteq 0..MaxMethods
    OBVIOUS
  <2> QED BY <1>1, <1>2, <1>3, <2>1 DEF Returned
<1>4. CASE Refused
  <2>1. left \in 0..MaxMethods /\ (left > 0 => left - 1 \in 0..MaxMethods)
    OBVIOUS
  <2> QED BY <1>1, <1>2, <1>4, <2>1 DEF Refused
<1>5. CASE Raised
  BY <1>2, <1>5 DEF Raised
<1> QED BY <1>3, <1>4, <1>5

(* Whatever the client does but send the prompt and read in its turn. *)
LEMMA TurnKept ==
  ASSUME Inv, UNCHANGED <<framed, turn, handed, answered>>,
         UNCHANGED said \/ \E m : said' = Append(said, m),
         consumed' \in Nat, consumed <= consumed',
         Moved \/ (UNCHANGED <<step, outcome>> /\ (pc = "call" \/ pc' # "call")),
         step' = "prompt" /\ pc' # "call" =>
            /\ step = "prompt" /\ pc # "call"
            /\ \A m \in Nat : Pieces * m <= consumed /\ consumed < Pieces * (m + 1)
                                => consumed' < Pieces * (m + 1)
  PROVE  TurnInv'
<1>1. \A kinds : InTurn(kinds)' = InTurn(kinds)
  BY TurnStays DEF Inv, TurnInv
<1>2. turn'[1] <= turn'[2] /\ turn'[2] <= consumed'
  BY DEF Inv, TypeOK, TurnInv
<1>3. BeforeTurn'
  BY DEF Inv, TurnInv, BeforeTurn, Moved
<1>4. DuringTurn'
  <2> SUFFICES ASSUME step' = "prompt", pc' # "call"
               PROVE  \E m \in Nat : turn[2] = Pieces * m /\ consumed' < Pieces * (m + 1)
    BY DEF DuringTurn, Pieces
  <2>1. PICK m \in Nat : turn[2] = Pieces * m /\ consumed < Pieces * (m + 1)
    BY DEF Inv, TurnInv, DuringTurn
  <2> QED BY <2>1 DEF Inv, TurnInv
<1>5. InOrder(handed', InTurn({"note", "permission"})')
  BY <1>1 DEF Inv, TurnInv
<1>6. step' # "over" \/ outcome' = "ok" => InOrder(answered', InTurn({"permission"})')
  BY <1>1 DEF Inv, TurnInv, Moved
<1> QED BY <1>2, <1>3, <1>4, <1>5, <1>6 DEF TurnInv

LEMMA IdsBelow == SaidOK => \A i \in DOMAIN said : said[i].id \in Nat /\ said[i].id <= rid
<1> SUFFICES ASSUME SaidOK, NEW i \in DOMAIN said PROVE said[i].id \in Nat /\ said[i].id <= rid
  OBVIOUS
<1>1. said \in Seq([kind : Kinds, id : Nat]) /\ said[i].id <= rid
  BY DEF SaidOK
<1>2. i \in 1..Len(said)
  BY <1>1
<1>3. said[i] \in [kind : Kinds, id : Nat]
  BY <1>1, <1>2, ElementOfSeq
<1> QED BY <1>1, <1>3

LEMMA InvInit == Init => Inv
<1> SUFFICES ASSUME Init PROVE Inv
  OBVIOUS
<1> USE AcpClientAssumption DEF Init
<1>1. Len(said) = 0 /\ DOMAIN said = {} /\ ToSet(handed) = {} /\ DOMAIN handed = {}
  BY DEF ToSet
<1>2. SaidOK
  BY <1>1 DEF SaidOK
<1>3. StreamOK
  BY <1>1, PiecesOf DEF StreamOK
<1>4. CallerOK /\ HistoryOK
  BY DEF CallerOK, HistoryOK, Handshake, Outcomes
<1>5. BetweenMessages
  BY PiecesOf DEF BetweenMessages
<1>6. \A kinds : InTurn(kinds) = {}
  BY <1>1 DEF InTurn
<1>7. InOrder(handed, {}) /\ InOrder(answered, {})
  BY <1>1 DEF InOrder, ToSet
<1>8. TurnInv
  <2>1. turn[1] <= turn[2] /\ turn[2] <= consumed
    OBVIOUS
  <2>2. BeforeTurn /\ DuringTurn
    BY DEF BeforeTurn, DuringTurn
  <2>3. /\ InOrder(handed, InTurn({"note", "permission"}))
        /\ InOrder(answered, InTurn({"permission"}))
    BY <1>6, <1>7
  <2> QED BY <2>1, <2>2, <2>3 DEF TurnInv
<1> QED BY <1>2, <1>3, <1>4, <1>5, <1>8, TypeParts DEF Inv

LEMMA InvAgent == ASSUME Inv, Agent PROVE Inv'
<1> USE AcpClientAssumption DEF caller, request, history
<1>p. /\ gone \in BOOLEAN /\ expired \in BOOLEAN
      /\ SaidOK /\ StreamOK /\ CallerOK /\ BetweenMessages /\ HistoryOK
  BY TypeParts DEF Inv
<1>1. ASSUME NEW kind \in Kinds, NEW id \in {0, rid}, Say(kind, id) PROVE Inv'
  <2> DEFINE m == [kind |-> kind, id |-> id]
  <2>1. /\ said' = Append(said, m) /\ Len(said) < MaxMessages
        /\ UNCHANGED <<framed, written, gone, fetched, consumed, step, left, outcome,
                       pc, rid, expired, handed, answered, turn>>
    BY <1>1 DEF Say
  <2>2. m \in [kind : Kinds, id : Nat] /\ m.id <= rid
    BY <1>p DEF SaidOK
  <2> HIDE DEF m
  <2>3. /\ said' \in Seq([kind : Kinds, id : Nat]) /\ Len(said') = Len(said) + 1 /\ Len(said) \in Nat
        /\ DOMAIN said' = 1..(Len(said) + 1) /\ DOMAIN said = 1..Len(said)
        /\ \A i \in 1..Len(said) : said'[i] = said[i]
        /\ said'[Len(said) + 1] = m
    BY <1>p, <2>1, <2>2, AppendProperties, LenProperties DEF SaidOK
  <2>4. SaidOK'
    BY <1>p, <2>1, <2>2, <2>3 DEF SaidOK
  <2>5. StreamOK'
    <3>1. Pieces' = Pieces /\ Pieces \in {2, 4}
      BY <1>p, <2>1, PiecesOf DEF Pieces, StreamOK
    <3> QED BY <1>p, <2>1, <2>3, <3>1 DEF StreamOK
  <2>6. CallerOK' /\ HistoryOK' /\ gone' \in BOOLEAN /\ expired' \in BOOLEAN
    BY <1>p, <2>1 DEF CallerOK, HistoryOK
  <2>7. BetweenMessages'
    BY <1>p, <2>1 DEF BetweenMessages, Pieces
  <2>8. TurnInv'
    BY <1>p, <2>1, TurnKept DEF StreamOK
  <2> QED BY <2>4, <2>5, <2>6, <2>7, <2>8, TypeParts DEF Inv
<1>2. CASE Write
  <2>1. UNCHANGED <<framed, said, gone, fetched, consumed, step, left, outcome,
                    pc, rid, expired, handed, answered, turn>>
    BY <1>2 DEF Write
  <2>2. StreamOK'
    <3>1. Pieces' = Pieces /\ Pieces \in {2, 4} /\ Len(said) \in Nat
      BY <1>p, <2>1, PiecesOf DEF Pieces, StreamOK, SaidOK
    <3> QED BY <1>p, <1>2, <2>1, <3>1 DEF StreamOK, Write
  <2>3. /\ SaidOK' /\ CallerOK' /\ HistoryOK' /\ BetweenMessages'
        /\ gone' \in BOOLEAN /\ expired' \in BOOLEAN
    BY <1>p, <2>1 DEF SaidOK, CallerOK, HistoryOK, BetweenMessages, Pieces
  <2>4. TurnInv'
    BY <1>p, <2>1, TurnKept DEF StreamOK
  <2> QED BY <2>2, <2>3, <2>4, TypeParts DEF Inv
<1>3. CASE Die
  <2>1. /\ gone' = TRUE
        /\ UNCHANGED <<framed, said, written, fetched, consumed, step, left, outcome,
                       pc, rid, expired, handed, answered, turn>>
    BY <1>3 DEF Die
  <2>2. /\ SaidOK' /\ StreamOK' /\ CallerOK' /\ HistoryOK' /\ BetweenMessages'
        /\ gone' \in BOOLEAN /\ expired' \in BOOLEAN
    BY <1>p, <2>1 DEF SaidOK, StreamOK, CallerOK, HistoryOK, BetweenMessages, Pieces
  <2>3. TurnInv'
    BY <1>p, <2>1, TurnKept DEF StreamOK
  <2> QED BY <2>2, <2>3, TypeParts DEF Inv
<1> QED BY <1>1, <1>2, <1>3 DEF Agent

(* The client, between messages of the turn. *)
LEMMA InvClient ==
  ASSUME Inv, Send \/ Select \/ TimeOut \/ Fetch \/ Eof \/ Header \/ Expire
  PROVE  Inv'
<1> USE AcpClientAssumption DEF agent, caller, request, history
<1>p. /\ gone \in BOOLEAN /\ expired \in BOOLEAN
      /\ SaidOK /\ StreamOK /\ CallerOK /\ BetweenMessages /\ HistoryOK
  BY TypeParts DEF Inv
<1>q. consumed \in Nat /\ consumed <= consumed
  BY <1>p DEF StreamOK
<1>1. CASE Send
  <2>1. UNCHANGED <<framed, said, written, gone, fetched, consumed, handed, answered>> /\ step # "over"
    BY <1>1 DEF Send
  <2>2. SaidOK' /\ CallerOK' /\ HistoryOK' /\ BetweenMessages' /\ gone' \in BOOLEAN /\ expired' \in BOOLEAN
    <3>1. CASE /\ pc' = "select" /\ rid' = rid + 1 /\ expired' = FALSE
               /\ turn' = (IF step = "prompt" THEN <<consumed, consumed>> ELSE turn)
               /\ UNCHANGED <<step, left, outcome>>
      <4>1. SaidOK'
        <5>1. \A i \in DOMAIN said : said[i].id \in Nat /\ said[i].id <= rid
          BY <1>p, IdsBelow
        <5>2. rid \in Nat /\ rid' = rid + 1 /\ \A i \in DOMAIN said : said[i].id <= rid'
          BY <1>p, <3>1, <5>1 DEF SaidOK
        <5> QED BY <1>p, <2>1, <5>2 DEF SaidOK
      <4>2. turn' \in Nat \X Nat
        BY <1>p, <1>q, <3>1 DEF HistoryOK
      <4> QED BY <1>p, <2>1, <3>1, <4>1, <4>2 DEF CallerOK, HistoryOK, BetweenMessages
    <3>2. CASE Raised /\ UNCHANGED turn
      <4>1. step' = "over" /\ rid' = rid /\ left' = left
        BY <3>2 DEF Raised, Over
      <4> QED BY <1>p, <2>1, <3>2, <4>1, CallerMoves DEF SaidOK, HistoryOK, BetweenMessages
    <3> QED BY <1>1, <3>1, <3>2 DEF Send
  <2>3. StreamOK'
    BY <1>p, <2>1 DEF StreamOK, Pieces
  <2>4. TurnInv'
    <3>1. CASE Raised /\ UNCHANGED turn
      <4>1. Moved /\ step' = "over"
        BY <1>p, <2>1, <3>1, CallerMoves DEF Raised, Over
      <4> QED BY <1>q, <2>1, <3>1, <4>1, TurnKept
    <3>2. CASE step # "prompt" /\ UNCHANGED <<step, left, outcome, turn>>
      BY <1>1, <1>q, <2>1, <3>2, TurnKept DEF Send
    <3>3. CASE step = "prompt" /\ turn' = <<consumed, consumed>> /\ pc' = "select" /\ UNCHANGED <<step, outcome>>
      <4>1. pc = "call" /\ (consumed % Pieces) = 0 /\ handed = <<>> /\ answered = <<>>
        BY <1>1, <3>3, <1>p DEF Send, BetweenMessages, Inv, TurnInv, BeforeTurn
      <4>2. \A kinds : InTurn(kinds)' = {}
        <5>1. turn'[1] = consumed /\ turn'[2] = consumed
          BY <3>3
        <5>2. \A i \in DOMAIN said : Begin(i)' \in Int
          <6>1. framed' \in BOOLEAN /\ DOMAIN said = 1..Len(said) /\ Len(said) \in Nat
            BY <1>p, <2>1 DEF StreamOK, SaidOK
          <6> QED BY <6>1 DEF Begin, Pieces
        <5> QED BY <1>q, <2>1, <5>1, <5>2 DEF InTurn
      <4>3. InOrder(handed', {}) /\ InOrder(answered', {})
        <5>1. DOMAIN handed' = {} /\ DOMAIN answered' = {}
          BY <2>1, <4>1
        <5> QED BY <5>1 DEF InOrder, ToSet
      <4>4. BeforeTurn'
        BY <3>3 DEF BeforeTurn, Handshake
      <4>5. DuringTurn'
        <5>1. Pieces' = Pieces /\ Pieces \in {2, 4}
          BY <1>p, <2>1, PiecesOf DEF Pieces, StreamOK
        <5>2. \E m \in Nat : consumed = Pieces * m /\ consumed < Pieces * (m + 1)
          <6>1. CASE Pieces = 2
            <7>1. PICK m \in Nat : m = consumed \div 2 /\ consumed = 2 * m
              BY <1>q, <4>1, <6>1
            <7> QED BY <6>1, <7>1
          <6>2. CASE Pieces = 4
            <7>1. PICK m \in Nat : m = consumed \div 4 /\ consumed = 4 * m
              BY <1>q, <4>1, <6>2
            <7> QED BY <6>2, <7>1
          <6> QED BY <5>1, <6>1, <6>2
        <5> QED BY <2>1, <3>3, <5>1, <5>2 DEF DuringTurn
      <4> QED BY <1>q, <2>1, <3>3, <4>2, <4>3, <4>4, <4>5 DEF TurnInv
    <3> QED BY <1>1, <3>1, <3>2, <3>3 DEF Send
  <2> QED BY <2>2, <2>3, <2>4, TypeParts DEF Inv
<1>2. CASE Select \/ Expire
  <2>1. /\ UNCHANGED <<framed, said, written, gone, fetched, consumed, step, left, outcome,
                       rid, handed, answered, turn>>
        /\ step # "over" /\ pc # "call" /\ pc' \in {"select", "read"}
        /\ expired' \in BOOLEAN /\ (expired' => expired \/ step \in Handshake)
    BY <1>2, <1>p DEF Select, Expire, Waiting, CallerOK
  <2>2. /\ SaidOK' /\ StreamOK' /\ HistoryOK' /\ BetweenMessages' /\ gone' \in BOOLEAN
    BY <1>p, <2>1 DEF SaidOK, StreamOK, HistoryOK, BetweenMessages, Pieces
  <2>3. CallerOK'
    BY <1>p, <2>1 DEF CallerOK
  <2>4. TurnInv'
    BY <1>q, <2>1, TurnKept
  <2> QED BY <2>1, <2>2, <2>3, <2>4, TypeParts DEF Inv
<1>3. CASE TimeOut \/ Eof
  <2>1. /\ UNCHANGED <<framed, said, written, gone, fetched, consumed, handed, answered, turn>>
        /\ step # "over" /\ (Refused \/ Raised \/ Over("auth"))
    BY <1>3 DEF TimeOut, Eof, Waiting, Reading
  <2>2. CallerOK' /\ expired' \in BOOLEAN /\ Moved
    <3>1. CASE Over("auth")
      BY <1>p, <2>1, <3>1 DEF Over, CallerOK, Moved, Handshake, Outcomes
    <3> QED BY <1>p, <2>1, <3>1, CallerMoves
  <2>3. BetweenMessages'
    <3>1. (consumed % Pieces) = 0 \/ step' = "over"
      BY <1>3 DEF TimeOut, Eof, Over, Raised
    <3> QED BY <2>1, <3>1 DEF BetweenMessages, Pieces
  <2>4. /\ SaidOK' /\ StreamOK' /\ HistoryOK' /\ gone' \in BOOLEAN
    BY <1>p, <2>1, <2>2 DEF SaidOK, StreamOK, HistoryOK, Pieces, Moved
  <2>5. TurnInv'
    <3>1. pc' = "call"
      BY <2>2 DEF Moved
    <3> QED BY <1>q, <2>1, <2>2, <3>1, TurnKept
  <2> QED BY <2>2, <2>3, <2>4, <2>5, TypeParts DEF Inv
<1>4. CASE Fetch
  <2>1. UNCHANGED <<framed, said, written, gone, consumed, step, left, outcome,
                    pc, rid, expired, handed, answered, turn>> /\ fetched' = written
    BY <1>4 DEF Fetch
  <2>2. /\ SaidOK' /\ CallerOK' /\ HistoryOK' /\ BetweenMessages'
        /\ gone' \in BOOLEAN /\ expired' \in BOOLEAN
    BY <1>p, <2>1 DEF SaidOK, CallerOK, HistoryOK, BetweenMessages, Pieces
  <2>3. StreamOK'
    <3>1. Pieces' = Pieces
      BY <2>1 DEF Pieces
    <3> QED BY <1>p, <2>1, <3>1 DEF StreamOK
  <2>4. TurnInv'
    BY <1>q, <2>1, TurnKept
  <2> QED BY <2>2, <2>3, <2>4, TypeParts DEF Inv
<1>5. CASE Header
  <2>1. /\ UNCHANGED <<framed, said, written, gone, fetched, step, left, outcome,
                       rid, expired, handed, answered, turn>>
        /\ pc = "read" /\ pc' = "select" /\ consumed' = consumed + 1
    BY <1>5 DEF Header, Reading
  <2>2. /\ consumed' \in Nat /\ consumed' <= fetched /\ (consumed' % Pieces) # Pieces - 1
        /\ \A m \in Nat : Pieces * m <= consumed /\ consumed < Pieces * (m + 1)
                              => consumed' < Pieces * (m + 1)
    BY <1>5, HeaderWithin DEF Inv
  <2>3. /\ SaidOK' /\ CallerOK' /\ HistoryOK' /\ BetweenMessages'
        /\ gone' \in BOOLEAN /\ expired' \in BOOLEAN
    BY <1>p, <2>1 DEF SaidOK, CallerOK, HistoryOK, BetweenMessages
  <2>4. StreamOK'
    <3>1. Pieces' = Pieces
      BY <2>1 DEF Pieces
    <3> QED BY <1>p, <2>1, <2>2, <3>1 DEF StreamOK
  <2>5. TurnInv'
    <3>1. consumed <= consumed'
      BY <1>q, <2>1
    <3> QED BY <2>1, <2>2, <3>1, TurnKept
  <2> QED BY <2>3, <2>4, <2>5, TypeParts DEF Inv
<1> QED BY <1>1, <1>2, <1>3, <1>4, <1>5

(* The client takes a message. *)
LEMMA InvTake == ASSUME Inv, Answer \/ Permission \/ Note PROVE Inv'
<1> USE AcpClientAssumption DEF agent, caller, request, history
<1>p. /\ gone \in BOOLEAN /\ expired \in BOOLEAN
      /\ SaidOK /\ StreamOK /\ CallerOK /\ BetweenMessages /\ HistoryOK
  BY TypeParts DEF Inv
<1>1. Take /\ step # "over" /\ pc = "read" /\ UNCHANGED <<framed, said, written, gone, fetched>>
  BY DEF Answer, Permission, Note, Take, Reading, Waiting
<1>2. PICK i \in DOMAIN said : /\ consumed = Begin(i) /\ Message = said[i]
                               /\ consumed' = Pieces * i /\ consumed' <= fetched
  BY <1>1, TakesMessage DEF Inv, Take
<1>3. /\ Pieces' = Pieces /\ Pieces \in {2, 4} /\ i \in Nat \ {0} /\ consumed \in Nat
      /\ consumed' \in Nat /\ (consumed' % Pieces) = 0 /\ consumed' = consumed + 2
  <2>1. Pieces' = Pieces /\ Pieces \in {2, 4} /\ i \in Nat \ {0} /\ consumed \in Nat
    BY <1>p, <1>1, PiecesOf DEF Pieces, StreamOK, SaidOK
  <2>2. (2 * i) % 2 = 0 /\ (4 * i) % 4 = 0 /\ 2 * i \in Nat /\ 4 * i \in Nat
    BY <2>1
  <2> QED BY <1>1, <1>2, <2>1, <2>2 DEF Take
<1>4. turn' = (IF step = "prompt" THEN <<turn[1], consumed'>> ELSE turn)
  BY <1>1, <1>3 DEF Take
<1>5. StreamOK'
  <2>1. fetched <= fetched /\ ~(0 = Pieces - 1)
    BY <1>p, <1>3 DEF StreamOK
  <2> QED BY <1>p, <1>1, <1>2, <1>3, <2>1 DEF StreamOK
<1>6. BetweenMessages'
  BY <1>3 DEF BetweenMessages

(* What becomes of the caller, and of the message. *)
<1>7. /\ CallerOK' /\ expired' \in BOOLEAN /\ rid' = rid
      /\ Moved \/ (UNCHANGED <<step, outcome>> /\ pc' # "call")
  <2>1. CASE Returned \/ Refused \/ Raised
    BY <1>p, <1>1, <2>1, CallerMoves DEF Moved
  <2>2. CASE GoOn
    BY <1>p, <2>2 DEF GoOn, CallerOK
  <2> QED BY <2>1, <2>2 DEF Answer, Permission, Note
<1>8. SaidOK'
  BY <1>p, <1>1, <1>7 DEF SaidOK

<1>9. CASE step # "prompt"
  <2>1. UNCHANGED <<turn, handed, answered>>
    BY <1>4, <1>9 DEF Answer, Permission, Note
  <2>2. HistoryOK'
    BY <1>p, <2>1 DEF HistoryOK
  <2>3. step' = "prompt" => pc' = "call"
    BY <1>7, <1>9 DEF Moved
  <2>4. TurnInv'
    BY <1>1, <1>3, <1>7, <2>1, <2>3, TurnKept
  <2> QED BY <1>1, <1>p, <1>5, <1>6, <1>7, <1>8, <2>2, <2>4, TypeParts DEF Inv

<1>10. CASE step = "prompt"
  <2>1. PICK m \in Nat : turn[2] = Pieces * m /\ consumed < Pieces * (m + 1)
    BY <1>1, <1>10 DEF Inv, TurnInv, DuringTurn
  <2>2. /\ turn[1] <= turn[2] /\ turn[2] <= consumed /\ turn' = <<turn[1], Pieces * i>>
        /\ turn[1] \in Nat /\ turn[2] \in Nat /\ consumed < turn[2] + Pieces
    BY <1>p, <1>2, <1>3, <1>4, <1>10, <2>1 DEF Inv, TurnInv, HistoryOK
  <2>3. \A kinds : /\ \A b \in InTurn(kinds) : b < consumed
                   /\ said[i].kind \in kinds => InTurn(kinds)' = InTurn(kinds) \union {consumed}
                   /\ said[i].kind \notin kinds => InTurn(kinds)' = InTurn(kinds)
    BY <1>1, <1>2, <2>1, <2>2, TurnGrows DEF Inv
  <2>4. /\ InOrder(handed, InTurn({"note", "permission"}))
        /\ InOrder(answered, InTurn({"permission"}))
        /\ handed \in Seq(Nat) /\ answered \in Seq(Nat)
    BY <1>10, <1>p DEF Inv, TurnInv, HistoryOK
  <2>5. /\ InOrder(Append(handed, consumed), InTurn({"note", "permission"}) \union {consumed})
        /\ InOrder(Append(answered, consumed), InTurn({"permission"}) \union {consumed})
        /\ Append(handed, consumed) \in Seq(Nat) /\ Append(answered, consumed) \in Seq(Nat)
    BY <1>3, <2>3, <2>4, OneMore, SMTT(20)
  <2>6. /\ handed' \in Seq(Nat) /\ answered' \in Seq(Nat)
        /\ InOrder(handed', InTurn({"note", "permission"})')
        /\ step' # "over" \/ outcome' = "ok" => InOrder(answered', InTurn({"permission"})')
    <3>1. CASE Answer
      <4>1. said[i].kind \in {"result", "error"} /\ UNCHANGED <<handed, answered>>
        BY <1>2, <1>p, <3>1 DEF Answer, Answers
      <4>2. said[i].kind \notin {"note", "permission"} /\ said[i].kind \notin {"permission"}
        BY <4>1
      <4>3. /\ InTurn({"note", "permission"})' = InTurn({"note", "permission"})
            /\ InTurn({"permission"})' = InTurn({"permission"})
        BY <2>3, <4>2
      <4> QED BY <2>4, <4>1, <4>3
    <3>2. CASE Permission
      <4>1. /\ said[i].kind = "permission" /\ handed' = Append(handed, consumed)
            /\ \/ answered' = Append(answered, consumed)
               \/ Raised /\ UNCHANGED answered
        BY <1>2, <1>10, <3>2 DEF Permission
      <4>2. said[i].kind \in {"note", "permission"} /\ said[i].kind \in {"permission"}
        BY <4>1
      <4>3. /\ InTurn({"note", "permission"})' = InTurn({"note", "permission"}) \union {consumed}
            /\ InTurn({"permission"})' = InTurn({"permission"}) \union {consumed}
        BY <2>3, <4>2
      <4>4. Raised => step' = "over" /\ outcome' = "failed"
        BY <1>10 DEF Raised, Over
      <4> QED BY <2>4, <2>5, <4>1, <4>3, <4>4
    <3>3. CASE Note
      <4>1. said[i].kind = "note" /\ handed' = Append(handed, consumed) /\ UNCHANGED answered
        BY <1>2, <1>10, <3>3 DEF Note
      <4>2. said[i].kind \in {"note", "permission"} /\ said[i].kind \notin {"permission"}
        BY <4>1
      <4>3. /\ InTurn({"note", "permission"})' = InTurn({"note", "permission"}) \union {consumed}
            /\ InTurn({"permission"})' = InTurn({"permission"})
        BY <2>3, <4>2
      <4> QED BY <2>4, <2>5, <4>1, <4>3
    <3> QED BY <3>1, <3>2, <3>3
  <2>7. HistoryOK'
    <3>1. turn' \in Nat \X Nat
      BY <1>2, <1>3, <2>2
    <3> QED BY <2>6, <3>1 DEF HistoryOK
  <2>8. turn'[1] <= turn'[2] /\ turn'[2] = consumed' /\ turn'[2] = Pieces' * i /\ i \in Nat
    BY <1>2, <1>3, <2>2
  <2>9. BeforeTurn' /\ DuringTurn'
    <3>1. step' \notin Handshake \union {"new"} /\ ~(step' = "prompt" /\ pc' = "call")
      BY <1>7, <1>10 DEF Moved, Handshake
    <3>2. consumed' < Pieces' * (i + 1)
      BY <1>3, <2>8
    <3> QED BY <2>8, <3>1, <3>2 DEF BeforeTurn, DuringTurn
  <2>10. TurnInv'
    <3>1. turn'[2] <= consumed'
      BY <1>3, <2>8
    <3> QED BY <2>6, <2>8, <2>9, <3>1 DEF TurnInv
  <2> QED BY <1>1, <1>p, <1>5, <1>6, <1>7, <1>8, <2>7, <2>10, TypeParts DEF Inv
<1> QED BY <1>9, <1>10

(* What it takes is no JSON. *)
LEMMA InvJunk == ASSUME Inv, Junk PROVE Inv'
<1> USE AcpClientAssumption DEF agent, caller, request, history
<1>1. /\ gone \in BOOLEAN /\ expired \in BOOLEAN
      /\ SaidOK /\ StreamOK /\ CallerOK /\ BetweenMessages /\ HistoryOK
  BY TypeParts DEF Inv
<1>2. /\ UNCHANGED <<framed, said, written, gone, fetched, handed, answered, turn>>
      /\ step # "over" /\ Raised /\ step' = "over" /\ consumed' = consumed + 2
  BY DEF Junk, Reading, Waiting, Raised, Over
<1>3. PICK i \in DOMAIN said : consumed' = Pieces * i /\ consumed' <= fetched
  BY TakesMessage DEF Inv, Junk
<1>4. CallerOK' /\ expired' \in BOOLEAN /\ Moved
  BY <1>1, <1>2, CallerMoves
<1>5. Pieces' = Pieces /\ Pieces \in {2, 4} /\ i \in Nat \ {0} /\ consumed \in Nat
  BY <1>1, <1>2, PiecesOf DEF Pieces, StreamOK, SaidOK
<1>6. consumed' \in Nat /\ (consumed' % Pieces) = 0 /\ consumed <= consumed'
  <2>1. (2 * i) % 2 = 0 /\ (4 * i) % 4 = 0
    BY <1>5
  <2> QED BY <1>2, <1>3, <1>5, <2>1
<1>7. StreamOK'
  BY <1>1, <1>2, <1>3, <1>5, <1>6 DEF StreamOK
<1>8. SaidOK' /\ HistoryOK' /\ BetweenMessages'
  BY <1>1, <1>2, <1>4 DEF SaidOK, HistoryOK, BetweenMessages, Moved
<1>9. TurnInv'
  BY <1>2, <1>4, <1>6, TurnKept
<1> QED BY <1>1, <1>2, <1>4, <1>7, <1>8, <1>9, TypeParts DEF Inv

-----------------------------------------------------------------------------
LEMMA InvStep == Inv /\ [Next]_vars => Inv'
<1>1. ASSUME Inv, UNCHANGED vars PROVE Inv'
  <2>1. UNCHANGED <<framed, said, written, gone, fetched, consumed, step, left, outcome,
                    pc, rid, expired, handed, answered, turn>>
    BY <1>1 DEF vars, agent, caller, request, history
  <2>2. consumed \in Nat /\ consumed <= consumed
    BY <1>1 DEF Inv, TypeOK
  <2>3. TurnInv'
    BY <1>1, <2>1, <2>2, TurnKept
  <2>4. TypeOK'
    BY <1>1, <2>1 DEF Inv, TypeOK, Pieces
  <2> QED BY <2>3, <2>4 DEF Inv
<1> QED BY <1>1, InvAgent, InvClient, InvTake, InvJunk DEF Next, Client

LEMMA InvHolds == Spec => []Inv
  BY InvInit, InvStep, PTL DEF Spec

(* The counters of the stream: nothing is taken that was not fetched, nor   *)
(* fetched that was not written, nor written that was not said; the reader  *)
(* stands at a piece of a message, and at the begin of one, with no rest of *)
(* the last, whenever the caller is between two requests.                   *)
THEOREM AcpTypeOK == Spec => []TypeOK
<1>1. Inv => TypeOK
  BY DEF Inv
<1> QED BY <1>1, InvHolds, PTL

(* The handlers of session/prompt get the updates and the permission        *)
(* requests of the turn, each once and in their order, and every permission *)
(* request has had one reply when the prompt has returned.                  *)
THEOREM AcpTurnComplete == Spec => []TurnComplete
<1>1. Inv => TurnComplete
  BY DEF Inv, TurnInv, TurnComplete, Outcomes
<1> QED BY <1>1, InvHolds, PTL
=============================================================================
