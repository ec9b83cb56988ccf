------------------------------- MODULE MCGateway -------------------------------
EXTENDS Gateway, TLC
CONSTANTS sunday, later, r1, r2, t2
MCJobs == <<sunday, later>>
(* "* * * * 1-3,7" and "30 x * * *" *)
Every == <<Star(1)>>
MCSpec == sunday :> [minute |-> Every, hour |-> Every, day |-> Every, month |-> Every,
                     dow |-> <<Span(1, 3, 1), Number(7)>>]
          @@ later :> [minute |-> <<Number(30)>>, hour |-> <<Bad>>, day |-> Every,
                       month |-> Every, dow |-> Every]
(* A client that names an occurrence, and a webhook. *)
MCTask == r1 :> <<sunday, 1>> @@ r2 :> t2
(* Time 0 is Saturday 23:59. *)
MCEpoch == 5 * 1440 + 23 * 60 + 59
=============================================================================
