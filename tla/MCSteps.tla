--------------------------------- MODULE MCSteps ---------------------------------
EXTENDS Steps

(* Three steps: by the default agent with two functions, by an agent of its *)
(* own under an account, by the default agent with a subagent.              *)
Entry(id, agent, account, functions, subagents, needs) ==
    [id |-> id, ok |-> TRUE, agent |-> agent, account |-> account, needs |-> needs,
     functions |-> functions, subagents |-> subagents]
Steps3(third, n1, n2, n3) ==
    <<Entry("s1", None, None, <<"f", "g">>, <<>>, n1), Entry("s2", "b", "key", <<>>, <<>>, n2),
      Entry(third, None, None, <<>>, <<"b">>, n3)>>

(* Every graph with at most three needs, some with the unknown step s9 or   *)
(* with a step needed twice, a repeated id, an entry that does not parse,   *)
(* no steps, a pipeline.                                                    *)
NeedLists == UNION {[1..n -> {"s1", "s2", "s3"}] : n \in 0..2}
Graphs == {g \in NeedLists \X NeedLists \X (NeedLists \union {<<"s1", "s2", "s1">>, <<"s9">>}) :
              Len(g[1]) + Len(g[2]) + Len(g[3]) <= 3}
          \union {<< <<>>, <<"s1", "s1", "s3">>, <<"s1">> >>, << <<>>, <<"s3", "s1", "s1">>, <<"s1">> >>}
MCPlans ==
    {[kind |-> "workflow", steps |-> Steps3("s3", g[1], g[2], g[3])] : g \in Graphs}
    \union {[kind |-> k, steps |-> steps] :
              k \in {"workflow", "pipeline"},
              steps \in {Steps3("s3", <<>>, <<>>, <<>>), Steps3("s1", <<>>, <<>>, <<>>), <<>>,
                         [Steps3("s3", <<>>, <<>>, <<>>) EXCEPT ![2].ok = FALSE]}}

Open == [state |-> "file", profile |-> "work", classification |-> "internal",
         permissions |-> "repo-only", sandbox |-> "repo-only", loop |-> "acp", default |-> "a",
         agents |-> {"a", "b"}, commands |-> {"a", "b"}, deny |-> {}, tables |-> TRUE,
         functions |-> {}, accountsDeny |-> {}, accountsAllow |-> {"key"}]
MCHarnessOf ==
    [open |-> Open,
     noB |-> [Open EXCEPT !.deny = {"b"}],
     onlyF |-> [Open EXCEPT !.functions = {"f"}],
     customer |-> [Open EXCEPT !.classification = "customer"],
     shell |-> [Open EXCEPT !.classification = "customer", !.sandbox = "none"],
     native |-> [Open EXCEPT !.loop = "native"],
     down |-> [Open EXCEPT !.state = "unreachable"],
     broken |-> [Open EXCEPT !.state = "broken"],
     missing |-> MissingHarness("work")]
MCEditable == DOMAIN MCHarnessOf
MCUser == [state |-> "file", seats |-> [work |-> {"a", "b"}],
           accounts |-> [key |-> [kind |-> "api", agent |-> None, personal |-> TRUE,
                                  secret |-> "present"]]]
=============================================================================
