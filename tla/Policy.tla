--------------------------------- MODULE Policy ---------------------------------
(***************************************************************************)
(* resolve(): from the repository's harness, the user's configuration and  *)
(* the caller's overrides, whether an agent may run, and if not how the    *)
(* refusal is raised.  Operators only; who reads the harness when is the   *)
(* business of the modules that use them.                                  *)
(*                                                                         *)
(* A harness is [state, profile, classification, permissions, sandbox,     *)
(* loop, default, agents, commands, deny, tables, functions,               *)
(* accountsDeny, accountsAllow]: agents are the ids of its table, commands *)
(* those that have a command, tables whether its other tables are well     *)
(* formed.  A user is [state, seats, accounts]: the agents each profile    *)
(* allows, and account records [kind, agent, personal, secret].  A list    *)
(* that is not there is the set of all ids, except where the code takes an *)
(* empty list for an absent one.                                           *)
(***************************************************************************)
EXTENDS Naturals, Sequences

None == ""

(* The substitute for a missing harness.toml. *)
MissingHarness(defaultProfile) ==
    [state |-> "missing", profile |-> defaultProfile, classification |-> "internal",
     permissions |-> "repo-only", sandbox |-> "repo-only", loop |-> "acp",
     default |-> None, agents |-> {}, commands |-> {}, deny |-> {}, tables |-> TRUE,
     functions |-> {}, accountsDeny |-> {}, accountsAllow |-> {}]

(* The modes that may write or run a shell. *)
WriteShellPermissions == {"repo-only", "ask", "plan"}

SandboxAllows(h) ==
    /\ h.sandbox \in {"none", "repo-only"}   \* a container is not implemented
    /\ ~(/\ h.classification = "customer" /\ h.sandbox = "none"
         /\ h.permissions \in WriteShellPermissions)

(* Faulty variant: nobody looks whose account it is. *)
AnyonesAccount(account) == FALSE

(* The account's id, profile or seat says personal. *)
Personal(account) == account.personal

(* A reference into the vault: well formed, inside it, and not empty. *)
SecretPresent(account) == account.secret = "present"

AccountAllowed(id, agent, h, u) ==
    /\ id \in DOMAIN u.accounts
    /\ LET account == u.accounts[id]
       IN /\ ~(h.classification = "customer" /\ Personal(account))
          /\ \/ account.kind = "api" /\ SecretPresent(account)
             \/ account.kind = "cli" /\ account.agent = agent
    /\ id \notin h.accountsDeny /\ id \in h.accountsAllow

NativeLoopAllows(id, h, u) ==
    h.loop = "native" => id \in DOMAIN u.accounts /\ u.accounts[id].kind = "api"

(* The checks of resolve in their order, each with what its failure raises: *)
(* "denied" and "unknown" are PolicyDenied and UnknownAgent, "unreachable"  *)
(* is a bare FailClosed, "broken" an error of the TOML parser.              *)
Checks(profileOverride, agentOverride, account, h, u) ==
    LET agent == IF agentOverride # None THEN agentOverride ELSE h.default
    IN << <<u.state # "unreachable", "unreachable">>,
          <<u.state # "broken", "broken">>,
          <<h.state # "unreachable", "unreachable">>,
          <<h.state # "broken", "broken">>,
          <<SandboxAllows(h), "denied">>,
          <<h.state # "missing", "unknown">>,
          <<profileOverride \in {None, h.profile}, "denied">>,
          <<~(h.classification = "customer" /\ h.profile = "personal"), "denied">>,
          <<agent # None, "unknown">>,
          <<agent \notin h.deny, "denied">>,
          <<agent \in h.agents, "unknown">>,
          <<h.profile \in DOMAIN u.seats => agent \in u.seats[h.profile], "denied">>,
          <<agent \in h.commands, "unknown">>,
          <<h.tables, "denied">>,
          <<account = None \/ AccountAllowed(account, agent, h, u), "denied">>,
          <<NativeLoopAllows(account, h, u), "denied">> >>

(* "ok", or what the first check that fails raises. *)
Resolve(profileOverride, agentOverride, account, h, u) ==
    LET checks == Checks(profileOverride, agentOverride, account, h, u)
        Fails(i) == ~checks[i][1]
    IN IF \A i \in DOMAIN checks : ~Fails(i) THEN "ok"
       ELSE checks[CHOOSE i \in DOMAIN checks : Fails(i) /\ \A k \in 1..(i - 1) : ~Fails(k)][2]

(* An empty allow list allows everything. *)
FunctionAllowed(name, h) == h.functions = {} \/ name \in h.functions

-----------------------------------------------------------------------------
(* The rules, as the documents state them: who may ever touch a repository. *)

(* "Customer repos never use a personal HOME or a personal account", nor no *)
(* sandbox where they write or run a shell.                                 *)
CustomerRule(account, h, u) ==
    h.classification = "customer" =>
       /\ h.profile # "personal"
       /\ account # None => ~u.accounts[account].personal
       /\ h.sandbox = "none" => h.permissions \notin WriteShellPermissions

(* A seat runs the agents it is given, and no account serves another agent *)
(* than its own or without its secret.                                     *)
SeatRule(agent, account, h, u) ==
    /\ agent \in h.commands \ h.deny
    /\ h.profile \in DOMAIN u.seats => agent \in u.seats[h.profile]
    /\ account # None => /\ account \in h.accountsAllow \ h.accountsDeny
                         /\ IF u.accounts[account].kind = "cli" THEN u.accounts[account].agent = agent
                            ELSE u.accounts[account].secret = "present"

Lawful(agentOverride, account, h, u) ==
    LET agent == IF agentOverride # None THEN agentOverride ELSE h.default
    IN /\ h.state = "file" /\ u.state = "file"
       /\ CustomerRule(account, h, u)
       /\ SeatRule(agent, account, h, u)
=============================================================================
