------------------------------ MODULE MCServices ------------------------------
(***************************************************************************)
(* The gateway's smaller services on one small instance each.  They share  *)
(* no state, so a behaviour is about one of them (`focus`) and the others  *)
(* stay in their initial states: the state space is the sum of theirs.     *)
(* The scopes of approvals take no steps: they are evaluated on every row  *)
(* and set of grants below.                                                *)
(***************************************************************************)
EXTENDS NotificationDispatch, SetupBootstrap, AgentTurn, ChatTurns, FolderTree,
        RateLimiter, Shutdown, Sessions, ApprovalScopes, TLC

VARIABLE
    focus       \* the service this behaviour is about

Services == {"dispatch", "setup", "turn", "chat", "folders", "limiter", "shutdown",
             "session", "scopes"}

vars == <<focus, dispatchVars, setupVars, turnVars, chatVars, folderVars,
          limiterVars, shutdownVars, sessionVars, scopesVars>>

-----------------------------------------------------------------------------
\* Notification policies: the default policy with a branch that continues.
Node(cp, kids, matchers, cont, default) ==
    [cp |-> cp, kids |-> kids, matchers |-> matchers, cont |-> cont, default |-> default]
TeamIs(op, teams) == {[label |-> "team", op |-> op, value |-> teams]}
Team(t) == [team |-> t]

MCTree == [root |-> Node("ops", <<"a", "b">>, {}, FALSE, TRUE),
           a    |-> Node("chat", <<>>, TeamIs("=", {"red"}), TRUE, FALSE),
           b    |-> Node("mail", <<>>, TeamIs("=~", {"red", "blue"}), FALSE, FALSE)]

\* One alert twice, one approval twice (the second user has a team the
\* policies do not know), and an approval nobody may give before an alert.
Red == [kind |-> "alert", fp |-> "f1", audience |-> <<<<Team("red")>>>>]
Plan == [kind |-> "approval", fp |-> "f2",
         audience |-> <<<<Team("blue")>>, <<Team("blue"), Team("none")>>>>]
Nobody == [kind |-> "approval", fp |-> "f3", audience |-> <<>>]
MCInboxes == {<<Red, Red>>, <<Plan, Plan>>, <<Nobody, Red>>}

\* Requests of two e-mail addresses.
MCEmailOf == [c1 |-> "x", c2 |-> "y", c3 |-> "x"]

\* The gateway's two hooks after one of a higher priority number.
MCHooks == <<"database", "http-server", "websocket-gateway">>
MCPriority == [database |-> 50] @@ ("http-server" :> 10) @@ ("websocket-gateway" :> 10)

\* The trees to start from, up to the names of folders: the first ones exist, each
\* at the top or under an earlier one.
MCRank == [f1 |-> 1, f2 |-> 2, f3 |-> 3]
FirstFolders ==
    \A f, g \in Folders :
        (MCRank[g] < MCRank[f] /\ parent[f] # Absent) => parent[g] \notin {Absent, f}

\* Two requests on the folders side by side, then one alone; one rule at a time.
FewRequests ==
    /\ (request[3] # request'[3] /\ request[3].pc = "idle") => UnderWay = {}
    /\ Cardinality(ruleIn') <= 1

\* Up to two grants: every well-formed shape, the placeholders of the fixed
\* roles, and malformed ones.
Scope(attribute, id) == <<"approvals", attribute>> \o id
SomeScopes ==
    {<<"">>, <<"*">>, <<"approvals">>, <<"approvals", "*">>, <<"approvals", "*", "*">>,
     Scope("uid", <<"a1">>), Scope("uid", <<"a2">>), Scope("uid", <<"">>),
     Scope("connector", <<"c1">>), Scope("connector", <<"c2">>), Scope("connector", <<"*">>),
     Scope("namespace", <<"c1", "n1">>), Scope("namespace", <<"c2", "n1">>),
     Scope("namespace", <<"c1">>), Scope("namespace", <<"*", "*">>),
     Scope("team", <<"t1">>), Scope("team", <<"t2">>), <<"folders", "*">>}
MCRow == [id |-> "a1", connector |-> "", namespace |-> "", team |-> ""]
MCRows == [id : {"a1"}, connector : {"", "c1"}, namespace : {"", "n1"}, team : {"", "t1"}]
MCGrantSets == {{g, h} : g, h \in SomeScopes} \cup {{}}

-----------------------------------------------------------------------------
\* The components a behaviour is not about start in one fixed state.
Init ==
    /\ focus \in Services
    /\ (focus # "dispatch" => inbox = <<Red, Red>>) /\ DispatchInit
    /\ (focus # "setup" => org = TRUE) /\ SetupInit
    /\ (focus # "turn" => hasFallback = FALSE) /\ TurnInit
    /\ ChatInit
    /\ (focus # "folders" =>
           toolUsed = FALSE /\ parent = [f \in Folders |-> Absent] /\ ruleIn = {})
    /\ FolderInit /\ FirstFolders /\ Cardinality(ruleIn) <= 1
    /\ LimiterInit
    /\ ShutdownInit
    /\ SessionInit
    /\ (focus # "scopes" => approval = MCRow /\ held = {}) /\ ScopesInit

\* A step of one service.
Of(service, step) ==
    /\ focus = service
    /\ step
    /\ UNCHANGED <<focus, scopesVars>>
    /\ service # "dispatch" => UNCHANGED dispatchVars
    /\ service # "setup"    => UNCHANGED setupVars
    /\ service # "turn"     => UNCHANGED turnVars
    /\ service # "chat"     => UNCHANGED chatVars
    /\ service # "folders"  => UNCHANGED folderVars
    /\ service # "limiter"  => UNCHANGED limiterVars
    /\ service # "shutdown" => UNCHANGED shutdownVars
    /\ service # "session"  => UNCHANGED sessionVars

Next ==
    \/ Of("dispatch", DispatchNext)
    \/ Of("setup", SetupNext)
    \/ Of("turn", TurnNext)
    \/ Of("chat", ChatNext)
    \/ Of("folders", FolderNext /\ FewRequests)
    \/ Of("limiter", LimiterNext)
    \/ Of("shutdown", ShutdownNext)
    \/ Of("session", SessionNext)

\* Each service's own fairness.
Fairness ==
    /\ \A c \in Calls : WF_vars(Of("setup", SetupStep(c)))
    /\ WF_vars(Of("turn", TurnStep))
    /\ WF_vars(Of("chat", AppendMoves))
    /\ \A t \in Turns : WF_vars(Of("chat", TurnMoves(t)))
    /\ WF_vars(Of("shutdown", ShutdownStep))

Spec == Init /\ [][Next]_vars /\ Fairness

-----------------------------------------------------------------------------
\* Every service's variables have their types.
ServicesTypeOK ==
    /\ DispatchTypeOK /\ SetupTypeOK /\ TurnTypeOK /\ ChatTypeOK /\ FolderTypeOK
    /\ LimiterTypeOK /\ ShutdownTypeOK /\ SessionTypeOK
=============================================================================
