-------------------------- MODULE MCRuntimeDecision ---------------------------
(***************************************************************************)
(* A small instance of RuntimeDecision for TLC: an agent that reads,       *)
(* updates and deletes customers and sends mail, and contracts with a      *)
(* limit, a workflow, a destination list, or a clause nobody can verify.   *)
(***************************************************************************)
EXTENDS RuntimeDecision

Request(kind, action, destination, claims) ==
    [kind |-> kind, action |-> action, scope |-> "customers", destination |-> destination,
     fields |-> {"name"}, size |-> 1, claims |-> claims]

Read == Request("crm", "READ", None, None)
Update == Request("crm", "UPDATE", "internal", None)
Delete == Request("crm", "DELETE", "external", "k1")
Send == Request("gmail", "SEND", "external", None)

MCRequests == {Read, Update, Delete, Send}

Selector(kind, action) ==
    [kind |-> kind, action |-> action, scope |-> Any, destination |-> Any]

Permission(effect, kind, action) ==
    [effect |-> effect, kind |-> kind, action |-> action, scope |-> Any]

MCInitialPermissions == {Permission("allow", {"crm"}, Any), Permission("allow", {"gmail"}, {"SEND"})}
MCMorePermissions == {Permission("deny", {"crm"}, {"UPDATE"})}

Policy(action, destination, decision) ==
    [kind |-> Any, action |-> action, scope |-> Any, destination |-> destination,
     decision |-> decision]

MCPolicies == {Policy({"DELETE", "SEND"}, {"external"}, "APPROVAL"), Policy({"DELETE"}, Any, "BLOCK")}

Plain ==
    [id |-> "k1", version |-> 1, verifiable |-> TRUE,
     capabilities |-> {[name |-> <<"crm">>, kind |-> None, actions |-> {"READ", "UPDATE", "DELETE"}],
                       [name |-> <<"gmail", "SEND">>, kind |-> None, actions |-> None]},
     resources |-> {[kind |-> "crm", scope |-> Any, identifier |-> None, destination |-> Any],
                    [kind |-> "gmail", scope |-> Any, identifier |-> {"customers"},
                     destination |-> {"internal"}]},
     deny |-> {}, allow |-> None, maxBytes |-> None, maxCalls |-> None,
     deniedFields |-> {}, allowedFields |-> None, workflow |-> None, rules |-> {}]

HumanForUpdates == {[kind |-> "crm", action |-> "UPDATE", decision |-> None]}

\* At most two calls, and updates need a human.
Limited == [Plain EXCEPT !.version = 2, !.maxCalls = 2, !.rules = HumanForUpdates]

\* Read, then update or delete; delete ends it.  Two steps match a read.
Ordered ==
    [Plain EXCEPT !.version = 3, !.rules = HumanForUpdates,
        !.workflow = [steps |-> [look |-> Selector("crm", "READ"), again |-> Selector("crm", "READ"),
                                 change |-> Selector("crm", "UPDATE"), drop |-> Selector("crm", "DELETE")],
                      initial |-> {"look"}, terminal |-> {"drop"},
                      transitions |-> {<<"look", "change">>, <<"look", "again">>, <<"again", "drop">>,
                                       <<"look", "drop">>, <<"change", "drop">>}]]

\* Small requests without a name, inside the house.
Narrow == [Plain EXCEPT !.id = "k2", !.allow = {"internal"}, !.deniedFields = {"secret"},
                        !.maxBytes = 1, !.allowedFields = {"name"}]

Unverifiable == [Plain EXCEPT !.version = 4, !.verifiable = FALSE]

MCContracts == {Plain, Limited, Ordered, Narrow, Unverifiable}

MCPatterns ==
    {[type |-> "SEQUENCE", count |-> 0, window |-> None,
      steps |-> <<[kind |-> {"crm"}, action |-> {"READ"}, scope |-> Any, destination |-> Any],
                  [kind |-> Any, action |-> {"DELETE", "SEND"}, scope |-> Any, destination |-> {"external"}]>>],
     [type |-> "THRESHOLD", count |-> 2, window |-> 3,
      steps |-> <<[kind |-> {"crm"}, action |-> {"UPDATE", "READ"}, scope |-> Any, destination |-> Any]>>]}

\* The policies all on or all off at first, and the mailbox granted: the other
\* combinations are one change away.
MCInit == Init /\ enabled \in {{}, Policies} /\ mailbox

MCSpec == MCInit /\ [][Next]_vars
=============================================================================
