--------------------------- MODULE MCAuthzServer ----------------------------
(***************************************************************************)
(* A small server: an agent registered from DataDir, a caller that is not  *)
(* an agent yet, and policies of which two are versions of one name.       *)
(***************************************************************************)
EXTENDS AuthzServer

Read == <<"ticket", "read">>
Delete == <<"ticket", "delete">>

MCAgentId == {"bot", "aide"}

OneAgentId == {"bot"}

Manifest(type, capabilities, bindings) ==
    [id |-> "bot", type |-> type, namespace |-> "support",
     capabilities |-> capabilities, bindings |-> bindings]

Wide == Manifest("chat", {<<"ticket", "*">>}, {"bot"})
Narrow == Manifest("workflow", {Read}, {"bot", "aide"})

\* The type decides which policies select bot, the capabilities what it may ask,
\* the bindings who may have a session as bot: aide too, while it is narrow.
MCAgentSpec == {Wide, Narrow}

MCDataAgents == {Wide}

\* One permissive policy lets a grant live for one second; the deny policy is for
\* chat agents.
MCPolicyDef ==
    LET everyone == [allAgents |-> TRUE, agent |-> "", agentType |-> "", agentNamespace |-> ""]
        rule(effect, constraints) ==
            [effect |-> effect, actions |-> {<<"ticket", "*">>}, resources |-> {},
             conditions |-> <<>>, constraints |-> constraints, obligations |-> <<>>,
             approval |-> {}]
    IN  [wide |-> [name |-> "tickets", subject |-> everyone,
                   rules |-> <<rule("allow", <<>>)>>],
         short |-> [name |-> "tickets", subject |-> everyone,
                    rules |-> <<rule("allow", [expiresIn |-> {[n |-> 1, unit |-> "s"]}])>>],
         closed |-> [name |-> "lock",
                     subject |-> [everyone EXCEPT !.allAgents = FALSE, !.agentType = "chat"],
                     rules |-> <<rule("deny", <<>>)>>]]

MCPolicyId == {"short", "closed"}

\* Two policies of one name: each replaces the other.
TwoVersions == {"wide", "short"}

MCDataPolicies == {"short"}

Ask(action, delegated) ==
    [action |-> action, actor |-> {}, resource |-> {},
     context |-> [environment |-> "", owner |-> ""], delegationId |-> delegated,
     delegationScope |-> {{Read}}, now |-> [clock |-> 600, day |-> "mon"]]

OneRequest == {Ask(Delete, FALSE)}
=============================================================================
