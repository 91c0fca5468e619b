----------------------------- MODULE MCRuleScan -----------------------------
(***************************************************************************)
(* A library of policies for RuleScan.  Between them the rules use every   *)
(* effect, every resource selector field, every condition key, every       *)
(* constraint and obligation key, and each way a rule can be malformed.    *)
(***************************************************************************)
EXTENDS RuleScan

Read == <<"ticket", "read">>
Delete == <<"ticket", "delete">>

BaseRule(effect, actions) ==
    [effect |-> effect, actions |-> actions, resources |-> {}, conditions |-> <<>>,
     constraints |-> <<>>, obligations |-> <<>>, approval |-> {}]

Everyone == [allAgents |-> TRUE, agent |-> "", agentType |-> "", agentNamespace |-> ""]

Selector(types, max, envs, owners) ==
    {[types |-> types, classificationMax |-> max, environments |-> envs, owners |-> owners]}

Minutes(n) == {[n |-> n, unit |-> "m"]}

AnyTicket == {<<"ticket", "*">>}

\* Its list of fields shares one with that of NarrowRead and one with that of
\* ProductionRead, which share none.
ReadRecords ==
    <<[BaseRule("allow", AnyTicket) EXCEPT
          !.constraints = [maxRecords |-> {100}, redact |-> {{"email"}},
                           allowedFields |-> {{"status", "assignee"}}],
          !.obligations = [audit |-> {TRUE}]],
      [BaseRule("deny", {Delete}) EXCEPT !.conditions = [actorType |-> {"service"}]]>>

NarrowRead ==
    <<[BaseRule("allow", {Read}) EXCEPT
          !.conditions = [actorRequired |-> {TRUE}, actorGroups |-> {{"support"}}],
          !.constraints = [maxRecords |-> {25}, readonly |-> {TRUE},
                           allowedFields |-> {{"status", "priority"}},
                           expiresIn |-> {[n |-> 1, unit |-> "h"]}],
          !.obligations = [notify |-> {{"owner"}}, audit |-> {FALSE}]]>>

ProductionRead ==
    <<[BaseRule("allow", {<<"*">>}) EXCEPT
          !.conditions = [environment |-> {"production"}],
          !.constraints = [allowedFields |-> {{"assignee"}}, readonly |-> {FALSE},
                           timeWindowSeconds |-> {60}, expiresIn |-> Minutes(15)],
          !.obligations = [notify |-> {{"sec"}}, logFullRequest |-> {TRUE}]]>>

ApproveInternal ==
    <<[BaseRule("require_approval", {Delete}) EXCEPT
          !.resources = Selector({"ticket"}, "internal", {}, {"crm"}),
          !.approval = {[approvers |-> {"lead"}, expiresIn |-> Minutes(30)]}],
      [BaseRule("require_delegation", {Read}) EXCEPT
          !.resources = Selector({}, "", {"staging"}, {})]>>

\* One unknown condition beside one that may be unmet.
UnknownCondition ==
    <<[BaseRule("deny", AnyTicket) EXCEPT
          !.conditions = [actorType |-> {"user"}, riskScore |-> {"high"}]]>>

\* Constraints and obligations the evaluator does not know.
UnknownConstraint ==
    <<[BaseRule("allow", {Read}) EXCEPT
          !.conditions = [minAuthStrength |-> {"mfa"}],
          !.constraints = [maxRows |-> {10}]],
      [BaseRule("allow", {Delete}) EXCEPT !.obligations = [escalate |-> {TRUE}]]>>

OfficeHours ==
    <<[BaseRule("allow", AnyTicket) EXCEPT
          !.conditions = [timeWindow |-> {[after |-> {540}, before |-> {1020},
                                           daysOfWeek |-> {{"mon"}}]},
                          delegationRequired |-> {TRUE}]]>>

\* A resource selector outside the vocabulary, and a malformed condition value.
BadSelector ==
    <<[BaseRule("allow", {Delete}) EXCEPT
          !.resources = Selector({}, "", {"qa"}, {})],
      [BaseRule("allow", {Read}) EXCEPT !.conditions = [actorId |-> {}]]>>

MCPolicyDef ==
    [read |-> [subject |-> Everyone, rules |-> ReadRecords],
     narrow |-> [subject |-> [Everyone EXCEPT !.allAgents = FALSE, !.agent = "bot"],
                 rules |-> NarrowRead],
     production |-> [subject |-> Everyone, rules |-> ProductionRead],
     approve |-> [subject |-> Everyone, rules |-> ApproveInternal],
     unknown |-> [subject |-> Everyone, rules |-> UnknownCondition],
     badlimit |-> [subject |-> Everyone, rules |-> UnknownConstraint],
     hours |-> [subject |-> [allAgents |-> FALSE, agent |-> "",
                             agentType |-> "workflow", agentNamespace |-> "support"],
                rules |-> OfficeHours],
     badselector |-> [subject |-> Everyone, rules |-> BadSelector]]

MCPolicyId == DOMAIN MCPolicyDef

MCAgents ==
    {[id |-> "bot", type |-> "workflow", namespace |-> "support", capabilities |-> {<<"*">>}],
     [id |-> "aide", type |-> "chat", namespace |-> "support",
      capabilities |-> {<<"ticket", "*">>}]}

MCAgentId == {a.id : a \in MCAgents}

User == [type |-> "user", id |-> "alice", groups |-> {"support"}, authStrength |-> "mfa"]
Service == [type |-> "service", id |-> "cron", groups |-> {}, authStrength |-> ""]

Ticket(class, env) ==
    [type |-> "ticket", classification |-> class, environment |-> env, owner |-> "crm"]

MCRequest ==
    [action : {Read, Delete},
     actor : {{}, {User}, {Service}},
     resource : {{}, {Ticket("internal", "")}, {Ticket("restricted", "staging")}},
     context : {[environment |-> "production", owner |-> ""]},
     delegationId : BOOLEAN,
     delegationScope : {{}},
     now : {[clock |-> 600, day |-> "mon"]}]
=============================================================================
