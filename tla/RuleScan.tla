------------------------------ MODULE RuleScan ------------------------------
(***************************************************************************)
(* evaluateRules (engine/evaluator/evaluator.go) as a state machine: the   *)
(* scan of every rule of every policy selected for an agent, in the order  *)
(* of the slice PoliciesForAgent returned, and the final combination.      *)
(*                                                                         *)
(* Two orders are left open by the code and are chosen here without        *)
(* restriction: the order of the policies (the memory store ranges over a  *)
(* Go map) and the order of the conditions of a rule (see PolicyEval).     *)
(***************************************************************************)
EXTENDS PolicyEval

CONSTANTS
    Request,     \* the requests to evaluate
    Agents,      \* the agents they are evaluated for
    MaxStored    \* bound: policies in the store at once

ASSUME PolicyIdFinite == IsFiniteSet(PolicyId)

\* A policy's rules are a finite list, possibly empty.
ASSUME RulesAreLists == \A p \in PolicyId : NumRules(p) \in Nat

\* A policy's constraints were decoded from JSON: a key has one value, {} if it
\* is not of the key's type.
ASSUME ConstraintsAreDecoded ==
    \A x \in Positions(PolicyId) :
        LET c == RuleAt(x).constraints
        IN  /\ \A key \in ConstraintKeys : \A v, w \in entry(c, key) : v = w
            /\ entry(c, "maxRecords") \cup entry(c, "timeWindowSeconds") \subseteq Int
            /\ \A v \in entry(c, "expiresIn") : v.n \in Nat

VARIABLES
    req,              \* the request under evaluation
    agent,            \* the agent it is evaluated for
    policies,         \* the selected policies, in the order they are scanned
    i, j,             \* the next rule: rule j of policies[i]
    matchedDeny,      \* the rules matched so far, in scan order
    matchedApproval,
    matchedAllow,
    decision,         \* baseDec.Decision, "none" until it is taken
    dec               \* the rest of baseDec: what goes with the decision

input == <<req, agent, policies>>
matched == <<matchedDeny, matchedApproval, matchedAllow>>
result == <<decision, dec>>
vars == <<input, i, j, matched, result>>

Nothing == [policyIds |-> {}, approval |-> {}, constraints |-> {}, obligations |-> {}]

Selected == {policies[n] : n \in 1..Len(policies)}

\* Every order of a set of policies.
Orders(ps) ==
    {s \in [1..Cardinality(ps) -> ps] : \A m, n \in DOMAIN s : m # n => s[m] # s[n]}

\* PoliciesForAgent: the policies whose subject selects the agent.  Evaluate
\* denies before the scan when there are none.
PoliciesForAgent(a) == {p \in PolicyId : MatchesAgent(p, a)}

Init ==
    /\ req \in Request
    /\ agent \in Agents
    /\ \E stored \in SUBSET PolicyId :
          /\ Cardinality(stored) <= MaxStored
          /\ policies \in Orders(PoliciesForAgent(agent) \cap stored)
    /\ policies # <<>>
    /\ i = 1
    /\ j = 1
    /\ matchedDeny = <<>>
    /\ matchedApproval = <<>>
    /\ matchedAllow = <<>>
    /\ decision = "none"
    /\ dec = Nothing

Scanning == decision = "none" /\ i \in 1..Len(policies)

Here == <<policies[i], j>>

AtRule == Scanning /\ j \in 1..NumRules(policies[i])

SkipRule ==
    /\ AtRule
    /\ "skip" \in RuleOutcomes(RuleAt(Here), req)
    /\ j' = j + 1
    /\ UNCHANGED <<input, i, matched, result>>

\* An invalid rule ends the evaluation with a denial that names its policy.
FailRule ==
    /\ AtRule
    /\ "error" \in RuleOutcomes(RuleAt(Here), req)
    /\ decision' = "deny"
    /\ dec' = [Nothing EXCEPT !.policyIds = {policies[i]}]
    /\ UNCHANGED <<input, i, j, matched>>

\* Faults: only the first match of a kind is kept; the position is taken after
\* j has moved on.
MutRecordFirstOnly(list, kind) ==
    IF list = <<>> /\ matchKind(RuleAt(Here), req) = kind THEN <<Here>> ELSE list

MutRecordOffByOne(list, kind) ==
    IF matchKind(RuleAt(Here), req) = kind THEN Append(list, <<policies[i], j + 1>>) ELSE list

Record(list, kind) ==
    IF matchKind(RuleAt(Here), req) = kind THEN Append(list, Here) ELSE list

MatchRule ==
    /\ AtRule
    /\ "match" \in RuleOutcomes(RuleAt(Here), req)
    /\ matchedDeny' = Record(matchedDeny, "deny")
    /\ matchedApproval' = Record(matchedApproval, "approval")
    /\ matchedAllow' = Record(matchedAllow, "allow")
    /\ j' = j + 1
    /\ UNCHANGED <<input, i, result>>

NextPolicy ==
    /\ Scanning
    /\ j > NumRules(policies[i])
    /\ i' = i + 1
    /\ j' = 1
    /\ UNCHANGED <<input, matched, result>>

collectPolicyIDs(list) == {list[n][1] : n \in 1..Len(list)}

\* Approvers, and the expiry in seconds, of the first matched approval rule.
ApprovalOf(rule) ==
    {[approvers |-> a.approvers,
      expiresInSeconds |-> IF a.expiresIn = {} THEN 0
                           ELSE parseDurationSeconds(CHOOSE d \in a.expiresIn : TRUE)] :
        a \in rule.approval}

\* Fault: an allow rule is honoured before approval is looked at.
MutCombinationAllowFirst ==
    IF matchedDeny # <<>> THEN "deny"
    ELSE IF matchedAllow # <<>> THEN "allow"
    ELSE IF matchedApproval # <<>> THEN "require_approval"
    ELSE "deny"

\* Deny overrides approval, approval overrides allow, nothing matched denies.
Combination ==
    IF matchedDeny # <<>> THEN "deny"
    ELSE IF matchedApproval # <<>> THEN "require_approval"
    ELSE IF matchedAllow = <<>> THEN "deny"
    ELSE IF mergeConstraints(matchedAllow) = {} THEN "allow"
    ELSE "allow_with_constraints"

\* What the decision carries: the policies of the list that decided, and the
\* approval, or the constraints and obligations, of that list's rules.
Attachments ==
    IF matchedDeny # <<>>
    THEN [Nothing EXCEPT !.policyIds = collectPolicyIDs(matchedDeny)]
    ELSE IF matchedApproval # <<>>
    THEN [Nothing EXCEPT !.policyIds = collectPolicyIDs(matchedApproval),
                         !.approval = ApprovalOf(RuleAt(matchedApproval[1]))]
    ELSE [policyIds |-> collectPolicyIDs(matchedAllow),
          approval |-> {},
          constraints |-> mergeConstraints(matchedAllow),
          obligations |-> mergeObligations(matchedAllow)]

Decide ==
    /\ decision = "none"
    /\ i > Len(policies)
    /\ decision' = Combination
    /\ dec' = Attachments
    /\ UNCHANGED <<input, i, j, matched>>

Done == decision # "none" /\ UNCHANGED vars

Next == SkipRule \/ FailRule \/ MatchRule \/ NextPolicy \/ Decide \/ Done

Spec == Init /\ [][Next]_vars

-----------------------------------------------------------------------------
(* Properties. *)

\* The types of the evaluator's locals: the scan never indexes outside the
\* policies it was given, and what it matched are rules it has.
TypeOK ==
    /\ req \in Request /\ agent \in Agents
    /\ policies \in Seq(PolicyId)
    /\ i \in 1..(Len(policies) + 1)
    /\ j \in Nat \ {0}
    /\ matchedDeny \in Seq(Positions(PolicyId))
    /\ matchedApproval \in Seq(Positions(PolicyId))
    /\ matchedAllow \in Seq(Positions(PolicyId))
    /\ decision \in RuleDecisions \cup {"none"}

Elements(list) == {list[n] : n \in 1..Len(list)}

\* The rules the scan has passed.
Scanned ==
    {x \in Positions(PolicyId) :
        \E m \in 1..Len(policies) :
            x[1] = policies[m] /\ (m < i \/ (m = i /\ x[2] < j))}

\* The loop invariant of evaluateRules: no rule passed so far is an error in
\* every order of its conditions, and the three lists hold exactly the rules
\* passed that match, by kind.
ScanInvariant ==
    decision = "none" =>
        /\ \A x \in Scanned : RuleOutcomes(RuleAt(x), req) # {"error"}
        /\ Elements(matchedDeny) = Matched(req, PolicyId, "deny") \cap Scanned
        /\ Elements(matchedApproval) = Matched(req, PolicyId, "approval") \cap Scanned
        /\ Elements(matchedAllow) = Matched(req, PolicyId, "allow") \cap Scanned

\* evaluateRules returns, in whatever order the store lists the policies, one
\* of the decisions the set of policies determines: denied by an applicable
\* deny rule or an invalid rule, else held for approval, else allowed, else
\* denied by default.
DecisionIsReference ==
    decision # "none" => decision \in RuleVerdicts(req, Selected)

\* A rule a policy author would say applies: its action, its resource selector
\* and each of its conditions hold.
Applies(rule) ==
    /\ actionMatches(rule.actions, req.action)
    /\ resourceMatches(rule.resources, req)
    /\ \A k \in DOMAIN rule.conditions :
          conditionOutcomes(k, rule.conditions[k], req) = {"met"}

\* An allow decision is justified rule by rule: some applicable allow rule
\* exists, and no applicable rule of any selected policy denies, asks for
\* approval or for an absent actor, or carries a constraint or obligation the
\* evaluator does not understand.
AllowIsJustified ==
    decision \in AllowDecisions =>
        LET applicable == {x \in Positions(Selected) : Applies(RuleAt(x))}
        IN  /\ \E x \in applicable : RuleAt(x).effect = "allow"
            /\ \A x \in applicable :
                  /\ RuleAt(x).effect \notin {"deny", "require_approval"}
                  /\ RuleAt(x).effect = "require_delegation" => req.actor # {}
                  /\ validateResources(RuleAt(x).resources)
                  /\ validateConstraints(RuleAt(x).constraints)
                  /\ validateObligations(RuleAt(x).obligations)

\* Constraint record c lets through nothing that the constraints of a rule
\* forbid.
AsStrictAs(c, rc) ==
    /\ \A v \in entry(rc, "maxRecords") : \E n \in c.maxRecords : n <= v
    /\ TRUE \in entry(rc, "readonly") => c.readonly = {TRUE}
    /\ \A v \in entry(rc, "redact") : v \subseteq c.redact
    /\ \A v \in entry(rc, "timeWindowSeconds") : \E n \in c.timeWindowSeconds : n <= v
    /\ \A v \in entry(rc, "allowedFields") : \E f \in c.allowedFields : f \subseteq v
    /\ \A v \in entry(rc, "expiresIn") :
          \E n \in c.expiresInSeconds : n <= parseDurationSeconds(v)

\* "Strictest wins" (engine/model/decision.go): the constraints attached to an
\* allow are at least as strict as those of every allow rule that applies, and
\* no obligation of such a rule is dropped.
StrictestWins ==
    decision \in AllowDecisions =>
        \A x \in Matched(req, Selected, "allow") :
            /\ DOMAIN RuleAt(x).constraints # {} =>
                  \E c \in dec.constraints : AsStrictAs(c, RuleAt(x).constraints)
            /\ \A v \in entry(RuleAt(x).obligations, "notify") :
                  \E o \in dec.obligations : v \subseteq o.notify
            /\ TRUE \in entry(RuleAt(x).obligations, "audit") =>
                  \E o \in dec.obligations : o.audit

\* The attachments an allow owes to the set xs of the rules that allow.
AllowOf(xs) ==
    LET cs == {RuleAt(x).constraints : x \in xs}
        os == {RuleAt(x).obligations : x \in xs}
    IN  [policyIds |-> {x[1] : x \in xs},
         approval |-> {},
         constraints |-> IF \A c \in cs : DOMAIN c = {} THEN {} ELSE {strictest(cs)},
         obligations |-> IF \A o \in os : DOMAIN o = {} THEN {}
                         ELSE {[audit |-> TRUE \in given(os, "audit"),
                                logFullRequest |-> TRUE \in given(os, "logFullRequest"),
                                notify |-> UNION given(os, "notify")]}]

\* "Every evaluation is deterministic" (engine/README.md:80), down to what goes
\* with the decision: no order of the policies or of the merge shows in it.  A denial
\* names the policies that deny, or one with an invalid rule; an allow carries
\* exactly the constraints and obligations of the set of rules that allow, no
\* looser and no stricter.  Only which approval rule's approvers are asked, of
\* several that match, is left to the order.
AttachmentsAreReference ==
    LET match(kind) == Matched(req, Selected, kind)
        policiesOf(kind) == {x[1] : x \in match(kind)}
    IN  /\ decision = "deny" =>
              \/ dec = [Nothing EXCEPT !.policyIds = policiesOf("deny")]
              \/ \E x \in Positions(Selected) :
                    /\ "error" \in RuleOutcomes(RuleAt(x), req)
                    /\ dec = [Nothing EXCEPT !.policyIds = {x[1]}]
        /\ decision = "require_approval" =>
              \E x \in match("approval") :
                  dec = [Nothing EXCEPT !.policyIds = policiesOf("approval"),
                                        !.approval = ApprovalOf(RuleAt(x))]
        /\ decision \in AllowDecisions => dec = AllowOf(match("allow"))

\* The comment of conditionsMet: "Unknown or malformed conditions are policy
\* errors and fail closed".  A rule that names the action and the resource and
\* holds a malformed condition must deny the request.
MalformedConditionFailsClosed ==
    decision # "none" =>
        \A x \in Positions(Selected) :
            LET r == RuleAt(x) IN
            /\ actionMatches(r.actions, req.action)
            /\ resourceMatches(r.resources, req)
            /\ \E k \in DOMAIN r.conditions : ~wellFormedCondition(k, r.conditions[k])
            => decision = "deny"

\* How far that comment is right: a malformed condition denies the request in
\* every order if no condition of its rule is unmet.
MalformedAloneFailsClosed ==
    decision # "none" =>
        \A x \in Positions(Selected) :
            LET r == RuleAt(x) IN
            /\ actionMatches(r.actions, req.action)
            /\ resourceMatches(r.resources, req)
            /\ \E k \in DOMAIN r.conditions : ~wellFormedCondition(k, r.conditions[k])
            /\ \A k \in DOMAIN r.conditions :
                  "unmet" \notin conditionOutcomes(k, r.conditions[k], req)
            => decision = "deny"

\* The comment of model.Constraints, "Allowed fields: intersection", for the
\* reader the constraints are meant for: what a resource API reads from the
\* verified grant is as strict as every allow rule that applied.
GrantKeepsConstraints ==
    decision = "allow_with_constraints" =>
        \A x \in Matched(req, Selected, "allow") :
            DOMAIN RuleAt(x).constraints # {} =>
                \E c \in grantConstraints(dec.constraints) :
                    AsStrictAs(c, RuleAt(x).constraints)

\* How far it is right: the grant keeps every constraint of every allow rule that
\* applied, if the rules that name fields have a field in common.
GrantKeepsSharedFields ==
    LET allow == Matched(req, Selected, "allow")
        lists == given({RuleAt(x).constraints : x \in allow}, "allowedFields")
    IN  /\ decision = "allow_with_constraints"
        /\ lists # {} => \E f \in UNION lists : \A g \in lists : f \in g
        => \A x \in allow :
               DOMAIN RuleAt(x).constraints # {} =>
                   \E c \in grantConstraints(dec.constraints) :
                       AsStrictAs(c, RuleAt(x).constraints)
=============================================================================
