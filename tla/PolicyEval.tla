----------------------------- MODULE PolicyEval -----------------------------
(***************************************************************************)
(* The pure part of the built-in policy evaluator: which policies select   *)
(* an agent, which rules apply to a request, which rules are policy errors,*)
(* and how the constraints and obligations of the matched allow rules are  *)
(* merged (engine/evaluator/evaluator.go, constraints.go and               *)
(* engine/model/policy.go).                                                *)
(*                                                                         *)
(* Representation.  A Go pointer, or a value whose dynamic type may be     *)
(* wrong, is a set with at most one element: {} is nil (or malformed) and  *)
(* {v} is v.  An action name is the sequence of its dot-separated segments.*)
(* A Go string slice whose order and repetitions nothing reads is a set.   *)
(* A rule is named by its position <<p, k>>: rule k of policy p.           *)
(***************************************************************************)
EXTENDS Integers, Sequences, FiniteSets

CONSTANTS
    AgentId,     \* identifiers of agents
    PolicyId,    \* identifiers of policies
    PolicyDef    \* PolicyDef[p]: the subject selector and the rules of p

-----------------------------------------------------------------------------
(* Vocabulary of the engine/model package. *)

AllowDecisions == {"allow", "allow_with_constraints"}

RuleDecisions == AllowDecisions \cup {"deny", "require_approval"}

ConditionKeys == {"actorRequired", "actorType", "actorId", "actorGroups",
                  "environment", "minAuthStrength", "timeWindow",
                  "delegationRequired"}

ConstraintKeys == {"readonly", "maxRecords", "timeWindowSeconds", "redact",
                   "allowedFields", "expiresIn"}

ObligationKeys == {"audit", "logFullRequest", "notify"}

NumRules(p) == Len(PolicyDef[p].rules)

Positions(ps) == UNION {{<<p, k>> : k \in 1..NumRules(p)} : p \in ps}

RuleAt(x) == PolicyDef[x[1]].rules[x[2]]

-----------------------------------------------------------------------------
(* Selection of policies and rules. *)

\* The selector's fields are alternatives: the first that matches decides.
MatchesAgent(p, agent) ==
    LET s == PolicyDef[p].subject
    IN  \/ s.allAgents
        \/ s.agent # "" /\ s.agent = agent.id
        \/ s.agentType # "" /\ s.agentType = agent.type
        \/ s.agentNamespace # "" /\ s.agentNamespace = agent.namespace

\* A pattern is "*", an action name, or "prefix.*".
patternMatches(pattern, action) ==
    LET n == Len(pattern)
    IN  \/ pattern = <<"*">>
        \/ pattern = action
        \/ /\ n > 1
           /\ pattern[n] = "*"
           /\ Len(action) >= n
           /\ \A i \in 1..(n - 1) : action[i] = pattern[i]

actionMatches(ruleActions, action) ==
    \E pattern \in ruleActions : patternMatches(pattern, action)

agentCanPerform(agent, action) ==
    \E capability \in agent.capabilities : patternMatches(capability, action)

\* No scope, or a scope that is not a list of strings, covers nothing.
delegationCoversAction(req) ==
    \E scope \in req.delegationScope : scope \cap {<<"*">>, req.action} # {}

classificationRank(c) ==
    CASE c = "public" -> 0
      [] c = "internal" -> 1
      [] c = "confidential" -> 2
      [] c = "restricted" -> 3
      [] OTHER -> -1

authStrengthRank(s) ==
    CASE s \in {"", "none"} -> 0
      [] s = "password" -> 1
      [] s = "mfa" -> 2
      [] s = "phishing_resistant_mfa" -> 3
      [] OTHER -> -1

validateResources(selector) ==
    \A s \in selector :
        /\ s.classificationMax = "" \/ classificationRank(s.classificationMax) >= 0
        /\ s.environments \subseteq {"development", "staging", "production"}

\* The resource's own field, else the request context's, else "".
fromResourceOrContext(req, field) ==
    IF \E r \in req.resource : r[field] # ""
    THEN (CHOOSE r \in req.resource : TRUE)[field]
    ELSE req.context[field]

requestEnvironment(req) == fromResourceOrContext(req, "environment")

requestResourceOwner(req) == fromResourceOrContext(req, "owner")

resourceMatches(selector, req) ==
    \A s \in selector :
        /\ s.types # {} => \E r \in req.resource : r.type \in s.types
        /\ s.classificationMax # "" =>
              \E r \in req.resource :
                  /\ classificationRank(r.classification) >= 0
                  /\ classificationRank(r.classification)
                        <= classificationRank(s.classificationMax)
        /\ s.environments # {} =>
              requestEnvironment(req) \in s.environments \ {""}
        /\ s.owners # {} => requestResourceOwner(req) \in s.owners \ {""}

-----------------------------------------------------------------------------
(* Conditions.  conditionsMet and timeWindowMatches range over a Go map and *)
(* return at the first entry that is unmet or malformed; Go leaves the      *)
(* order of the entries open, so their result is any of those entries'.     *)

\* Fault: a malformed entry counts as an unmet one.
MutFirstFailureUnmet(outcomes) == IF outcomes \subseteq {"met"} THEN {"met"} ELSE {"unmet"}

firstFailure(outcomes) == IF outcomes \subseteq {"met"} THEN {"met"} ELSE outcomes \ {"met"}

\* Clock values are minutes of the day; {} is a value that does not parse.
timeWindowEntry(key, value, now) ==
    IF key \notin {"after", "before", "daysOfWeek"} \/ value = {} THEN "error"
    ELSE IF \A v \in value : CASE key = "after" -> now.clock >= v
                               [] key = "before" -> now.clock <= v
                               [] key = "daysOfWeek" -> now.day \in v
         THEN "met" ELSE "unmet"

timeWindowMatches(window, now) ==
    firstFailure({timeWindowEntry(k, window[k], now) : k \in DOMAIN window})

\* A well-formed condition value v holds of the request.
conditionHolds(key, v, req) ==
    CASE key = "actorRequired" -> v => req.actor # {}
      [] key = "actorType" -> \E a \in req.actor : a.type = v
      [] key = "actorId" -> \E a \in req.actor : a.id = v
      [] key = "actorGroups" -> \E a \in req.actor : a.groups \cap v # {}
      [] key = "environment" -> requestEnvironment(req) = v
      [] key = "minAuthStrength" ->
            \E a \in req.actor : authStrengthRank(a.authStrength) >= authStrengthRank(v)
      [] key = "delegationRequired" -> v => req.delegationId

wellFormedCondition(key, value) ==
    /\ key \in ConditionKeys
    /\ value # {}
    /\ key = "minAuthStrength" => \A v \in value : authStrengthRank(v) >= 0

conditionOutcomes(key, value, req) ==
    IF ~wellFormedCondition(key, value) THEN {"error"}
    ELSE IF key = "timeWindow" THEN UNION {timeWindowMatches(w, req.now) : w \in value}
    ELSE IF \A v \in value : conditionHolds(key, v, req) THEN {"met"} ELSE {"unmet"}

conditionsMet(rule, req) ==
    firstFailure(UNION {conditionOutcomes(k, rule.conditions[k], req) :
                            k \in DOMAIN rule.conditions})

-----------------------------------------------------------------------------
(* Constraints and obligations. *)

\* A duration is a count and a unit; an unknown unit parses to 0 seconds.
parseDurationSeconds(d) ==
    CASE d.unit = "s" -> d.n
      [] d.unit = "m" -> d.n * 60
      [] d.unit = "h" -> d.n * 3600
      [] OTHER -> 0

validateConstraints(constraints) ==
    \A key \in DOMAIN constraints :
        /\ key \in ConstraintKeys
        /\ \E v \in constraints[key] :
              CASE key = "readonly" -> TRUE
                [] key \in {"maxRecords", "timeWindowSeconds"} -> v > 0
                [] key \in {"redact", "allowedFields"} -> v # {}
                [] key = "expiresIn" -> parseDurationSeconds(v) > 0

validateObligations(obligations) ==
    \A key \in DOMAIN obligations :
        /\ key \in ObligationKeys
        /\ \E v \in obligations[key] : key = "notify" => v # {}

\* The entry of a constraint or obligation map, {} when the key is absent.
entry(map, key) == IF key \in DOMAIN map THEN map[key] ELSE {}

\* Fault: the last matching rule wins.
MutMinimumLastWins(old, new) == IF new = {} THEN old ELSE new

minimum(old, new) == LET s == old \cup new IN {x \in s : \A y \in s : x <= y}

noConstraints ==
    [maxRecords |-> {}, readonly |-> {}, redact |-> {}, timeWindowSeconds |-> {},
     allowedFields |-> {}, expiresInSeconds |-> {}]

\* Fault: the fields of either list are kept.
MutIntersectStringsUnion(left, right) == {f \cup g : f \in left, g \in right}

intersectStrings(left, right) == {f \cap g : f \in left, g \in right}

\* Fault: a rule that names no fields is taken to allow none.
MutMergeRuleConstraintsNoFields(merged, c) ==
    [maxRecords |-> minimum(merged.maxRecords, entry(c, "maxRecords")),
     readonly |-> LET both == merged.readonly \cup entry(c, "readonly")
                  IN  IF TRUE \in both THEN {TRUE} ELSE both,
     redact |-> merged.redact \cup UNION entry(c, "redact"),
     timeWindowSeconds |->
         minimum(merged.timeWindowSeconds, entry(c, "timeWindowSeconds")),
     allowedFields |->
         IF merged.allowedFields = {} THEN entry(c, "allowedFields")
         ELSE {f \cap UNION entry(c, "allowedFields") : f \in merged.allowedFields},
     expiresInSeconds |->
         minimum(merged.expiresInSeconds,
                 {parseDurationSeconds(d) : d \in entry(c, "expiresIn")})]

\* One iteration of the loop of mergeConstraints.
mergeRuleConstraints(merged, c) ==
    [maxRecords |-> minimum(merged.maxRecords, entry(c, "maxRecords")),
     readonly |-> LET both == merged.readonly \cup entry(c, "readonly")
                  IN  IF TRUE \in both THEN {TRUE} ELSE both,
     redact |-> merged.redact \cup UNION entry(c, "redact"),
     timeWindowSeconds |->
         minimum(merged.timeWindowSeconds, entry(c, "timeWindowSeconds")),
     allowedFields |->
         IF merged.allowedFields = {} \/ entry(c, "allowedFields") = {}
         THEN merged.allowedFields \cup entry(c, "allowedFields")
         ELSE intersectStrings(merged.allowedFields, entry(c, "allowedFields")),
     expiresInSeconds |->
         minimum(merged.expiresInSeconds,
                 {parseDurationSeconds(d) : d \in entry(c, "expiresIn")})]

\* {} when no matched rule carries constraints, else the merged record.
mergeConstraints(matches) ==
    LET c(n) == RuleAt(matches[n]).constraints
        merged[n \in 0..Len(matches)] ==
            IF n = 0 THEN noConstraints ELSE mergeRuleConstraints(merged[n - 1], c(n))
    IN  IF \A n \in 1..Len(matches) : DOMAIN c(n) = {} THEN {} ELSE {merged[Len(matches)]}

\* Audit and logFullRequest are set by any rule, notify lists are united.
mergeObligations(matches) ==
    LET idx == 1..Len(matches)
        given(key) == UNION {entry(RuleAt(matches[n]).obligations, key) : n \in idx}
    IN  IF \A n \in idx : DOMAIN RuleAt(matches[n]).obligations = {} THEN {}
        ELSE {[audit |-> TRUE \in given("audit"),
               logFullRequest |-> TRUE \in given("logFullRequest"),
               notify |-> UNION given("notify")]}

\* What a resource API reads back from a grant: the constraints went through
\* JSON, where an empty intersection (a nil slice) is null and decodes to no
\* allowedFields restriction at all.
grantConstraints(constraints) ==
    {[c EXCEPT !.allowedFields = @ \ {{}}] : c \in constraints}

-----------------------------------------------------------------------------
(* The outcome of one rule, and of all of them.                            *)

\* Fault: constraints and obligations the evaluator does not know are ignored.
MutRuleOutcomesNoValidation(rule, req) ==
    IF ~actionMatches(rule.actions, req.action) THEN {"skip"}
    ELSE IF ~resourceMatches(rule.resources, req) THEN {"skip"}
    ELSE {CASE c = "error" -> "error"
            [] c = "unmet" -> "skip"
            [] c = "met" -> "match" : c \in conditionsMet(rule, req)}

\* The body of evaluateRules' loop: a rule is skipped, is a policy error that
\* denies the request at once, or matches.
RuleOutcomes(rule, req) ==
    IF ~actionMatches(rule.actions, req.action) THEN {"skip"}
    ELSE IF ~validateResources(rule.resources) THEN {"error"}
    ELSE IF ~resourceMatches(rule.resources, req) THEN {"skip"}
    ELSE {CASE c = "error" -> "error"
            [] c = "unmet" -> "skip"
            [] c = "met" -> IF /\ validateConstraints(rule.constraints)
                               /\ validateObligations(rule.obligations)
                            THEN "match" ELSE "error" : c \in conditionsMet(rule, req)}

\* Which list a matched rule joins; "none" when its effect asks for nothing
\* (require_delegation with an actor, or an effect the switch does not name).
matchKind(rule, req) ==
    CASE rule.effect = "deny" -> "deny"
      [] rule.effect = "require_approval" -> "approval"
      [] rule.effect = "allow" -> "allow"
      [] rule.effect = "require_delegation" /\ req.actor = {} -> "deny"
      [] OTHER -> "none"

-----------------------------------------------------------------------------
(* The declarative reading of evaluateRules, used as its reference and by   *)
(* the modules that need a verdict and not the scan: the possible decisions *)
(* for a request given a SET of policies.                                   *)

Matched(req, ps, kind) ==
    {x \in Positions(ps) : /\ RuleOutcomes(RuleAt(x), req) = {"match"}
                           /\ matchKind(RuleAt(x), req) = kind}

Combine(req, ps) ==
    IF Matched(req, ps, "deny") # {} THEN "deny"
    ELSE IF Matched(req, ps, "approval") # {} THEN "require_approval"
    ELSE IF Matched(req, ps, "allow") = {} THEN "deny"
    ELSE IF \A x \in Matched(req, ps, "allow") : DOMAIN RuleAt(x).constraints = {}
         THEN "allow" ELSE "allow_with_constraints"

MayFail(req, ps) == \E x \in Positions(ps) : "error" \in RuleOutcomes(RuleAt(x), req)

MustFail(req, ps) == \E x \in Positions(ps) : RuleOutcomes(RuleAt(x), req) = {"error"}

RuleVerdicts(req, ps) ==
    {d \in RuleDecisions : \/ d = "deny" /\ MayFail(req, ps)
                           \/ d = Combine(req, ps) /\ ~MustFail(req, ps)}

\* The values the constraint maps cs give a key, and the least of a set.
given(cs, key) == UNION {entry(c, key) : c \in cs}

least(S) == {n \in S : \A m \in S : n <= m}

\* What the SET cs of the constraints of the rules that allow says of a record:
\* the least of each number, readonly if any rule says so, every redaction, and
\* the fields that all the rules naming fields allow.
strictest(cs) ==
    [maxRecords |-> least(given(cs, "maxRecords")),
     readonly |-> IF TRUE \in given(cs, "readonly") THEN {TRUE} ELSE given(cs, "readonly"),
     redact |-> UNION given(cs, "redact"),
     timeWindowSeconds |-> least(given(cs, "timeWindowSeconds")),
     allowedFields |->
         LET lists == given(cs, "allowedFields")
         IN  {{f \in g : \A h \in lists : f \in h} : g \in lists},
     expiresInSeconds |-> least({parseDurationSeconds(d) : d \in given(cs, "expiresIn")})]
=============================================================================
