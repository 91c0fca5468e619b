--------------------------- MODULE RuleScanProofs ---------------------------
(***************************************************************************)
(* The scan of evaluateRules is correct for every set of policies, every   *)
(* request and every order in which the store lists the policies.          *)
(***************************************************************************)
EXTENDS RuleScan, FiniteSetTheorems, TLAPS

\* What ranging over the entries of a map can return: that all entries are
\* met, or the result of one entry that is not.
LEMMA FirstFailureRange ==
    ASSUME NEW O, O \subseteq {"met", "unmet", "error"}
    PROVE  \/ firstFailure(O) = {"met"}
           \/ (firstFailure(O) # {} /\ firstFailure(O) \subseteq {"unmet", "error"})
BY DEF firstFailure

\* conditionsMet either reports the conditions met, whatever the order of the
\* conditions, or never does.
LEMMA ConditionsMetRange ==
    ASSUME NEW rule, NEW r
    PROVE  \/ conditionsMet(rule, r) = {"met"}
           \/ (conditionsMet(rule, r) # {} /\ conditionsMet(rule, r) \subseteq {"unmet", "error"})
<1>1. ASSUME NEW w, NEW now
      PROVE  timeWindowMatches(w, now) \subseteq {"met", "unmet", "error"}
  <2>1. {timeWindowEntry(k, w[k], now) : k \in DOMAIN w} \subseteq {"met", "unmet", "error"}
    BY DEF timeWindowEntry
  <2>2. QED
    BY <2>1, FirstFailureRange DEF timeWindowMatches
<1>2. ASSUME NEW k, NEW v
      PROVE  conditionOutcomes(k, v, r) \subseteq {"met", "unmet", "error"}
  BY <1>1 DEF conditionOutcomes
<1>3. UNION {conditionOutcomes(k, rule.conditions[k], r) : k \in DOMAIN rule.conditions}
        \subseteq {"met", "unmet", "error"}
  BY <1>2
<1>4. QED
  BY <1>3, FirstFailureRange DEF conditionsMet

\* Every condition, and every time window, has an outcome.
LEMMA OutcomesNonEmpty ==
    ASSUME NEW k, NEW v, NEW r
    PROVE  conditionOutcomes(k, v, r) # {}
<1>1. ASSUME NEW O PROVE firstFailure(O) # {}
  BY DEF firstFailure
<1>2. \A w : timeWindowMatches(w, r.now) # {}
  BY <1>1 DEF timeWindowMatches
<1>3. wellFormedCondition(k, v) => v # {}
  BY DEF wellFormedCondition
<1>4. QED
  BY <1>2, <1>3 DEF conditionOutcomes

\* The outcome of a rule is open only between being skipped and being an
\* error: a rule that matches in one order of its conditions matches in all.
LEMMA RuleOutcomesRange ==
    ASSUME NEW rule, NEW r
    PROVE  RuleOutcomes(rule, r) \in {{"skip"}, {"error"}, {"match"}, {"skip", "error"}}
<1>1. CASE conditionsMet(rule, r) = {"met"}
  BY <1>1 DEF RuleOutcomes
<1>2. CASE (conditionsMet(rule, r) # {} /\ conditionsMet(rule, r) \subseteq {"unmet", "error"})
  <2>1. conditionsMet(rule, r) \in {{"unmet"}, {"error"}, {"unmet", "error"}}
    BY <1>2
  <2>2. QED
    BY <2>1 DEF RuleOutcomes
<1>3. QED
  BY <1>1, <1>2, ConditionsMetRange

-----------------------------------------------------------------------------
\* PoliciesForAgent yields a list of stored policies.
LEMMA OrdersAreLists ==
    ASSUME NEW ps \in SUBSET PolicyId, NEW s \in Orders(ps)
    PROVE  s \in Seq(PolicyId)
<1>1. IsFiniteSet(ps)
  BY PolicyIdFinite, FS_Subset
<1>2. Cardinality(ps) \in Nat
  BY <1>1, FS_CardinalityType
<1>3. QED
  BY <1>2 DEF Orders

\* The next rule is a rule of a stored policy.
LEMMA HereIsAPosition ==
    ASSUME TypeOK, AtRule
    PROVE  /\ policies[i] \in PolicyId
           /\ Here \in Positions(PolicyId)
           /\ Here[1] = policies[i]
           /\ Here[2] = j
<1>1. policies[i] \in PolicyId
  BY DEF TypeOK, AtRule, Scanning
<1>2. QED
  BY <1>1 DEF AtRule, Here, Positions

\* Every step of the scan keeps the evaluator's locals well typed.
THEOREM TypeCorrect == Spec => []TypeOK
<1>1. Init => TypeOK
  <2> SUFFICES ASSUME Init PROVE TypeOK
    OBVIOUS
  <2>1. policies \in Seq(PolicyId)
    BY OrdersAreLists DEF Init, PoliciesForAgent
  <2>2. QED
    BY <2>1 DEF Init, TypeOK
<1>2. TypeOK /\ [Next]_vars => TypeOK'
  <2> SUFFICES ASSUME TypeOK, [Next]_vars PROVE TypeOK'
    OBVIOUS
  <2>1. CASE SkipRule
    BY <2>1 DEF TypeOK, SkipRule, input, matched, result
  <2>2. CASE FailRule
    BY <2>2 DEF TypeOK, FailRule, input, matched, RuleDecisions
  <2>3. CASE MatchRule
    <3>1. Here \in Positions(PolicyId)
      BY <2>3, HereIsAPosition DEF MatchRule
    <3>2. \A list \in Seq(Positions(PolicyId)) : \A kind :
              Record(list, kind) \in Seq(Positions(PolicyId))
      BY <3>1 DEF Record
    <3>3. QED
      BY <2>3, <3>2 DEF TypeOK, MatchRule, input, result
  <2>4. CASE NextPolicy
    BY <2>4 DEF TypeOK, NextPolicy, Scanning, input, matched, result
  <2>5. CASE Decide
    <3>1. Combination \in RuleDecisions
      BY DEF Combination, RuleDecisions, AllowDecisions
    <3>2. QED
      BY <2>5, <3>1 DEF TypeOK, Decide, input, matched, result
  <2>6. CASE Done \/ UNCHANGED vars
    BY <2>6 DEF TypeOK, Done, vars, input, matched, result
  <2>7. QED
    BY <2>1, <2>2, <2>3, <2>4, <2>5, <2>6 DEF Next
<1>3. QED
  BY <1>1, <1>2, PTL DEF Spec

-----------------------------------------------------------------------------
\* A position is a pair, and its second component a rule number.
LEMMA PositionParts ==
    ASSUME NEW x \in Positions(PolicyId)
    PROVE  /\ x[1] \in PolicyId
           /\ x[2] \in 1..NumRules(x[1])
           /\ x = <<x[1], x[2]>>
BY DEF Positions

\* Passing a rule adds exactly that rule to the rules passed.
LEMMA PassingARule ==
    ASSUME TypeOK, AtRule, UNCHANGED <<policies, i>>, j' = j + 1
    PROVE  Scanned' = Scanned \cup {Here}
<1>1. Here \in Positions(PolicyId) /\ Here[1] = policies[i] /\ Here[2] = j
  BY HereIsAPosition
<1>2. i \in 1..Len(policies) /\ j \in Nat
  BY DEF AtRule, Scanning, TypeOK
<1>3. Here \in Scanned'
  BY <1>1, <1>2 DEF Scanned
<1>4. ASSUME NEW x \in Positions(PolicyId)
      PROVE  x \in Scanned' <=> (x \in Scanned \/ x = Here)
  <2>1. x[2] \in 1..NumRules(x[1]) /\ NumRules(x[1]) \in Nat
    BY PositionParts, RulesAreLists
  <2>2. x[2] \in Nat
    BY <2>1
  <2>3. x = <<x[1], x[2]>>
    BY PositionParts
  <2>4. ASSUME NEW m \in 1..Len(policies), x[1] = policies[m]
        PROVE  (m < i \/ (m = i /\ x[2] < j + 1)) =>
                   (m < i \/ (m = i /\ x[2] < j)) \/ x = Here
    BY <1>2, <2>2, <2>3, <2>4 DEF Here
  <2>5. x \in Scanned' => x \in Scanned \/ x = Here
    BY <2>4 DEF Scanned
  <2>6. x \in Scanned => x \in Scanned'
    BY <1>2, <2>2 DEF Scanned
  <2>7. QED
    BY <1>3, <2>5, <2>6
<1>5. QED
  BY <1>1, <1>4 DEF Scanned

\* Moving on from a policy whose rules are exhausted passes no further rule.
LEMMA PassingAPolicy ==
    ASSUME TypeOK, NextPolicy
    PROVE  Scanned' = Scanned
<1>1. i \in 1..Len(policies) /\ j \in Nat /\ i' = i + 1 /\ j' = 1 /\ policies' = policies
  BY DEF NextPolicy, Scanning, TypeOK, input
<1>2. ASSUME NEW x \in Positions(PolicyId), NEW m \in 1..Len(policies), x[1] = policies[m]
      PROVE  (m < i + 1 \/ (m = i + 1 /\ x[2] < 1)) <=> (m < i \/ (m = i /\ x[2] < j))
  <2>1. x[2] \in 1..NumRules(x[1]) /\ NumRules(x[1]) \in Nat
    BY PositionParts, RulesAreLists
  <2>2. m = i => x[2] < j
    BY <1>1, <1>2, <2>1 DEF NextPolicy
  <2>3. QED
    BY <1>1, <2>1, <2>2
<1>3. QED
  BY <1>1, <1>2 DEF Scanned

\* At the end of the scan every rule of every selected policy was passed.
LEMMA ScanIsComplete ==
    ASSUME TypeOK, i > Len(policies)
    PROVE  Scanned = Positions(Selected)
<1>1. \A m \in 1..Len(policies) : m < i /\ policies[m] \in PolicyId
  BY DEF TypeOK
<1>2. Scanned = {x \in Positions(PolicyId) : x[1] \in Selected}
  BY <1>1 DEF Scanned, Selected
<1>3. QED
  BY <1>1, <1>2 DEF Positions, Selected

\* What a list holds after Record.
LEMMA RecordElements ==
    ASSUME NEW S, NEW list \in Seq(S), Here \in S, NEW kind
    PROVE  Elements(Record(list, kind)) =
             Elements(list) \cup {x \in {Here} : matchKind(RuleAt(x), req) = kind}
<1>1. Elements(Append(list, Here)) = Elements(list) \cup {Here}
  BY DEF Elements
<1>2. QED
  BY <1>1 DEF Record

\* A list is empty exactly when it holds nothing.
LEMMA EmptyList ==
    ASSUME NEW S, NEW list \in Seq(S)
    PROVE  list = <<>> <=> Elements(list) = {}
BY DEF Elements

\* mergeConstraints returns nil exactly when no matched rule is constrained.
LEMMA MergeIsNil ==
    ASSUME NEW list
    PROVE  mergeConstraints(list) = {} <=>
             \A x \in Elements(list) : DOMAIN RuleAt(x).constraints = {}
<1> DEFINE unconstrained ==
             \A n \in 1..Len(list) : DOMAIN RuleAt(list[n]).constraints = {}
<1>1. unconstrained <=> \A x \in Elements(list) : DOMAIN RuleAt(x).constraints = {}
  BY DEF Elements
<1>2. \E c : mergeConstraints(list) = IF unconstrained THEN {} ELSE {c}
  BY DEF mergeConstraints
<1>3. QED
  BY <1>1, <1>2

\* The final combination of the three lists is the reference combination.
LEMMA CombinationIsCombine ==
    ASSUME TypeOK, ScanInvariant, decision = "none", i > Len(policies)
    PROVE  /\ Combination = Combine(req, Selected)
           /\ ~MustFail(req, Selected)
<1>1. Scanned = Positions(Selected)
  BY ScanIsComplete
<1>2. Positions(Selected) \subseteq Positions(PolicyId)
  BY <1>1 DEF Scanned
<1>3. \A k : Matched(req, PolicyId, k) \cap Scanned = Matched(req, Selected, k)
  BY <1>1, <1>2 DEF Matched
<1>4. /\ Elements(matchedDeny) = Matched(req, Selected, "deny")
      /\ Elements(matchedApproval) = Matched(req, Selected, "approval")
      /\ Elements(matchedAllow) = Matched(req, Selected, "allow")
  BY <1>3 DEF ScanInvariant
<1>5. /\ matchedDeny = <<>> <=> Matched(req, Selected, "deny") = {}
      /\ matchedApproval = <<>> <=> Matched(req, Selected, "approval") = {}
      /\ matchedAllow = <<>> <=> Matched(req, Selected, "allow") = {}
  BY <1>4, EmptyList DEF TypeOK
<1>6. mergeConstraints(matchedAllow) = {} <=>
        \A x \in Matched(req, Selected, "allow") : DOMAIN RuleAt(x).constraints = {}
  BY <1>4, MergeIsNil
<1>7. Combination = Combine(req, Selected)
  BY <1>5, <1>6 DEF Combination, Combine
<1>8. ~MustFail(req, Selected)
  BY <1>1 DEF ScanInvariant, MustFail
<1>9. QED
  BY <1>7, <1>8

\* The loop invariant and the reference are preserved by every step.
LEMMA ScanStep ==
    ASSUME TypeOK, ScanInvariant, DecisionIsReference, [Next]_vars
    PROVE  ScanInvariant' /\ DecisionIsReference'
<1>1. CASE SkipRule
  <2>1. Scanned' = Scanned \cup {Here}
    BY <1>1, PassingARule DEF SkipRule, input
  <2>2. RuleOutcomes(RuleAt(Here), req) \notin {{"error"}, {"match"}}
    BY <1>1 DEF SkipRule
  <2>3. \A k : Here \notin Matched(req, PolicyId, k)
    BY <2>2 DEF Matched
  <2>4. /\ decision' = "none" /\ decision = "none" /\ req' = req
        /\ UNCHANGED <<matchedDeny, matchedApproval, matchedAllow>>
    BY <1>1 DEF SkipRule, AtRule, Scanning, input, matched, result
  <2>5. \A k : Matched(req, PolicyId, k) \cap Scanned' = Matched(req, PolicyId, k) \cap Scanned
    BY <2>1, <2>3
  <2>6. QED
    BY <2>1, <2>2, <2>4, <2>5 DEF ScanInvariant, DecisionIsReference
<1>2. CASE FailRule
  <2>1. /\ decision' = "deny" /\ req' = req /\ policies' = policies
        /\ "error" \in RuleOutcomes(RuleAt(Here), req)
        /\ AtRule
    BY <1>2 DEF FailRule, input
  <2>2. Here \in Positions(Selected)
    BY <2>1, HereIsAPosition DEF AtRule, Scanning, Selected, Positions, Here
  <2>3. MayFail(req, Selected)
    BY <2>1, <2>2 DEF MayFail
  <2>4. "deny" \in RuleVerdicts(req, Selected)
    BY <2>3 DEF RuleVerdicts, RuleDecisions
  <2>5. Selected' = Selected
    BY <2>1 DEF Selected
  <2>6. QED
    BY <2>1, <2>4, <2>5 DEF ScanInvariant, DecisionIsReference
<1>3. CASE MatchRule
  <2>1. Scanned' = Scanned \cup {Here}
    BY <1>3, PassingARule DEF MatchRule, input
  <2>2. RuleOutcomes(RuleAt(Here), req) = {"match"}
    BY <1>3, RuleOutcomesRange DEF MatchRule
  <2>3. Here \in Positions(PolicyId)
    BY <1>3, HereIsAPosition DEF MatchRule
  <2>4. \A k : Matched(req, PolicyId, k) \cap Scanned' =
               (Matched(req, PolicyId, k) \cap Scanned)
                  \cup {x \in {Here} : matchKind(RuleAt(x), req) = k}
    BY <2>1, <2>2, <2>3 DEF Matched
  <2>5. /\ decision' = "none" /\ decision = "none" /\ req' = req
        /\ matchedDeny' = Record(matchedDeny, "deny")
        /\ matchedApproval' = Record(matchedApproval, "approval")
        /\ matchedAllow' = Record(matchedAllow, "allow")
    BY <1>3 DEF MatchRule, AtRule, Scanning, input, result
  <2>6. /\ Elements(matchedDeny') = Matched(req, PolicyId, "deny") \cap Scanned'
        /\ Elements(matchedApproval') = Matched(req, PolicyId, "approval") \cap Scanned'
        /\ Elements(matchedAllow') = Matched(req, PolicyId, "allow") \cap Scanned'
    <3>1. \A list \in Seq(Positions(PolicyId)) : \A k :
              Elements(Record(list, k)) =
                  Elements(list) \cup {x \in {Here} : matchKind(RuleAt(x), req) = k}
      BY <2>3, RecordElements
    <3>2. /\ matchedDeny \in Seq(Positions(PolicyId))
          /\ matchedApproval \in Seq(Positions(PolicyId))
          /\ matchedAllow \in Seq(Positions(PolicyId))
      BY DEF TypeOK
    <3>3. /\ Elements(matchedDeny) = Matched(req, PolicyId, "deny") \cap Scanned
          /\ Elements(matchedApproval) = Matched(req, PolicyId, "approval") \cap Scanned
          /\ Elements(matchedAllow) = Matched(req, PolicyId, "allow") \cap Scanned
      BY <2>5 DEF ScanInvariant
    <3>4. QED
      BY <2>4, <2>5, <3>1, <3>2, <3>3
  <2>7. \A x \in Scanned' : RuleOutcomes(RuleAt(x), req) # {"error"}
    BY <2>1, <2>2, <2>5 DEF ScanInvariant
  <2>8. ScanInvariant'
    BY <2>5, <2>6, <2>7 DEF ScanInvariant
  <2>9. DecisionIsReference'
    BY <2>5 DEF DecisionIsReference
  <2>10. QED
    BY <2>8, <2>9
<1>4. CASE NextPolicy
  <2>1. Scanned' = Scanned
    BY <1>4, PassingAPolicy
  <2>2. /\ decision' = "none" /\ decision = "none" /\ req' = req
        /\ UNCHANGED <<matchedDeny, matchedApproval, matchedAllow>>
    BY <1>4 DEF NextPolicy, Scanning, input, matched, result
  <2>3. QED
    BY <2>1, <2>2 DEF ScanInvariant, DecisionIsReference
<1>5. CASE Decide
  <2>1. /\ decision = "none" /\ i > Len(policies) /\ decision' = Combination
        /\ req' = req /\ policies' = policies
    BY <1>5 DEF Decide, input
  <2>2. Combination = Combine(req, Selected) /\ ~MustFail(req, Selected)
    BY <2>1, CombinationIsCombine
  <2>3. Combination \in RuleDecisions /\ Combination # "none"
    BY DEF Combination, RuleDecisions, AllowDecisions
  <2>4. Combination \in RuleVerdicts(req, Selected)
    BY <2>2, <2>3 DEF RuleVerdicts
  <2>5. Selected' = Selected
    BY <2>1 DEF Selected
  <2>6. QED
    BY <2>1, <2>3, <2>4, <2>5 DEF ScanInvariant, DecisionIsReference
<1>6. CASE Done \/ UNCHANGED vars
  <2>1. /\ UNCHANGED <<req, policies, i, j, decision>>
        /\ UNCHANGED <<matchedDeny, matchedApproval, matchedAllow>>
    BY <1>6 DEF Done, vars, input, matched, result
  <2>2. Scanned' = Scanned /\ Selected' = Selected
    BY <2>1 DEF Scanned, Selected
  <2>3. QED
    BY <2>1, <2>2 DEF ScanInvariant, DecisionIsReference
<1>7. QED
  BY <1>1, <1>2, <1>3, <1>4, <1>5, <1>6 DEF Next

\* The scan returns a decision the SET of selected policies determines:
\* the order in which the store lists the policies never changes who is
\* allowed, and the loop invariant holds throughout.
THEOREM ScanCorrect == Spec => [](ScanInvariant /\ DecisionIsReference)
<1>1. Init => ScanInvariant /\ DecisionIsReference
  <2> SUFFICES ASSUME Init PROVE ScanInvariant /\ DecisionIsReference
    OBVIOUS
  <2>1. \A x \in Positions(PolicyId) : x[2] \in Nat \ {0}
    BY PositionParts, RulesAreLists
  <2>2. Scanned = {}
    BY <2>1 DEF Init, Scanned
  <2>3. Elements(<<>>) = {}
    BY DEF Elements
  <2>4. QED
    BY <2>2, <2>3 DEF Init, ScanInvariant, DecisionIsReference
<1>2. TypeOK /\ (ScanInvariant /\ DecisionIsReference) /\ [Next]_vars
        => (ScanInvariant /\ DecisionIsReference)'
  BY ScanStep
<1>3. QED
  BY <1>1, <1>2, TypeCorrect, PTL DEF Spec

\* The loop invariant of evaluateRules: whatever order the maps give, the lists
\* hold exactly the matches among the rules passed.
THEOREM ScanIsInvariant == Spec => []ScanInvariant
<1>1. QED
  BY ScanCorrect, PTL

\* An allow is justified rule by rule, for every set of policies: it follows
\* from the reference, because a rule all of whose conditions hold matches or
\* is an error in every order of its conditions.
THEOREM AllowJustified == Spec => []AllowIsJustified
<1>1. DecisionIsReference => AllowIsJustified
  <2> SUFFICES ASSUME DecisionIsReference, decision \in AllowDecisions
               PROVE  AllowIsJustified
    BY DEF AllowIsJustified
  <2>1. decision \in {"allow", "allow_with_constraints"}
    BY DEF AllowDecisions
  <2>2. decision \in RuleVerdicts(req, Selected)
    BY <2>1 DEF DecisionIsReference
  <2>3. decision = Combine(req, Selected) /\ ~MustFail(req, Selected)
    BY <2>1, <2>2 DEF RuleVerdicts
  <2>4. /\ Matched(req, Selected, "deny") = {}
        /\ Matched(req, Selected, "approval") = {}
        /\ Matched(req, Selected, "allow") # {}
    BY <2>1, <2>3 DEF Combine
  <2>5. ASSUME NEW x \in Positions(Selected), Applies(RuleAt(x))
        PROVE  /\ RuleOutcomes(RuleAt(x), req) = {"match"}
               /\ validateResources(RuleAt(x).resources)
               /\ validateConstraints(RuleAt(x).constraints)
               /\ validateObligations(RuleAt(x).obligations)
    <3>1. conditionsMet(RuleAt(x), req) = {"met"}
      BY <2>5 DEF Applies, conditionsMet, firstFailure
    <3>2. RuleOutcomes(RuleAt(x), req) # {"error"}
      BY <2>3 DEF MustFail
    <3>3. QED
      BY <2>5, <3>1, <3>2 DEF RuleOutcomes, Applies
  <2>6. ASSUME NEW x \in Positions(Selected), Applies(RuleAt(x))
        PROVE  matchKind(RuleAt(x), req) \notin {"deny", "approval"}
    BY <2>4, <2>5, <2>6 DEF Matched
  <2>7. ASSUME NEW x \in Positions(Selected), Applies(RuleAt(x))
        PROVE  /\ RuleAt(x).effect \notin {"deny", "require_approval"}
               /\ RuleAt(x).effect = "require_delegation" => req.actor # {}
    BY <2>6, <2>7 DEF matchKind
  <2>8. \E x \in Positions(Selected) : Applies(RuleAt(x)) /\ RuleAt(x).effect = "allow"
    <3>1. PICK x \in Positions(Selected) :
              RuleOutcomes(RuleAt(x), req) = {"match"} /\ matchKind(RuleAt(x), req) = "allow"
      BY <2>4 DEF Matched
    <3>2. RuleAt(x).effect = "allow"
      BY <3>1 DEF matchKind
    <3>3. actionMatches(RuleAt(x).actions, req.action) /\ resourceMatches(RuleAt(x).resources, req)
      BY <3>1 DEF RuleOutcomes
    <3>4. conditionsMet(RuleAt(x), req) = {"met"}
      BY <3>1, ConditionsMetRange DEF RuleOutcomes
    <3>5. UNION {conditionOutcomes(k, RuleAt(x).conditions[k], req) :
                    k \in DOMAIN RuleAt(x).conditions} \subseteq {"met"}
      BY <3>4 DEF conditionsMet, firstFailure
    <3>6. \A k \in DOMAIN RuleAt(x).conditions :
              conditionOutcomes(k, RuleAt(x).conditions[k], req) = {"met"}
      BY <3>5, OutcomesNonEmpty
    <3>7. QED
      BY <3>2, <3>3, <3>6 DEF Applies
  <2>9. QED
    BY <2>5, <2>7, <2>8 DEF AllowIsJustified
<1>2. QED
  BY <1>1, ScanCorrect, PTL

-----------------------------------------------------------------------------
(* The merge of the constraints.  It is a recursive function over the list *)
(* of matches; induction is over sets of numbers, and rests on the fact    *)
(* that strict inclusion of finite sets is well founded.                   *)

LEMMA InductionInNat ==
    ASSUME NEW S \in SUBSET Nat, 0 \in S, \A n \in S : n + 1 \in S
    PROVE  S = Nat
<1> DEFINE Missing == Nat \ S
           Segments == {0..n : n \in Missing}
<1>1. SUFFICES ASSUME Missing # {} PROVE FALSE
  OBVIOUS
<1>2. Segments \subseteq FiniteSubsetsOf(Nat) /\ Segments # {}
  <2>1. \A n \in Nat : 0..n \subseteq Nat /\ IsFiniteSet(0..n)
    BY FS_Interval
  <2>2. QED
    BY <1>1, <2>1 DEF FiniteSubsetsOf
<1>3. PICK s \in Segments : \A t \in Segments : ~(<<t, s>> \in StrictSubsetOrdering(Nat))
  BY <1>2, WFMin, FS_StrictSubsetOrderingWellFounded
<1>4. PICK x \in Missing : s = 0..x
  BY <1>3
<1>5. x - 1 \in Missing
  BY <1>4
<1>6. 0..(x - 1) \subseteq 0..x /\ 0..(x - 1) # 0..x /\ 0..x \subseteq Nat
  <2>1. x \in 0..x /\ x \notin 0..(x - 1)
    BY <1>4
  <2>2. QED
    BY <1>4, <2>1
<1>7. <<0..(x - 1), 0..x>> \in StrictSubsetOrdering(Nat)
  BY <1>6 DEF StrictSubsetOrdering
<1>8. QED
  BY <1>3, <1>4, <1>5, <1>7

\* merged holds the results of the first iterations of mergeConstraints.
Merges(merged, list) ==
    merged = [n \in 0..Len(list) |->
                 IF n = 0 THEN noConstraints
                 ELSE mergeRuleConstraints(merged[n - 1], RuleAt(list[n]).constraints)]

\* The loop has results: the recursive definition defines a function.
LEMMA MergeExists ==
    ASSUME NEW list, Len(list) \in Nat
    PROVE  \E merged : Merges(merged, list)
<1> DEFINE Step(prev, n) == mergeRuleConstraints(prev, RuleAt(list[n]).constraints)
           Is(f, m) == f = [n \in 0..m |-> IF n = 0 THEN noConstraints ELSE Step(f[n - 1], n)]
           S == {m \in Nat : \E f : Is(f, m)}
<1> HIDE DEF Step
<1>1. 0 \in S
  <2> DEFINE f == [n \in 0..0 |-> noConstraints]
  <2>1. Is(f, 0)
    OBVIOUS
  <2>2. QED
    BY <2>1
<1>2. ASSUME NEW m \in S PROVE m + 1 \in S
  <2>1. PICK f : Is(f, m)
    OBVIOUS
  <2> DEFINE g == [n \in 0..(m + 1) |-> IF n = m + 1 THEN Step(f[m], m + 1) ELSE f[n]]
             h == [n \in 0..(m + 1) |-> IF n = 0 THEN noConstraints ELSE Step(g[n - 1], n)]
  <2>2. ASSUME NEW n \in 0..(m + 1) PROVE g[n] = h[n]
    <3>1. CASE n = 0
      BY <2>1, <3>1
    <3>2. CASE n # 0 /\ n # m + 1
      <4>1. n \in 0..m /\ n - 1 \in 0..m /\ n - 1 # m + 1 /\ n - 1 \in 0..(m + 1)
        BY <3>2
      <4>2. g[n] = f[n] /\ g[n - 1] = f[n - 1]
        BY <3>2, <4>1
      <4>3. f[n] = Step(f[n - 1], n)
        BY <2>1, <3>2, <4>1
      <4>4. QED
        BY <3>2, <4>2, <4>3
    <3>3. CASE n = m + 1
      <4>1. n - 1 = m /\ n # 0 /\ m \in 0..(m + 1) /\ m # m + 1
        BY <3>3
      <4>2. QED
        BY <3>3, <4>1
    <3>4. QED
      BY <3>1, <3>2, <3>3
  <2>3. Is(g, m + 1)
    BY <2>2
  <2>4. \E e : Is(e, m + 1)
    <3> HIDE DEF g, Is
    <3> QED
    BY <2>3
  <2>5. m + 1 \in Nat
    OBVIOUS
  <2>6. QED
    <3> HIDE DEF Is
    <3> QED
      BY <2>4, <2>5
<1>3. S = Nat
  <2> HIDE DEF S
  <2> QED
  BY <1>1, <1>2, InductionInNat DEF S
<1>4. Len(list) \in S
  BY <1>3
<1>5. QED
  BY <1>4 DEF Merges, Step

\* What mergeConstraints returns is the result of the last iteration.
LEMMA MergeIsLast ==
    ASSUME NEW list, Len(list) \in Nat,
           NEW n \in 1..Len(list), DOMAIN RuleAt(list[n]).constraints # {}
    PROVE  \E merged : Merges(merged, list) /\ mergeConstraints(list) = {merged[Len(list)]}
<1> DEFINE merged == CHOOSE f : Merges(f, list)
<1>1. Merges(merged, list)
  BY MergeExists
<1>2. mergeConstraints(list) = {merged[Len(list)]}
  BY DEF mergeConstraints, Merges
<1>3. QED
  BY <1>1, <1>2

-----------------------------------------------------------------------------
(* The merge is as strict as every rule merged. *)

\* A record of constraints with its types, and at most one value for each.
MergedType(c) ==
    /\ c.maxRecords \cup c.timeWindowSeconds \cup c.expiresInSeconds \subseteq Int
    /\ \A v, w \in c.maxRecords : v = w
    /\ \A v, w \in c.timeWindowSeconds : v = w
    /\ \A v, w \in c.expiresInSeconds : v = w
    /\ \A v, w \in c.allowedFields : v = w

LEMMA MinimumIsStrict ==
    ASSUME NEW old \in SUBSET Int, NEW new \in SUBSET Int,
           \A v, w \in old : v = w, \A v, w \in new : v = w
    PROVE  /\ minimum(old, new) \subseteq Int
           /\ \A v, w \in minimum(old, new) : v = w
           /\ \A v \in old \cup new : \E n \in minimum(old, new) : n <= v
<1>1. \A x : x \in minimum(old, new) <=> x \in old \cup new /\ \A y \in old \cup new : x <= y
  BY DEF minimum
<1> HIDE DEF minimum
<1>2. minimum(old, new) \subseteq Int
  BY <1>1
<1>3. \A v, w \in minimum(old, new) : v = w
  <2> SUFFICES ASSUME NEW v \in minimum(old, new), NEW w \in minimum(old, new) PROVE v = w
    OBVIOUS
  <2>1. v \in Int /\ w \in Int /\ v <= w /\ w <= v
    BY <1>1, <1>2
  <2>2. QED
    BY <2>1
<1>4. ASSUME NEW v \in old \cup new PROVE \E n \in minimum(old, new) : n <= v
  <2>1. \E a \in old \cup new : \A y \in old \cup new : a <= y
    <3>1. CASE old = {} \/ new = {}
      <4>1. \A y \in old \cup new : v = y /\ v \in Int
        BY <3>1
      <4>2. QED
        BY <4>1
    <3>2. CASE old # {} /\ new # {}
      <4>1. PICK a \in old : \A y \in old : a = y
        BY <3>2
      <4>2. PICK b \in new : \A y \in new : b = y
        BY <3>2
      <4>3. a \in Int /\ b \in Int
        OBVIOUS
      <4>4. a <= b \/ b <= a
        BY <4>3
      <4>5. QED
        BY <4>1, <4>2, <4>3, <4>4
    <3>3. QED
      BY <3>1, <3>2
  <2>2. QED
    BY <1>1, <2>1
<1>5. QED
  BY <1>2, <1>3, <1>4

\* The values of a rule's constraints, as the merge reads them.
Seconds(c) == {parseDurationSeconds(d) : d \in entry(c, "expiresIn")}

ValueTypes(c) ==
    /\ entry(c, "maxRecords") \subseteq Int
    /\ entry(c, "timeWindowSeconds") \subseteq Int
    /\ Seconds(c) \subseteq Int
    /\ \A v, w \in entry(c, "maxRecords") : v = w
    /\ \A v, w \in entry(c, "timeWindowSeconds") : v = w
    /\ \A v, w \in entry(c, "allowedFields") : v = w
    /\ \A v, w \in Seconds(c) : v = w

LEMMA RuleConstraintTypes ==
    ASSUME NEW x \in Positions(PolicyId)
    PROVE  ValueTypes(RuleAt(x).constraints)
<1>1. PICK c : c = RuleAt(x).constraints
  OBVIOUS
<1>2. /\ \A key \in ConstraintKeys : \A v, w \in entry(c, key) : v = w
      /\ entry(c, "maxRecords") \cup entry(c, "timeWindowSeconds") \subseteq Int
      /\ \A v \in entry(c, "expiresIn") : v.n \in Nat
  BY <1>1, ConstraintsAreDecoded
<1>3. \A d \in entry(c, "expiresIn") : parseDurationSeconds(d) \in Int
  <2> SUFFICES ASSUME NEW d \in entry(c, "expiresIn") PROVE parseDurationSeconds(d) \in Int
    OBVIOUS
  <2>1. d.n \in Nat /\ d.n * 60 \in Int /\ d.n * 3600 \in Int
    BY <1>2
  <2>2. QED
    BY <2>1 DEF parseDurationSeconds
<1>4. /\ \A v, w \in entry(c, "maxRecords") : v = w
      /\ \A v, w \in entry(c, "timeWindowSeconds") : v = w
      /\ \A v, w \in entry(c, "allowedFields") : v = w
      /\ \A v, w \in entry(c, "expiresIn") : v = w
  BY <1>2 DEF ConstraintKeys
<1>5. Seconds(c) \subseteq Int /\ \A v, w \in Seconds(c) : v = w
  BY <1>3, <1>4 DEF Seconds
<1>6. QED
  BY <1>1, <1>2, <1>4, <1>5 DEF ValueTypes

\* One iteration keeps what was merged and adds the rule's constraints.
LEMMA MergingIsStrict ==
    ASSUME NEW m, NEW c, MergedType(m), ValueTypes(c)
    PROVE  /\ MergedType(mergeRuleConstraints(m, c))
           /\ AsStrictAs(mergeRuleConstraints(m, c), c)
           /\ \A rc : ValueTypes(rc) /\ AsStrictAs(m, rc)
                         => AsStrictAs(mergeRuleConstraints(m, c), rc)
<1>1. PICK next : next = mergeRuleConstraints(m, c)
  OBVIOUS
<1>2. /\ next.maxRecords = minimum(m.maxRecords, entry(c, "maxRecords"))
      /\ next.timeWindowSeconds = minimum(m.timeWindowSeconds, entry(c, "timeWindowSeconds"))
      /\ next.expiresInSeconds = minimum(m.expiresInSeconds, Seconds(c))
      /\ next.redact = m.redact \cup UNION entry(c, "redact")
  BY <1>1 DEF mergeRuleConstraints, Seconds
<1>3. /\ next.maxRecords \subseteq Int
      /\ \A v, w \in next.maxRecords : v = w
      /\ \A v \in m.maxRecords \cup entry(c, "maxRecords") : \E n \in next.maxRecords : n <= v
  BY <1>2, MinimumIsStrict DEF MergedType, ValueTypes
<1>4. /\ next.timeWindowSeconds \subseteq Int
      /\ \A v, w \in next.timeWindowSeconds : v = w
      /\ \A v \in m.timeWindowSeconds \cup entry(c, "timeWindowSeconds") :
            \E n \in next.timeWindowSeconds : n <= v
  BY <1>2, MinimumIsStrict DEF MergedType, ValueTypes
<1>5. /\ next.expiresInSeconds \subseteq Int
      /\ \A v, w \in next.expiresInSeconds : v = w
      /\ \A v \in m.expiresInSeconds \cup Seconds(c) : \E n \in next.expiresInSeconds : n <= v
  BY <1>2, MinimumIsStrict DEF MergedType, ValueTypes
<1>6. /\ \A v, w \in next.allowedFields : v = w
      /\ \A v \in m.allowedFields \cup entry(c, "allowedFields") :
            \E f \in next.allowedFields : f \subseteq v
  <2>1. CASE m.allowedFields = {} \/ entry(c, "allowedFields") = {}
    <3>1. next.allowedFields = m.allowedFields \cup entry(c, "allowedFields")
      BY <1>1, <2>1 DEF mergeRuleConstraints
    <3>2. QED
      BY <2>1, <3>1 DEF MergedType, ValueTypes
  <2>2. CASE m.allowedFields # {} /\ entry(c, "allowedFields") # {}
    <3>1. PICK f \in m.allowedFields, g \in entry(c, "allowedFields") :
              m.allowedFields = {f} /\ entry(c, "allowedFields") = {g}
      BY <2>2 DEF MergedType, ValueTypes
    <3>2. next.allowedFields = {f \cap g}
      BY <1>1, <2>2, <3>1 DEF mergeRuleConstraints, intersectStrings
    <3>3. QED
      BY <3>1, <3>2
  <2>3. QED
    BY <2>1, <2>2
<1>7. MergedType(next)
  BY <1>3, <1>4, <1>5, <1>6 DEF MergedType
<1>8. AsStrictAs(next, c)
  <2>1. \A v \in entry(c, "redact") : v \subseteq next.redact
    BY <1>2
  <2>2. \A d \in entry(c, "expiresIn") :
            \E n \in next.expiresInSeconds : n <= parseDurationSeconds(d)
    BY <1>5 DEF Seconds
  <2>3. TRUE \in entry(c, "readonly") => next.readonly = {TRUE}
    BY <1>1 DEF mergeRuleConstraints
  <2>4. QED
    BY <1>3, <1>4, <1>6, <2>1, <2>2, <2>3 DEF AsStrictAs
<1>9. ASSUME NEW rc, ValueTypes(rc), AsStrictAs(m, rc) PROVE AsStrictAs(next, rc)
  <2>1. /\ \A v \in entry(rc, "maxRecords") : v \in Int
        /\ \A v \in entry(rc, "timeWindowSeconds") : v \in Int
        /\ \A v \in entry(rc, "expiresIn") : parseDurationSeconds(v) \in Int
    BY <1>9 DEF ValueTypes, Seconds
  <2>2. AsStrictAs(m, rc)
    BY <1>9
  <2>3. \A v \in entry(rc, "maxRecords") : \E n \in next.maxRecords : n <= v
    <3>1. \A v \in entry(rc, "maxRecords") : \E n \in m.maxRecords : n <= v
      BY <2>2 DEF AsStrictAs
    <3>2. QED
      BY <1>3, <2>1, <3>1 DEF MergedType
  <2>4. \A v \in entry(rc, "timeWindowSeconds") : \E n \in next.timeWindowSeconds : n <= v
    <3>1. \A v \in entry(rc, "timeWindowSeconds") : \E n \in m.timeWindowSeconds : n <= v
      BY <2>2 DEF AsStrictAs
    <3>2. QED
      BY <1>4, <2>1, <3>1 DEF MergedType
  <2>5. \A v \in entry(rc, "expiresIn") :
            \E n \in next.expiresInSeconds : n <= parseDurationSeconds(v)
    <3>1. \A v \in entry(rc, "expiresIn") :
              \E n \in m.expiresInSeconds : n <= parseDurationSeconds(v)
      BY <2>2 DEF AsStrictAs
    <3>2. QED
      BY <1>5, <2>1, <3>1 DEF MergedType
  <2>6. TRUE \in entry(rc, "readonly") => next.readonly = {TRUE}
    <3>1. TRUE \in entry(rc, "readonly") => TRUE \in m.readonly
      BY <2>2 DEF AsStrictAs
    <3>2. QED
      BY <1>1, <3>1 DEF mergeRuleConstraints
  <2>7. \A v \in entry(rc, "redact") : v \subseteq next.redact
    BY <1>2, <2>2 DEF AsStrictAs
  <2>8. \A v \in entry(rc, "allowedFields") : \E f \in next.allowedFields : f \subseteq v
    <3>1. \A v \in entry(rc, "allowedFields") : \E f \in m.allowedFields : f \subseteq v
      BY <2>2 DEF AsStrictAs
    <3>2. QED
      BY <1>6, <3>1
  <2>9. QED
    BY <2>3, <2>4, <2>5, <2>6, <2>7, <2>8 DEF AsStrictAs
<1>10. QED
  BY <1>1, <1>7, <1>8, <1>9

\* After n iterations the merge is as strict as each of the first n rules.
Strict(m, list, n) ==
    MergedType(m) /\ \A k \in 1..n : AsStrictAs(m, RuleAt(list[k]).constraints)

LEMMA MergeIsStrict ==
    ASSUME NEW list \in Seq(Positions(PolicyId)), NEW merged, Merges(merged, list)
    PROVE  Strict(merged[Len(list)], list, Len(list))
<1> DEFINE S == {n \in Nat : n <= Len(list) => Strict(merged[n], list, n)}
<1>1. Len(list) \in Nat /\ \A n \in 1..Len(list) : list[n] \in Positions(PolicyId)
  OBVIOUS
<1>2. /\ merged[0] = noConstraints
      /\ \A n \in 1..Len(list) :
            merged[n] = mergeRuleConstraints(merged[n - 1], RuleAt(list[n]).constraints)
  BY <1>1 DEF Merges
<1>3. 0 \in S
  <2>1. MergedType(noConstraints)
    BY DEF MergedType, noConstraints
  <2>2. QED
    BY <1>2, <2>1 DEF Strict
<1>4. ASSUME NEW n \in S PROVE n + 1 \in S
  <2>1. SUFFICES ASSUME n + 1 <= Len(list) PROVE Strict(merged[n + 1], list, n + 1)
    OBVIOUS
  <2>2. n \in Nat /\ n <= Len(list) /\ n + 1 \in 1..Len(list) /\ (n + 1) - 1 = n
    BY <1>1, <2>1
  <2>3. Strict(merged[n], list, n)
    BY <2>2
  <2> HIDE DEF S
  <2>4. \A k \in 1..Len(list) : ValueTypes(RuleAt(list[k]).constraints)
    BY <1>1, RuleConstraintTypes
  <2>5. merged[n + 1] = mergeRuleConstraints(merged[n], RuleAt(list[n + 1]).constraints)
    BY <1>2, <2>2
  <2>6. MergedType(merged[n])
    BY <2>3 DEF Strict
  <2>7. /\ MergedType(merged[n + 1])
        /\ AsStrictAs(merged[n + 1], RuleAt(list[n + 1]).constraints)
        /\ \A rc : ValueTypes(rc) /\ AsStrictAs(merged[n], rc) => AsStrictAs(merged[n + 1], rc)
    BY <2>2, <2>4, <2>5, <2>6, MergingIsStrict
  <2>8. ASSUME NEW k \in 1..(n + 1) PROVE AsStrictAs(merged[n + 1], RuleAt(list[k]).constraints)
    <3>1. CASE k = n + 1
      BY <2>7, <3>1
    <3>2. CASE k # n + 1
      <4>1. k \in 1..n /\ k \in 1..Len(list)
        BY <2>2, <3>2
      <4>2. AsStrictAs(merged[n], RuleAt(list[k]).constraints)
        BY <2>3, <4>1 DEF Strict
      <4>3. QED
        BY <2>4, <2>7, <4>1, <4>2
    <3>3. QED
      BY <3>1, <3>2
  <2>9. QED
    BY <2>7, <2>8 DEF Strict
<1>5. S = Nat
  <2>1. S \in SUBSET Nat
    OBVIOUS
  <2> HIDE DEF S
  <2>2. QED
    BY <1>3, <1>4, <2>1, InductionInNat
<1>6. Len(list) \in S
  BY <1>1, <1>5
<1>7. QED
  BY <1>1, <1>6

\* What a decision carries is as strict as rule x, and keeps its obligations.
Covers(d, x) ==
    /\ DOMAIN RuleAt(x).constraints # {} =>
          \E c \in d.constraints : AsStrictAs(c, RuleAt(x).constraints)
    /\ \A v \in entry(RuleAt(x).obligations, "notify") :
          \E o \in d.obligations : v \subseteq o.notify
    /\ TRUE \in entry(RuleAt(x).obligations, "audit") =>
          \E o \in d.obligations : o.audit

\* An allow covers each rule in its list.
LEMMA AttachmentsAreStrict ==
    ASSUME TypeOK, matchedDeny = <<>>, matchedApproval = <<>>, NEW x \in Elements(matchedAllow)
    PROVE  Covers(Attachments, x)
<1>1. /\ Attachments.constraints = mergeConstraints(matchedAllow)
      /\ Attachments.obligations = mergeObligations(matchedAllow)
  BY DEF Attachments
<1>2. matchedAllow \in Seq(Positions(PolicyId)) /\ Len(matchedAllow) \in Nat
  BY DEF TypeOK
<1>3. PICK n \in 1..Len(matchedAllow) : x = matchedAllow[n]
  BY DEF Elements
<1>4. ASSUME DOMAIN RuleAt(x).constraints # {}
      PROVE  \E c \in mergeConstraints(matchedAllow) : AsStrictAs(c, RuleAt(x).constraints)
  <2>1. PICK merged : /\ Merges(merged, matchedAllow)
                      /\ mergeConstraints(matchedAllow) = {merged[Len(matchedAllow)]}
    BY <1>2, <1>3, <1>4, MergeIsLast
  <2>2. Strict(merged[Len(matchedAllow)], matchedAllow, Len(matchedAllow))
    BY <1>2, <2>1, MergeIsStrict
  <2>3. QED
    BY <1>3, <2>1, <2>2 DEF Strict
<1>5. ASSUME NEW key, NEW v \in entry(RuleAt(x).obligations, key)
      PROVE  /\ DOMAIN RuleAt(matchedAllow[n]).obligations # {}
             /\ v \in UNION {entry(RuleAt(matchedAllow[k]).obligations, key) :
                                k \in 1..Len(matchedAllow)}
  BY <1>3, <1>5 DEF entry
<1>6. ASSUME NEW v \in entry(RuleAt(x).obligations, "notify")
      PROVE  \E o \in mergeObligations(matchedAllow) : v \subseteq o.notify
  BY <1>3, <1>5, <1>6 DEF mergeObligations
<1>7. ASSUME TRUE \in entry(RuleAt(x).obligations, "audit")
      PROVE  \E o \in mergeObligations(matchedAllow) : o.audit
  BY <1>3, <1>5, <1>7 DEF mergeObligations
<1>8. QED
  BY <1>1, <1>4, <1>6, <1>7 DEF Covers

\* The constraints of an allow are at least as strict as those of every allow
\* rule that applies, and no obligation of such a rule is lost, however many
\* rules mergeConstraints merges.
THEOREM StrictestAlwaysWins == Spec => []StrictestWins
<1>1. Init => StrictestWins
  BY DEF Init, StrictestWins, AllowDecisions
<1>2. TypeOK /\ ScanInvariant /\ StrictestWins /\ [Next]_vars => StrictestWins'
  <2> SUFFICES ASSUME TypeOK, ScanInvariant, StrictestWins, [Next]_vars,
                      decision' \in AllowDecisions
               PROVE  StrictestWins'
    BY DEF StrictestWins
  <2>0. (\A x \in Matched(req, Selected, "allow")' : Covers(dec', x)) => StrictestWins'
    BY DEF StrictestWins, Covers
  <2>1. CASE SkipRule \/ MatchRule \/ NextPolicy
    <3>1. decision' = "none"
      BY <2>1 DEF SkipRule, MatchRule, NextPolicy, AtRule, Scanning, result
    <3>2. QED
      BY <3>1 DEF AllowDecisions
  <2>2. CASE FailRule
    BY <2>2 DEF FailRule, AllowDecisions
  <2>3. CASE Decide
    <3>1. /\ decision = "none" /\ i > Len(policies) /\ req' = req /\ policies' = policies
          /\ dec' = Attachments /\ Combination \in AllowDecisions
      BY <2>3 DEF Decide, input
    <3>2. matchedDeny = <<>> /\ matchedApproval = <<>>
      BY <3>1 DEF Combination, AllowDecisions
    <3>3. Scanned = Positions(Selected) /\ Positions(Selected) \subseteq Positions(PolicyId)
      BY <3>1, ScanIsComplete DEF Scanned
    <3>4. Elements(matchedAllow) = Matched(req, Selected, "allow")
      BY <3>1, <3>3 DEF ScanInvariant, Matched
    <3>5. Matched(req, Selected, "allow")' = Elements(matchedAllow)
      BY <3>1, <3>4 DEF Matched, Selected
    <3>6. \A x \in Elements(matchedAllow) : Covers(dec', x)
      BY <3>1, <3>2, AttachmentsAreStrict
    <3>7. \A x \in Matched(req, Selected, "allow")' : Covers(dec', x)
      BY <3>5, <3>6
    <3>8. QED
      BY <2>0, <3>7
  <2>4. CASE Done \/ UNCHANGED vars
    <3>1. UNCHANGED <<req, policies, decision, dec>>
      BY <2>4 DEF Done, vars, input, result
    <3>2. Matched(req, Selected, "allow")' = Matched(req, Selected, "allow")
      BY <3>1 DEF Matched, Selected
    <3>3. \A x \in Matched(req, Selected, "allow") : Covers(dec, x)
      BY <3>1 DEF StrictestWins, Covers
    <3>4. \A x \in Matched(req, Selected, "allow")' : Covers(dec', x)
      BY <3>1, <3>2, <3>3
    <3>5. QED
      BY <2>0, <3>4
  <2>5. QED
    BY <2>1, <2>2, <2>3, <2>4 DEF Next
<1>3. QED
  BY <1>1, <1>2, TypeCorrect, ScanIsInvariant, PTL DEF Spec

-----------------------------------------------------------------------------
(* What a decision carries is determined by the set of the rules matched.  *)

\* The least value of a set with one more value.
LEMMA LeastOfOneMore ==
    ASSUME NEW A \in SUBSET Int, NEW B \in SUBSET Int,
           \A v, w \in B : v = w,
           \A v \in A : \E n \in least(A) : n <= v
    PROVE  /\ minimum(least(A), B) = least(A \cup B)
           /\ \A v \in A \cup B : \E n \in least(A \cup B) : n <= v
<1> DEFINE L == least(A)
<1>1. L \subseteq A /\ \A v \in L, w \in A : v <= w
  BY DEF least
<1>2. \A v, w \in L : v = w
  <2> HIDE DEF L
  <2> SUFFICES ASSUME NEW v \in L, NEW w \in L PROVE v = w
    OBVIOUS
  <2>1. v \in Int /\ w \in Int /\ v <= w /\ w <= v
    BY <1>1
  <2>2. QED
    BY <2>1
<1>3. \A v \in A : \E n \in L : n <= v
  OBVIOUS
<1>4. \A x : x \in minimum(L, B) <=> x \in L \cup B /\ \A y \in L \cup B : x <= y
  BY DEF minimum
<1>5. \A x : x \in least(A \cup B) <=> x \in A \cup B /\ \A y \in A \cup B : x <= y
  BY DEF least
<1>6. \A v \in L \cup B : \E n \in minimum(L, B) : n <= v
  BY <1>1, <1>2, MinimumIsStrict
<1> HIDE DEF L
<1>7. ASSUME NEW x \in minimum(L, B) PROVE x \in least(A \cup B)
  <2>1. x \in A \cup B /\ x \in Int /\ \A y \in L \cup B : x <= y
    BY <1>1, <1>4
  <2>2. ASSUME NEW y \in A PROVE x <= y
    <3>1. PICK n \in L : n <= y
      BY <1>3
    <3>2. x <= n /\ n \in Int /\ y \in Int
      BY <1>1, <2>1
    <3>3. QED
      BY <2>1, <3>1, <3>2
  <2>3. QED
    BY <1>5, <2>1, <2>2
<1>8. ASSUME NEW x \in least(A \cup B) PROVE x \in minimum(L, B)
  <2>1. x \in A \cup B /\ \A y \in A \cup B : x <= y
    BY <1>5
  <2>2. x \in A => x \in L
    BY <2>1 DEF L, least
  <2>3. QED
    BY <1>1, <1>4, <2>1, <2>2
<1>9. minimum(L, B) = least(A \cup B)
  BY <1>7, <1>8
<1>10. ASSUME NEW v \in A \cup B PROVE \E n \in least(A \cup B) : n <= v
  <2>1. PICK u \in L \cup B : u <= v
    <3>1. v <= v
      OBVIOUS
    <3>2. QED
      BY <1>3, <3>1
  <2>2. PICK n \in minimum(L, B) : n <= u
    BY <1>6
  <2>3. u \in Int /\ v \in Int /\ n \in Int
    BY <1>1, <1>4
  <2>4. n <= v
    BY <2>1, <2>2, <2>3
  <2>5. QED
    BY <1>9, <2>4
<1>11. QED
  BY <1>9, <1>10 DEF L

\* What one more map of constraints gives a key.
LEMMA GivenOneMore ==
    ASSUME NEW cs, NEW c, NEW key
    PROVE  given(cs \cup {c}, key) = given(cs, key) \cup entry(c, key)
BY DEF given

\* The seconds a set of constraint maps gives.
GivenSeconds(cs) == {parseDurationSeconds(d) : d \in given(cs, "expiresIn")}

\* The maps are well typed, and the least value of each number exists.
HasLeast(cs) ==
    /\ \A c \in cs : ValueTypes(c)
    /\ \A v \in given(cs, "maxRecords") : \E n \in least(given(cs, "maxRecords")) : n <= v
    /\ \A v \in given(cs, "timeWindowSeconds") :
          \E n \in least(given(cs, "timeWindowSeconds")) : n <= v
    /\ \A v \in GivenSeconds(cs) : \E n \in least(GivenSeconds(cs)) : n <= v

\* The fields all the lists of a set allow, as the merge keeps them.
Common(lists) == {{f \in g : \A h \in lists : f \in h} : g \in lists}

\* One more list of fields, or none, intersects the common ones.
LEMMA CommonOfOneMore ==
    ASSUME NEW A, NEW B, \A v, w \in B : v = w
    PROVE  /\ Common(A) = {} \/ B = {} => Common(A \cup B) = Common(A) \cup B
           /\ Common(A) # {} /\ B # {} =>
                 Common(A \cup B) = intersectStrings(Common(A), B)
<1>1. Common(A) = {} <=> A = {}
  BY DEF Common
<1>2. CASE B = {}
  BY <1>2 DEF Common
<1>3. CASE A = {} /\ B # {}
  <2>1. PICK b : B = {b}
    BY <1>3
  <2>2. Common(A \cup B) = {b}
    BY <1>3, <2>1 DEF Common
  <2>3. QED
    BY <1>1, <1>3, <2>1, <2>2
<1>4. CASE A # {} /\ B # {}
  <2>1. PICK b : B = {b}
    BY <1>4
  <2>2. PICK a : a \in A
    BY <1>4
  <2> DEFINE shared == {f \in a : \A h \in A : f \in h}
  <2>3. \A g \in A : {f \in g : \A h \in A : f \in h} = shared
    BY <2>2
  <2>4. Common(A) = {shared}
    BY <2>2, <2>3 DEF Common
  <2>5. ASSUME NEW g \in A \cup B
        PROVE  {f \in g : \A h \in A \cup B : f \in h} = shared \cap b
    BY <2>1, <2>2, <2>5
  <2>6. Common(A \cup B) = {shared \cap b}
    BY <2>2, <2>5 DEF Common
  <2> HIDE DEF shared
  <2>7. intersectStrings(Common(A), B) = {shared \cap b}
    BY <2>1, <2>4 DEF intersectStrings
  <2>8. QED
    BY <1>1, <1>4, <2>6, <2>7
<1>5. QED
  BY <1>2, <1>3, <1>4

\* One iteration takes the strictest record of a set of maps to that of the set
\* with one more map.
LEMMA MergingIsStrictest ==
    ASSUME NEW cs, NEW c, HasLeast(cs), ValueTypes(c)
    PROVE  /\ mergeRuleConstraints(strictest(cs), c) = strictest(cs \cup {c})
           /\ HasLeast(cs \cup {c})
<1> DEFINE ds == cs \cup {c}
           s == strictest(cs)
<1>1. \A key : given(ds, key) = given(cs, key) \cup entry(c, key)
  BY GivenOneMore
<1>2. GivenSeconds(ds) = GivenSeconds(cs) \cup Seconds(c)
  BY <1>1 DEF GivenSeconds, Seconds
<1>3. /\ given(cs, "maxRecords") \in SUBSET Int
      /\ given(cs, "timeWindowSeconds") \in SUBSET Int
      /\ GivenSeconds(cs) \in SUBSET Int
  BY DEF HasLeast, ValueTypes, given, GivenSeconds, Seconds
<1>4. /\ minimum(least(given(cs, "maxRecords")), entry(c, "maxRecords"))
            = least(given(ds, "maxRecords"))
      /\ \A v \in given(ds, "maxRecords") : \E n \in least(given(ds, "maxRecords")) : n <= v
  <2>1. given(ds, "maxRecords") = given(cs, "maxRecords") \cup entry(c, "maxRecords")
    BY <1>1
  <2>2. entry(c, "maxRecords") \in SUBSET Int /\ \A v, w \in entry(c, "maxRecords") : v = w
    BY DEF ValueTypes
  <2>3. \A v \in given(cs, "maxRecords") : \E n \in least(given(cs, "maxRecords")) : n <= v
    BY DEF HasLeast
  <2> HIDE DEF ds
  <2>4. QED
    BY <1>3, <2>1, <2>2, <2>3, LeastOfOneMore
<1>5. /\ minimum(least(given(cs, "timeWindowSeconds")), entry(c, "timeWindowSeconds"))
            = least(given(ds, "timeWindowSeconds"))
      /\ \A v \in given(ds, "timeWindowSeconds") :
            \E n \in least(given(ds, "timeWindowSeconds")) : n <= v
  <2>1. given(ds, "timeWindowSeconds") = given(cs, "timeWindowSeconds") \cup entry(c, "timeWindowSeconds")
    BY <1>1
  <2>2. entry(c, "timeWindowSeconds") \in SUBSET Int /\ \A v, w \in entry(c, "timeWindowSeconds") : v = w
    BY DEF ValueTypes
  <2>3. \A v \in given(cs, "timeWindowSeconds") : \E n \in least(given(cs, "timeWindowSeconds")) : n <= v
    BY DEF HasLeast
  <2> HIDE DEF ds
  <2>4. QED
    BY <1>3, <2>1, <2>2, <2>3, LeastOfOneMore
<1>6. /\ minimum(least(GivenSeconds(cs)), Seconds(c)) = least(GivenSeconds(ds))
      /\ \A v \in GivenSeconds(ds) : \E n \in least(GivenSeconds(ds)) : n <= v
  BY <1>2, <1>3, LeastOfOneMore DEF HasLeast, ValueTypes
<1>7. HasLeast(ds)
  BY <1>4, <1>5, <1>6 DEF HasLeast
<1>8. /\ s.maxRecords = least(given(cs, "maxRecords"))
      /\ s.timeWindowSeconds = least(given(cs, "timeWindowSeconds"))
      /\ s.expiresInSeconds = least(GivenSeconds(cs))
      /\ s.redact = UNION given(cs, "redact")
      /\ s.readonly = IF TRUE \in given(cs, "readonly") THEN {TRUE} ELSE given(cs, "readonly")
      /\ s.allowedFields = Common(given(cs, "allowedFields"))
  BY DEF strictest, GivenSeconds, Common
<1> DEFINE anyReadonly == IF TRUE \in given(ds, "readonly") THEN {TRUE} ELSE given(ds, "readonly")
           both == s.readonly \cup entry(c, "readonly")
           eitherReadonly == IF TRUE \in both THEN {TRUE} ELSE both
           fields == IF s.allowedFields = {} \/ entry(c, "allowedFields") = {}
                     THEN s.allowedFields \cup entry(c, "allowedFields")
                     ELSE intersectStrings(s.allowedFields, entry(c, "allowedFields"))
<1>9. strictest(ds) =
        [maxRecords |-> least(given(ds, "maxRecords")),
         readonly |-> anyReadonly,
         redact |-> UNION given(ds, "redact"),
         timeWindowSeconds |-> least(given(ds, "timeWindowSeconds")),
         allowedFields |-> Common(given(ds, "allowedFields")),
         expiresInSeconds |-> least(GivenSeconds(ds))]
  BY DEF strictest, GivenSeconds, Common
<1>10. mergeRuleConstraints(s, c) =
        [maxRecords |-> minimum(s.maxRecords, entry(c, "maxRecords")),
         readonly |-> eitherReadonly,
         redact |-> s.redact \cup UNION entry(c, "redact"),
         timeWindowSeconds |->
             minimum(s.timeWindowSeconds, entry(c, "timeWindowSeconds")),
         allowedFields |-> fields,
         expiresInSeconds |-> minimum(s.expiresInSeconds, Seconds(c))]
  BY DEF mergeRuleConstraints, Seconds
<1>11. fields = Common(given(ds, "allowedFields"))
  <2>1. given(ds, "allowedFields") = given(cs, "allowedFields") \cup entry(c, "allowedFields")
    BY <1>1
  <2>2. \A v, w \in entry(c, "allowedFields") : v = w
    BY DEF ValueTypes
  <2> HIDE DEF ds, s
  <2>3. QED
    BY <1>8, <2>1, <2>2, CommonOfOneMore
<1>12. eitherReadonly = anyReadonly
  <2>1. given(ds, "readonly") = given(cs, "readonly") \cup entry(c, "readonly")
    BY <1>1
  <2> HIDE DEF ds, s
  <2>2. QED
    BY <1>8, <2>1
<1>13. s.redact \cup UNION entry(c, "redact") = UNION given(ds, "redact")
  <2>1. given(ds, "redact") = given(cs, "redact") \cup entry(c, "redact")
    BY <1>1
  <2>2. QED
    BY <1>8, <2>1
<1> HIDE DEF s, ds, eitherReadonly, anyReadonly, fields
<1>14. mergeRuleConstraints(s, c) = strictest(ds)
  BY <1>4, <1>5, <1>6, <1>8, <1>9, <1>10, <1>11, <1>12, <1>13
<1>15. QED
  BY <1>7, <1>14 DEF s, ds

\* The constraints of the first n rules of a list.
FirstConstraints(list, n) == {RuleAt(list[k]).constraints : k \in 1..n}

\* After its last iteration the merge holds the strictest record of the SET of
\* the constraints merged.
LEMMA MergeIsStrictest ==
    ASSUME NEW list \in Seq(Positions(PolicyId)), NEW merged, Merges(merged, list)
    PROVE  merged[Len(list)] = strictest(FirstConstraints(list, Len(list)))
<1> DEFINE Good(n) == /\ HasLeast(FirstConstraints(list, n))
                      /\ merged[n] = strictest(FirstConstraints(list, n))
           S == {n \in Nat : n <= Len(list) => Good(n)}
<1>1. Len(list) \in Nat /\ \A n \in 1..Len(list) : list[n] \in Positions(PolicyId)
  OBVIOUS
<1>2. /\ merged[0] = noConstraints
      /\ \A n \in 1..Len(list) :
            merged[n] = mergeRuleConstraints(merged[n - 1], RuleAt(list[n]).constraints)
  BY <1>1 DEF Merges
<1>3. 0 \in S
  <2>1. FirstConstraints(list, 0) = {}
    BY DEF FirstConstraints
  <2>2. /\ \A key : given({}, key) = {}
        /\ GivenSeconds({}) = {}
    BY DEF given, GivenSeconds
  <2>3. HasLeast({})
    BY <2>2 DEF HasLeast
  <2>4. strictest({}) = noConstraints
    <3>1. least({}) = {} /\ UNION {} = {}
      BY DEF least
    <3>2. {parseDurationSeconds(d) : d \in {}} = {}
      OBVIOUS
    <3>3. {{f \in g : \A h \in {} : f \in h} : g \in {}} = {}
      OBVIOUS
    <3>4. QED
      BY <2>2, <3>1, <3>2, <3>3 DEF strictest, noConstraints
  <2>5. QED
    BY <1>2, <2>1, <2>3, <2>4
<1>4. ASSUME NEW n \in S PROVE n + 1 \in S
  <2>1. SUFFICES ASSUME n + 1 <= Len(list) PROVE Good(n + 1)
    OBVIOUS
  <2>2. n \in Nat /\ n <= Len(list) /\ n + 1 \in 1..Len(list) /\ (n + 1) - 1 = n
    BY <1>1, <2>1
  <2>3. Good(n)
    BY <2>2
  <2>4. merged[n + 1] = mergeRuleConstraints(merged[n], RuleAt(list[n + 1]).constraints)
    BY <1>2, <2>2
  <2>5. FirstConstraints(list, n + 1)
          = FirstConstraints(list, n) \cup {RuleAt(list[n + 1]).constraints}
    <3>1. 1..(n + 1) = (1..n) \cup {n + 1}
      BY <2>2
    <3>2. QED
      BY <3>1 DEF FirstConstraints
  <2>6. ValueTypes(RuleAt(list[n + 1]).constraints)
    BY <1>1, <2>2, RuleConstraintTypes
  <2>7. QED
    BY <2>3, <2>4, <2>5, <2>6, MergingIsStrictest
<1>5. S = Nat
  <2>1. S \in SUBSET Nat
    OBVIOUS
  <2> HIDE DEF S
  <2>2. QED
    BY <1>3, <1>4, <2>1, InductionInNat
<1>6. QED
  BY <1>1, <1>5

\* What a list of allow rules attaches is what the set of them does.
LEMMA AllowOfElements ==
    ASSUME NEW list \in Seq(Positions(PolicyId))
    PROVE  [policyIds |-> collectPolicyIDs(list), approval |-> {},
            constraints |-> mergeConstraints(list), obligations |-> mergeObligations(list)]
             = AllowOf(Elements(list))
<1> DEFINE xs == Elements(list)
           cs == {RuleAt(x).constraints : x \in xs}
           os == {RuleAt(x).obligations : x \in xs}
<1>1. Len(list) \in Nat
  OBVIOUS
<1>2. collectPolicyIDs(list) = {x[1] : x \in xs}
  BY DEF collectPolicyIDs, Elements
<1>3. mergeConstraints(list) = IF \A c \in cs : DOMAIN c = {} THEN {} ELSE {strictest(cs)}
  <2>1. CASE \A c \in cs : DOMAIN c = {}
    BY <2>1, MergeIsNil
  <2>2. CASE \E c \in cs : DOMAIN c # {}
    <3>1. PICK n \in 1..Len(list) : DOMAIN RuleAt(list[n]).constraints # {}
      BY <2>2 DEF Elements
    <3>2. PICK merged : Merges(merged, list) /\ mergeConstraints(list) = {merged[Len(list)]}
      BY <1>1, <3>1, MergeIsLast
    <3>3. merged[Len(list)] = strictest(FirstConstraints(list, Len(list)))
      BY <3>2, MergeIsStrictest
    <3>4. FirstConstraints(list, Len(list)) = cs
      BY DEF FirstConstraints, Elements
    <3>5. QED
      BY <2>2, <3>2, <3>3, <3>4
  <2>3. QED
    BY <2>1, <2>2
<1>4. mergeObligations(list) =
        IF \A o \in os : DOMAIN o = {} THEN {}
        ELSE {[audit |-> TRUE \in given(os, "audit"),
               logFullRequest |-> TRUE \in given(os, "logFullRequest"),
               notify |-> UNION given(os, "notify")]}
  <2> DEFINE all(key) == UNION {entry(RuleAt(list[n]).obligations, key) : n \in 1..Len(list)}
  <2>1. ASSUME NEW key PROVE all(key) = given(os, key)
    BY DEF given, Elements
  <2>2. (\A n \in 1..Len(list) : DOMAIN RuleAt(list[n]).obligations = {})
          <=> \A o \in os : DOMAIN o = {}
    BY DEF Elements
  <2>3. mergeObligations(list) =
          IF \A n \in 1..Len(list) : DOMAIN RuleAt(list[n]).obligations = {} THEN {}
          ELSE {[audit |-> TRUE \in all("audit"),
                 logFullRequest |-> TRUE \in all("logFullRequest"),
                 notify |-> UNION all("notify")]}
    BY DEF mergeObligations
  <2> HIDE DEF all, os
  <2>4. QED
    BY <2>1, <2>2, <2>3
<1>5. AllowOf(xs) =
        [policyIds |-> {x[1] : x \in xs}, approval |-> {},
         constraints |-> IF \A c \in cs : DOMAIN c = {} THEN {} ELSE {strictest(cs)},
         obligations |-> IF \A o \in os : DOMAIN o = {} THEN {}
                         ELSE {[audit |-> TRUE \in given(os, "audit"),
                                logFullRequest |-> TRUE \in given(os, "logFullRequest"),
                                notify |-> UNION given(os, "notify")]}]
  BY DEF AllowOf
<1>6. QED
  BY <1>2, <1>3, <1>4, <1>5

\* The final combination attaches what the reference does.
LEMMA DecideAttaches ==
    ASSUME TypeOK, ScanInvariant, Decide
    PROVE  AttachmentsAreReference'
<1>1. /\ decision = "none" /\ i > Len(policies) /\ req' = req /\ policies' = policies
      /\ dec' = Attachments /\ decision' = Combination
  BY DEF Decide, input
<1>2. Scanned = Positions(Selected) /\ Positions(Selected) \subseteq Positions(PolicyId)
  BY <1>1, ScanIsComplete DEF Scanned
<1>3. /\ Elements(matchedDeny) = Matched(req, Selected, "deny")
      /\ Elements(matchedApproval) = Matched(req, Selected, "approval")
      /\ Elements(matchedAllow) = Matched(req, Selected, "allow")
  BY <1>1, <1>2 DEF ScanInvariant, Matched
<1>4. \A kind : Matched(req, Selected, kind)' = Matched(req, Selected, kind)
  BY <1>1 DEF Matched, Selected
<1>5. \A list : collectPolicyIDs(list) = {x[1] : x \in Elements(list)}
  BY DEF collectPolicyIDs, Elements
<1>6. CASE matchedDeny # <<>>
  <2>1. decision' = "deny"
        /\ dec' = [Nothing EXCEPT !.policyIds = {x[1] : x \in Elements(matchedDeny)}]
    BY <1>1, <1>5, <1>6 DEF Combination, Attachments
  <2>2. QED
    BY <1>3, <1>4, <2>1 DEF AttachmentsAreReference, AllowDecisions, Nothing
<1>7. CASE matchedDeny = <<>> /\ matchedApproval # <<>>
  <2> DEFINE x == matchedApproval[1]
  <2>1. x \in Elements(matchedApproval)
    BY <1>7 DEF TypeOK, Elements
  <2>2. decision' = "require_approval"
        /\ dec' = [Nothing EXCEPT !.policyIds = {y[1] : y \in Elements(matchedApproval)},
                                  !.approval = ApprovalOf(RuleAt(x))]
    BY <1>1, <1>5, <1>7 DEF Combination, Attachments
  <2> HIDE DEF x
  <2>3. QED
    BY <1>3, <1>4, <2>1, <2>2 DEF AttachmentsAreReference, AllowDecisions, Nothing
<1>8. CASE matchedDeny = <<>> /\ matchedApproval = <<>> /\ matchedAllow # <<>>
  <2>1. decision' \in AllowDecisions
    BY <1>1, <1>8 DEF Combination, AllowDecisions
  <2>2. dec' = AllowOf(Elements(matchedAllow))
    <3>1. matchedAllow \in Seq(Positions(PolicyId))
      BY DEF TypeOK
    <3>2. QED
      BY <1>1, <1>8, <3>1, AllowOfElements DEF Attachments
  <2>3. dec' = AllowOf(Matched(req, Selected, "allow")')
    BY <1>3, <1>4, <2>2
  <2>4. decision' \notin {"deny", "require_approval"}
    BY <2>1 DEF AllowDecisions
  <2>5. QED
    BY <2>3, <2>4 DEF AttachmentsAreReference
<1>9. CASE matchedDeny = <<>> /\ matchedApproval = <<>> /\ matchedAllow = <<>>
  <2>1. decision' = "deny" /\ Elements(matchedAllow) = {} /\ Elements(matchedDeny) = {}
    BY <1>1, <1>9 DEF Combination, Elements
  <2>2. mergeConstraints(<<>>) = {} /\ mergeObligations(<<>>) = {}
    BY MergeIsNil DEF mergeObligations, Elements
  <2>3. dec' = Nothing
    BY <1>1, <1>5, <1>9, <2>1, <2>2 DEF Attachments, Nothing
  <2>4. Nothing = [Nothing EXCEPT !.policyIds = {x[1] : x \in Elements(matchedDeny)}]
    BY <2>1 DEF Nothing
  <2>5. QED
    BY <1>3, <1>4, <2>1, <2>3, <2>4 DEF AttachmentsAreReference, AllowDecisions, Nothing
<1>10. QED
  BY <1>6, <1>7, <1>8, <1>9

\* What goes with a decision is what the set of selected policies determines:
\* neither the order in which a store lists them nor the merge of their rules
\* one by one shows in the constraints, the obligations or the policies named.
THEOREM AttachmentsDetermined == Spec => []AttachmentsAreReference
<1>1. Init => AttachmentsAreReference
  BY DEF Init, AttachmentsAreReference, AllowDecisions
<1>2. TypeOK /\ ScanInvariant /\ AttachmentsAreReference /\ [Next]_vars
        => AttachmentsAreReference'
  <2> SUFFICES ASSUME TypeOK, ScanInvariant, AttachmentsAreReference, [Next]_vars
               PROVE  AttachmentsAreReference'
    OBVIOUS
  <2>1. CASE SkipRule \/ MatchRule \/ NextPolicy
    <3>1. decision' = "none"
      BY <2>1 DEF SkipRule, MatchRule, NextPolicy, AtRule, Scanning, result
    <3>2. QED
      BY <3>1 DEF AttachmentsAreReference, AllowDecisions
  <2>2. CASE FailRule
    <3>1. /\ decision' = "deny" /\ req' = req /\ policies' = policies /\ AtRule
          /\ "error" \in RuleOutcomes(RuleAt(Here), req)
          /\ dec' = [Nothing EXCEPT !.policyIds = {policies[i]}]
      BY <2>2 DEF FailRule, input
    <3>2. Here \in Positions(Selected) /\ Here[1] = policies[i]
      BY <3>1, HereIsAPosition DEF AtRule, Scanning, Selected, Positions, Here
    <3>3. Positions(Selected)' = Positions(Selected)
      BY <3>1 DEF Selected
    <3>4. \E x \in Positions(Selected)' :
              /\ "error" \in RuleOutcomes(RuleAt(x), req')
              /\ dec' = [Nothing EXCEPT !.policyIds = {x[1]}]
      BY <3>1, <3>2, <3>3
    <3>5. QED
      BY <3>1, <3>4 DEF AttachmentsAreReference, AllowDecisions, Nothing
  <2>3. CASE Decide
    BY <2>3, DecideAttaches
  <2>4. CASE Done \/ UNCHANGED vars
    <3>1. UNCHANGED <<req, policies, decision, dec>>
      BY <2>4 DEF Done, vars, input, result
    <3>2. /\ \A kind : Matched(req, Selected, kind)' = Matched(req, Selected, kind)
          /\ Positions(Selected)' = Positions(Selected)
      BY <3>1 DEF Matched, Selected
    <3>3. CASE decision = "deny"
      BY <3>1, <3>2, <3>3 DEF AttachmentsAreReference, AllowDecisions, Nothing
    <3>4. CASE decision = "require_approval"
      BY <3>1, <3>2, <3>4 DEF AttachmentsAreReference, AllowDecisions, Nothing
    <3>5. CASE decision \notin {"deny", "require_approval"}
      BY <3>1, <3>2, <3>5 DEF AttachmentsAreReference
    <3>6. QED
      BY <3>3, <3>4, <3>5
  <2>5. QED
    BY <2>1, <2>2, <2>3, <2>4 DEF Next
<1>3. QED
  BY <1>1, <1>2, TypeCorrect, ScanIsInvariant, PTL DEF Spec

-----------------------------------------------------------------------------
(* How far two comments of the code are right that runs refute as written. *)

\* A rule that names the request, and has a malformed condition and no unmet
\* one, is an error in every order of its conditions.
LEMMA MalformedRuleIsError ==
    ASSUME NEW rule, NEW r, NEW k \in DOMAIN rule.conditions,
           actionMatches(rule.actions, r.action),
           resourceMatches(rule.resources, r),
           ~wellFormedCondition(k, rule.conditions[k]),
           \A h \in DOMAIN rule.conditions :
               "unmet" \notin conditionOutcomes(h, rule.conditions[h], r)
    PROVE  RuleOutcomes(rule, r) = {"error"}
<1> DEFINE O == UNION {conditionOutcomes(h, rule.conditions[h], r) :
                           h \in DOMAIN rule.conditions}
<1>1. "error" \in O /\ "unmet" \notin O
  <2>1. conditionOutcomes(k, rule.conditions[k], r) = {"error"}
    BY DEF conditionOutcomes
  <2>2. QED
    BY <2>1
<1>2. conditionsMet(rule, r) = firstFailure(O)
  BY DEF conditionsMet
<1>3. firstFailure(O) = O \ {"met"}
  BY <1>1 DEF firstFailure
<1>4. conditionsMet(rule, r) = {"error"}
  <2>1. "error" \in conditionsMet(rule, r) /\ "unmet" \notin conditionsMet(rule, r)
    BY <1>1, <1>2, <1>3
  <2>2. conditionsMet(rule, r) \subseteq {"unmet", "error"}
    BY <2>1, ConditionsMetRange
  <2>3. QED
    BY <2>1, <2>2
<1>5. QED
  BY <1>4 DEF RuleOutcomes

\* A malformed condition denies the request, in every order in which Go ranges
\* over the policies and the conditions, if its rule names the request and no
\* condition of the rule is unmet: the fail-closed comment of conditionsMet
\* holds but for a rule that an unmet condition can skip first.
THEOREM MalformedAloneDenies == Spec => []MalformedAloneFailsClosed
<1>1. DecisionIsReference => MalformedAloneFailsClosed
  <2> SUFFICES ASSUME DecisionIsReference, decision # "none",
                      NEW x \in Positions(Selected),
                      actionMatches(RuleAt(x).actions, req.action),
                      resourceMatches(RuleAt(x).resources, req),
                      \E k \in DOMAIN RuleAt(x).conditions :
                          ~wellFormedCondition(k, RuleAt(x).conditions[k]),
                      \A k \in DOMAIN RuleAt(x).conditions :
                          "unmet" \notin conditionOutcomes(k, RuleAt(x).conditions[k], req)
               PROVE  decision = "deny"
    BY DEF MalformedAloneFailsClosed
  <2>1. RuleOutcomes(RuleAt(x), req) = {"error"}
    BY MalformedRuleIsError
  <2>2. MustFail(req, Selected)
    BY <2>1 DEF MustFail
  <2>3. QED
    BY <2>2 DEF DecisionIsReference, RuleVerdicts
<1>2. QED
  BY <1>1, ScanCorrect, PTL

\* The strictest constraints survive the JSON of a grant unchanged if the rules
\* that name fields have a field in common.
LEMMA SharedFieldSurvives ==
    ASSUME NEW cs,
           given(cs, "allowedFields") # {} =>
               \E f \in UNION given(cs, "allowedFields") :
                   \A g \in given(cs, "allowedFields") : f \in g
    PROVE  grantConstraints({strictest(cs)}) = {strictest(cs)}
<1> DEFINE c == strictest(cs)
           lists == given(cs, "allowedFields")
<1>1. c.allowedFields = {{f \in g : \A h \in lists : f \in h} : g \in lists}
  BY DEF strictest
<1>2. {} \notin c.allowedFields
  <2>1. CASE lists = {}
    BY <1>1, <2>1
  <2>2. CASE lists # {}
    <3>1. PICK f : \A g \in lists : f \in g
      BY <2>2
    <3>2. \A g \in lists : f \in {e \in g : \A h \in lists : e \in h}
      BY <3>1
    <3>3. QED
      BY <1>1, <3>2
  <2>3. QED
    BY <2>1, <2>2
<1>3. c.allowedFields \ {{}} = c.allowedFields
  BY <1>2
<1>4. [c EXCEPT !.allowedFields = c.allowedFields] = c
  BY DEF strictest
<1>5. QED
  BY <1>3, <1>4 DEF grantConstraints

\* What a resource API reads back from a grant is as strict as every allow rule
\* that applied, however many there are, if those that name fields share one:
\* the field restriction is lost in the JSON only when their lists are disjoint.
THEOREM SharedFieldsKept == Spec => []GrantKeepsSharedFields
<1>1. AttachmentsAreReference /\ StrictestWins => GrantKeepsSharedFields
  <2> DEFINE allow == Matched(req, Selected, "allow")
             cs == {RuleAt(x).constraints : x \in allow}
             lists == given(cs, "allowedFields")
  <2> SUFFICES ASSUME AttachmentsAreReference, StrictestWins,
                      decision = "allow_with_constraints",
                      lists # {} => \E f \in UNION lists : \A g \in lists : f \in g,
                      NEW x \in allow, DOMAIN RuleAt(x).constraints # {}
               PROVE  \E c \in grantConstraints(dec.constraints) :
                          AsStrictAs(c, RuleAt(x).constraints)
    BY DEF GrantKeepsSharedFields
  <2>1. \E c \in dec.constraints : AsStrictAs(c, RuleAt(x).constraints)
    BY DEF StrictestWins, AllowDecisions
  <2>2. dec = AllowOf(allow)
    BY DEF AttachmentsAreReference, AllowDecisions
  <2>3. dec.constraints = {strictest(cs)}
    BY <2>2 DEF AllowOf
  <2>4. grantConstraints(dec.constraints) = dec.constraints
    BY <2>3, SharedFieldSurvives
  <2>5. QED
    BY <2>1, <2>4
<1>2. QED
  BY <1>1, AttachmentsDetermined, StrictestAlwaysWins, PTL
=============================================================================
