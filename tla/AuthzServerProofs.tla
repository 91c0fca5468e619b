-------------------------- MODULE AuthzServerProofs -------------------------
(***************************************************************************)
(* The authorization server allows only fit agents, and with authentication*)
(* hands out credentials only in the caller's own name, for any number of  *)
(* handlers, agents, policies and requests.                                *)
(***************************************************************************)
EXTENDS AuthzServer, TLAPS

\* The values a handler's variables are reset to have their types.
LEMMA DefaultsHaveTypes ==
    AnySpec \in AgentSpec /\ AnyAgent \in AgentId /\ AnyRequest \in Request
BY SomethingToServe DEF AnySpec, AnyAgent, AnyRequest

\* What DataDir holds for an agent has the types of the store.
LEMMA LoadedHasType ==
    ASSUME NEW a \in AgentId
    PROVE  LoadedState(a) \in AgentState \cup {"absent"} /\ LoadedSpec(a) \in AgentSpec
BY DefaultsHaveTypes, DataDirAssumption DEF LoadedState, LoadedSpec, AgentState

\* A grant's lifetime is a natural number, and -1 stands for no grant.
LEMMA LifetimeHasType ==
    ASSUME NEW d, NEW L
    PROVE  lifetimeOf(d, L) \in Nat \cup {-1}
<1>1. effectiveTTL(L) \in Nat
  BY LifetimesAreSeconds DEF effectiveTTL
<1>2. QED
  BY <1>1 DEF lifetimeOf

\* evaluateRules and evaluateBackend settle on a decision of the vocabulary.
LEMMA DecideSettles ==
    ASSUME NEW h, IF Engine = "builtin" THEN evaluateRules(h) ELSE evaluateBackend(h)
    PROVE  \E d \in Decisions, t \in Nat \cup {-1} : Settle(h, d, t)
<1>1. ASSUME evaluateRules(h)
      PROVE  \E d \in Decisions, t \in Nat \cup {-1} : Settle(h, d, t)
  BY <1>1, LifetimeHasType DEF evaluateRules, RuleVerdicts, Decisions
<1>2. ASSUME Deny(h)
      PROVE  \E d \in Decisions, t \in Nat \cup {-1} : Settle(h, d, t)
  BY <1>2 DEF Deny, Decisions, RuleDecisions
<1>3. ASSUME NEW answer \in Answers
      PROVE  backendDecision(Result(answer)) \in Decisions
  <2>1. Result(answer).decision \in Decisions \cup {"unsupported"}
    BY DEF Answers, Result, opaResult, cedarResult, Decisions, RuleDecisions, AllowDecisions
  <2>2. QED
    BY <2>1 DEF backendDecision, Decisions, RuleDecisions, AllowDecisions
<1>4. ASSUME NEW answer \in Answers, settleResult(h, Result(answer))
      PROVE  \E d \in Decisions, t \in Nat \cup {-1} : Settle(h, d, t)
  BY <1>3, <1>4, LifetimeHasType DEF settleResult
<1>5. QED
  BY <1>1, <1>2, <1>4 DEF evaluateBackend

\* The initial values of the handlers' variables have their types.
LEMMA OfEachHasType ==
    ASSUME NEW S, NEW v \in S
    PROVE  OfEach(v) \in [Handler -> S]
BY DEF OfEach

LEMMA TypeInit == Init => TypeOK
<1>1. SUFFICES ASSUME Init PROVE TypeOK
  OBVIOUS
<1>2. state \in [AgentId -> AgentState \cup {"absent"}] /\ spec \in [AgentId -> AgentSpec]
  BY <1>1, LoadedHasType DEF Init
<1>3. attached \in [Handler -> BOOLEAN]
  BY <1>1, OfEachHasType, Zenon DEF Init
<1>4. QED
  BY <1>1, <1>2, <1>3, OfEachHasType, DefaultsHaveTypes, DataDirAssumption
     DEF Init, TypeOK, Evaluating, ReadState, Tokens

\* Settling, releasing and going on keep the types.
LEMMA SettleTypes ==
    ASSUME TypeOK, NEW h \in Handler, NEW d \in Decisions, NEW t \in Nat \cup {-1},
           Settle(h, d, t), UNCHANGED <<store, who, audit, history, issued>>
    PROVE  TypeOK'
BY DefaultsHaveTypes
   DEF TypeOK, Settle, store, who, history, issued, Evaluating, ReadState

LEMMA ReleaseTypes ==
    ASSUME TypeOK, NEW h \in Handler, Release(h), UNCHANGED <<store, stamped>>,
           grants' \subseteq Tokens, sessions' \subseteq Tokens
    PROVE  TypeOK'
BY DefaultsHaveTypes DEF TypeOK, Release, store, Evaluating, ReadState

LEMMA HandlerTypes ==
    ASSUME TypeOK, NEW h \in Handler, HandlerStep(h)
    PROVE  TypeOK'
<1>deny. "deny" \in Decisions
  BY DEF Decisions, RuleDecisions
<1>1. CASE GetAgent(h)
  <2>1. CASE Deny(h)
    BY <1>1, <2>1, <1>deny, SettleTypes DEF GetAgent, Deny
  <2>2. CASE ~Deny(h)
    <3>1. (Backend = "memory") \in BOOLEAN
      OBVIOUS
    <3>2. attached' \in [Handler -> BOOLEAN]
      BY <1>1, <2>2, <3>1 DEF GetAgent, TypeOK
    <3>3. hState' \in [Handler -> ReadState] /\ hSpec' \in [Handler -> AgentSpec]
      BY <1>1, <2>2 DEF GetAgent, TypeOK, ReadState
    <3>4. QED
      BY <1>1, <2>2, <3>2, <3>3
         DEF GetAgent, TypeOK, Proceed, store, who, verdict, history, issued, Evaluating
  <2>3. QED
    BY <2>1, <2>2
<1>2. CASE CheckRevoked(h)
  <2>1. CASE Deny(h)
    BY <1>2, <2>1, <1>deny, SettleTypes DEF CheckRevoked, Deny
  <2>2. CASE ~Deny(h)
    BY <1>2, <2>2
       DEF CheckRevoked, TypeOK, Proceed, store, who, copy, verdict, history, issued, Evaluating
  <2>3. QED
    BY <2>1, <2>2
<1>3. CASE CheckSuspended(h)
  <2>1. CASE Deny(h)
    BY <1>3, <2>1, <1>deny, SettleTypes DEF CheckSuspended, Deny
  <2>2. CASE ~Deny(h)
    BY <1>3, <2>2
       DEF CheckSuspended, TypeOK, Proceed, store, who, copy, verdict, history, issued, Evaluating
  <2>3. QED
    BY <2>1, <2>2
<1>4. CASE FindPolicies(h)
  <2>1. CASE Deny(h)
    BY <1>4, <2>1, <1>deny, SettleTypes DEF FindPolicies, Deny
  <2>2. CASE ~Deny(h)
    <3>1. PoliciesForAgent(h) \subseteq PolicyId
      BY DEF PoliciesForAgent, TypeOK
    <3>2. QED
      BY <1>4, <2>2, <3>1
         DEF FindPolicies, TypeOK, Proceed, store, who, verdict, history, issued, Evaluating
  <2>3. QED
    BY <2>1, <2>2
<1>5. CASE Decide(h)
  <2>1. PICK d \in Decisions, t \in Nat \cup {-1} : Settle(h, d, t)
    BY <1>5, DecideSettles DEF Decide
  <2>2. QED
    BY <1>5, <2>1, SettleTypes DEF Decide
<1>6. CASE IssueScoped(h)
  BY <1>6 DEF IssueScoped, TypeOK, store, who, copy, history, issued
<1>7. CASE emitAuditEvent(h)
  BY <1>7 DEF emitAuditEvent, TypeOK, store, who, copy, verdict, history
<1>8. CASE Respond(h)
  <2>1. grants' \subseteq Tokens
    BY <1>8 DEF Respond, TypeOK, Tokens
  <2>2. sessions' \subseteq Tokens
    BY <1>8 DEF Respond, TypeOK
  <2>3. QED
    BY <1>8, <2>1, <2>2, ReleaseTypes DEF Respond
<1>9. CASE FinishSession(h)
  <2>1. sessions' \subseteq Tokens
    BY <1>9, LifetimesAreSeconds DEF FinishSession, TypeOK, Tokens
  <2>2. grants' \subseteq Tokens
    BY <1>9 DEF FinishSession, TypeOK
  <2>3. QED
    BY <1>9, <2>1, <2>2, ReleaseTypes DEF FinishSession
<1>10. QED
  BY <1>1, <1>2, <1>3, <1>4, <1>5, <1>6, <1>7, <1>8, <1>9 DEF HandlerStep

\* What history records of a step that changes the store is typed.
LEMMA ObserveTypes ==
    ASSUME TypeOK, NEW st, NEW sp \in [AgentId -> AgentSpec], Observe(st, sp)
    PROVE  /\ seen' \in [Handler -> SUBSET AgentSpec]
           /\ books' \in [Handler -> SUBSET SUBSET PolicyId]
BY DEF TypeOK, Observe, Sight

LEMMA ObservePoliciesTypes ==
    ASSUME TypeOK, NEW ps \in SUBSET PolicyId, ObservePolicies(ps)
    PROVE  /\ seen' \in [Handler -> SUBSET AgentSpec]
           /\ books' \in [Handler -> SUBSET SUBSET PolicyId]
BY DEF TypeOK, ObservePolicies

LEMMA StoreTypes ==
    ASSUME TypeOK, NEW a \in AgentId
    PROVE  /\ \A st \in GivenState :
                 /\ \A o \in Operator : BeginStatusUpdate(o, a, st) => TypeOK'
                 /\ \A s \in AgentSpec : RegisterAgent(a, s, st) => TypeOK'
           /\ DeleteAgent(a) => TypeOK'
           /\ \A p \in PolicyId : ApplyPolicy(p) \/ DeletePolicy(p) => TypeOK'
<1>1. ASSUME NEW o \in Operator, NEW st \in GivenState, BeginStatusUpdate(o, a, st)
      PROVE  TypeOK'
  BY <1>1, GivenStatesAreStates
     DEF BeginStatusUpdate, TypeOK, ReadState, who, verdict, history, issued
<1>2. ASSUME NEW st \in GivenState, NEW s \in AgentSpec, RegisterAgent(a, s, st)
      PROVE  TypeOK'
  <2>1. st \in AgentState
    BY GivenStatesAreStates
  <2>2. [spec EXCEPT ![a] = s] \in [AgentId -> AgentSpec]
    BY DEF TypeOK
  <2>3. /\ seen' \in [Handler -> SUBSET AgentSpec]
        /\ books' \in [Handler -> SUBSET SUBSET PolicyId]
    BY <1>2, <2>2, ObserveTypes DEF RegisterAgent
  <2>4. attached' \in [Handler -> BOOLEAN]
    BY <1>2, Zenon DEF RegisterAgent
  <2>5. QED
    BY <1>2, <2>1, <2>3, <2>4 DEF RegisterAgent, TypeOK, who, verdict, history, issued
<1>3. ASSUME DeleteAgent(a)
      PROVE  TypeOK'
  <2>1. spec \in [AgentId -> AgentSpec]
    BY DEF TypeOK
  <2>2. /\ seen' \in [Handler -> SUBSET AgentSpec]
        /\ books' \in [Handler -> SUBSET SUBSET PolicyId]
    BY <1>3, <2>1, ObserveTypes DEF DeleteAgent
  <2>3. attached' \in [Handler -> BOOLEAN]
    BY <1>3, Zenon DEF DeleteAgent
  <2>4. QED
    BY <1>3, <2>2, <2>3 DEF DeleteAgent, TypeOK, who, verdict, issued
<1>4. ASSUME NEW p \in PolicyId, ApplyPolicy(p) \/ DeletePolicy(p)
      PROVE  TypeOK'
  <2>1. policies' \subseteq PolicyId
    BY <1>4 DEF ApplyPolicy, DeletePolicy, TypeOK
  <2>2. /\ seen' \in [Handler -> SUBSET AgentSpec]
        /\ books' \in [Handler -> SUBSET SUBSET PolicyId]
    BY <1>4, <2>1, ObservePoliciesTypes DEF ApplyPolicy, DeletePolicy
  <2>3. QED
    BY <1>4, <2>1, <2>2 DEF ApplyPolicy, DeletePolicy, TypeOK, who, copy, verdict, issued
<1>5. QED
  BY <1>1, <1>2, <1>3, <1>4

LEMMA EndStatusUpdateTypes ==
    ASSUME TypeOK, NEW u \in updating, EndStatusUpdate(u)
    PROVE  TypeOK'
<1> DEFINE st == [state EXCEPT ![u.agent] = IF @ = "absent" THEN @ ELSE u.state]
           sp == IF Backend = "postgres" /\ state[u.agent] # "absent"
                 THEN [spec EXCEPT ![u.agent] = u.spec] ELSE spec
<1>1. u.agent \in AgentId /\ u.state \in AgentState /\ u.spec \in AgentSpec
  BY DEF TypeOK
<1>2. st \in [AgentId -> AgentState \cup {"absent"}] /\ sp \in [AgentId -> AgentSpec]
  BY <1>1 DEF TypeOK
<1>3. state' = st /\ spec' = sp /\ Observe(st, sp)
  BY DEF EndStatusUpdate
<1>4. /\ seen' \in [Handler -> SUBSET AgentSpec]
        /\ books' \in [Handler -> SUBSET SUBSET PolicyId]
  BY <1>2, <1>3, ObserveTypes
<1>5. hState' \in [Handler -> ReadState]
  BY <1>1 DEF EndStatusUpdate, TypeOK, ReadState
<1>6. state' \in [AgentId -> AgentState \cup {"absent"}] /\ spec' \in [AgentId -> AgentSpec]
  BY <1>2, <1>3
<1>7. QED
  BY <1>4, <1>5, <1>6 DEF EndStatusUpdate, TypeOK, who, verdict, history, issued

\* An aged set of tokens is one.
LEMMA AgedTokens ==
    ASSUME NEW T, T \subseteq Tokens
    PROVE  Aged(T) \subseteq Tokens
<1>1. ASSUME NEW t \in T, t.left > 0
      PROVE  [t EXCEPT !.left = @ - 1] \in Tokens
  BY <1>1 DEF Tokens
<1>2. QED
  BY <1>1 DEF Aged

LEMMA TickTypes == TypeOK /\ Tick => TypeOK'
<1>1. SUFFICES ASSUME TypeOK, Tick PROVE TypeOK'
  OBVIOUS
<1>2. grants' \subseteq Tokens /\ sessions' \subseteq Tokens
  BY <1>1, AgedTokens DEF Tick, TypeOK
<1>3. left' \in [Handler -> Nat \cup {-1}]
  BY <1>1 DEF Tick, TypeOK
<1>4. QED
  BY <1>1, <1>2, <1>3 DEF Tick, TypeOK, store, who, copy, history

LEMMA RestartTypes == TypeOK /\ Restart => TypeOK'
<1>1. SUFFICES ASSUME TypeOK, Restart PROVE TypeOK'
  OBVIOUS
<1>2. state' \in [AgentId -> AgentState \cup {"absent"}]
  BY <1>1, LoadedHasType DEF Restart, TypeOK
<1>3. spec' \in [AgentId -> AgentSpec]
  BY <1>1, LoadedHasType DEF Restart, TypeOK
<1>4. attached' \in [Handler -> BOOLEAN]
  BY <1>1, OfEachHasType, Zenon DEF Restart
<1>5. policies' \subseteq PolicyId
  BY <1>1, DataDirAssumption DEF Restart, TypeOK
<1>6. grants' \subseteq Tokens /\ sessions' \subseteq Tokens /\ stamped' \in BOOLEAN
  BY <1>1 DEF Restart, TypeOK
<1>7. QED
  BY <1>1, <1>2, <1>3, <1>4, <1>5, <1>6, OfEachHasType, DefaultsHaveTypes
     DEF Restart, TypeOK, Evaluating, ReadState

LEMMA BeginTypes ==
    ASSUME TypeOK, NEW h \in Handler, NEW c \in AgentId, NEW a \in AgentId
    PROVE  /\ BeginSession(h, c, a) => TypeOK'
           /\ \A r \in Request : BeginAuthorize(h, c, a, r) => TypeOK'
<1>1. ASSUME BeginSession(h, c, a)
      PROVE  TypeOK'
  BY <1>1 DEF BeginSession, TypeOK, store, copy, verdict, history, issued
<1>2. ASSUME NEW r \in Request, BeginAuthorize(h, c, a, r)
      PROVE  TypeOK'
  <2>1. PICK b \in VerifiedAgentID(c, a) :
            /\ subject' = [subject EXCEPT ![h] = b]
            /\ seen' = [seen EXCEPT ![h] = Sight(b, r.action, state, spec)]
    BY <1>2 DEF BeginAuthorize
  <2>2. b \in AgentId
    BY <2>1 DEF VerifiedAgentID, TypeOK, Tokens
  <2>3. /\ seen' \in [Handler -> SUBSET AgentSpec]
        /\ books' \in [Handler -> SUBSET SUBSET PolicyId]
    <3>1. books' = [books EXCEPT ![h] = {policies}]
      BY <1>2 DEF BeginAuthorize
    <3>2. Sight(b, r.action, state, spec) \subseteq AgentSpec
      BY <2>2 DEF Sight, TypeOK
    <3>3. QED
      BY <2>1, <3>1, <3>2 DEF TypeOK
  <2>4. QED
    BY <1>2, <2>1, <2>2, <2>3
       DEF BeginAuthorize, TypeOK, store, copy, verdict, issued, Evaluating
<1>3. QED
  BY <1>1, <1>2

LEMMA TypeStep == TypeOK /\ [Next]_vars => TypeOK'
<1>1. SUFFICES ASSUME TypeOK, [Next]_vars PROVE TypeOK'
  OBVIOUS
<1>2. CASE Next
  BY <1>1, <1>2, HandlerTypes, BeginTypes, StoreTypes, EndStatusUpdateTypes, TickTypes,
     RestartTypes, SomethingToServe DEF Next
<1>3. CASE UNCHANGED vars
  BY <1>1, <1>3 DEF TypeOK, vars, store, who, copy, verdict, history, issued
<1>4. QED
  BY <1>1, <1>2, <1>3

\* Every variable of the server keeps its type, whatever handlers, operators,
\* the clock and restarts do.
THEOREM TypeCorrect == Spec => []TypeOK
BY TypeInit, TypeStep, PTL DEF Spec

-----------------------------------------------------------------------------
(* Only fit agents are allowed. *)

\* A step changes nothing handler k has read, decided or been given.
Untouched(k) ==
    /\ pc'[k] = pc[k] /\ subject'[k] = subject[k] /\ caller'[k] = caller[k]
    /\ request'[k] = request[k] /\ hState'[k] = hState[k] /\ hSpec'[k] = hSpec[k]
    /\ attached'[k] = attached[k] /\ pols'[k] = pols[k]
    /\ decision'[k] = decision[k] /\ left'[k] = left[k]
    /\ seen'[k] = seen[k] /\ books'[k] = books[k]

StoreUntouched ==
    state' = state /\ spec' = spec /\ policies' = policies /\ updating' = updating

LEMMA SettleTouches ==
    ASSUME TypeOK, NEW h \in Handler, NEW k \in Handler, k # h, NEW d, NEW t,
           Settle(h, d, t), UNCHANGED <<store, who, audit, history, issued>>
    PROVE  StoreUntouched /\ Untouched(k)
BY DEF TypeOK, Settle, StoreUntouched, Untouched, store, who, history

LEMMA ReleaseTouches ==
    ASSUME TypeOK, NEW h \in Handler, NEW k \in Handler, k # h, Release(h), UNCHANGED store
    PROVE  StoreUntouched /\ Untouched(k)
BY DEF TypeOK, Release, StoreUntouched, Untouched, store

\* The steps of one handler leave the store's agents and other handlers alone.
LEMMA HandlerTouches ==
    ASSUME TypeOK, NEW h \in Handler, NEW k \in Handler, k # h, HandlerStep(h)
    PROVE  StoreUntouched /\ Untouched(k)
<1>1. CASE GetAgent(h)
  <2>1. CASE Deny(h)
    BY <1>1, <2>1, SettleTouches DEF GetAgent, Deny
  <2>2. CASE ~Deny(h)
    BY <1>1, <2>2
       DEF GetAgent, Proceed, TypeOK, StoreUntouched, Untouched, store, who, verdict, history
  <2>3. QED
    BY <2>1, <2>2
<1>2. CASE CheckRevoked(h) \/ CheckSuspended(h)
  <2>1. CASE Deny(h)
    BY <1>2, <2>1, SettleTouches DEF CheckRevoked, CheckSuspended, Deny
  <2>2. CASE ~Deny(h)
    BY <1>2, <2>2
       DEF CheckRevoked, CheckSuspended, Proceed, TypeOK, StoreUntouched, Untouched,
           store, who, copy, verdict, history
  <2>3. QED
    BY <2>1, <2>2
<1>3. CASE FindPolicies(h)
  <2>1. CASE Deny(h)
    BY <1>3, <2>1, SettleTouches DEF FindPolicies, Deny
  <2>2. CASE ~Deny(h)
    BY <1>3, <2>2
       DEF FindPolicies, Proceed, TypeOK, StoreUntouched, Untouched, store, who, verdict, history
  <2>3. QED
    BY <2>1, <2>2
<1>4. CASE Decide(h)
  BY <1>4, DecideSettles, SettleTouches DEF Decide
<1>5. CASE IssueScoped(h)
  BY <1>5 DEF IssueScoped, TypeOK, StoreUntouched, Untouched, store, who, copy, history
<1>6. CASE emitAuditEvent(h)
  BY <1>6 DEF emitAuditEvent, TypeOK, StoreUntouched, Untouched, store, who, copy, verdict, history
<1>7. CASE Respond(h) \/ FinishSession(h)
  BY <1>7, ReleaseTouches DEF Respond, FinishSession, store
<1>8. QED
  BY <1>1, <1>2, <1>3, <1>4, <1>5, <1>6, <1>7 DEF HandlerStep

LEMMA BeginTouches ==
    ASSUME TypeOK, NEW h \in Handler, NEW k \in Handler, k # h,
           NEW c \in AgentId, NEW a \in AgentId,
           BeginSession(h, c, a) \/ \E r \in Request : BeginAuthorize(h, c, a, r)
    PROVE  StoreUntouched /\ Untouched(k)
<1>1. CASE BeginSession(h, c, a)
  BY <1>1 DEF BeginSession, TypeOK, StoreUntouched, Untouched, store, copy, verdict, history
<1>2. CASE \E r \in Request : BeginAuthorize(h, c, a, r)
  BY <1>2 DEF BeginAuthorize, TypeOK, StoreUntouched, Untouched, store, copy, verdict
<1>3. QED
  BY <1>1, <1>2

\* What an untouched handler has read stays true of it.
LEMMA FitFrame ==
    ASSUME NEW k \in Handler, FitSoFar(k), StoreUntouched, Untouched(k)
    PROVE  FitSoFar(k)'
BY DEF FitSoFar, Fit, Allowed, Sight, StoreUntouched, Untouched

\* Settling on a decision keeps the invariant for a fit agent and on a denial.
LEMMA SettleFit ==
    ASSUME TypeOK, NEW h \in Handler, FitSoFar(h), NEW d, NEW t,
           Settle(h, d, t), seen' = seen,
           Fit(h) \/ (d = "deny" /\ t = -1)
    PROVE  FitSoFar(h)'
<1>1. pc'[h] = "decided" /\ decision'[h] = d /\ left'[h] = t /\ attached'[h] = FALSE
  BY DEF Settle, TypeOK
<1>2. Fit(h) = Fit(h)'
  BY DEF Fit
<1>3. (d = "deny" /\ t = -1) => ~Allowed(h)'
  BY <1>1 DEF Allowed, AllowDecisions
<1>4. QED
  BY <1>1, <1>2, <1>3 DEF FitSoFar

LEMMA ReleaseFit ==
    ASSUME TypeOK, NEW h \in Handler, Release(h)
    PROVE  FitSoFar(h)'
<1>1. pc'[h] = "idle" /\ decision'[h] = "none" /\ left'[h] = -1 /\ attached'[h] = FALSE
  BY DEF Release, TypeOK
<1>2. ~Allowed(h)'
  BY <1>1 DEF Allowed, AllowDecisions
<1>3. QED
  BY <1>1, <1>2 DEF FitSoFar

\* A handler's own step keeps what it has read true to the store.
LEMMA HandlerFit ==
    ASSUME TypeOK, NEW h \in Handler, FitSoFar(h), HandlerStep(h)
    PROVE  FitSoFar(h)'
<1>seen. ASSUME NEW to, Proceed(h, to), UNCHANGED <<who, history>>
         PROVE  /\ seen' = seen
                /\ pc'[h] = to
                /\ (Fit(h)' <=> Fit(h)) /\ (Allowed(h)' <=> Allowed(h))
                /\ request'[h] = request[h] /\ subject'[h] = subject[h]
  BY <1>seen DEF Proceed, TypeOK, Fit, Allowed, who, verdict, history
<1>1. CASE GetAgent(h)
  <2>1. CASE Deny(h)
    BY <1>1, <2>1, SettleFit DEF GetAgent, Deny, history
  <2>2. CASE ~Deny(h)
    <3>1. /\ state[subject[h]] # "absent" /\ Proceed(h, "found")
          /\ hState' = [hState EXCEPT ![h] = state[subject[h]]]
          /\ hSpec' = [hSpec EXCEPT ![h] = spec[subject[h]]]
          /\ attached' = [attached EXCEPT ![h] = (Backend = "memory")]
          /\ UNCHANGED <<who, history>>
      BY <1>1, <2>2 DEF GetAgent
    <3>2. Sight(subject[h], request[h].action, state, spec) \subseteq seen[h]
      BY <1>1 DEF GetAgent, FitSoFar
    <3>3. hState'[h] = state[subject[h]] /\ hSpec'[h] = spec[subject[h]]
      BY <3>1 DEF TypeOK
    <3>4. attached'[h] => Backend = "memory"
      BY <3>1 DEF TypeOK
    <3>5. hState'[h] \in AgentState
      BY <3>1, <3>3 DEF TypeOK
    <3>6. hState'[h] \in InForce /\ agentCanPerform(hSpec'[h], request[h].action)
             => hSpec'[h] \in seen[h]
      BY <3>2, <3>3 DEF Sight
    <3>7. QED
      BY <1>seen, <3>1, <3>4, <3>5, <3>6 DEF FitSoFar
  <2>3. QED
    BY <2>1, <2>2
<1>2. CASE CheckRevoked(h)
  <2>1. CASE Deny(h)
    BY <1>2, <2>1, SettleFit DEF CheckRevoked, Deny, history
  <2>2. CASE ~Deny(h)
    <3>1. Proceed(h, "notRevoked") /\ UNCHANGED <<copy, who, history>>
      BY <1>2, <2>2 DEF CheckRevoked
    <3>2. pc[h] = "found" /\ hState[h] # "revoked"
      BY <1>2, <2>2 DEF CheckRevoked
    <3>3. QED
      BY <1>seen, <3>1, <3>2 DEF FitSoFar, copy
  <2>3. QED
    BY <2>1, <2>2
<1>3. CASE CheckSuspended(h)
  <2>1. CASE Deny(h)
    BY <1>3, <2>1, SettleFit DEF CheckSuspended, Deny, history
  <2>2. CASE ~Deny(h)
    <3>1. Proceed(h, "capable") /\ UNCHANGED <<copy, who, history>>
      BY <1>3, <2>2 DEF CheckSuspended
    <3>2. /\ pc[h] = "notRevoked" /\ hState[h] # "suspended"
          /\ agentCanPerform(hSpec[h], request[h].action)
      BY <1>3, <2>2 DEF CheckSuspended
    <3>3. hSpec[h] \in seen[h]
      BY <3>2 DEF FitSoFar, InForce
    <3>4. QED
      BY <1>seen, <3>1, <3>3 DEF FitSoFar, copy
  <2>3. QED
    BY <2>1, <2>2
<1>4. CASE FindPolicies(h)
  <2>1. CASE Deny(h)
    BY <1>4, <2>1, SettleFit DEF FindPolicies, Deny, history
  <2>2. CASE ~Deny(h)
    <3>1. /\ Proceed(h, "selected") /\ UNCHANGED <<hSpec, attached, who, history>>
          /\ pc[h] = "capable"
      BY <1>4, <2>2 DEF FindPolicies
    <3>2. QED
      BY <1>seen, <3>1 DEF FitSoFar
  <2>3. QED
    BY <2>1, <2>2
<1>5. CASE Decide(h)
  <2>1. Fit(h)
    BY <1>5 DEF Decide, FitSoFar, Fit
  <2>2. QED
    BY <1>5, <2>1, DecideSettles, SettleFit DEF Decide, history
<1>6. CASE IssueScoped(h)
  <2>1. pc'[h] = "issued" /\ UNCHANGED <<decision, seen, attached>> /\ left'[h] \in {left[h], -1}
    BY <1>6 DEF IssueScoped, TypeOK, copy, history
  <2>2. Allowed(h)' => Allowed(h)
    BY <2>1 DEF Allowed
  <2>3. QED
    BY <2>1, <2>2 DEF FitSoFar, Fit
<1>7. CASE emitAuditEvent(h)
  <2>1. pc'[h] = "audited" /\ UNCHANGED <<decision, seen, attached, left>>
    BY <1>7 DEF emitAuditEvent, TypeOK, copy, verdict, history
  <2>2. QED
    BY <2>1 DEF FitSoFar, Fit, Allowed
<1>8. CASE Respond(h) \/ FinishSession(h)
  BY <1>8, ReleaseFit DEF Respond, FinishSession
<1>9. QED
  BY <1>1, <1>2, <1>3, <1>4, <1>5, <1>6, <1>7, <1>8 DEF HandlerStep

LEMMA BeginFit ==
    ASSUME TypeOK, NEW h \in Handler, FitSoFar(h), NEW c \in AgentId, NEW a \in AgentId,
           BeginSession(h, c, a) \/ \E r \in Request : BeginAuthorize(h, c, a, r)
    PROVE  FitSoFar(h)'
<1>1. CASE BeginSession(h, c, a)
  BY <1>1 DEF BeginSession, TypeOK, FitSoFar, Fit, Allowed, store, copy, verdict, history
<1>2. ASSUME NEW r \in Request, BeginAuthorize(h, c, a, r)
      PROVE  FitSoFar(h)'
  <2>1. PICK b \in VerifiedAgentID(c, a) :
            /\ subject' = [subject EXCEPT ![h] = b]
            /\ seen' = [seen EXCEPT ![h] = Sight(b, r.action, state, spec)]
    BY <1>2 DEF BeginAuthorize
  <2>2. subject'[h] = b /\ request'[h] = r /\ pc'[h] = "start" /\ ~Allowed(h)
    BY <1>2, <2>1 DEF BeginAuthorize, TypeOK, FitSoFar
  <2>3. UNCHANGED <<state, spec, attached, decision, left>>
    BY <1>2 DEF BeginAuthorize, store, copy, verdict
  <2>4. Sight(subject[h], request[h].action, state, spec)' \subseteq seen'[h]
    BY <2>1, <2>2, <2>3 DEF Sight, TypeOK
  <2>5. ~Allowed(h)'
    BY <2>2, <2>3 DEF Allowed
  <2>6. QED
    BY <2>2, <2>3, <2>4, <2>5 DEF FitSoFar
<1>3. QED
  BY <1>1, <1>2

\* A change of the store that history observes, and that reaches no pointer a
\* handler still reads through.
LEMMA ObserveFit ==
    ASSUME TypeOK, NEW k \in Handler, FitSoFar(k), Observe(state', spec'),
           UNCHANGED <<pc, subject, request, hSpec, decision, left>>,
           hState'[k] = hState[k], attached'[k] => attached[k]
    PROVE  FitSoFar(k)'
<1>1. seen[k] \subseteq seen'[k]
  BY DEF Observe, TypeOK
<1>2. pc[k] = "start" => Sight(subject[k], request[k].action, state', spec') \subseteq seen'[k]
  BY DEF Observe, Evaluating
<1>3. Sight(subject[k], request[k].action, state, spec)'
        = Sight(subject[k], request[k].action, state', spec')
  BY DEF Sight
<1>4. (Fit(k) => Fit(k)') /\ (Allowed(k)' <=> Allowed(k))
  BY <1>1 DEF Fit, Allowed
<1>5. QED
  BY <1>1, <1>2, <1>3, <1>4 DEF FitSoFar

LEMMA StoreFit ==
    ASSUME TypeOK, FitInvariant, NEW k \in Handler, ~(Backend = "memory" /\ StatusUpdates)
    PROVE  /\ \A a \in AgentId, st \in GivenState :
                 /\ \A o \in Operator : BeginStatusUpdate(o, a, st) => FitSoFar(k)'
                 /\ \A s \in AgentSpec : RegisterAgent(a, s, st) => FitSoFar(k)'
           /\ \A u \in updating : EndStatusUpdate(u) => FitSoFar(k)'
           /\ \A a \in AgentId : DeleteAgent(a) => FitSoFar(k)'
           /\ \A p \in PolicyId : ApplyPolicy(p) \/ DeletePolicy(p) => FitSoFar(k)'
<1>fit. FitSoFar(k)
  BY DEF FitInvariant
<1>detached. StatusUpdates => ~attached[k]
  BY <1>fit DEF FitSoFar
<1>1. ASSUME NEW a \in AgentId, NEW st \in GivenState, NEW o \in Operator,
             BeginStatusUpdate(o, a, st)
      PROVE  FitSoFar(k)'
  <2>1. hState'[k] = hState[k]
    BY <1>1, <1>detached DEF BeginStatusUpdate, TypeOK
  <2>2. /\ UNCHANGED <<state, spec, pc, subject, request, hSpec, attached>>
        /\ UNCHANGED <<decision, left, seen>>
    BY <1>1 DEF BeginStatusUpdate, who, verdict, history
  <2>3. QED
    BY <1>fit, <2>1, <2>2 DEF FitSoFar, Fit, Allowed, Sight
<1>2. ASSUME NEW a \in AgentId, NEW st \in GivenState, NEW s \in AgentSpec,
             RegisterAgent(a, s, st)
      PROVE  FitSoFar(k)'
  <2>1. Observe(state', spec')
    BY <1>2 DEF RegisterAgent
  <2>2. attached'[k] => attached[k]
    BY <1>2 DEF RegisterAgent
  <2>3. UNCHANGED <<pc, subject, request, hSpec, decision, left, hState>>
    BY <1>2 DEF RegisterAgent, who, verdict
  <2>4. QED
    BY <1>fit, <2>1, <2>2, <2>3, ObserveFit
<1>3. ASSUME NEW u \in updating, EndStatusUpdate(u)
      PROVE  FitSoFar(k)'
  <2>1. Observe(state', spec')
    BY <1>3 DEF EndStatusUpdate
  <2>2. hState'[k] = hState[k]
    BY <1>3, <1>detached DEF EndStatusUpdate, TypeOK, FitInvariant
  <2>3. UNCHANGED <<pc, subject, request, hSpec, decision, left, attached>>
    BY <1>3 DEF EndStatusUpdate, who, verdict
  <2>4. QED
    BY <1>fit, <2>1, <2>2, <2>3, ObserveFit
<1>4. ASSUME NEW a \in AgentId, DeleteAgent(a)
      PROVE  FitSoFar(k)'
  <2>1. Observe(state', spec')
    BY <1>4 DEF DeleteAgent
  <2>2. attached'[k] => attached[k]
    BY <1>4 DEF DeleteAgent
  <2>3. UNCHANGED <<pc, subject, request, hSpec, decision, left, hState>>
    BY <1>4 DEF DeleteAgent, who, verdict
  <2>4. QED
    BY <1>fit, <2>1, <2>2, <2>3, ObserveFit
<1>5. ASSUME NEW p \in PolicyId, ApplyPolicy(p) \/ DeletePolicy(p)
      PROVE  FitSoFar(k)'
  <2>1. /\ UNCHANGED <<state, spec, pc, subject, request, hState, hSpec, attached>>
        /\ UNCHANGED <<decision, left, seen>>
    BY <1>5 DEF ApplyPolicy, DeletePolicy, ObservePolicies, who, copy, verdict
  <2>2. QED
    BY <1>fit, <2>1 DEF FitSoFar, Fit, Allowed, Sight
<1>6. QED
  BY <1>1, <1>2, <1>3, <1>4, <1>5

LEMMA TickFit ==
    ASSUME TypeOK, NEW k \in Handler, FitSoFar(k), Tick
    PROVE  FitSoFar(k)'
<1>1. /\ UNCHANGED <<state, spec, pc, subject, request, hState, hSpec, attached>>
      /\ UNCHANGED <<decision, seen>>
  BY DEF Tick, store, who, copy, history
<1>2. left'[k] >= 0 => left[k] >= 0
  BY DEF Tick, TypeOK
<1>3. (Fit(k)' <=> Fit(k)) /\ (Allowed(k)' => Allowed(k))
  BY <1>1, <1>2 DEF Fit, Allowed
<1>4. QED
  BY <1>1, <1>3 DEF FitSoFar, Sight

\* A handler at rest has read nothing and decided nothing.
LEMMA RestFit ==
    ASSUME NEW k \in Handler, pc[k] = "idle", decision[k] = "none", left[k] = -1,
           attached[k] = FALSE
    PROVE  FitSoFar(k)
BY DEF FitSoFar, Allowed, AllowDecisions

LEMMA RestartFit ==
    ASSUME NEW k \in Handler, Restart
    PROVE  FitSoFar(k)'
<1>1. pc'[k] = "idle" /\ decision'[k] = "none" /\ left'[k] = -1 /\ attached'[k] = FALSE
  BY DEF Restart, OfEach
<1>2. ~Allowed(k)'
  BY <1>1 DEF Allowed, AllowDecisions
<1>3. QED
  BY <1>1, <1>2 DEF FitSoFar

LEMMA FitInit == Init => FitInvariant
<1>1. ASSUME Init, NEW k \in Handler
      PROVE  FitSoFar(k)
  BY <1>1, RestFit DEF Init, OfEach
<1>2. QED
  BY <1>1 DEF FitInvariant, Init

LEMMA UpdatesByOperatorOnly ==
    ASSUME FitInvariant, TypeOK, Next
    PROVE  updating' # {} => StatusUpdates
<1>1. ASSUME NEW h \in Handler, HandlerStep(h)
      PROVE  updating' = updating
  <2>1. ASSUME NEW d, NEW t, Settle(h, d, t), UNCHANGED store PROVE updating' = updating
    BY <2>1 DEF store
  <2>2. QED
    BY <1>1 DEF HandlerStep, GetAgent, CheckRevoked, CheckSuspended, FindPolicies, Decide,
                IssueScoped, emitAuditEvent, Respond, FinishSession, store
<1>2. ASSUME NEW h \in Handler, NEW c \in AgentId, NEW a \in AgentId,
             BeginSession(h, c, a) \/ \E r \in Request : BeginAuthorize(h, c, a, r)
      PROVE  updating' = updating
  BY <1>2 DEF BeginSession, BeginAuthorize, store
<1>3. QED
  BY <1>1, <1>2
     DEF Next, FitInvariant, BeginStatusUpdate, EndStatusUpdate, RegisterAgent, DeleteAgent,
         ApplyPolicy, DeletePolicy, Tick, Restart, store

LEMMA FitStep ==
    ASSUME ~(Backend = "memory" /\ StatusUpdates), TypeOK, FitInvariant, [Next]_vars
    PROVE  FitInvariant'
<1>1. CASE Next
  <2>1. ASSUME NEW k \in Handler PROVE FitSoFar(k)'
    <3>fit. FitSoFar(k)
      BY DEF FitInvariant
    <3>1. ASSUME NEW h \in Handler, HandlerStep(h) PROVE FitSoFar(k)'
      BY <3>fit, <3>1, HandlerFit, HandlerTouches, FitFrame
    <3>2. ASSUME NEW h \in Handler, NEW c \in AgentId, NEW a \in AgentId,
                 BeginSession(h, c, a) \/ \E r \in Request : BeginAuthorize(h, c, a, r)
          PROVE  FitSoFar(k)'
      BY <3>fit, <3>2, BeginFit, BeginTouches, FitFrame
    <3>3. QED
      BY <3>fit, <1>1, <3>1, <3>2, StoreFit, TickFit, RestartFit DEF Next
  <2>2. QED
    BY <1>1, <2>1, UpdatesByOperatorOnly DEF FitInvariant
<1>2. CASE UNCHANGED vars
  <2>1. ASSUME NEW k \in Handler PROVE FitSoFar(k)'
    BY <1>2, FitFrame
       DEF FitInvariant, StoreUntouched, Untouched, vars, store, who, copy, verdict, history
  <2>2. QED
    BY <1>2, <2>1 DEF FitInvariant, vars, store
<1>3. QED
  BY <1>1, <1>2

\* Where no status is updated in place under a reader (the Postgres store, or
\* the memory store without UpdateAgentStatus, which no HTTP endpoint calls),
\* whatever is registered, deleted or restarted meanwhile, a request is allowed
\* only for an agent that was registered, in force and capable of the action
\* at some time while the request was served.
THEOREM OnlyFitAgentsAreAllowed ==
    ASSUME ~(Backend = "memory" /\ StatusUpdates)
    PROVE  Spec => []AllowOnlyFitAgents
<1>1. TypeOK /\ FitInvariant /\ [Next]_vars => FitInvariant'
  BY FitStep
<1>2. FitInvariant => AllowOnlyFitAgents
  BY DEF FitInvariant, FitSoFar, AllowOnlyFitAgents
<1>3. QED
  BY TypeCorrect, FitInit, <1>1, <1>2, PTL DEF Spec

-----------------------------------------------------------------------------
(* Every decision is explained by one manifest and one set of policies. *)

\* What explains a grant explains one with less time left.
LEMMA ExplainsShorter ==
    ASSUME NEW r, NEW s, NEW ps, NEW d, NEW t \in Nat \cup {-1}, NEW u \in Nat \cup {-1},
           u <= t, Explains(r, s, ps, d, t)
    PROVE  Explains(r, s, ps, d, u)
<1> DEFINE longest == lifetimeOf(d, allowedLifetimes(r, {p \in ps : MatchesAgent(p, s)}))
<1>1. longest \in Nat \cup {-1}
  BY LifetimeHasType
<1>2. ASSUME t <= longest
      PROVE  u <= longest
  BY <1>1, <1>2
<1>3. QED
  BY <1>2 DEF Explains

\* A decision stays explained while history grows and its grant ages.
LEMMA ExplainedLonger ==
    ASSUME TypeOK, TypeOK', NEW k \in Handler, Explained(k),
           request'[k] = request[k], decision'[k] = decision[k], left'[k] <= left[k],
           seen[k] \subseteq seen'[k], books[k] \subseteq books'[k]
    PROVE  Explained(k)'
<1>1. SUFFICES ASSUME decision'[k] \notin {"none", "deny"}
               PROVE  \E s \in seen'[k], ps \in books'[k] :
                         Explains(request'[k], s, ps, decision'[k], left'[k])
  BY DEF Explained
<1>2. PICK s \in seen[k], ps \in books[k] :
          Explains(request[k], s, ps, decision[k], left[k])
  BY <1>1 DEF Explained
<1>3. left[k] \in Nat \cup {-1} /\ left'[k] \in Nat \cup {-1}
  BY DEF TypeOK
<1>4. Explains(request[k], s, ps, decision[k], left'[k])
  BY <1>2, <1>3, ExplainsShorter
<1>5. QED
  BY <1>2, <1>4

\* What a handler has read stays accounted for while history keeps up.
LEMMA ReadFrame ==
    ASSUME NEW k \in Handler, ReadSoFar(k), pc'[k] = pc[k], request'[k] = request[k],
           hSpec'[k] = hSpec[k], pols'[k] = pols[k], decision'[k] = decision[k],
           books[k] \subseteq books'[k], pc[k] \in Evaluating => policies' \in books'[k]
    PROVE  ReadSoFar(k)'
<1>1. (pc[k] \in Evaluating => policies \in books[k] /\ decision[k] = "none")'
  BY DEF ReadSoFar
<1>2. (pc[k] \in {"idle", "binding"} => decision[k] = "none")'
  BY DEF ReadSoFar
<1>3. ASSUME pc'[k] = "selected"
      PROVE  /\ \E ps \in books'[k] : pols'[k] = {p \in ps : MatchesAgent(p, hSpec'[k])}
             /\ pols'[k] # {}
             /\ request'[k].delegationId => delegationCoversAction(request'[k])
  BY <1>3 DEF ReadSoFar
<1>4. QED
  BY <1>1, <1>2, <1>3 DEF ReadSoFar

LEMMA ExplainedFrame ==
    ASSUME TypeOK, TypeOK', NEW k \in Handler, ReadSoFar(k), Explained(k),
           StoreUntouched, Untouched(k)
    PROVE  ReadSoFar(k)' /\ Explained(k)'
<1>1. left'[k] <= left[k]
  BY DEF Untouched, TypeOK
<1>2. pc[k] \in Evaluating => policies' \in books'[k]
  BY DEF ReadSoFar, StoreUntouched, Untouched
<1>3. QED
  BY <1>1, <1>2, ExplainedLonger, ReadFrame DEF Untouched

LEMMA SettleExplained ==
    ASSUME TypeOK, NEW h \in Handler, NEW d, NEW t, Settle(h, d, t),
           UNCHANGED <<who, history>>,
           \/ d = "deny"
           \/ \E s \in seen[h], ps \in books[h] : Explains(request[h], s, ps, d, t)
    PROVE  ReadSoFar(h)' /\ Explained(h)'
<1>1. pc'[h] = "decided" /\ decision'[h] = d /\ left'[h] = t
  BY DEF Settle, TypeOK
<1>2. ReadSoFar(h)'
  BY <1>1 DEF ReadSoFar, Evaluating
<1>3. Explained(h)'
  BY <1>1 DEF Explained, who, history
<1>4. QED
  BY <1>2, <1>3

\* A handler that settles, settles for a denial or for what the manifest and
\* the policies it has read explain.
LEMMA DecideExplains ==
    ASSUME TypeOK, NEW h \in Handler, FitSoFar(h), ReadSoFar(h), Decide(h)
    PROVE  \E d, t :
               /\ Settle(h, d, t)
               /\ \/ d = "deny"
                  \/ \E s \in seen[h], ps \in books[h] : Explains(request[h], s, ps, d, t)
<1>1. hSpec[h] \in seen[h]
  BY DEF Decide, FitSoFar
<1>2. PICK ps \in books[h] : pols[h] = {p \in ps : MatchesAgent(p, hSpec[h])}
  BY DEF Decide, ReadSoFar
<1>3. pols[h] # {} /\ (request[h].delegationId => delegationCoversAction(request[h]))
  BY DEF Decide, ReadSoFar
<1>4. ASSUME evaluateRules(h)
      PROVE  \E d, t : Settle(h, d, t) /\ Explains(request[h], hSpec[h], ps, d, t)
  <2>1. PICK d \in RuleVerdicts(request[h], pols[h]) :
            Settle(h, d, lifetimeOf(d, allowedLifetimes(request[h], pols[h])))
    BY <1>4 DEF evaluateRules
  <2> DEFINE t == lifetimeOf(d, allowedLifetimes(request[h], pols[h]))
  <2>2. t <= t
    BY LifetimeHasType
  <2>3. Explains(request[h], hSpec[h], ps, d, t)
    BY <1>2, <1>3, <2>2 DEF Explains
  <2>4. QED
    BY <2>1, <2>3
<1>5. ASSUME Engine # "builtin", NEW d, NEW t
      PROVE  Explains(request[h], hSpec[h], ps, d, t)
  BY <1>2, <1>3, <1>5 DEF Explains
<1>6. CASE Engine = "builtin"
  BY <1>1, <1>4, <1>6 DEF Decide
<1>7. CASE Engine # "builtin"
  <2>1. PICK d, t : Settle(h, d, t)
    BY DecideSettles DEF Decide
  <2>2. QED
    BY <1>1, <1>5, <1>7, <2>1
<1>8. QED
  BY <1>6, <1>7

LEMMA HandlerExplained ==
    ASSUME TypeOK, TypeOK', NEW h \in Handler, FitSoFar(h), ReadSoFar(h), Explained(h),
           HandlerStep(h)
    PROVE  ReadSoFar(h)' /\ Explained(h)'
<1>go. ASSUME NEW to, Proceed(h, to), pc[h] \in Evaluating, UNCHANGED <<store, who, history>>
       PROVE  /\ pc'[h] = to
              /\ policies' \in books'[h] /\ decision'[h] = "none"
              /\ Explained(h)'
  <2>1. pc'[h] = to
    BY <1>go DEF Proceed, TypeOK
  <2>2. policies' \in books'[h] /\ decision'[h] = "none"
    BY <1>go DEF Proceed, ReadSoFar, store, verdict, history
  <2>3. QED
    BY <2>1, <2>2 DEF Explained
<1>1. CASE GetAgent(h) \/ CheckRevoked(h) \/ CheckSuspended(h)
  <2>1. UNCHANGED <<store, who, history>>
    BY <1>1 DEF GetAgent, CheckRevoked, CheckSuspended
  <2>2. CASE Deny(h)
    BY <2>1, <2>2, SettleExplained DEF Deny
  <2>3. CASE ~Deny(h)
    <3>1. PICK to \in {"found", "notRevoked", "capable"} : Proceed(h, to)
      BY <1>1, <2>3 DEF GetAgent, CheckRevoked, CheckSuspended
    <3>2. pc[h] \in Evaluating
      BY <1>1 DEF GetAgent, CheckRevoked, CheckSuspended, Evaluating
    <3>3. QED
      BY <1>go, <2>1, <3>1, <3>2 DEF ReadSoFar
  <2>4. QED
    BY <2>2, <2>3
<1>2. CASE FindPolicies(h)
  <2>1. UNCHANGED <<store, who, history>> /\ pc[h] = "capable"
    BY <1>2 DEF FindPolicies
  <2>2. CASE Deny(h)
    BY <2>1, <2>2, SettleExplained DEF Deny
  <2>3. CASE ~Deny(h)
    <3>1. /\ PoliciesForAgent(h) # {}
          /\ request[h].delegationId => delegationCoversAction(request[h])
          /\ Proceed(h, "selected")
          /\ pols' = [pols EXCEPT ![h] = PoliciesForAgent(h)]
          /\ UNCHANGED hSpec
      BY <1>2, <2>3 DEF FindPolicies
    <3>2. pc'[h] = "selected" /\ policies' \in books'[h] /\ decision'[h] = "none" /\ Explained(h)'
      BY <1>go, <2>1, <3>1 DEF Evaluating
    <3>3. pols'[h] = {p \in policies : MatchesAgent(p, hSpec[h])}
      BY <3>1 DEF TypeOK, PoliciesForAgent
    <3>4. pols'[h] # {} /\ policies \in books'[h] /\ hSpec'[h] = hSpec[h]
      BY <2>1, <3>1, <3>2, <3>3 DEF store, PoliciesForAgent
    <3>5. request'[h].delegationId => delegationCoversAction(request'[h])
      BY <2>1, <3>1 DEF who
    <3>6. QED
      BY <3>2, <3>3, <3>4, <3>5 DEF ReadSoFar
  <2>4. QED
    BY <2>2, <2>3
<1>3. CASE Decide(h)
  BY <1>3, DecideExplains, SettleExplained DEF Decide
<1>4. CASE IssueScoped(h) \/ emitAuditEvent(h)
  <2>1. pc'[h] \in {"issued", "audited"} /\ left'[h] <= left[h]
    BY <1>4 DEF IssueScoped, emitAuditEvent, TypeOK, verdict
  <2>2. UNCHANGED <<request, decision, seen, books>>
    BY <1>4 DEF IssueScoped, emitAuditEvent, who, verdict, history
  <2>3. QED
    BY <2>1, <2>2, ExplainedLonger DEF ReadSoFar, Evaluating
<1>5. CASE Respond(h) \/ FinishSession(h)
  <2>1. pc'[h] = "idle" /\ decision'[h] = "none"
    BY <1>5 DEF Respond, FinishSession, Release, TypeOK
  <2>2. QED
    BY <2>1 DEF ReadSoFar, Explained, Evaluating
<1>6. QED
  BY <1>1, <1>2, <1>3, <1>4, <1>5 DEF HandlerStep

LEMMA BeginExplained ==
    ASSUME TypeOK, NEW h \in Handler, ReadSoFar(h), NEW c \in AgentId, NEW a \in AgentId,
           BeginSession(h, c, a) \/ \E r \in Request : BeginAuthorize(h, c, a, r)
    PROVE  ReadSoFar(h)' /\ Explained(h)'
<1>1. decision'[h] = "none" /\ policies' = policies
  BY DEF BeginSession, BeginAuthorize, ReadSoFar, store, verdict
<1>2. pc'[h] = "binding" \/ (pc'[h] = "start" /\ books'[h] = {policies})
  BY DEF BeginSession, BeginAuthorize, TypeOK
<1>3. QED
  BY <1>1, <1>2 DEF ReadSoFar, Explained, Evaluating

\* History keeps up with every change of the store.
LEMMA StoreExplained ==
    ASSUME TypeOK, TypeOK', NEW k \in Handler, ReadSoFar(k), Explained(k)
    PROVE  /\ \A a \in AgentId, st \in GivenState :
                 /\ \A o \in Operator :
                       BeginStatusUpdate(o, a, st) => ReadSoFar(k)' /\ Explained(k)'
                 /\ \A s \in AgentSpec :
                       RegisterAgent(a, s, st) => ReadSoFar(k)' /\ Explained(k)'
           /\ \A u \in updating : EndStatusUpdate(u) => ReadSoFar(k)' /\ Explained(k)'
           /\ \A a \in AgentId : DeleteAgent(a) => ReadSoFar(k)' /\ Explained(k)'
           /\ \A p \in PolicyId :
                 ApplyPolicy(p) \/ DeletePolicy(p) => ReadSoFar(k)' /\ Explained(k)'
<1>keeps. ASSUME UNCHANGED <<pc, request, hSpec, pols, decision, left>>,
                 seen[k] \subseteq seen'[k], books[k] \subseteq books'[k],
                 pc[k] \in Evaluating => policies' \in books'[k]
          PROVE  ReadSoFar(k)' /\ Explained(k)'
  <2>1. left'[k] <= left[k]
    BY <1>keeps DEF TypeOK
  <2>2. QED
    BY <1>keeps, <2>1, ReadFrame, ExplainedLonger
<1>agents. ASSUME NEW st, NEW sp, Observe(st, sp), UNCHANGED policies,
                  UNCHANGED <<pc, request, hSpec, pols, decision, left>>
           PROVE  ReadSoFar(k)' /\ Explained(k)'
  <2>1. seen[k] \subseteq seen'[k] /\ books' = books
    BY <1>agents DEF Observe
  <2>2. QED
    BY <1>keeps, <1>agents, <2>1 DEF ReadSoFar
<1>1. ASSUME NEW a \in AgentId, NEW st \in GivenState, NEW o \in Operator,
             BeginStatusUpdate(o, a, st)
      PROVE  ReadSoFar(k)' /\ Explained(k)'
  BY <1>1, <1>keeps DEF BeginStatusUpdate, ReadSoFar, who, verdict, history
<1>2. ASSUME NEW a \in AgentId, NEW st \in GivenState, NEW s \in AgentSpec,
             RegisterAgent(a, s, st)
      PROVE  ReadSoFar(k)' /\ Explained(k)'
  BY <1>2, <1>agents DEF RegisterAgent, who, verdict
<1>3. ASSUME NEW u \in updating, EndStatusUpdate(u)
      PROVE  ReadSoFar(k)' /\ Explained(k)'
  BY <1>3, <1>agents DEF EndStatusUpdate, who, verdict
<1>4. ASSUME NEW a \in AgentId, DeleteAgent(a)
      PROVE  ReadSoFar(k)' /\ Explained(k)'
  BY <1>4, <1>agents DEF DeleteAgent, who, verdict
<1>5. ASSUME NEW p \in PolicyId, ApplyPolicy(p) \/ DeletePolicy(p)
      PROVE  ReadSoFar(k)' /\ Explained(k)'
  <2>1. ObservePolicies(policies')
    BY <1>5 DEF ApplyPolicy, DeletePolicy
  <2>2. /\ books[k] \subseteq books'[k] /\ seen' = seen
        /\ pc[k] \in Evaluating => policies' \in books'[k]
    BY <2>1 DEF ObservePolicies
  <2>3. UNCHANGED <<pc, request, hSpec, pols, decision, left>>
    BY <1>5 DEF ApplyPolicy, DeletePolicy, who, copy, verdict
  <2>4. QED
    BY <1>keeps, <2>2, <2>3
<1>6. QED
  BY <1>1, <1>2, <1>3, <1>4, <1>5

LEMMA TickExplained ==
    ASSUME TypeOK, TypeOK', NEW k \in Handler, ReadSoFar(k), Explained(k), Tick
    PROVE  ReadSoFar(k)' /\ Explained(k)'
<1>1. UNCHANGED <<policies, pc, request, hSpec, pols, decision, seen, books>>
  BY DEF Tick, store, who, copy, history
<1>2. left'[k] <= left[k]
  BY DEF Tick, TypeOK
<1>3. QED
  BY <1>1, <1>2, ReadFrame, ExplainedLonger DEF ReadSoFar

LEMMA RestartExplained ==
    ASSUME NEW k \in Handler, Restart
    PROVE  ReadSoFar(k)' /\ Explained(k)'
<1>1. pc'[k] = "idle" /\ decision'[k] = "none"
  BY DEF Restart, OfEach
<1>2. QED
  BY <1>1 DEF ReadSoFar, Explained, Evaluating

LEMMA ExplainedInit == Init => ExplainedInvariant
BY DEF Init, OfEach, ExplainedInvariant, ReadSoFar, Explained, Evaluating

LEMMA ExplainedStep ==
    ASSUME TypeOK, TypeOK', FitInvariant, ExplainedInvariant, [Next]_vars
    PROVE  ExplainedInvariant'
<1>1. SUFFICES ASSUME NEW k \in Handler
               PROVE  ReadSoFar(k)' /\ Explained(k)'
  BY DEF ExplainedInvariant
<1>so. ReadSoFar(k) /\ Explained(k) /\ FitSoFar(k)
  BY DEF ExplainedInvariant, FitInvariant
<1>2. ASSUME NEW h \in Handler, HandlerStep(h)
      PROVE  ReadSoFar(k)' /\ Explained(k)'
  BY <1>so, <1>2, HandlerExplained, HandlerTouches, ExplainedFrame
<1>3. ASSUME NEW h \in Handler, NEW c \in AgentId, NEW a \in AgentId,
             BeginSession(h, c, a) \/ \E r \in Request : BeginAuthorize(h, c, a, r)
      PROVE  ReadSoFar(k)' /\ Explained(k)'
  BY <1>so, <1>3, BeginExplained, BeginTouches, ExplainedFrame
<1>4. CASE Next
  BY <1>so, <1>2, <1>3, <1>4, StoreExplained, TickExplained, RestartExplained DEF Next
<1>5. CASE UNCHANGED vars
  BY <1>so, <1>5, ExplainedFrame
     DEF StoreUntouched, Untouched, vars, store, who, copy, verdict, history
<1>6. QED
  BY <1>4, <1>5

\* In the same cases, whatever is registered, replaced or deleted between the
\* reads of a request, it is decided, if not denied, of one manifest of the agent
\* and one set of policies, both of them in the store at some time of the request:
\* a policy of that set selected that manifest, and the built-in rules' decision
\* and the longest lifetime of the grant are those the two would give.
THEOREM DecisionsExplained ==
    ASSUME ~(Backend = "memory" /\ StatusUpdates)
    PROVE  Spec => []DecisionsAreExplained
<1>1. TypeOK /\ FitInvariant /\ [Next]_vars => FitInvariant'
  BY FitStep
<1>2. /\ TypeOK /\ TypeOK' /\ FitInvariant /\ ExplainedInvariant /\ [Next]_vars
         => ExplainedInvariant'
  BY ExplainedStep
<1>3. ExplainedInvariant => DecisionsAreExplained
  BY DEF ExplainedInvariant, DecisionsAreExplained
<1>4. QED
  BY TypeCorrect, FitInit, ExplainedInit, <1>1, <1>2, <1>3, PTL DEF Spec
=============================================================================
