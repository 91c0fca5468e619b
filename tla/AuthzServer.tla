----------------------------- MODULE AuthzServer ----------------------------
(***************************************************************************)
(* The authorization server: concurrent HTTP handlers that evaluate        *)
(* requests against a store other handlers and operators change meanwhile, *)
(* issue grants, write audit events and open sessions; time; restarts.     *)
(*                                                                         *)
(* A handler reads the store one call at a time, so each call is an action *)
(* (evaluator.Evaluate, server.handleAuthorize).  With the memory store    *)
(* GetAgent returns a pointer to the stored agent: hState[h] is what h     *)
(* reads through it, and changes under h while attached[h].                *)
(*                                                                         *)
(* A caller is labelled by the agent id its JWT claims.  The bindings of a   *)
(* manifest are the callers whose runtime tokens match one of them: any     *)
(* callers, several, and for several agents at once.                        *)
(*                                                                         *)
(* Time is counted in seconds to expiry: a grant or a session is accepted  *)
(* while its "left" is at least 0, and Tick takes one second from each.    *)
(***************************************************************************)
EXTENDS PolicyEval

CONSTANTS
    Handler,         \* the goroutines that serve requests
    AgentSpec,       \* agent manifests: id, type, namespace, capabilities, bindings
    Request,         \* authorization requests
    Backend,         \* "memory" or "postgres"
    StatusUpdates,   \* operators call UpdateAgentStatus on the live store
    Operator,        \* bound: the status updates in progress at a time
    AuthEnabled,     \* auth.IssuerURL is set
    Engine,          \* what evaluates rules: "builtin", "opa" or "cedar"
    FailOpen,        \* the external backend is configured to fail open
    FixedKey,        \* GrantSigningKey is configured
    DataAgents,      \* the manifests under DataDir
    DataPolicies,    \* the policies under DataDir
    DefaultTTL,      \* the issuer's default grant lifetime
    BackendTTL,      \* bound: the longest expiresIn an external backend asks for
    SessionTTL,      \* the lifetime of a session
    GivenState,      \* bound: the states registrations and updates give agents
    MaxGrants,       \* bound: live grants while new requests are admitted
    MaxSessions      \* bound: live sessions while new ones are admitted

ASSUME SomethingToServe == AgentId # {} /\ AgentSpec # {} /\ Request # {}

ASSUME SpecsNameAgents == \A s \in AgentSpec : s.id \in AgentId

ASSUME BackendIsKnown == Backend \in {"memory", "postgres"} /\ Engine \in {"builtin", "opa", "cedar"}

ASSUME DataDirAssumption == DataAgents \subseteq AgentSpec /\ DataPolicies \subseteq PolicyId

ASSUME LifetimesAreSeconds == DefaultTTL \in Nat /\ BackendTTL \in Nat /\ SessionTTL \in Nat

AgentState == {"active", "suspended", "revoked", "pending_review"}

ASSUME GivenStatesAreStates == GivenState \subseteq AgentState

VARIABLES
    state,       \* state[a]: Status.State of agent a in the store, or "absent"
    spec,        \* spec[a]: its manifest
    policies,    \* the policies in the store
    updating,    \* the calls of UpdateAgentStatus in progress
    pc,          \* pc[h]: what handler h has done
    caller,      \* who sent the request h serves
    subject,     \* req.Subject.AgentID
    request,     \* the rest of the request
    hState,      \* agent.Status.State as h reads it
    hSpec,       \* the rest of the agent h got from the store, identity bindings included
    attached,    \* h reads through a pointer into the memory store
    pols,        \* the policies h got from the store
    decision,    \* dec.Decision, "none" until it is taken
    left,        \* seconds left of the grant h is issuing, -1 for no grant
    audit,       \* what became of h's audit event
    seen,        \* history: the manifests under which h's agent was registered, in
                 \* force and capable of the action at a time since the request began
    books,       \* history: the sets of policies in the store at those times
    grants,      \* the grants handed out that still verify
    sessions,    \* the sessions that have not expired
    stamped      \* an audit event was stored during the current second

store == <<state, spec, policies, updating>>
who == <<caller, subject, request>>
copy == <<hState, hSpec, attached, pols>>
verdict == <<decision, left>>
history == <<seen, books>>
issued == <<grants, sessions, stamped>>
vars == <<store, pc, who, copy, verdict, audit, history, issued>>

\* A string read while UpdateAgentStatus writes it: no state at all.
ReadState == AgentState \cup {"absent", "torn"}

InForce == AgentState \ {"suspended", "revoked"}

Decisions == RuleDecisions \cup {"require_delegation", "require_step_up_auth"}

AnySpec == CHOOSE s \in AgentSpec : TRUE
AnyAgent == CHOOSE a \in AgentId : TRUE
AnyRequest == CHOOSE r \in Request : TRUE

-----------------------------------------------------------------------------
(* The store. *)

\* LoadDir registers every manifest under DataDir, with state active.
LoadedState(a) == IF \E s \in DataAgents : s.id = a THEN "active" ELSE "absent"

LoadedSpec(a) ==
    IF \E s \in DataAgents : s.id = a THEN CHOOSE s \in DataAgents : s.id = a ELSE AnySpec

\* The memory store's mutex is not held by UpdateAgentStatus.
StoreFree == Backend = "memory" => updating = {}

\* What history records of agent a, and action act, in a store <<st, sp>>.
Sight(a, act, st, sp) == {s \in {sp[a]} : st[a] \in InForce /\ agentCanPerform(s, act)}

Evaluating == {"start", "found", "notRevoked", "capable", "selected"}

\* History is kept by every step that changes the agents, or the policies, in the
\* store.
Observe(st, sp) ==
    /\ seen' = [h \in Handler |->
                   IF pc[h] \in Evaluating
                   THEN seen[h] \cup Sight(subject[h], request[h].action, st, sp)
                   ELSE seen[h]]
    /\ UNCHANGED books

ObservePolicies(ps) ==
    /\ books' = [h \in Handler |-> IF pc[h] \in Evaluating THEN books[h] \cup {ps} ELSE books[h]]
    /\ UNCHANGED seen

\* handleRegisterAgent, with auth for any authenticated caller: the body gives
\* every field, the state included ("" becomes active).  The memory store
\* replaces the object, so handlers keep reading the old one.
RegisterAgent(a, s, st) ==
    /\ StoreFree
    /\ s.id = a
    /\ state' = [state EXCEPT ![a] = st]
    /\ spec' = [spec EXCEPT ![a] = s]
    /\ attached' = [h \in Handler |-> attached[h] /\ subject[h] # a]
    /\ Observe([state EXCEPT ![a] = st], [spec EXCEPT ![a] = s])
    /\ UNCHANGED <<policies, updating, pc, who, hState, hSpec, pols, verdict, audit, issued>>

\* UpdateAgentStatus.  Memory: takes the lock and overwrites agent.Status in
\* the shared object, under handlers that hold no lock.  Postgres: reads the
\* row, and later writes it back whole; nothing keeps two calls apart.
BeginStatusUpdate(o, a, st) ==
    /\ StatusUpdates
    /\ \A u \in updating : Backend = "postgres" /\ u.by # o
    /\ state[a] # "absent"
    /\ updating' = updating \cup {[by |-> o, agent |-> a, state |-> st, spec |-> spec[a]]}
    /\ hState' = [h \in Handler |-> IF attached[h] /\ subject[h] = a /\ st # state[a]
                                    THEN "torn" ELSE hState[h]]
    /\ UNCHANGED <<state, spec, policies, pc, who, hSpec, attached, pols, verdict,
                   audit, history, issued>>

\* Fault: the mutex is not released.
MutEndStatusUpdateNoUnlock(u) ==
    /\ u \in updating
    /\ state' = [state EXCEPT ![u.agent] = IF @ = "absent" THEN @ ELSE u.state]
    /\ UNCHANGED <<spec, policies, updating, pc, who, copy, verdict, audit, history, issued>>

EndStatusUpdate(u) ==
    /\ u \in updating
    /\ updating' = updating \ {u}
    /\ LET st == [state EXCEPT ![u.agent] = IF @ = "absent" THEN @ ELSE u.state]
           sp == IF Backend = "postgres" /\ state[u.agent] # "absent"
                 THEN [spec EXCEPT ![u.agent] = u.spec] ELSE spec
       IN  state' = st /\ spec' = sp /\ Observe(st, sp)
    /\ hState' = [h \in Handler |-> IF attached[h] /\ subject[h] = u.agent
                                    THEN u.state ELSE hState[h]]
    /\ UNCHANGED <<policies, pc, who, hSpec, attached, pols, verdict, audit, issued>>

DeleteAgent(a) ==
    /\ StatusUpdates
    /\ StoreFree
    /\ state' = [state EXCEPT ![a] = "absent"]
    /\ attached' = [h \in Handler |-> attached[h] /\ subject[h] # a]
    /\ Observe([state EXCEPT ![a] = "absent"], spec)
    /\ UNCHANGED <<spec, policies, updating, pc, who, hState, hSpec, pols, verdict,
                   audit, issued>>

\* handleApplyPolicy: a policy replaces the one of its name.
ApplyPolicy(p) ==
    /\ StoreFree
    /\ policies' = {q \in policies : PolicyDef[q].name # PolicyDef[p].name} \cup {p}
    /\ ObservePolicies(policies')
    /\ UNCHANGED <<state, spec, updating, pc, who, copy, verdict, audit, issued>>

DeletePolicy(p) ==
    /\ StatusUpdates
    /\ StoreFree
    /\ policies' = policies \ {p}
    /\ ObservePolicies(policies')
    /\ UNCHANGED <<state, spec, updating, pc, who, copy, verdict, audit, issued>>

-----------------------------------------------------------------------------
(* handleAuthorize. *)

\* auth.wrap and VerifiedAgentID: the agent ids that replace the claimed one.
\* A caller presents a session of its own or a JWT whose claim names it.
VerifiedAgentID(c, claimed) ==
    IF AuthEnabled THEN {s.agent : s \in {t \in sessions : t.caller = c}} \cup {c}
    ELSE {claimed}

BeginAuthorize(h, c, claimed, r) ==
    /\ pc[h] = "idle"
    /\ Cardinality(grants) < MaxGrants
    /\ AuthEnabled \/ c = claimed
    /\ \E a \in VerifiedAgentID(c, claimed) :
          /\ subject' = [subject EXCEPT ![h] = a]
          /\ seen' = [seen EXCEPT ![h] = Sight(a, r.action, state, spec)]
    /\ books' = [books EXCEPT ![h] = {policies}]
    /\ caller' = [caller EXCEPT ![h] = c]
    /\ request' = [request EXCEPT ![h] = r]
    /\ pc' = [pc EXCEPT ![h] = "start"]
    /\ UNCHANGED <<store, copy, verdict, audit, issued>>

\* A decision with a grant lifetime; what was read from the store is dropped.
Settle(h, d, t) ==
    /\ decision' = [decision EXCEPT ![h] = d]
    /\ left' = [left EXCEPT ![h] = t]
    /\ pc' = [pc EXCEPT ![h] = "decided"]
    /\ hState' = [hState EXCEPT ![h] = "absent"]
    /\ hSpec' = [hSpec EXCEPT ![h] = AnySpec]
    /\ attached' = [attached EXCEPT ![h] = FALSE]
    /\ pols' = [pols EXCEPT ![h] = {}]

Deny(h) == Settle(h, "deny", -1)

Proceed(h, to) == pc' = [pc EXCEPT ![h] = to] /\ UNCHANGED verdict

\* Only the Postgres store can fail.
StoreError == Backend = "postgres"

GetAgent(h) ==
    /\ pc[h] = "start"
    /\ StoreFree
    /\ \/ /\ StoreError \/ state[subject[h]] = "absent"
          /\ Deny(h)
       \/ /\ state[subject[h]] # "absent"
          /\ Proceed(h, "found")
          /\ hState' = [hState EXCEPT ![h] = state[subject[h]]]
          /\ hSpec' = [hSpec EXCEPT ![h] = spec[subject[h]]]
          /\ attached' = [attached EXCEPT ![h] = (Backend = "memory")]
          /\ UNCHANGED pols
    /\ UNCHANGED <<store, who, audit, history, issued>>

\* Fault: the first read is not checked.
MutCheckRevokedSkipped(h) ==
    /\ pc[h] = "found"
    /\ Proceed(h, "notRevoked")
    /\ UNCHANGED <<store, who, copy, audit, history, issued>>

\* Evaluate reads agent.Status.State twice.
CheckRevoked(h) ==
    /\ pc[h] = "found"
    /\ IF hState[h] = "revoked" THEN Deny(h) ELSE Proceed(h, "notRevoked") /\ UNCHANGED copy
    /\ UNCHANGED <<store, who, audit, history, issued>>

\* Fault: only the capability is checked after the first read.
MutCheckSuspendedSkipped(h) ==
    /\ pc[h] = "notRevoked"
    /\ IF ~agentCanPerform(hSpec[h], request[h].action)
       THEN Deny(h) ELSE Proceed(h, "capable") /\ UNCHANGED copy
    /\ UNCHANGED <<store, who, audit, history, issued>>

CheckSuspended(h) ==
    /\ pc[h] = "notRevoked"
    /\ IF hState[h] = "suspended" \/ ~agentCanPerform(hSpec[h], request[h].action)
       THEN Deny(h) ELSE Proceed(h, "capable") /\ UNCHANGED copy
    /\ UNCHANGED <<store, who, audit, history, issued>>

\* Fault: the agent is read from the store once more.
MutPoliciesForAgentReread(h) == {p \in policies : MatchesAgent(p, spec[subject[h]])}

PoliciesForAgent(h) == {p \in policies : MatchesAgent(p, hSpec[h])}

FindPolicies(h) ==
    /\ pc[h] = "capable"
    /\ StoreFree
    /\ \/ /\ \/ StoreError
             \/ PoliciesForAgent(h) = {}
             \/ request[h].delegationId /\ ~delegationCoversAction(request[h])
          /\ Deny(h)
       \/ /\ PoliciesForAgent(h) # {}
          /\ request[h].delegationId => delegationCoversAction(request[h])
          /\ Proceed(h, "selected")
          /\ pols' = [pols EXCEPT ![h] = PoliciesForAgent(h)]
          /\ UNCHANGED <<hState, hSpec, attached>>
    /\ UNCHANGED <<store, who, audit, history, issued>>

\* The lifetime in a decision's constraints, if it is positive, else the default.
effectiveTTL(lifetimes) ==
    LET positive == {t \in lifetimes \cap Nat : t > 0}
    IN  IF positive = {} THEN DefaultTTL ELSE CHOOSE t \in positive : TRUE

\* What mergeConstraints makes of expiresIn: the strictest, in whatever order.
allowedLifetimes(r, ps) ==
    LET cs == {RuleAt(x).constraints : x \in Matched(r, ps, "allow")}
    IN  least({parseDurationSeconds(d) : d \in given(cs, "expiresIn")})

lifetimeOf(d, lifetimes) == IF d \in AllowDecisions THEN effectiveTTL(lifetimes) ELSE -1

\* The verdict of evaluateRules, whose scan is RuleScan.
evaluateRules(h) ==
    \E d \in RuleVerdicts(request[h], pols[h]) :
        Settle(h, d, lifetimeOf(d, allowedLifetimes(request[h], pols[h])))

\* What OPA and Cedar can send in a body that decodes: any word for a decision,
\* and constraints that are missing, an empty map, or not what the server knows.
Answers ==
    [decision : Decisions \cup {"", "unsupported"},
     constraints : {"none", "empty", "valid", "invalid"},
     expiresIn : {{}} \cup {{t} : t \in 1..BackendTTL}]

\* OPA's decision is taken as it is; no decision is a denial.
opaResult(answer) == [answer EXCEPT !.decision = IF @ = "" THEN "deny" ELSE @]

\* Cedar knows Allow and Deny only, and any map of constraints constrains.
cedarResult(answer) ==
    IF answer.decision # "allow"
    THEN [answer EXCEPT !.decision = "deny", !.constraints = "none"]
    ELSE [answer EXCEPT !.decision = IF answer.constraints = "none"
                                     THEN "allow" ELSE "allow_with_constraints"]

Result(answer) == IF Engine = "cedar" THEN cedarResult(answer) ELSE opaResult(answer)

\* constraintsFromBackendMap makes nothing of an empty map.  Constraints turn
\* allow into allow_with_constraints, which is denied without them.
backendDecision(result) ==
    CASE result.decision = "unsupported" \/ result.constraints = "invalid" -> "deny"
      [] result.decision = "allow" /\ result.constraints = "valid" -> "allow_with_constraints"
      [] result.decision = "allow_with_constraints" /\ result.constraints # "valid" -> "deny"
      [] OTHER -> result.decision

settleResult(h, result) ==
    Settle(h, backendDecision(result),
           lifetimeOf(backendDecision(result),
                      IF result.constraints = "valid" THEN result.expiresIn ELSE {}))

\* No answer or an error status, for which there is FailOpen; a body that does
\* not decode, for which there is not; or an answer.
evaluateBackend(h) ==
    \/ IF FailOpen THEN evaluateRules(h) ELSE Deny(h)
    \/ Deny(h)
    \/ \E answer \in Answers : settleResult(h, Result(answer))

Decide(h) ==
    /\ pc[h] = "selected"
    /\ IF Engine = "builtin" THEN evaluateRules(h) ELSE evaluateBackend(h)
    /\ UNCHANGED <<store, who, audit, history, issued>>

\* grants.IssueScoped on allow; a grant that cannot be issued is left out.
IssueScoped(h) ==
    /\ pc[h] = "decided"
    /\ pc' = [pc EXCEPT ![h] = "issued"]
    /\ left' \in {left, [left EXCEPT ![h] = -1]}
    /\ UNCHANGED <<store, who, copy, decision, audit, history, issued>>

\* An event is named after the nanosecond it is emitted in: one that meets an
\* earlier event's is dropped by the Postgres sink without an error.
emitAuditEvent(h) ==
    /\ pc[h] = "issued"
    /\ pc' = [pc EXCEPT ![h] = "audited"]
    /\ \/ audit' = [audit EXCEPT ![h] = "written"] /\ stamped' = TRUE
       \/ audit' = [audit EXCEPT ![h] = "failed"] /\ UNCHANGED stamped
       \/ /\ Backend = "postgres" /\ stamped
          /\ audit' = [audit EXCEPT ![h] = "dropped"]
          /\ UNCHANGED stamped
    /\ UNCHANGED <<store, who, copy, verdict, history, grants, sessions>>

\* The handler's variables between requests.
Release(h) ==
    /\ pc' = [pc EXCEPT ![h] = "idle"]
    /\ caller' = [caller EXCEPT ![h] = AnyAgent]
    /\ subject' = [subject EXCEPT ![h] = AnyAgent]
    /\ request' = [request EXCEPT ![h] = AnyRequest]
    /\ hState' = [hState EXCEPT ![h] = "absent"]
    /\ hSpec' = [hSpec EXCEPT ![h] = AnySpec]
    /\ attached' = [attached EXCEPT ![h] = FALSE]
    /\ pols' = [pols EXCEPT ![h] = {}]
    /\ decision' = [decision EXCEPT ![h] = "none"]
    /\ left' = [left EXCEPT ![h] = -1]
    /\ audit' = [audit EXCEPT ![h] = "none"]
    /\ seen' = [seen EXCEPT ![h] = {}]
    /\ books' = [books EXCEPT ![h] = {}]

\* The response hands the grant to the caller.
Respond(h) ==
    /\ pc[h] = "audited"
    /\ Release(h)
    /\ grants' = IF left[h] < 0 THEN grants
                 ELSE grants \cup {[agent |-> subject[h], caller |-> caller[h], left |-> left[h]]}
    /\ UNCHANGED <<store, sessions, stamped>>

-----------------------------------------------------------------------------
(* handleCreateSession. *)

\* Fault: any registered agent may have a session.
MutBeginSessionAnyState(h, c, a) ==
    /\ pc[h] = "idle"
    /\ Cardinality(sessions) < MaxSessions
    /\ StoreFree
    /\ state[a] # "absent"
    /\ spec[a].bindings # {}
    /\ pc' = [pc EXCEPT ![h] = "binding"]
    /\ caller' = [caller EXCEPT ![h] = c]
    /\ subject' = [subject EXCEPT ![h] = a]
    /\ hSpec' = [hSpec EXCEPT ![h] = spec[a]]
    /\ UNCHANGED <<store, request, hState, attached, pols, verdict, audit, history, issued>>

\* The agent is looked up once; fetching keys and checking the token against the
\* bindings it had then follow.
BeginSession(h, c, a) ==
    /\ pc[h] = "idle"
    /\ Cardinality(sessions) < MaxSessions
    /\ StoreFree
    /\ state[a] = "active"
    /\ spec[a].bindings # {}
    /\ pc' = [pc EXCEPT ![h] = "binding"]
    /\ caller' = [caller EXCEPT ![h] = c]
    /\ subject' = [subject EXCEPT ![h] = a]
    /\ hSpec' = [hSpec EXCEPT ![h] = spec[a]]
    /\ UNCHANGED <<store, request, hState, attached, pols, verdict, audit, history, issued>>

\* The caller's token matches one of the bindings.
ValidateAgainstBindings(c, bindings) == c \in bindings

FinishSession(h) ==
    /\ pc[h] = "binding"
    /\ Release(h)
    /\ \/ /\ ValidateAgainstBindings(caller[h], hSpec[h].bindings)
          /\ sessions' = sessions \cup
                {[agent |-> subject[h], caller |-> caller[h], left |-> SessionTTL]}
       \/ UNCHANGED sessions
    /\ UNCHANGED <<store, grants, stamped>>

-----------------------------------------------------------------------------
(* Time and restarts. *)

\* Faults: the bound of expiry is off by one; expiry is not checked at all.
MutAgedOffByOne(tokens) == {[t EXCEPT !.left = @ - 1] : t \in {u \in tokens : u.left >= 0}}

MutAgedNever(tokens) == tokens

\* One second later; what has expired is forgotten.
Aged(tokens) == {[t EXCEPT !.left = @ - 1] : t \in {u \in tokens : u.left > 0}}

Tick ==
    /\ grants' = Aged(grants)
    /\ sessions' = Aged(sessions)
    /\ left' = [h \in Handler |-> IF pc[h] \in {"issued", "audited"} /\ left[h] >= 0
                                  THEN left[h] - 1 ELSE left[h]]
    /\ stamped' = FALSE
    /\ UNCHANGED <<store, pc, who, copy, decision, audit, history>>

OfEach(v) == [h \in Handler |-> v]

Loaded(a) == \E s \in DataAgents : s.id = a

\* NewServer: requests in flight and sessions are gone; the memory store starts empty, DataDir is loaded over either
\* store, and without a configured key the old grants no longer verify.
Restart ==
    /\ pc' = OfEach("idle")
    /\ caller' = OfEach(AnyAgent)
    /\ subject' = OfEach(AnyAgent)
    /\ request' = OfEach(AnyRequest)
    /\ hState' = OfEach("absent")
    /\ hSpec' = OfEach(AnySpec)
    /\ attached' = OfEach(FALSE)
    /\ pols' = OfEach({})
    /\ decision' = OfEach("none")
    /\ left' = OfEach(-1)
    /\ audit' = OfEach("none")
    /\ seen' = OfEach({})
    /\ books' = OfEach({})
    /\ sessions' = {}
    /\ updating' = {}
    /\ state' = [a \in AgentId |-> IF Backend = "memory" \/ Loaded(a)
                                   THEN LoadedState(a) ELSE state[a]]
    /\ spec' = [a \in AgentId |-> IF Backend = "memory" \/ Loaded(a)
                                  THEN LoadedSpec(a) ELSE spec[a]]
    /\ policies' = IF Backend = "memory" THEN DataPolicies
                   ELSE {q \in policies : \A p \in DataPolicies :
                            PolicyDef[q].name # PolicyDef[p].name} \cup DataPolicies
    /\ grants' = IF FixedKey THEN grants ELSE {}
    /\ stamped' = stamped

-----------------------------------------------------------------------------
Init ==
    /\ pc = OfEach("idle")
    /\ caller = OfEach(AnyAgent)
    /\ subject = OfEach(AnyAgent)
    /\ request = OfEach(AnyRequest)
    /\ hState = OfEach("absent")
    /\ hSpec = OfEach(AnySpec)
    /\ attached = OfEach(FALSE)
    /\ pols = OfEach({})
    /\ decision = OfEach("none")
    /\ left = OfEach(-1)
    /\ audit = OfEach("none")
    /\ seen = OfEach({})
    /\ books = OfEach({})
    /\ sessions = {}
    /\ updating = {}
    /\ state = [a \in AgentId |-> LoadedState(a)]
    /\ spec = [a \in AgentId |-> LoadedSpec(a)]
    /\ policies = DataPolicies
    /\ grants = {}
    /\ stamped = FALSE

HandlerStep(h) ==
    \/ GetAgent(h) \/ CheckRevoked(h) \/ CheckSuspended(h) \/ FindPolicies(h)
    \/ Decide(h) \/ IssueScoped(h) \/ emitAuditEvent(h) \/ Respond(h)
    \/ FinishSession(h)

Next ==
    \/ \E h \in Handler : HandlerStep(h)
    \/ \E h \in Handler, c, a \in AgentId :
          BeginSession(h, c, a) \/ \E r \in Request : BeginAuthorize(h, c, a, r)
    \/ \E a \in AgentId, st \in GivenState :
          \/ \E o \in Operator : BeginStatusUpdate(o, a, st)
          \/ \E s \in AgentSpec : RegisterAgent(a, s, st)
    \/ \E u \in updating : EndStatusUpdate(u)
    \/ \E a \in AgentId : DeleteAgent(a)
    \/ \E p \in PolicyId : ApplyPolicy(p) \/ DeletePolicy(p)
    \/ Tick
    \/ Restart

\* Goroutines are scheduled, a waiter gets the store's mutex in its turn (Go
\* admits waiting readers when a writer unlocks), an update that began ends,
\* and the clock advances.
Fairness ==
    /\ \A h \in Handler : SF_vars(HandlerStep(h))
    /\ WF_vars(\E u \in updating : EndStatusUpdate(u))
    /\ WF_vars(Tick)

Spec == Init /\ [][Next]_vars

FairSpec == Spec /\ Fairness

-----------------------------------------------------------------------------
(* Properties. *)

Tokens == [agent : AgentId, caller : AgentId, left : Nat]

\* Every variable has its type.
TypeOK ==
    /\ state \in [AgentId -> AgentState \cup {"absent"}]
    /\ spec \in [AgentId -> AgentSpec]
    /\ policies \subseteq PolicyId
    /\ updating \subseteq [by : Operator, agent : AgentId, state : AgentState, spec : AgentSpec]
    /\ pc \in [Handler -> Evaluating \cup {"idle", "decided", "issued", "audited", "binding"}]
    /\ caller \in [Handler -> AgentId]
    /\ subject \in [Handler -> AgentId]
    /\ request \in [Handler -> Request]
    /\ hState \in [Handler -> ReadState]
    /\ hSpec \in [Handler -> AgentSpec]
    /\ attached \in [Handler -> BOOLEAN]
    /\ pols \in [Handler -> SUBSET PolicyId]
    /\ decision \in [Handler -> Decisions \cup {"none"}]
    /\ left \in [Handler -> Nat \cup {-1}]
    /\ audit \in [Handler -> {"none", "written", "failed", "dropped"}]
    /\ seen \in [Handler -> SUBSET AgentSpec]
    /\ books \in [Handler -> SUBSET SUBSET PolicyId]
    /\ grants \subseteq Tokens
    /\ sessions \subseteq Tokens
    /\ stamped \in BOOLEAN

Allowed(h) == decision[h] \in AllowDecisions \/ left[h] >= 0

\* A request is allowed, and a grant issued, only if at some time while it was
\* served its agent was registered, capable of the action, and neither
\* suspended nor revoked (Evaluate's checks against a store that changes).
Fit(h) == seen[h] # {}

AllowOnlyFitAgents == \A h \in Handler : Allowed(h) => Fit(h)

\* What makes AllowOnlyFitAgents inductive: what h has read of its agent was
\* true of the store while h was serving the request.
FitSoFar(h) ==
    /\ pc[h] = "start" => Sight(subject[h], request[h].action, state, spec) \subseteq seen[h]
    /\ pc[h] \in {"found", "notRevoked"} =>
          /\ hState[h] \in AgentState
          /\ hState[h] \in InForce /\ agentCanPerform(hSpec[h], request[h].action)
                => hSpec[h] \in seen[h]
    /\ pc[h] = "notRevoked" => hState[h] # "revoked"
    /\ pc[h] \in {"capable", "selected"} => hSpec[h] \in seen[h]
    /\ pc[h] \in {"idle", "binding"} => ~Allowed(h)
    /\ Allowed(h) => Fit(h)
    /\ attached[h] => Backend = "memory"

FitInvariant ==
    /\ \A h \in Handler : FitSoFar(h)
    /\ updating # {} => StatusUpdates

\* Decision d, with a grant for t seconds, is what a store with the policies ps
\* would give request r of an agent with manifest s; of an external engine's
\* decisions only that some policy selected the agent.
Explains(r, s, ps, d, t) ==
    LET selected == {p \in ps : MatchesAgent(p, s)}
    IN  /\ selected # {}
        /\ r.delegationId => delegationCoversAction(r)
        /\ Engine = "builtin" => /\ d \in RuleVerdicts(r, selected)
                                 /\ t <= lifetimeOf(d, allowedLifetimes(r, selected))

\* Evaluate reads the agent, its state and the policies one after the other, of
\* a store that changes.  Whatever it decides, other than a denial, is
\* nevertheless what it would have decided of one manifest the agent had, in
\* force and capable, and one set of policies the store held, each at some time
\* of the request: no mixture of two manifests or of two sets of policies.
Explained(h) ==
    decision[h] \notin {"none", "deny"} =>
        \E s \in seen[h], ps \in books[h] :
            Explains(request[h], s, ps, decision[h], left[h])

\* Every decision is explained, as above.
DecisionsAreExplained == \A h \in Handler : Explained(h)

\* What makes DecisionsAreExplained inductive: the policies h works on are those
\* of one set the store held that select the manifest h has read.
ReadSoFar(h) ==
    /\ pc[h] \in Evaluating => policies \in books[h] /\ decision[h] = "none"
    /\ pc[h] \in {"idle", "binding"} => decision[h] = "none"
    /\ pc[h] = "selected" =>
          /\ \E ps \in books[h] : pols[h] = {p \in ps : MatchesAgent(p, hSpec[h])}
          /\ pols[h] # {}
          /\ request[h].delegationId => delegationCoversAction(request[h])

ExplainedInvariant == \A h \in Handler : ReadSoFar(h) /\ Explained(h)

\* What the policies ask for, what is configured, and anything shorter.
StatedLifetimes ==
    {parseDurationSeconds(d) :
        d \in UNION {entry(RuleAt(x).constraints, "expiresIn") : x \in Positions(PolicyId)}}

Lifetime ==
    UNION {0..t : t \in ({DefaultTTL, BackendTTL, SessionTTL} \cup StatedLifetimes) \cap Nat}

\* A handler is asked until it has a decision without a grant, or answers.
Serving(h) == pc[h] \in Evaluating \cup {"binding"} \/ left[h] >= 0

\* An authorization is due once the agent was fit for it, a session once the
\* manifest read, that of an active agent, had a binding the caller matches.
Due(h) ==
    /\ pc[h] \in Evaluating => Fit(h)
    /\ pc[h] = "binding" => caller[h] \in hSpec[h].bindings

Asking(h) ==
    [server |-> h, agent |-> subject[h], caller |-> caller[h],
     purpose |-> IF pc[h] = "binding" THEN {} ELSE {request[h].action}]

Purpose == {{}} \cup {{r.action} : r \in Request}

\* A session is for an active agent, and for a caller its bindings match; an
\* action for an agent in force that is capable of it, whoever asks.
MayHave(a, c, purpose) ==
    IF purpose = {} THEN state[a] = "active" /\ c \in spec[a].bindings
    ELSE state[a] \in InForce /\ \A act \in purpose : agentCanPerform(spec[a], act)

Entitlements == {x \in AgentId \X AgentId \X Purpose : MayHave(x[1], x[2], x[3])}

Asks == {Asking(h) : h \in {k \in Handler : Serving(k)}}

DueAsks == {Asking(h) : h \in {k \in Handler : Serving(k) /\ Due(k)}}

\* The server is an authority: each grant and each session answers one request,
\* for what the agent was entitled to while the request was served, and lasts
\* no longer than a configured lifetime or one a policy states; a caller gets a
\* session only if a manifest the active agent had during the request bound it,
\* and may ask for another agent's grant only by such a session
\* (handleAuthorize, handleCreateSession, IssueScoped, CreateSession).
Promise == INSTANCE Authority WITH
    Agent <- AgentId,
    Server <- Handler,
    Authenticated <- AuthEnabled,
    entitled <- Entitlements,
    asks <- Asks,
    due <- DueAsks

ImplementsAuthority == Promise!Spec

\* What makes the lifetimes right: no handler has promised a longer one.
LifetimesKept == \A h \in Handler : left[h] \in Lifetime \cup {-1}

\* UpdateAgentStatus changes the state of an agent and nothing else, whatever
\* registrations it runs beside (store.Store).
StatusUpdateKeepsManifest ==
    [][(\E u \in updating : EndStatusUpdate(u)) => spec' = spec]_vars

OutOfForce(a) == state[a] \notin InForce

Credentials(a) == {t \in grants \cup sessions : t.agent = a}

\* An agent that stays out of force ends up without a grant or a session that
\* is accepted, although neither is checked against the store when used.
RevocationTakesEffect ==
    \A a \in AgentId : <>[]OutOfForce(a) => <>[](Credentials(a) = {})

\* Every request is answered, or lost in a restart.
RequestsAreAnswered == \A h \in Handler : pc[h] = "start" ~> pc[h] = "idle"
=============================================================================
