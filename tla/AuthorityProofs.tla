--------------------------- MODULE AuthorityProofs --------------------------
(***************************************************************************)
(* The authorization server implements Authority, for any number of        *)
(* handlers, agents, policies and requests, whatever engine evaluates them,*)
(* except on a memory store whose statuses are updated in place.           *)
(***************************************************************************)
EXTENDS AuthzServerProofs

(* Lifetimes: no handler promises a grant longer than what may be granted. *)

\* Anything shorter than a lifetime that may be granted may be granted.
LEMMA ShorterLifetime ==
    ASSUME NEW t \in Lifetime, NEW u \in 0..t
    PROVE  u \in Lifetime
<1>1. PICK m \in ({DefaultTTL, BackendTTL, SessionTTL} \cup StatedLifetimes) \cap Nat :
          t \in 0..m
  BY DEF Lifetime
<1>2. u \in 0..m
  BY <1>1
<1>3. QED
  BY <1>1, <1>2 DEF Lifetime

LEMMA GrantableLifetimes ==
    /\ Lifetime \subseteq Nat
    /\ DefaultTTL \in Lifetime /\ SessionTTL \in Lifetime
    /\ \A t \in 1..BackendTTL : t \in Lifetime
    /\ \A t \in StatedLifetimes \cap Nat : t \in Lifetime
<1>1. Lifetime \subseteq Nat
  BY DEF Lifetime
<1>2. ASSUME NEW m \in ({DefaultTTL, BackendTTL, SessionTTL} \cup StatedLifetimes) \cap Nat,
             NEW t \in 0..m
      PROVE  t \in Lifetime
  BY DEF Lifetime
<1>3. \A m \in Nat : m \in 0..m
  OBVIOUS
<1>4. \A t \in 1..BackendTTL : t \in 0..BackendTTL
  BY LifetimesAreSeconds
<1>5. QED
  BY <1>1, <1>2, <1>3, <1>4, LifetimesAreSeconds

\* effectiveTTL is a lifetime it was given, or the default.
LEMMA EffectiveMayBeGranted ==
    ASSUME NEW d, NEW L, L \cap Nat \subseteq Lifetime
    PROVE  lifetimeOf(d, L) \in Lifetime \cup {-1}
<1>1. effectiveTTL(L) \in L \cap Nat \/ effectiveTTL(L) = DefaultTTL
  BY DEF effectiveTTL
<1>2. QED
  BY <1>1, GrantableLifetimes DEF lifetimeOf

\* The policies of the store ask for no lifetimes but those policies state.
LEMMA AllowedAreStated ==
    ASSUME NEW r, NEW ps, ps \subseteq PolicyId
    PROVE  allowedLifetimes(r, ps) \cap Nat \subseteq Lifetime
<1>1. Matched(r, ps, "allow") \subseteq Positions(PolicyId)
  BY DEF Matched, Positions
<1>2. allowedLifetimes(r, ps) \subseteq StatedLifetimes
  BY <1>1 DEF allowedLifetimes, StatedLifetimes, least, given
<1>3. QED
  BY <1>2, GrantableLifetimes

LEMMA DecideKeepsLifetimes ==
    ASSUME TypeOK, NEW h \in Handler, Decide(h)
    PROVE  \E d, t : Settle(h, d, t) /\ t \in Lifetime \cup {-1}
<1>1. ASSUME evaluateRules(h)
      PROVE  \E d, t : Settle(h, d, t) /\ t \in Lifetime \cup {-1}
  <2>1. pols[h] \subseteq PolicyId
    BY DEF TypeOK
  <2>2. \A d : lifetimeOf(d, allowedLifetimes(request[h], pols[h])) \in Lifetime \cup {-1}
    BY <2>1, AllowedAreStated, EffectiveMayBeGranted
  <2>3. QED
    BY <1>1, <2>2 DEF evaluateRules
<1>2. ASSUME Deny(h)
      PROVE  \E d, t : Settle(h, d, t) /\ t \in Lifetime \cup {-1}
  BY <1>2 DEF Deny
<1>3. ASSUME NEW answer \in Answers, settleResult(h, Result(answer))
      PROVE  \E d, t : Settle(h, d, t) /\ t \in Lifetime \cup {-1}
  <2> DEFINE result == Result(answer)
             L == IF result.constraints = "valid" THEN result.expiresIn ELSE {}
  <2>1. result.expiresIn = answer.expiresIn
    BY DEF Result, opaResult, cedarResult, Answers
  <2>2. L \cap Nat \subseteq Lifetime
    BY <2>1, GrantableLifetimes DEF Answers
  <2>3. lifetimeOf(backendDecision(result), L) \in Lifetime \cup {-1}
    BY <2>2, EffectiveMayBeGranted
  <2>4. QED
    BY <1>3, <2>3 DEF settleResult
<1>4. QED
  BY <1>1, <1>2, <1>3 DEF Decide, evaluateBackend

LEMMA LifetimesInit == Init => LifetimesKept
BY DEF Init, OfEach, LifetimesKept

LEMMA LifetimesStep == TypeOK /\ LifetimesKept /\ [Next]_vars => LifetimesKept'
<1>1. SUFFICES ASSUME TypeOK, LifetimesKept, [Next]_vars, NEW k \in Handler
               PROVE  left'[k] \in Lifetime \cup {-1}
  BY DEF LifetimesKept
<1>2. left[k] \in Lifetime \cup {-1}
  BY <1>1 DEF LifetimesKept
<1>3. ASSUME NEW h \in Handler, HandlerStep(h), ~Decide(h)
      PROVE  left'[k] \in {left[k], -1}
  <2>1. ASSUME NEW d, Settle(h, d, -1)
        PROVE  left'[k] \in {left[k], -1}
    BY <1>1, <2>1 DEF Settle, TypeOK
  <2>2. QED
    BY <1>1, <1>3, <2>1
       DEF HandlerStep, GetAgent, CheckRevoked, CheckSuspended, FindPolicies, IssueScoped,
           emitAuditEvent, Respond, FinishSession, Release, Deny, Proceed, verdict, TypeOK
<1>4. ASSUME NEW h \in Handler, Decide(h)
      PROVE  left'[k] \in Lifetime \cup {-1}
  <2>1. PICK d, t : Settle(h, d, t) /\ t \in Lifetime \cup {-1}
    BY <1>1, <1>4, DecideKeepsLifetimes
  <2>2. QED
    BY <1>1, <1>2, <2>1 DEF Settle, TypeOK
<1>5. CASE Tick
  <2>1. left'[k] = left[k] \/ (left[k] >= 0 /\ left'[k] = left[k] - 1)
    BY <1>1, <1>5 DEF Tick, TypeOK
  <2>2. ASSUME left[k] >= 0, left'[k] = left[k] - 1
        PROVE  left'[k] \in Lifetime \cup {-1}
    <3>1. left[k] \in Lifetime /\ left[k] \in Nat
      <4>1. left[k] # -1
        BY <2>2
      <4>2. QED
        BY <1>2, <4>1, GrantableLifetimes
    <3>2. left'[k] = -1 \/ left'[k] \in 0..left[k]
      BY <2>2, <3>1
    <3>3. QED
      BY <3>1, <3>2, ShorterLifetime
  <2>3. QED
    BY <1>2, <2>1, <2>2
<1>6. CASE Restart
  BY <1>6 DEF Restart, OfEach
<1>7. ASSUME UNCHANGED left
      PROVE  left'[k] \in Lifetime \cup {-1}
  BY <1>2, <1>7
<1>8. ASSUME NEW h \in Handler, NEW c \in AgentId, NEW a \in AgentId,
             BeginSession(h, c, a) \/ \E r \in Request : BeginAuthorize(h, c, a, r)
      PROVE  UNCHANGED left
  BY <1>8 DEF BeginSession, BeginAuthorize, verdict
<1>9. ASSUME NEW a \in AgentId, NEW st \in GivenState,
             \/ \E o \in Operator : BeginStatusUpdate(o, a, st)
             \/ \E s \in AgentSpec : RegisterAgent(a, s, st)
      PROVE  UNCHANGED left
  BY <1>9 DEF BeginStatusUpdate, RegisterAgent, verdict
<1>10. ASSUME NEW u \in updating, EndStatusUpdate(u)
       PROVE  UNCHANGED left
  BY <1>10 DEF EndStatusUpdate, verdict
<1>11. ASSUME \/ \E a \in AgentId : DeleteAgent(a)
              \/ \E p \in PolicyId : ApplyPolicy(p) \/ DeletePolicy(p)
       PROVE  UNCHANGED left
  BY <1>11 DEF DeleteAgent, ApplyPolicy, DeletePolicy, verdict
<1>12. CASE UNCHANGED vars
  BY <1>7, <1>12 DEF vars, verdict
<1>13. CASE \E h \in Handler : HandlerStep(h)
  BY <1>2, <1>3, <1>4, <1>13
<1>14. CASE UNCHANGED left
  BY <1>7, <1>14
<1>15. QED
  BY <1>1, <1>5, <1>6, <1>8, <1>9, <1>10, <1>11, <1>12, <1>13, <1>14 DEF Next

-----------------------------------------------------------------------------
(* Which handlers are asked, and for what, as an authority sees it. *)

LEMMA AskingHasType ==
    ASSUME TypeOK, NEW h \in Handler
    PROVE  Asking(h) \in Promise!Ask
BY DEF TypeOK, Asking, Purpose, Promise!Ask

\* A handler serves one asking, which names it.
LEMMA AskingByServer ==
    ASSUME NEW h \in Handler
    PROVE  /\ Asking(h) \in Asks <=> Serving(h)
           /\ Asking(h) \in DueAsks <=> Serving(h) /\ Due(h)
           /\ \A k \in Handler : k # h => Asking(k) # Asking(h)
<1>1. \A k \in Handler : Asking(k).server = k
  BY DEF Asking
<1>2. QED
  BY <1>1 DEF Asks, DueAsks

\* What an untouched handler is asked, and whether it is due, stays the same.
LEMMA UntouchedAsking ==
    ASSUME NEW k \in Handler, Untouched(k)
    PROVE  /\ Asking(k)' = Asking(k)
           /\ Serving(k)' <=> Serving(k)
           /\ Due(k)' <=> Due(k)
BY DEF Untouched, Asking, Serving, Due, Fit

\* The steps of one handler between its asking and its answer ...
LEMMA Stays ==
    ASSUME NEW h \in Handler, \A k \in Handler \ {h} : Untouched(k),
           Serving(h)' <=> Serving(h),
           Serving(h) => Asking(h)' = Asking(h) /\ (Due(h)' <=> Due(h))
    PROVE  UNCHANGED <<Asks, DueAsks>>
<1>1. ASSUME NEW k \in Handler
      PROVE  /\ Serving(k)' <=> Serving(k)
             /\ Serving(k) => Asking(k)' = Asking(k) /\ (Due(k)' <=> Due(k))
  BY UntouchedAsking
<1>2. QED
  BY <1>1 DEF Asks, DueAsks

\* ... its last one ...
LEMMA Leaves ==
    ASSUME NEW h \in Handler, \A k \in Handler \ {h} : Untouched(k), ~Serving(h)'
    PROVE  Asks' = Asks \ {Asking(h)} /\ DueAsks' = DueAsks \ {Asking(h)}
<1>1. ASSUME NEW k \in Handler, k # h
      PROVE  /\ Asking(k)' = Asking(k) /\ Asking(k) # Asking(h)
             /\ Serving(k)' <=> Serving(k)
             /\ Due(k)' <=> Due(k)
  BY <1>1, UntouchedAsking, AskingByServer
<1>2. QED
  BY <1>1 DEF Asks, DueAsks

\* ... and its first one.
LEMMA Enters ==
    ASSUME NEW h \in Handler, \A k \in Handler \ {h} : Untouched(k),
           ~Serving(h), Serving(h)'
    PROVE  /\ \A y \in Asks : y.server # Asking(h)'.server
           /\ Asks' = Asks \cup {Asking(h)'}
           /\ DueAsks' = DueAsks \cup {y \in {Asking(h)'} : Due(h)'}
<1>1. ASSUME NEW k \in Handler, k # h
      PROVE  /\ Asking(k)' = Asking(k)
             /\ Serving(k)' <=> Serving(k)
             /\ Due(k)' <=> Due(k)
  BY <1>1, UntouchedAsking
<1>2. Asking(h)'.server = h /\ \A k \in Handler : Asking(k).server = k
  BY DEF Asking
<1>3. QED
  BY <1>1, <1>2 DEF Asks, DueAsks

\* A refusal: a step that ends an asking and hands out nothing.
LEMMA Refuses ==
    ASSUME NEW h \in Handler, \A k \in Handler \ {h} : Untouched(k),
           Serving(h), ~Serving(h)', StoreUntouched, UNCHANGED <<grants, sessions>>
    PROVE  Promise!Next
<1>1. Asks' = Asks \ {Asking(h)} /\ DueAsks' = DueAsks \ {Asking(h)} /\ Asking(h) \in Asks
  BY Leaves, AskingByServer
<1>2. UNCHANGED Entitlements
  BY DEF StoreUntouched, Entitlements, MayHave
<1>3. Promise!Refuse(Asking(h))
  BY <1>1, <1>2 DEF Promise!Refuse
<1>4. QED
  BY <1>1, <1>3 DEF Promise!Next

\* What h hands out.
Issued(h, t) == [agent |-> subject[h], caller |-> caller[h], left |-> t]

\* An answer: a step that ends an asking with a credential for it.
LEMMA AnswersAsking ==
    ASSUME NEW h \in Handler, \A k \in Handler \ {h} : Untouched(k),
           Serving(h), Due(h), ~Serving(h)', StoreUntouched,
           NEW t \in Lifetime,
           IF pc[h] = "binding" THEN sessions' = sessions \cup {Issued(h, t)} /\ grants' = grants
           ELSE grants' = grants \cup {Issued(h, t)} /\ sessions' = sessions
    PROVE  Promise!Next
<1>1. /\ Asks' = Asks \ {Asking(h)} /\ DueAsks' = DueAsks \ {Asking(h)}
      /\ Asking(h) \in Asks /\ Asking(h) \in DueAsks
  BY Leaves, AskingByServer
<1>2. UNCHANGED Entitlements
  BY DEF StoreUntouched, Entitlements, MayHave
<1>3. /\ Promise!Credential(Asking(h), t) = Issued(h, t)
      /\ Asking(h).purpose = {} <=> pc[h] = "binding"
  BY DEF Asking, Issued, Promise!Credential
<1>4. Promise!Answer(Asking(h))
  BY <1>1, <1>2, <1>3 DEF Promise!Answer
<1>5. QED
  BY <1>1, <1>4 DEF Promise!Next

LEMMA Stutters ==
    ASSUME NEW h \in Handler, \A k \in Handler \ {h} : Untouched(k),
           Serving(h)' <=> Serving(h),
           Serving(h) => Asking(h)' = Asking(h) /\ (Due(h)' <=> Due(h)),
           StoreUntouched, UNCHANGED <<grants, sessions>>
    PROVE  UNCHANGED Promise!vars
<1>1. UNCHANGED <<Asks, DueAsks>>
  BY Stays
<1>2. UNCHANGED Entitlements
  BY DEF StoreUntouched, Entitlements, MayHave
<1>3. QED
  BY <1>1, <1>2 DEF Promise!vars

-----------------------------------------------------------------------------
(* Every step is a step of the authority, or none. *)

\* Settling on a grant leaves the asking due; settling on none refuses it.
LEMMA SettleImplements ==
    ASSUME TypeOK, NEW h \in Handler, \A k \in Handler \ {h} : Untouched(k), StoreUntouched,
           pc[h] \in Evaluating, NEW d, NEW t \in Nat \cup {-1}, Settle(h, d, t),
           UNCHANGED <<store, who, audit, history, issued>>, t = -1 \/ Fit(h)
    PROVE  [Promise!Next]_(Promise!vars)
<1>1. pc'[h] = "decided" /\ left'[h] = t
  BY DEF Settle, TypeOK
<1>2. UNCHANGED <<subject, caller, request, seen, grants, sessions>>
  BY DEF who, history, issued
<1>3. Serving(h)
  BY DEF Serving
<1>4. CASE t = -1
  <2>1. ~Serving(h)'
    BY <1>1, <1>4 DEF Serving, Evaluating
  <2>2. QED
    BY <1>2, <1>3, <2>1, Refuses
<1>5. CASE t \in Nat
  <2>1. Serving(h)' /\ Due(h)' /\ Due(h)
    BY <1>1, <1>5 DEF Serving, Due, Evaluating
  <2>2. Asking(h)' = Asking(h)
    BY <1>1, <1>2 DEF Asking, Evaluating
  <2>3. QED
    BY <1>2, <1>3, <2>1, <2>2, Stutters
<1>6. QED
  BY <1>4, <1>5

\* A check that is passed shows the authority nothing.
LEMMA ProceedImplements ==
    ASSUME TypeOK, NEW h \in Handler, \A k \in Handler \ {h} : Untouched(k), StoreUntouched,
           pc[h] \in Evaluating, NEW to \in Evaluating, Proceed(h, to),
           UNCHANGED <<store, who, audit, history, issued>>
    PROVE  [Promise!Next]_(Promise!vars)
<1>1. pc'[h] = to
  BY DEF Proceed, TypeOK
<1>2. UNCHANGED <<subject, caller, request, seen, grants, sessions, left>>
  BY DEF Proceed, verdict, who, history, issued
<1>3. Serving(h) /\ Serving(h)' /\ (Due(h)' <=> Due(h))
  BY <1>1, <1>2 DEF Serving, Due, Fit, Evaluating
<1>4. Asking(h)' = Asking(h)
  BY <1>1, <1>2 DEF Asking, Evaluating
<1>5. QED
  BY <1>2, <1>3, <1>4, Stutters

LEMMA EvaluateImplements ==
    ASSUME TypeOK, NEW h \in Handler, \A k \in Handler \ {h} : Untouched(k), StoreUntouched,
           FitSoFar(h),
           GetAgent(h) \/ CheckRevoked(h) \/ CheckSuspended(h) \/ FindPolicies(h) \/ Decide(h)
    PROVE  [Promise!Next]_(Promise!vars)
<1>1. UNCHANGED <<store, who, audit, history, issued>>
  BY DEF GetAgent, CheckRevoked, CheckSuspended, FindPolicies, Decide
<1>2. pc[h] \in Evaluating
  BY DEF GetAgent, CheckRevoked, CheckSuspended, FindPolicies, Decide, Evaluating
<1>3. CASE Deny(h)
  BY <1>1, <1>2, <1>3, SettleImplements DEF Deny
<1>4. CASE Decide(h)
  <2>1. Fit(h)
    BY <1>4 DEF Decide, FitSoFar, Fit
  <2>2. PICK d \in Decisions, t \in Nat \cup {-1} : Settle(h, d, t)
    BY <1>4, DecideSettles DEF Decide
  <2>3. QED
    BY <1>1, <1>2, <2>1, <2>2, SettleImplements
<1>5. CASE ~Deny(h) /\ ~Decide(h)
  <2>1. PICK to \in {"found", "notRevoked", "capable", "selected"} : Proceed(h, to)
    BY <1>5 DEF GetAgent, CheckRevoked, CheckSuspended, FindPolicies
  <2>2. to \in Evaluating
    BY <2>1 DEF Evaluating
  <2>3. QED
    BY <1>1, <1>2, <2>1, <2>2, ProceedImplements
<1>6. QED
  BY <1>3, <1>4, <1>5

LEMMA IssueImplements ==
    ASSUME TypeOK, NEW h \in Handler, \A k \in Handler \ {h} : Untouched(k), StoreUntouched,
           IssueScoped(h) \/ emitAuditEvent(h)
    PROVE  [Promise!Next]_(Promise!vars)
<1>1. /\ pc[h] \in {"decided", "issued"} /\ pc'[h] \in {"issued", "audited"}
      /\ left'[h] \in {left[h], -1}
      /\ UNCHANGED <<subject, caller, request, grants, sessions>>
  BY DEF IssueScoped, emitAuditEvent, TypeOK, who, verdict, issued
<1>2. Asking(h)' = Asking(h)
  BY <1>1 DEF Asking
<1>3. CASE left'[h] = left[h]
  <2>1. /\ Serving(h)' <=> Serving(h)
        /\ Serving(h) => (Due(h)' <=> Due(h))
    BY <1>1, <1>3 DEF Serving, Due, Evaluating
  <2>2. QED
    BY <1>1, <1>2, <2>1, Stutters
<1>4. CASE left'[h] = -1 /\ left[h] # -1
  <2>1. ~Serving(h)' /\ Serving(h)
    BY <1>1, <1>4 DEF Serving, Evaluating, TypeOK
  <2>2. QED
    BY <1>1, <2>1, Refuses
<1>5. QED
  BY <1>1, <1>3, <1>4

\* A response answers if it holds a grant; a session answers if the caller's
\* token matches the bindings that were read.
LEMMA RespondImplements ==
    ASSUME TypeOK, LifetimesKept, NEW h \in Handler,
           \A k \in Handler \ {h} : Untouched(k), StoreUntouched, Respond(h)
    PROVE  [Promise!Next]_(Promise!vars)
<1>1. pc[h] = "audited" /\ pc'[h] = "idle" /\ left'[h] = -1 /\ UNCHANGED sessions
  BY DEF Respond, Release, TypeOK
<1>2. ~Serving(h)'
  BY <1>1 DEF Serving, Evaluating
<1>3. CASE left[h] < 0
  <2>1. ~Serving(h)
    BY <1>1, <1>3 DEF Serving, Evaluating, TypeOK
  <2>2. UNCHANGED grants
    BY <1>3 DEF Respond
  <2>3. QED
    BY <1>1, <1>2, <2>1, <2>2, Stutters
<1>4. CASE ~(left[h] < 0)
  <2>1. left[h] \in Lifetime
    BY <1>4 DEF LifetimesKept
  <2>2. Serving(h) /\ Due(h)
    <3>1. left[h] >= 0
      BY <1>4 DEF TypeOK
    <3>2. QED
      BY <1>1, <3>1 DEF Serving, Due, Evaluating
  <2>3. grants' = grants \cup {Issued(h, left[h])}
    BY <1>4 DEF Respond, Issued
  <2>4. QED
    BY <1>1, <1>2, <2>1, <2>2, <2>3, AnswersAsking
<1>5. QED
  BY <1>3, <1>4

LEMMA FinishSessionImplements ==
    ASSUME TypeOK, NEW h \in Handler, \A k \in Handler \ {h} : Untouched(k), StoreUntouched,
           FinishSession(h)
    PROVE  [Promise!Next]_(Promise!vars)
<1>1. pc[h] = "binding" /\ pc'[h] = "idle" /\ left'[h] = -1 /\ UNCHANGED grants
  BY DEF FinishSession, Release, TypeOK
<1>2. ~Serving(h)' /\ Serving(h)
  BY <1>1 DEF Serving, Evaluating
<1>3. CASE UNCHANGED sessions
  BY <1>1, <1>2, <1>3, Refuses
<1>4. CASE ~UNCHANGED sessions
  <2>1. /\ caller[h] \in hSpec[h].bindings
        /\ sessions' = sessions \cup {Issued(h, SessionTTL)}
    BY <1>4 DEF FinishSession, ValidateAgainstBindings, Issued
  <2>2. Due(h)
    BY <1>1, <2>1 DEF Due, Evaluating
  <2>3. QED
    BY <1>1, <1>2, <2>1, <2>2, GrantableLifetimes, AnswersAsking
<1>5. QED
  BY <1>3, <1>4

\* A request is an asking that is due if its agent is fit at once, in a name the
\* caller's JWT or a session of its gives it; a session's agent is looked up at
\* once, and the session is due if its bindings then match the caller.
LEMMA BeginImplements ==
    ASSUME TypeOK, NEW h \in Handler, \A k \in Handler \ {h} : Untouched(k), StoreUntouched,
           FitSoFar(h), NEW c \in AgentId, NEW a \in AgentId,
           BeginSession(h, c, a) \/ \E r \in Request : BeginAuthorize(h, c, a, r), TypeOK'
    PROVE  Promise!Next
<1>1. /\ pc[h] = "idle" /\ pc'[h] \in {"binding", "start"}
      /\ UNCHANGED <<grants, sessions>>
  BY DEF BeginSession, BeginAuthorize, TypeOK, issued
<1>2. ~Serving(h) /\ Serving(h)'
  BY <1>1 DEF FitSoFar, Serving, Allowed, Evaluating
<1>3. UNCHANGED Entitlements
  BY DEF StoreUntouched, Entitlements, MayHave
<1>4. Due(h)' <=> Promise!Entitled(Asking(h)', Entitlements)
  <2>1. CASE BeginSession(h, c, a)
    <3>1. /\ pc'[h] = "binding" /\ subject'[h] = a /\ caller'[h] = c /\ hSpec'[h] = spec[a]
          /\ state[a] = "active"
      BY <2>1 DEF BeginSession, TypeOK
    <3>2. Due(h)' <=> c \in spec[a].bindings
      BY <3>1 DEF Due, Evaluating
    <3>3. <<a, c, {}>> \in Entitlements <=> c \in spec[a].bindings
      BY <3>1 DEF Entitlements, MayHave, Purpose
    <3>4. QED
      BY <3>1, <3>2, <3>3 DEF Asking, Promise!Entitled
  <2>2. ASSUME NEW r \in Request, BeginAuthorize(h, c, a, r)
        PROVE  Due(h)' <=> Promise!Entitled(Asking(h)', Entitlements)
    <3>1. PICK b \in VerifiedAgentID(c, a) :
              /\ subject' = [subject EXCEPT ![h] = b]
              /\ seen' = [seen EXCEPT ![h] = Sight(b, r.action, state, spec)]
      BY <2>2 DEF BeginAuthorize
    <3>2. subject'[h] = b /\ seen'[h] = Sight(b, r.action, state, spec)
      BY <3>1 DEF TypeOK
    <3>3. pc'[h] = "start" /\ request'[h] = r /\ caller'[h] = c
      BY <2>2 DEF BeginAuthorize, TypeOK
    <3>4. b \in AgentId
      BY <3>2 DEF TypeOK
    <3>5. Due(h)' <=> state[b] \in InForce /\ agentCanPerform(spec[b], r.action)
      BY <3>2, <3>3 DEF Due, Evaluating, Fit, Sight
    <3>6. Asking(h)'.agent = b /\ Asking(h)'.caller = c /\ Asking(h)'.purpose = {r.action}
      BY <3>2, <3>3 DEF Asking
    <3>7. <<b, c, {r.action}>> \in Entitlements
             <=> state[b] \in InForce /\ agentCanPerform(spec[b], r.action)
      BY <3>4 DEF Entitlements, MayHave, Purpose
    <3>8. QED
      BY <3>5, <3>6, <3>7 DEF Promise!Entitled
  <2>3. QED
    BY <2>1, <2>2
<1>named. AuthEnabled /\ Asking(h)'.purpose # {} => Promise!MayName(Asking(h)')
  <2>1. CASE BeginSession(h, c, a)
    BY <2>1 DEF BeginSession, TypeOK, Asking
  <2>2. ASSUME NEW r \in Request, BeginAuthorize(h, c, a, r), AuthEnabled
        PROVE  Promise!MayName(Asking(h)')
    <3>1. subject'[h] \in VerifiedAgentID(c, a) /\ caller'[h] = c
      BY <2>2 DEF BeginAuthorize, TypeOK
    <3>2. subject'[h] = c \/ \E s \in sessions : s.agent = subject'[h] /\ s.caller = c
      BY <2>2, <3>1 DEF VerifiedAgentID
    <3>3. QED
      BY <3>1, <3>2 DEF Asking, Promise!MayName
  <2>3. QED
    BY <2>1, <2>2
<1>5. Promise!Receive(Asking(h)')
  <2>1. /\ \A y \in Asks : y.server # Asking(h)'.server
        /\ Asks' = Asks \cup {Asking(h)'}
        /\ DueAsks' = DueAsks \cup {y \in {Asking(h)'} : Due(h)'}
    BY <1>2, Enters
  <2>2. AuthEnabled /\ Asking(h)'.purpose # {} => Promise!MayName(Asking(h)')
    BY <1>named
  <2>3. QED
    BY <1>1, <1>3, <1>4, <2>1, <2>2 DEF Promise!Receive
<1>6. Asking(h)' \in Promise!Ask
  <2>1. subject'[h] \in AgentId /\ caller'[h] \in AgentId /\ request'[h] \in Request
    BY DEF TypeOK
  <2>2. QED
    BY <2>1 DEF Asking, Purpose, Promise!Ask
<1>7. QED
  BY <1>5, <1>6 DEF Promise!Next

-----------------------------------------------------------------------------
(* The store, the clock and restarts. *)

\* A change of the store that history observes: what it makes an agent entitled
\* to makes the requests for it due.  A session is judged by what was read.
LEMMA ChangeImplements ==
    ASSUME TypeOK, TypeOK', Observe(state', spec'),
           UNCHANGED <<pc, caller, subject, request, hSpec, left, grants, sessions>>
    PROVE  Promise!Next
<1>1. ASSUME NEW k \in Handler
      PROVE  /\ Asking(k)' = Asking(k)
             /\ Serving(k)' <=> Serving(k)
             /\ Due(k) => Due(k)'
             /\ Due(k)' => Due(k) \/ Promise!Entitled(Asking(k), Entitlements')
  <2>1. Asking(k)' = Asking(k) /\ (Serving(k)' <=> Serving(k))
    BY DEF Asking, Serving
  <2>2. CASE pc[k] \notin Evaluating
    BY <2>1, <2>2 DEF Due
  <2>3. CASE pc[k] \in Evaluating
    <3>1. seen'[k] = seen[k] \cup Sight(subject[k], request[k].action, state', spec')
      BY <2>3 DEF Observe
    <3>2. /\ Asking(k).agent = subject[k] /\ Asking(k).caller = caller[k]
          /\ Asking(k).purpose = {request[k].action}
      BY <2>3 DEF Asking, Evaluating
    <3>3. subject[k] \in AgentId /\ caller[k] \in AgentId /\ request[k] \in Request
      BY DEF TypeOK
    <3>4. <<subject[k], caller[k], {request[k].action}>> \in Entitlements'
             <=> Sight(subject[k], request[k].action, state', spec') # {}
      BY <3>3 DEF Entitlements, MayHave, Purpose, Sight
    <3>5. Due(k)' <=> seen'[k] # {}
      BY <2>3 DEF Due, Fit, Evaluating
    <3>6. Due(k) <=> seen[k] # {}
      BY <2>3 DEF Due, Fit, Evaluating
    <3>7. QED
      BY <2>1, <3>1, <3>2, <3>4, <3>5, <3>6 DEF Promise!Entitled
  <2>4. QED
    BY <2>2, <2>3
<1>2. Asks' = Asks
  BY <1>1 DEF Asks
<1>3. /\ DueAsks \subseteq DueAsks'
      /\ DueAsks' \subseteq DueAsks \cup {x \in Asks : Promise!Entitled(x, Entitlements')}
  BY <1>1 DEF Asks, DueAsks
<1>4. Entitlements' \subseteq Promise!Entitlement
  BY DEF Entitlements, Promise!Entitlement
<1>5. QED
  BY <1>2, <1>3, <1>4 DEF Promise!Next, Promise!Change

\* What changes neither the agents nor a handler shows the authority nothing.
LEMMA UnseenImplements ==
    ASSUME UNCHANGED <<state, spec, pc, caller, subject, request, hSpec, left, seen>>,
           UNCHANGED <<grants, sessions>>
    PROVE  UNCHANGED Promise!vars
<1>1. ASSUME NEW k \in Handler
      PROVE  /\ Asking(k)' = Asking(k)
             /\ Serving(k)' <=> Serving(k)
             /\ Due(k)' <=> Due(k)
  BY DEF Asking, Serving, Due, Fit
<1>2. UNCHANGED <<Asks, DueAsks>>
  BY <1>1 DEF Asks, DueAsks
<1>3. UNCHANGED Entitlements
  BY DEF Entitlements, MayHave
<1>4. QED
  BY <1>2, <1>3 DEF Promise!vars

\* A second is a second to the authority; a grant that expires before it is
\* handed out is an asking that waits too long.
LEMMA TickImplements ==
    ASSUME TypeOK, Tick
    PROVE  Promise!Tick
<1>1. UNCHANGED <<state, spec, pc, caller, subject, request, hSpec, seen>>
  BY DEF Tick, store, who, copy, history
<1>2. ASSUME NEW k \in Handler
      PROVE  /\ Asking(k)' = Asking(k)
             /\ Serving(k)' => Serving(k)
             /\ Serving(k)' => (Due(k)' <=> Due(k))
  <2>1. left'[k] >= 0 => left[k] >= 0
    BY DEF Tick, TypeOK
  <2>2. QED
    BY <1>1, <2>1 DEF Asking, Serving, Due, Fit
<1>3. Asks' \subseteq Asks
  BY <1>2 DEF Asks
<1>4. DueAsks' = DueAsks \cap Asks'
  <2>1. \A k \in Handler : Asking(k).server = k
    BY DEF Asking
  <2>2. QED
    BY <1>2, <2>1 DEF Asks, DueAsks
<1>5. \A tokens : Aged(tokens) = Promise!OneSecondLess(tokens)
  BY DEF Aged, Promise!OneSecondLess
<1>6. UNCHANGED Entitlements
  BY <1>1 DEF Entitlements, MayHave
<1>7. QED
  BY <1>3, <1>4, <1>5, <1>6 DEF Tick, Promise!Tick

LEMMA RestartImplements == ASSUME Restart PROVE Promise!Restart
<1>1. \A k \in Handler : ~Serving(k)'
  BY DEF Restart, OfEach, Serving, Evaluating
<1>2. Asks' = {} /\ DueAsks' = {}
  BY <1>1 DEF Asks, DueAsks
<1>3. grants' \subseteq grants /\ sessions' \subseteq sessions
  BY DEF Restart
<1>4. Entitlements' \subseteq Promise!Entitlement
  BY DEF Entitlements, Promise!Entitlement
<1>5. QED
  BY <1>2, <1>3, <1>4 DEF Promise!Restart

-----------------------------------------------------------------------------
LEMMA InitImplements == Init => Promise!Init
<1>1. SUFFICES ASSUME Init PROVE Promise!Init
  OBVIOUS
<1>2. \A k \in Handler : ~Serving(k)
  BY <1>1 DEF Init, OfEach, Serving, Evaluating
<1>3. Asks = {} /\ DueAsks = {}
  BY <1>2 DEF Asks, DueAsks
<1>4. QED
  BY <1>1, <1>3 DEF Init, Entitlements, Promise!Entitlement, Promise!Init

LEMMA HandlerImplements ==
    ASSUME TypeOK, FitInvariant, LifetimesKept,
           NEW h \in Handler, HandlerStep(h)
    PROVE  [Promise!Next]_(Promise!vars)
<1>1. \A k \in Handler \ {h} : Untouched(k)
  BY HandlerTouches
<1>2. StoreUntouched
  BY DEF HandlerStep, GetAgent, CheckRevoked, CheckSuspended, FindPolicies, Decide,
         IssueScoped, emitAuditEvent, Respond, FinishSession, store, StoreUntouched
<1>3. FitSoFar(h)
  BY DEF FitInvariant
<1>4. QED
  BY <1>1, <1>2, <1>3, EvaluateImplements, IssueImplements, RespondImplements,
     FinishSessionImplements DEF HandlerStep

LEMMA NextImplements ==
    ASSUME TypeOK, TypeOK', FitInvariant, LifetimesKept, [Next]_vars
    PROVE  [Promise!Next]_(Promise!vars)
<1>1. ASSUME NEW h \in Handler, NEW c \in AgentId, NEW a \in AgentId,
             BeginSession(h, c, a) \/ \E r \in Request : BeginAuthorize(h, c, a, r)
      PROVE  Promise!Next
  <2>1. \A k \in Handler \ {h} : Untouched(k)
    BY <1>1, BeginTouches
  <2>2. StoreUntouched
    BY <1>1 DEF BeginSession, BeginAuthorize, store, StoreUntouched
  <2>3. FitSoFar(h)
    BY DEF FitInvariant
  <2>4. QED
    BY <1>1, <2>1, <2>2, <2>3, BeginImplements
<1>2. ASSUME NEW o \in Operator, NEW a \in AgentId, NEW st \in GivenState,
             BeginStatusUpdate(o, a, st)
      PROVE  UNCHANGED Promise!vars
  BY <1>2, UnseenImplements DEF BeginStatusUpdate, who, verdict, history, issued
<1>3. ASSUME NEW a \in AgentId, NEW st \in GivenState, NEW s \in AgentSpec,
             RegisterAgent(a, s, st)
      PROVE  Promise!Next
  BY <1>3, ChangeImplements DEF RegisterAgent, who, verdict, issued
<1>4. ASSUME NEW u \in updating, EndStatusUpdate(u)
      PROVE  Promise!Next
  BY <1>4, ChangeImplements DEF EndStatusUpdate, who, verdict, issued
<1>5. ASSUME NEW a \in AgentId, DeleteAgent(a)
      PROVE  Promise!Next
  BY <1>5, ChangeImplements DEF DeleteAgent, who, verdict, issued
<1>6. ASSUME NEW p \in PolicyId, ApplyPolicy(p) \/ DeletePolicy(p)
      PROVE  UNCHANGED Promise!vars
  BY <1>6, UnseenImplements
     DEF ApplyPolicy, DeletePolicy, ObservePolicies, who, copy, verdict, issued
<1>7. Tick \/ Restart => Promise!Next
  BY TickImplements, RestartImplements DEF Promise!Next
<1>8. CASE UNCHANGED vars
  BY <1>8, UnseenImplements DEF vars, store, who, copy, verdict, history, issued
<1>9. QED
  BY <1>1, <1>2, <1>3, <1>4, <1>5, <1>6, <1>7, <1>8, HandlerImplements DEF Next

\* Where no status is updated in place under a reader, whatever the store's
\* contents, the engine and the answers of an external one, the interleaving of
\* requests, sessions, changes, time and restarts: every grant and every session
\* answers one request, for what its agent was entitled to meanwhile, for a
\* lifetime that may be granted; a session was opened by a caller that a binding
\* of the active agent matched meanwhile, and with authentication a caller that
\* asks for a grant of an agent it does not name in its JWT holds a session for it.
THEOREM AuthorityImplemented ==
    ASSUME ~(Backend = "memory" /\ StatusUpdates)
    PROVE  Spec => ImplementsAuthority
<1>1. TypeOK /\ FitInvariant /\ [Next]_vars => FitInvariant'
  BY FitStep
<1>2. TypeOK /\ TypeOK' /\ FitInvariant /\ LifetimesKept /\ [Next]_vars
         => [Promise!Next]_(Promise!vars)
  BY NextImplements
<1>3. QED
  BY TypeCorrect, FitInit, LifetimesInit, LifetimesStep,
     InitImplements, <1>1, <1>2, PTL DEF Spec, ImplementsAuthority, Promise!Spec
=============================================================================
