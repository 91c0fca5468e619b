----------------------------- MODULE Enforcement ----------------------------
(***************************************************************************)
(* Calls on their way to an API: through an enforcement point (the HTTP    *)
(* gateway, the MCP proxy or a function the SDK protects), which asks the  *)
(* authorization server or its embedded evaluator, and, behind the gateway *)
(* and the function, through the middleware that has the server validate   *)
(* the grant in the call's header.                                         *)
(*                                                                         *)
(* Whether the server would allow a pair of agent and action is a set that *)
(* changes at any time; AuthzServer takes the decision apart.  A token is  *)
(* the pair of its claims and the seconds left to its expiry, -1 when      *)
(* expired; nobody can make one but the server.                            *)
(***************************************************************************)
EXTENDS Integers

CONSTANTS
    Call,        \* calls, each a goroutine of the point and then of the API
    Agent, Action,
    Lifetime,    \* lifetimes of grants: a decision's constraints choose
    TTL,         \* the longest lifetime
    Config       \* deployments: point, remote, observe, grants

Pair == Agent \X Action

ASSUME PairsExist == Pair # {}

ASSUME LifetimesAreNat == TTL \in Nat /\ Lifetime \subseteq 0..TTL

ASSUME ConfigsAreKnown ==
    Config \subseteq [point : {"gateway", "proxy", "sdk"},
                      remote : BOOLEAN,      \* OAPServerURL is set, or mode
                      observe : BOOLEAN,     \* ObserveMode
                      grants : {"required", "optional", "ignored"}]
                             \* the middleware, with AllowMissing, or none

Token == [pair : Pair, left : -1..TTL]

VARIABLES
    config,
    allowed,     \* the pairs the evaluator allows now
    grants,      \* the tokens handed out that have not expired
    pc,          \* how far a call has come
    pair,        \* its agent (the session's) and action (resolveAction's)
    header,      \* X-OAP-Grant-Token, oap_grant_token: at most one token
    decision,    \* dec.Decision at the point, "" for an answer that has none
    token,       \* dec.Grant: at most one token
    verified,    \* X-OAP-Verified-*: at most one pair, the client's own at first
    seen         \* history: the pair was allowed at some time during the call

call == <<pc, pair, header, decision, token, verified, seen>>
vars == <<config, allowed, grants, call>>

\* Decisions only external backends give.
Challenges == {"require_delegation", "require_step_up_auth"}

Decisions == {"none", "allow", "deny", "require_approval", ""} \cup Challenges

AnyPair == CHOOSE p \in Pair : TRUE

-----------------------------------------------------------------------------
(* The server's verdicts and the grants clients get from it directly. *)

Judge(p) ==
    /\ \E a \in {allowed \cup {p}, allowed \ {p}} :
          /\ allowed' = a
          /\ seen' = [c \in Call |-> seen[c] \/ (pc[c] # "idle" /\ pair[c] \in a)]
    /\ UNCHANGED <<config, grants, pc, pair, header, decision, token, verified>>

Granted(p) == {[pair |-> p, left |-> t] : t \in Lifetime}

ClientAuthorize(p) ==
    /\ p \in allowed
    /\ \E t \in Granted(p) : grants' = grants \cup {t}
    /\ UNCHANGED <<config, allowed, call>>

-----------------------------------------------------------------------------
(* The enforcement point: gateway.handleProxy, proxy.handleToolsCall, or the *)
(* wrapper of the SDK's protect, in the process of the agent.               *)

\* A client sends the headers it likes: a token, and the pair it would be
\* verified as.
Begin(c, p, h, v, at) ==
    /\ pc[c] = "idle"
    /\ pc' = [pc EXCEPT ![c] = at]
    /\ pair' = [pair EXCEPT ![c] = p]
    /\ header' = [header EXCEPT ![c] = h]
    /\ verified' = [verified EXCEPT ![c] = v]
    /\ seen' = [seen EXCEPT ![c] = p \in allowed]
    /\ UNCHANGED <<config, allowed, grants, decision, token>>

\* The token may be one it got itself: any that was handed out, since the one a
\* gateway gets it could have got at the same time.
ClientTokens == {{}} \cup {{t} : t \in grants}

ClientPairs == {{}} \cup {{q} : q \in Pair}

ToPoint(c, p, h, v) == Begin(c, p, h, v, "asked")

\* Past the gateway or protect, straight to the API.
ToAPI(c, p, h, v) == config.point # "proxy" /\ Begin(c, p, h, v, "arrived")

Answer(c, d, ts) ==
    /\ pc' = [pc EXCEPT ![c] = "answered"]
    /\ decision' = [decision EXCEPT ![c] = d]
    /\ token' = [token EXCEPT ![c] = ts]
    /\ grants' = grants \cup ts
    /\ UNCHANGED <<config, allowed, pair, header, verified, seen>>

\* An answer that is no verdict: a 401, or one that is no JSON, is a denial, and
\* an error in JSON an empty decision; the SDK raises on any status but 200.
ErrorDecisions == IF config.point = "sdk" THEN {"deny"} ELSE {"deny", ""}

\* handleAuthorize: an allow comes with a grant unless it cannot be issued.
AuthorizeRemote(c) ==
    /\ pc[c] = "asked"
    /\ config.remote
    /\ \/ /\ pair[c] \in allowed
          /\ \E ts \in {{}} \cup {{t} : t \in Granted(pair[c])} : Answer(c, "allow", ts)
       \/ /\ pair[c] \notin allowed
          /\ \E d \in {"deny", "require_approval"} \cup Challenges : Answer(c, d, {})
       \/ \E d \in ErrorDecisions : Answer(c, d, {})

\* Unreachable, or no answer within the client's timeout: also one that comes
\* late, for which a grant was issued.  The SDK's evaluator is a process of its
\* own, which may fail too.
GiveUp(c) ==
    /\ pc[c] \in {"asked", "answered"}
    /\ config.remote \/ config.point = "sdk"
    /\ decision[c] # "deny"
    /\ Answer(c, "deny", {})

Evaluate(c) ==
    /\ pc[c] = "asked"
    /\ ~config.remote
    /\ IF pair[c] \in allowed
       THEN Answer(c, "allow", {})
       ELSE \E d \in {"deny", "require_approval"} : Answer(c, d, {})

\* The call is over, answered or refused.
Release(c) ==
    /\ pc' = [pc EXCEPT ![c] = "idle"]
    /\ pair' = [pair EXCEPT ![c] = AnyPair]
    /\ header' = [header EXCEPT ![c] = {}]
    /\ decision' = [decision EXCEPT ![c] = "none"]
    /\ token' = [token EXCEPT ![c] = {}]
    /\ verified' = [verified EXCEPT ![c] = {}]
    /\ seen' = [seen EXCEPT ![c] = FALSE]

\* Fault: an approval is not waited for.
MutBlocksDenyOnly(d) == d = "deny"

\* The decisions that stop a call: any other is forwarded.
Blocks(d) == d \in {"deny", "require_approval"}

Refuse(c) ==
    /\ pc[c] = "answered"
    /\ ~config.observe
    /\ Blocks(decision[c])
    /\ Release(c)
    /\ UNCHANGED <<config, allowed, grants>>

\* Fault: a header the client sent is kept.
MutForwardedHeadersKept(c) == {IF header[c] # {} THEN header[c] ELSE token[c], {}}

\* The grant headers a call may go on with.  The gateway replaces the client's
\* if it has a grant, and its reverse proxy drops a header the client names in
\* Connection.  protect hands its grant to a function that takes one, and what
\* the function then sends is its own affair.  The proxy sets none.
ForwardedHeaders(c) ==
    CASE config.point = "gateway" -> {IF token[c] # {} THEN token[c] ELSE header[c], {}}
      [] config.point = "sdk" -> {header[c]} \cup {h \in {token[c]} : h # {}}
      [] config.point = "proxy" -> {header[c]}

Forward(c) ==
    /\ pc[c] = "answered"
    /\ config.observe \/ ~Blocks(decision[c])
    /\ pc' = [pc EXCEPT ![c] = IF config.point = "proxy" THEN "served" ELSE "arrived"]
    /\ \E h \in ForwardedHeaders(c) : header' = [header EXCEPT ![c] = h]
    /\ UNCHANGED <<config, allowed, grants, pair, decision, token, verified, seen>>

-----------------------------------------------------------------------------
(* The API: the grant middleware and the handler behind it. *)

\* A call without middleware, or without a token where it may be missing: the
\* handler gets the headers as they came, X-OAP-Verified-* included.
Pass(c) ==
    /\ pc[c] = "arrived"
    /\ \/ config.grants = "ignored"
       \/ config.grants = "optional" /\ header[c] = {}
    /\ pc' = [pc EXCEPT ![c] = "served"]
    /\ UNCHANGED <<config, allowed, grants, pair, header, decision, token, verified, seen>>

\* Fault: expiry is not checked.
MutValidAlways(t) == TRUE

\* Issuer.Verify accepts a token in the second it expires.
Valid(t) == t.left >= 0

\* The server validates the token: the answer is on its way.
ValidateGrant(c) ==
    /\ pc[c] = "arrived"
    /\ config.grants # "ignored"
    /\ \E t \in header[c] :
          /\ Valid(t)
          /\ verified' = [verified EXCEPT ![c] = {t.pair}]
    /\ pc' = [pc EXCEPT ![c] = "valid"]
    /\ UNCHANGED <<config, allowed, grants, pair, header, decision, token, seen>>

\* 401 without a token, 403 if it is invalid or the server does not answer.
RefuseGrant(c) ==
    /\ pc[c] \in {"arrived", "valid"}
    /\ config.grants # "ignored"
    /\ header[c] = {} => config.grants = "required"
    /\ Release(c)
    /\ UNCHANGED <<config, allowed, grants>>

Serve(c) ==
    /\ pc[c] = "valid"
    /\ pc' = [pc EXCEPT ![c] = "served"]
    /\ UNCHANGED <<config, allowed, grants, pair, header, decision, token, verified, seen>>

Finish(c) ==
    /\ pc[c] = "served"
    /\ Release(c)
    /\ UNCHANGED <<config, allowed, grants>>

-----------------------------------------------------------------------------
\* Fault: a token is one second older than it is allowed to be.
MutOlderTwice(t) == [t EXCEPT !.left = @ - 1]

Older(t) == [t EXCEPT !.left = IF @ >= 0 THEN @ - 1 ELSE -1]

\* One second passes.
Tick ==
    /\ grants' = {Older(t) : t \in {u \in grants : u.left > 0}}
    /\ header' = [c \in Call |-> {Older(t) : t \in header[c]}]
    /\ token' = [c \in Call |-> {Older(t) : t \in token[c]}]
    /\ UNCHANGED <<config, allowed, pc, pair, decision, verified, seen>>

Init ==
    /\ config \in Config
    /\ allowed \in SUBSET Pair
    /\ grants = {}
    /\ pc = [c \in Call |-> "idle"]
    /\ pair = [c \in Call |-> AnyPair]
    /\ header = [c \in Call |-> {}]
    /\ decision = [c \in Call |-> "none"]
    /\ token = [c \in Call |-> {}]
    /\ verified = [c \in Call |-> {}]
    /\ seen = [c \in Call |-> FALSE]

PointStep(c) ==
    \/ AuthorizeRemote(c) \/ GiveUp(c) \/ Evaluate(c) \/ Refuse(c) \/ Forward(c)

APIStep(c) ==
    \/ Pass(c) \/ ValidateGrant(c) \/ RefuseGrant(c) \/ Serve(c) \/ Finish(c)

Next ==
    \/ \E p \in Pair : Judge(p) \/ ClientAuthorize(p)
    \/ \E c \in Call, p \in Pair, h \in ClientTokens, v \in ClientPairs :
          ToPoint(c, p, h, v) \/ ToAPI(c, p, h, v)
    \/ \E c \in Call : PointStep(c) \/ APIStep(c)
    \/ Tick

Spec == Init /\ [][Next]_vars

-----------------------------------------------------------------------------
(* Properties. *)

\* Every variable has its type, and a call carries at most one token in each
\* place and at most one verified pair.
TypeOK ==
    /\ config \in Config
    /\ allowed \subseteq Pair
    /\ grants \subseteq {t \in Token : t.left >= 0}
    /\ pc \in [Call -> {"idle", "asked", "answered", "arrived", "valid", "served"}]
    /\ pair \in [Call -> Pair]
    /\ header \in [Call -> SUBSET Token]
    /\ decision \in [Call -> Decisions]
    /\ token \in [Call -> SUBSET Token]
    /\ verified \in [Call -> SUBSET Pair]
    /\ seen \in [Call -> BOOLEAN]
    /\ \A c \in Call :
          /\ \A t, u \in header[c] : t = u
          /\ \A t, u \in token[c] : t = u
          /\ \A q, w \in verified[c] : q = w

\* An enforcing point forwards a call only if its agent was allowed the action
\* at some time during the call, whatever timeouts, late answers and changes of
\* policy came in between.  Exempt are answers that are no verdict of the
\* built-in rules: a JSON error, which decodes to an empty decision, and a
\* backend's challenges, none of which stops a call (handleProxy).
Forwarded(c) == pc[c] \in {"arrived", "valid", "served"} /\ decision[c] # "none"

ForwardedWasAllowed ==
    \A c \in Call :
        Forwarded(c) /\ ~config.observe /\ decision[c] \notin {""} \cup Challenges => seen[c]

\* Behind a gateway that got a grant for a call, the middleware validates that
\* grant or, if the header was dropped on the way, none: never the token the
\* client sent along.  A call it validated a token of is then served in the name
\* of its own agent and action, and only if they were allowed during the call
\* (handleProxy, GrantMiddleware.Wrap).  A function under protect may send any
\* token it has, and is not covered.
ServedAsAuthorized ==
    \A c \in Call :
        pc[c] = "served" /\ config.point = "gateway" /\ config.grants # "ignored"
            /\ token[c] # {} /\ header[c] # {}
        => verified[c] = {pair[c]} /\ seen[c]

\* The pair an API behind the middleware may rely on: the verified one, and only
\* beside a grant.  With AllowMissing and no grant the headers are the client's.
Admitted(c) ==
    IF /\ pc[c] \in {"valid", "served"} /\ header[c] # {}
       /\ config.point # "proxy" /\ config.grants # "ignored"
    THEN verified[c] ELSE {}

\* On every path a call takes, and whatever headers clients send: the verified
\* agent and action beside a grant were allowed within the last TTL seconds.
Leased == INSTANCE LeasedAccess WITH
    leased <- [p \in Pair |-> {s \in 0..TTL : \E t \in grants : t.pair = p /\ s <= t.left}],
    admitted <- [c \in Call |-> Admitted(c)]

ImplementsLeasedAccess == Leased!Spec
=============================================================================
