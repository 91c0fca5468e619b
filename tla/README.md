# Open Agent Policy: specification and verification

TLA+ models of the Open Agent Policy engine and authorization server, the TLC
configurations that check them on small instances, and TLAPS proofs of their main
properties for every instance. Paths are relative to the repository's `src/`.

## 1. The system

An *agent* asks the authorization server whether it may perform an *action*. The
evaluator reads the agent and the policies that select it from a store, scans their
rules, and answers `allow`, `allow_with_constraints`, `require_approval` or `deny`.
On an allow the server issues a short-lived signed *grant*, which a resource API
verifies without asking again. Every decision is meant to leave one audit event.

| component | code | state it keeps | operations | interacts with |
|---|---|---|---|---|
| evaluator | `engine/evaluator` | none | `Evaluate`, `evaluateRules`, `conditionsMet`, `mergeConstraints`, `mergeObligations` | reads the store twice per request, calls a backend |
| external backends | `engine/evaluator/backend` | none | OPA and Cedar over HTTP | called by `Evaluate`, may fail open |
| server | `server/api/server.go` | wiring, counters | `handleAuthorize`, `handleCreateSession`, `handleCreateRun`, `handleRegisterAgent`, `handleApplyPolicy`, reads | all of them |
| auth middleware | `server/api/auth.go` | JWKS cache | `wrap`, `resolveIdentity`, `verifyJWT` | sessions, identity provider |
| sessions | `engine/session/session.go` | sessions, runs | `CreateSession`, `GetSession`, `CreateRun`, `GetRun` | store, token validator |
| token validator | `engine/session/token.go` | JWKS cache per binding, replay cache | `ValidateAgainstBindings`, `validateWIMSEProof`, `markWPTJTI` | identity providers |
| grants | `engine/grant/jwt.go` | signing key | `IssueScoped`, `Verify` | |
| stores | `engine/store/memory`, `engine/store/postgres` | agents, policies, resources, tools | get, list, register, update status, delete | evaluator, server, sessions |
| migrations | `engine/store/postgres/migrations.go` | schema version table | `ensureSchema` | concurrent server instances |
| loader | `engine/store/loader.go` | none | `LoadDir` | fills a store at start |
| audit | `engine/audit`, `postgres/audit.go` | events | `Write`, `Query`, fan-out | server, gateway, proxy |
| gateway | `gateway/gateway.go` | none | `handleProxy`, `authorizeRemote` | server or embedded evaluator, upstream |
| grant middleware | `gateway/grant_middleware.go` | none | `Wrap`, `validateGrant` | server, the resource API it wraps |
| MCP proxy | `proxy` | tool list cache | `handleToolsList`, `handleToolsCall` | server or embedded evaluator, upstream |
| bundles | `engine/bundle` | last ETag | `Generate`, `Sync` | two stores |
| identity verifiers | `engine/identity` | JWKS cache | `VerifyActor` | identity provider; not wired into the server |
| SDK | `sdk/python` | session token | `protect`, `authorize` | server, or `oapctl simulate` in a process of its own |
| CLI | `cli` | none | `simulate`, `test` | evaluator |

What makes it hard:

- **Concurrency.** Handlers are goroutines. `Evaluate` reads the store in separate
  calls, and the memory store hands out pointers to objects that
  `UpdateAgentStatus` later writes under a lock no reader of the object holds. On
  Postgres the status update reads a row and writes it back without a transaction.
- **Order.** Policies and the conditions of a rule come out of Go maps.
- **Time.** Grants and sessions are not checked against the store when they are
  used; only their expiry ends them. Replay protection compares a clock read before
  a mutex is taken with windows computed from another reading.
- **Distribution.** A bundle is listed, hashed and encoded in separate steps of a
  store that changes, and applied item by item by a client that remembers only an
  ETag. Several instances, of several releases, migrate one database when they start.
- **Keys.** Three readers cache an identity provider's signing keys, each with its own
  discovery and its own rules for what a hit is. The provider rotates keys, may use a
  kid again, and fails in several ways; requests fetch side by side, and the slower
  answer may be the older one and be stored last.
- **Failure.** Store errors, backend errors with or without `FailOpen`, grants that
  cannot be issued, audit writes that fail, restarts that lose the memory store, the
  sessions and, without a configured key, every grant.

What makes each part correct:

- *evaluator*: the decision depends on the set of policies and not on their order;
  an allow is justified by every applicable rule; constraints merge to the strictest.
- *server*: an allowed agent was registered, capable and in force while the request
  was served; a session goes only to a caller that the agent's manifest bound
  meanwhile, and with authentication a request in another agent's name needs such a
  session; every request is answered and audited; revocation takes effect.
- *stores*: a status update changes the status only; a revocation is not undone.
- *token validator*: a proof is accepted once while it is valid.
- *enforcement points*: what was not allowed is not forwarded, whatever the server
  answers; *bundles*: a client that syncs ends up with the server's agents and
  policies; *migrations*: each is applied once, by one instance; *key caches*: a
  withdrawn key is forgotten and a published one accepted within a bounded time.

## 2. The modules

| module | models | checked by |
|---|---|---|
| `PolicyEval` | pure operators of the evaluator and of `engine/model` | used by the next two |
| `RuleScan` | `evaluateRules` as a state machine | `MCRuleScan`, `RuleScan*.cfg` |
| `RuleScanProofs` | theorems about `RuleScan` | TLAPS |
| `Authority` | abstract: what the server promises of the credentials it hands out | refined by `AuthzServer` |
| `AuthzServer` | handlers, stores, sessions, grants, audit, time, restarts | `MCAuthzServer`, `AuthzServer_*.cfg` |
| `AuthzServerProofs` | theorems about `AuthzServer` | TLAPS |
| `AuthorityProofs` | `AuthzServer` implements `Authority` | TLAPS |
| `WptReplay` | replay protection of WIMSE proofs | `MCWptReplay`, `WptReplay.cfg` |
| `WptReplayProofs` | theorems about `WptReplay` | TLAPS |
| `KeyCache` | the caches of a provider's signing keys in the token validator, the auth middleware and the OIDC verifier | `MCKeyCache`, `KeyCache.cfg` |
| `KeyCacheProofs` | theorems about `KeyCache` | TLAPS |
| `LeasedAccess` | abstract: what a call may do at an API, by the verdicts on it and their leases | refined by `Enforcement` |
| `Enforcement` | a call through the gateway, the MCP proxy or a function the SDK protects, and the grant middleware | `MCEnforcement`, `Enforcement.cfg` |
| `EnforcementProofs` | theorems about `Enforcement` | TLAPS |
| `BundleSync` | `Generate`, `Handler`, `Sync` and the polling client | `MCBundleSync`, `BundleSync.cfg` |
| `BundleSyncProofs` | theorems about `BundleSync` | TLAPS |
| `SchemaHistory` | abstract: a schema that moves in atomic migrations | refined by `Migrations` |
| `Migrations` | `ensureSchema` run by several instances | `MCMigrations`, `Migrations.cfg` |
| `MigrationsProofs` | theorems about `Migrations` | TLAPS |

**PolicyEval.** One operator per Go function, with its name: `actionMatches`,
`resourceMatches`, `conditionsMet`, `validateConstraints`, `mergeConstraints`, ... A
value that may be nil or of the wrong dynamic type is a set with at most one
element. An action is the sequence of its segments. `conditionsMet` returns the
*set* of its possible results: Go leaves the order of a map open and the function
returns at the first entry that is unmet or malformed. `RuleOutcomes` is the body of
the loop of `evaluateRules` up to the switch, `matchKind` is the switch.
`RuleVerdicts` reads the same rules declaratively, as a function of a set of
policies; it is the reference of `RuleScan` and the evaluator `AuthzServer` uses.

**RuleScan.** `i` and `j` are the loop's position, `matchedDeny`, `matchedApproval`
and `matchedAllow` its lists. `SkipRule`, `FailRule` and `MatchRule` are the ways
one iteration ends, `NextPolicy` the outer loop, `Decide` the code after it. `Init`
takes any selection of stored policies in any order. The clock a time window is
compared with is part of the request: the scan takes far less than the minute the
windows resolve.

**AuthzServer.** `pc[h]` says what handler `h` has done. Each store call of a
handler is an action (`GetAgent`, `FindPolicies`), and so is each of `Evaluate`'s
two reads of the agent's state (`CheckRevoked`, `CheckSuspended`), the decision
(`Decide`), `IssueScoped`, `emitAuditEvent` and the response. `attached[h]` says
that `h` reads through a pointer into the memory store. An `UpdateAgentStatus` is
two actions: on memory the mutex is held between them and an attached handler reads
the value `"torn"`, neither state's string; on Postgres the first is the `SELECT`
and the second the upsert of the row that was read, and up to `Operator` updates run
side by side. Registrations
and policy changes come from any handler at any time and are atomic, as one map
assignment or one SQL statement is. `Restart` is a crash and a start: handlers and
sessions vanish, `DataDir` is loaded. `caller[h]`, `seen[h]` and `books[h]` are history: who sent
the request; the manifests under which the agent was registered, in force and capable
of the action at some time since it began; and the sets of policies the store held
since. Every step that changes the store records what it leaves there (`Observe`,
`ObservePolicies`). With authentication a caller may use a session that was opened for it
or a JWT whose claim names it; tokens of others are taken as unforgeable. A caller
stands for a runtime token, and a manifest's `bindings` are the callers whose tokens
match one of its `identityBindings`: any callers, so that manifests of several agents
may bind the same one. `RegisterAgent` replaces a manifest and its bindings whole, for
whoever calls it. `BeginSession` reads the manifest, and `FinishSession` compares the
caller with the bindings that were read.
`Engine` says who decides: the built-in rules, or OPA or Cedar behind
`evaluateBackend`. An answer of theirs is a member of `Answers`; `opaResult` and
`cedarResult` are what the two clients make of it, `backendDecision` what
`evaluateBackend` makes of that: unknown decisions and constraints that do not
validate are denials, `FailOpen` covers an absent answer or an error status and not a
body that does not decode.

**Authority.** The abstract server has no store, policies or reads. What is
entitled is a set of triples of an agent, a caller and a purpose (an action, or a
session), which changes at any time. An asking names an agent, a caller and a purpose
and is served by one handler; where callers are authenticated, one that asks for an
action in the name of another agent must hold a session for it. An asking may
become due at any moment it is entitled. Only an asking that is
due may be answered, with one credential for its agent and caller and a lifetime that may be
granted; any may be refused, at any time. `AuthzServer` maps to it as follows: an agent
is entitled to an action, whoever asks, while it is registered, neither suspended nor
revoked, and capable of it, and to a session, for the callers its manifest binds,
while it is active; an asking is a
request from its first step until it is denied, loses its grant, or is answered; the
credentials are the grants and the sessions. So a request's reads, decision, issue,
audit event and response, taken apart in `AuthzServer`, come to one `Answer` or one
`Refuse`.

**WptReplay.** A request validates a proof's claims, reads the clock, waits for the
mutex, purges, tests and stores: `validateWIMSEProof`, `readClock`, `markWPTJTI`.
The clock moves between any two. `accepted` and `replays` are history.

**KeyCache.** `setup` says which reader verifies against which provider: whether the
keys' URL is configured, whether the keys are also at the path the code guesses, and
whether tokens state a kid. `Publish`, `Withdraw` and `Disturb` are the provider, which
is external: it is up, hides its configuration, answers without keys, or is down.
`Discover` is the middleware's and the OIDC verifier's one discovery, whose outcome
lasts as long as the process; the token validator discovers at each fetch
(`jwksURLs`). A request reads the cache (`Reuse`) or fetches (`Fetch`, `Answer` or
`Fail`, `Store`), several at once, and answers may be stored in any order. Ages stand
for the clock: `since[k]` for how long a key has been published, or not. `Recovers`
bounds the recovery in time and so is an action property and not a liveness property.

**Enforcement.** One call from the client's request to the API's answer; `Deployment`
says which enforcing point it goes through (`handleProxy` in either mode or in
observe mode, `handleToolsCall` in either mode, a function behind `protect` in either
mode, which may call the API with the `oap_grant_token` it is given) and whether the API is behind `Wrap`.
Verdicts are given by a policy that changes at any time; the server's answer to the
point is a record of what `authorizeRemote` decodes, and an error answer may decode
to an empty one. `ForwardedHeaders` says with which grant a call may go on: the
gateway's own, the client's if the gateway got none, or none at all, since the reverse
proxy drops headers the client names in `Connection`; a function behind `protect`
gets the grant only if it accepts the keyword. `GiveUp` is the point's timeout (or what the SDK raises), after which the server still
decides and issues. The verdict and the issue of its grant are one action here:
`AuthzServer` takes them apart. A client may put any token that was ever
handed out in the grant header, and any pair in the `X-OAP-Verified-*` headers, which
reach the API as they are where a grant may be missing (`Pass`). The abstract `LeasedAccess` knows none of this: a
pair of agent and action gets a lease only while it is allowed, for at most the longest
lifetime, and the API admits a call in the name of a pair only while its lease runs. The pair a call
is admitted for is that of the verified headers of a call that carries a grant
(`Admitted`): `Wrap` has then set them. Of verified headers without a grant
nothing is claimed.

**BundleSync.** `Generate` lists agents, then policies, then hashes, then encodes,
with the server's store changing in between; the client applies one item at a time
and any item may be refused. Content is a version number, and the hash is
injective. What the ETag can no longer tell is in `astray`: items a client failed to
apply from a bundle whose tag it recorded, and items that changed between the
listing's reads on the server.

**Migrations.** Every statement of `ensureSchema` that waits or can fail is a step:
taking the advisory lock, each migration (`Apply`, `Backfill`, `Reject`), the
commit. `ran` and `wrote` are what the open transaction did, `rows` and `db` what is
committed; `db[v]` records every run of a version's SQL. `Fail` is any error, a lost
connection or a crash before the commit; a commit whose outcome the instance does
not learn is `Commit` with `next = "down"`. A stamp stands for a migration's name and
checksum, which the code compares one after the other.

## 3. The runs

| run | what it asks | result |
|---|---|---|
| `rules` | The scan's loop invariant; the decision is one the *set* of policies determines (`DecisionIsReference`); an allow is justified by every rule that applies (`AllowIsJustified`); merged constraints are at least as strict as each rule's and no obligation is lost (`StrictestWins`); what goes with a decision is exactly what the *set* of matched rules says (`AttachmentsAreReference`); and, of the two comments the next runs refute, what is left of them: a malformed condition denies if no condition beside it is unmet (`MalformedAloneFailsClosed`), and a grant keeps the field restriction if the rules share a field (`GrantKeepsSharedFields`) | holds, 148,644 states |
| `malformed_condition` | "Unknown or malformed conditions are policy errors and fail closed" | refuted: an unmet condition met first hides the malformed one, and a deny rule is skipped |
| `grant_constraints` | "Allowed fields: intersection", for the API that reads the grant | refuted: disjoint fields become JSON `null`, which is no restriction |
| `server_postgres` | `AllowOnlyFitAgents`; a decision is what *one* manifest and *one* set of policies of the request's time give (`DecisionsAreExplained`); the server is an `Authority` (`ImplementsAuthority`); with two callers, sessions, status updates, and manifests, bindings and policies that change between a request's reads | holds, 350,040 states |
| `server_liveness` | On the memory store: an agent that stays revoked or deleted ends up without a valid grant or session; every request is answered while operators keep taking the mutex; OPA decides, and fails open | holds, 77,844 states |
| `torn_status` | "All methods are safe for concurrent use", "Revoked agents → deny" on memory with in-place updates | refuted: suspended at the first check, revoked at the second |
| `lost_update` | "UpdateAgentStatus updates only the agent's status" | refuted on Postgres: it writes back the manifest it read |
| `wpt` | No proof is accepted twice before its expiry plus skew, whatever requests interleave | holds, 94,940 states |
| `bundle` | After a sync without failures the client has the server's content of every item the tag vouches for (`SyncCatchesUp`); a polling client converges (`Converges`) | holds, 611,480 states |
| `keys` | A withdrawn key is accepted for an hour and one client timeout at most; a published one is refused for a key's sake only while it is new or an answer was blank; after that long in good health a provider's keys are accepted, except behind a pinned guess (`Recovers`) | holds, 1,959,710 states |
| `enforcement` | What a point forwards on a verdict was allowed; behind a gateway that got a grant, a call the middleware validated a grant of is served for the pair that was authorized (`ServedAsAuthorized`); together with the middleware, and whatever headers clients send, `LeasedAccess` | holds, 1,336,704 states |
| `migrations` | No version runs twice, no instance meets another's rows, those that serve do so on their own schema, all is `SchemaHistory`, and nobody waits for the lock for ever | holds, 6,576 states |

Each property of a passing run has a mutant in `PROJECT.json`: a definition changed
the way a plausible bug would (operators named `Mut...`), which the run refutes.

**Bounds.** `MaxStored` 3 policies at once out of 8: an interaction of
rules takes one that errs or denies, one that asks for approval and one that allows,
and mergers take two. Three rules state `allowedFields`: of the pairs of them, two
overlap in one field and one is disjoint. Requests cover two actions, three actors, three resources,
with and without delegation. `MCAuthzServer` has one agent that can be registered, and
in `server_postgres` a second caller, `aide`, which is no agent: it can claim to be
one, or try to open a session for it. The agent's two manifests differ in what
the reads of a request must not mix: in the type, which decides whether the deny policy
selects it, in the capabilities, and in the bindings: only one of them binds `aide`, so
that a session may be opened, or refused, by bindings replaced meanwhile. `Operator` has one
member, as status updates meet only each other and registrations, and two in `lost_update`. In `server_liveness` two policies share a name, so
that one replaces the other. `GivenState` limits the states registrations and updates write,
to those that differ for the property: active and revoked. Of the engines, `server_postgres`
has the built-in one, of which `DecisionsAreExplained` says most, and `server_liveness`
OPA, whose answers include all that Cedar's come to; the theorems hold for all three. Each server run has
one handler: handlers meet only
in the store, the sessions, the grants and the mutex, and whoever changes those while
the handler is in a request (a registration, a status update, a policy) is an action
of its own that may come at any time; the theorems of section 4 hold for any number.
`MaxGrants` and `MaxSessions` limit live tokens while new
requests are admitted: one grant and one session are enough for a token to outlive
a revocation or be presented by its holder in the agent's name. All lifetimes are one second:
issue, use at the last moment, expiry; only `server_postgres` has sessions of none, which
can still be presented in the second they are opened in. `BackendTTL` limits what a backend may ask
for. `MaxNow` stops `WptReplay`'s clock after every window (at most 3 + skew 2) has
been over for two seconds; two of its three proofs share a key with different
expiries. No run turns deadlock checking off. Symmetry (of
requests) is used by `wpt` and `keys`, which check no liveness.

`KeyCache` has two keys, so that a rotation leaves one behind, and two requests, so
that an old answer can be stored over a new one. `TTL`, the hour, is two ticks and
`Latency`, the timeout, one: an entry is fresh, fresh and stale, and expired, and an
answer has time to age. `MCSetup` holds the five setups that differ. One of its keys is a JWT-SVID
key. Kids are distinct here; the theorems also cover a kid used twice.

`Enforcement` has eight deployments, those of which the code treats a call differently, and one call: what the gateway and the proxy keep between calls
(the proxy its tool list) plays no part in handling one, and what one call can leave to the next, a token in the client's hands, is in
the state. Lifetimes are one and two seconds, so that a grant can outlive a shorter
one. `BundleSync` has one client and one request at a time: `Handler` keeps nothing,
and a client syncs from one goroutine. One agent and one policy of two versions make
the two lists and every change between their reads; `MaxFaults` is the number of
failures in a behaviour (a lost answer, a listing cut short, an item that cannot be
applied, a client restart), one being enough for a stale item under a current tag. `Migrations` has two instances and four releases, three that extend each other
and one that edited a migration; with three instances the properties hold too
(59,440 states).

**Fairness** (`FairSpec`). Go schedules every goroutine, so a handler that can step
does. For the steps that need the memory store's mutex the fairness is strong: they
are disabled while an operator's update holds it, again and again, and `RWMutex`
admits the readers that waited when a writer unlocks. An update that began ends, and
the clock advances. Nothing is assumed of clients, operators or restarts.
`RevocationTakesEffect` runs on memory with one state out of force; it would not hold
if updates kept replacing one state out of force by another under a reader, the race
of `torn_status`. In `BundleSync` the client keeps polling and a Sync that began goes on; failures are bounded, store changes are free. In `Migrations` an
instance goes on through its loop, and the lock is granted under strong fairness:
Postgres queues those that wait. Nobody is assumed to start, and nothing is assumed
about failures.

## 4. What is proved

For every value of the constants that satisfies the modules' named assumptions:

- `RuleScanProofs!TypeCorrect`, `ScanCorrect`, `AllowJustified`. The invariant is
  `ScanInvariant`: no rule passed is an error in every order of its conditions, and
  the three lists hold exactly the rules passed that match. `ScanCorrect` shows it
  inductive from the fact that one step adds one position to `Scanned`, and derives
  the decision from it when all are passed. `AllowJustified` follows from the
  decision alone, through lemmas on what `RuleOutcomes` says of an applicable rule.
  `StrictestAlwaysWins` needs what the merge computes for a list of any length. The
  induction is over sets of numbers (`InductionInNat`, from the well-foundedness of
  strict inclusion), shows that the recursive function of `mergeConstraints` exists
  (`MergeExists`), and that after `n` iterations it is as strict as each of the first `n`
  rules (`MergeIsStrict`), because an iteration never loosens (`MergingIsStrict`).
  `AttachmentsDetermined` is the exact form: the loop computes the strictest record of
  the *set* of constraints, no looser and no stricter. One iteration adds one map to the
  set (`MergingIsStrictest`): the least number of a set with one more value is the lesser
  of two (`LeastOfOneMore`), the common fields are intersected once more (`CommonOfOneMore`).
  `MalformedAloneDenies` and `SharedFieldsKept` mark how far two comments of the code are
  right that runs refute: the first follows from the decision's reference, the second
  from the exact constraints and their strictness, as a field common to all lists
  keeps the merged one from being the empty slice that JSON loses.
  Assumptions: `PolicyId` and rule lists are finite, and a constraint key has at most
  one value, a number where the merge compares numbers.
- `AuthzServerProofs!TypeCorrect`, from the assumptions on constants alone.
- `AuthzServerProofs!OnlyFitAgentsAreAllowed`, assuming not (memory and in-place
  status updates), the case `torn_status` refutes. `AllowOnlyFitAgents` speaks of
  decisions and is not inductive: `FitInvariant` adds what a handler knows at each
  `pc`, that what it read was true of the store at some moment of its request.
- `AuthzServerProofs!DecisionsExplained`, under the same assumption. `ExplainedInvariant`
  adds that the policies a handler works on are those of one set the store held that
  select the manifest it has read (`ReadSoFar`), and `FitInvariant` that this manifest
  was in force and capable at some time. Both histories only grow while a request is
  evaluated and a grant only ages, so what explains a decision when it is taken
  (`DecideExplains`) explains it until the response (`ExplainedLonger`).
- `AuthorityProofs!AuthorityImplemented`, under the same assumption: the refinement of
  `Authority`. A step of one handler ends its own asking or leaves it as it is
  (`Refuses`, `AnswersAsking`, `Stutters`) and no other's (`UntouchedAsking`); a change
  of the store makes due exactly the askings whose agent it entitles
  (`ChangeImplements`). That a decision with a grant is for an asking that is due is
  `FitInvariant`; that a session's caller was bound needs no invariant: the asking
  becomes due when the manifest is read (`BeginImplements`), and only a due one is
  answered (`FinishSessionImplements`); that the lifetime is configured or stated by a policy, or shorter, `LifetimesKept`,
  for which `lifetimeOf` is shown to return no other whatever engine answers
  (`DecideKeepsLifetimes`).
- `MigrationsProofs!TypeCorrect`, `MigratedOnce`, `InsertsDoNotConflict`,
  `UpIsMigrated` and the refinement `HistoryImplemented`. The inductive part is
  `LockInvariant`: one instance migrates at a time, and `Progress` says what its
  transaction knows, that each migration passed agrees with the committed rows and
  was run exactly if its row is missing. At the commit nothing is left to do, so the
  transaction wrote the whole plan and ran what was missing: the abstract step.
  Every other step leaves `rows` and `db` alone. Assumptions: versions of one binary
  are distinct (`validateMigrations`) and no migration has an empty stamp.
- `WptReplayProofs!NoReplayInWindow`. `CacheRemembers` adds that an accepted proof's
  key holds its expiry until its window is over, although another proof of the same
  key may overwrite the entry and a purge may use an older clock. `TypeCorrect` with it.
- `EnforcementProofs!TypeCorrect`, `ForwardedIsAllowed`, `ServedIsAuthorized` and the
  refinement `LeasesAreKept`. The invariant has three parts: `Course`, what a call has
  got at each `pc`; `Justified`, why, from the moment it was seen allowed to the pair
  the middleware verified; and `Backed`, that a live token in anybody's hands is a
  grant the server remembers, which is what a lease of `LeasedAccess` is mapped to.
  None of them says anything of verified headers without a grant: `Admitted` leaves these out.
  Assumptions: lifetimes are at most `TTL`, and the configurations are those the code
  knows.
- `BundleSyncProofs!TypeCorrect` and `SyncsCatchUp`. The invariant follows an item the
  server does not change: into the listing and the tag (`ListingIsComplete`), by the
  loop to the client (`TagIsApplied`), and, between two Syncs, that the client has
  what its tag names (`TagIsHonoured`), without which a 304 would say nothing.
  Assumptions: items are finite, agents are not policies, failures are bounded.
- `KeyCacheProofs!TypeCorrect`, `WithdrawnKeysExpire`, `PublishedKeysAreAccepted` and
  `CachesRecover`. One invariant carries all: a key set on its way or in the cache,
  `a` ticks after it left the provider, differs from what is published only in keys that changed
  within those `a` ticks (`Recent`). Every answer is at most `Latency` old when it is stored
  and `TTL` older when it is read for the last time, whatever the order of the
  stores. Assumptions: an hour of at least one tick, at least one key, known setups.

Only model-checked: liveness under fairness (`Converges`, `RevocationTakesEffect`,
`RequestsAreAnswered`, `StartsEnd`), which is out of this prover's reach, as ENABLED is;
and the refuted statements. On the memory store with in-place status updates
`AllowOnlyFitAgents` is false, which is why `OnlyFitAgentsAreAllowed` excludes it, as
`DecisionsExplained` and `AuthorityImplemented` do. That `Evaluate`'s verdict on the policies it
has selected is right is not part of those two: it is `ScanCorrect` and
`AttachmentsDetermined`: `AuthzServer` takes its verdicts and lifetimes from the operators
these two theorems compare the scan with (`RuleVerdicts`, and `least` of what is `given`).

## 5. Divergences seen and not run

- A policy subject's fields are alternatives (`MatchesAgent`); the comment of
  `PolicySpec.Subject` says all must match.
- `PolicyRule.FailMode` is documented ("open" skips the rule) and never read.
- "Every evaluation is deterministic" (`engine/README.md:80`): with two matching
  approval rules the approvers and the expiry are those of the first in the order of a
  Go map. `AttachmentsAreReference` shows that nothing else of an outcome without an
  invalid rule depends on an order.
- `Evaluate` admits `pending_review` agents; its comment and the docs say active.
- At the last instant of a proof's window, expiry plus skew, the claims are still
  valid and the jti is no longer refused: the two comparisons differ in strictness.
- Registering a revoked agent makes it active (`handleRegisterAgent` sets the
  status), and so does a restart that loads `DataDir`; `TEST_PLAN.md:69`
  asks that a revocation be final.
- Audit events are named by the clock in nanoseconds; on Postgres the second of two
  equal ids is dropped by `ON CONFLICT DO NOTHING`, where `engine/model/audit.go`
  promises one event for every evaluation.
- A bundle item that could not be applied is not tried again until some item
  changes, since the new ETag is recorded. An item that changes on the memory store
  between the hash and the encoding of one answer reaches the client newer than its
  tag says: the next Sync fetches it again, unless it has changed back, which the tag
  then takes for what the client has.
- On the memory store the ETag depends on the order of a Go map, so an unchanged
  store may give a new tag; `TestServerETagStable` has one agent.
- A JSON error answer other than 401 decodes to an empty decision, which neither the
  gateway nor the proxy blocks (the SDK raises); none of the three blocks a decision it
  does not know, such as `require_delegation`. The middleware behind refuses such calls, which is
  what the refinement of `LeasedAccess` rests on.
- The grant middleware does not compare the grant's action with the route.
- With `AllowMissing` a call without a grant reaches the API with the headers it came
  with, `X-OAP-Verified-*` included, which `Wrap` calls verified
  (`grant_middleware.go:90`). An API behind it can rely on them only beside a
  grant header, which is how `Admitted` reads them.
- The gateway's `httputil.ReverseProxy` drops the headers a client names in
  `Connection`, the injected grant header among them, and `protect` injects the
  grant only into functions that accept the keyword: a call that was granted may
  arrive without a grant. No other grant takes its place at the gateway (`ServedAsAuthorized`).
- `handleRegisterAgent` replaces a manifest for any authenticated caller, identity
  bindings included. A session is therefore as good as the bindings registered when it was
  opened, which is all `ImplementsAuthority` says; `server.go:490-491` ("prevents callers from
  claiming to be a different agent") holds up to those bindings.
- The gateway looks for a route's prefix in a Go map, so that of two
  prefixes that match one is taken by chance; the models take the action as given.
- `Sync` registers and never deletes, so an agent or a policy removed at the bundle
  server stays at its clients; `docs/flows/revocation.md:45` and `:50` promise that
  its permissions go with the next bundle sync.
- The auth middleware discovers the issuer's keys once (`sync.Once`). If that fails,
  the guessed URL is used until the process ends, however well the provider is
  (`Pinned` in `KeyCache`); that request has no timeout either, which the model does not
  show. An answer without keys is cached for the hour.
- The OIDC verifier fetches again for a kid it does not know; when a provider uses a
  kid again for a new key, the old key is used until the hour is over.
- Cedar's `Allow` with an empty map of constraints is denied: the map makes it
  `allow_with_constraints`, which is denied without constraints. OPA's is allowed.
- A backend's answer that does not decode is denied even with `FailOpen`.
- `CreateRun` stores runs for as long as the process lives and nothing reads them; the
  `run_id` of a grant is whatever the request says.
- The MCP proxy's `tools/list` in remote mode filters with an evaluator it has not.

- The SDK's embedded mode reads the text `oapctl simulate` prints and leaves out its
  constraints (`_parse_oapctl_output`), so a protected function runs on
  `allow_with_constraints` without the `oap_constraints` that `decorators.py:4`
  promises.

The models follow the code in all of these.

## 6. Not modelled

- Cryptography, HTTP framing, logging, metrics, and the parsing and validation of
  manifests, resources and tools (no decision reads them): data, with no control a
  property is about.
- Reads that keep no state, and `CreateRun`, whose record nothing reads.
- The claims checks of `verifyJWT` and of the token validator beyond keys and replay,
  and the subject patterns of bindings: pure comparisons of one token. What they decide,
  whether a caller's token matches a binding, is an input (`bindings`).
- What an audit event contains. Whether it is written, dropped or failed is modelled
  (`audit`, `stamped`), but no property depends on it.
- The legacy registry, which the server does not use, and the CLI, a sequential
  front end of the evaluator.
- The numeric edges of lifetimes: `time.Duration(seconds) * time.Second` overflows for
  a lifetime of centuries.

`PROJECT.json` lists every component with its status, and the hazards no property
covers with the reason.

## 7. Plan

Done, in order of importance: the evaluator, the server with its backends, replay
protection, enforcement, bundles, migrations, key caches; safety proofs of all of them;
the server as an implementation of an abstract authority.

1. One chain from the rules to the API: the leases of `LeasedAccess` backed by the
   credentials of `Authority`.
2. Audit sinks: the fan-out, whose sinks fail one by one, and the memory sink's ring.
3. The MCP proxy's tool list, cached for ever.
