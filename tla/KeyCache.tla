------------------------------ MODULE KeyCache ------------------------------
(***************************************************************************)
(* The caches of an identity provider's signing keys, in the three places  *)
(* that verify its tokens: TokenValidator.getJWKS, one entry per binding,  *)
(* for workload tokens; authMiddleware.getJWKS for raw JWTs; and           *)
(* oidc.Verifier.getJWKS for people's.  The provider withdraws and         *)
(* publishes keys, fails, and answers without keys while requests read the *)
(* cache, fetch and store; a slow answer may be stored over a newer one.   *)
(*                                                                         *)
(* A request is the token it carries, and a token the key that signed it:  *)
(* PolicyEval and WptReplay have the claims.  The entries of a key set     *)
(* state their algorithm and there is one, so a token whose kid matches    *)
(* nothing is tried on every key.                                          *)
(***************************************************************************)
EXTENDS Integers

CONSTANTS
    Key,
    KeyID,       \* KeyID[k]: the kid the provider gives k
    Svid,        \* the keys a SPIFFE bundle marks for JWT-SVIDs
    Request,     \* goroutines of the process, each a request at a time
    TTL,         \* the hour an answer serves
    Latency,     \* the client's timeout
    Setup        \* who verifies, against which provider

ASSUME DelaysAreNat == TTL \in Nat \ {0} /\ Latency \in Nat

ASSUME KeysExist == Key # {} /\ Svid \subseteq Key

\* "validator" and "spiffe" are the TokenValidator, by the binding's type.
ASSUME SetupsAreKnown ==
    Setup \subseteq [reader : {"validator", "spiffe", "middleware", "oidc"},
                     explicit : BOOLEAN,  \* the URL of the keys is configured
                     standard : BOOLEAN,  \* the keys are also at the path it guesses
                     named : BOOLEAN]     \* tokens state a kid

\* After this long an answer is neither on its way nor in the cache.
Window == TTL + Latency

VARIABLES
    setup,
    published,   \* the keys the provider has
    since,       \* how long a key has been published, or not, up to Window
    mode,        \* how it answers: "up", "hidden", "blank", "down"
    calm,        \* for how long it has been up, up to Window
    url,         \* jwksURL: "none", "declared", "standard"
    cache,       \* keys, and their age up to TTL: older, or no entry at all
    pc, token, age, answer  \* a request, and its fetch: how old, what came

provider == <<published, since, mode, calm>>
request == <<pc, token, age, answer>>
vars == <<setup, provider, url, cache, request>>

Validator == setup.reader \in {"validator", "spiffe"}

\* Hidden: the configuration does not come; blank: 200 and a set without keys.
Mode == {"up", "hidden", "blank", "down"}

discovery == mode \in {"up", "blank"}

AnyKey == CHOOSE k \in Key : TRUE

-----------------------------------------------------------------------------
(* The provider. *)

Change(k) == since' = [since EXCEPT ![k] = 0] /\ UNCHANGED <<setup, mode, calm, url, cache, request>>

Publish(k) == k \notin published /\ published' = published \cup {k} /\ Change(k)

Withdraw(k) == k \in published /\ published # {k} /\ published' = published \ {k} /\ Change(k)

Disturb ==
    /\ mode' \in Mode \ {mode}
    /\ calm' = 0
    /\ UNCHANGED <<setup, published, since, url, cache, request>>

-----------------------------------------------------------------------------
(* The cache. *)

\* Fault: a configuration without a URL is believed.
MutDiscoverEmpty ==
    /\ ~Validator /\ url = "none"
    /\ url' \in {"declared", ""}
    /\ UNCHANGED <<setup, provider, cache, request>>

\* Once: sync.Once at the middleware's first JWT, NewVerifier for people.  The
\* guess that a failure leaves is never given up.
Discover ==
    /\ ~Validator
    /\ url = "none"
    /\ url' = IF setup.explicit \/ discovery THEN "declared" ELSE "standard"
    /\ UNCHANGED <<setup, provider, cache, request>>

\* Fault: old keys serve as long as there are any.
MutFreshForever == cache.age < TTL \/ cache.keys # {}

Fresh == cache.age < TTL

\* kidInCache.
KidInCache(k) == setup.named /\ \E j \in cache.keys : KeyID[j] = KeyID[k]

\* Fault: a kid in the cache is enough.
MutHitByKid(k) == (setup.reader = "oidc" \/ Fresh) /\ (setup.reader = "oidc" => KidInCache(k))

Hit(k) == Fresh /\ (setup.reader = "oidc" => KidInCache(k))

\* findMatchingKeys, findKeysFromJWKS, findKeys: by kid, else by algorithm.
MatchingKeys(k, keys) ==
    LET byKid == {j \in keys : setup.named /\ KeyID[j] = KeyID[k]}
    IN  IF byKid # {} THEN byKid ELSE keys

Verdict(k, keys) == IF k \in MatchingKeys(k, keys) THEN "accepted" ELSE "refused"

CanBegin(r) == pc[r] = "idle" /\ (url # "none" \/ Validator)

\* getJWKS returns what it has.
Reuse(r, k) ==
    /\ CanBegin(r)
    /\ Hit(k)
    /\ pc' = [pc EXCEPT ![r] = Verdict(k, cache.keys)]
    /\ token' = [token EXCEPT ![r] = k]
    /\ UNCHANGED <<setup, provider, url, cache, age, answer>>

\* getJWKS goes to the provider; so may other requests.
Fetch(r, k) ==
    /\ CanBegin(r)
    /\ ~Hit(k)
    /\ pc' = [pc EXCEPT ![r] = "fetching"]
    /\ token' = [token EXCEPT ![r] = k]
    /\ age' = [age EXCEPT ![r] = 0]
    /\ UNCHANGED <<setup, provider, url, cache, answer>>

\* jwksURLsForBinding discovers at every fetch, and adds its guesses.
jwksURLs ==
    CASE ~Validator -> {url}
      [] Validator /\ setup.explicit -> {"declared"}
      [] OTHER -> {"standard"} \cup {u \in {"declared"} : discovery}

Served(u) == mode # "down" /\ (u = "declared" \/ setup.standard)

\* What a fetch yields, normalizeJWKSForBinding included.
Keys ==
    LET keys == IF mode = "blank" THEN {} ELSE published
    IN  IF setup.reader = "spiffe" THEN keys \cap Svid ELSE keys

\* Fault: an answer without keys is an answer.
MutCanFetch == \E u \in jwksURLs : Served(u)

\* Only the validator looks whether there are any.
CanFetch == (\E u \in jwksURLs : Served(u)) /\ (Validator => Keys # {})

Answer(r) ==
    /\ pc[r] = "fetching"
    /\ CanFetch
    /\ pc' = [pc EXCEPT ![r] = "answered"]
    /\ answer' = [answer EXCEPT ![r] = Keys]
    /\ UNCHANGED <<setup, provider, url, cache, token, age>>

\* No URL has keys: the request is an error, whatever the cache still holds.
Fail(r) ==
    /\ pc[r] = "fetching"
    /\ ~CanFetch
    /\ pc' = [pc EXCEPT ![r] = "failed"]
    /\ age' = [age EXCEPT ![r] = 0]
    /\ UNCHANGED <<setup, provider, url, cache, token, answer>>

\* The write lock; the request goes on with its own answer.
Store(r) ==
    /\ pc[r] = "answered"
    /\ cache' = [keys |-> answer[r], age |-> 0]
    /\ pc' = [pc EXCEPT ![r] = Verdict(token[r], answer[r])]
    /\ age' = [age EXCEPT ![r] = 0]
    /\ answer' = [answer EXCEPT ![r] = {}]
    /\ UNCHANGED <<setup, provider, url, token>>

Finish(r) ==
    /\ pc[r] \in {"accepted", "refused", "failed"}
    /\ pc' = [pc EXCEPT ![r] = "idle"]
    /\ token' = [token EXCEPT ![r] = AnyKey]
    /\ UNCHANGED <<setup, provider, url, cache, age, answer>>

\* A fetch that has not ended after Latency ends, one way or the other.
Pending(r) == pc[r] \in {"fetching", "answered"}

Later(a, bound) == IF a < bound THEN a + 1 ELSE bound

Tick ==
    /\ \A r \in Request : Pending(r) => age[r] < Latency
    /\ since' = [k \in Key |-> Later(since[k], Window)]
    /\ calm' = IF mode = "up" THEN Later(calm, Window) ELSE 0
    /\ cache' = [cache EXCEPT !.age = Later(@, TTL)]
    /\ age' = [r \in Request |-> IF Pending(r) THEN age[r] + 1 ELSE age[r]]
    /\ UNCHANGED <<setup, published, mode, url, pc, token, answer>>

Init ==
    /\ setup \in Setup
    /\ published \in (SUBSET Key) \ {{}}
    /\ since = [k \in Key |-> Window]
    /\ mode \in Mode
    /\ calm = IF mode = "up" THEN Window ELSE 0
    /\ url = "none"
    /\ cache = [keys |-> {}, age |-> TTL]
    /\ pc = [r \in Request |-> "idle"]
    /\ token = [r \in Request |-> AnyKey]
    /\ age = [r \in Request |-> 0]
    /\ answer = [r \in Request |-> {}]

Serve(r) == Answer(r) \/ Fail(r) \/ Store(r) \/ Finish(r)

Next ==
    \/ \E k \in Key : Publish(k) \/ Withdraw(k)
    \/ Disturb
    \/ Discover
    \/ \E r \in Request : Serve(r) \/ \E k \in Key : Reuse(r, k) \/ Fetch(r, k)
    \/ Tick

Spec == Init /\ [][Next]_vars

-----------------------------------------------------------------------------
(* Properties. *)

\* Every variable has its type; no age is past its bound.
TypeOK ==
    /\ setup \in Setup
    /\ published \in SUBSET Key
    /\ since \in [Key -> 0..Window]
    /\ mode \in Mode
    /\ calm \in 0..Window
    /\ url \in {"none", "declared", "standard"}
    /\ cache \in [keys : SUBSET Key, age : 0..TTL]
    /\ pc \in [Request -> {"idle", "fetching", "answered", "accepted", "refused", "failed"}]
    /\ token \in [Request -> Key]
    /\ age \in [Request -> 0..Latency]
    /\ answer \in [Request -> SUBSET Key]

Ends(r, verdict) == pc[r] # verdict /\ pc'[r] = verdict

\* A key the provider has withdrawn stops being accepted after the hour and
\* one client timeout, though an older answer may be stored over a newer one
\* and starts an hour of its own.
WithdrawnKeyExpires ==
    [][\A r \in Request :
          Ends(r, "accepted") => token'[r] \in published \/ since[token'[r]] < Window]_vars

\* How long a new key may be refused.  The OIDC verifier looks a kid it does
\* not know up; it takes a kid that is used again for the key it had.
Patience(k) ==
    IF setup.reader = "oidc" /\ (setup.named => \A j \in Key : KeyID[j] = KeyID[k] => j = k)
    THEN Latency + 1 ELSE Window

\* An answer without keys is held against the request that got it; in the
\* middleware against those of an hour.
Blank(r) ==
    \/ pc[r] = "answered" /\ answer[r] = {}
    \/ setup.reader = "middleware" /\ cache.keys = {}

\* A token is refused for its key only if the key is not published, is too new
\* for this cache, is none of the bundle's signing keys, or an answer was blank.
PublishedKeyIsAccepted ==
    [][\A r \in Request :
          Ends(r, "refused") =>
              \/ token'[r] \notin published
              \/ since[token'[r]] < Patience(token'[r])
              \/ Blank(r)
              \/ setup.reader = "spiffe" /\ token'[r] \notin Svid]_vars

\* The provider has answered, and for k, as long as an answer is kept.
Healthy(k) ==
    /\ calm = Window
    /\ k \in published /\ since[k] = Window
    /\ setup.reader = "spiffe" => k \in Svid

\* One failed discovery has put the guess in the place of the keys' URL for ever.
Pinned == url = "standard" /\ ~setup.standard

\* Once the provider is well again its keys are accepted again within the hour
\* and one timeout, whatever was cached, lost or blank before: except behind a
\* pinned guess.
Recovers ==
    [][\A r \in Request :
          Ends(r, "refused") \/ Ends(r, "failed") => Pinned \/ ~Healthy(token'[r])]_vars
=============================================================================
