--------------------------- MODULE KeyCacheProofs ---------------------------
(***************************************************************************)
(* What the key caches promise, for every set of keys and requests, every  *)
(* kid they share, and every hour and timeout.                             *)
(*                                                                         *)
(* The argument is one invariant: a set of keys that is on its way or in   *)
(* the cache and a ticks old differs from what the provider publishes only *)
(* in keys that changed within those a ticks, and is empty only if the     *)
(* provider was not well within them.  An answer is Latency old at most    *)
(* when it is stored, and TTL older at most when it is read last.          *)
(***************************************************************************)
EXTENDS KeyCache, TLAPS

\* keys was an answer of the provider at most a ticks ago.
Recent(keys, a) ==
    /\ \A k \in keys : k \in published \/ since[k] <= a
    /\ \A k \in published \ keys :
          since[k] <= a \/ keys = {} \/ (setup.reader = "spiffe" /\ k \notin Svid)
    /\ keys = {} => ~Validator /\ calm <= a

IInv ==
    /\ TypeOK
    /\ published # {}
    /\ mode # "up" => calm = 0
    /\ cache.age < TTL => Recent(cache.keys, cache.age + Latency)
    /\ \A r \in Request : pc[r] = "answered" => Recent(answer[r], age[r])
    /\ \A r \in Request : pc[r] = "fetching" => Validator \/ url # "none"

LEMMA WindowIsNat == Window \in Nat /\ Window = TTL + Latency /\ Latency < Window
BY DelaysAreNat DEF Window

LEMMA AnyKeyIsOne == AnyKey \in Key
BY KeysExist DEF AnyKey

LEMMA InitIInv == Init => IInv
<1>1. SUFFICES ASSUME Init PROVE IInv
  OBVIOUS
<1>2. TypeOK
  BY <1>1, WindowIsNat, AnyKeyIsOne, DelaysAreNat DEF Init, TypeOK, Mode
<1>3. cache.age = TTL /\ ~(TTL < TTL)
  BY <1>1, DelaysAreNat DEF Init
<1>4. QED
  BY <1>1, <1>2, <1>3 DEF Init, IInv

\* An answer does not get younger: a later bound is one too.
LEMMA RecentIsMonotone ==
    ASSUME TypeOK, NEW keys \in SUBSET Key, NEW a \in Nat, NEW b \in Nat, a <= b, Recent(keys, a)
    PROVE  Recent(keys, b)
<1>1. since \in [Key -> Nat] /\ calm \in Nat /\ published \subseteq Key
  BY WindowIsNat DEF TypeOK
<1>2. QED
  BY <1>1 DEF Recent

\* What the provider does at a tick leaves an answer recent; so does time, for
\* an answer that is a tick older.
LEMMA RecentLasts ==
    ASSUME IInv, NEW keys \in SUBSET Key, NEW a \in Nat, Recent(keys, a),
           \/ \E k \in Key : Publish(k) \/ Withdraw(k)
           \/ Disturb
    PROVE  Recent(keys, a)'
<1>1. since \in [Key -> Nat] /\ calm \in Nat /\ published \subseteq Key
  BY WindowIsNat DEF IInv, TypeOK
<1>2. CASE \E k \in Key : Publish(k) \/ Withdraw(k)
  <2>1. PICK k \in Key : Publish(k) \/ Withdraw(k)
    BY <1>2
  <2>2. /\ UNCHANGED <<setup, calm>>
        /\ \A j \in Key : since'[j] = IF j = k THEN 0 ELSE since[j]
        /\ \A j \in Key : j # k => (j \in published' <=> j \in published)
    BY <1>1, <2>1 DEF Publish, Withdraw, Change
  <2>3. \A j \in keys : j \in published' \/ since'[j] <= a
    BY <1>1, <2>2 DEF Recent
  <2>4. published' \subseteq Key
    BY <1>1, <2>1 DEF Publish, Withdraw
  <2>5. \A j \in published' \ keys :
            since'[j] <= a \/ keys = {} \/ (setup.reader = "spiffe" /\ j \notin Svid)
    BY <1>1, <2>2, <2>4 DEF Recent
  <2>6. QED
    BY <2>2, <2>3, <2>5 DEF Recent, Validator
<1>3. CASE Disturb
  BY <1>1, <1>3 DEF Disturb, Recent, Validator
<1>4. QED
  BY <1>2, <1>3

LEMMA RecentAges ==
    ASSUME IInv, NEW keys \in SUBSET Key, NEW a \in Nat, Recent(keys, a), Tick
    PROVE  Recent(keys, a + 1)'
<1>1. since \in [Key -> Nat] /\ calm \in Nat /\ published \subseteq Key
  BY WindowIsNat DEF IInv, TypeOK
<1>2. /\ UNCHANGED <<setup, published>>
      /\ \A j \in Key : since'[j] <= since[j] + 1
      /\ calm' <= calm + 1 /\ calm' \in Nat
      /\ since' \in [Key -> Nat]
  BY <1>1, WindowIsNat DEF Tick, Later
<1>3. QED
  BY <1>1, <1>2 DEF Recent, Validator

\* The provider's answer, as a fetch takes it.
LEMMA KeysAreRecent ==
    ASSUME IInv, CanFetch, NEW a \in Nat
    PROVE  Keys \in SUBSET Key /\ Recent(Keys, a)
<1>1. since \in [Key -> Nat] /\ calm \in Nat /\ published \subseteq Key /\ published # {}
  BY WindowIsNat DEF IInv, TypeOK
<1>2. CASE mode = "blank"
  <2>1. Keys = {} /\ calm = 0
    BY <1>2 DEF Keys, IInv
  <2>2. QED
    BY <1>1, <2>1 DEF CanFetch, Recent
<1>3. CASE mode # "blank"
  <2>1. Keys = IF setup.reader = "spiffe" THEN published \cap Svid ELSE published
    BY <1>3 DEF Keys
  <2>2. Keys # {}
    BY <1>1, <2>1 DEF CanFetch, Validator
  <2>3. QED
    BY <1>1, <2>1, <2>2 DEF Recent
<1>4. QED
  BY <1>2, <1>3

LEMMA ProviderKeeps ==
    ASSUME IInv, (\E k \in Key : Publish(k) \/ Withdraw(k)) \/ Disturb
    PROVE  IInv'
<1>1. UNCHANGED <<setup, url, cache, pc, token, age, answer>>
  BY DEF Publish, Withdraw, Change, Disturb, request
<1>2. TypeOK' /\ (published # {})' /\ (mode # "up" => calm = 0)'
  <2>1. CASE \E k \in Key : Publish(k) \/ Withdraw(k)
    <3>1. PICK k \in Key : Publish(k) \/ Withdraw(k)
      BY <2>1
    <3>2. published' \subseteq Key /\ published' # {}
      BY <3>1 DEF Publish, Withdraw, IInv, TypeOK
    <3>3. since' \in [Key -> 0..Window] /\ UNCHANGED <<mode, calm>>
      BY <3>1, WindowIsNat DEF Publish, Withdraw, Change, IInv, TypeOK
    <3>4. QED
      BY <1>1, <3>2, <3>3 DEF IInv, TypeOK
  <2>2. CASE Disturb
    BY <1>1, <2>2, WindowIsNat DEF Disturb, IInv, TypeOK
  <2>3. QED
    BY <2>1, <2>2
<1>3. (cache.age < TTL => Recent(cache.keys, cache.age + Latency))'
  <2>1. cache.keys \in SUBSET Key /\ cache.age + Latency \in Nat
    BY DelaysAreNat DEF IInv, TypeOK
  <2>2. Recent(cache.keys, cache.age + Latency) => Recent(cache.keys, cache.age + Latency)'
    BY <1>1, <2>1, RecentLasts DEF Recent
  <2>3. QED
    BY <1>1, <2>2 DEF IInv
<1>4. ASSUME NEW r \in Request, pc'[r] = "answered"
      PROVE  Recent(answer[r], age[r])'
  <2>1. answer[r] \in SUBSET Key /\ age[r] \in Nat /\ Recent(answer[r], age[r])
    BY <1>1, <1>4, DelaysAreNat DEF IInv, TypeOK
  <2>2. QED
    BY <1>1, <2>1, RecentLasts DEF Recent
<1>5. QED
  BY <1>1, <1>2, <1>3, <1>4 DEF IInv, Validator

\* What a request does leaves the provider alone, and the ages: it is enough to
\* show where its fetch and the cache come from.
LEMMA RequestKeeps ==
    ASSUME IInv, NEW r \in Request,
           Serve(r) \/ \E k \in Key : Reuse(r, k) \/ Fetch(r, k)
    PROVE  IInv'
<1>1. /\ UNCHANGED <<setup, provider, url>>
      /\ \A q \in Request : q # r => pc'[q] = pc[q] /\ answer'[q] = answer[q] /\ age'[q] = age[q]
  <2>1. CASE Answer(r)
    BY <2>1 DEF Answer, IInv, TypeOK
  <2>2. CASE Fail(r)
    BY <2>2 DEF Fail, IInv, TypeOK
  <2>3. CASE Store(r)
    BY <2>3 DEF Store, IInv, TypeOK
  <2>4. CASE Finish(r)
    BY <2>4 DEF Finish, IInv, TypeOK
  <2>5. CASE \E k \in Key : Reuse(r, k) \/ Fetch(r, k)
    BY <2>5 DEF Reuse, Fetch, IInv, TypeOK
  <2>6. QED
    BY <2>1, <2>2, <2>3, <2>4, <2>5 DEF Serve
<1>2. ASSUME NEW k \in Key, NEW keys
      PROVE  Verdict(k, keys) \in {"accepted", "refused"}
  BY DEF Verdict
<1>3. TypeOK'
  <2>1. CASE Answer(r)
    <3>1. Keys \in SUBSET Key
      BY <2>1, KeysAreRecent DEF Answer
    <3>2. QED
      BY <2>1, <3>1 DEF Answer, IInv, TypeOK, provider
  <2>2. CASE Fail(r)
    BY <2>2, DelaysAreNat DEF Fail, IInv, TypeOK, provider
  <2>3. CASE Store(r)
    <3>1. answer[r] \in SUBSET Key /\ Verdict(token[r], answer[r]) \in {"accepted", "refused"}
      BY <1>2 DEF IInv, TypeOK
    <3>2. QED
      BY <2>3, <3>1, DelaysAreNat DEF Store, IInv, TypeOK, provider
  <2>4. CASE Finish(r)
    BY <2>4, AnyKeyIsOne DEF Finish, IInv, TypeOK, provider
  <2>5. CASE \E k \in Key : Reuse(r, k)
    BY <2>5, <1>2 DEF Reuse, IInv, TypeOK, provider
  <2>6. CASE \E k \in Key : Fetch(r, k)
    BY <2>6, DelaysAreNat DEF Fetch, IInv, TypeOK, provider
  <2>7. QED
    BY <2>1, <2>2, <2>3, <2>4, <2>5, <2>6 DEF Serve
<1>4. (published # {})' /\ (mode # "up" => calm = 0)'
  BY <1>1 DEF IInv, provider
<1>5. ASSUME NEW q \in Request, pc'[q] = "answered"
      PROVE  Recent(answer[q], age[q])'
  <2>1. CASE q # r
    BY <1>1, <1>5, <2>1 DEF IInv, Recent, Validator, provider
  <2>2. CASE q = r
    <3>1. Answer(r)
      BY <1>2, <1>5, <2>2 DEF Serve, Answer, Fail, Store, Finish, Reuse, Fetch, IInv, TypeOK
    <3>2. answer'[r] = Keys /\ age'[r] = age[r] /\ age[r] \in Nat
      BY <3>1, DelaysAreNat DEF Answer, IInv, TypeOK
    <3>3. Recent(Keys, age[r])
      BY <3>1, <3>2, KeysAreRecent DEF Answer
    <3>4. QED
      BY <1>1, <2>2, <3>2, <3>3 DEF Recent, Validator, provider
  <2>3. QED
    BY <2>1, <2>2
<1>6. ASSUME NEW q \in Request, pc'[q] = "fetching"
      PROVE  (Validator \/ url # "none")'
  <2>1. CASE q # r
    BY <1>1, <1>6, <2>1 DEF IInv, Validator
  <2>2. CASE q = r
    <3>1. \E k \in Key : Fetch(r, k)
      BY <1>2, <1>6, <2>2 DEF Serve, Answer, Fail, Store, Finish, Reuse, IInv, TypeOK
    <3>2. QED
      BY <1>1, <3>1 DEF Fetch, CanBegin, Validator
  <2>3. QED
    BY <2>1, <2>2
<1>7. (cache.age < TTL => Recent(cache.keys, cache.age + Latency))'
  <2>1. CASE Store(r)
    <3>1. cache' = [keys |-> answer[r], age |-> 0] /\ pc[r] = "answered"
      BY <2>1 DEF Store
    <3>2. answer[r] \in SUBSET Key /\ age[r] \in Nat /\ age[r] <= Latency /\ Recent(answer[r], age[r])
      BY <3>1, DelaysAreNat DEF IInv, TypeOK
    <3>3. Recent(answer[r], 0 + Latency)
      BY <3>2, DelaysAreNat, RecentIsMonotone DEF IInv
    <3>4. QED
      BY <1>1, <3>1, <3>3 DEF Recent, Validator, provider
  <2>2. CASE ~Store(r)
    <3>1. cache' = cache
      BY <2>2 DEF Serve, Answer, Fail, Finish, Reuse, Fetch
    <3>2. QED
      BY <1>1, <3>1 DEF IInv, Recent, Validator, provider
  <2>3. QED
    BY <2>1, <2>2
<1>8. QED
  BY <1>3, <1>4, <1>5, <1>6, <1>7 DEF IInv

LEMMA TickKeeps == ASSUME IInv, Tick PROVE IInv'
<1>1. /\ UNCHANGED <<setup, published, mode, url, pc, token, answer>>
      /\ cache'.keys = cache.keys /\ cache'.age = Later(cache.age, TTL)
      /\ \A r \in Request : age'[r] = IF Pending(r) THEN age[r] + 1 ELSE age[r]
      /\ \A r \in Request : Pending(r) => age[r] < Latency
  BY DEF Tick, IInv, TypeOK
<1>2. TypeOK'
  <2>1. \A n \in Nat : \A a \in 0..n : Later(a, n) \in 0..n
    BY DEF Later
  <2>2. since' \in [Key -> 0..Window] /\ calm' \in 0..Window
    BY <2>1, WindowIsNat DEF Tick, IInv, TypeOK
  <2>3. cache' \in [keys : SUBSET Key, age : 0..TTL]
    BY <2>1, DelaysAreNat DEF Tick, IInv, TypeOK
  <2>4. age' \in [Request -> 0..Latency]
    BY DelaysAreNat DEF Tick, IInv, TypeOK
  <2>5. QED
    BY <1>1, <2>2, <2>3, <2>4 DEF IInv, TypeOK
<1>3. (published # {})' /\ (mode # "up" => calm = 0)'
  BY <1>1 DEF Tick, IInv
<1>4. ASSUME NEW r \in Request, pc'[r] = "answered"
      PROVE  Recent(answer[r], age[r])'
  <2>1. age'[r] = age[r] + 1 /\ answer'[r] = answer[r]
    BY <1>1, <1>4 DEF Pending
  <2>2. answer[r] \in SUBSET Key /\ age[r] \in Nat /\ Recent(answer[r], age[r])
    BY <1>1, <1>4, DelaysAreNat DEF IInv, TypeOK
  <2>3. QED
    BY <2>1, <2>2, RecentAges DEF Recent
<1>5. ASSUME cache'.age < TTL
      PROVE  Recent(cache.keys, cache.age + Latency)'
  <2>1. cache.age \in 0..TTL /\ cache.keys \in SUBSET Key
    BY DEF IInv, TypeOK
  <2>2. cache.age < TTL /\ cache'.age = cache.age + 1
    BY <1>1, <1>5, <2>1, DelaysAreNat DEF Later
  <2>3. /\ cache.age + Latency \in Nat
        /\ Recent(cache.keys, cache.age + Latency)
        /\ cache'.age + Latency = (cache.age + Latency) + 1
    BY <2>1, <2>2, DelaysAreNat DEF IInv
  <2>4. QED
    BY <1>1, <2>1, <2>3, RecentAges DEF Recent
<1>6. QED
  BY <1>1, <1>2, <1>3, <1>4, <1>5 DEF IInv, Validator

LEMMA Inductive == IInv /\ [Next]_vars => IInv'
<1>1. SUFFICES ASSUME IInv, [Next]_vars PROVE IInv'
  OBVIOUS
<1>2. CASE (\E k \in Key : Publish(k) \/ Withdraw(k)) \/ Disturb
  BY <1>1, <1>2, ProviderKeeps
<1>3. CASE Discover
  BY <1>1, <1>3 DEF Discover, IInv, TypeOK, Recent, Validator, provider, request
<1>4. CASE \E r \in Request : Serve(r) \/ \E k \in Key : Reuse(r, k) \/ Fetch(r, k)
  BY <1>1, <1>4, RequestKeeps
<1>5. CASE Tick
  BY <1>1, <1>5, TickKeeps
<1>6. CASE UNCHANGED vars
  BY <1>1, <1>6 DEF vars, provider, request, IInv, TypeOK, Recent, Validator
<1>7. QED
  BY <1>1, <1>2, <1>3, <1>4, <1>5, <1>6 DEF Next

\* Every behaviour satisfies the invariant.
THEOREM Invariance == Spec => []IInv
<1>1. QED
  BY InitIInv, Inductive, PTL DEF Spec

\* The caches, their requests and the provider stay within their types.
THEOREM TypeCorrect == Spec => []TypeOK
<1>1. IInv => TypeOK
  BY DEF IInv
<1>2. QED
  BY <1>1, Invariance, PTL

-----------------------------------------------------------------------------
(* The verdicts. *)

\* A verdict is that on one set of keys: the fetch's own, or the fresh cache.
LEMMA VerdictIsOnKeys ==
    ASSUME IInv, [Next]_vars, NEW r \in Request, NEW verdict \in {"accepted", "refused"},
           Ends(r, verdict)
    PROVE  LET k == token'[r]
           IN  /\ k \in Key
               /\ \/ /\ pc[r] = "answered"
                     /\ verdict = Verdict(k, answer[r])
                  \/ /\ Hit(k)
                     /\ verdict = Verdict(k, cache.keys)
<1>1. pc[r] # verdict /\ pc'[r] = verdict
  BY DEF Ends
<1>2. \/ Store(r)
      \/ \E k \in Key : Reuse(r, k)
  BY <1>1 DEF Next, vars, request, Publish, Withdraw, Change, Disturb, Discover, Tick, Serve, Answer,
              Fail, Store, Finish, Reuse, Fetch, IInv, TypeOK
<1>3. CASE Store(r)
  <2>1. token'[r] = token[r] /\ token[r] \in Key
    BY <1>3 DEF Store, IInv, TypeOK
  <2>2. pc'[r] = Verdict(token[r], answer[r]) /\ pc[r] = "answered"
    BY <1>3 DEF Store, IInv, TypeOK
  <2>3. QED
    BY <1>1, <2>1, <2>2
<1>4. CASE \E k \in Key : Reuse(r, k)
  <2>1. PICK k \in Key : Reuse(r, k)
    BY <1>4
  <2>2. token'[r] = k /\ pc'[r] = Verdict(k, cache.keys) /\ Hit(k)
    BY <2>1 DEF Reuse, IInv, TypeOK
  <2>3. QED
    BY <1>1, <2>1, <2>2
<1>5. QED
  BY <1>2, <1>3, <1>4

\* Whether tokens state their kid or not, whoever shares it: the key decides.
LEMMA VerdictIsMembership ==
    ASSUME NEW k \in Key, NEW keys \in SUBSET Key
    PROVE  Verdict(k, keys) = "accepted" <=> k \in keys
BY DEF Verdict, MatchingKeys

\* The keys of a verdict, and how old they are at most.
LEMMA VerdictIsRecent ==
    ASSUME IInv, [Next]_vars, NEW r \in Request, NEW verdict \in {"accepted", "refused"},
           Ends(r, verdict)
    PROVE  LET k == token'[r]
           IN  /\ k \in Key
               /\ \E keys \in SUBSET Key :
                     /\ verdict = "accepted" <=> k \in keys
                     /\ \/ /\ pc[r] = "answered" /\ keys = answer[r]
                           /\ Recent(keys, Latency)
                        \/ /\ Hit(k) /\ keys = cache.keys
                           /\ Recent(keys, Window - 1)
<1> DEFINE k == token'[r]
<1>1. k \in Key
  BY VerdictIsOnKeys
<1>2. CASE pc[r] = "answered" /\ verdict = Verdict(k, answer[r])
  <2>1. answer[r] \in SUBSET Key /\ age[r] \in Nat /\ age[r] <= Latency /\ Recent(answer[r], age[r])
    BY <1>2, DelaysAreNat DEF IInv, TypeOK
  <2>2. Recent(answer[r], Latency)
    BY <2>1, DelaysAreNat, RecentIsMonotone DEF IInv
  <2>3. QED
    BY <1>1, <1>2, <2>1, <2>2, VerdictIsMembership
<1>3. CASE Hit(k) /\ verdict = Verdict(k, cache.keys)
  <2>1. cache.keys \in SUBSET Key /\ cache.age \in 0..TTL /\ cache.age < TTL
    BY <1>3 DEF Hit, Fresh, IInv, TypeOK
  <2>2. cache.age + Latency \in Nat /\ Window - 1 \in Nat /\ cache.age + Latency <= Window - 1
    BY <2>1, DelaysAreNat, WindowIsNat
  <2>3. Recent(cache.keys, cache.age + Latency)
    BY <2>1 DEF IInv
  <2>4. Recent(cache.keys, Window - 1)
    BY <2>1, <2>2, <2>3, RecentIsMonotone DEF IInv
  <2>5. QED
    BY <1>1, <1>3, <2>1, <2>4, VerdictIsMembership
<1>4. QED
  BY <1>1, <1>2, <1>3, VerdictIsOnKeys

LEMMA TypesOfAges ==
    ASSUME IInv
    PROVE  since \in [Key -> Nat] /\ calm \in Nat /\ published \subseteq Key
BY WindowIsNat DEF IInv, TypeOK

\* A withdrawn key is refused from the end of the window on.
THEOREM WithdrawnKeysExpire == Spec => WithdrawnKeyExpires
<1>1. ASSUME IInv, [Next]_vars, NEW r \in Request, Ends(r, "accepted")
      PROVE  token'[r] \in published \/ since[token'[r]] < Window
  <2>1. PICK keys \in SUBSET Key :
            /\ token'[r] \in keys
            /\ Recent(keys, Latency) \/ Recent(keys, Window - 1)
    BY <1>1, VerdictIsRecent
  <2>2. token'[r] \in Key
    BY <2>1
  <2>3. QED
    BY <1>1, <2>1, <2>2, TypesOfAges, WindowIsNat, DelaysAreNat DEF Recent
<1>2. IInv /\ [Next]_vars =>
      [\A r \in Request :
          Ends(r, "accepted") => token'[r] \in published \/ since[token'[r]] < Window]_vars
  BY <1>1
<1>3. QED
  BY <1>2, Invariance, PTL DEF Spec, WithdrawnKeyExpires

\* A published key is refused only where the cache may not know it yet, and then
\* for no longer than its reader takes.
THEOREM PublishedKeysAreAccepted == Spec => PublishedKeyIsAccepted
<1> DEFINE Excused(r) ==
              \/ token'[r] \notin published
              \/ since[token'[r]] < Patience(token'[r])
              \/ Blank(r)
              \/ setup.reader = "spiffe" /\ token'[r] \notin Svid
<1>1. ASSUME IInv, [Next]_vars, NEW r \in Request, Ends(r, "refused"),
             token'[r] \in published, ~Blank(r),
             ~(setup.reader = "spiffe" /\ token'[r] \notin Svid)
      PROVE  since[token'[r]] < Patience(token'[r])
  <2> DEFINE k == token'[r]
  <2>1. PICK keys \in SUBSET Key :
            /\ k \in Key /\ k \notin keys
            /\ \/ /\ pc[r] = "answered" /\ keys = answer[r]
                  /\ Recent(keys, Latency)
               \/ /\ Hit(k) /\ keys = cache.keys
                  /\ Recent(keys, Window - 1)
    BY <1>1, VerdictIsRecent
  <2>2. since[k] \in Nat /\ Latency < Window /\ Window \in Nat /\ Latency \in Nat
    BY <2>1, TypesOfAges, WindowIsNat, DelaysAreNat, <1>1
  <2>3. Patience(k) \in {Latency + 1, Window}
    BY DEF Patience
  <2>4. CASE pc[r] = "answered" /\ keys = answer[r] /\ Recent(keys, Latency)
    <3>1. keys # {}
      BY <1>1, <2>4 DEF Blank
    <3>2. since[k] <= Latency
      BY <1>1, <2>1, <2>4, <3>1 DEF Recent
    <3>3. QED
      BY <2>2, <2>3, <3>2
  <2>5. CASE Hit(k) /\ keys = cache.keys /\ Recent(keys, Window - 1)
    <3>1. setup.reader = "oidc" => setup.named /\ \E j \in keys : KeyID[j] = KeyID[k] /\ j # k
      BY <2>1, <2>5 DEF Hit, KidInCache
    <3>2. keys # {}
      <4>1. CASE setup.reader = "oidc"
        BY <3>1, <4>1
      <4>2. CASE setup.reader # "oidc" /\ keys = {}
        <5>1. ~Validator
          BY <2>5, <4>2 DEF Recent
        <5>2. setup.reader = "middleware"
          BY <1>1, <4>2, <5>1, SetupsAreKnown DEF Validator, IInv, TypeOK
        <5>3. QED
          BY <1>1, <2>5, <4>2, <5>2 DEF Blank
      <4>3. QED
        BY <4>1, <4>2
    <3>3. since[k] <= Window - 1
      BY <1>1, <2>1, <2>5, <3>2 DEF Recent
    <3>4. Patience(k) = Window
      BY <2>1, <3>1 DEF Patience
    <3>5. QED
      BY <2>2, <3>3, <3>4
  <2>6. QED
    BY <2>1, <2>4, <2>5
<1>2. IInv /\ [Next]_vars => [\A r \in Request : Ends(r, "refused") => Excused(r)]_vars
  BY <1>1
<1>3. QED
  BY <1>2, Invariance, PTL DEF Spec, PublishedKeyIsAccepted

\* Recovery has a bound: a window after the provider is well, no request with a
\* key it has published as long fails or is refused, but for a pinned guess.
THEOREM CachesRecover == Spec => Recovers
<1>1. ASSUME IInv, [Next]_vars, NEW r \in Request, Ends(r, "refused")
      PROVE  ~Healthy(token'[r])
  <2> DEFINE k == token'[r]
  <2>1. PICK keys \in SUBSET Key :
            /\ k \in Key /\ k \notin keys
            /\ Recent(keys, Latency) \/ Recent(keys, Window - 1)
    BY <1>1, VerdictIsRecent
  <2>2. /\ since[k] \in Nat /\ calm \in Nat /\ Window \in Nat /\ Latency \in Nat
        /\ Latency < Window
    BY <1>1, <2>1, TypesOfAges, WindowIsNat, DelaysAreNat
  <2>3. \/ k \notin published \/ calm < Window \/ since[k] < Window
        \/ setup.reader = "spiffe" /\ k \notin Svid
    BY <2>1, <2>2 DEF Recent
  <2>4. QED
    BY <2>2, <2>3 DEF Healthy
<1>2. ASSUME IInv, [Next]_vars, NEW r \in Request, Ends(r, "failed"), Healthy(token'[r])
      PROVE  Pinned
  <2>1. pc[r] # "failed" /\ pc'[r] = "failed"
    BY <1>2 DEF Ends
  <2>2. Fail(r)
    <3>1. pc' # pc
      BY <2>1
    <3>2. PICK q \in Request : Serve(q) \/ \E k \in Key : Reuse(q, k) \/ Fetch(q, k)
      BY <1>2, <3>1 DEF Next, vars, request, Publish, Withdraw, Change, Disturb, Discover, Tick
    <3>3. \A v : pc' = [pc EXCEPT ![q] = v] => q = r /\ v = "failed"
      BY <1>2, <2>1 DEF IInv, TypeOK
    <3>4. ~Answer(q) /\ ~Finish(q) /\ \A k \in Key : ~Fetch(q, k)
      BY <3>3 DEF Answer, Finish, Fetch
    <3>5. ~Store(q) /\ \A k \in Key : ~Reuse(q, k)
      BY <3>3 DEF Store, Reuse, Verdict
    <3>6. Fail(q) /\ q = r
      BY <3>2, <3>3, <3>4, <3>5 DEF Serve, Fail
    <3>7. QED
      BY <3>6
  <2>3. pc[r] = "fetching" /\ ~CanFetch /\ token'[r] = token[r]
    BY <2>2 DEF Fail
  <2>4. Validator \/ url # "none"
    BY <1>2, <2>3 DEF IInv
  <2>5. mode = "up"
    BY <1>2, WindowIsNat, DelaysAreNat DEF Healthy, IInv
  <2>6. Keys # {}
    BY <1>2, <2>5 DEF Healthy, Keys
  <2>7. \A u \in jwksURLs : u # "declared" /\ ~setup.standard
    BY <2>3, <2>5, <2>6 DEF CanFetch, Served
  <2>8. ~Validator
    BY <2>5, <2>7 DEF jwksURLs, discovery
  <2>9. url # "declared" /\ ~setup.standard /\ url # "none"
    BY <1>2, <2>3, <2>7, <2>8 DEF jwksURLs, IInv
  <2>10. QED
    BY <1>2, <2>9 DEF Pinned, IInv, TypeOK
<1>3. IInv /\ [Next]_vars =>
      [\A r \in Request :
          Ends(r, "refused") \/ Ends(r, "failed") => Pinned \/ ~Healthy(token'[r])]_vars
  BY <1>1, <1>2
<1>4. QED
  BY <1>3, Invariance, PTL DEF Spec, Recovers
=============================================================================
