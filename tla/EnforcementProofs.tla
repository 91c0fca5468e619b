-------------------------- MODULE EnforcementProofs -------------------------
(***************************************************************************)
(* What enforcement points and the grant middleware promise, for every set *)
(* of calls, agents, actions, lifetimes and deployments.                   *)
(*                                                                         *)
(* The invariant has three parts: what a call holds at each point of its   *)
(* way; that an allow, and a token, are the call's own and were justified  *)
(* when they were given; and that a live token, wherever it is, is one of  *)
(* the grants the server handed out.                                       *)
(***************************************************************************)
EXTENDS Enforcement, TLAPS

\* What a call has got so far.
Course(c) ==
    /\ pc[c] = "idle" => header[c] = {} /\ verified[c] = {}
    /\ pc[c] \in {"idle", "asked"} => decision[c] = "none" /\ token[c] = {}
    /\ pc[c] = "answered" => decision[c] # "none"
    /\ pc[c] \in {"arrived", "valid", "served"} /\ ~config.observe => ~Blocks(decision[c])

\* Why it has got it.
Justified(c) ==
    /\ pc[c] # "idle" /\ pair[c] \in allowed => seen[c]
    /\ decision[c] = "allow" => pc[c] # "idle" /\ seen[c]
    /\ token[c] # {} => decision[c] = "allow" /\ \A t \in token[c] : t.pair = pair[c]
    /\ pc[c] \in {"arrived", "valid", "served"} /\ config.point = "gateway" /\ token[c] # {}
          => header[c] \in {token[c], {}}
    /\ pc[c] \in {"valid", "served"} /\ config.point # "proxy" /\ config.grants # "ignored"
          => \A t \in header[c] : verified[c] = {t.pair}

\* A live token is a grant the server remembers.
Backed(c) == \A t \in header[c] \cup token[c] : t.left >= 0 => t \in grants

IInv == TypeOK /\ \A c \in Call : Course(c) /\ Justified(c) /\ Backed(c)

LEMMA AnyPairIsOne == AnyPair \in Pair
BY PairsExist DEF AnyPair

LEMMA InitIInv == Init => IInv
<1>1. SUFFICES ASSUME Init PROVE IInv
  OBVIOUS
<1>2. TypeOK
  BY <1>1, AnyPairIsOne DEF Init, TypeOK, Decisions
<1>3. ASSUME NEW c \in Call PROVE Course(c) /\ Justified(c) /\ Backed(c)
  BY <1>1, <1>3 DEF Init, Course, Justified, Backed
<1>4. QED
  BY <1>2, <1>3 DEF IInv

\* What is said of a call is about its own variables, and the deployment.
LEMMA OthersKeep ==
    ASSUME IInv, NEW c \in Call,
           UNCHANGED <<config, allowed>>,
           pc'[c] = pc[c], pair'[c] = pair[c], header'[c] = header[c], decision'[c] = decision[c],
           token'[c] = token[c], verified'[c] = verified[c], seen'[c] = seen[c],
           grants \subseteq grants'
    PROVE  Course(c)' /\ Justified(c)' /\ Backed(c)'
<1>1. Course(c) /\ Justified(c) /\ Backed(c)
  BY DEF IInv
<1>2. Course(c)'
  BY <1>1 DEF Course, Blocks
<1>3. Justified(c)'
  BY <1>1 DEF Justified
<1>4. Backed(c)'
  BY <1>1 DEF Backed
<1>5. QED
  BY <1>2, <1>3, <1>4

LEMMA GrantedIsTyped ==
    ASSUME NEW p \in Pair, NEW t \in Granted(p)
    PROVE  t \in Token /\ t.left \in 0..TTL /\ t.pair = p
BY LifetimesAreNat DEF Granted, Token

LEMMA JudgeKeeps == ASSUME IInv, NEW p \in Pair, Judge(p) PROVE IInv'
<1>1. PICK a \in {allowed \cup {p}, allowed \ {p}} :
          /\ allowed' = a
          /\ seen' = [c \in Call |-> seen[c] \/ (pc[c] # "idle" /\ pair[c] \in a)]
  BY DEF Judge
<1>2. UNCHANGED <<config, grants, pc, pair, header, decision, token, verified>>
  BY DEF Judge
<1>3. TypeOK'
  BY <1>1, <1>2 DEF IInv, TypeOK
<1>4. ASSUME NEW c \in Call PROVE Course(c)' /\ Justified(c)' /\ Backed(c)'
  <2>1. Course(c) /\ Justified(c) /\ Backed(c)
    BY DEF IInv
  <2>2. seen'[c] = (seen[c] \/ (pc[c] # "idle" /\ pair[c] \in allowed'))
    BY <1>1
  <2>3. Course(c)' /\ Backed(c)'
    BY <1>2, <2>1 DEF Course, Backed, Blocks
  <2>4. Justified(c)'
    BY <1>2, <2>1, <2>2, Zenon DEF Justified
  <2>5. QED
    BY <2>3, <2>4
<1>5. QED
  BY <1>3, <1>4 DEF IInv

LEMMA ClientAuthorizeKeeps == ASSUME IInv, NEW p \in Pair, ClientAuthorize(p) PROVE IInv'
<1>1. PICK t \in Granted(p) : grants' = grants \cup {t}
  BY DEF ClientAuthorize
<1>2. UNCHANGED <<config, allowed, pc, pair, header, decision, token, verified, seen>>
  BY DEF ClientAuthorize, call
<1>3. TypeOK'
  BY <1>1, <1>2, GrantedIsTyped, LifetimesAreNat DEF IInv, TypeOK
<1>4. \A c \in Call : Course(c)' /\ Justified(c)' /\ Backed(c)'
  BY <1>1, <1>2, OthersKeep
<1>5. QED
  BY <1>3, <1>4 DEF IInv

LEMMA BeginKeeps ==
    ASSUME IInv, NEW c \in Call, NEW p \in Pair, NEW h \in ClientTokens, NEW v \in ClientPairs,
           NEW at \in {"asked", "arrived"}, Begin(c, p, h, v, at)
    PROVE  IInv'
<1>1. /\ h \in SUBSET Token /\ h \subseteq grants /\ \A t, u \in h : t = u
      /\ v \in SUBSET Pair /\ \A q, w \in v : q = w
  BY DEF ClientTokens, ClientPairs, IInv, TypeOK
<1>2. /\ UNCHANGED <<config, allowed, grants, decision, token>>
      /\ pc[c] = "idle"
      /\ pc' = [pc EXCEPT ![c] = at]
      /\ pair' = [pair EXCEPT ![c] = p]
      /\ header' = [header EXCEPT ![c] = h]
      /\ verified' = [verified EXCEPT ![c] = v]
      /\ seen' = [seen EXCEPT ![c] = p \in allowed]
  BY DEF Begin
<1>4. TypeOK'
  BY <1>1, <1>2 DEF IInv, TypeOK
<1>5. ASSUME NEW d \in Call PROVE Course(d)' /\ Justified(d)' /\ Backed(d)'
  <2>1. CASE d # c
    BY <1>2, <2>1, OthersKeep DEF IInv, TypeOK
  <2>2. CASE d = c
    <3>1. pc'[c] = at /\ pair'[c] = p /\ header'[c] = h /\ seen'[c] = (p \in allowed)
      BY <1>2 DEF IInv, TypeOK
    <3>2. decision[c] = "none" /\ token[c] = {}
      BY <1>2 DEF IInv, Course
    <3>3. Course(c)'
      BY <1>2, <3>1, <3>2 DEF Course, Blocks
    <3>4. Justified(c)'
      BY <1>2, <3>1, <3>2 DEF Justified
    <3>5. Backed(c)'
      BY <1>1, <1>2, <3>1, <3>2 DEF Backed
    <3>6. QED
      BY <2>2, <3>3, <3>4, <3>5
  <2>3. QED
    BY <2>1, <2>2
<1>6. QED
  BY <1>4, <1>5 DEF IInv

\* An answer that is an allow is justified now; a token comes with an allow only.
LEMMA AnswerKeeps ==
    ASSUME IInv, NEW c \in Call, NEW d \in Decisions, NEW ts \in SUBSET Token, Answer(c, d, ts),
           pc[c] \in {"asked", "answered"}, d # "none",
           d = "allow" => pair[c] \in allowed,
           \A t \in ts : t.pair = pair[c] /\ t.left >= 0,
           \A t, u \in ts : t = u,
           ts # {} => d = "allow"
    PROVE  IInv'
<1>1. /\ UNCHANGED <<config, allowed, pair, header, verified, seen>>
      /\ pc' = [pc EXCEPT ![c] = "answered"]
      /\ decision' = [decision EXCEPT ![c] = d]
      /\ token' = [token EXCEPT ![c] = ts]
      /\ grants' = grants \cup ts
  BY DEF Answer
<1>3. TypeOK'
  BY <1>1 DEF IInv, TypeOK
<1>4. ASSUME NEW b \in Call PROVE Course(b)' /\ Justified(b)' /\ Backed(b)'
  <2>1. CASE b # c
    BY <1>1, <2>1, OthersKeep DEF IInv, TypeOK
  <2>2. CASE b = c
    <3>1. pc'[c] = "answered" /\ decision'[c] = d /\ token'[c] = ts
      BY <1>1 DEF IInv, TypeOK
    <3>2. Course(c) /\ Justified(c) /\ Backed(c)
      BY DEF IInv
    <3>3. Course(c)'
      BY <1>1, <3>1 DEF Course
    <3>4. Justified(c)'
      BY <1>1, <3>1, <3>2 DEF Justified
    <3>5. Backed(c)'
      BY <1>1, <3>1, <3>2 DEF Backed
    <3>6. QED
      BY <2>2, <3>3, <3>4, <3>5
  <2>3. QED
    BY <2>1, <2>2
<1>5. QED
  BY <1>3, <1>4 DEF IInv

LEMMA TokenlessAnswerKeeps ==
    ASSUME IInv, NEW c \in Call, NEW d \in Decisions, Answer(c, d, {}),
           pc[c] \in {"asked", "answered"}, d # "none",
           d = "allow" => pair[c] \in allowed
    PROVE  IInv'
<1>1. /\ {} \in SUBSET Token
      /\ \A t \in {} : t.pair = pair[c] /\ t.left >= 0
      /\ \A t, u \in {} : t = u
  OBVIOUS
<1>2. QED
  BY <1>1, AnswerKeeps

LEMMA AuthorizeRemoteKeeps == ASSUME IInv, NEW c \in Call, AuthorizeRemote(c) PROVE IInv'
<1>1. pc[c] = "asked" /\ pair[c] \in Pair
  BY DEF AuthorizeRemote, IInv, TypeOK
<1>2. CASE pair[c] \in allowed /\ \E ts \in {{}} \cup {{t} : t \in Granted(pair[c])} : Answer(c, "allow", ts)
  <2>1. PICK ts \in {{}} \cup {{t} : t \in Granted(pair[c])} : Answer(c, "allow", ts)
    BY <1>2
  <2>2. /\ ts \in SUBSET Token
        /\ \A t \in ts : t.pair = pair[c] /\ t.left >= 0
        /\ \A t, u \in ts : t = u
    BY <1>1, GrantedIsTyped, LifetimesAreNat
  <2>3. "allow" \in Decisions
    BY DEF Decisions
  <2>4. QED
    BY <1>1, <1>2, <2>1, <2>2, <2>3, AnswerKeeps
<1>3. CASE \E d \in {"deny", "require_approval", ""} \cup Challenges : Answer(c, d, {})
  <2>1. PICK d \in {"deny", "require_approval", ""} \cup Challenges : Answer(c, d, {})
    BY <1>3
  <2>2. d \in Decisions /\ d # "none" /\ d # "allow"
    BY DEF Decisions, Challenges
  <2>3. QED
    BY <1>1, <2>1, <2>2, TokenlessAnswerKeeps
<1>4. ErrorDecisions \subseteq {"deny", ""}
  BY DEF ErrorDecisions
<1>5. QED
  BY <1>2, <1>3, <1>4 DEF AuthorizeRemote

LEMMA GiveUpKeeps == ASSUME IInv, NEW c \in Call, GiveUp(c) PROVE IInv'
<1>1. "deny" \in Decisions
  BY DEF Decisions
<1>2. QED
  BY <1>1, TokenlessAnswerKeeps DEF GiveUp

LEMMA EvaluateKeeps == ASSUME IInv, NEW c \in Call, Evaluate(c) PROVE IInv'
<1>1. {"allow", "deny", "require_approval"} \subseteq Decisions
  BY DEF Decisions
<1>2. pc[c] = "asked"
  BY DEF Evaluate
<1>3. CASE pair[c] \in allowed
  BY <1>1, <1>2, <1>3, TokenlessAnswerKeeps DEF Evaluate
<1>4. CASE pair[c] \notin allowed
  <2>1. PICK d \in {"deny", "require_approval"} : Answer(c, d, {})
    BY <1>4 DEF Evaluate
  <2>2. QED
    BY <1>1, <1>2, <2>1, TokenlessAnswerKeeps
<1>5. QED
  BY <1>3, <1>4

LEMMA ReleaseKeeps ==
    ASSUME IInv, NEW c \in Call, Release(c), UNCHANGED <<config, allowed, grants>>
    PROVE  IInv'
<1>1. TypeOK'
  <2>1. /\ pc' \in [Call -> {"idle", "asked", "answered", "arrived", "valid", "served"}]
        /\ pair' \in [Call -> Pair]
    BY AnyPairIsOne DEF Release, IInv, TypeOK
  <2>2. decision' \in [Call -> Decisions]
    BY DEF Release, IInv, TypeOK, Decisions
  <2>3. header' \in [Call -> SUBSET Token] /\ token' \in [Call -> SUBSET Token]
    BY DEF Release, IInv, TypeOK
  <2>4. verified' \in [Call -> SUBSET Pair] /\ seen' \in [Call -> BOOLEAN]
    BY DEF Release, IInv, TypeOK
  <2>5. ASSUME NEW d \in Call
        PROVE  /\ \A t, u \in header'[d] : t = u
               /\ \A t, u \in token'[d] : t = u
               /\ \A q, w \in verified'[d] : q = w
    <3>1. CASE d = c
      <4>1. header'[c] = {} /\ token'[c] = {} /\ verified'[c] = {}
        BY DEF Release, IInv, TypeOK
      <4>2. QED
        BY <3>1, <4>1
    <3>2. CASE d # c
      <4>1. header'[d] = header[d] /\ token'[d] = token[d] /\ verified'[d] = verified[d]
        BY <3>2 DEF Release, IInv, TypeOK
      <4>2. QED
        BY <4>1 DEF IInv, TypeOK
    <3>3. QED
      BY <3>1, <3>2
  <2>6. config' \in Config /\ allowed' \subseteq Pair /\ grants' \subseteq {t \in Token : t.left >= 0}
    BY DEF IInv, TypeOK
  <2>7. QED
    BY <2>1, <2>2, <2>3, <2>4, <2>5, <2>6 DEF TypeOK
<1>2. ASSUME NEW d \in Call PROVE Course(d)' /\ Justified(d)' /\ Backed(d)'
  <2>1. CASE d # c
    <3>1. /\ pc'[d] = pc[d] /\ pair'[d] = pair[d] /\ header'[d] = header[d]
          /\ decision'[d] = decision[d] /\ token'[d] = token[d] /\ verified'[d] = verified[d]
          /\ seen'[d] = seen[d]
      BY <2>1 DEF Release, IInv, TypeOK
    <3>2. QED
      BY <3>1, OthersKeep
  <2>2. CASE d = c
    <3>1. /\ pc'[c] = "idle" /\ header'[c] = {} /\ decision'[c] = "none" /\ token'[c] = {}
          /\ verified'[c] = {}
      BY DEF Release, IInv, TypeOK
    <3>2. QED
      BY <2>2, <3>1 DEF Course, Justified, Backed
  <2>3. QED
    BY <2>1, <2>2
<1>3. QED
  BY <1>1, <1>2 DEF IInv

LEMMA ForwardKeeps == ASSUME IInv, NEW c \in Call, Forward(c) PROVE IInv'
<1>1. /\ UNCHANGED <<config, allowed, grants, pair, decision, token, verified, seen>>
      /\ pc[c] = "answered" /\ (config.observe \/ ~Blocks(decision[c]))
      /\ pc' = [pc EXCEPT ![c] = IF config.point = "proxy" THEN "served" ELSE "arrived"]
  BY DEF Forward
<1>2. Course(c) /\ Justified(c) /\ Backed(c)
  BY DEF IInv
<1>3. PICK h \in ForwardedHeaders(c) : header' = [header EXCEPT ![c] = h]
  BY DEF Forward
<1>h. /\ h \in {token[c], header[c], {}}
      /\ config.point = "gateway" /\ token[c] # {} => h \in {token[c], {}}
  <2>1. config.point \in {"gateway", "proxy", "sdk"}
    BY ConfigsAreKnown DEF IInv, TypeOK
  <2>2. QED
    BY <1>3, <2>1, Zenon DEF ForwardedHeaders
<1>4. TypeOK'
  BY <1>1, <1>3, <1>h DEF IInv, TypeOK
<1>5. ASSUME NEW d \in Call PROVE Course(d)' /\ Justified(d)' /\ Backed(d)'
  <2>1. CASE d # c
    BY <1>1, <1>3, <2>1, OthersKeep DEF IInv, TypeOK
  <2>2. CASE d = c
    <3>1. /\ pc'[c] = IF config.point = "proxy" THEN "served" ELSE "arrived"
          /\ header'[c] = h
      BY <1>1, <1>3 DEF IInv, TypeOK
    <3>2. Course(c)'
      BY <1>1, <1>2, <3>1 DEF Course, Blocks
    <3>3. Justified(c)'
      BY <1>1, <1>2, <1>h, <3>1 DEF Justified
    <3>4. Backed(c)'
      BY <1>1, <1>2, <1>h, <3>1 DEF Backed
    <3>5. QED
      BY <2>2, <3>2, <3>3, <3>4
  <2>3. QED
    BY <2>1, <2>2
<1>6. QED
  BY <1>4, <1>5 DEF IInv

\* The API's steps that let a call on.
LEMMA AdmitKeeps ==
    ASSUME IInv, NEW c \in Call, Pass(c) \/ ValidateGrant(c) \/ Serve(c)
    PROVE  IInv'
<1>1. UNCHANGED <<config, allowed, grants, pair, header, decision, token, seen>>
  BY DEF Pass, ValidateGrant, Serve
<1>2. /\ pc' = [pc EXCEPT ![c] = IF ValidateGrant(c) THEN "valid" ELSE "served"]
      /\ pc[c] \in {"arrived", "valid"}
  BY DEF Pass, ValidateGrant, Serve
<1>3. \/ /\ verified' = verified
         /\ \/ pc[c] = "valid"
            \/ config.grants = "ignored"
            \/ header[c] = {}
      \/ \E t \in header[c] : verified' = [verified EXCEPT ![c] = {t.pair}]
  BY DEF Pass, ValidateGrant, Serve
<1>4. \A d \in Call : d # c => pc'[d] = pc[d] /\ verified'[d] = verified[d]
  BY <1>2, <1>3 DEF IInv, TypeOK
<1>5. pc'[c] \in {"valid", "served"}
  BY <1>2 DEF IInv, TypeOK
<1>6. TypeOK'
  <2>1. pc' \in [Call -> {"idle", "asked", "answered", "arrived", "valid", "served"}]
    BY <1>2 DEF IInv, TypeOK
  <2>2. \A t \in header[c] : t.pair \in Pair
    BY DEF IInv, TypeOK, Token
  <2>3. verified' \in [Call -> SUBSET Pair]
    BY <1>3, <2>2 DEF IInv, TypeOK
  <2>4. \A d \in Call : \A q, w \in verified'[d] : q = w
    BY <1>3, <1>4 DEF IInv, TypeOK
  <2>5. QED
    BY <1>1, <2>1, <2>3, <2>4 DEF IInv, TypeOK
<1>7. ASSUME NEW d \in Call PROVE Course(d)' /\ Justified(d)' /\ Backed(d)'
  <2>1. CASE d # c
    BY <1>1, <1>4, <2>1, OthersKeep
  <2>2. CASE d = c
    <3>1. Course(c) /\ Justified(c) /\ Backed(c)
      BY DEF IInv
    <3>2. Course(c)'
      BY <1>1, <1>2, <1>5, <3>1 DEF Course, Blocks
    <3>3. pc'[c] \in {"valid", "served"} /\ config.point # "proxy" /\ config.grants # "ignored"
              => \A t \in header[c] : verified'[c] = {t.pair}
      <4>1. CASE /\ verified' = verified
                 /\ pc[c] = "valid" \/ config.grants = "ignored" \/ header[c] = {}
        BY <3>1, <4>1 DEF Justified
      <4>2. CASE \E t \in header[c] : verified' = [verified EXCEPT ![c] = {t.pair}]
        <5>1. PICK t \in header[c] : verified' = [verified EXCEPT ![c] = {t.pair}]
          BY <4>2
        <5>2. verified'[c] = {t.pair} /\ \A u \in header[c] : u = t
          BY <5>1 DEF IInv, TypeOK
        <5>3. QED
          BY <5>2
      <4>3. QED
        BY <1>3, <4>1, <4>2
    <3>4. Justified(c)'
      BY <1>1, <1>2, <1>5, <3>1, <3>3 DEF Justified
    <3>5. Backed(c)'
      BY <1>1, <3>1 DEF Backed
    <3>6. QED
      BY <2>2, <3>2, <3>4, <3>5
  <2>3. QED
    BY <2>1, <2>2
<1>8. QED
  BY <1>6, <1>7 DEF IInv

LEMMA OlderIsTyped ==
    ASSUME NEW t \in Token
    PROVE  /\ Older(t) \in Token
           /\ Older(t).pair = t.pair
           /\ Older(t).left = IF t.left >= 0 THEN t.left - 1 ELSE -1
BY LifetimesAreNat DEF Older, Token

LEMMA TickKeeps == ASSUME IInv, Tick PROVE IInv'
<1>1. /\ UNCHANGED <<config, allowed, pc, pair, decision, verified, seen>>
      /\ grants' = {Older(t) : t \in {u \in grants : u.left > 0}}
      /\ header' = [c \in Call |-> {Older(t) : t \in header[c]}]
      /\ token' = [c \in Call |-> {Older(t) : t \in token[c]}]
  BY DEF Tick
<1>2. TypeOK'
  <2>1. grants' \subseteq {t \in Token : t.left >= 0}
    BY <1>1, OlderIsTyped, LifetimesAreNat DEF IInv, TypeOK, Token
  <2>2. header' \in [Call -> SUBSET Token] /\ token' \in [Call -> SUBSET Token]
    BY <1>1, OlderIsTyped DEF IInv, TypeOK
  <2>3. \A c \in Call : (\A t, u \in header'[c] : t = u) /\ (\A t, u \in token'[c] : t = u)
    BY <1>1 DEF IInv, TypeOK
  <2>4. QED
    BY <1>1, <2>1, <2>2, <2>3 DEF IInv, TypeOK
<1>3. ASSUME NEW c \in Call PROVE Course(c)' /\ Justified(c)' /\ Backed(c)'
  <2>1. Course(c) /\ Justified(c) /\ Backed(c)
    BY DEF IInv
  <2>2. /\ header'[c] = {Older(t) : t \in header[c]} /\ header[c] \subseteq Token
        /\ token'[c] = {Older(t) : t \in token[c]} /\ token[c] \subseteq Token
    BY <1>1 DEF IInv, TypeOK
  <2>3. Course(c)'
    BY <1>1, <2>1, <2>2 DEF Course, Blocks
  <2>4. Justified(c)'
    BY <1>1, <2>1, <2>2, OlderIsTyped DEF Justified
  <2>5. Backed(c)'
    <3>1. SUFFICES ASSUME NEW t \in header[c] \cup token[c], Older(t).left >= 0
                   PROVE  Older(t) \in grants'
      BY <2>2 DEF Backed
    <3>2. t \in Token /\ t.left > 0
      BY <2>2, <3>1, OlderIsTyped DEF Token
    <3>3. t \in grants
      BY <2>1, <3>2, <3>1 DEF Backed, Token
    <3>4. QED
      BY <1>1, <3>2, <3>3
  <2>6. QED
    BY <2>3, <2>4, <2>5
<1>4. QED
  BY <1>2, <1>3 DEF IInv

LEMMA Inductive == IInv /\ [Next]_vars => IInv'
<1>1. SUFFICES ASSUME IInv, [Next]_vars PROVE IInv'
  OBVIOUS
<1>2. CASE \E p \in Pair : Judge(p) \/ ClientAuthorize(p)
  BY <1>1, <1>2, JudgeKeeps, ClientAuthorizeKeeps
<1>3. CASE \E c \in Call, p \in Pair, h \in ClientTokens, v \in ClientPairs :
              ToPoint(c, p, h, v) \/ ToAPI(c, p, h, v)
  BY <1>1, <1>3, BeginKeeps DEF ToPoint, ToAPI
<1>4. ASSUME NEW c \in Call, PointStep(c) PROVE IInv'
  <2>1. CASE Refuse(c)
    BY <1>1, <2>1, ReleaseKeeps DEF Refuse
  <2>2. QED
    BY <1>1, <1>4, <2>1, AuthorizeRemoteKeeps, GiveUpKeeps, EvaluateKeeps, ForwardKeeps DEF PointStep
<1>5. ASSUME NEW c \in Call, APIStep(c) PROVE IInv'
  <2>1. CASE RefuseGrant(c) \/ Finish(c)
    BY <1>1, <2>1, ReleaseKeeps DEF RefuseGrant, Finish
  <2>2. QED
    BY <1>1, <1>5, <2>1, AdmitKeeps DEF APIStep
<1>6. CASE Tick
  BY <1>1, <1>6, TickKeeps
<1>7. CASE UNCHANGED vars
  BY <1>1, <1>7 DEF vars, call, IInv, TypeOK, Course, Justified, Backed
<1>8. QED
  BY <1>1, <1>2, <1>3, <1>4, <1>5, <1>6, <1>7 DEF Next

\* Every behaviour satisfies the invariant.
THEOREM Invariance == Spec => []IInv
<1>1. QED
  BY InitIInv, Inductive, PTL DEF Spec

\* Calls, tokens and verdicts stay within their types.
THEOREM TypeCorrect == Spec => []TypeOK
<1>1. IInv => TypeOK
  BY DEF IInv
<1>2. QED
  BY <1>1, Invariance, PTL

\* An enforcing point forwards on a verdict only what was allowed.
THEOREM ForwardedIsAllowed == Spec => []ForwardedWasAllowed
<1>1. IInv => ForwardedWasAllowed
  <2>1. SUFFICES ASSUME IInv, NEW c \in Call, Forwarded(c), ~config.observe,
                        decision[c] \notin {""} \cup Challenges
                 PROVE  seen[c]
    BY DEF ForwardedWasAllowed
  <2>2. decision[c] # "none" /\ ~Blocks(decision[c])
    BY <2>1 DEF Forwarded, IInv, Course
  <2>3. decision[c] = "allow"
    BY <2>1, <2>2 DEF IInv, TypeOK, Decisions, Challenges, Blocks
  <2>4. QED
    BY <2>1, <2>3 DEF IInv, Justified
<1>2. QED
  BY <1>1, Invariance, PTL

\* A call that reaches the middleware with a token, behind a gateway that got a
\* grant for it, is served as itself.
THEOREM ServedIsAuthorized == Spec => []ServedAsAuthorized
<1>1. IInv => ServedAsAuthorized
  <2>1. SUFFICES ASSUME IInv, NEW c \in Call, pc[c] = "served", config.point = "gateway",
                        config.grants # "ignored", token[c] # {}, header[c] # {}
                 PROVE  verified[c] = {pair[c]} /\ seen[c]
    BY DEF ServedAsAuthorized
  <2>2. Justified(c)
    BY <2>1 DEF IInv
  <2>3. header[c] = token[c] /\ seen[c]
    BY <2>1, <2>2 DEF Justified
  <2>4. PICK t \in header[c] : t.pair = pair[c]
    BY <2>1, <2>2, <2>3 DEF Justified
  <2>5. verified[c] = {t.pair}
    BY <2>1, <2>2, <2>4 DEF Justified
  <2>6. QED
    BY <2>3, <2>4, <2>5
<1>2. QED
  BY <1>1, Invariance, PTL

-----------------------------------------------------------------------------
(* The detailed steps are steps, or none, of LeasedAccess. *)

Covered(p) == {s \in 0..TTL : \E t \in grants : t.pair = p /\ s <= t.left}

LEMMA LeasedIsCovered ==
    [p \in Pair |-> {s \in 0..TTL : \E t \in grants : t.pair = p /\ s <= t.left}]
        = [p \in Pair |-> Covered(p)]
BY DEF Covered

AllAdmitted == [c \in Call |-> Admitted(c)]

LEMMA InitImplements == Init => Leased!Init
BY DEF Init, Admitted, Leased!Init

\* Who is admitted depends on a call's own variables, and the deployment.
LEMMA OthersAdmitted ==
    ASSUME IInv, NEW c \in Call, config' = config,
           \A d \in Call \ {c} : /\ pc'[d] = pc[d] /\ header'[d] = header[d]
                                 /\ verified'[d] = verified[d]
    PROVE  AllAdmitted' = [AllAdmitted EXCEPT ![c] = Admitted(c)']
<1>1. \A d \in Call \ {c} : Admitted(d)' = Admitted(d)
  BY DEF Admitted
<1>2. QED
  BY <1>1 DEF AllAdmitted

LEMMA NobodyElseAdmitted ==
    ASSUME IInv, NEW c \in Call, config' = config, Admitted(c)' = Admitted(c),
           \A d \in Call \ {c} : /\ pc'[d] = pc[d] /\ header'[d] = header[d]
                                 /\ verified'[d] = verified[d]
    PROVE  UNCHANGED AllAdmitted
<1>1. \A d \in Call : Admitted(d)' = Admitted(d)
  BY DEF Admitted
<1>2. QED
  BY <1>1 DEF AllAdmitted

\* A call is admitted by no step of its client or of its point, nor by one of
\* the middleware without a token.
LEMMA UnadmittedSteps ==
    ASSUME IInv, NEW c \in Call
    PROVE  /\ \A p, h, v : \A at \in {"asked", "arrived"} :
                 Begin(c, p, h, v, at) => UNCHANGED AllAdmitted
           /\ \A d, ts : pc[c] \in {"asked", "answered"} /\ Answer(c, d, ts)
                 => UNCHANGED AllAdmitted
           /\ Forward(c) \/ Pass(c) \/ Serve(c) => UNCHANGED AllAdmitted
<1>1. ASSUME NEW p, NEW h, NEW v, NEW at \in {"asked", "arrived"}, Begin(c, p, h, v, at)
      PROVE  UNCHANGED AllAdmitted
  <2>1. Admitted(c)' = Admitted(c)
    BY <1>1 DEF Begin, Admitted, IInv, TypeOK
  <2>2. QED
    BY <1>1, <2>1, NobodyElseAdmitted DEF Begin, IInv, TypeOK
<1>2. ASSUME NEW d, NEW ts, pc[c] \in {"asked", "answered"}, Answer(c, d, ts)
      PROVE  UNCHANGED AllAdmitted
  <2>1. Admitted(c)' = Admitted(c)
    BY <1>2 DEF Answer, Admitted, IInv, TypeOK
  <2>2. QED
    BY <1>2, <2>1, NobodyElseAdmitted DEF Answer, IInv, TypeOK
<1>3. ASSUME Forward(c)
      PROVE  UNCHANGED AllAdmitted
  <2>1. Admitted(c)' = Admitted(c)
    BY <1>3 DEF Forward, Admitted, IInv, TypeOK
  <2>2. QED
    BY <1>3, <2>1, NobodyElseAdmitted DEF Forward, IInv, TypeOK
<1>4. ASSUME Pass(c) \/ Serve(c)
      PROVE  UNCHANGED AllAdmitted
  <2>1. Admitted(c)' = Admitted(c)
    BY <1>4 DEF Pass, Serve, Admitted, IInv, TypeOK
  <2>2. QED
    BY <1>4, <2>1, NobodyElseAdmitted DEF Pass, Serve, IInv, TypeOK
<1>5. QED
  BY <1>1, <1>2, <1>3, <1>4

\* A new grant for a pair is a lease on it.
LEMMA LeaseStep ==
    ASSUME IInv, NEW p \in Pair, NEW t \in Granted(p), p \in allowed,
           grants' = grants \cup {t}, UNCHANGED <<allowed, AllAdmitted>>
    PROVE  Leased!Lease(p)
<1> DEFINE leased == [q \in Pair |-> Covered(q)]
<1>1. t.pair = p /\ t.left \in 0..TTL
  BY GrantedIsTyped
<1>2. ASSUME NEW q \in Pair
      PROVE  Covered(q)' = IF q = p THEN Covered(q) \cup 0..t.left ELSE Covered(q)
  BY <1>1, LifetimesAreNat DEF Covered
<1>3. leased' = [leased EXCEPT ![p] = @ \cup 0..t.left]
  BY <1>2
<1>4. QED
  BY <1>1, <1>3 DEF Leased!Lease, Covered, AllAdmitted

LEMMA NoLeaseStep ==
    ASSUME UNCHANGED <<allowed, grants, AllAdmitted>>
    PROVE  UNCHANGED Leased!vars
BY DEF Leased!vars, AllAdmitted

LEMMA TickStep == ASSUME IInv, Tick PROVE Leased!Tick
<1>1. ASSUME NEW p \in Pair
      PROVE  Covered(p)' = {s \in 0..TTL : s + 1 \in Covered(p)}
  <2>1. grants' = {Older(t) : t \in {u \in grants : u.left > 0}}
    BY DEF Tick
  <2>2. \A t \in grants : t \in Token /\ t.left \in 0..TTL
    BY LifetimesAreNat DEF IInv, TypeOK, Token
  <2>3. ASSUME NEW s \in 0..TTL
        PROVE  s \in Covered(p)' <=> s + 1 \in Covered(p)
    <3>1. ASSUME s \in Covered(p)' PROVE s + 1 \in Covered(p)
      <4>1. PICK t \in grants : t.left > 0 /\ Older(t).pair = p /\ s <= Older(t).left
        BY <2>1, <3>1 DEF Covered
      <4>2. t.pair = p /\ s <= t.left - 1 /\ t.left \in 0..TTL
        BY <2>2, <4>1, OlderIsTyped
      <4>3. s + 1 \in 0..TTL /\ s + 1 <= t.left
        BY <4>2, LifetimesAreNat
      <4>4. QED
        BY <4>1, <4>2, <4>3 DEF Covered
    <3>2. ASSUME s + 1 \in Covered(p) PROVE s \in Covered(p)'
      <4>1. PICK t \in grants : t.pair = p /\ s + 1 <= t.left
        BY <3>2 DEF Covered
      <4>2. t.left > 0 /\ Older(t).pair = p /\ s <= Older(t).left
        BY <2>2, <4>1, OlderIsTyped, LifetimesAreNat
      <4>3. QED
        BY <2>1, <4>1, <4>2 DEF Covered
    <3>3. QED
      BY <3>1, <3>2
  <2>4. QED
    BY <2>3 DEF Covered
<1>2. UNCHANGED AllAdmitted
  <2>1. ASSUME NEW c \in Call
        PROVE  Admitted(c)' = Admitted(c)
    <3>1. header'[c] = {} <=> header[c] = {}
      BY DEF Tick
    <3>2. QED
      BY <3>1 DEF Tick, Admitted
  <2>2. QED
    BY <2>1 DEF AllAdmitted
<1>3. QED
  BY <1>1, <1>2 DEF Leased!Tick, Tick, Covered, AllAdmitted

\* The server's verdicts, and the grants it hands to clients.
LEMMA ServerImplements ==
    ASSUME IInv, NEW p \in Pair, Judge(p) \/ ClientAuthorize(p)
    PROVE  Leased!Next
<1>1. UNCHANGED AllAdmitted
  BY DEF Judge, ClientAuthorize, call, AllAdmitted, Admitted
<1>2. CASE Judge(p)
  BY <1>1, <1>2 DEF Judge, Leased!Next, Leased!Judge, AllAdmitted
<1>3. CASE ClientAuthorize(p)
  <2>1. PICK t \in Granted(p) : grants' = grants \cup {t}
    BY <1>3 DEF ClientAuthorize
  <2>2. Leased!Lease(p)
    BY <1>1, <1>3, <2>1, LeaseStep DEF ClientAuthorize
  <2>3. QED
    BY <2>2 DEF Leased!Next
<1>4. QED
  BY <1>2, <1>3

LEMMA AuthorizeImplements ==
    ASSUME IInv, NEW c \in Call, AuthorizeRemote(c)
    PROVE  [Leased!Next]_(Leased!vars)
<1>1. PICK p \in Pair : p = pair[c]
  BY DEF IInv, TypeOK
<1>2. pc[c] = "asked"
  BY DEF AuthorizeRemote
<1>3. CASE \E t \in Granted(pair[c]) : pair[c] \in allowed /\ Answer(c, "allow", {t})
  <2>1. PICK t \in Granted(p) : p \in allowed /\ Answer(c, "allow", {t})
    BY <1>1, <1>3
  <2>2. UNCHANGED AllAdmitted
    BY <1>2, <2>1, UnadmittedSteps
  <2>3. Leased!Lease(p)
    BY <2>1, <2>2, LeaseStep DEF Answer
  <2>4. QED
    BY <2>3 DEF Leased!Next
<1>4. CASE \E d \in Decisions : Answer(c, d, {})
  <2>1. UNCHANGED AllAdmitted
    BY <1>2, <1>4, UnadmittedSteps
  <2>2. QED
    BY <1>4, <2>1, NoLeaseStep DEF Answer
<1>5. {"allow", "deny", "require_approval"} \cup Challenges \cup ErrorDecisions \subseteq Decisions
  BY DEF Decisions, ErrorDecisions
<1>6. QED
  BY <1>3, <1>4, <1>5 DEF AuthorizeRemote

\* A call that ends leaves, admitted or not.
LEMMA ReleaseImplements ==
    ASSUME IInv, NEW c \in Call, Release(c), UNCHANGED <<config, allowed, grants>>
    PROVE  Leased!Next
<1>1. Admitted(c)' = {}
  BY DEF Release, Admitted, IInv, TypeOK
<1>2. AllAdmitted' = [AllAdmitted EXCEPT ![c] = Admitted(c)']
  BY OthersAdmitted DEF Release, IInv, TypeOK
<1>3. Leased!Leave(c)
  BY <1>1, <1>2 DEF Leased!Leave, AllAdmitted
<1>4. QED
  BY <1>3 DEF Leased!Next

\* A valid token admits its pair; behind the MCP proxy there is no middleware.
LEMMA ValidateImplements ==
    ASSUME IInv, NEW c \in Call, ValidateGrant(c)
    PROVE  [Leased!Next]_(Leased!vars)
<1>1. PICK t \in header[c] : t.left >= 0 /\ verified' = [verified EXCEPT ![c] = {t.pair}]
  BY DEF ValidateGrant, Valid
<1>2. /\ UNCHANGED <<config, allowed, grants, header>> /\ config.grants # "ignored"
      /\ pc[c] = "arrived" /\ pc'[c] = "valid" /\ verified'[c] = {t.pair}
      /\ \A d \in Call \ {c} : pc'[d] = pc[d] /\ verified'[d] = verified[d]
  BY <1>1 DEF ValidateGrant, IInv, TypeOK
<1>3. Admitted(c) = {}
  BY <1>2 DEF Admitted
<1>4. CASE config.point = "proxy"
  <2>1. Admitted(c)' = {}
    BY <1>2, <1>4 DEF Admitted
  <2>2. UNCHANGED AllAdmitted
    BY <1>2, <1>3, <2>1, NobodyElseAdmitted
  <2>3. QED
    BY <1>2, <2>2, NoLeaseStep
<1>5. CASE config.point # "proxy"
  <2>1. t \in grants /\ t.pair \in Pair
    BY <1>1 DEF IInv, Backed, TypeOK, Token
  <2>2. 0 \in Covered(t.pair)
    BY <1>1, <2>1, LifetimesAreNat DEF Covered
  <2>3. Admitted(c)' = {t.pair}
    BY <1>1, <1>2, <1>5 DEF Admitted
  <2>4. AllAdmitted' = [AllAdmitted EXCEPT ![c] = {t.pair}]
    BY <1>2, <2>3, OthersAdmitted
  <2>5. Leased!Admit(c, t.pair)
    BY <1>2, <1>3, <2>1, <2>2, <2>4 DEF Leased!Admit, Covered, AllAdmitted
  <2>6. QED
    BY <2>1, <2>5 DEF Leased!Next
<1>6. QED
  BY <1>4, <1>5

LEMMA NextImplements == IInv /\ [Next]_vars => [Leased!Next]_(Leased!vars)
<1>1. SUFFICES ASSUME IInv, [Next]_vars PROVE [Leased!Next]_(Leased!vars)
  OBVIOUS
<1>2. CASE \E p \in Pair : Judge(p) \/ ClientAuthorize(p)
  BY <1>1, <1>2, ServerImplements
<1>3. CASE \E c \in Call, p \in Pair, h \in ClientTokens, v \in ClientPairs :
              ToPoint(c, p, h, v) \/ ToAPI(c, p, h, v)
  <2>1. PICK c \in Call, p \in Pair, h \in ClientTokens, v \in ClientPairs,
             at \in {"asked", "arrived"} : Begin(c, p, h, v, at)
    BY <1>3 DEF ToPoint, ToAPI
  <2>2. UNCHANGED AllAdmitted
    BY <1>1, <2>1, UnadmittedSteps
  <2>3. QED
    BY <2>1, <2>2, NoLeaseStep DEF Begin
<1>4. ASSUME NEW c \in Call, PointStep(c)
      PROVE  [Leased!Next]_(Leased!vars)
  <2>1. CASE AuthorizeRemote(c)
    BY <1>1, <2>1, AuthorizeImplements
  <2>2. CASE GiveUp(c) \/ Evaluate(c)
    <3>1. pc[c] \in {"asked", "answered"} /\ \E d : Answer(c, d, {})
      BY <2>2 DEF GiveUp, Evaluate
    <3>2. UNCHANGED AllAdmitted
      BY <1>1, <3>1, UnadmittedSteps
    <3>3. QED
      BY <3>1, <3>2, NoLeaseStep DEF Answer
  <2>3. CASE Forward(c)
    <3>1. UNCHANGED AllAdmitted
      BY <1>1, <2>3, UnadmittedSteps
    <3>2. QED
      BY <2>3, <3>1, NoLeaseStep DEF Forward
  <2>4. CASE Refuse(c)
    BY <1>1, <2>4, ReleaseImplements DEF Refuse
  <2>5. QED
    BY <1>4, <2>1, <2>2, <2>3, <2>4 DEF PointStep
<1>5. ASSUME NEW c \in Call, APIStep(c)
      PROVE  [Leased!Next]_(Leased!vars)
  <2>1. CASE ValidateGrant(c)
    BY <1>1, <2>1, ValidateImplements
  <2>2. CASE Pass(c) \/ Serve(c)
    <3>1. UNCHANGED AllAdmitted
      BY <1>1, <2>2, UnadmittedSteps
    <3>2. QED
      BY <2>2, <3>1, NoLeaseStep DEF Pass, Serve
  <2>3. CASE RefuseGrant(c) \/ Finish(c)
    BY <1>1, <2>3, ReleaseImplements DEF RefuseGrant, Finish
  <2>4. QED
    BY <1>5, <2>1, <2>2, <2>3 DEF APIStep
<1>6. CASE Tick
  BY <1>1, <1>6, TickStep DEF Leased!Next
<1>7. CASE UNCHANGED vars
  <2>1. UNCHANGED AllAdmitted
    BY <1>7 DEF vars, call, AllAdmitted, Admitted
  <2>2. QED
    BY <1>7, <2>1, NoLeaseStep DEF vars
<1>8. QED
  BY <1>1, <1>2, <1>3, <1>4, <1>5, <1>6, <1>7 DEF Next

\* With every point, middleware, late answer and header that clients bring, an
\* API behind the middleware that takes the verified pair from calls with a
\* token only sees leased access and nothing else.
THEOREM LeasesAreKept == Spec => ImplementsLeasedAccess
<1>1. QED
  BY InitImplements, NextImplements, Invariance, PTL DEF Spec, ImplementsLeasedAccess, Leased!Spec
=============================================================================
