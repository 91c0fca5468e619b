-------------------------- MODULE BundleSyncProofs --------------------------
(***************************************************************************)
(* What a Sync promises, for every set of agents, policies and contents,   *)
(* and any number of failures.                                             *)
(*                                                                         *)
(* The argument follows an item that the server does not change: it gets   *)
(* into the listing, from there into the tag, and by the loop to the       *)
(* client; and between two Syncs the client has what its tag names, so     *)
(* that a 304 tells it nothing false.  Items astray are those for which    *)
(* one of these steps did not happen.                                      *)
(***************************************************************************)
EXTENDS BundleSync, FiniteSetTheorems, TLAPS

\* The server's content of i is in l.
Lists(l, i) == \E n \in DOMAIN l : l[n] = [item |-> i, version |-> server[i]]

\* The client has what entry e says, as far as anybody can know.
Has(e) == e.item \in astray \/ client[e.item] = e.version

Stored(S) == {i \in S \cap steady : server[i] # "absent"}

\* The items that the server did not change are in what a Sync without failures
\* has so far.
ListingIsComplete ==
    clean =>
        /\ pc = "agents" => \A i \in Stored(Agent) : Lists(listing, i)
        /\ pc = "listed" => \A i \in Stored(Item) : Lists(listing, i)
        /\ pc \in {"tagged", "applying"} => \A i \in Stored(Item) : Lists(tag, i)

\* What the tag names is still to be applied, or has been.
TagIsApplied ==
    /\ pc = "tagged" =>
          \A n \in DOMAIN tag : \E m \in DOMAIN listing : listing[m].item = tag[n].item
    /\ pc = "applying" =>
          \A n \in DOMAIN tag :
              Has(tag[n]) \/ \E m \in DOMAIN listing : listing[m].item = tag[n].item

\* Between two Syncs, and until one applies, the client has what its tag names.
TagIsHonoured ==
    pc # "applying" => \A l \in lastETag : \A n \in DOMAIN l : Has(l[n])

IInv ==
    /\ TypeOK
    /\ ListingIsComplete
    /\ TagIsApplied
    /\ TagIsHonoured
    /\ pc = "gone" \/ SyncCatchesUp

-----------------------------------------------------------------------------
(* Sequences of entries. *)

LEMMA ConcatHas ==
    ASSUME NEW k \in Seq(Entry), NEW l \in Seq(Entry)
    PROVE  /\ k \o l \in Seq(Entry)
           /\ \A n \in DOMAIN k : \E m \in DOMAIN (k \o l) : (k \o l)[m] = k[n]
           /\ \A n \in DOMAIN l : \E m \in DOMAIN (k \o l) : (k \o l)[m] = l[n]
<1>1. k \o l \in Seq(Entry) /\ Len(k \o l) = Len(k) + Len(l)
  OBVIOUS
<1>2. \A n \in DOMAIN k : n \in DOMAIN (k \o l) /\ (k \o l)[n] = k[n]
  OBVIOUS
<1>3. \A n \in DOMAIN l : Len(k) + n \in DOMAIN (k \o l) /\ (k \o l)[Len(k) + n] = l[n]
  OBVIOUS
<1>4. QED
  BY <1>1, <1>2, <1>3

LEMMA TailHas ==
    ASSUME NEW l \in Seq(Entry), l # <<>>
    PROVE  /\ Tail(l) \in Seq(Entry) /\ Head(l) \in Entry
           /\ \A n \in DOMAIN l : l[n] = Head(l) \/ \E m \in DOMAIN Tail(l) : Tail(l)[m] = l[n]
<1>1. Tail(l) \in Seq(Entry) /\ Len(Tail(l)) = Len(l) - 1 /\ Head(l) = l[1] /\ Len(l) > 0
  OBVIOUS
<1>2. Head(l) \in Entry
  BY <1>1
<1>3. \A n \in DOMAIN l : n # 1 => n - 1 \in DOMAIN Tail(l) /\ Tail(l)[n - 1] = l[n]
  BY <1>1
<1>4. QED
  BY <1>1, <1>2, <1>3

\* An order of a finite set has all of it.
LEMMA OrderIsOnto ==
    ASSUME NEW S, IsFiniteSet(S), NEW s \in SetToSeqs(S)
    PROVE  s \in Seq(S) /\ \A x \in S : \E n \in DOMAIN s : s[n] = x
<1> DEFINE N == Cardinality(S)
<1>1. N \in Nat
  BY FS_CardinalityType
<1>2. s \in [1..N -> S] /\ \A i, j \in 1..N : i # j => s[i] # s[j]
  BY DEF SetToSeqs
<1>3. s \in Injection(1..N, S)
  BY <1>2 DEF Injection, IsInjective
<1>4. Cardinality(1..N) = N
  BY <1>1, FS_Interval
<1>5. s \in Surjection(1..N, S)
  BY <1>3, <1>4, FS_Injection
<1>6. \A x \in S : \E n \in 1..N : s[n] = x
  BY <1>5 DEF Surjection
<1>7. QED
  BY <1>1, <1>2, <1>6

LEMMA OrdersExist ==
    ASSUME NEW S, IsFiniteSet(S)
    PROVE  SetToSeqs(S) # {}
<1>1. PICK f : f \in Bijection(1..Cardinality(S), S)
  BY FS_CardinalityType DEF ExistsBijection
<1>2. f \in SetToSeqs(S)
  BY <1>1 DEF Bijection, Injection, IsInjective, SetToSeqs
<1>3. QED
  BY <1>2

\* A listing has what the store has of S.
LEMMA ListingHasStored ==
    ASSUME TypeOK, NEW S \in SUBSET Item, IsFiniteSet(S), NEW l \in Listings(S)
    PROVE  l \in Seq(Entry) /\ \A i \in S : server[i] # "absent" => Lists(l, i)
<1>1. IsFiniteSet(Present(S)) /\ Present(S) \subseteq S
  BY FS_Subset DEF Present
<1>2. PICK s \in Orders(Present(S)) : l = [n \in DOMAIN s |-> [item |-> s[n], version |-> server[s[n]]]]
  BY DEF Listings
<1>3. s \in SetToSeqs(Present(S))
  BY <1>1, <1>2, OrdersExist DEF Orders
<1>4. s \in Seq(Present(S)) /\ \A i \in Present(S) : \E n \in DOMAIN s : s[n] = i
  BY <1>1, <1>3, OrderIsOnto
<1>5. \A i \in Present(S) : i \in Item /\ server[i] \in Version
  BY DEF Present, TypeOK, Content
<1>6. \A n \in DOMAIN s : [item |-> s[n], version |-> server[s[n]]] \in Entry
  BY <1>4, <1>5 DEF Entry
<1>7. l \in Seq(Entry)
  BY <1>2, <1>4, <1>6
<1>8. ASSUME NEW i \in S, server[i] # "absent" PROVE Lists(l, i)
  <2>1. PICK n \in DOMAIN s : s[n] = i
    BY <1>4, <1>8 DEF Present
  <2>2. QED
    BY <1>2, <2>1 DEF Lists
<1>9. QED
  BY <1>7, <1>8

-----------------------------------------------------------------------------
(* The steps. *)

LEMMA InitIInv == Init => IInv
<1>1. SUFFICES ASSUME Init PROVE IInv
  OBVIOUS
<1>2. <<>> \in Seq(Entry) /\ 0 \in 0..MaxFaults
  BY FaultsAreBounded
<1>3. TypeOK
  BY <1>1, <1>2 DEF Init, TypeOK, Content, Stages
<1>4. QED
  BY <1>1, <1>3 DEF Init, IInv, ListingIsComplete, TagIsApplied, TagIsHonoured, SyncCatchesUp

\* A step of the server's store changes nothing of what is steady, and of a
\* listing only contents that are not.
LEMMA StoreKeeps ==
    ASSUME IInv,
           server' \in [Item -> Content], shared' \subseteq shared, steady' \subseteq steady,
           \A j \in steady' : server'[j] = server[j],
           UNCHANGED <<kind, client, lastETag, pc, tag, stopped, faults, clean, astray>>,
           listing' \in Seq(Entry), shared = {} => listing' = listing,
           DOMAIN listing' = DOMAIN listing,
           \A n \in DOMAIN listing :
              /\ listing'[n].item = listing[n].item
              /\ listing[n].item \in steady' =>
                    listing'[n] = listing[n] \/ listing'[n].version = server[listing[n].item]
    PROVE  IInv'
<1>1. TypeOK'
  BY DEF IInv, TypeOK
<1>2. ListingIsComplete'
  <2>1. SUFFICES ASSUME clean
                 PROVE  /\ pc = "agents" => \A i \in Stored(Agent)' : Lists(listing, i)'
                        /\ pc = "listed" => \A i \in Stored(Item)' : Lists(listing, i)'
                        /\ pc \in {"tagged", "applying"} => \A i \in Stored(Item)' : Lists(tag, i)'
    BY DEF ListingIsComplete
  <2>2. ASSUME NEW S, NEW i \in Stored(S)' PROVE i \in Stored(S) /\ i \in steady' /\ server'[i] = server[i]
    BY <2>2 DEF Stored
  <2>3. ASSUME NEW i \in steady', server'[i] = server[i], Lists(listing, i) PROVE Lists(listing, i)'
    <3>1. PICK n \in DOMAIN listing : listing[n] = [item |-> i, version |-> server[i]]
      BY <2>3 DEF Lists
    <3>2. listing'[n] \in Entry /\ listing'[n].item = i /\ listing'[n].version = server[i]
      BY <2>3, <3>1
    <3>3. listing'[n] = [item |-> i, version |-> server'[i]]
      BY <2>3, <3>2 DEF Entry
    <3>4. QED
      BY <3>1, <3>3 DEF Lists
  <2>4. ASSUME NEW i \in steady', server'[i] = server[i], Lists(tag, i) PROVE Lists(tag, i)'
    BY <2>4 DEF Lists
  <2>5. QED
    BY <2>1, <2>2, <2>3, <2>4 DEF IInv, ListingIsComplete
<1>3. TagIsApplied'
  BY DEF IInv, TagIsApplied, Has
<1>4. TagIsHonoured'
  BY DEF IInv, TagIsHonoured, Has
<1>5. (pc = "gone" \/ SyncCatchesUp)'
  BY DEF IInv, SyncCatchesUp
<1>6. QED
  BY <1>1, <1>2, <1>3, <1>4, <1>5 DEF IInv

LEMMA ServerKeeps ==
    ASSUME IInv, NEW i \in Item, NEW v \in Content,
           server' = [server EXCEPT ![i] = v], shared' = shared \ {i}, Changed(i, v),
           UNCHANGED <<kind, client, lastETag, pc, listing, tag, stopped, faults, clean, astray>>
    PROVE  IInv'
<1>1. server \in [Item -> Content] /\ steady \subseteq Item /\ listing \in Seq(Entry)
  BY DEF IInv, TypeOK
<1>2. server' \in [Item -> Content] /\ shared' \subseteq shared
  BY <1>1
<1>3. steady' \subseteq steady /\ \A j \in steady' : server'[j] = server[j]
  BY <1>1 DEF Changed
<1>4. QED
  BY <1>1, <1>2, <1>3, StoreKeeps

LEMMA StatusKeeps ==
    ASSUME IInv, NEW a \in Agent, NEW v \in Version, UpdateAgentStatus(a, v)
    PROVE  IInv'
<1>1. /\ server \in [Item -> Content] /\ steady \subseteq Item /\ listing \in Seq(Entry)
      /\ a \in Item /\ v \in Content
  BY DEF IInv, TypeOK, Item, Content
<1>2. /\ server' = [server EXCEPT ![a] = v] /\ Changed(a, v)
      /\ UNCHANGED <<kind, client, lastETag, pc, shared, tag, stopped, faults, clean, astray>>
  BY DEF UpdateAgentStatus
<1>3. server' \in [Item -> Content]
  BY <1>1, <1>2
<1>4. /\ steady' \subseteq steady
      /\ \A j \in steady' : server'[j] = server[j]
      /\ a \in steady' => server[a] = v
  BY <1>1, <1>2 DEF Changed
<1>5. CASE a \notin shared
  <2>1. listing' = listing
    BY <1>5 DEF UpdateAgentStatus
  <2>2. QED
    BY <1>1, <1>2, <1>3, <1>4, <2>1, StoreKeeps
<1>6. CASE a \in shared
  <2>1. listing' = [n \in DOMAIN listing |-> IF listing[n].item = a
                                             THEN [listing[n] EXCEPT !.version = v]
                                             ELSE listing[n]]
    BY <1>6 DEF UpdateAgentStatus
  <2>2. \A n \in DOMAIN listing : listing[n] \in Entry
    BY <1>1
  <2>3. ASSUME NEW n \in DOMAIN listing
        PROVE  /\ listing'[n] \in Entry
               /\ listing'[n].item = listing[n].item
               /\ listing[n].item \in steady' =>
                     listing'[n] = listing[n] \/ listing'[n].version = server[listing[n].item]
    <3>1. CASE listing[n].item = a
      BY <1>4, <2>1, <2>2, <3>1 DEF Entry
    <3>2. CASE listing[n].item # a
      BY <2>1, <2>2, <3>2
    <3>3. QED
      BY <3>1, <3>2
  <2>4. DOMAIN listing' = DOMAIN listing /\ listing' \in Seq(Entry)
    <3>1. DOMAIN listing = 1..Len(listing) /\ Len(listing) \in Nat
      BY <1>1
    <3>2. listing' \in [1..Len(listing) -> Entry]
      BY <2>1, <2>3, <3>1
    <3>3. QED
      BY <2>1, <3>1, <3>2
  <2>5. QED
    BY <1>2, <1>3, <1>4, <1>6, <2>3, <2>4, StoreKeeps
<1>7. QED
  BY <1>5, <1>6

LEMMA IdleIsTyped ==
    Idle => pc' = "idle" /\ listing' = <<>> /\ shared' = {} /\ tag' = <<>> /\ <<>> \in Seq(Entry)
BY DEF Idle

LEMMA FailureKeeps == ASSUME IInv, Lose \/ ClientRestart PROVE IInv'
<1>1. Idle /\ clean' = FALSE /\ UNCHANGED <<kind, server, stopped, steady>>
  BY DEF Lose, ClientRestart
<1>2. faults' \in 0..MaxFaults
  BY FaultsAreBounded DEF Lose, ClientRestart, Fails, IInv, TypeOK
<1>3. \/ UNCHANGED <<client, lastETag, astray>> /\ pc # "applying"
      \/ client' \in [Item -> Content] /\ lastETag' = {} /\ astray' = {}
  <2>1. [i \in Item |-> "absent"] \in [Item -> Content] /\ client \in [Item -> Content]
    BY DEF IInv, TypeOK, Content
  <2>2. QED
    BY <2>1 DEF Lose, ClientRestart
<1>4. TypeOK'
  BY <1>1, <1>2, <1>3, IdleIsTyped DEF IInv, TypeOK, Stages
<1>5. ListingIsComplete' /\ TagIsApplied' /\ SyncCatchesUp'
  BY <1>1, IdleIsTyped DEF ListingIsComplete, TagIsApplied, SyncCatchesUp
<1>6. TagIsHonoured'
  BY <1>3 DEF IInv, TagIsHonoured, Has
<1>7. QED
  BY <1>4, <1>5, <1>6 DEF IInv

LEMMA AskKeeps == ASSUME IInv, Ask PROVE IInv'
<1>1. TypeOK'
  BY DEF Ask, IInv, TypeOK, Stages
<1>2. QED
  BY <1>1 DEF Ask, IInv, ListingIsComplete, TagIsApplied, TagIsHonoured, Has, SyncCatchesUp

\* A listing adds what the store has of S, unless it fails.
LEMMA ListKeeps ==
    ASSUME IInv, NEW S \in {Agent, Policy}, NEW from \in {"asked", "agents"},
           NEW to \in {"agents", "listed"}, List(S, from, to)
    PROVE  /\ TypeOK'
           /\ pc = from /\ pc' = to
           /\ UNCHANGED <<kind, server, client, lastETag, tag, stopped, steady, astray>>
           /\ clean' => /\ clean
                        /\ \A i \in Item : Lists(listing, i) => Lists(listing, i)'
                        /\ \A i \in Stored(S) : Lists(listing, i)'
<1>1. /\ pc = from /\ pc' = to
      /\ UNCHANGED <<kind, server, client, lastETag, tag, stopped, steady, astray>>
  BY DEF List
<1>2. S \in SUBSET Item /\ IsFiniteSet(S) /\ listing \in Seq(Entry)
  BY ItemsAreFinite DEF Item, IInv, TypeOK
<1>3. PICK l \in Listings(S) :
         \/ listing' = listing \o l /\ UNCHANGED <<faults, clean>>
         \/ /\ Fails("list")
            /\ \E n \in 0..Len(l) : listing' = listing \o SubSeq(l, 1, n)
            /\ clean' = FALSE
  BY DEF List
<1>4. l \in Seq(Entry) /\ \A i \in S : server[i] # "absent" => Lists(l, i)
  BY <1>2, <1>3, ListingHasStored DEF IInv
<1>5. listing' \in Seq(Entry)
  <2>1. CASE listing' = listing \o l
    BY <1>2, <1>4, <2>1, ConcatHas
  <2>2. ASSUME NEW n \in 0..Len(l), listing' = listing \o SubSeq(l, 1, n)
        PROVE  listing' \in Seq(Entry)
    <3>1. SubSeq(l, 1, n) \in Seq(Entry)
      BY <1>4
    <3>2. QED
      BY <1>2, <2>2, <3>1, ConcatHas
  <2>3. QED
    BY <1>3, <2>1, <2>2
<1>6. faults' \in 0..MaxFaults /\ clean' \in BOOLEAN
  <2>1. faults \in 0..MaxFaults /\ clean \in BOOLEAN
    BY DEF IInv, TypeOK
  <2>2. CASE UNCHANGED <<faults, clean>>
    BY <2>1, <2>2
  <2>3. CASE Fails("list") /\ clean' = FALSE
    <3>1. faults' \in 0..MaxFaults
      BY <2>1, <2>3, FaultsAreBounded DEF Fails
    <3>2. QED
      BY <2>3, <3>1
  <2>4. QED
    BY <1>3, <2>2, <2>3
<1>7. shared' \subseteq (IF kind = "memory" THEN Agent ELSE {})
  BY DEF List, IInv, TypeOK
<1>8. TypeOK'
  BY <1>1, <1>5, <1>6, <1>7 DEF IInv, TypeOK, Stages
<1>9. ASSUME clean'
      PROVE  /\ clean
             /\ \A i \in Item : Lists(listing, i) => Lists(listing, i)'
             /\ \A i \in Stored(S) : Lists(listing, i)'
  <2>1. listing' = listing \o l /\ clean' = clean
    BY <1>3, <1>9
  <2>2. /\ \A n \in DOMAIN listing : \E m \in DOMAIN listing' : listing'[m] = listing[n]
        /\ \A n \in DOMAIN l : \E m \in DOMAIN listing' : listing'[m] = l[n]
    BY <1>2, <1>4, <2>1, ConcatHas
  <2>3. ASSUME NEW i, Lists(listing, i) \/ Lists(l, i) PROVE Lists(listing, i)'
    <3>1. server' = server
      BY <1>1
    <3>2. \E m \in DOMAIN listing' : listing'[m] = [item |-> i, version |-> server[i]]
      BY <2>2, <2>3 DEF Lists
    <3>3. QED
      BY <3>1, <3>2 DEF Lists
  <2>4. QED
    BY <1>4, <1>9, <2>1, <2>3 DEF Stored
<1>10. QED
  BY <1>1, <1>8, <1>9

LEMMA ListingsKeep == ASSUME IInv, ListAgents \/ ListPolicies PROVE IInv'
<1> DEFINE Keeps(S, from, to) ==
       /\ TypeOK'
       /\ pc = from /\ pc' = to
       /\ UNCHANGED <<kind, server, client, lastETag, tag, stopped, steady, astray>>
       /\ clean' => /\ clean
                    /\ \A i \in Item : Lists(listing, i) => Lists(listing, i)'
                    /\ \A i \in Stored(S) : Lists(listing, i)'
<1>1. CASE ListAgents
  <2>1. List(Agent, "asked", "agents")
    BY <1>1 DEF ListAgents
  <2>2. Keeps(Agent, "asked", "agents")
    BY <2>1, ListKeeps
  <2>3. Stored(Agent)' = Stored(Agent)
    BY <2>2 DEF Stored
  <2>4. ListingIsComplete'
    BY <2>2, <2>3 DEF ListingIsComplete
  <2>5. TagIsApplied' /\ TagIsHonoured' /\ SyncCatchesUp'
    BY <2>2 DEF IInv, TagIsApplied, TagIsHonoured, Has, SyncCatchesUp
  <2>6. QED
    BY <2>2, <2>4, <2>5 DEF IInv
<1>2. CASE ListPolicies
  <2>1. List(Policy, "agents", "listed")
    BY <1>2 DEF ListPolicies
  <2>2. Keeps(Policy, "agents", "listed")
    BY <2>1, ListKeeps
  <2>3. Stored(Item)' = Stored(Item)
    BY <2>2 DEF Stored
  <2>4. ASSUME clean', NEW i \in Stored(Item) PROVE Lists(listing, i)'
    <3>1. CASE i \in Agent
      <4>1. i \in Stored(Agent) /\ i \in Item
        BY <2>4, <3>1 DEF Stored
      <4>2. Lists(listing, i)
        BY <2>2, <2>4, <4>1 DEF IInv, ListingIsComplete
      <4>3. QED
        BY <2>2, <2>4, <4>1, <4>2
    <3>2. CASE i \in Policy
      <4>1. i \in Stored(Policy)
        BY <2>4, <3>2 DEF Stored
      <4>2. QED
        BY <2>2, <2>4, <4>1
    <3>3. QED
      BY <3>1, <3>2 DEF Stored, Item
  <2>5. ListingIsComplete'
    BY <2>2, <2>3, <2>4 DEF ListingIsComplete
  <2>6. TagIsApplied' /\ TagIsHonoured' /\ SyncCatchesUp'
    BY <2>2 DEF IInv, TagIsApplied, TagIsHonoured, Has, SyncCatchesUp
  <2>7. QED
    BY <2>2, <2>5, <2>6 DEF IInv
<1>3. QED
  BY <1>1, <1>2

\* A client that has what its tag names, and whose tag is the listing's, has
\* what the listing says.
LEMMA CheckETagKeeps == ASSUME IInv, CheckETag PROVE IInv'
<1>1. pc = "listed" /\ UNCHANGED <<kind, server, client, lastETag, stopped, faults, history>>
  BY DEF CheckETag
<1>2. CASE lastETag = {ETag(listing)}
  <2>1. Idle
    BY <1>2 DEF CheckETag
  <2>2. TypeOK'
    BY <1>1, <2>1, IdleIsTyped DEF IInv, TypeOK, Stages, history
  <2>3. \A n \in DOMAIN listing : Has(listing[n])
    BY <1>1, <1>2 DEF ETag, IInv, TagIsHonoured
  <2>4. SyncCatchesUp'
    <3>1. SUFFICES ASSUME clean, NEW i \in steady \ astray, server[i] # "absent"
                   PROVE  client[i] = server[i]
      BY <1>1 DEF SyncCatchesUp, history
    <3>2. i \in Item
      BY <3>1 DEF IInv, TypeOK
    <3>3. Lists(listing, i)
      BY <1>1, <3>1, <3>2 DEF IInv, ListingIsComplete, Stored
    <3>4. QED
      BY <2>3, <3>1, <3>3 DEF Lists, Has
  <2>5. ListingIsComplete' /\ TagIsApplied' /\ TagIsHonoured'
    BY <1>1, <2>1, IdleIsTyped DEF IInv, ListingIsComplete, TagIsApplied, TagIsHonoured, Has, history
  <2>6. QED
    BY <2>2, <2>4, <2>5 DEF IInv
<1>3. CASE lastETag # {ETag(listing)}
  <2>1. pc' = "tagged" /\ tag' = listing /\ UNCHANGED <<listing, shared>>
    BY <1>3 DEF CheckETag, ETag
  <2>2. TypeOK'
    BY <1>1, <2>1 DEF IInv, TypeOK, Stages, history
  <2>3. ListingIsComplete'
    BY <1>1, <2>1 DEF IInv, ListingIsComplete, Stored, Lists, history
  <2>4. TagIsApplied' /\ TagIsHonoured' /\ SyncCatchesUp'
    BY <1>1, <2>1 DEF IInv, TagIsApplied, TagIsHonoured, Has, SyncCatchesUp, history
  <2>5. QED
    BY <2>2, <2>3, <2>4 DEF IInv
<1>4. QED
  BY <1>2, <1>3

LEMMA SendBundleKeeps == ASSUME IInv, SendBundle PROVE IInv'
<1>1. /\ pc = "tagged" /\ pc' = "applying" /\ shared' = {}
      /\ UNCHANGED <<kind, server, client, lastETag, listing, tag, stopped, faults, history>>
  BY DEF SendBundle
<1>2. TypeOK'
  BY <1>1 DEF IInv, TypeOK, Stages, history
<1>3. ListingIsComplete'
  BY <1>1 DEF IInv, ListingIsComplete, Stored, Lists, history
<1>4. TagIsApplied' /\ TagIsHonoured' /\ SyncCatchesUp'
  BY <1>1 DEF IInv, TagIsApplied, TagIsHonoured, SyncCatchesUp
<1>5. QED
  BY <1>2, <1>3, <1>4 DEF IInv

\* The loop takes an item off the listing, and gives it to the client or to
\* those astray.
LEMMA ApplyItemKeeps == ASSUME IInv, ApplyItem PROVE IInv'
<1> DEFINE e == Head(listing)
           moved == \E n \in DOMAIN tag : tag[n].item = e.item /\ tag[n] # e
<1>1. /\ pc = "applying" /\ listing # <<>> /\ listing' = Tail(listing)
      /\ UNCHANGED <<kind, server, lastETag, pc, shared, tag, stopped, steady>>
  BY DEF ApplyItem
<1>2. listing \in Seq(Entry) /\ Tail(listing) \in Seq(Entry) /\ e \in Entry
  BY <1>1, TailHas DEF IInv, TypeOK
<1>3. \/ /\ client' = [client EXCEPT ![e.item] = e.version]
         /\ astray' = IF moved THEN astray \cup {e.item} ELSE astray \ {e.item}
         /\ UNCHANGED <<faults, clean>>
      \/ /\ Fails("apply")
         /\ astray' = astray \cup {e.item}
         /\ clean' = FALSE
         /\ UNCHANGED client
  BY DEF ApplyItem
<1>4. e.item \in Item /\ e.version \in Content
  BY <1>2 DEF Entry, Content
<1>5. TypeOK'
  <2>1. client' \in [Item -> Content] /\ astray' \subseteq Item /\ clean' \in BOOLEAN
    BY <1>3, <1>4 DEF IInv, TypeOK
  <2>2. faults' \in 0..MaxFaults
    BY <1>3, FaultsAreBounded DEF Fails, IInv, TypeOK
  <2>3. QED
    BY <1>1, <1>2, <2>1, <2>2 DEF IInv, TypeOK
<1>6. ListingIsComplete'
  BY <1>1, <1>3 DEF IInv, ListingIsComplete, Stored, Lists
<1>7. TagIsApplied'
  <2>1. SUFFICES ASSUME NEW n \in DOMAIN tag,
                        ~\E m \in DOMAIN Tail(listing) : Tail(listing)[m].item = tag[n].item
                 PROVE  Has(tag[n])'
    BY <1>1 DEF TagIsApplied
  <2>2. CASE tag[n].item = e.item
    <3>1. CASE ~moved /\ client' = [client EXCEPT ![e.item] = e.version]
      <4>1. tag[n] = e
        BY <2>1, <2>2, <3>1
      <4>2. client'[e.item] = e.version
        BY <1>4, <3>1 DEF IInv, TypeOK
      <4>3. QED
        BY <1>1, <4>1, <4>2 DEF Has
    <3>2. CASE e.item \in astray'
      BY <1>1, <2>2, <3>2 DEF Has
    <3>3. QED
      BY <1>3, <3>1, <3>2
  <2>3. CASE tag[n].item # e.item
    <3>1. ~\E m \in DOMAIN listing : listing[m].item = tag[n].item
      BY <1>1, <1>2, <2>1, <2>3, TailHas
    <3>2. Has(tag[n])
      BY <1>1, <2>1, <3>1 DEF IInv, TagIsApplied
    <3>3. tag[n].item \in astray <=> tag[n].item \in astray'
      BY <1>3, <2>3
    <3>4. tag[n] \in Entry
      BY <2>1 DEF IInv, TypeOK
    <3>5. client'[tag[n].item] = client[tag[n].item]
      BY <1>3, <2>3, <3>4 DEF IInv, TypeOK, Entry
    <3>6. QED
      BY <1>1, <3>2, <3>3, <3>5 DEF Has
  <2>4. QED
    BY <2>2, <2>3
<1>8. TagIsHonoured' /\ SyncCatchesUp'
  BY <1>1 DEF TagIsHonoured, SyncCatchesUp
<1>9. QED
  BY <1>5, <1>6, <1>7, <1>8 DEF IInv

LEMMA FinishSyncKeeps == ASSUME IInv, FinishSync PROVE IInv'
<1>1. /\ pc = "applying" /\ listing = <<>> /\ lastETag' = {tag} /\ Idle
      /\ UNCHANGED <<kind, server, client, stopped, faults, history>>
  BY DEF FinishSync
<1>2. \A n \in DOMAIN tag : Has(tag[n])
  BY <1>1 DEF IInv, TagIsApplied
<1>3. TypeOK'
  BY <1>1, IdleIsTyped DEF IInv, TypeOK, Stages, history
<1>4. SyncCatchesUp'
  <2>1. SUFFICES ASSUME clean, NEW i \in steady \ astray, server[i] # "absent"
                 PROVE  client[i] = server[i]
    BY <1>1 DEF SyncCatchesUp, history
  <2>2. i \in Item
    BY <2>1 DEF IInv, TypeOK
  <2>3. Lists(tag, i)
    BY <1>1, <2>1, <2>2 DEF IInv, ListingIsComplete, Stored
  <2>4. QED
    BY <1>2, <2>1, <2>3 DEF Lists, Has
<1>5. TagIsHonoured'
  BY <1>1, <1>2 DEF TagIsHonoured, Has, history
<1>6. ListingIsComplete' /\ TagIsApplied'
  BY <1>1, IdleIsTyped DEF ListingIsComplete, TagIsApplied
<1>7. QED
  BY <1>3, <1>4, <1>5, <1>6 DEF IInv

LEMMA Inductive == IInv /\ [Next]_vars => IInv'
<1>1. SUFFICES ASSUME IInv, [Next]_vars PROVE IInv'
  OBVIOUS
<1>2. CASE \E i \in Item, v \in Version : Put(i, v)
  BY <1>1, <1>2, ServerKeeps DEF Put, Content
<1>3. CASE \E i \in Item : Delete(i)
  BY <1>1, <1>3, ServerKeeps DEF Delete, Content
<1>4. CASE \E a \in Agent, v \in Version : UpdateAgentStatus(a, v)
  BY <1>1, <1>4, StatusKeeps
<1>5. CASE SyncStep
  BY <1>1, <1>5, AskKeeps, ListingsKeep, CheckETagKeeps, SendBundleKeeps, ApplyItemKeeps,
     FinishSyncKeeps DEF SyncStep
<1>6. CASE Lose \/ ClientRestart
  BY <1>1, <1>6, FailureKeeps
<1>7. CASE Stop
  BY <1>1, <1>7 DEF Stop, request, history, IInv, TypeOK, ListingIsComplete, Stored, Lists,
                    TagIsApplied, TagIsHonoured, Has, SyncCatchesUp
<1>8. CASE Quit
  BY <1>1, <1>8 DEF Quit, history, IInv, TypeOK, Stages, ListingIsComplete,
                    TagIsApplied, TagIsHonoured, Has
<1>9. CASE UNCHANGED vars
  BY <1>1, <1>9 DEF vars, request, history, IInv, TypeOK, ListingIsComplete, Stored, Lists,
                    TagIsApplied, TagIsHonoured, Has, SyncCatchesUp
<1>10. QED
  BY <1>1, <1>2, <1>3, <1>4, <1>5, <1>6, <1>7, <1>8, <1>9 DEF Next

\* Every behaviour satisfies the invariant.
THEOREM Invariance == Spec => []IInv
<1>1. QED
  BY InitIInv, Inductive, PTL DEF Spec

\* The stores, the request and the tags stay within their types.
THEOREM TypeCorrect == Spec => []TypeOK
<1>1. IInv => TypeOK
  BY DEF IInv
<1>2. QED
  BY <1>1, Invariance, PTL

\* A Sync without failures leaves the client with the server's content.
THEOREM SyncsCatchUp == Spec => []SyncCatchesUp
<1>1. IInv => SyncCatchesUp
  BY DEF IInv, SyncCatchesUp
<1>2. QED
  BY <1>1, Invariance, PTL
=============================================================================
