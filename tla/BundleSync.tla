----------------------------- MODULE BundleSync -----------------------------
(***************************************************************************)
(* Distribution of agents and policies to embedded evaluators: a server    *)
(* that lists its store and names the listing by a hash, and a client that *)
(* polls it and copies what it gets into a store of its own.               *)
(*                                                                         *)
(* The server keeps nothing between requests and a client has one Sync at  *)
(* a time, so one client and its current request are the whole system.     *)
(* The server's store changes between any two steps.  An item is an agent  *)
(* or a policy, its version stands for its content.                        *)
(***************************************************************************)
EXTENDS Naturals, FiniteSets, SequencesExt

CONSTANTS
    Agent, Policy,   \* ids
    Version,         \* contents an item may have
    Kind,            \* the server's store: a subset of {"memory", "postgres"}
    Faults,          \* what may fail: "lost", "list", "apply", "restart"
    MaxFaults        \* bound: failures in a behaviour

ASSUME AgentsAreNotPolicies == Agent \cap Policy = {}

ASSUME ItemsAreFinite == IsFiniteSet(Agent) /\ IsFiniteSet(Policy)

ASSUME FaultsAreBounded == MaxFaults \in Nat

ASSUME KindsAreKnown == Kind # {} /\ Kind \subseteq {"memory", "postgres"}

Item == Agent \cup Policy

ASSUME AbsentIsNoVersion == "absent" \notin Version

Content == Version \cup {"absent"}

Entry == [item : Item, version : Version]

VARIABLES
    kind,       \* which store the server runs on
    server,     \* the content of the server's store
    client,     \* the content of the client's store
    lastETag,   \* c.lastETag: at most one tag, none for ""
    pc,         \* what has been done of the current Sync
    listing,    \* the items listed; at the client, those still to be applied
    shared,     \* the agents whose listed pointer is the one in the store
    tag,        \* the ETag of the listing
    stopped,    \* Stop was called
    faults,     \* failures so far
    steady,     \* history: items the server did not change since Sync began
    clean,      \* history: nothing failed in the last Sync
    astray      \* history: items whose content at the client may differ from
                \* the one the tag was computed from

request == <<pc, listing, shared, tag>>
history == <<steady, clean, astray>>
vars == <<kind, server, client, lastETag, request, stopped, faults, history>>

Stages == {"idle", "asked", "agents", "listed", "tagged", "applying", "gone"}

-----------------------------------------------------------------------------
(* The server's store. *)

Changed(i, v) == steady' = IF server[i] = v THEN steady ELSE steady \ {i}

\* RegisterAgent, AddPolicy: the memory store takes a new object, a listing
\* keeps the old one.
Put(i, v) ==
    /\ server' = [server EXCEPT ![i] = v]
    /\ shared' = shared \ {i}
    /\ Changed(i, v)
    /\ UNCHANGED <<kind, client, lastETag, pc, listing, tag, stopped, faults, clean, astray>>

\* DeleteAgent, DeletePolicy.
Delete(i) ==
    /\ server' = [server EXCEPT ![i] = "absent"]
    /\ shared' = shared \ {i}
    /\ Changed(i, "absent")
    /\ UNCHANGED <<kind, client, lastETag, pc, listing, tag, stopped, faults, clean, astray>>

\* UpdateAgentStatus: on memory it writes into the object a listing points to.
UpdateAgentStatus(a, v) ==
    /\ server[a] # "absent"
    /\ server' = [server EXCEPT ![a] = v]
    /\ listing' = IF a \in shared
                  THEN [n \in DOMAIN listing |-> IF listing[n].item = a
                                                 THEN [listing[n] EXCEPT !.version = v]
                                                 ELSE listing[n]]
                  ELSE listing
    /\ Changed(a, v)
    /\ UNCHANGED <<kind, client, lastETag, pc, shared, tag, stopped, faults, clean, astray>>

-----------------------------------------------------------------------------
(* Failures. *)

Fails(f) == f \in Faults /\ faults < MaxFaults /\ faults' = faults + 1

Idle == pc' = "idle" /\ listing' = <<>> /\ shared' = {} /\ tag' = <<>>

\* The request or its answer is lost, cut short, or not a 200 or 304: Sync
\* returns an error before it touches the store.
Lose ==
    /\ pc \in {"asked", "agents", "listed", "tagged"}
    /\ Fails("lost")
    /\ Idle
    /\ clean' = FALSE
    /\ UNCHANGED <<kind, server, client, lastETag, stopped, steady, astray>>

\* Fault: the tag is kept where the store is not.
MutClientRestartKeepsETag ==
    /\ pc # "gone"
    /\ Fails("restart")
    /\ client' \in {client, [i \in Item |-> "absent"]}
    /\ lastETag' = lastETag
    /\ astray' = {}
    /\ Idle
    /\ clean' = FALSE
    /\ UNCHANGED <<kind, server, stopped, steady>>

\* The client's process dies at any point; its store may be durable.
ClientRestart ==
    /\ pc # "gone"
    /\ Fails("restart")
    /\ client' \in {client, [i \in Item |-> "absent"]}
    /\ lastETag' = {}
    /\ astray' = {}
    /\ Idle
    /\ clean' = FALSE
    /\ UNCHANGED <<kind, server, stopped, steady>>

-----------------------------------------------------------------------------
(* One Sync: Handler and Generate on the server, Sync on the client. *)

\* The initial sync or the ticker's; select may prefer it to stopCh.
Ask ==
    /\ pc = "idle"
    /\ pc' = "asked"
    /\ steady' = Item
    /\ clean' = TRUE
    /\ UNCHANGED <<kind, server, client, lastETag, listing, shared, tag, stopped, faults, astray>>

\* Fault: a missing item is listed.
MutPresentAll(S) == S

Present(S) == {i \in S : server[i] # "absent"}

\* ORDER BY id on Postgres (an order of its own that never changes), the order
\* of a Go map in memory.
Orders(S) ==
    IF kind = "memory" THEN SetToSeqs(S) ELSE {CHOOSE s \in SetToSeqs(S) : TRUE}

Listings(S) ==
    {[n \in DOMAIN s |-> [item |-> s[n], version |-> server[s[n]]]] : s \in Orders(Present(S))}

\* Generate drops the stores' errors: what a failed listing yields is used,
\* rows read before the connection broke included.
List(S, from, to) ==
    /\ pc = from
    /\ pc' = to
    /\ \E l \in Listings(S) :
         \/ /\ listing' = listing \o l
            /\ UNCHANGED <<faults, clean>>
         \/ /\ kind = "postgres"
            /\ Fails("list")
            /\ \E n \in 0..Len(l) : listing' = listing \o SubSeq(l, 1, n)
            /\ clean' = FALSE
    /\ shared' = IF kind = "memory" THEN shared \cup (Present(S) \cap Agent) ELSE {}
    /\ UNCHANGED <<kind, server, client, lastETag, tag, stopped, steady, astray>>

ListAgents == List(Agent, "asked", "agents")

ListPolicies == List(Policy, "agents", "listed")

\* Fault: the hash covers the agents only.
MutETagAgentsOnly(l) == SelectSeq(l, LAMBDA e : e.item \in Agent)

\* The hash of the listing's JSON, taken to be injective.
ETag(l) == l

\* 304 when the client's tag is the listing's.
CheckETag ==
    /\ pc = "listed"
    /\ IF lastETag = {ETag(listing)}
       THEN Idle
       ELSE /\ pc' = "tagged"
            /\ tag' = ETag(listing)
            /\ UNCHANGED <<listing, shared>>
    /\ UNCHANGED <<kind, server, client, lastETag, stopped, faults, history>>

\* The body is encoded from the objects as they are now.
SendBundle ==
    /\ pc = "tagged"
    /\ pc' = "applying"
    /\ shared' = {}
    /\ UNCHANGED <<kind, server, client, lastETag, listing, tag, stopped, faults, history>>

\* Agents, then policies; a failure is logged and the loop goes on.
ApplyItem ==
    /\ pc = "applying"
    /\ listing # <<>>
    /\ LET e == Head(listing)
           moved == \E n \in DOMAIN tag : tag[n].item = e.item /\ tag[n] # e
       IN \/ /\ client' = [client EXCEPT ![e.item] = e.version]
             /\ astray' = IF moved THEN astray \cup {e.item} ELSE astray \ {e.item}
             /\ UNCHANGED <<faults, clean>>
          \/ /\ Fails("apply")
             /\ astray' = astray \cup {e.item}
             /\ clean' = FALSE
             /\ UNCHANGED client
    /\ listing' = Tail(listing)
    /\ UNCHANGED <<kind, server, lastETag, pc, shared, tag, stopped, steady>>

FinishSync ==
    /\ pc = "applying"
    /\ listing = <<>>
    /\ lastETag' = {tag}
    /\ Idle
    /\ UNCHANGED <<kind, server, client, stopped, faults, history>>

Stop ==
    /\ ~stopped
    /\ stopped' = TRUE
    /\ UNCHANGED <<kind, server, client, lastETag, request, faults, history>>

\* The polling goroutine ends between two syncs.
Quit ==
    /\ pc = "idle"
    /\ stopped
    /\ pc' = "gone"
    /\ UNCHANGED <<kind, server, client, lastETag, listing, shared, tag, stopped, faults, history>>

-----------------------------------------------------------------------------
Init ==
    /\ kind \in Kind
    /\ server \in [Item -> Content]
    /\ client = [i \in Item |-> "absent"]
    /\ lastETag = {}
    /\ pc = "idle"
    /\ listing = <<>> /\ shared = {} /\ tag = <<>>
    /\ stopped = FALSE
    /\ faults = 0
    /\ steady = Item /\ clean = FALSE /\ astray = {}

SyncStep ==
    \/ Ask
    \/ ListAgents
    \/ ListPolicies
    \/ CheckETag
    \/ SendBundle
    \/ ApplyItem
    \/ FinishSync

Next ==
    \/ \E i \in Item, v \in Version : Put(i, v)
    \/ \E i \in Item : Delete(i)
    \/ \E a \in Agent, v \in Version : UpdateAgentStatus(a, v)
    \/ SyncStep
    \/ Lose
    \/ ClientRestart
    \/ Stop
    \/ Quit

Spec == Init /\ [][Next]_vars

\* The goroutine is scheduled and the ticker ticks.
FairSpec == Spec /\ WF_vars(SyncStep)

-----------------------------------------------------------------------------
(* Properties. *)

\* The listing and the tag name stored contents only, a listing in progress
\* shares pointers only on memory, and an idle client holds no listing.
TypeOK ==
    /\ kind \in Kind
    /\ server \in [Item -> Content]
    /\ client \in [Item -> Content]
    /\ lastETag \subseteq Seq(Entry)
    /\ pc \in Stages
    /\ listing \in Seq(Entry)
    /\ tag \in Seq(Entry)
    /\ shared \subseteq (IF kind = "memory" THEN Agent ELSE {})
    /\ stopped \in BOOLEAN
    /\ faults \in 0..MaxFaults
    /\ steady \subseteq Item
    /\ clean \in BOOLEAN
    /\ astray \subseteq Item
    /\ pc \in {"idle", "gone"} => listing = <<>> /\ shared = {} /\ tag = <<>>

\* What a revocation's docs promise of embedded evaluators, "on next bundle
\* sync": after a Sync without failures the client has the server's content of
\* every item that the server holds and did not change since the Sync began,
\* downloaded or answered 304.  Exempt are the items of an earlier Sync that
\* could not be applied, or whose status the memory store changed in place
\* between the hash and the encoding: nothing downloads these again.
SyncCatchesUp ==
    pc = "idle" /\ clean =>
        \A i \in steady \ astray : server[i] # "absent" => client[i] = server[i]

\* A client that polls for ever ends up with an item the server no longer
\* changes, whatever was lost, listed in part or restarted on the way.
Converges ==
    \A i \in Item, v \in Version :
        <>[](server[i] = v /\ ~stopped /\ i \notin astray) => <>[](client[i] = v)
=============================================================================
