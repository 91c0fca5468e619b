---------------------------- MODULE LeasedAccess ----------------------------
(***************************************************************************)
(* What grants promise of the APIs that check them, without servers,       *)
(* gateways, tokens or messages: a call is admitted in the name of an      *)
(* agent and an action only while a lease on that pair runs, and a lease   *)
(* starts only when the pair is allowed, for at most TTL seconds.          *)
(***************************************************************************)
EXTENDS Integers

CONSTANTS
    Call,        \* calls of an API
    Pair,        \* an agent and an action
    TTL          \* the longest lease, a natural number of seconds

VARIABLES
    allowed,     \* the pairs an authorization request would be allowed for now
    leased,      \* leased[p]: the seconds, from now on, a lease on p covers
    admitted     \* the pair a call was admitted for, if any

vars == <<allowed, leased, admitted>>

Init ==
    /\ allowed \subseteq Pair
    /\ leased = [p \in Pair |-> {}]
    /\ admitted = [c \in Call |-> {}]

Judge(p) ==
    /\ allowed' \in {allowed \cup {p}, allowed \ {p}}
    /\ UNCHANGED <<leased, admitted>>

Lease(p) ==
    /\ p \in allowed
    /\ \E t \in 0..TTL : leased' = [leased EXCEPT ![p] = @ \cup 0..t]
    /\ UNCHANGED <<allowed, admitted>>

Admit(c, p) ==
    /\ admitted[c] = {}
    /\ 0 \in leased[p]
    /\ admitted' = [admitted EXCEPT ![c] = {p}]
    /\ UNCHANGED <<allowed, leased>>

Leave(c) ==
    /\ admitted' = [admitted EXCEPT ![c] = {}]
    /\ UNCHANGED <<allowed, leased>>

Tick ==
    /\ leased' = [p \in Pair |-> {s \in 0..TTL : s + 1 \in leased[p]}]
    /\ UNCHANGED <<allowed, admitted>>

Next ==
    \/ \E p \in Pair : Judge(p) \/ Lease(p) \/ \E c \in Call : Admit(c, p)
    \/ \E c \in Call : Leave(c)
    \/ Tick

Spec == Init /\ [][Next]_vars
=============================================================================
