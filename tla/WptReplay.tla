------------------------------ MODULE WptReplay -----------------------------
(***************************************************************************)
(* Replay protection for WIMSE workload proof tokens (engine/session/      *)
(* token.go): concurrent session requests each check a proof's claims      *)
(* against the clock (validateWIMSEProof), read the clock once more        *)
(* (readClock), wait for the validator's mutex and then mark the jti as    *)
(* used (markWPTJTI), by which time the clock may have moved on.  The      *)
(* cache is local to the process and lost with it.                         *)
(***************************************************************************)
EXTENDS Integers

CONSTANTS
    Handler,     \* the goroutines that create sessions
    Wpt,         \* proof tokens
    Key,         \* replay keys: WIT subject and jti
    KeyOf,       \* KeyOf[w]: the replay key of w
    Exp,         \* Exp[w]: the exp claim of w
    Skew,        \* maxWPTSkew
    MaxTTL,      \* maxWPTTTL
    MaxNow       \* bound: the clock stops here

ASSUME WptAssumption == KeyOf \in [Wpt -> Key] /\ Exp \in [Wpt -> Nat]

ASSUME ClockAssumption == Skew \in Nat /\ MaxTTL \in Nat /\ MaxNow \in Nat

VARIABLES
    now,         \* the clock
    cache,       \* wptReplay: the stored expiry of a key, {} when it has none
    pending,     \* pending[h]: the proof h has validated and not yet marked
    clock,       \* clock[h]: the time h read before it asked for the mutex
    accepted,    \* history: the proofs accepted since the process started
    replays      \* history: <<w, t>> when w was accepted again at time t

vars == <<now, cache, pending, clock, accepted, replays>>

Init ==
    /\ now = 0
    /\ cache = [k \in Key |-> {}]
    /\ pending = [h \in Handler |-> {}]
    /\ clock = [h \in Handler |-> {}]
    /\ accepted = {}
    /\ replays = {}

\* exp is not too far ahead, and not passed by more than the skew.
claimsValid(w) == Exp[w] - now <= MaxTTL /\ now - Skew <= Exp[w]

validateWIMSEProof(h, w) ==
    /\ pending[h] = {}
    /\ claimsValid(w)
    /\ pending' = [pending EXCEPT ![h] = {w}]
    /\ UNCHANGED <<now, cache, clock, accepted, replays>>

\* The clock read of markWPTJTI, before it takes the mutex.
readClock(h) ==
    /\ pending[h] # {} /\ clock[h] = {}
    /\ clock' = [clock EXCEPT ![h] = {now}]
    /\ UNCHANGED <<now, cache, pending, accepted, replays>>

\* Fault: an entry is dropped at its expiry, before the skew has passed.
MutPurgedNoSkew(k, t) == {e \in cache[k] : t <= e}

\* What the loop that drops expired entries leaves of a key at time t.
Purged(k, t) == {e \in cache[k] : t <= e + Skew}

Used(w, t) == \E e \in Purged(KeyOf[w], t) : t < e + Skew

\* Fault: the time left is stored.
MutStoredLifetime(w) == Exp[w] - now

Stored(w) == Exp[w]

\* The rest of markWPTJTI, under the mutex: drop expired entries, refuse a key
\* in use, store the key.
markWPTJTI(h, w, t) ==
    /\ w \in pending[h] /\ t \in clock[h]
    /\ pending' = [pending EXCEPT ![h] = {}]
    /\ clock' = [clock EXCEPT ![h] = {}]
    /\ IF Used(w, t)
       THEN /\ cache' = [k \in Key |-> Purged(k, t)]
            /\ UNCHANGED <<accepted, replays>>
       ELSE /\ cache' = [k \in Key |-> IF k = KeyOf[w] THEN {Stored(w)} ELSE Purged(k, t)]
            /\ accepted' = accepted \cup {w}
            /\ replays' = replays \cup {<<x, now>> : x \in accepted \cap {w}}
    /\ UNCHANGED now

Tick ==
    /\ now < MaxNow
    /\ now' = now + 1
    /\ UNCHANGED <<cache, pending, clock, accepted, replays>>

Restart ==
    /\ cache' = [k \in Key |-> {}]
    /\ pending' = [h \in Handler |-> {}]
    /\ clock' = [h \in Handler |-> {}]
    /\ accepted' = {}
    /\ UNCHANGED <<now, replays>>

Next ==
    \/ \E h \in Handler, w \in Wpt :
          validateWIMSEProof(h, w) \/ \E t \in clock[h] : markWPTJTI(h, w, t)
    \/ \E h \in Handler : readClock(h)
    \/ Tick
    \/ Restart

Spec == Init /\ [][Next]_vars

-----------------------------------------------------------------------------
\* Every variable has its type.
TypeOK ==
    /\ now \in Nat
    /\ cache \in [Key -> SUBSET Nat]
    /\ pending \in [Handler -> SUBSET Wpt]
    /\ clock \in [Handler -> SUBSET Nat]
    /\ \A h \in Handler : clock[h] \subseteq 0..now
    /\ accepted \subseteq Wpt
    /\ replays \subseteq Wpt \X Nat

\* A process never accepts a proof a second time before the proof's validity
\* window, its exp and the skew, is over (validateWIMSEProof, markWPTJTI).  At
\* the window's last instant claimsValid still holds and Used does not: the
\* property stops short of it.
ReplayOnlyAfterWindow == \A r \in replays : r[2] >= Exp[r[1]] + Skew

\* What makes it inductive: a proof accepted is remembered while it is valid.
CacheRemembers ==
    \A w \in accepted : now < Exp[w] + Skew => cache[KeyOf[w]] = {Exp[w]}
=============================================================================
