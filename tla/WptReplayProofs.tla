--------------------------- MODULE WptReplayProofs --------------------------
(***************************************************************************)
(* Within one process no proof is accepted twice inside its window, for    *)
(* any number of requests, proofs and keys, and any skew.                  *)
(***************************************************************************)
EXTENDS WptReplay, TLAPS

LEMMA TypeStep == TypeOK /\ [Next]_vars => TypeOK'
<1>1. SUFFICES ASSUME TypeOK, [Next]_vars PROVE TypeOK'
  OBVIOUS
<1>2. ASSUME NEW h \in Handler, NEW w \in Wpt, validateWIMSEProof(h, w)
      PROVE  TypeOK'
  BY <1>1, <1>2 DEF validateWIMSEProof, TypeOK
<1>3. ASSUME NEW h \in Handler, NEW w \in Wpt, NEW t \in clock[h], markWPTJTI(h, w, t)
      PROVE  TypeOK'
  <2>1. cache' \in [Key -> SUBSET Nat]
    BY <1>1, <1>3, WptAssumption DEF markWPTJTI, TypeOK, Purged, Stored
  <2>2. accepted' \subseteq Wpt /\ replays' \subseteq Wpt \X Nat
    BY <1>1, <1>3 DEF markWPTJTI, TypeOK
  <2>3. QED
    BY <1>1, <1>3, <2>1, <2>2 DEF markWPTJTI, TypeOK
<1>4. CASE Tick
  BY <1>1, <1>4 DEF Tick, TypeOK
<1>4a. ASSUME NEW h \in Handler, readClock(h)
       PROVE  TypeOK'
  BY <1>1, <1>4a DEF readClock, TypeOK
<1>5. CASE Restart
  BY <1>1, <1>5 DEF Restart, TypeOK
<1>6. CASE UNCHANGED vars
  BY <1>1, <1>6 DEF vars, TypeOK
<1>7. QED
  BY <1>1, <1>2, <1>3, <1>4, <1>4a, <1>5, <1>6 DEF Next

\* Marking a proof keeps the cache's memory of every other proof that is
\* still valid: their keys are neither purged nor overwritten.
LEMMA MarkRemembers ==
    ASSUME TypeOK, CacheRemembers, NEW h \in Handler, NEW w \in Wpt, NEW t \in clock[h],
           markWPTJTI(h, w, t)
    PROVE  CacheRemembers'
<1>1. SUFFICES ASSUME NEW x \in accepted', now < Exp[x] + Skew
               PROVE  cache'[KeyOf[x]] = {Exp[x]}
  BY DEF CacheRemembers, markWPTJTI
<1>2. x \in Wpt /\ KeyOf[x] \in Key /\ Exp[x] \in Nat /\ now \in Nat /\ t \in 0..now
  BY WptAssumption DEF TypeOK, markWPTJTI
<1>3. CASE x = w /\ ~Used(w, t)
  BY <1>2, <1>3 DEF markWPTJTI, Stored
<1>4. CASE x \in accepted
  <2>1. cache[KeyOf[x]] = {Exp[x]}
    BY <1>1, <1>4 DEF CacheRemembers
  <2>2. Purged(KeyOf[x], t) = {Exp[x]}
    BY <1>1, <1>2, <2>1, ClockAssumption DEF Purged
  <2>3. KeyOf[x] = KeyOf[w] => Used(w, t)
    BY <1>1, <1>2, <2>2, ClockAssumption DEF Used
  <2>4. QED
    BY <1>2, <2>2, <2>3 DEF markWPTJTI
<1>5. QED
  BY <1>3, <1>4 DEF markWPTJTI

LEMMA ReplayStep ==
    TypeOK /\ CacheRemembers /\ ReplayOnlyAfterWindow /\ [Next]_vars
        => CacheRemembers' /\ ReplayOnlyAfterWindow'
<1>1. SUFFICES ASSUME TypeOK, CacheRemembers, ReplayOnlyAfterWindow, [Next]_vars
               PROVE  CacheRemembers' /\ ReplayOnlyAfterWindow'
  OBVIOUS
<1>2. ASSUME NEW h \in Handler, NEW w \in Wpt, NEW t \in clock[h], markWPTJTI(h, w, t)
      PROVE  ReplayOnlyAfterWindow'
  <2>1. ASSUME w \in accepted, now < Exp[w] + Skew
        PROVE  Used(w, t)
    <3>1. cache[KeyOf[w]] = {Exp[w]}
      BY <1>1, <2>1 DEF CacheRemembers
    <3>2. Exp[w] \in Nat /\ now \in Nat /\ t \in 0..now
      BY <1>1, WptAssumption DEF TypeOK
    <3>3. QED
      BY <2>1, <3>1, <3>2, ClockAssumption DEF Used, Purged
  <2>2. Exp[w] \in Nat /\ now \in Nat
    BY <1>1, WptAssumption DEF TypeOK
  <2>3. w \in accepted /\ ~Used(w, t) => now >= Exp[w] + Skew
    BY <2>1, <2>2, ClockAssumption
  <2>4. ASSUME NEW r \in replays'
        PROVE  r[2] >= Exp[r[1]] + Skew
    BY <1>1, <1>2, <2>3 DEF markWPTJTI, ReplayOnlyAfterWindow
  <2>5. QED
    BY <2>4 DEF ReplayOnlyAfterWindow
<1>3. ASSUME NEW h \in Handler,
             \/ readClock(h)
             \/ \E w \in Wpt : validateWIMSEProof(h, w)
      PROVE  CacheRemembers' /\ ReplayOnlyAfterWindow'
  BY <1>1, <1>3 DEF readClock, validateWIMSEProof, CacheRemembers, ReplayOnlyAfterWindow
<1>4. CASE Tick
  <2>1. ASSUME NEW w \in accepted, now + 1 < Exp[w] + Skew
        PROVE  now < Exp[w] + Skew
    BY <1>1, <2>1, WptAssumption, ClockAssumption DEF TypeOK
  <2>2. QED
    BY <1>1, <1>4, <2>1 DEF Tick, CacheRemembers, ReplayOnlyAfterWindow
<1>5. CASE Restart
  BY <1>1, <1>5 DEF Restart, CacheRemembers, ReplayOnlyAfterWindow
<1>6. CASE UNCHANGED vars
  BY <1>1, <1>6 DEF vars, CacheRemembers, ReplayOnlyAfterWindow
<1>7. QED
  BY <1>1, <1>2, <1>3, <1>4, <1>5, <1>6, MarkRemembers DEF Next

\* Clocks, cache and history keep their types; no clock read lies in the future.
THEOREM TypeCorrect == Spec => []TypeOK
<1>1. Init => TypeOK
  BY DEF Init, TypeOK
<1>2. QED
  BY <1>1, TypeStep, PTL DEF Spec

\* While a proof's window is open, the process that accepted it refuses it,
\* however its requests interleave between the check and the mark.
THEOREM NoReplayInWindow == Spec => []ReplayOnlyAfterWindow
<1>1. Init => TypeOK /\ CacheRemembers /\ ReplayOnlyAfterWindow
  BY DEF Init, TypeOK, CacheRemembers, ReplayOnlyAfterWindow
<1>2. QED
  BY <1>1, TypeStep, ReplayStep, PTL DEF Spec
=============================================================================
