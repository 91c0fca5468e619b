-------------------------- MODULE MigrationsProofs --------------------------
(***************************************************************************)
(* For any instances, binaries and migrations: a transaction holds the     *)
(* lock while it migrates, so what it read of the version table stays true *)
(* until it commits, and the commit is an atomic migration.                *)
(***************************************************************************)
EXTENDS Migrations, TLAPS

IInv == TypeOK /\ LockInvariant /\ OnceEach /\ UpMeansMigrated

LEMMA AnyBinaryIsOne == AnyBinary \in Binary
BY BinariesExist DEF AnyBinary

LEMMA PlanIsTyped ==
    ASSUME NEW b \in Binary
    PROVE  /\ Plan[b] \in SUBSET Migration
           /\ \A m \in Plan[b] : m.version \in Version /\ m.stamp \in Stamp /\ m.stamp # ""
<1>1. Plan[b] \in SUBSET Migration
  BY PlansAreValid
<1>2. \A m \in Migration : m.version \in Version /\ m.stamp \in Stamp /\ m.stamp # ""
  BY StampsAreSet DEF Migration
<1>3. QED
  BY <1>1, <1>2

LEMMA InitIInv == Init => IInv
<1>1. SUFFICES ASSUME Init PROVE IInv
  OBVIOUS
<1>2. PICK old \in SUBSET Version :
          /\ rows = [v \in Version |-> IF v \in old THEN {""} ELSE {}]
          /\ db = [v \in Version |-> IF v \in old THEN <<"legacy">> ELSE <<>>]
  BY <1>1 DEF Init
<1>3. <<"legacy">> \in Seq(Stamp \cup {"legacy"}) /\ <<>> \in Seq(Stamp \cup {"legacy"})
  OBVIOUS
<1>4. Len(<<"legacy">>) = 1 /\ Len(<<>>) = 0
  OBVIOUS
<1>5. rows \in [Version -> SUBSET (Stamp \cup {""})]
  BY <1>2
<1>6. db \in [Version -> Seq(Stamp \cup {"legacy"})]
  <2> DEFINE empty == <<>>
             one == <<"legacy">>
             S == Seq(Stamp \cup {"legacy"})
  <2>1. empty \in S /\ one \in S /\ db = [v \in Version |-> IF v \in old THEN one ELSE empty]
    BY <1>2, <1>3
  <2> HIDE DEF empty, one, S
  <2>2. db \in [Version -> S]
    BY <2>1
  <2>3. QED
    BY <2>2 DEF S
<1>7. TypeOK
  BY <1>1, <1>2, <1>5, <1>6, AnyBinaryIsOne DEF Init, TypeOK
<1>8. OnceEach
  <2>1. SUFFICES ASSUME NEW v \in Version PROVE Len(db[v]) = IF rows[v] = {} THEN 0 ELSE 1
    BY DEF OnceEach
  <2>2. CASE v \in old
    <3>1. db[v] = <<"legacy">> /\ rows[v] = {""}
      BY <1>2, <2>2
    <3>2. QED
      BY <1>4, <3>1
  <2>3. CASE v \notin old
    <3>1. db[v] = <<>> /\ rows[v] = {}
      BY <1>2, <2>3
    <3>2. QED
      BY <1>4, <3>1
  <2>4. QED
    BY <2>2, <2>3
<1>9. LockInvariant /\ UpMeansMigrated
  BY <1>1 DEF Init, LockInvariant, UpMeansMigrated
<1>10. QED
  BY <1>7, <1>8, <1>9 DEF IInv

\* The instances' part of the state has its type.
InstanceTypeOK ==
    /\ pc \in [Instance -> {"down", "waiting", "migrating", "up"}]
    /\ binary \in [Instance -> Binary]
    /\ todo \in [Instance -> SUBSET Migration]
    /\ ran \in [Instance -> SUBSET Migration]
    /\ wrote \in [Instance -> SUBSET Migration]

LEMMA InstancesAreTyped ==
    ASSUME IInv
    PROVE  /\ pc \in [Instance -> {"down", "waiting", "migrating", "up"}]
           /\ binary \in [Instance -> Binary]
           /\ todo \in [Instance -> SUBSET Migration]
           /\ ran \in [Instance -> SUBSET Migration]
           /\ wrote \in [Instance -> SUBSET Migration]
BY DEF IInv, TypeOK

\* Steps that leave the database alone only have to keep the instances' types.
LEMMA TypeKept ==
    ASSUME IInv, UNCHANGED <<rows, db>>, lock' \subseteq Instance, InstanceTypeOK'
    PROVE  TypeOK'
BY DEF IInv, TypeOK, InstanceTypeOK

\* Steps that leave the database alone and bring no instance up.
LEMMA DatabaseKept ==
    ASSUME IInv, UNCHANGED <<rows, db>>,
           \A j \in Instance : pc'[j] = "up" => pc[j] = "up" /\ binary'[j] = binary[j]
    PROVE  OnceEach' /\ UpMeansMigrated'
<1>1. OnceEach'
  BY DEF IInv, OnceEach
<1>2. UpMeansMigrated'
  <2>1. SUFFICES ASSUME NEW j \in Instance, pc'[j] = "up", NEW m \in Plan[binary'[j]]
                 PROVE  rows'[m.version] = {m.stamp}
    BY DEF UpMeansMigrated
  <2>2. pc[j] = "up" /\ m \in Plan[binary[j]]
    BY <2>1
  <2>3. QED
    BY <2>2 DEF IInv, UpMeansMigrated
<1>3. QED
  BY <1>1, <1>2

\* What a transaction knows does not change with other instances' variables.
LEMMA ProgressKept ==
    ASSUME NEW j \in Instance, Progress(j), rows' = rows, todo'[j] = todo[j],
           wrote'[j] = wrote[j], ran'[j] = ran[j], binary'[j] = binary[j]
    PROVE  Progress(j)'
BY DEF Progress, Agrees

\* What the end of a transaction leaves of each instance, function by function.
LEMMA OverIs ==
    ASSUME IInv, NEW i \in Instance, NEW next, Over(i, next), NEW j \in Instance
    PROVE  /\ pc'[j] = IF j = i THEN next ELSE pc[j]
           /\ binary'[j] = IF j # i \/ next = "up" THEN binary[j] ELSE AnyBinary
           /\ todo'[j] = IF j = i THEN {} ELSE todo[j]
           /\ ran'[j] = IF j = i THEN {} ELSE ran[j]
           /\ wrote'[j] = IF j = i THEN {} ELSE wrote[j]
<1>1. /\ pc \in [Instance -> {"down", "waiting", "migrating", "up"}]
      /\ binary \in [Instance -> Binary]
      /\ todo \in [Instance -> SUBSET Migration]
      /\ ran \in [Instance -> SUBSET Migration]
      /\ wrote \in [Instance -> SUBSET Migration]
  BY InstancesAreTyped
<1>2. pc'[j] = IF j = i THEN next ELSE pc[j]
  BY <1>1 DEF Over
<1>3. binary'[j] = IF j # i \/ next = "up" THEN binary[j] ELSE AnyBinary
  BY <1>1 DEF Over
<1>4. ran'[j] = IF j = i THEN {} ELSE ran[j]
  BY <1>1 DEF Over
<1>5. wrote'[j] = IF j = i THEN {} ELSE wrote[j]
  BY <1>1 DEF Over
<1>6. todo'[j] = IF j = i THEN {} ELSE todo[j]
  BY <1>1 DEF Over
<1>7. QED
  BY <1>2, <1>3, <1>4, <1>5, <1>6

LEMMA OverIsTyped ==
    ASSUME IInv, NEW i \in Instance, NEW next \in {"up", "down"}, Over(i, next)
    PROVE  InstanceTypeOK'
<1>1. pc' \in [Instance -> {"down", "waiting", "migrating", "up"}]
  BY InstancesAreTyped DEF Over
<1>2. binary' \in [Instance -> Binary]
  BY InstancesAreTyped, AnyBinaryIsOne DEF Over
<1>3. todo' \in [Instance -> SUBSET Migration]
  BY InstancesAreTyped DEF Over
<1>4. ran' \in [Instance -> SUBSET Migration] /\ wrote' \in [Instance -> SUBSET Migration]
  BY InstancesAreTyped DEF Over
<1>5. QED
  BY <1>1, <1>2, <1>3, <1>4 DEF InstanceTypeOK

\* The transaction of instance i ends without effect.
LEMMA RollbackKeeps ==
    ASSUME IInv, NEW i \in Instance, Rollback(i)
    PROVE  IInv'
<1>1. Over(i, "down") /\ lock' = lock \ {i} /\ UNCHANGED <<rows, db>>
  BY DEF Rollback
<1>2. lock \subseteq Instance
  BY DEF IInv, TypeOK
<1>3. TypeOK'
  BY <1>1, <1>2, OverIsTyped, TypeKept
<1>4. OnceEach' /\ UpMeansMigrated'
  <2>1. \A j \in Instance : pc'[j] = "up" => pc[j] = "up" /\ binary'[j] = binary[j]
    BY <1>1, OverIs
  <2>2. QED
    BY <1>1, <2>1, DatabaseKept
<1>5. LockInvariant'
  <2>1. ASSUME NEW j \in Instance, j # i
        PROVE  /\ pc'[j] = pc[j] /\ binary'[j] = binary[j] /\ todo'[j] = todo[j]
               /\ ran'[j] = ran[j] /\ wrote'[j] = wrote[j]
    BY <1>1, <2>1, OverIs
  <2>2. pc'[i] = "down" /\ ran'[i] = {} /\ wrote'[i] = {}
    BY <1>1, OverIs
  <2>3. \A j \in lock' : Progress(j)'
    <3>1. SUFFICES ASSUME NEW j \in lock' PROVE Progress(j)'
      OBVIOUS
    <3>2. j \in lock /\ j # i /\ j \in Instance
      BY <1>1, <1>2
    <3>3. Progress(j)
      BY <3>2 DEF IInv, LockInvariant
    <3>4. QED
      BY <1>1, <2>1, <3>2, <3>3, ProgressKept
  <2>4. QED
    BY <1>1, <2>1, <2>2, <2>3 DEF IInv, LockInvariant
<1>6. QED
  BY <1>3, <1>4, <1>5 DEF IInv

LEMMA LockKeeps ==
    ASSUME IInv, NEW i \in Instance, Lock(i)
    PROVE  IInv'
<1>1. /\ pc[i] = "waiting" /\ lock = {} /\ lock' = {i}
      /\ pc' = [pc EXCEPT ![i] = "migrating"]
      /\ todo' = [todo EXCEPT ![i] = Plan[binary[i]]]
      /\ UNCHANGED <<rows, db, binary, ran, wrote>>
  BY DEF Lock, Locked
<1>2. Plan[binary[i]] \in SUBSET Migration
  BY InstancesAreTyped, PlanIsTyped
<1>3. TypeOK'
  <2>1. pc' \in [Instance -> {"down", "waiting", "migrating", "up"}]
    BY <1>1, InstancesAreTyped
  <2>2. todo' \in [Instance -> SUBSET Migration]
    BY <1>1, <1>2, InstancesAreTyped
  <2>3. InstanceTypeOK'
    BY <1>1, <2>1, <2>2, InstancesAreTyped DEF InstanceTypeOK
  <2>4. QED
    BY <1>1, <2>3, TypeKept
<1>4. pc'[i] = "migrating" /\ \A j \in Instance : j # i => pc'[j] = pc[j]
  BY <1>1, InstancesAreTyped
<1>5. OnceEach' /\ UpMeansMigrated'
  <2>1. \A j \in Instance : pc'[j] = "up" => pc[j] = "up" /\ binary'[j] = binary[j]
    BY <1>1, <1>4
  <2>2. QED
    BY <1>1, <2>1, DatabaseKept
<1>6. wrote[i] = {} /\ ran[i] = {} /\ todo'[i] = Plan[binary[i]]
  BY <1>1, InstancesAreTyped DEF IInv, LockInvariant
<1>7. Progress(i)'
  BY <1>1, <1>6 DEF Progress, Agrees
<1>8. LockInvariant'
  BY <1>1, <1>4, <1>7 DEF IInv, LockInvariant
<1>9. QED
  BY <1>3, <1>5, <1>8 DEF IInv

\* The instance that migrates is the only one to hold the lock.
LEMMA HolderKnows ==
    ASSUME IInv, NEW i \in Instance, pc[i] = "migrating"
    PROVE  lock = {i} /\ Progress(i)
<1>1. i \in lock /\ \A j, k \in lock : j = k
  BY DEF IInv, LockInvariant
<1>2. Progress(i)
  BY <1>1 DEF IInv, LockInvariant
<1>3. QED
  BY <1>1, <1>2

\* A step of the loop: the holder of the lock goes on by one migration.
LEMMA PassKeeps ==
    ASSUME IInv, NEW i \in Instance, NEW m \in Plan[binary[i]], Apply(i, m) \/ Backfill(i, m)
    PROVE  IInv'
<1>1. pc[i] = "migrating" /\ m \in todo[i]
  BY DEF Apply, Backfill, AtMigration
<1>2. lock = {i} /\ Progress(i) /\ m \in Migration
  BY <1>1, HolderKnows, PlanIsTyped DEF IInv, TypeOK
<1>3. /\ UNCHANGED <<rows, db, lock, pc, binary>>
      /\ todo' = [todo EXCEPT ![i] = @ \ {m}]
      /\ wrote' = [wrote EXCEPT ![i] = @ \cup {m}]
      /\ Agrees(m)
      /\ ran' = [ran EXCEPT ![i] = IF rows[m.version] = {} THEN @ \cup {m} ELSE @]
  <2>1. CASE Apply(i, m)
    BY <2>1 DEF Apply, Pass, Agrees
  <2>2. CASE Backfill(i, m)
    <3>1. ran' = ran /\ ran = [ran EXCEPT ![i] = ran[i]] /\ rows[m.version] # {}
      BY <2>2 DEF Backfill, IInv, TypeOK
    <3>2. QED
      BY <2>2, <3>1 DEF Backfill, Pass
  <2>3. QED
    BY <2>1, <2>2
<1>4. TypeOK'
  <2>0. /\ todo \in [Instance -> SUBSET Migration]
        /\ ran \in [Instance -> SUBSET Migration]
        /\ wrote \in [Instance -> SUBSET Migration]
    BY DEF IInv, TypeOK
  <2>1. todo' \in [Instance -> SUBSET Migration]
    BY <1>3, <2>0
  <2>2. wrote' \in [Instance -> SUBSET Migration]
    BY <1>2, <1>3, <2>0
  <2>3. ran' \in [Instance -> SUBSET Migration]
    BY <1>2, <1>3, <2>0
  <2>4. QED
    BY <1>3, <2>1, <2>2, <2>3 DEF IInv, TypeOK
<1>5. OnceEach' /\ UpMeansMigrated'
  BY <1>3 DEF IInv, OnceEach, UpMeansMigrated
<1>6. Progress(i)'
  <2>1. /\ todo'[i] = todo[i] \ {m} /\ wrote'[i] = wrote[i] \cup {m}
        /\ ran'[i] = IF rows[m.version] = {} THEN ran[i] \cup {m} ELSE ran[i]
    BY <1>3, InstancesAreTyped
  <2>2. /\ m \in todo[i] /\ todo[i] \cup wrote[i] = Plan[binary[i]]
        /\ ran[i] = {n \in wrote[i] : rows[n.version] = {}}
        /\ \A n \in wrote[i] : Agrees(n)
    BY <1>1, <1>2 DEF Progress
  <2>3. todo'[i] \cup wrote'[i] = Plan[binary[i]]
    BY <2>1, <2>2
  <2>4. ran'[i] = {n \in wrote'[i] : rows[n.version] = {}}
    <3>1. CASE rows[m.version] = {}
      BY <2>1, <2>2, <3>1
    <3>2. CASE rows[m.version] # {}
      BY <2>1, <2>2, <3>2
    <3>3. QED
      BY <3>1, <3>2
  <2>5. \A n \in wrote'[i] : Agrees(n)'
    BY <1>3, <2>1, <2>2 DEF Agrees
  <2>6. QED
    BY <1>3, <2>3, <2>4, <2>5 DEF Progress
<1>7. ASSUME NEW j \in Instance, pc[j] # "migrating"
      PROVE  ran'[j] = {} /\ wrote'[j] = {}
  <2>1. j # i /\ ran[j] = {} /\ wrote[j] = {}
    BY <1>1, <1>7 DEF IInv, LockInvariant
  <2>2. ran'[j] = ran[j] /\ wrote'[j] = wrote[j]
    BY <1>3, <2>1, InstancesAreTyped
  <2>3. QED
    BY <2>1, <2>2
<1>8. LockInvariant'
  BY <1>2, <1>3, <1>6, <1>7 DEF IInv, LockInvariant
<1>9. QED
  BY <1>4, <1>5, <1>8 DEF IInv

\* What a transaction that is about to commit knows.
LEMMA AtCommit ==
    ASSUME IInv, NEW i \in Instance, Commit(i)
    PROVE  /\ lock = {i} /\ wrote[i] = Plan[binary[i]]
           /\ ran[i] = {m \in Plan[binary[i]] : rows[m.version] = {}}
           /\ \A m \in Plan[binary[i]] : Agrees(m)
           /\ \A m, n \in Plan[binary[i]] : m.version = n.version => m = n
           /\ \A m \in Plan[binary[i]] : m.version \in Version /\ m.stamp \in Stamp /\ m.stamp # ""
<1>1. binary[i] \in Binary
  BY DEF IInv, TypeOK
<1>2. lock = {i} /\ Progress(i) /\ todo[i] = {}
  BY HolderKnows DEF Commit
<1>3. wrote[i] = Plan[binary[i]]
  BY <1>2 DEF Progress
<1>4. /\ ran[i] = {m \in Plan[binary[i]] : rows[m.version] = {}}
      /\ \A m \in Plan[binary[i]] : Agrees(m)
  BY <1>2, <1>3 DEF Progress
<1>5. \A m, n \in Plan[binary[i]] : m.version = n.version => m = n
  BY <1>1, PlansAreValid DEF validateMigrations
<1>6. QED
  BY <1>1, <1>2, <1>3, <1>4, <1>5, PlanIsTyped

\* The row that a version of the plan has after the commit.
LEMMA RecordedIsPlanned ==
    ASSUME IInv, NEW i \in Instance, Commit(i), NEW m \in Plan[binary[i]]
    PROVE  rows'[m.version] = {m.stamp}
<1>1. m \in wrote[i] /\ \A n \in wrote[i] : n.version = m.version => n = m
  BY AtCommit
<1>2. {n.stamp : n \in {k \in wrote[i] : k.version = m.version}} = {m.stamp}
  BY <1>1
<1>3. rows'[m.version] = Recorded(i, m.version)
  BY AtCommit DEF Commit
<1>4. QED
  BY <1>1, <1>2, <1>3 DEF Recorded

\* A version that is not in the plan keeps its row.
LEMMA OthersAreKept ==
    ASSUME IInv, NEW i \in Instance, Commit(i),
           NEW v \in Version, \A m \in Plan[binary[i]] : m.version # v
    PROVE  rows'[v] = rows[v] /\ db'[v] = db[v]
<1>1. \A m \in wrote[i] : m.version # v
  BY AtCommit
<1>2. \A m \in ran[i] : m.version # v
  <2>1. ran[i] = {m \in Plan[binary[i]] : rows[m.version] = {}}
    BY AtCommit
  <2>2. QED
    BY <2>1
<1>3. rows'[v] = Recorded(i, v)
  BY DEF Commit
<1>4. rows'[v] = rows[v]
  BY <1>1, <1>3 DEF Recorded
<1>5. db'[v] = db[v]
  BY <1>2 DEF Commit
<1>6. QED
  BY <1>4, <1>5

\* The commit runs the SQL of a version that is missing, and of no other.
LEMMA CommitRuns ==
    ASSUME IInv, NEW i \in Instance, Commit(i), NEW m \in Plan[binary[i]]
    PROVE  db'[m.version] = IF rows[m.version] = {} THEN Append(db[m.version], m.stamp)
                                                    ELSE db[m.version]
<1>1. \A n \in ran[i] : n.version = m.version => n = m
  <2>1. ran[i] = {n \in Plan[binary[i]] : rows[n.version] = {}}
    BY AtCommit
  <2>2. \A k, n \in Plan[binary[i]] : k.version = n.version => k = n
    BY AtCommit
  <2>3. QED
    BY <2>1, <2>2
<1>2. m.version \in Version
  BY AtCommit
<1>3. CASE rows[m.version] = {}
  <2>1. m \in ran[i]
    <3>1. ran[i] = {n \in Plan[binary[i]] : rows[n.version] = {}}
      BY AtCommit
    <3>2. QED
      BY <1>3, <3>1
  <2>2. (CHOOSE n \in ran[i] : n.version = m.version) = m
    BY <1>1, <2>1
  <2>3. QED
    BY <1>2, <1>3, <2>1, <2>2 DEF Commit
<1>4. CASE rows[m.version] # {}
  <2>1. m \notin ran[i]
    <3>1. ran[i] = {n \in Plan[binary[i]] : rows[n.version] = {}}
      BY AtCommit
    <3>2. QED
      BY <1>4, <3>1
  <2>2. \A n \in ran[i] : n.version # m.version
    BY <1>1, <2>1
  <2>3. QED
    BY <1>2, <1>4, <2>2 DEF Commit
<1>5. QED
  BY <1>3, <1>4

LEMMA CommitKeeps ==
    ASSUME IInv, NEW i \in Instance, Commit(i)
    PROVE  IInv'
<1> DEFINE planned == {m.version : m \in Plan[binary[i]]}
<1>1. \A v \in Version : v \notin planned => rows'[v] = rows[v] /\ db'[v] = db[v]
  BY OthersAreKept
<1>2. \A v \in planned :
          \E m \in Plan[binary[i]] :
              /\ m.version = v /\ m.stamp \in Stamp /\ rows'[v] = {m.stamp}
              /\ db'[v] = IF rows[v] = {} THEN Append(db[v], m.stamp) ELSE db[v]
  <2>1. SUFFICES ASSUME NEW m \in Plan[binary[i]]
                 PROVE  /\ m.stamp \in Stamp /\ rows'[m.version] = {m.stamp}
                        /\ db'[m.version] = IF rows[m.version] = {}
                                            THEN Append(db[m.version], m.stamp)
                                            ELSE db[m.version]
    OBVIOUS
  <2>2. m.stamp \in Stamp
    BY AtCommit
  <2>3. QED
    BY <2>2, RecordedIsPlanned, CommitRuns
<1> HIDE DEF planned
<1>3. \A v \in Version : /\ rows'[v] \in SUBSET (Stamp \cup {""})
                         /\ \A s, t \in rows'[v] : s = t
  <2>1. \A v \in Version : rows[v] \in SUBSET (Stamp \cup {""}) /\ \A s, t \in rows[v] : s = t
    BY DEF IInv, TypeOK
  <2>2. SUFFICES ASSUME NEW v \in Version
                 PROVE  rows'[v] \in SUBSET (Stamp \cup {""}) /\ \A s, t \in rows'[v] : s = t
    OBVIOUS
  <2>3. CASE v \in planned
    <3>1. PICK m \in Plan[binary[i]] : m.stamp \in Stamp /\ rows'[v] = {m.stamp}
      BY <1>2, <2>3
    <3>2. QED
      BY <3>1
  <2>4. CASE v \notin planned
    BY <1>1, <2>1, <2>4
  <2>5. QED
    BY <2>3, <2>4
<1>4. \A v \in Version : db'[v] \in Seq(Stamp \cup {"legacy"})
  <2>1. \A v \in Version : db[v] \in Seq(Stamp \cup {"legacy"})
    BY DEF IInv, TypeOK
  <2>2. SUFFICES ASSUME NEW v \in Version PROVE db'[v] \in Seq(Stamp \cup {"legacy"})
    OBVIOUS
  <2>3. CASE v \in planned
    <3>1. PICK m \in Plan[binary[i]] :
              /\ m.stamp \in Stamp
              /\ db'[v] = IF rows[v] = {} THEN Append(db[v], m.stamp) ELSE db[v]
      BY <1>2, <2>3
    <3>2. Append(db[v], m.stamp) \in Seq(Stamp \cup {"legacy"})
      BY <2>1, <3>1
    <3>3. QED
      BY <2>1, <3>1, <3>2
  <2>4. CASE v \notin planned
    BY <1>1, <2>1, <2>4
  <2>5. QED
    BY <2>3, <2>4
<1>5. TypeOK'
  <2>1. rows' \in [Version -> SUBSET (Stamp \cup {""})]
    BY <1>3 DEF Commit
  <2>2. db' \in [Version -> Seq(Stamp \cup {"legacy"})]
    <3>1. db' = [v \in Version |-> db'[v]]
      BY DEF Commit
    <3>2. QED
      BY <1>4, <3>1
  <2>3. PICK next \in {"up", "down"} : Over(i, next)
    BY DEF Commit
  <2>4. /\ lock' \subseteq Instance
        /\ pc' \in [Instance -> {"down", "waiting", "migrating", "up"}]
        /\ binary' \in [Instance -> Binary]
        /\ todo' \in [Instance -> SUBSET Migration]
        /\ ran' \in [Instance -> SUBSET Migration]
        /\ wrote' \in [Instance -> SUBSET Migration]
    <3>1. lock' \subseteq Instance
      BY DEF Commit, IInv, TypeOK
    <3>2. InstanceTypeOK'
      BY <2>3, OverIsTyped
    <3>3. QED
      BY <3>1, <3>2 DEF InstanceTypeOK
  <2>5. QED
    BY <1>3, <2>1, <2>2, <2>4 DEF TypeOK
<1>6. OnceEach'
  <2>1. SUFFICES ASSUME NEW v \in Version
                 PROVE  Len(db'[v]) = IF rows'[v] = {} THEN 0 ELSE 1
    BY DEF OnceEach
  <2>2. Len(db[v]) = (IF rows[v] = {} THEN 0 ELSE 1) /\ db[v] \in Seq(Stamp \cup {"legacy"})
    BY DEF IInv, TypeOK, OnceEach
  <2>3. CASE v \notin planned
    BY <1>1, <2>2, <2>3
  <2>4. CASE v \in planned
    <3>1. PICK m \in Plan[binary[i]] :
              /\ m.version = v /\ m.stamp \in Stamp /\ rows'[v] = {m.stamp}
              /\ db'[v] = IF rows[v] = {} THEN Append(db[v], m.stamp) ELSE db[v]
      BY <1>2, <2>4
    <3>2. rows'[v] # {}
      BY <3>1
    <3>3. Len(db'[v]) = 1
      <4>1. CASE rows[v] = {}
        BY <2>2, <3>1, <4>1
      <4>2. CASE rows[v] # {}
        BY <2>2, <3>1, <4>2
      <4>3. QED
        BY <4>1, <4>2
    <3>4. QED
      BY <3>2, <3>3
  <2>5. QED
    BY <2>3, <2>4
<1>7. UpMeansMigrated'
  <2>0. PICK next \in {"up", "down"} : Over(i, next)
    BY DEF Commit
  <2>1. SUFFICES ASSUME NEW j \in Instance, pc'[j] = "up", NEW m \in Plan[binary'[j]]
                 PROVE  rows'[m.version] = {m.stamp}
    BY DEF UpMeansMigrated
  <2>2. CASE j = i
    <3>1. binary'[i] = binary[i]
      <4>1. next = "up"
        BY <2>0, <2>1, <2>2, OverIs
      <4>2. QED
        BY <2>0, <4>1, OverIs
    <3>2. QED
      BY <2>1, <2>2, <3>1, RecordedIsPlanned
  <2>3. CASE j # i
    <3>1. binary'[j] = binary[j] /\ pc[j] = "up"
      BY <2>0, <2>1, <2>3, OverIs
    <3>2. rows[m.version] = {m.stamp}
      BY <2>1, <3>1 DEF IInv, UpMeansMigrated
    <3>3. m.version \in Version /\ m.stamp # ""
      BY <3>1, PlanIsTyped DEF IInv, TypeOK
    <3>4. CASE m.version \in planned
      <4>1. PICK n \in Plan[binary[i]] : n.version = m.version
        BY <3>4 DEF planned
      <4>2. rows'[m.version] = {n.stamp}
        BY <4>1, RecordedIsPlanned
      <4>3. Agrees(n)
        BY <4>1, AtCommit
      <4>4. m.stamp \in {"", n.stamp}
        BY <3>2, <4>1, <4>3 DEF Agrees
      <4>5. QED
        BY <3>3, <4>2, <4>4
    <3>5. CASE m.version \notin planned
      BY <1>1, <3>2, <3>3, <3>5
    <3>6. QED
      BY <3>4, <3>5
  <2>4. QED
    BY <2>2, <2>3
<1>8. LockInvariant'
  <2>1. lock' = {}
    BY AtCommit DEF Commit
  <2>2. PICK next \in {"up", "down"} : Over(i, next)
    BY DEF Commit
  <2>3. ASSUME NEW j \in Instance
        PROVE  pc'[j] # "migrating" /\ ran'[j] = {} /\ wrote'[j] = {}
    <3>1. CASE j = i
      BY <2>2, <3>1, OverIs
    <3>2. CASE j # i
      <4>1. pc'[j] = pc[j] /\ ran'[j] = ran[j] /\ wrote'[j] = wrote[j]
        BY <2>2, <3>2, OverIs
      <4>2. pc[j] # "migrating"
        BY <3>2, AtCommit DEF IInv, LockInvariant
      <4>3. QED
        BY <4>1, <4>2 DEF IInv, LockInvariant
    <3>3. QED
      BY <3>1, <3>2
  <2>4. QED
    BY <2>1, <2>3 DEF LockInvariant
<1>9. QED
  BY <1>5, <1>6, <1>7, <1>8 DEF IInv

\* A step that is neither in a transaction nor takes the lock.
LEMMA StartKeeps ==
    ASSUME IInv, NEW i \in Instance, NEW b \in Binary, Start(i, b)
    PROVE  IInv'
<1>1. /\ pc[i] = "down" /\ pc' = [pc EXCEPT ![i] = "waiting"]
      /\ binary' = [binary EXCEPT ![i] = b]
      /\ UNCHANGED <<rows, db, lock, todo, ran, wrote>>
  BY DEF Start
<1>2. TypeOK'
  <2>1. pc' \in [Instance -> {"down", "waiting", "migrating", "up"}]
    BY <1>1, InstancesAreTyped
  <2>2. binary' \in [Instance -> Binary]
    BY <1>1, InstancesAreTyped
  <2>3. InstanceTypeOK'
    BY <1>1, <2>1, <2>2, InstancesAreTyped DEF InstanceTypeOK
  <2>4. lock' \subseteq Instance
    BY <1>1 DEF IInv, TypeOK
  <2>5. QED
    BY <1>1, <2>3, <2>4, TypeKept
<1>3. pc'[i] = "waiting" /\ \A j \in Instance : j # i => pc'[j] = pc[j]
  BY <1>1, InstancesAreTyped
<1>4. \A j \in Instance : j # i => binary'[j] = binary[j]
  BY <1>1, InstancesAreTyped
<1>5. OnceEach' /\ UpMeansMigrated'
  <2>1. \A j \in Instance : pc'[j] = "up" => pc[j] = "up" /\ binary'[j] = binary[j]
    BY <1>3, <1>4
  <2>2. QED
    BY <1>1, <2>1, DatabaseKept
<1>6. \A j \in lock : Progress(j)'
  <2>1. SUFFICES ASSUME NEW j \in lock PROVE Progress(j)'
    OBVIOUS
  <2>2. j \in Instance /\ j # i /\ Progress(j)
    BY <1>1 DEF IInv, TypeOK, LockInvariant
  <2>3. QED
    BY <1>1, <1>4, <2>2, ProgressKept
<1>7. LockInvariant'
  BY <1>1, <1>3, <1>6 DEF IInv, LockInvariant
<1>8. QED
  BY <1>2, <1>5, <1>7 DEF IInv

LEMMA ExitKeeps ==
    ASSUME IInv, NEW i \in Instance, Exit(i)
    PROVE  IInv'
<1>1. pc[i] = "up" /\ Over(i, "down") /\ UNCHANGED <<rows, db, lock>>
  BY DEF Exit
<1>2. lock \subseteq Instance /\ i \notin lock
  BY <1>1 DEF IInv, TypeOK, LockInvariant
<1>3. Rollback(i)
  BY <1>1, <1>2 DEF Rollback
<1>4. QED
  BY <1>3, RollbackKeeps

\* Every step keeps the invariant.
LEMMA NextKeeps == IInv /\ [Next]_vars => IInv'
<1>1. SUFFICES ASSUME IInv, [Next]_vars PROVE IInv'
  OBVIOUS
<1>2. CASE UNCHANGED vars
  <2>1. UNCHANGED <<rows, db, lock, pc, binary, todo, ran, wrote>>
    BY <1>2 DEF vars, instance
  <2>2. TypeOK'
    BY <1>1, <2>1 DEF IInv, TypeOK
  <2>3. LockInvariant'
    BY <1>1, <2>1 DEF IInv, LockInvariant, Progress, Agrees
  <2>4. OnceEach' /\ UpMeansMigrated'
    BY <1>1, <2>1 DEF IInv, OnceEach, UpMeansMigrated
  <2>5. QED
    BY <2>2, <2>3, <2>4 DEF IInv
<1>3. CASE Next
  <2>1. PICK i \in Instance : \/ \E b \in Binary : Start(i, b)
                              \/ Lock(i) \/ MigrationStep(i) \/ Fail(i) \/ Exit(i)
    BY <1>3 DEF Next
  <2>2. CASE \E b \in Binary : Start(i, b)
    BY <1>1, <2>2, StartKeeps
  <2>3. CASE Lock(i)
    BY <1>1, <2>3, LockKeeps
  <2>4. CASE MigrationStep(i)
    <3>1. CASE \E m \in Plan[binary[i]] : Apply(i, m) \/ Backfill(i, m)
      BY <1>1, <3>1, PassKeeps
    <3>2. CASE \E m \in Plan[binary[i]] : Reject(i, m)
      BY <1>1, <3>2, RollbackKeeps DEF Reject
    <3>3. CASE Commit(i)
      BY <1>1, <3>3, CommitKeeps
    <3>4. QED
      BY <2>4, <3>1, <3>2, <3>3 DEF MigrationStep
  <2>5. CASE Fail(i)
    BY <1>1, <2>5, RollbackKeeps DEF Fail
  <2>6. CASE Exit(i)
    BY <1>1, <2>6, ExitKeeps
  <2>7. QED
    BY <2>1, <2>2, <2>3, <2>4, <2>5, <2>6
<1>4. QED
  BY <1>1, <1>2, <1>3

LEMMA Invariance == Spec => []IInv
<1>1. QED
  BY InitIInv, NextKeeps, PTL DEF Spec

\* Every variable keeps its type.
THEOREM TypeCorrect == Spec => []TypeOK
<1>1. IInv => TypeOK
  BY DEF IInv
<1>2. QED
  BY <1>1, Invariance, PTL

\* However instances start, fail and restart, a version's SQL is run at most
\* once on a database, and exactly once if the version is recorded.
THEOREM MigratedOnce == Spec => []OnceEach
<1>1. IInv => OnceEach
  BY DEF IInv
<1>2. QED
  BY <1>1, Invariance, PTL

\* No insert into the version table meets a row that another instance wrote.
THEOREM InsertsDoNotConflict == Spec => []NoConflict
<1>1. IInv => NoConflict
  <2>1. SUFFICES ASSUME IInv, NEW i \in Instance, NEW m \in ran[i] PROVE rows[m.version] = {}
    BY DEF NoConflict
  <2>2. pc[i] = "migrating"
    BY <2>1 DEF IInv, LockInvariant
  <2>3. QED
    BY <2>1, <2>2, HolderKnows DEF Progress
<1>2. QED
  BY <1>1, Invariance, PTL

\* An instance that is up runs on the schema of its own binary, whatever the
\* others have migrated before it and since.
THEOREM UpIsMigrated == Spec => []UpMeansMigrated
<1>1. IInv => UpMeansMigrated
  BY DEF IInv
<1>2. QED
  BY <1>1, Invariance, PTL

\* The commit of a transaction is an atomic migration to its binary's plan.
LEMMA CommitMigrates ==
    ASSUME IInv, NEW i \in Instance, Commit(i)
    PROVE  History!Migrate(binary[i])
<1> DEFINE b == binary[i]
<1>1. wrote[i] = Plan[b] /\ ran[i] = {m \in Plan[b] : rows[m.version] = {}}
  BY AtCommit
<1>2. History!Agrees(b)
  BY AtCommit DEF History!Agrees, Agrees
<1>3. rows' = [v \in Version |-> IF \E m \in Plan[b] : m.version = v
                                 THEN {m.stamp : m \in {n \in Plan[b] : n.version = v}}
                                 ELSE rows[v]]
  BY <1>1 DEF Commit, Recorded
<1>4. ran[i] = History!Missing(b)
  BY <1>1 DEF History!Missing
<1>5. db' = [v \in Version |->
                IF \E m \in History!Missing(b) : m.version = v
                THEN Append(db[v], (CHOOSE m \in History!Missing(b) : m.version = v).stamp)
                ELSE db[v]]
  BY <1>4 DEF Commit
<1>6. QED
  BY <1>2, <1>3, <1>5 DEF History!Migrate

\* All the instances, their locks, transactions and failures together do to
\* the database what one instance that migrates in one step would.
THEOREM HistoryImplemented == Spec => ImplementsHistory
<1>1. Init => History!Init
  BY DEF Init, History!Init
<1>2. ASSUME IInv, [Next]_vars
      PROVE  [History!Next]_<<rows, db>>
  <2>1. CASE UNCHANGED vars
    BY <2>1 DEF vars
  <2>2. CASE Next
    <3>1. PICK i \in Instance : \/ \E b \in Binary : Start(i, b)
                                \/ Lock(i) \/ MigrationStep(i) \/ Fail(i) \/ Exit(i)
      BY <2>2 DEF Next
    <3>2. CASE Commit(i)
      <4>1. binary[i] \in Binary
        BY <1>2 DEF IInv, TypeOK
      <4>2. QED
        BY <1>2, <3>2, <4>1, CommitMigrates DEF History!Next
    <3>3. CASE ~Commit(i)
      BY <3>1, <3>3 DEF MigrationStep, Start, Lock, Locked, Apply, Backfill, Pass, Reject,
                        Fail, Rollback, Exit
    <3>4. QED
      BY <3>2, <3>3
  <2>3. QED
    BY <1>2, <2>1, <2>2
<1>3. QED
  BY <1>1, <1>2, Invariance, PTL DEF Spec, ImplementsHistory, History!Spec
=============================================================================
