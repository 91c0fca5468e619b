------------------------------ MODULE Migrations ----------------------------
(***************************************************************************)
(* The start of server instances on one Postgres database: every instance  *)
(* begins a transaction, takes an advisory lock, goes through the          *)
(* migrations of its binary, and commits (postgres.ensureSchema).          *)
(*                                                                         *)
(* A stamp is a migration's name and checksum, "" where an older install   *)
(* recorded neither.  What a transaction wrote is in ran and wrote until   *)
(* it commits.  Instances of different binaries may run at once.           *)
(***************************************************************************)
EXTENDS Integers, Sequences

CONSTANTS
    Instance, Version, Stamp,
    Binary,
    Plan         \* Plan[b]: the migrations of binary b, a set of [version, stamp]

Migration == [version : Version, stamp : Stamp]

ASSUME VersionsAreOrdered == Version \subseteq Int

ASSUME StampsAreSet == "" \notin Stamp

ASSUME BinariesExist == Binary # {}

\* A binary that fails this does not start; the order of the list is the versions'.
validateMigrations(plan) ==
    /\ plan # {}
    /\ \A m \in plan : m.version > 0
    /\ \A m, n \in plan : m.version = n.version => m = n

ASSUME PlansAreValid ==
    /\ Plan \in [Binary -> SUBSET Migration]
    /\ \A b \in Binary : validateMigrations(Plan[b])

VARIABLES
    rows,        \* oap_schema_version: rows[v] holds at most one stamp
    db,          \* db[v]: the stamps of the SQL that was run for v, in order
    lock,        \* the instance whose transaction holds the advisory lock
    pc,
    binary,      \* the binary an instance runs
    todo,        \* the migrations its loop has not come to
    ran,         \* the migrations whose SQL its transaction has run
    wrote        \* the migrations whose row its transaction has written

instance == <<pc, binary, todo, ran, wrote>>
vars == <<rows, db, lock, instance>>

AnyBinary == CHOOSE b \in Binary : TRUE

\* New on an instance that was down.
Start(i, b) ==
    /\ pc[i] = "down"
    /\ pc' = [pc EXCEPT ![i] = "waiting"]
    /\ binary' = [binary EXCEPT ![i] = b]
    /\ UNCHANGED <<rows, db, lock, todo, ran, wrote>>

Locked(i) ==
    /\ lock' = lock \cup {i}
    /\ pc' = [pc EXCEPT ![i] = "migrating"]
    /\ todo' = [todo EXCEPT ![i] = Plan[binary[i]]]
    /\ UNCHANGED <<rows, db, binary, ran, wrote>>

\* Fault: the lock is not taken.
MutLockShared(i) == pc[i] = "waiting" /\ Locked(i)

\* pg_advisory_xact_lock, then the bootstrap of the version table.
Lock(i) == pc[i] = "waiting" /\ lock = {} /\ Locked(i)

\* The loop's next migration.
AtMigration(i, m) ==
    /\ pc[i] = "migrating"
    /\ m \in todo[i]
    /\ \A n \in todo[i] : m.version <= n.version

Pass(i, m) ==
    /\ todo' = [todo EXCEPT ![i] = @ \ {m}]
    /\ wrote' = [wrote EXCEPT ![i] = @ \cup {m}]
    /\ UNCHANGED <<rows, db, lock, pc, binary>>

\* Run the SQL and record the version.
Apply(i, m) ==
    /\ AtMigration(i, m)
    /\ rows[m.version] = {}
    /\ ran' = [ran EXCEPT ![i] = @ \cup {m}]
    /\ Pass(i, m)

\* Fault: the stamp that is recorded is not compared.
MutAgreesAlways(m) == TRUE

\* validateAppliedMigration: a row without a stamp agrees with any.
Agrees(m) == rows[m.version] \subseteq {"", m.stamp}

\* Applied earlier: the row gets the stamp if it has none.
Backfill(i, m) ==
    /\ AtMigration(i, m)
    /\ rows[m.version] # {}
    /\ Agrees(m)
    /\ Pass(i, m)
    /\ UNCHANGED ran

\* The instance's part of the state after its transaction.
Over(i, next) ==
    /\ pc' = [pc EXCEPT ![i] = next]
    /\ binary' = [binary EXCEPT ![i] = IF next = "up" THEN binary[i] ELSE AnyBinary]
    /\ todo' = [todo EXCEPT ![i] = {}]
    /\ ran' = [ran EXCEPT ![i] = {}]
    /\ wrote' = [wrote EXCEPT ![i] = {}]

\* Fault: the lock belongs to the connection, not to the transaction.
MutRollbackKeepsLock(i) == Over(i, "down") /\ UNCHANGED <<rows, db, lock>>

\* The lock ends with the transaction.
Rollback(i) == Over(i, "down") /\ lock' = lock \ {i} /\ UNCHANGED <<rows, db>>

Reject(i, m) ==
    /\ AtMigration(i, m)
    /\ ~Agrees(m)
    /\ Rollback(i)

\* A statement fails, or the instance or its connection dies before the commit.
Fail(i) == pc[i] \in {"waiting", "migrating"} /\ Rollback(i)

\* Fault: versions are not recorded.
MutRecordedNever(i, v) == rows[v]

\* Fault: a row is added for a version that has one.
MutRecordedAgain(i, v) == rows[v] \cup {m.stamp : m \in {n \in wrote[i] : n.version = v}}

\* The row of version v as i's transaction leaves it.
Recorded(i, v) ==
    IF \E m \in wrote[i] : m.version = v
    THEN {m.stamp : m \in {n \in wrote[i] : n.version = v}} ELSE rows[v]

\* The commit takes effect; the instance may not live to learn of it.
Commit(i) ==
    /\ pc[i] = "migrating"
    /\ todo[i] = {}
    /\ rows' = [v \in Version |-> Recorded(i, v)]
    /\ db' = [v \in Version |-> IF \E m \in ran[i] : m.version = v
                                THEN Append(db[v], (CHOOSE m \in ran[i] : m.version = v).stamp)
                                ELSE db[v]]
    /\ lock' = lock \ {i}
    /\ \E next \in {"up", "down"} : Over(i, next)

\* A running instance stops.
Exit(i) ==
    /\ pc[i] = "up"
    /\ Over(i, "down")
    /\ UNCHANGED <<rows, db, lock>>

\* A new database, or an older install's, which numbered its versions only.
Init ==
    /\ \E old \in SUBSET Version :
          /\ rows = [v \in Version |-> IF v \in old THEN {""} ELSE {}]
          /\ db = [v \in Version |-> IF v \in old THEN <<"legacy">> ELSE <<>>]
    /\ lock = {}
    /\ pc = [i \in Instance |-> "down"]
    /\ binary = [i \in Instance |-> AnyBinary]
    /\ todo = [i \in Instance |-> {}]
    /\ ran = [i \in Instance |-> {}]
    /\ wrote = [i \in Instance |-> {}]

MigrationStep(i) ==
    \/ \E m \in Plan[binary[i]] : Apply(i, m) \/ Backfill(i, m) \/ Reject(i, m)
    \/ Commit(i)

Next ==
    \E i \in Instance :
        \/ \E b \in Binary : Start(i, b)
        \/ Lock(i)
        \/ MigrationStep(i)
        \/ Fail(i)
        \/ Exit(i)

Spec == Init /\ [][Next]_vars

\* An instance goes on, and Postgres grants the lock to those that queue for it.
FairSpec ==
    /\ Spec
    /\ \A i \in Instance : SF_vars(Lock(i)) /\ WF_vars(MigrationStep(i))

-----------------------------------------------------------------------------
(* Properties. *)

\* Every variable has its type; a row holds at most one stamp.
TypeOK ==
    /\ rows \in [Version -> SUBSET (Stamp \cup {""})]
    /\ db \in [Version -> Seq(Stamp \cup {"legacy"})]
    /\ lock \subseteq Instance
    /\ pc \in [Instance -> {"down", "waiting", "migrating", "up"}]
    /\ binary \in [Instance -> Binary]
    /\ todo \in [Instance -> SUBSET Migration]
    /\ ran \in [Instance -> SUBSET Migration]
    /\ wrote \in [Instance -> SUBSET Migration]
    /\ \A v \in Version : \A s, t \in rows[v] : s = t

\* No version's SQL is ever run twice on a database, by whatever instances
\* start, fail and start again, and no version is recorded without having run.
OnceEach == \A v \in Version : Len(db[v]) = IF rows[v] = {} THEN 0 ELSE 1

\* The insert of an instance never meets the row of another: what its
\* transaction found missing is still missing when it commits.  This is what
\* the lock is for; without it an instance would fail to start.
NoConflict == \A i \in Instance : \A m \in ran[i] : rows[m.version] = {}

\* An instance that serves runs on a schema with all its migrations, under
\* the stamps of its binary, however many others migrate meanwhile.
UpMeansMigrated ==
    \A i \in Instance :
        pc[i] = "up" => \A m \in Plan[binary[i]] : rows[m.version] = {m.stamp}

\* What makes these inductive: what instance i's transaction knows in the
\* middle of its loop ...
Progress(i) ==
    /\ todo[i] \cup wrote[i] = Plan[binary[i]]
    /\ ran[i] = {m \in wrote[i] : rows[m.version] = {}}
    /\ \A m \in wrote[i] : Agrees(m)

\* ... and that one instance migrates at a time, the holder of the lock, while
\* the others have written nothing.
LockInvariant ==
    /\ \A i, j \in lock : i = j
    /\ \A i \in Instance : pc[i] = "migrating" <=> i \in lock
    /\ \A i \in Instance : pc[i] # "migrating" => ran[i] = {} /\ wrote[i] = {}
    /\ \A i \in lock : Progress(i)

\* Locks, transactions, crashes and lost commits together are one atomic step.
History == INSTANCE SchemaHistory

ImplementsHistory == History!Spec

\* Every start comes to an end: no instance waits for ever for the lock.
StartsEnd == \A i \in Instance : pc[i] = "waiting" ~> pc[i] \in {"up", "down"}
=============================================================================
