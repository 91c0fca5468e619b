---------------------------- MODULE SchemaHistory ---------------------------
(***************************************************************************)
(* What migrations promise of a database, without instances, locks or      *)
(* transactions: the schema moves in atomic steps, each of which brings it *)
(* up to what one binary plans, runs nothing again, and is taken only if   *)
(* the binary agrees with everything recorded.                             *)
(***************************************************************************)
EXTENDS Sequences

CONSTANTS
    Version,
    Binary,
    Plan         \* Plan[b]: the migrations of binary b

VARIABLES
    rows,        \* rows[v]: the stamp recorded for version v, if it is applied
    db           \* db[v]: the stamps of the SQL that was run for v, in order

Agrees(b) == \A m \in Plan[b] : rows[m.version] \subseteq {"", m.stamp}

Missing(b) == {m \in Plan[b] : rows[m.version] = {}}

Migrate(b) ==
    /\ Agrees(b)
    /\ rows' = [v \in Version |-> IF \E m \in Plan[b] : m.version = v
                                  THEN {m.stamp : m \in {n \in Plan[b] : n.version = v}}
                                  ELSE rows[v]]
    /\ db' = [v \in Version |-> IF \E m \in Missing(b) : m.version = v
                                THEN Append(db[v], (CHOOSE m \in Missing(b) : m.version = v).stamp)
                                ELSE db[v]]

\* A new database, or an older one that recorded version numbers only.
Init ==
    \E old \in SUBSET Version :
        /\ rows = [v \in Version |-> IF v \in old THEN {""} ELSE {}]
        /\ db = [v \in Version |-> IF v \in old THEN <<"legacy">> ELSE <<>>]

Next == \E b \in Binary : Migrate(b)

Spec == Init /\ [][Next]_<<rows, db>>
=============================================================================
