---------------------------- MODULE MCMigrations ----------------------------
(***************************************************************************)
(* Three releases, each one migration ahead of the last, and one that      *)
(* rewrote the first migration.                                            *)
(***************************************************************************)
EXTENDS Migrations

MCVersion == {1, 2, 3}
MCStamp == {"base", "rewritten", "indexes", "more"}
MCBinary == {"old", "current", "newer", "edited"}

Base == [version |-> 1, stamp |-> "base"]
Rewritten == [version |-> 1, stamp |-> "rewritten"]
Indexes == [version |-> 2, stamp |-> "indexes"]
More == [version |-> 3, stamp |-> "more"]

MCPlan ==
    [old |-> {Base}, current |-> {Base, Indexes}, newer |-> {Base, Indexes, More},
     edited |-> {Rewritten, Indexes}]
=============================================================================
