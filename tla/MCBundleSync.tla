---------------------------- MODULE MCBundleSync ----------------------------
(***************************************************************************)
(* An agent and a policy, with two contents each.                         *)
(***************************************************************************)
EXTENDS BundleSync

MCAgent == {"a"}
MCPolicy == {"p"}
MCVersion == {"v1", "v2"}
=============================================================================
