----------------------------- MODULE MCKeyCache -----------------------------
(***************************************************************************)
(* Two keys, one of them for JWT-SVIDs, and the ways to find them that     *)
(* differ.                                                                 *)
(***************************************************************************)
EXTENDS KeyCache, TLC

MCKey == {"k1", "k2"}

MCSvid == {"k1"}

By(reader, explicit, standard, named) ==
    [reader |-> reader, explicit |-> explicit, standard |-> standard, named |-> named]

MCSetup ==
    {By("validator", FALSE, FALSE, TRUE),
     By("spiffe", TRUE, FALSE, TRUE),
     By("middleware", FALSE, FALSE, TRUE),
     By("oidc", FALSE, TRUE, TRUE),
     By("oidc", TRUE, FALSE, FALSE)}

\* Requests differ in nothing but what they are doing.
Symmetry == Permutations(Request)

MCKeyID == [k \in MCKey |-> k]
=============================================================================
