----------------------------- MODULE MCWptReplay ----------------------------
(***************************************************************************)
(* Three proofs: two of them carry the same subject and jti and different  *)
(* expiries.                                                               *)
(***************************************************************************)
EXTENDS WptReplay, TLC

MCWpt == {"w1", "w2", "w3"}
MCKey == {"k1", "k2"}
MCKeyOf == [w1 |-> "k1", w2 |-> "k1", w3 |-> "k2"]
MCExp == [w1 |-> 1, w2 |-> 3, w3 |-> 2]
HandlerSymmetry == Permutations(Handler)
=============================================================================
