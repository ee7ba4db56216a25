---------------------------- MODULE MCLocalCache ----------------------------
(* LocalCache on small instances.  Tokens are interchangeable in the safety  *)
(* runs: no definition tells them apart.                                     *)
EXTENDS LocalCache, TLC

TokenSymmetry == Permutations(Tokens)
=============================================================================
