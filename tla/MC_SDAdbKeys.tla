---------------------------- MODULE MC_SDAdbKeys ----------------------------
(* Model-checking instance of SDAdbKeys: two sessions, two key hashes, one *)
(* file with a row and one without, two attempts of AddKeyHash.            *)
EXTENDS SDAdbKeys, TLC

(* Sessions are interchangeable: no definition names one of them. *)
MCSymmetry == Permutations(Sessions)

MCRetryTimes == 2

=============================================================================
