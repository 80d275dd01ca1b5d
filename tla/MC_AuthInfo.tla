---------------------------- MODULE MC_AuthInfo ----------------------------
(* Instance of AuthInfo for TLC: three concurrent requests, one free       *)
(* descriptor and two 2-byte keys.                                         *)
EXTENDS AuthInfo, TLC

MCKeys == {<<0, 171>>, <<255, 16>>}
MCMaxOpen == 1
MCSymmetry == Permutations(Requests)
=============================================================================
