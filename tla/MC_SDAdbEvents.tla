--------------------------- MODULE MC_SDAdbEvents ---------------------------
(* Instance of SDAdbEvents for TLC.                                        *)
EXTENDS SDAdbEvents, TLC

MCRetryTimes == 2
MCMaxClock == 3
MCSymmetry == Permutations(Sessions)
=============================================================================
