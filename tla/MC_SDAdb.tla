------------------------------ MODULE MC_SDAdb ------------------------------
(* Model-checking instance of SDAdb: two sessions, two files, two          *)
(* accessions, one dataset, two attempts per retrying call.                *)
EXTENDS SDAdb, TLC

(* Sessions are interchangeable: no definition names one of them. *)
MCSymmetry == Permutations(Sessions)

MCEvents == {"uploaded"}
MCRetryTimes == 2
MCMaxLog == 2

=============================================================================
