---------------------------- MODULE MCTableBench ----------------------------
(* The benchmark for TLC: main's order of rounds, RCU table first. *)
EXTENDS TableBench

\* The warm-up and a trial of the RCU table, then the rwlock table.
MCRounds == <<TRUE, TRUE, FALSE>>

OneRound == <<TRUE>>
=============================================================================
