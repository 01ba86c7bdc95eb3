----------------------------- MODULE MCRcuTable -----------------------------
(* Instances of RcuTable for TLC: threads and addresses are interchangeable. *)
EXTENDS RcuTable, TLC

Symmetry ==
    Permutations(Readers) \cup Permutations(Updaters) \cup Permutations(Addrs)
=============================================================================
