------------------------------- MODULE MCRcu -------------------------------
(* Instances of Rcu for TLC: reader threads are interchangeable, and so are *)
(* updaters.                                                                *)
EXTENDS Rcu, TLC

Symmetry == Permutations(Readers) \cup Permutations(Updaters)
=============================================================================
