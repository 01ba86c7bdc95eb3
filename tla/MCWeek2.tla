------------------------------- MODULE MCWeek2 -------------------------------
(* The three programs of week 2 for TLC; a behaviour is one of theirs. *)
EXTENDS CopyGuard, Lifecycle, ProcStat, TLC

VARIABLE program

vars == <<guardVars, lifeVars, statVars, program>>

Init ==
    /\ program \in {"copyguard", "lifecycle", "procstat"}
    /\ GuardInit
    /\ program # "copyguard" => armed
    /\ LifeInit
    /\ StatInit

Next ==
    /\ UNCHANGED program
    /\ \/ program = "copyguard" /\ GuardNext /\ UNCHANGED <<lifeVars, statVars>>
       \/ program = "lifecycle" /\ LifeNext /\ UNCHANGED <<guardVars, statVars>>
       \/ program = "procstat" /\ StatNext /\ UNCHANGED <<guardVars, lifeVars>>

Spec == Init /\ [][Next]_vars

Symmetry == Permutations(Readers) \cup Permutations(Tasks) \cup Permutations(Letters)
=============================================================================
