------------------------------- MODULE MCWeek5 -------------------------------
(* The two programs of week 5 for TLC; a behaviour is one of theirs. *)
EXTENDS WorkPool, Analysis

\* A task that never started.
Never(k) == [ready |-> 1, start |-> 0, end |-> 0, shard |-> k % 2]

\* A record with its three stamps in order, or one that never started.
Record(times, k) ==
    {r \in [ready : times, start : times, end : times, shard : {k % 2}] :
        r.ready <= r.start /\ r.start <= r.end}
    \cup {Never(k)}


MCRuns ==
    {<<a, b>> : a \in Record(1 .. 5, 0), b \in Record(1 .. 5, 1)}
    \cup {<<a, b, c>> : a \in Record(1 .. 4, 0), b \in Record(1 .. 4, 1),
                        c \in Record(1 .. 4, 2)}

VARIABLE program

week5Vars == <<vars, analysisVars, program>>

Week5Init ==
    /\ Init
    /\ AnalysisInit
    /\ \/ program = "wl_run" /\ run = <<Never(0), Never(1)>> /\ workers = 1
       \/ program = "summarize_run" /\ path = CHOOSE p \in Pathologies : TRUE

RunsPool(A) == program = "wl_run" /\ A /\ UNCHANGED <<analysisVars, program>>

Week5Next ==
    \/ RunsPool(Next)
    \/ program = "summarize_run" /\ AnalysisNext /\ UNCHANGED <<vars, program>>

\* The pool's threads run as its FairSpec says.
Week5Spec ==
    /\ Week5Init /\ [][Week5Next]_week5Vars
    /\ WF_week5Vars(RunsPool(DispatcherStep))
    /\ \A w \in Workers : WF_week5Vars(RunsPool(WorkerStep(w)))

\* wl_run returns (workload.c:404-423), whatever the pathology.
PoolReturns == program = "wl_run" => RunReturns
=============================================================================
