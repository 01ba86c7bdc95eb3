--------------------------- MODULE VersionedTable ---------------------------
(***************************************************************************)
(* What table.h promises of either table: a lookup answers with a whole    *)
(* version, the one that was current at some moment of the call, and an    *)
(* update makes the next generation current, all at once.                  *)
(***************************************************************************)
EXTENDS Integers

CONSTANTS
    Readers,    \* threads that look keys up
    NoAnswer    \* not a generation

VARIABLES
    version,    \* the current generation
    answer      \* for each lookup past its linearization point, its result

tableVars == <<version, answer>>

Init ==
    /\ version = 0
    /\ answer = [r \in Readers |-> NoAnswer]

\* The generation a lookup will answer with is the current one...
Lookup(r) ==
    /\ answer[r] = NoAnswer
    /\ answer' = [answer EXCEPT ![r] = version]
    /\ UNCHANGED version

\* ... and whatever happens until it returns, that is its answer.
Return(r) ==
    /\ answer[r] # NoAnswer
    /\ answer' = [answer EXCEPT ![r] = NoAnswer]
    /\ UNCHANGED version

Update ==
    /\ version' = version + 1
    /\ UNCHANGED answer

Next == Update \/ \E r \in Readers : Lookup(r) \/ Return(r)

Spec == Init /\ [][Next]_tableVars
=============================================================================
