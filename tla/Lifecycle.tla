----------------------------- MODULE Lifecycle -----------------------------
(***************************************************************************)
(* The load and unload of a module, week 2 (lifecycle.c).  init acquires   *)
(* the resources one after another and, when it cannot have one, releases  *)
(* in reverse what it has, forgets it and fails; exit releases them all in *)
(* reverse.  main loads and unloads, then has each acquisition fail in     *)
(* turn; it calls exit in the first path only, and there whatever init has *)
(* answered.                                                               *)
(*                                                                         *)
(* The code has three resources, a, b and c.  An acquisition fails because *)
(* main says so or because malloc does.                                    *)
(***************************************************************************)
EXTENDS Integers

CONSTANT Resources      \* how many there are; 3 in the code

ASSUME ResourceAssumption == Resources \in Nat

Ids == 1 .. Resources

VARIABLES
    held,       \* the resources that are allocated
    live,       \* the program's count of them
    peak,       \* its greatest value
    handle,     \* main's pointers a, b, c: which are not NULL
    failAt,     \* the path: which acquisition fails, 0 for none
    at,         \* where main is
    which,      \* the resource init or exit comes to next
    rc,         \* init's answer
    bad         \* paths that leaked

lifeVars == <<held, live, peak, handle, failAt, at, which, rc, bad>>

LifeInit ==
    /\ held = {} /\ live = 0 /\ peak = 0 /\ handle = {}
    /\ failAt = 0 /\ at = "init" /\ which = 1 /\ rc = 0 /\ bad = 0

Max2(a, b) == IF a > b THEN a ELSE b

\* release(): a pointer that is NULL is ignored.
Release(k) ==
    /\ held' = held \ {k}
    /\ live' = IF k \in handle THEN live - 1 ELSE live

Acquire ==
    /\ at = "init" /\ which \in Ids
    /\ which # failAt
    /\ held' = held \cup {which}
    /\ live' = live + 1
    /\ peak' = Max2(peak, live')
    /\ handle' = handle \cup {which}
    /\ which' = which + 1
    /\ UNCHANGED <<failAt, at, rc, bad>>

InitDone ==
    /\ at = "init" /\ which = Resources + 1
    /\ at' = IF failAt = 0 THEN "exit" ELSE "end"
    /\ which' = Resources
    /\ rc' = 0
    /\ UNCHANGED <<held, live, peak, handle, failAt, bad>>

AcquireFails ==
    /\ at = "init" /\ which \in Ids
    /\ at' = "unwind"
    /\ which' = which - 1
    /\ UNCHANGED <<held, live, peak, handle, failAt, rc, bad>>

Unwind ==
    /\ at = "unwind" /\ which \in Ids
    /\ Release(which)
    /\ which' = which - 1
    /\ UNCHANGED <<peak, handle, failAt, at, rc, bad>>

\* Mutant: the pointers keep what they were.
InitFailsKeeping ==
    /\ at = "unwind" /\ which = 0
    /\ rc' = -1
    /\ at' = IF failAt = 0 THEN "exit" ELSE "end"
    /\ which' = Resources
    /\ UNCHANGED <<held, live, peak, handle, failAt, bad>>

\* Everything is released: the pointers become NULL and init fails.
InitFails ==
    /\ at = "unwind" /\ which = 0
    /\ handle' = {}
    /\ rc' = -1
    /\ at' = IF failAt = 0 THEN "exit" ELSE "end"
    /\ which' = Resources
    /\ UNCHANGED <<held, live, peak, failAt, bad>>

Exit ==
    /\ at = "exit" /\ which \in Ids
    /\ Release(which)
    /\ which' = which - 1
    /\ UNCHANGED <<peak, handle, failAt, at, rc, bad>>

ExitReturns ==
    /\ at = "exit" /\ which = 0
    /\ at' = "end"
    /\ UNCHANGED <<held, live, peak, handle, failAt, which, rc, bad>>

\* The end of a path.  The next init begins by setting the pointers to NULL.
EndOfPath ==
    /\ at = "end"
    /\ bad' = IF live # 0 \/ (failAt # 0 /\ rc = 0) THEN bad + 1 ELSE bad
    /\ failAt' = IF failAt < Resources THEN failAt + 1 ELSE failAt
    /\ at' = IF failAt < Resources THEN "init" ELSE "done"
    /\ handle' = {}
    /\ which' = 1
    /\ UNCHANGED <<held, live, peak, rc>>

LifeDone == at = "done" /\ UNCHANGED lifeVars

LifeNext ==
    \/ Acquire \/ AcquireFails \/ Unwind \/ InitDone \/ InitFails
    \/ Exit \/ ExitReturns \/ EndOfPath \/ LifeDone

LifeSpec == LifeInit /\ [][LifeNext]_lifeVars

-----------------------------------------------------------------------------
(***************************************************************************)
(* Properties                                                              *)
(***************************************************************************)
\* The count is the truth, and a resource goes before those it was acquired
\* after: what is held is always the first so many.
ReleasedInReverse == held = 1 .. live

\* Nobody releases through a pointer to something that is released already,
\* and nothing is held that no pointer leads to.
PointersAreHeld ==
    /\ at = "init" => handle = held
    /\ at \in {"unwind", "exit"} => held = handle \cap 1 .. which

\* lifecycle.c:4-8, 108.  Whatever fails, every path ends with nothing held.
EndsAtZero ==
    /\ at = "end" => held = {} /\ live = 0
    /\ bad = 0

\* lifecycle.c:5-8, 62-64, 72.  Every path, whichever acquisition fails in it,
\* releases what it acquired, once, in reverse, and ends at zero.
UnwindsToZero == ReleasedInReverse /\ PointersAreHeld /\ EndsAtZero
=============================================================================
