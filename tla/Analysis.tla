------------------------------ MODULE Analysis ------------------------------
(***************************************************************************)
(* The measurements of week 5 (analyze.c): summarize_run takes the records *)
(* of one run of the pool, computes their latencies, the median and the    *)
(* spread, chooses the persistence window from the median, and has         *)
(* invariant_scan add up the episodes in which a task waited while a       *)
(* worker was free.                                                        *)
(*                                                                         *)
(* Time stamps are integers, one unit a microsecond; the code's divisions  *)
(* of nanoseconds in double precision are exact here.  A median may fall   *)
(* between two values, so medians and the window are kept doubled.         *)
(***************************************************************************)
EXTENDS Integers, Sequences, FiniteSets, FiniteSetsExt

CONSTANTS
    Runs,           \* sets of records: sequences of [ready, start, end, shard]
    PoolSizes,      \* numbers of workers
    BugMultiplier,  \* BUG_MULTIPLIER
    WindowFactor    \* episode_window_us: this many medians

ASSUME RunAssumption == \A r \in Runs :
    /\ r \in Seq([ready : Nat, start : Nat, end : Nat, shard : {0, 1}])
    /\ \A k \in DOMAIN r :
          \/ r[k].start = 0 /\ r[k].end = 0
          \/ 0 < r[k].ready /\ r[k].ready <= r[k].start
                            /\ r[k].start <= r[k].end

ASSUME ThresholdAssumption == BugMultiplier \in Nat \ {0}

VARIABLES
    run, workers,               \* the run that is summarized
    pc,
    summary,                    \* what summarize_run has stored so far
    events,                     \* invariant_scan: the events ahead of it
    waiting, busy,
    inEpisode, episodeStart,
    violation, episodes, span   \* the wl_invariant it adds up

input        == <<run, workers>>
analysisVars == <<input, pc, summary, events, waiting, busy, inEpisode,
                  episodeStart, violation, episodes, span>>

(***************************************************************************)
(* The definition of analyze.h:44-55: how many records wait and how many   *)
(* are being worked on at time t, and when the invariant is violated.      *)
(***************************************************************************)
Started(r) == {k \in DOMAIN r : r[k].start # 0}

EarliestReady(r) == Min({r[k].ready : k \in Started(r)})
LatestEnd(r)     == Max({r[k].end : k \in DOMAIN r})

WaitingAt(r, t) ==
    Cardinality({k \in Started(r) : r[k].ready <= t /\ t < r[k].start})
BusyAt(r, t) ==
    Cardinality({k \in Started(r) : r[k].start <= t /\ t < r[k].end})
ViolatedAt(r, w, t) == WaitingAt(r, t) > 0 /\ BusyAt(r, t) < w

(***************************************************************************)
(* The statistics.  A family of values is a function; what qsort leaves at *)
(* index j of a sorted array is the value with at most j smaller ones and  *)
(* more than j that are no larger.                                         *)
(***************************************************************************)
Sorted(v, j) ==
    CHOOSE x \in {v[k] : k \in DOMAIN v} :
        /\ Cardinality({k \in DOMAIN v : v[k] < x}) <= j
        /\ Cardinality({k \in DOMAIN v : v[k] <= x}) > j

\* Mutant: the value before the middle one.
TwiceMedianLow(v) ==
    LET n == Cardinality(DOMAIN v) IN
    2 * Sorted(v, IF n = 1 THEN 0 ELSE n \div 2 - 1)

TwiceMedian(v) ==
    LET n == Cardinality(DOMAIN v) IN
    IF n % 2 = 1 THEN 2 * Sorted(v, n \div 2)
    ELSE Sorted(v, n \div 2 - 1) + Sorted(v, n \div 2)

SpreadOf(v) ==
    LET n == Cardinality(DOMAIN v) IN Sorted(v, n - 1) - Sorted(v, 0)

ClassifyLatency(us, twiceMedian) == 2 * us > BugMultiplier * twiceMedian

TwiceWindow(twiceMedian) ==
    IF twiceMedian > 0 THEN WindowFactor * twiceMedian ELSE 2

Latencies(r) == [k \in Started(r) |-> r[k].start - r[k].ready]

LatenciesOf(r, shard) ==
    [k \in {j \in Started(r) : r[j].shard = shard} |-> Latencies(r)[k]]

MedianOrZero(v) == IF DOMAIN v = {} THEN 0 ELSE TwiceMedian(v)

\* A summary of nothing.
NoSummary ==
    [started |-> 0, median |-> 0, spread |-> 0, max |-> 0, bugs |-> 0,
     shard0 |-> 0, shard1 |-> 0, window |-> 0]

\* What wl_run hands to summarize_run: a task that started has ended, and no
\* more tasks run at once than there are workers.
AnalysisInit ==
    /\ run \in Runs
    /\ workers \in PoolSizes
    /\ \A t \in 0 .. LatestEnd(run) : BusyAt(run, t) <= workers
    /\ pc = "summarize"
    /\ summary = NoSummary
    /\ events = {}
    /\ waiting = 0 /\ busy = 0
    /\ inEpisode = FALSE /\ episodeStart = 0
    /\ violation = 0 /\ episodes = 0 /\ span = 0

\* summarize_run up to the call of invariant_scan.  (bug_fraction and
\* violation_fraction are quotients of what is kept here and are left out.)
Summarize ==
    LET lat == Latencies(run)
        med == TwiceMedian(lat) IN
    /\ pc = "summarize"
    /\ Started(run) # {}
    /\ summary' =
          [started |-> Cardinality(Started(run)),
           median  |-> med,
           spread  |-> SpreadOf(lat),
           max     |-> Sorted(lat, Cardinality(Started(run)) - 1),
           bugs    |-> Cardinality({k \in Started(run) :
                                        ClassifyLatency(lat[k], med)}),
           shard0  |-> MedianOrZero(LatenciesOf(run, 0)),
           shard1  |-> MedianOrZero(LatenciesOf(run, 1)),
           window  |-> TwiceWindow(med)]
    /\ pc' = "events"
    /\ UNCHANGED <<input, events, waiting, busy, inEpisode, episodeStart,
                   violation, episodes, span>>

\* Nothing started: there is nothing to measure.
SummarizeNothing ==
    /\ pc = "summarize"
    /\ Started(run) = {}
    /\ pc' = "done"
    /\ UNCHANGED <<input, summary, events, waiting, busy, inEpisode,
                   episodeStart, violation, episodes, span>>

(***************************************************************************)
(* invariant_scan                                                          *)
(***************************************************************************)
EventsOf(k) ==
    {[k |-> k, at |-> run[k].ready, waiting |-> 1,  busy |-> 0],
     [k |-> k, at |-> run[k].start, waiting |-> -1, busy |-> 1],
     [k |-> k, at |-> run[k].end,   waiting |-> 0,  busy |-> -1]}

Collect ==
    /\ pc = "events"
    /\ events' = UNION {EventsOf(k) : k \in Started(run)}
    /\ pc' = "scan"
    /\ UNCHANGED <<input, summary, waiting, busy, inEpisode, episodeStart,
                   violation, episodes, span>>

EventCount(E, field, delta) == Cardinality({e \in E : e[field] = delta})
DeltaOf(E, field) == EventCount(E, field, 1) - EventCount(E, field, -1)

Earliest(E) == {e \in E : \A d \in E : e.at <= d.at}

\* Mutant: one event at a time, in the order qsort happens to leave.
BatchesOfOne(E) == {{e} : e \in Earliest(E)}

\* What the loop takes at once: all events of the next time stamp.
Batches(E) == {Earliest(E)}

Counts(duration) == 2 * duration > summary.window

\* The test after the batch of time t.
EpisodeEnds(t) ==
    /\ inEpisode /\ ~inEpisode'
    /\ IF Counts(t - episodeStart)
       THEN /\ episodes' = episodes + 1
            /\ violation' = violation + (t - episodeStart)
       ELSE UNCHANGED <<episodes, violation>>
    /\ UNCHANGED episodeStart

EpisodeBegins(t) ==
    /\ ~inEpisode /\ inEpisode'
    /\ episodeStart' = t
    /\ UNCHANGED <<episodes, violation>>

EpisodeGoesOn ==
    /\ inEpisode' = inEpisode
    /\ UNCHANGED <<episodeStart, episodes, violation>>

Scan ==
    /\ pc = "scan"
    /\ \E batch \in Batches(events) :
          /\ batch # {}
          /\ events' = events \ batch
          /\ waiting' = waiting + DeltaOf(batch, "waiting")
          /\ busy' = busy + DeltaOf(batch, "busy")
          /\ inEpisode' = (waiting' > 0 /\ busy' < workers)
          /\ LET t == (CHOOSE e \in batch : TRUE).at IN
             EpisodeEnds(t) \/ EpisodeBegins(t) \/ EpisodeGoesOn
    /\ UNCHANGED <<input, pc, summary, span>>

Finish ==
    /\ pc = "scan"
    /\ events = {}
    /\ span' = LatestEnd(run) - EarliestReady(run)
    /\ pc' = "done"
    /\ UNCHANGED <<input, summary, events, waiting, busy, inEpisode,
                   episodeStart, violation, episodes>>

AnalysisDone == pc = "done" /\ UNCHANGED analysisVars

AnalysisNext == Summarize \/ SummarizeNothing \/ Collect \/ Scan \/ Finish \/ AnalysisDone

AnalysisSpec == AnalysisInit /\ [][AnalysisNext]_analysisVars

-----------------------------------------------------------------------------
(***************************************************************************)
(* Properties                                                              *)
(***************************************************************************)

\* analyze.h:49-55.  An episode of a run: a maximal interval of violation,
\* from its first instant a to the instant b that ends it.
IsEpisode(a, b) ==
    /\ a < b
    /\ \A t \in a .. b - 1 : ViolatedAt(run, workers, t)
    /\ ~ViolatedAt(run, workers, b)
    /\ a > 0 => ~ViolatedAt(run, workers, a - 1)

Episodes ==
    {e \in (0 .. LatestEnd(run)) \X (0 .. LatestEnd(run)) :
        IsEpisode(e[1], e[2])}

Length(e) == e[2] - e[1]

LongEpisodes == {e \in Episodes : 2 * Length(e) > summary.window}

\* invariant_scan measures what analyze.h defines: the number and the total
\* length of the episodes longer than the window.  No episode is left open,
\* and the measured fraction of the span is at most one.
ScanMeasures ==
    pc = "done" => /\ episodes = Cardinality(LongEpisodes)
                   /\ violation = MapThenSumSet(Length, LongEpisodes)
                   /\ violation <= span
                   /\ ~inEpisode

\* The state of the scan between two time stamps is the state of the pool
\* "after applying every timestamp equal to t" (analyze.h:52-54): it is in an
\* episode exactly if the invariant is violated until the next event.
ScanFollowsPool ==
    pc = "scan" /\ events # {} =>
        LET t == (CHOOSE e \in Earliest(events) : TRUE).at - 1 IN
        /\ waiting = WaitingAt(run, t) /\ busy = BusyAt(run, t)
        /\ inEpisode = ViolatedAt(run, workers, t)

\* The median is in the middle of the run (analyze.h:19-24): at most half of
\* the tasks waited less, and, since a latency is bug-length relative to the
\* run's own median (analyze.h:30-34), at most half are bug-length.
MedianInTheMiddle ==
    pc # "summarize" =>
        /\ 2 * summary.bugs <= summary.started
        /\ 2 * Cardinality({k \in Started(run) :
                               2 * Latencies(run)[k] < summary.median})
              <= summary.started
=============================================================================
