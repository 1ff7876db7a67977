--------------------------- MODULE GoldAggregates ---------------------------
(***************************************************************************)
(* The Gold job (databricks/jobs/03_gold_aggregates.py): a batch that      *)
(* recomputes the latest WindowDays daily partitions of two tables from    *)
(* Silver.  It fixes the window's first day when it starts, caches what    *)
(* Silver has of the window, and overwrites the window's partitions of the *)
(* one table and then of the other: two transactions.                      *)
(*                                                                         *)
(* A Gold table is modelled by the observations its rows aggregate; the    *)
(* rows of a day are a function of those of that day.                      *)
(***************************************************************************)
EXTENDS Integers

CONSTANTS
  MaxDay,        \* bound: the last day of the calendar
  WindowDays,    \* recompute_window_days
  Observations,  \* possible Silver rows: records with a day (of observed_at)
  Uncategorised  \* those whose categories are all null

Days == 1 .. MaxDay

ASSUME GoldAssumption ==
  /\ MaxDay \in Nat \ {0}
  /\ WindowDays \in Nat \ {0}
  /\ \A o \in Observations : o.day \in Days
  /\ Uncategorised \subseteq Observations

VARIABLES
  today,    \* the date in UTC
  silver,   \* heimdall.silver.business_events
  pruned,   \* history: the observations that were deleted from it
  drift,    \* heimdall.gold.rating_drift_daily
  trends,   \* heimdall.gold.category_trends_daily
  runDate,  \* the date on which the run started
  asOf,     \* its window begins here
  bounded,  \* its cached rows (all three are lost with the process)
  torn,     \* history: days left half overwritten by a run that died
  goldPc    \* where the job is

worldVars == <<today, silver, pruned>>
goldVars == <<drift, trends, runDate, asOf, bounded, torn, goldPc>>
vars == <<worldVars, goldVars>>

TypeOK ==
  /\ today \in Days
  /\ silver \subseteq Observations
  /\ pruned \subseteq Observations
  /\ drift \subseteq silver \cup pruned
  /\ trends \subseteq (silver \cup pruned) \ Uncategorised
  /\ runDate \in 0 .. today
  /\ asOf \in Int
  /\ bounded \subseteq silver \cup pruned
  /\ torn \subseteq Days
  /\ goldPc \in {"idle", "windowed", "read", "half"}
  /\ goldPc = "idle" => runDate = 0 /\ asOf = 0
  /\ goldPc # "idle" => asOf <= runDate
  /\ goldPc \in {"idle", "windowed"} => bounded = {}
  /\ goldPc = "half" => bounded # {}

Init ==
  /\ today = 1
  /\ silver = {}
  /\ pruned = {}
  /\ drift = {}
  /\ trends = {}
  /\ runDate = 0
  /\ asOf = 0
  /\ bounded = {}
  /\ torn = {}
  /\ goldPc = "idle"
-----------------------------------------------------------------------------
(***************************************************************************)
(* The world of the job.                                                   *)
(***************************************************************************)

\* Midnight UTC, also in the middle of a run.
NewDay ==
  /\ today < MaxDay
  /\ today' = today + 1
  /\ UNCHANGED <<silver, pruned, goldVars>>

\* The Silver job lands an observation, on its day or on any later one.  The
\* producer's clock, which stamped it, may run ahead of the driver's.
Land ==
  /\ \E o \in Observations \ silver :
       o.day <= today + 1 /\ silver' = silver \cup {o}
  /\ UNCHANGED <<today, pruned, goldVars>>

\* The TTL job the README asks operators to add deletes a row of an earlier
\* day.  (The Silver job may land it again, if its checkpoint is cleared.)
Prune ==
  /\ \E o \in silver : /\ o.day < today
                       /\ silver' = silver \ {o}
                       /\ pruned' = pruned \cup {o}
  /\ UNCHANGED <<today, goldVars>>
-----------------------------------------------------------------------------
(***************************************************************************)
(* main().                                                                 *)
(***************************************************************************)

\* Mutant: one day too many.
WindowStartEarly == today - WindowDays

\* Mutant: one day too few.
WindowStartLate == today - WindowDays + 2

\* as_of = today - timedelta(days=window_days - 1), with today = now(utc)
WindowStart == today - WindowDays + 1

\* Mutant: current_date() where the literal was.
ReadFromToday == WindowStart
ReplaceFromToday == WindowStart

\* The literal as_of_str, in the filter of the read and in the replaceWhere
\* predicate of both writes.
ReadFrom == asOf
ReplaceFrom == asOf

\* Delta refuses an overwrite with rows outside of its replaceWhere predicate.
Conforms == \A o \in bounded : o.day >= ReplaceFrom

\* mode("overwrite") with replaceWhere: day >= DATE'...'.
ReplaceWhere(table, rows) == {o \in table : o.day < ReplaceFrom} \cup rows

GoldStart ==
  /\ goldPc = "idle"
  /\ runDate' = today
  /\ asOf' = WindowStart
  /\ goldPc' = "windowed"
  /\ UNCHANGED <<worldVars, drift, trends, bounded, torn>>

\* bounded = silver...filter(day >= as_of).cache()
GoldRead ==
  /\ goldPc = "windowed"
  /\ bounded' = {o \in silver : o.day >= ReadFrom}
  /\ goldPc' = "read"
  /\ UNCHANGED <<worldVars, drift, trends, runDate, asOf, torn>>

\* bounded.isEmpty(): partitions preserved.
GoldSkip ==
  /\ goldPc = "read"
  /\ bounded = {}
  /\ runDate' = 0
  /\ asOf' = 0
  /\ goldPc' = "idle"
  /\ UNCHANGED <<worldVars, drift, trends, bounded, torn>>

\* Mutant: an empty window is written like any other.
WriteDriftUnchecked ==
  /\ goldPc = "read"
  /\ Conforms
  /\ drift' = ReplaceWhere(drift, bounded)
  /\ goldPc' = "half"
  /\ UNCHANGED <<worldVars, trends, runDate, asOf, bounded, torn>>

WriteDrift ==
  /\ goldPc = "read"
  /\ bounded # {}
  /\ Conforms
  /\ drift' = ReplaceWhere(drift, bounded)
  /\ goldPc' = "half"
  /\ UNCHANGED <<worldVars, trends, runDate, asOf, bounded, torn>>

\* Mutant: without cache() the second aggregation reads Silver again.
WriteTrendsUncached ==
  /\ goldPc = "half"
  /\ trends' = ReplaceWhere(trends, {o \in silver : o.day >= ReadFrom}
                                      \ Uncategorised)
  /\ bounded' = {}
  /\ torn' = {d \in torn : d < asOf}
  /\ runDate' = 0
  /\ asOf' = 0
  /\ goldPc' = "idle"
  /\ UNCHANGED <<worldVars, drift>>

\* Rows with no category left after explode_outer count for nothing.  The
\* run ends with this write.
WriteTrends ==
  /\ goldPc = "half"
  /\ Conforms
  /\ trends' = ReplaceWhere(trends, bounded \ Uncategorised)
  /\ bounded' = {}
  /\ torn' = {d \in torn : d < asOf}
  /\ runDate' = 0
  /\ asOf' = 0
  /\ goldPc' = "idle"
  /\ UNCHANGED <<worldVars, drift>>

\* The job dies, or a write raises.
GoldCrash ==
  /\ goldPc # "idle"
  /\ goldPc' = "idle"
  /\ runDate' = 0
  /\ asOf' = 0
  /\ bounded' = {}
  /\ torn' = IF goldPc = "half" THEN torn \cup {d \in Days : d >= asOf}
                                ELSE torn
  /\ UNCHANGED <<worldVars, drift, trends>>

Next ==
  \/ NewDay \/ Land \/ Prune
  \/ GoldStart \/ GoldRead \/ GoldSkip \/ WriteDrift \/ WriteTrends
  \/ GoldCrash

Spec == Init /\ [][Next]_vars

\* The scheduler keeps firing the job and a running job keeps running.
FairSpec ==
  /\ Spec
  /\ WF_goldVars(GoldStart)
  /\ WF_goldVars(GoldRead)
  /\ WF_goldVars(GoldSkip)
  /\ WF_goldVars(WriteDrift)
  /\ WF_goldVars(WriteTrends)
-----------------------------------------------------------------------------
(***************************************************************************)
(* What the two tables promise.                                            *)
(***************************************************************************)

\* No write is refused: "One literal removes the race entirely" (lines 41-48),
\* although midnight may come between any two steps of a run.
WritesConform == goldPc \in {"read", "half"} => Conforms

\* The run has overwritten o's day in one table and not yet in the other.
BetweenWrites(o) == goldPc = "half" /\ o.day >= asOf

\* Both tables tell of the same observations, whatever Silver gains or loses
\* and whatever day it becomes during a run.  The exceptions are a run between
\* its two overwrites, and a day on which a run died there and that no run has
\* completed since.
TablesAgree ==
  \A o \in Observations \ Uncategorised :
    o.day \in torn \/ BetweenWrites(o) \/ (o \in drift <=> o \in trends)

\* "An empty window means no new observations, not delete the recent
\* partitions" (lines 69-71): an observation leaves a Gold table only if it
\* was deleted from Silver, and only by a run that found others in the window.
ForgetsOnlyPruned ==
  [][\A o \in (drift \ drift') \cup (trends \ trends') :
       o \in pruned /\ bounded # {}]_vars

\* The day has left the window, and no run is under way that began before.
Closed(d) ==
  today >= d + WindowDays /\ (goldPc # "idle" => runDate >= d + WindowDays)

\* "Older partitions are immutable": the rows of a closed day never change
\* again, neither for a late Silver row nor for a deleted one.
ClosedDaysFixed ==
  [][\A o \in Observations :
       Closed(o.day) => /\ o \in drift' <=> o \in drift
                        /\ o \in trends' <=> o \in trends]_vars

\* From some point on the job does not die.  (Dying over an empty window is
\* the same step as skipping it.)
Undisturbed == <>[][GoldCrash => GoldSkip]_vars

\* "Late-arriving Silver rows are reflected": a row that is in Silver while its
\* day is in the window reaches both tables, unless the day leaves the window
\* or the row leaves Silver first.
LateRowsReachGold ==
  Undisturbed =>
    \A o \in Observations :
      (o \in silver /\ today < o.day + WindowDays)
        ~> \/ o \in drift /\ (o \in trends \/ o \in Uncategorised)
           \/ o \notin silver
           \/ today >= o.day + WindowDays
=============================================================================
