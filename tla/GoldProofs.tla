----------------------------- MODULE GoldProofs -----------------------------
(***************************************************************************)
(* The theorems of GoldAggregates: for any calendar, any width of the      *)
(* window and any set of possible rows.                                    *)
(***************************************************************************)
EXTENDS GoldAggregates, TLAPS

\* The window is that of the date the run started on, whatever day it is now.
WindowIsLiteral ==
  goldPc # "idle" => asOf = runDate - WindowDays + 1

\* Between the two writes the first table holds, of the window, what the run
\* has cached.
FirstHalfWritten ==
  goldPc = "half" =>
    \A o \in Observations : o.day >= asOf => (o \in drift <=> o \in bounded)

\* What the tables hold of the window was cached too, or was deleted from
\* Silver before.
CacheKeeps ==
  goldPc \in {"read", "half"} =>
    \A o \in drift \cup trends : o.day >= asOf => o \in bounded \cup pruned

GoldInv ==
  /\ TypeOK
  /\ WindowIsLiteral
  /\ WritesConform
  /\ FirstHalfWritten
  /\ CacheKeeps
  /\ TablesAgree

USE GoldAssumption DEF Days

LEMMA InitGoldInv == Init => GoldInv
BY DEF Init, GoldInv, TypeOK, WindowIsLiteral, WritesConform, FirstHalfWritten,
       CacheKeeps, TablesAgree, BetweenWrites

\* Steps of the world: the date, Silver's gains and Silver's losses.
LEMMA WorldInv ==
  ASSUME GoldInv, NewDay \/ Land \/ Prune
  PROVE  GoldInv'
<1> USE DEF GoldInv, goldVars
<1>1. TypeOK'
  <2>1. CASE NewDay
    BY <2>1 DEF TypeOK, NewDay
  <2>2. CASE Land
    BY <2>2 DEF TypeOK, Land
  <2>3. CASE Prune
    BY <2>3 DEF TypeOK, Prune
  <2> QED
    BY <2>1, <2>2, <2>3
<1>2. WindowIsLiteral' /\ FirstHalfWritten'
  BY DEF WindowIsLiteral, FirstHalfWritten, NewDay, Land, Prune
<1>3. WritesConform'
  BY DEF WritesConform, Conforms, ReplaceFrom, NewDay, Land, Prune
<1>4. CacheKeeps'
  BY DEF CacheKeeps, NewDay, Land, Prune
<1>5. TablesAgree'
  BY DEF TablesAgree, BetweenWrites, NewDay, Land, Prune
<1> QED
  BY <1>1, <1>2, <1>3, <1>4, <1>5

\* The run fixes its window and reads Silver, or finds nothing.
LEMMA ReadInv ==
  ASSUME GoldInv, GoldStart \/ GoldRead \/ GoldSkip
  PROVE  GoldInv'
<1> USE DEF GoldInv, worldVars
<1>1. CASE GoldStart
  <2>1. TypeOK' /\ WindowIsLiteral'
    BY <1>1 DEF TypeOK, WindowIsLiteral, GoldStart, WindowStart
  <2>2. WritesConform' /\ FirstHalfWritten' /\ CacheKeeps'
    BY <1>1 DEF WritesConform, FirstHalfWritten, CacheKeeps, GoldStart
  <2>3. TablesAgree'
    BY <1>1 DEF TablesAgree, BetweenWrites, GoldStart
  <2> QED
    BY <2>1, <2>2, <2>3
<1>2. CASE GoldRead
  <2>1. TypeOK' /\ WindowIsLiteral'
    BY <1>2 DEF TypeOK, WindowIsLiteral, GoldRead
  <2>2. WritesConform' /\ FirstHalfWritten'
    BY <1>2 DEF WritesConform, Conforms, ReplaceFrom, ReadFrom,
                FirstHalfWritten, GoldRead
  <2>3. CacheKeeps'
    BY <1>2 DEF CacheKeeps, TypeOK, GoldRead, ReadFrom
  <2>4. TablesAgree'
    BY <1>2 DEF TablesAgree, BetweenWrites, GoldRead
  <2> QED
    BY <2>1, <2>2, <2>3, <2>4
<1>3. CASE GoldSkip
  <2>1. TypeOK' /\ WindowIsLiteral'
    BY <1>3 DEF TypeOK, WindowIsLiteral, GoldSkip
  <2>2. WritesConform' /\ FirstHalfWritten' /\ CacheKeeps'
    BY <1>3 DEF WritesConform, FirstHalfWritten, CacheKeeps, GoldSkip
  <2>3. TablesAgree'
    BY <1>3 DEF TablesAgree, BetweenWrites, GoldSkip
  <2> QED
    BY <2>1, <2>2, <2>3
<1> QED
  BY <1>1, <1>2, <1>3

\* The first overwrite.
LEMMA WriteDriftInv ==
  ASSUME GoldInv, WriteDrift
  PROVE  GoldInv'
<1> USE DEF GoldInv, WriteDrift, ReplaceWhere, ReplaceFrom, worldVars
<1>1. \A o \in bounded : o.day >= asOf
  BY DEF WritesConform, Conforms
<1>2. TypeOK' /\ WindowIsLiteral'
  BY DEF TypeOK, WindowIsLiteral
<1>3. WritesConform'
  BY <1>1 DEF WritesConform, Conforms
<1>4. FirstHalfWritten'
  BY DEF FirstHalfWritten, TypeOK
<1>5. CacheKeeps'
  BY DEF CacheKeeps, TypeOK
<1>6. TablesAgree'
  <2> SUFFICES ASSUME NEW o \in Observations \ Uncategorised,
                      o.day \notin torn, o.day < asOf
               PROVE  o \in drift' <=> o \in trends'
    BY DEF TablesAgree, BetweenWrites, TypeOK
  <2> QED
    BY <1>1 DEF TablesAgree, BetweenWrites, TypeOK
<1> QED
  BY <1>2, <1>3, <1>4, <1>5, <1>6

\* The second overwrite, which ends the run and heals the window's days.
LEMMA WriteTrendsInv ==
  ASSUME GoldInv, WriteTrends
  PROVE  GoldInv'
<1> USE DEF GoldInv, WriteTrends, ReplaceWhere, ReplaceFrom, worldVars
<1>1. \A o \in bounded : o.day >= asOf
  BY DEF WritesConform, Conforms
<1>2. TypeOK' /\ WindowIsLiteral'
  <2>1. torn \subseteq Days
    BY DEF TypeOK
  <2>2. trends' \subseteq (silver \cup pruned) \ Uncategorised
    BY DEF TypeOK
  <2>3. torn' \subseteq torn
    OBVIOUS
  <2>4. torn' \subseteq Days
    BY <2>1, <2>3, Zenon
  <2> QED
    BY <2>2, <2>4 DEF TypeOK, WindowIsLiteral
<1>3. WritesConform' /\ FirstHalfWritten' /\ CacheKeeps'
  BY DEF WritesConform, FirstHalfWritten, CacheKeeps
<1>4. TablesAgree'
  <2> SUFFICES ASSUME NEW o \in Observations \ Uncategorised,
                      o.day \notin torn'
               PROVE  o \in drift' <=> o \in trends'
    BY DEF TablesAgree
  <2>1. CASE o.day >= asOf
    BY <2>1 DEF FirstHalfWritten, TypeOK
  <2>2. CASE o.day < asOf
    BY <1>1, <2>2 DEF TablesAgree, BetweenWrites, TypeOK
  <2> QED
    BY <2>1, <2>2 DEF TypeOK
<1> QED
  BY <1>2, <1>3, <1>4

\* The run dies; between the writes it leaves the window's days torn.
LEMMA CrashInv ==
  ASSUME GoldInv, GoldCrash
  PROVE  GoldInv'
<1> USE DEF GoldInv, GoldCrash, worldVars
<1>1. TypeOK' /\ WindowIsLiteral'
  <2>1. torn \subseteq Days
    BY DEF TypeOK
  <2>2. torn' \subseteq torn \cup Days
    OBVIOUS
  <2>3. torn' \subseteq Days
    BY <2>1, <2>2, Zenon
  <2> QED
    BY <2>3 DEF TypeOK, WindowIsLiteral
<1>2. WritesConform' /\ FirstHalfWritten' /\ CacheKeeps'
  BY DEF WritesConform, FirstHalfWritten, CacheKeeps
<1>3. TablesAgree'
  BY DEF TablesAgree, BetweenWrites, TypeOK
<1> QED
  BY <1>1, <1>2, <1>3

LEMMA StepGoldInv ==
  ASSUME GoldInv, [Next]_vars
  PROVE  GoldInv'
<1>1. CASE UNCHANGED vars
  BY <1>1 DEF vars, worldVars, goldVars, GoldInv, TypeOK, WindowIsLiteral,
              WritesConform, Conforms, ReplaceFrom, FirstHalfWritten,
              CacheKeeps, TablesAgree, BetweenWrites
<1> QED
  BY <1>1, WorldInv, ReadInv, WriteDriftInv, WriteTrendsInv, CrashInv DEF Next

\* The inductive invariant holds in every reachable state.
THEOREM GoldInvariance == Spec => []GoldInv
<1>1. Init => GoldInv
  BY InitGoldInv
<1>2. GoldInv /\ [Next]_vars => GoldInv'
  BY StepGoldInv
<1> QED
  BY <1>1, <1>2, PTL DEF Spec

\* Type correctness; nothing is in Gold that was never in Silver.
THEOREM GoldTypeCorrect == Spec => []TypeOK
<1>1. GoldInv => TypeOK
  BY DEF GoldInv
<1> QED
  BY <1>1, GoldInvariance, PTL

\* No overwrite is refused, whenever midnight comes.
THEOREM GoldWritesConform == Spec => []WritesConform
<1>1. GoldInv => WritesConform
  BY DEF GoldInv
<1> QED
  BY <1>1, GoldInvariance, PTL

\* The two tables agree outside of a run's half and of torn days.
THEOREM GoldTablesAgree == Spec => []TablesAgree
<1>1. GoldInv => TablesAgree
  BY DEF GoldInv
<1> QED
  BY <1>1, GoldInvariance, PTL

\* Only a write changes a table, and only inside of the run's window.
LEMMA TableSteps ==
  ASSUME GoldInv, [Next]_vars
  PROVE  \/ UNCHANGED <<drift, trends>>
         \/ /\ goldPc \in {"read", "half"}
            /\ bounded # {}
            /\ drift' \in {drift, ReplaceWhere(drift, bounded)}
            /\ trends' \in {trends,
                            ReplaceWhere(trends, bounded \ Uncategorised)}
BY DEF Next, vars, worldVars, goldVars, NewDay, Land, Prune, GoldStart,
       GoldRead, GoldSkip, WriteDrift, WriteTrends, GoldCrash, GoldInv, TypeOK

\* Gold loses an observation only if Silver lost it, and never the whole window.
THEOREM GoldForgetsOnlyPruned == Spec => ForgetsOnlyPruned
<1>1. ASSUME GoldInv, [Next]_vars,
             NEW o \in (drift \ drift') \cup (trends \ trends')
      PROVE  o \in pruned /\ bounded # {}
  <2>1. /\ goldPc \in {"read", "half"}
        /\ bounded # {}
        /\ drift' \in {drift, ReplaceWhere(drift, bounded)}
        /\ trends' \in {trends, ReplaceWhere(trends, bounded \ Uncategorised)}
    BY <1>1, TableSteps
  <2>2. o \in drift \cup trends /\ o.day \in Int /\ asOf \in Int
    BY <1>1 DEF GoldInv, TypeOK
  <2>3. o.day >= asOf
    BY <1>1, <2>1, <2>2 DEF ReplaceWhere, ReplaceFrom
  <2>4. o \notin bounded
    BY <1>1, <2>1 DEF ReplaceWhere, GoldInv, TypeOK
  <2> QED
    BY <1>1, <2>1, <2>2, <2>3, <2>4 DEF GoldInv, CacheKeeps
<1>2. GoldInv /\ [Next]_vars =>
        [\A o \in (drift \ drift') \cup (trends \ trends') :
           o \in pruned /\ bounded # {}]_vars
  BY <1>1
<1> QED
  BY <1>2, GoldInvariance, PTL DEF Spec, ForgetsOnlyPruned

\* A closed day never changes again.
THEOREM GoldClosedDaysFixed == Spec => ClosedDaysFixed
<1>1. ASSUME GoldInv, [Next]_vars, NEW o \in Observations, Closed(o.day)
      PROVE  /\ o \in drift' <=> o \in drift
             /\ o \in trends' <=> o \in trends
  <2>1. CASE UNCHANGED <<drift, trends>>
    BY <2>1
  <2>2. CASE /\ goldPc \in {"read", "half"}
             /\ drift' \in {drift, ReplaceWhere(drift, bounded)}
             /\ trends' \in {trends,
                             ReplaceWhere(trends, bounded \ Uncategorised)}
    <3>1. o.day < asOf
      BY <1>1, <2>2 DEF Closed, GoldInv, WindowIsLiteral, TypeOK
    <3>2. o \notin bounded
      BY <1>1, <2>2, <3>1 DEF GoldInv, WritesConform, Conforms, ReplaceFrom, TypeOK
    <3> QED
      BY <2>2, <3>1, <3>2 DEF ReplaceWhere, ReplaceFrom
  <2> QED
    BY <1>1, <2>1, <2>2, TableSteps
<1>2. GoldInv /\ [Next]_vars =>
        [\A o \in Observations : Closed(o.day) =>
           /\ o \in drift' <=> o \in drift
           /\ o \in trends' <=> o \in trends]_vars
  BY <1>1
<1> QED
  BY <1>2, GoldInvariance, PTL DEF Spec, ClosedDaysFixed
=============================================================================
