---------------------------- MODULE SilverLemmas ----------------------------
(***************************************************************************)
(* What each step of the Silver job does to its invariants, with no        *)
(* assumption on who appends to Bronze: the lemmas are used for the job by *)
(* itself and for its composition with the Bronze job.                     *)
(***************************************************************************)
EXTENDS SilverTransform, WellFoundedInduction, TLAPS

\* A non-empty set of naturals has a least element.
LEMMA LeastNat ==
  ASSUME NEW S \in SUBSET Nat, S # {}
  PROVE  \E m \in S : \A k \in S : m <= k
<1>1. PICK m \in S : \A k \in S : <<k, m>> \notin OpToRel(<, Nat)
  BY NatLessThanWellFounded, WFMin, Zenon
<1>2. \A k \in S : ~(k < m)
  BY <1>1, Zenon DEF OpToRel
<1> QED
  BY <1>2

\* A non-empty set of integers with an upper bound has a greatest element.
LEMMA GreatestInt ==
  ASSUME NEW S, S \subseteq Int, S # {}, NEW b \in Int, \A k \in S : k <= b
  PROVE  \E m \in S : \A k \in S : k <= m
<1> DEFINE T == {n \in Nat : \E k \in S : n = b - k}
<1>1. \A k \in S : b - k \in T
  <2> TAKE k \in S
  <2>1. k \in Int /\ b - k \in Nat
    OBVIOUS
  <2> QED
    BY <2>1
<1>2. T \in SUBSET Nat /\ T # {}
  BY <1>1
<1> HIDE DEF T
<1>3. PICK n \in T : \A k \in T : n <= k
  BY <1>2, LeastNat
<1>4. PICK m \in S : n = b - m
  BY <1>3 DEF T
<1>5. \A k \in S : n <= b - k
  BY <1>1, <1>3
<1>6. \A k \in S : k <= m
  <2> TAKE k \in S
  <2>1. k \in Int /\ m \in Int /\ n = b - m /\ n <= b - k
    BY <1>4, <1>5
  <2> QED
    BY <2>1
<1> QED
  BY <1>6

\* row_number() = 1 leaves a row of every event in the batch, and no row of
\* the batch with that event is later.
LEMMA WindowKeepsLatest ==
  ASSUME TableTypeOK, EnvelopeAssumption,
         NEW rows \in SUBSET bronze, NEW r \in rows
  PROVE  \E s \in ToSilver(rows) : s.env = r.env /\ ~Later(r, s)
<1> DEFINE E == {x \in rows : x.env = r.env}
           V == {n \in Int : \E x \in E : n = x.ver}
<1>0. \A x \in rows : /\ x \in BronzeRow
                      /\ x.ver \in Int /\ x.off \in Int
                      /\ x.ver <= bronzeVersion /\ x.off <= MaxOffset
  BY DEF TableTypeOK, BronzeRow, Offsets, EnvelopeAssumption
<1>1. bronzeVersion \in Int /\ MaxOffset \in Int
  BY DEF TableTypeOK, EnvelopeAssumption
<1>2. r.ver \in V
  BY <1>0
<1>3. \A n \in V : n <= bronzeVersion
  BY <1>0
<1>4. PICK v \in V : \A n \in V : n <= v
  <2> HIDE DEF V
  <2>1. V \subseteq Int
    BY DEF V
  <2> QED
    BY <1>1, <1>2, <1>3, <2>1, GreatestInt
<1> DEFINE O == {n \in Int : \E x \in E : x.ver = v /\ n = x.off}
<1>5. O # {}
  BY <1>0, <1>4
<1>6. \A n \in O : n <= MaxOffset
  BY <1>0
<1>7. PICK o \in O : \A n \in O : n <= o
  <2> HIDE DEF O
  <2>1. O \subseteq Int
    BY DEF O
  <2> QED
    BY <1>1, <1>5, <1>6, <2>1, GreatestInt
<1>8. PICK s \in E : s.ver = v /\ s.off = o
  BY <1>7
<1>9. \A x \in E : ~Later(x, s)
  <2> TAKE x \in E
  <2>1. x.ver \in V /\ x.ver <= v /\ x.ver \in Int /\ v \in Int
    BY <1>0, <1>4
  <2>2. x.ver = v => x.off <= o /\ x.off \in Int /\ o \in Int
    BY <1>0, <1>7
  <2> QED
    BY <1>8, <2>1, <2>2 DEF Later
<1> QED
  BY <1>8, <1>9 DEF ToSilver

\* Two rows the window keeps for one event are the same row: the MERGE source
\* has at most one row per key.
LEMMA WindowKeepsOne ==
  ASSUME NEW rows \in SUBSET BronzeRow,
         NEW s \in ToSilver(rows), NEW u \in ToSilver(rows), s.env = u.env
  PROVE  s = u
<1>1. s \in BronzeRow /\ u \in BronzeRow /\ ~Later(s, u) /\ ~Later(u, s)
  BY DEF ToSilver
<1>2. s.ver \in Int /\ u.ver \in Int /\ s.off \in Int /\ u.off \in Int
  BY <1>1 DEF BronzeRow, Offsets
<1>3. s.ver = u.ver /\ s.off = u.off
  BY <1>1, <1>2 DEF Later
<1> QED
  BY <1>1, <1>3 DEF BronzeRow
-----------------------------------------------------------------------------
\* What the MERGE into Silver does when its source has one row per key: the
\* source rows are in the table, the rows no source row matches stay as they
\* are, nothing else is there, and no event has two rows.
LEMMA MergeEffect ==
  ASSUME SilverTypeOK, OneRowPerEvent,
         NEW good \in SUBSET BronzeRow,
         \A s, u \in good : s.env = u.env => s = u,
         MergeIntoSilver(good)
  PROVE  /\ silver' \subseteq TargetRow
         /\ silverInserts' \in Nat
         /\ \A t \in silver' : t.ins <= silverInserts'
         /\ OneRowPerEvent'
         /\ \A s \in good : \E t \in silver' : t.row = s
         /\ \A t \in silver : (\A s \in good : s.env # t.row.env)
                                => t \in silver'
         /\ \A t \in silver' : \/ t.row \in good
                               \/ /\ t \in silver
                                  /\ \A s \in good : s.env # t.row.env
<1> DEFINE Kept == {t \in silver : \A s \in good : s.env # t.row.env}
           New == [row : UnmatchedRows(good), ins : {silverInserts + 1}]
<1>1. silver' = Kept \cup MatchedRows(good) \cup New
  BY DEF MergeIntoSilver
<1>2. /\ silver \subseteq TargetRow /\ silverInserts \in Nat
      /\ \A t \in silver : t.ins <= silverInserts /\ t.ins \in Nat \ {0}
  BY DEF SilverTypeOK, TargetRow
<1>3. \A u : u \in MatchedRows(good) <=>
               /\ u \in [row : good, ins : 1 .. silverInserts]
               /\ \E t \in silver : t.ins = u.ins /\ t.row.env = u.row.env
  BY DEF MatchedRows
<1>4. \A s : s \in UnmatchedRows(good) <=>
               s \in good /\ \A t \in silver : t.row.env # s.env
  BY DEF UnmatchedRows
<1>5. \A t \in New : t.row \in UnmatchedRows(good) /\ t.ins = silverInserts + 1
                     /\ t = [row |-> t.row, ins |-> silverInserts + 1]
  OBVIOUS
<1>6. \A t \in MatchedRows(good) :
        /\ t.row \in good /\ t.ins \in 1 .. silverInserts
        /\ t = [row |-> t.row, ins |-> t.ins]
  BY <1>3
<1>7. silverInserts' \in Nat /\ silverInserts <= silverInserts'
      /\ (New # {} => silverInserts' = silverInserts + 1)
  BY <1>2 DEF MergeIntoSilver
<1> HIDE DEF New, Kept
<1>8. silver' \subseteq TargetRow /\ \A t \in silver' : t.ins <= silverInserts'
  <2> SUFFICES ASSUME NEW t \in silver'
               PROVE  t \in TargetRow /\ t.ins <= silverInserts'
    OBVIOUS
  <2>1. CASE t \in Kept
    BY <2>1, <1>2, <1>7 DEF Kept
  <2>2. CASE t \in MatchedRows(good)
    <3>1. t.row \in BronzeRow /\ t.ins \in Nat \ {0} /\ t.ins <= silverInserts
      BY <2>2, <1>2, <1>6
    <3> QED
      BY <2>2, <3>1, <1>2, <1>6, <1>7 DEF TargetRow
  <2>3. CASE t \in New
    BY <2>3, <1>2, <1>4, <1>5, <1>7 DEF TargetRow
  <2> QED
    BY <2>1, <2>2, <2>3, <1>1
<1>9. OneRowPerEvent'
  <2> SUFFICES ASSUME NEW t \in silver', NEW u \in silver',
                      t.row.env = u.row.env
               PROVE  t = u
    BY DEF OneRowPerEvent
  <2>1. CASE t \in Kept /\ u \in Kept
    BY <2>1 DEF OneRowPerEvent, Kept
  <2>2. CASE t \in Kept /\ u \notin Kept
    <3>1. u.row \in good
      BY <2>2, <1>1, <1>4, <1>5, <1>6
    <3> QED
      BY <2>2, <3>1 DEF Kept
  <2>3. CASE t \notin Kept /\ u \in Kept
    <3>1. t.row \in good
      BY <2>3, <1>1, <1>4, <1>5, <1>6
    <3> QED
      BY <2>3, <3>1 DEF Kept
  <2>4. CASE t \in MatchedRows(good) /\ u \in MatchedRows(good)
    <3>1. t.row = u.row
      BY <2>4, <1>6
    <3>2. t.ins = u.ins
      BY <2>4, <1>3 DEF OneRowPerEvent
    <3> QED
      BY <3>1, <3>2, <2>4, <1>6
  <2>5. CASE t \in MatchedRows(good) /\ u \in New
    BY <2>5, <1>3, <1>4, <1>5
  <2>6. CASE t \in New /\ u \in MatchedRows(good)
    BY <2>6, <1>3, <1>4, <1>5
  <2>7. CASE t \in New /\ u \in New
    <3>1. t.row \in good /\ u.row \in good
      BY <2>7, <1>4, <1>5
    <3> QED
      BY <2>7, <3>1, <1>5
  <2> QED
    BY <2>1, <2>2, <2>3, <2>4, <2>5, <2>6, <2>7, <1>1
<1>10. ASSUME NEW s \in good
       PROVE  \E t \in silver' : t.row = s
  <2>1. CASE \A t \in silver : t.row.env # s.env
    <3>1. [row |-> s, ins |-> silverInserts + 1] \in New
      BY <2>1, <1>4 DEF New
    <3> QED
      BY <3>1, <1>1
  <2>2. CASE \E t \in silver : t.row.env = s.env
    <3>1. PICK t \in silver : t.row.env = s.env
      BY <2>2
    <3>2. t.ins \in 1 .. silverInserts
      BY <1>2
    <3>3. [row |-> s, ins |-> t.ins] \in MatchedRows(good)
      BY <3>1, <3>2, <1>3
    <3> QED
      BY <3>3, <1>1
  <2> QED
    BY <2>1, <2>2
<1>11. \A t \in silver' : \/ t.row \in good
                          \/ /\ t \in silver
                             /\ \A s \in good : s.env # t.row.env
  BY <1>1, <1>4, <1>5, <1>6 DEF Kept
<1>12. \A t \in silver : (\A s \in good : s.env # t.row.env) => t \in silver'
  BY <1>1 DEF Kept
<1> QED
  BY <1>7, <1>8, <1>9, <1>10, <1>11, <1>12
-----------------------------------------------------------------------------
\* The state of the job is well typed after each of its steps.
LEMMA SilverStepTypeOK ==
  ASSUME TableTypeOK, SilverTypeOK, OneRowPerEvent, SilverStep,
         UNCHANGED tableVars
  PROVE  SilverTypeOK'
<1>1. bronzeVersion' = bronzeVersion /\ bronzeVersion \in Nat
  BY DEF tableVars, TableTypeOK
<1>2. CASE SilverStart
  BY <1>1, <1>2 DEF SilverStart, SilverTypeOK
<1>3. CASE SilverPlan
  BY <1>1, <1>3 DEF SilverPlan, SilverTypeOK
<1>4. CASE SilverMerge
  <2> DEFINE good == ToSilver(ValidRows(Batch))
  <2>1. good \in SUBSET BronzeRow /\ ValidRows(Batch) \in SUBSET BronzeRow
    BY DEF ToSilver, ValidRows, Batch, TableTypeOK
  <2>2. \A s, u \in good : s.env = u.env => s = u
    BY <2>1, WindowKeepsOne
  <2>3. MergeIntoSilver(good)
    BY <1>4 DEF SilverMerge
  <2> HIDE DEF good
  <2>4. /\ silver' \subseteq TargetRow
        /\ silverInserts' \in Nat
        /\ \A t \in silver' : t.ins <= silverInserts'
    BY <2>1, <2>2, <2>3, MergeEffect
  <2> QED
    BY <1>1, <1>4, <2>4 DEF SilverMerge, SilverTypeOK
<1>5. CASE DlqMerge
  <2>1. NewDlqRows(BadRows(Batch)) \subseteq BronzeRow
    BY DEF NewDlqRows, BadRows, Batch, TableTypeOK
  <2> DEFINE New == [row : NewDlqRows(BadRows(Batch)), ins : {dlqInserts + 1}]
  <2>2. dlq' = dlq \cup New /\ dlqInserts \in Nat
    BY <1>5 DEF DlqMerge, MergeIntoDlq, SilverTypeOK
  <2>3. dlqInserts' \in Nat /\ dlqInserts <= dlqInserts'
        /\ (New # {} => dlqInserts' = dlqInserts + 1)
    BY <1>5, <2>2 DEF DlqMerge, MergeIntoDlq
  <2>4. \A d \in New : d \in TargetRow /\ d.ins = dlqInserts + 1
    BY <2>1, <2>2 DEF TargetRow
  <2> HIDE DEF New
  <2>5. dlq' \subseteq TargetRow /\ \A d \in dlq' : d.ins <= dlqInserts'
    <3> SUFFICES ASSUME NEW d \in dlq'
                 PROVE  d \in TargetRow /\ d.ins <= dlqInserts'
      OBVIOUS
    <3>1. CASE d \in dlq
      <4>1. d \in TargetRow /\ d.ins <= dlqInserts /\ d.ins \in Nat
        BY <3>1 DEF SilverTypeOK, TargetRow
      <4> QED
        BY <4>1, <2>2, <2>3
    <3>2. CASE d \in New
      BY <3>2, <2>2, <2>3, <2>4
    <3> QED
      BY <3>1, <3>2, <2>2
  <2> QED
    BY <1>1, <1>5, <2>3, <2>5 DEF DlqMerge, SilverTypeOK
<1>6. CASE SilverCommit
  BY <1>1, <1>6 DEF SilverCommit, SilverTypeOK
<1>7. CASE SilverFinish
  BY <1>1, <1>7 DEF SilverFinish, SilverTypeOK
<1>8. CASE SilverCrash
  BY <1>1, <1>8 DEF SilverCrash, SilverTypeOK
<1>9. CASE SilverReset
  BY <1>1, <1>9 DEF SilverReset, SilverTypeOK
<1> QED
  BY <1>2, <1>3, <1>4, <1>5, <1>6, <1>7, <1>8, <1>9 DEF SilverStep

\* A step that leaves the tables alone and moves no horizon forward keeps the
\* invariant.
LEMMA HorizonFrame ==
  ASSUME SilverInv, TableTypeOK,
         UNCHANGED <<tableVars, silver, dlq>>,
         SilverHorizon \in Int, SilverHorizon' \in Int,
         SilverHorizon' <= SilverHorizon,
         DlqHorizon \in Int, DlqHorizon' \in Int, DlqHorizon' <= DlqHorizon
  PROVE  SilverInv'
<1>1. bronze' = bronze /\ silver' = silver /\ dlq' = dlq
  BY DEF tableVars
<1>2. \A r \in bronze : r.ver \in Int
  BY DEF TableTypeOK, BronzeRow
<1>3. RowsComeFromBronze'
  BY <1>1 DEF SilverInv, RowsComeFromBronze, ValidRows, BadRows
<1>4. OneRowPerEvent' /\ DlqCountsOnce'
  BY <1>1 DEF SilverInv, OneRowPerEvent, DlqCountsOnce, BronzeKeysUnique, DlqKey
<1>5. SilverCovers'
  <2> SUFFICES ASSUME NEW r \in ValidRows(bronze), r.ver <= SilverHorizon'
               PROVE  \E t \in silver : t.row.env = r.env /\ ~Later(r, t.row)
    BY <1>1 DEF SilverCovers, ValidRows, Later
  <2>1. r.ver <= SilverHorizon
    BY <1>2 DEF ValidRows
  <2> QED
    BY <2>1 DEF SilverInv, SilverCovers
<1>6. DlqCovers'
  <2> SUFFICES ASSUME NEW r \in BadRows(bronze), r.ver <= DlqHorizon'
               PROVE  InDlq(r)
    BY <1>1 DEF DlqCovers, BadRows, InDlq, DlqKey
  <2>1. r.ver <= DlqHorizon
    BY <1>2 DEF BadRows
  <2> QED
    BY <2>1 DEF SilverInv, DlqCovers
<1> QED
  BY <1>3, <1>4, <1>5, <1>6 DEF SilverInv

\* The first MERGE brings Silver up to the planned end of the batch.
LEMMA SilverMergeInv ==
  ASSUME EnvelopeAssumption, TableTypeOK, SilverTypeOK, SilverInv,
         SilverMerge, UNCHANGED tableVars
  PROVE  SilverInv'
<1> DEFINE good == ToSilver(ValidRows(Batch))
<1>1. /\ bronze' = bronze /\ dlq' = dlq
      /\ silverDone' = silverDone /\ silverPlanned' = silverPlanned
      /\ silverPc = "planned" /\ silverPc' = "merged"
      /\ MergeIntoSilver(good)
  BY DEF SilverMerge, tableVars
<1>2. ValidRows(Batch) \in SUBSET bronze /\ good \subseteq ValidRows(Batch)
  BY DEF ToSilver, ValidRows, Batch
<1>3. good \in SUBSET BronzeRow /\ ValidRows(Batch) \in SUBSET BronzeRow
  BY <1>2 DEF TableTypeOK
<1>4. \A s, u \in good : s.env = u.env => s = u
  BY <1>3, WindowKeepsOne
<1>5. \A r \in ValidRows(Batch) : \E s \in good : s.env = r.env /\ ~Later(r, s)
  BY <1>2, WindowKeepsLatest
<1>6. \A s \in good : s \in ValidRows(bronze)
  BY <1>2 DEF ValidRows, Batch
<1>7. \A r \in ValidRows(bronze) :
        /\ r.ver \in Int /\ silverDone \in Int /\ silverPlanned \in Int
        /\ ~(r.ver <= silverDone) /\ r.ver <= silverPlanned
             => r \in ValidRows(Batch)
  BY DEF ValidRows, Batch, TableTypeOK, BronzeRow, SilverTypeOK
<1> HIDE DEF good
<1>8. /\ OneRowPerEvent'
      /\ \A s \in good : \E t \in silver' : t.row = s
      /\ \A t \in silver : (\A s \in good : s.env # t.row.env)
                             => t \in silver'
      /\ \A t \in silver' : t.row \in good \/ t \in silver
  BY <1>1, <1>3, <1>4, MergeEffect DEF SilverInv
<1>9. RowsComeFromBronze'
  BY <1>1, <1>6, <1>8 DEF SilverInv, RowsComeFromBronze, ValidRows, BadRows
<1>10. SilverCovers'
  <2> SUFFICES ASSUME NEW r \in ValidRows(bronze), r.ver <= silverPlanned
               PROVE  \E t \in silver' : t.row.env = r.env /\ ~Later(r, t.row)
    BY <1>1 DEF SilverCovers, SilverHorizon, ValidRows, Later
  <2>1. CASE r \in ValidRows(Batch)
    <3>1. PICK s \in good : s.env = r.env /\ ~Later(r, s)
      BY <2>1, <1>5
    <3> QED
      BY <3>1, <1>8
  <2>2. CASE r \notin ValidRows(Batch)
    <3>1. r.ver <= SilverHorizon
      BY <2>2, <1>1, <1>7 DEF SilverHorizon
    <3>2. PICK t \in silver : t.row.env = r.env /\ ~Later(r, t.row)
      BY <3>1 DEF SilverInv, SilverCovers
    <3>3. CASE \A s \in good : s.env # t.row.env
      BY <3>2, <3>3, <1>8
    <3>4. CASE \E s \in good : s.env = t.row.env
      <4>1. PICK s \in good : s.env = t.row.env
        BY <3>4
      <4>2. PICK u \in silver' : u.row = s
        BY <1>8
      <4>3. s \in ValidRows(Batch)
        BY <1>2
      <4>4. s.ver \in Int /\ silverDone < s.ver
        BY <4>3, <1>3 DEF ValidRows, Batch, BronzeRow
      <4>5. r.ver \in Int /\ silverDone \in Int /\ r.ver <= silverDone
        BY <3>1, <1>1, <1>7 DEF SilverHorizon
      <4>6. ~Later(r, s)
        BY <4>4, <4>5 DEF Later
      <4> QED
        BY <3>2, <4>1, <4>2, <4>6
    <3> QED
      BY <3>3, <3>4
  <2> QED
    BY <2>1, <2>2
<1>11. DlqCovers'
  <2>1. DlqHorizon' = DlqHorizon
    BY <1>1 DEF DlqHorizon
  <2> QED
    BY <2>1, <1>1 DEF SilverInv, DlqCovers, BadRows, InDlq, DlqKey
<1>12. DlqCountsOnce'
  BY <1>1 DEF SilverInv, DlqCountsOnce, BronzeKeysUnique, DlqKey
<1> QED
  BY <1>8, <1>9, <1>10, <1>11, <1>12 DEF SilverInv

\* The second MERGE brings the dead-letter queue up to it.
LEMMA DlqMergeInv ==
  ASSUME TableTypeOK, SilverTypeOK, SilverInv,
         DlqMerge, UNCHANGED tableVars
  PROVE  SilverInv'
<1> DEFINE bad == BadRows(Batch)
           New == [row : NewDlqRows(bad), ins : {dlqInserts + 1}]
<1>1. /\ bronze' = bronze /\ silver' = silver
      /\ silverDone' = silverDone /\ silverPlanned' = silverPlanned
      /\ silverPc = "merged" /\ silverPc' = "quarantined"
      /\ dlq' = dlq \cup New
  BY DEF DlqMerge, MergeIntoDlq, tableVars
<1>2. \A r \in bad : r \in BadRows(bronze)
  BY DEF BadRows, Batch
<1>3. \A r \in NewDlqRows(bad) :
        r \in bad /\ \A d \in dlq : DlqKey(d.row) # DlqKey(r)
  BY DEF NewDlqRows
<1>4. \A d \in New : /\ d.row \in NewDlqRows(bad)
                     /\ d = [row |-> d.row, ins |-> dlqInserts + 1]
  OBVIOUS
<1>5. \A r \in NewDlqRows(bad) : [row |-> r, ins |-> dlqInserts + 1] \in New
  OBVIOUS
<1>6. \A r \in bad : r \in NewDlqRows(bad) \/ InDlq(r)
  BY DEF NewDlqRows, InDlq
<1>7. \A r \in BadRows(bronze) :
        /\ r.ver \in Int /\ silverDone \in Int /\ silverPlanned \in Int
        /\ ~(r.ver <= silverDone) /\ r.ver <= silverPlanned => r \in bad
  BY DEF BadRows, Batch, TableTypeOK, BronzeRow, SilverTypeOK
<1> HIDE DEF New, bad
<1>8. RowsComeFromBronze'
  BY <1>1, <1>2, <1>3, <1>4 DEF SilverInv, RowsComeFromBronze, ValidRows, BadRows
<1>9. OneRowPerEvent' /\ SilverCovers'
  BY <1>1 DEF SilverInv, OneRowPerEvent, SilverCovers, SilverHorizon,
              ValidRows, Later
<1>10. DlqCovers'
  <2> SUFFICES ASSUME NEW r \in BadRows(bronze), r.ver <= silverPlanned
               PROVE  \E d \in dlq' : DlqKey(d.row) = DlqKey(r)
    BY <1>1 DEF DlqCovers, DlqHorizon, BadRows, InDlq, DlqKey
  <2>1. CASE r \in NewDlqRows(bad)
    <3> DEFINE d == [row |-> r, ins |-> dlqInserts + 1]
    <3>1. d \in dlq' /\ d.row = r
      BY <2>1, <1>1, <1>5
    <3> HIDE DEF d
    <3> QED
      BY <3>1
  <2>2. CASE InDlq(r)
    BY <2>2, <1>1 DEF InDlq
  <2>3. CASE r \notin bad
    <3>1. r.ver <= DlqHorizon
      BY <2>3, <1>1, <1>7 DEF DlqHorizon
    <3>2. InDlq(r)
      BY <3>1 DEF SilverInv, DlqCovers
    <3> QED
      BY <3>2, <1>1 DEF InDlq
  <2> QED
    BY <2>1, <2>2, <2>3, <1>6
<1>11. DlqCountsOnce'
  <2> SUFFICES ASSUME BronzeKeysUnique, NEW d \in dlq', NEW e \in dlq',
                      DlqKey(d.row) = DlqKey(e.row)
               PROVE  d = e
    BY <1>1 DEF DlqCountsOnce, BronzeKeysUnique, DlqKey
  <2>1. CASE d \in dlq /\ e \in dlq
    BY <2>1 DEF SilverInv, DlqCountsOnce
  <2>2. CASE d \in New /\ e \in dlq
    BY <2>2, <1>3, <1>4
  <2>3. CASE d \in dlq /\ e \in New
    BY <2>3, <1>3, <1>4
  <2>4. CASE d \in New /\ e \in New
    <3>1. d.row \in bronze /\ e.row \in bronze
      BY <2>4, <1>2, <1>3, <1>4 DEF BadRows
    <3>2. d.row = e.row
      BY <3>1 DEF BronzeKeysUnique
    <3> QED
      BY <3>2, <2>4, <1>4
  <2> QED
    BY <2>1, <2>2, <2>3, <2>4, <1>1
<1> QED
  BY <1>8, <1>9, <1>10, <1>11 DEF SilverInv

\* Every step of the job keeps its invariant.
LEMMA SilverStepInv ==
  ASSUME EnvelopeAssumption, TableTypeOK, SilverTypeOK, SilverInv,
         SilverStep, UNCHANGED tableVars
  PROVE  SilverInv'
<1>1. silverDone \in Int /\ silverPlanned \in Int /\ silverDone <= silverPlanned
  BY DEF SilverTypeOK
<1>2. CASE SilverStart
  BY <1>1, <1>2, HorizonFrame DEF SilverStart, SilverHorizon, DlqHorizon
<1>3. CASE SilverPlan
  BY <1>1, <1>3, HorizonFrame DEF SilverPlan, SilverHorizon, DlqHorizon
<1>4. CASE SilverMerge
  BY <1>4, SilverMergeInv
<1>5. CASE DlqMerge
  BY <1>5, DlqMergeInv
<1>6. CASE SilverCommit
  BY <1>1, <1>6, HorizonFrame DEF SilverCommit, SilverHorizon, DlqHorizon
<1>7. CASE SilverFinish
  BY <1>1, <1>7, HorizonFrame DEF SilverFinish, SilverHorizon, DlqHorizon
<1>8. CASE SilverCrash
  <2>1. /\ SilverHorizon \in Int /\ silverDone <= SilverHorizon
        /\ DlqHorizon \in Int /\ silverDone <= DlqHorizon
    BY <1>1 DEF SilverHorizon, DlqHorizon
  <2>2. SilverHorizon' = silverDone /\ DlqHorizon' = silverDone
    BY <1>8 DEF SilverCrash, SilverHorizon, DlqHorizon
  <2> QED
    BY <1>1, <1>8, <2>1, <2>2, HorizonFrame DEF SilverCrash
<1>9. CASE SilverReset
  <2>1. /\ SilverHorizon \in Int /\ 0 <= SilverHorizon
        /\ DlqHorizon \in Int /\ 0 <= DlqHorizon
    BY DEF SilverHorizon, DlqHorizon, SilverTypeOK
  <2>2. SilverHorizon' = 0 /\ DlqHorizon' = 0
    BY <1>9 DEF SilverReset, SilverHorizon, DlqHorizon
  <2> QED
    BY <1>9, <2>1, <2>2, HorizonFrame DEF SilverReset
<1> QED
  BY <1>2, <1>3, <1>4, <1>5, <1>6, <1>7, <1>8, <1>9 DEF SilverStep
-----------------------------------------------------------------------------
\* An append to Bronze, of anything, keeps the invariant: its rows are beyond
\* every horizon.
LEMMA AppendCommitInv ==
  ASSUME TableTypeOK, SilverTypeOK, SilverInv,
         NEW f, DOMAIN f \subseteq Offsets, \A o \in DOMAIN f : f[o] \in Envelopes,
         AppendCommit(f), UNCHANGED silverVars
  PROVE  TableTypeOK' /\ SilverTypeOK' /\ SilverInv'
<1> DEFINE New == {[ver |-> bronzeVersion + 1, off |-> o, env |-> f[o]] :
                     o \in DOMAIN f}
<1>1. /\ bronze' = bronze \cup New /\ bronzeVersion' = bronzeVersion + 1
      /\ silver' = silver /\ dlq' = dlq /\ silverPc' = silverPc
      /\ silverInserts' = silverInserts /\ dlqInserts' = dlqInserts
      /\ silverDone' = silverDone /\ silverPlanned' = silverPlanned
      /\ silverTarget' = silverTarget
  BY DEF AppendCommit, silverVars
<1>2. bronzeVersion \in Nat
  BY DEF TableTypeOK
<1>3. \A r \in New : r \in BronzeRow /\ r.ver = bronzeVersion + 1
  BY <1>2 DEF BronzeRow
<1> HIDE DEF New
<1>4. TableTypeOK'
  <2> SUFFICES ASSUME NEW r \in bronze \cup New
               PROVE  r \in BronzeRow /\ r.ver <= bronzeVersion + 1
    BY <1>1, <1>2 DEF TableTypeOK
  <2>1. CASE r \in bronze
    BY <2>1, <1>2 DEF TableTypeOK, BronzeRow
  <2>2. CASE r \in New
    BY <2>2, <1>2, <1>3
  <2> QED
    BY <2>1, <2>2
<1>5. SilverTypeOK'
  BY <1>1, <1>2 DEF SilverTypeOK
<1>6. SilverHorizon' = SilverHorizon /\ DlqHorizon' = DlqHorizon
      /\ SilverHorizon \in Nat /\ DlqHorizon \in Nat
      /\ SilverHorizon <= bronzeVersion /\ DlqHorizon <= bronzeVersion
  BY <1>1, <1>2 DEF SilverHorizon, DlqHorizon, SilverTypeOK
<1>7. \A r \in New : ~(r.ver <= SilverHorizon) /\ ~(r.ver <= DlqHorizon)
  BY <1>2, <1>3, <1>6
<1>8. RowsComeFromBronze'
  BY <1>1 DEF SilverInv, RowsComeFromBronze, ValidRows, BadRows
<1>9. OneRowPerEvent'
  BY <1>1 DEF SilverInv, OneRowPerEvent
<1>10. SilverCovers'
  <2> SUFFICES ASSUME NEW r \in ValidRows(bronze \cup New),
                      r.ver <= SilverHorizon
               PROVE  \E t \in silver : t.row.env = r.env /\ ~Later(r, t.row)
    BY <1>1, <1>6 DEF SilverCovers, ValidRows, Later
  <2>1. r \in ValidRows(bronze)
    BY <1>7 DEF ValidRows
  <2> QED
    BY <2>1 DEF SilverInv, SilverCovers
<1>11. DlqCovers'
  <2> SUFFICES ASSUME NEW r \in BadRows(bronze \cup New), r.ver <= DlqHorizon
               PROVE  InDlq(r)
    BY <1>1, <1>6 DEF DlqCovers, BadRows, InDlq, DlqKey
  <2>1. r \in BadRows(bronze)
    BY <1>7 DEF BadRows
  <2> QED
    BY <2>1 DEF SilverInv, DlqCovers
<1>12. DlqCountsOnce'
  BY <1>1 DEF SilverInv, DlqCountsOnce, BronzeKeysUnique, DlqKey
<1> QED
  BY <1>4, <1>5, <1>8, <1>9, <1>10, <1>11, <1>12 DEF SilverInv

-----------------------------------------------------------------------------
\* The initial tables and checkpoint satisfy the invariant.
LEMMA SilverInitInv ==
  ASSUME TableInit, SilverInit
  PROVE  TableTypeOK /\ SilverTypeOK /\ SilverInv
<1>1. TableTypeOK /\ SilverTypeOK
  BY DEF TableInit, SilverInit, TableTypeOK, SilverTypeOK
<1>2. SilverInv
  BY DEF TableInit, SilverInit, SilverInv, RowsComeFromBronze, OneRowPerEvent,
         SilverCovers, DlqCovers, DlqCountsOnce, ValidRows, BadRows
<1> QED
  BY <1>1, <1>2

\* The invariant implies what the job promises.
LEMMA SilverInvImplies ==
  ASSUME TableTypeOK, SilverTypeOK, SilverInv
  PROVE  /\ OneRowPerEvent
         /\ NothingDropped
         /\ CaughtUpIsCanonical
         /\ DlqCountsOnce
<1>1. silverDone \in Int /\ SilverHorizon \in Int /\ DlqHorizon \in Int
      /\ silverDone <= SilverHorizon /\ silverDone <= DlqHorizon
  BY DEF SilverHorizon, DlqHorizon, SilverTypeOK
<1>2. \A r \in bronze : r \in BronzeRow /\ r.ver \in Int /\ r.off \in Int
                        /\ r.ver <= bronzeVersion
  BY DEF TableTypeOK, BronzeRow, Offsets
<1>3. NothingDropped
  <2> SUFFICES ASSUME NEW r \in bronze, r.ver <= silverDone
               PROVE  IF r.env \in Valid THEN InSilver(r) ELSE InDlq(r)
    BY DEF NothingDropped
  <2>1. CASE r.env \in Valid
    <3>1. r \in ValidRows(bronze) /\ r.ver <= SilverHorizon
      BY <2>1, <1>1, <1>2 DEF ValidRows
    <3> QED
      BY <2>1, <3>1 DEF SilverInv, SilverCovers, InSilver
  <2>2. CASE r.env \notin Valid
    <3>1. r \in BadRows(bronze) /\ r.ver <= DlqHorizon
      BY <2>2, <1>1, <1>2 DEF BadRows
    <3> QED
      BY <2>2, <3>1 DEF SilverInv, DlqCovers
  <2> QED
    BY <2>1, <2>2
<1>4. ASSUME silverDone = bronzeVersion
      PROVE  {t.row : t \in silver} = ToSilver(ValidRows(bronze))
  <2>1. \A r \in ValidRows(bronze) :
          \E t \in silver : t.row.env = r.env /\ ~Later(r, t.row)
    <3> TAKE r \in ValidRows(bronze)
    <3>1. r.ver <= SilverHorizon
      BY <1>1, <1>2, <1>4 DEF ValidRows
    <3> QED
      BY <3>1 DEF SilverInv, SilverCovers
  <2>2. ASSUME NEW t \in silver
        PROVE  t.row \in ToSilver(ValidRows(bronze))
    <3>1. t.row \in ValidRows(bronze)
      BY DEF SilverInv, RowsComeFromBronze
    <3>2. \A s \in ValidRows(bronze) : s.env = t.row.env => ~Later(s, t.row)
      BY <2>1 DEF SilverInv, OneRowPerEvent
    <3> QED
      BY <3>1, <3>2 DEF ToSilver
  <2>3. ASSUME NEW r \in ToSilver(ValidRows(bronze))
        PROVE  \E t \in silver : t.row = r
    <3>1. r \in ValidRows(bronze)
      BY DEF ToSilver
    <3>2. PICK t \in silver : t.row.env = r.env /\ ~Later(r, t.row)
      BY <2>1, <3>1
    <3>3. t.row \in ToSilver(ValidRows(bronze))
      BY <2>2
    <3>4. ValidRows(bronze) \in SUBSET BronzeRow
      BY DEF ValidRows, TableTypeOK
    <3>5. t.row = r
      BY <3>2, <3>3, <3>4, WindowKeepsOne
    <3> QED
      BY <3>5
  <2> QED
    BY <2>2, <2>3
<1>5. CaughtUpIsCanonical
  BY <1>4 DEF CaughtUpIsCanonical
<1> QED
  BY <1>3, <1>5 DEF SilverInv

\* No step takes an event out of Silver or a key out of the dead-letter queue.
LEMMA SilverStepForgetsNothing ==
  ASSUME TableTypeOK, SilverTypeOK, OneRowPerEvent, SilverStep,
         UNCHANGED tableVars
  PROVE  /\ \A t \in silver : \E u \in silver' : u.row.env = t.row.env
         /\ \A d \in dlq : \E e \in dlq' : DlqKey(e.row) = DlqKey(d.row)
<1>1. CASE SilverMerge
  <2> DEFINE good == ToSilver(ValidRows(Batch))
  <2>1. good \in SUBSET BronzeRow /\ ValidRows(Batch) \in SUBSET BronzeRow
    BY DEF ToSilver, ValidRows, Batch, TableTypeOK
  <2>2. \A s, u \in good : s.env = u.env => s = u
    BY <2>1, WindowKeepsOne
  <2>3. MergeIntoSilver(good) /\ dlq' = dlq
    BY <1>1 DEF SilverMerge
  <2> HIDE DEF good
  <2>4. /\ \A s \in good : \E t \in silver' : t.row = s
        /\ \A t \in silver : (\A s \in good : s.env # t.row.env)
                               => t \in silver'
    BY <2>1, <2>2, <2>3, MergeEffect
  <2> QED
    BY <2>3, <2>4
<1>2. CASE DlqMerge
  BY <1>2 DEF DlqMerge, MergeIntoDlq
<1>3. CASE ~SilverMerge /\ ~DlqMerge
  <2>1. silver' = silver /\ dlq' = dlq
    BY <1>3 DEF SilverStep, SilverStart, SilverPlan, SilverCommit,
                SilverFinish, SilverCrash, SilverReset
  <2> QED
    BY <2>1
<1> QED
  BY <1>1, <1>2, <1>3
=============================================================================
