-------------------------- MODULE MedallionProofs --------------------------
(***************************************************************************)
(* The theorems of Medallion.  Each job does in company what it does       *)
(* alone: a step of the pipeline is a step of BronzeSystem or leaves it    *)
(* alone, and a step of SilverSystem or leaves that alone, so the theorems *)
(* of both hold of the pipeline, and what they say together is what it     *)
(* promises from end to end.                                               *)
(***************************************************************************)
EXTENDS Medallion, SilverLemmas, FiniteSetTheorems

BronzeJob == INSTANCE BronzeProofs

\* Whatever an append may hold: envelopes at offsets.
Batches == UNION {[D -> Envelopes] : D \in SUBSET Offsets}

\* SilverSystem takes its appends from a set and bounds their number; here
\* they are the Bronze job's, and the bound is the one BronzeProofs gives.
SilverJob == INSTANCE SilverProofs WITH
  Commits <- Batches,
  MaxVersion <- (MaxResets + 1) * MaxLog

\* The bound on the Bronze commits that the two bounds of the instance imply.
CommitsFit == bronzeVersion <= (MaxResets + 1) * MaxLog

LEMMA BronzeAssumptions ==
  BronzeJob!EnvelopeAssumption /\ BronzeJob!BronzeBounds
BY EnvelopeAssumption, MedallionBounds
DEF BronzeJob!EnvelopeAssumption, BronzeJob!BronzeBounds

LEMMA SilverAssumptions ==
  SilverJob!EnvelopeAssumption /\ SilverJob!CommitsAssumption
<1>1. (MaxResets + 1) * MaxLog \in Nat
  BY MedallionBounds
<1>2. \A f \in Batches :
        DOMAIN f \subseteq Offsets /\ \A o \in DOMAIN f : f[o] \in Envelopes
  BY DEF Batches
<1> HIDE DEF Batches
<1> QED
  BY <1>1, <1>2, EnvelopeAssumption
  DEF SilverJob!EnvelopeAssumption, SilverJob!CommitsAssumption,
      Offsets, SilverJob!Offsets, Envelopes, SilverJob!Envelopes
-----------------------------------------------------------------------------
(***************************************************************************)
(* The Bronze job in company.                                              *)
(***************************************************************************)

\* An append of the Bronze job is an append of BronzeSystem.
LEMMA AppendIsAppend == BronzeAppend => BronzeJob!BronzeAppend
BY DEF BronzeAppend, BronzeJob!BronzeAppend, InSink, BronzeJob!InSink,
       DataLoss, BronzeJob!DataLoss, BatchRows, BronzeJob!BatchRows,
       AppendCommit, BronzeJob!AppendCommit, topicVars, tableVars,
       BronzeJob!topicVars, BronzeJob!tableVars

\* The Bronze job's step, and what it leaves alone, are those of BronzeSystem.
LEMMA BronzeStepRuns ==
  ASSUME [Next]_vars
  PROVE  [BronzeJob!Next]_(BronzeJob!vars)
<1> USE DEF BronzeJob!Next, topicVars, tableVars, bronzeVars,
            BronzeJob!topicVars, BronzeJob!tableVars, BronzeJob!bronzeVars
<1>1. ASSUME NEW e \in Envelopes, EndOfLog < MaxLog, Produce(e)
      PROVE  BronzeJob!Next
  <2>1. e \in BronzeJob!Envelopes /\ BronzeJob!EndOfLog < MaxLog /\ BronzeJob!Produce(e)
    BY <1>1 DEF Envelopes, BronzeJob!Envelopes, EndOfLog, BronzeJob!EndOfLog,
                Produce, BronzeJob!Produce
  <2> QED
    BY <2>1
<1>2. CASE Expire
  BY <1>2 DEF Expire, BronzeJob!Expire, EndOfLog, BronzeJob!EndOfLog
<1>3. CASE BronzeStart
  BY <1>3 DEF BronzeStart, BronzeJob!BronzeStart, EndOfLog, BronzeJob!EndOfLog,
              NoCheckpoint, BronzeJob!NoCheckpoint
<1>4. CASE BronzePlan
  BY <1>4 DEF BronzePlan, BronzeJob!BronzePlan
<1>5. CASE BronzeAppend
  BY <1>5, AppendIsAppend
<1>6. CASE BronzeFail
  BY <1>6 DEF BronzeFail, BronzeJob!BronzeFail, InSink, BronzeJob!InSink,
              DataLoss, BronzeJob!DataLoss
<1>7. CASE BronzeCommit \/ BronzeFinish \/ BronzeCrash
  BY <1>7 DEF BronzeCommit, BronzeJob!BronzeCommit, BronzeFinish, BronzeJob!BronzeFinish,
              BronzeCrash, BronzeJob!BronzeCrash
<1>8. CASE queryId < MaxResets /\ BronzeReset
  BY <1>8 DEF BronzeReset, BronzeJob!BronzeReset, NoCheckpoint, BronzeJob!NoCheckpoint
<1>9. CASE UNCHANGED outsideSilver
  BY <1>9 DEF outsideSilver, BronzeJob!vars
<1>10. UNCHANGED vars => UNCHANGED outsideSilver
  BY DEF vars, outsideSilver
<1> QED
  BY <1>1, <1>2, <1>3, <1>4, <1>5, <1>6, <1>7, <1>8, <1>9, <1>10 DEF Next

\* The pipeline implements BronzeSystem: nothing the Silver job does is seen
\* by the Bronze job (two jobs with a checkpoint each; 01_bronze_ingest.py).
THEOREM MedallionRunsBronze == Spec => BronzeJob!Spec
<1>1. Init => BronzeJob!Init
  BY DEF Init, BronzeJob!Init, TableInit, BronzeJob!TableInit, BronzeInit,
         BronzeJob!BronzeInit, NoCheckpoint, BronzeJob!NoCheckpoint
<1> QED
  BY <1>1, BronzeStepRuns, PTL DEF Spec, BronzeJob!Spec

\* Bronze copies the topic once and in order, whatever Silver does meanwhile.
THEOREM MedallionCopies == Spec => BronzeJob!CopySpec
<1>1. BronzeJob!Spec => BronzeJob!CopySpec
  BY BronzeJob!BronzeImplementsCopy, BronzeAssumptions
<1> QED
  BY <1>1, MedallionRunsBronze, PTL

LEMMA BronzeInvariance == Spec => []BronzeJob!BronzeInv
<1>1. BronzeJob!Spec => []BronzeJob!BronzeInv
  BY BronzeJob!BronzeInvariance, BronzeAssumptions
<1> QED
  BY <1>1, MedallionRunsBronze, PTL

\* What the invariant of BronzeProofs says, in this module's words.
LEMMA BronzeFacts ==
  ASSUME BronzeJob!BronzeInv
  PROVE  /\ TableTypeOK /\ BronzeTypeOK
         /\ Verbatim /\ NoSilentSkip
         /\ queryId = 0 => \A r, s \in bronze : r.off = s.off => r = s
<1>1. TableTypeOK /\ BronzeTypeOK
  BY DEF BronzeJob!BronzeInv, BronzeJob!TableTypeOK, TableTypeOK,
         BronzeJob!BronzeTypeOK, BronzeTypeOK, EndOfLog, BronzeJob!EndOfLog,
         NoCheckpoint, BronzeJob!NoCheckpoint, Envelopes, BronzeJob!Envelopes,
         BronzeRow, BronzeJob!BronzeRow, Offsets, BronzeJob!Offsets
<1>2. BronzeJob!Verbatim /\ BronzeJob!NoSilentSkip
  BY BronzeJob!BronzeInvImplies, BronzeAssumptions
<1>3. Verbatim /\ NoSilentSkip
  <2>1. Verbatim
    BY <1>2 DEF Verbatim, BronzeJob!Verbatim, EndOfLog, BronzeJob!EndOfLog
  <2>2. NoSilentSkip
    BY <1>2 DEF NoSilentSkip, BronzeJob!NoSilentSkip, NoCheckpoint, BronzeJob!NoCheckpoint
  <2> QED
    BY <2>1, <2>2
<1>4. queryId = 0 => \A r, s \in bronze : r.off = s.off => r = s
  BY BronzeJob!FirstCheckpointUnique, BronzeAssumptions
<1> QED
  BY <1>1, <1>3, <1>4
-----------------------------------------------------------------------------
(***************************************************************************)
(* The Silver job in company.                                              *)
(***************************************************************************)

\* What an append of the Bronze job is to SilverSystem: one of its appends, or
\* nothing.
LEMMA AppendRuns ==
  ASSUME BronzeJob!BronzeInv, BronzeJob!BronzeAppend, UNCHANGED silverVars,
         bronzeVersion' <= (MaxResets + 1) * MaxLog
  PROVE  SilverJob!BronzeAppend \/ UNCHANGED <<tableVars, silverVars>>
<1> DEFINE f == BronzeJob!BatchRows
<1>1. \/ UNCHANGED BronzeJob!tableVars
      \/ /\ BronzeJob!AppendCommit(f)
         /\ DOMAIN f \subseteq BronzeJob!Offsets
         /\ \A o \in DOMAIN f : f[o] \in BronzeJob!Envelopes
  BY BronzeJob!AppendIsCommit, BronzeAssumptions
<1>2. CASE UNCHANGED BronzeJob!tableVars
  BY <1>2 DEF BronzeJob!tableVars, tableVars
<1>3. CASE /\ BronzeJob!AppendCommit(f)
           /\ DOMAIN f \subseteq Offsets
           /\ \A o \in DOMAIN f : f[o] \in Envelopes
  <2>1. f \in Batches
    <3>1. f = [o \in DOMAIN f |-> f[o]]
      BY DEF BronzeJob!BatchRows
    <3> HIDE DEF f
    <3>2. f \in [DOMAIN f -> Envelopes]
      BY <1>3, <3>1
    <3> QED
      BY <1>3, <3>2 DEF Batches
  <2>2. bronzeVersion < (MaxResets + 1) * MaxLog
    <3>1. bronzeVersion' = bronzeVersion + 1
      BY <1>3 DEF BronzeJob!AppendCommit
    <3>2. bronzeVersion \in Nat /\ (MaxResets + 1) * MaxLog \in Nat
      BY BronzeFacts, MedallionBounds DEF TableTypeOK
    <3> QED
      BY <3>1, <3>2
  <2>3. SilverJob!AppendCommit(f)
    BY <1>3 DEF BronzeJob!AppendCommit, SilverJob!AppendCommit
  <2>4. UNCHANGED SilverJob!silverVars
    BY DEF silverVars, SilverJob!silverVars
  <2> HIDE DEF f
  <2> QED
    BY <2>1, <2>2, <2>3, <2>4 DEF SilverJob!BronzeAppend
<1> QED
  BY <1>1, <1>2, <1>3 DEF Offsets, BronzeJob!Offsets, Envelopes, BronzeJob!Envelopes

\* The Silver job's own steps are those of SilverSystem.
LEMMA SilverStepRuns ==
  ASSUME SilverStep, UNCHANGED tableVars
  PROVE  SilverJob!Next
<1> USE DEF SilverJob!Next, SilverJob!tableVars, tableVars
<1>1. CASE SilverStart
  BY <1>1 DEF SilverStart, SilverJob!SilverStart
<1>2. CASE SilverPlan
  BY <1>2 DEF SilverPlan, SilverJob!SilverPlan
<1>3. CASE SilverMerge
  <2>1. SilverJob!SilverMerge
    BY <1>3
    DEF SilverMerge, SilverJob!SilverMerge, MergeIntoSilver, SilverJob!MergeIntoSilver,
        ToSilver, SilverJob!ToSilver, ValidRows, SilverJob!ValidRows,
        Batch, SilverJob!Batch, Later, SilverJob!Later,
        MatchedRows, SilverJob!MatchedRows, UnmatchedRows, SilverJob!UnmatchedRows
  <2> QED
    BY <2>1
<1>4. CASE DlqMerge
  <2>1. SilverJob!DlqMerge
    BY <1>4
    DEF DlqMerge, SilverJob!DlqMerge, MergeIntoDlq, SilverJob!MergeIntoDlq,
        BadRows, SilverJob!BadRows, Batch, SilverJob!Batch,
        NewDlqRows, SilverJob!NewDlqRows, DlqKey, SilverJob!DlqKey
  <2> QED
    BY <2>1
<1>5. CASE SilverCommit \/ SilverFinish \/ SilverCrash \/ SilverReset
  BY <1>5
  DEF SilverCommit, SilverJob!SilverCommit, SilverFinish, SilverJob!SilverFinish,
      SilverCrash, SilverJob!SilverCrash, SilverReset, SilverJob!SilverReset
<1> QED
  BY <1>1, <1>2, <1>3, <1>4, <1>5 DEF SilverStep

\* A step of the pipeline is a Silver step over an unchanged Bronze table, an
\* append, or nothing that concerns Silver.
LEMMA MedallionCases ==
  ASSUME [Next]_vars
  PROVE  \/ SilverStep /\ UNCHANGED outsideSilver
         \/ BronzeAppend /\ UNCHANGED silverVars
         \/ UNCHANGED <<tableVars, silverVars>>
<1>1. CASE UNCHANGED vars
  BY <1>1 DEF vars, silverVars, tableVars
<1>2. CASE SilverStep /\ UNCHANGED outsideSilver
  BY <1>2
<1>3. CASE BronzeAppend /\ UNCHANGED silverVars
  BY <1>3
<1>4. CASE /\ \/ \E e \in Envelopes : Produce(e)
              \/ Expire \/ BronzeStart \/ BronzePlan \/ BronzeFail
              \/ BronzeCommit \/ BronzeFinish \/ BronzeCrash \/ BronzeReset
           /\ UNCHANGED silverVars
  BY <1>4 DEF Produce, Expire, BronzeStart, BronzePlan, BronzeFail, BronzeCommit,
              BronzeFinish, BronzeCrash, BronzeReset
<1> QED
  BY <1>1, <1>2, <1>3, <1>4 DEF Next, SilverStep

\* The pipeline implements SilverSystem: whatever the Bronze job goes through,
\* what reaches Silver is a sequence of appends of the kind SilverSystem is
\* checked and proved with (02_silver_transform.py reads the table only).
THEOREM MedallionRunsSilver == Spec => SilverJob!Spec
<1>1. Init => SilverJob!Init
  BY DEF Init, SilverJob!Init, TableInit, SilverJob!TableInit, SilverInit,
         SilverJob!SilverInit
<1>2. ASSUME BronzeJob!BronzeInv, CommitsFit', [Next]_vars
      PROVE  [SilverJob!Next]_(SilverJob!vars)
  <2>1. CASE SilverStep /\ UNCHANGED outsideSilver
    BY <2>1, SilverStepRuns DEF outsideSilver
  <2>2. CASE UNCHANGED <<tableVars, silverVars>>
    BY <2>2 DEF SilverJob!vars, tableVars, SilverJob!tableVars, silverVars,
                SilverJob!silverVars
  <2>3. CASE BronzeAppend /\ UNCHANGED silverVars
    <3>1. BronzeJob!BronzeAppend
      BY <2>3, AppendIsAppend
    <3> QED
      BY <1>2, <2>2, <2>3, <3>1, AppendRuns DEF SilverJob!Next, CommitsFit
  <2> QED
    BY <1>2, <2>1, <2>2, <2>3, MedallionCases
<1>3. BronzeJob!Spec => []CommitsFit
  BY BronzeJob!BronzeCommitsBounded, BronzeAssumptions, PTL DEF CommitsFit
<1> QED
  BY <1>1, <1>2, <1>3, BronzeInvariance, MedallionRunsBronze, PTL
  DEF Spec, SilverJob!Spec

LEMMA SilverInvariance == Spec => [](SilverJob!TypeOK /\ SilverJob!SilverInv)
<1>1. SilverJob!Spec => [](SilverJob!TypeOK /\ SilverJob!SilverInv)
  BY SilverJob!Invariance, SilverAssumptions
<1> QED
  BY <1>1, MedallionRunsSilver, PTL

\* What the invariant of SilverProofs says, in this module's words.
LEMMA SilverFacts ==
  ASSUME SilverJob!TypeOK, SilverJob!SilverInv
  PROVE  SilverTypeOK /\ SilverInv
<1>1. SilverTypeOK
  BY DEF SilverJob!TypeOK, SilverJob!SilverTypeOK, SilverTypeOK, TargetRow,
         SilverJob!TargetRow, BronzeRow, SilverJob!BronzeRow, Offsets,
         SilverJob!Offsets, Envelopes, SilverJob!Envelopes
<1>2. RowsComeFromBronze /\ OneRowPerEvent
  BY DEF SilverJob!SilverInv, SilverJob!RowsComeFromBronze, RowsComeFromBronze,
         SilverJob!OneRowPerEvent, OneRowPerEvent, ValidRows, SilverJob!ValidRows,
         BadRows, SilverJob!BadRows
<1>3. SilverCovers
  BY DEF SilverJob!SilverInv, SilverJob!SilverCovers, SilverCovers, ValidRows,
         SilverJob!ValidRows, Later, SilverJob!Later, SilverHorizon,
         SilverJob!SilverHorizon
<1>4. DlqCovers /\ DlqCountsOnce
  BY DEF SilverJob!SilverInv, SilverJob!DlqCovers, DlqCovers, BadRows,
         SilverJob!BadRows, DlqHorizon, SilverJob!DlqHorizon, InDlq,
         SilverJob!InDlq, DlqKey, SilverJob!DlqKey, SilverJob!DlqCountsOnce,
         DlqCountsOnce, SilverJob!BronzeKeysUnique, BronzeKeysUnique
<1> QED
  BY <1>1, <1>2, <1>3, <1>4 DEF SilverInv
-----------------------------------------------------------------------------
(***************************************************************************)
(* The pipeline.                                                           *)
(***************************************************************************)

\* What both jobs keep, taken together.
MedallionInv ==
  /\ TypeOK
  /\ Verbatim /\ NoSilentSkip
  /\ queryId = 0 => \A r, s \in bronze : r.off = s.off => r = s
  /\ SilverInv

\* What each job keeps by itself it keeps in company.
THEOREM MedallionInvariance == Spec => []MedallionInv
<1>1. BronzeJob!BronzeInv /\ SilverJob!TypeOK /\ SilverJob!SilverInv => MedallionInv
  BY BronzeFacts, SilverFacts DEF MedallionInv, TypeOK
<1> QED
  BY <1>1, BronzeInvariance, SilverInvariance, PTL

\* Both checkpoints stay ordered within what they read.
THEOREM MedallionTypeCorrect == Spec => []TypeOK
<1>1. MedallionInv => TypeOK
  BY DEF MedallionInv
<1> QED
  BY <1>1, MedallionInvariance, PTL

\* Once Silver has caught up, every record Bronze has gone past is in Silver
\* or, under its offset, in the dead-letter queue: end to end, nothing is lost.
THEOREM MedallionRecordsLand == Spec => []RecordsLand
<1>1. MedallionInv => RecordsLand
  <2> SUFFICES ASSUME MedallionInv, silverDone = bronzeVersion,
                      bronzeStart # NoCheckpoint,
                      NEW o \in bronzeStart .. bronzeDone - 1
               PROVE  Landed(o)
    BY DEF RecordsLand
  <2>1. PICK r \in bronze : r.off = o /\ r.env = log[o + 1]
    BY DEF MedallionInv, NoSilentSkip, Verbatim
  <2>2. r.ver <= silverDone /\ NothingDropped
    BY SilverInvImplies DEF MedallionInv, TypeOK, TableTypeOK
  <2>3. IF r.env \in Valid THEN InSilver(r) ELSE InDlq(r)
    BY <2>2 DEF NothingDropped
  <2> QED
    BY <2>1, <2>3 DEF Landed, InSilver, InDlq, DlqKey
<1> QED
  BY <1>1, MedallionInvariance, PTL

\* Until somebody clears Bronze's checkpoint, the dead-letter queue has one
\* row per bad record that Silver has gone past: the offset of a quarantined
\* row is a bijection onto those records.
THEOREM MedallionDlqIsExact == Spec => []DlqIsExact
<1>1. MedallionInv => DlqIsExact
  <2> DEFINE Bad == {o \in 0 .. EndOfLog - 1 : Ingested(o) /\ log[o + 1] \notin Valid}
             off == [d \in dlq |-> d.row.off]
  <2> SUFFICES ASSUME MedallionInv, queryId = 0, silverDone = bronzeVersion
               PROVE  Cardinality(dlq) = Cardinality(Bad)
    BY DEF DlqIsExact
  <2>0. BronzeTypeOK /\ Verbatim /\ TableTypeOK /\ SilverTypeOK /\ SilverInv
    BY DEF MedallionInv, TypeOK
  <2>1. \A d \in dlq : /\ d.row \in bronze /\ d.row.env \notin Valid
                       /\ d.row.off \in 0 .. EndOfLog - 1
                       /\ d.row.env = log[d.row.off + 1]
    BY <2>0 DEF SilverInv, RowsComeFromBronze, BadRows, Verbatim
  <2>2. \A r, s \in bronze : r.off = s.off => r = s
    BY DEF MedallionInv
  <2>3. \A d, e \in dlq : d.row.off = e.row.off => d = e
    <3>1. BronzeKeysUnique
      BY <2>2 DEF BronzeKeysUnique, DlqKey
    <3>2. \A d, e \in dlq : DlqKey(d.row) = DlqKey(e.row) => d = e
      BY <2>0, <3>1 DEF SilverInv, DlqCountsOnce
    <3> QED
      BY <2>1, <2>2, <3>2
  <2>4. \A o \in Bad : \E d \in dlq : d.row.off = o
    <3> TAKE o \in Bad
    <3>1. PICK r \in bronze : r.off = o
      BY DEF Ingested
    <3>2. r.env = log[o + 1] /\ r.env \notin Valid
      BY <2>0, <3>1 DEF Verbatim
    <3>3. NothingDropped /\ r.ver <= silverDone
      BY <2>0, SilverInvImplies DEF TableTypeOK
    <3> QED
      BY <3>1, <3>2, <3>3 DEF NothingDropped, InDlq, DlqKey
  <2>5. IsFiniteSet(Bad)
    <3>1. EndOfLog - 1 \in Int /\ 0 \in Int
      BY <2>0 DEF BronzeTypeOK, EndOfLog
    <3>2. IsFiniteSet(0 .. EndOfLog - 1)
      BY <3>1, FS_Interval
    <3> QED
      BY <3>2, FS_Subset
  <2>6. off \in [dlq -> Bad]
    BY <2>1 DEF Ingested
  <2>7. off \in Injection(dlq, Bad)
    BY <2>3, <2>6 DEF Injection, IsInjective
  <2>8. off \in Surjection(dlq, Bad)
    BY <2>4, <2>6 DEF Surjection
  <2> HIDE DEF Bad, off
  <2> QED
    BY <2>5, <2>7, <2>8, FS_Injection
<1> QED
  BY <1>1, MedallionInvariance, PTL

\* What a step of the pipeline may never do: take an event out of Silver or a
\* key out of the dead-letter queue, whatever Bronze appends or appends again.
THEOREM MedallionForgetsNothing == Spec => SilverJob!NeverForgotten
<1>1. SilverJob!Spec => SilverJob!NeverForgotten
  BY SilverJob!SilverForgetsNothing, SilverAssumptions
<1> QED
  BY <1>1, MedallionRunsSilver, PTL
-----------------------------------------------------------------------------
(***************************************************************************)
(* The pipeline as one store.                                              *)
(***************************************************************************)

\* A record produced is an envelope received, and nothing else happens to it.
LEMMA ProduceReceives ==
  ASSUME BronzeTypeOK, NEW e \in Envelopes, Produce(e), UNCHANGED silverVars
  PROVE  Store!Receive
<1>1. log' = Append(log, e) /\ log \in Seq(Envelopes)
  BY DEF Produce, BronzeTypeOK
<1>2. {log'[i] : i \in 1 .. EndOfLog'} = {log[i] : i \in 1 .. EndOfLog} \cup {e}
  <2>1. Len(log) \in Nat /\ Len(log') = Len(log) + 1
    BY <1>1
  <2>2. log'[Len(log) + 1] = e /\ \A i \in 1 .. Len(log) : log'[i] = log[i]
    BY <1>1
  <2>3. 1 .. Len(log') = (1 .. Len(log)) \cup {Len(log) + 1}
    BY <2>1
  <2> QED
    BY <2>2, <2>3 DEF EndOfLog
<1>3. {e} \in SUBSET (Valid \cup (Invalid \cup Unparseable))
  BY DEF Envelopes
<1>4. silver' = silver /\ dlq' = dlq
  BY DEF silverVars
<1> QED
  BY <1>2, <1>3, <1>4 DEF Store!Receive

\* What the Silver job does to the store it fills from Bronze, it does to the
\* store the topic fills: what is in Bronze is in the topic.
LEMMA SilverStoreRuns ==
  ASSUME BronzeTypeOK, Verbatim, log' = log,
         [SilverJob!Store!Next]_(SilverJob!Store!storeVars)
  PROVE  [Store!Next]_(Store!storeVars)
<1>1. {r.env : r \in bronze} \subseteq {log[i] : i \in 1 .. EndOfLog}
  <2> SUFFICES ASSUME NEW r \in bronze
               PROVE  \E i \in 1 .. EndOfLog : r.env = log[i]
    OBVIOUS
  <2>1. r.off \in 0 .. EndOfLog - 1 /\ r.env = log[r.off + 1]
    BY DEF Verbatim
  <2>2. r.off + 1 \in 1 .. EndOfLog
    <3>1. EndOfLog \in Nat
      BY DEF BronzeTypeOK, EndOfLog
    <3> QED
      BY <2>1, <3>1
  <2> QED
    BY <2>1, <2>2
<1>2. {log'[i] : i \in 1 .. EndOfLog'} = {log[i] : i \in 1 .. EndOfLog}
  BY DEF EndOfLog
<1>3. CASE SilverJob!Store!Accept
  BY <1>1, <1>2, <1>3 DEF SilverJob!Store!Accept, Store!Next, Store!Accept
<1>4. CASE SilverJob!Store!Quarantine
  BY <1>1, <1>2, <1>4 DEF SilverJob!Store!Quarantine, Store!Next, Store!Quarantine
<1>5. CASE SilverJob!Store!Receive \/ UNCHANGED SilverJob!Store!storeVars
  BY <1>2, <1>5 DEF SilverJob!Store!Receive, SilverJob!Store!storeVars, Store!storeVars
<1> QED
  BY <1>3, <1>4, <1>5 DEF SilverJob!Store!Next

\* Only a record produced changes the log (retention moves its beginning).
LEMMA LogCases ==
  ASSUME [Next]_vars
  PROVE  \/ \E e \in Envelopes : Produce(e) /\ UNCHANGED silverVars
         \/ log' = log
<1>1. CASE UNCHANGED vars
  BY <1>1 DEF vars, topicVars
<1>2. CASE UNCHANGED outsideSilver
  BY <1>2 DEF outsideSilver, topicVars
<1>3. CASE \/ Expire \/ BronzeStart \/ BronzePlan \/ BronzeAppend \/ BronzeFail
           \/ BronzeCommit \/ BronzeFinish \/ BronzeCrash \/ BronzeReset
  BY <1>3 DEF Expire, BronzeStart, BronzePlan, BronzeAppend, BronzeFail, BronzeCommit,
              BronzeFinish, BronzeCrash, BronzeReset, topicVars
<1> QED
  BY <1>1, <1>2, <1>3 DEF Next

\* The pipeline implements the abstract store from the topic to the two Silver
\* tables: crashes, retries, lost checkpoints, expired records and Bronze
\* appending an offset again are stuttering steps of it.
THEOREM MedallionImplementsStore == Spec => StoreSpec
<1>1. Init => Store!Init
  <2>1. Init => EndOfLog = 0
    BY DEF Init, BronzeInit, EndOfLog
  <2> QED
    BY <2>1 DEF Init, SilverInit, Store!Init
<1>2. ASSUME MedallionInv, [Next]_vars,
             [SilverJob!Store!Next]_(SilverJob!Store!storeVars)
      PROVE  [Store!Next]_(Store!storeVars)
  <2>1. CASE \E e \in Envelopes : Produce(e) /\ UNCHANGED silverVars
    BY <1>2, <2>1, ProduceReceives DEF MedallionInv, TypeOK, Store!Next
  <2>2. CASE log' = log
    BY <1>2, <2>2, SilverStoreRuns DEF MedallionInv, TypeOK
  <2> QED
    BY <1>2, <2>1, <2>2, LogCases
<1>3. SilverJob!Spec => SilverJob!StoreSpec
  BY SilverJob!ImplementsStore, SilverAssumptions
<1>4. SilverJob!StoreSpec => [][SilverJob!Store!Next]_(SilverJob!Store!storeVars)
  BY PTL DEF SilverJob!StoreSpec, SilverJob!Store!Spec
<1> QED
  BY <1>1, <1>2, <1>3, <1>4, MedallionInvariance, MedallionRunsSilver, PTL
  DEF Spec, StoreSpec, Store!Spec
=============================================================================
