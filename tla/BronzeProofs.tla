---------------------------- MODULE BronzeProofs ----------------------------
(***************************************************************************)
(* The theorems of BronzeSystem: for any records, any bound on the topic   *)
(* and on the resets, and retention, crashes and resets at any point.      *)
(***************************************************************************)
EXTENDS BronzeSystem, FiniteSetTheorems, TLAPS

RowsAt(o) == {r \in bronze : r.off = o}

\* What the three parts of a checkpoint, and the sink's memory of the latest
\* append, have to do with each other.
CheckpointOK ==
  /\ EndOfLog <= MaxOffset + 1
  /\ bronzeStart = NoCheckpoint <=> bronzeDone = NoCheckpoint
  /\ bronzeDone = NoCheckpoint <=> bronzePlanned = NoCheckpoint
  /\ bronzePc # "idle" => bronzeDone # NoCheckpoint
  /\ sinkTxn.query <= queryId
  /\ sinkTxn.query = queryId => sinkTxn.batch <= batchId
  /\ InSink => bronzeDone < bronzePlanned
  /\ bronzePc = "appended" => InSink

\* Every offset of the checkpoint up to the horizon is in the table.
Covered ==
  bronzeStart # NoCheckpoint =>
    \A o \in bronzeStart .. Horizon - 1 : RowsAt(o) # {}

\* An offset is in the table once for every earlier checkpoint at most, and
\* once more if it is behind the horizon of this one.
CountedOnce ==
  \A o \in Nat :
    /\ IsFiniteSet(RowsAt(o))
    /\ Cardinality(RowsAt(o)) <= queryId + (IF o < Horizon THEN 1 ELSE 0)

BronzeInv ==
  /\ TableTypeOK
  /\ BronzeTypeOK
  /\ CheckpointOK
  /\ Verbatim
  /\ Covered
  /\ CountedOnce

-----------------------------------------------------------------------------
(***************************************************************************)
(* What the steps of the job and of the topic preserve.                    *)
(***************************************************************************)

LEMMA BronzeInitInv ==
  ASSUME EnvelopeAssumption, TableInit, BronzeInit
  PROVE  BronzeInv
<1> USE DEF TableInit, BronzeInit
<1>1. TableTypeOK /\ BronzeTypeOK
  BY DEF TableTypeOK, BronzeTypeOK, EndOfLog, NoCheckpoint
<1>2. CheckpointOK
  BY EnvelopeAssumption DEF CheckpointOK, EndOfLog, NoCheckpoint, InSink
<1>3. Verbatim /\ Covered
  BY DEF Verbatim, Covered, NoCheckpoint
<1>4. CountedOnce
  <2>1. \A o \in Nat : RowsAt(o) = {}
    BY DEF RowsAt
  <2> QED
    BY <2>1, FS_EmptySet DEF CountedOnce, Horizon, InSink, NoCheckpoint
<1> QED
  BY <1>1, <1>2, <1>3, <1>4 DEF BronzeInv

\* What a step that leaves the table alone owes: its effect on the checkpoint.
LEMMA SameTable ==
  ASSUME BronzeInv, UNCHANGED <<log, tableVars>>
  PROVE  TableTypeOK' /\ Verbatim' /\ \A o : RowsAt(o)' = RowsAt(o)
<1>1. log' = log /\ bronze' = bronze /\ bronzeVersion' = bronzeVersion
  BY DEF tableVars
<1>2. TableTypeOK' /\ Verbatim'
  BY <1>1 DEF BronzeInv, TableTypeOK, Verbatim, EndOfLog
<1>3. \A o : RowsAt(o)' = RowsAt(o)
  BY <1>1 DEF RowsAt
<1> QED
  BY <1>2, <1>3

\* The topic gains a record, or loses one to retention.
LEMMA TopicInv ==
  ASSUME EnvelopeAssumption, BronzeInv,
         (EndOfLog <= MaxOffset /\ \E e \in Envelopes : Produce(e)) \/ Expire
  PROVE  BronzeInv'
<1>0. TableTypeOK /\ BronzeTypeOK /\ CheckpointOK /\ Verbatim /\ Covered /\ CountedOnce
  BY DEF BronzeInv
<1>1. CASE Expire
  <2>1. UNCHANGED <<log, tableVars, bronzeVars>>
    BY <1>1 DEF Expire
  <2>2. BronzeTypeOK'
    BY <1>0, <1>1 DEF Expire, BronzeTypeOK, EndOfLog, bronzeVars
  <2>3. TableTypeOK' /\ Verbatim' /\ \A o : RowsAt(o)' = RowsAt(o)
    BY <2>1, SameTable
  <2>4. CheckpointOK' /\ Horizon' = Horizon
    BY <1>0, <2>1 DEF CheckpointOK, Horizon, InSink, EndOfLog, bronzeVars
  <2>5. Covered' /\ CountedOnce'
    BY <1>0, <2>1, <2>3, <2>4 DEF Covered, CountedOnce, bronzeVars
  <2> QED
    BY <2>2, <2>3, <2>4, <2>5 DEF BronzeInv
<1>2. ASSUME EndOfLog <= MaxOffset, NEW e \in Envelopes, Produce(e)
      PROVE  BronzeInv'
  <2>1. /\ log' \in Seq(Envelopes)
        /\ Len(log') = Len(log) + 1
        /\ \A i \in 1 .. Len(log) : log'[i] = log[i]
        /\ Len(log) \in Nat
    BY <1>0, <1>2 DEF Produce, BronzeTypeOK
  <2>2. /\ UNCHANGED <<earliest, bronze, bronzeVersion>>
        /\ UNCHANGED bronzeVars
    BY <1>2 DEF Produce, tableVars
  <2>3. TableTypeOK'
    BY <1>0, <2>2 DEF TableTypeOK
  <2>4. BronzeTypeOK'
    BY <1>0, <2>1, <2>2 DEF BronzeTypeOK, EndOfLog, bronzeVars, NoCheckpoint
  <2>5. CheckpointOK' /\ Horizon' = Horizon
    BY <1>0, <1>2, <2>1, <2>2, EnvelopeAssumption
    DEF CheckpointOK, Horizon, InSink, EndOfLog, bronzeVars
  <2>6. Verbatim'
    BY <1>0, <2>1, <2>2 DEF Verbatim, EndOfLog
  <2>7. \A o : RowsAt(o)' = RowsAt(o)
    BY <2>2 DEF RowsAt
  <2>8. Covered' /\ CountedOnce'
    BY <1>0, <2>2, <2>5, <2>7 DEF Covered, CountedOnce, bronzeVars
  <2> QED
    BY <2>3, <2>4, <2>5, <2>6, <2>8 DEF BronzeInv
<1> QED
  BY <1>1, <1>2

\* The steps of the query that touch neither topic nor table leave the horizon
\* where it is, but for a first run, which begins a checkpoint, and a reset,
\* which makes the next one a new query.
LEMMA HorizonMoves ==
  ASSUME BronzeInv,
         \/ BronzeStart \/ BronzePlan \/ BronzeFail \/ BronzeCommit
         \/ BronzeFinish \/ BronzeCrash \/ BronzeReset
  PROVE  \/ /\ queryId' = queryId /\ bronzeStart' = bronzeStart
            /\ Horizon' = Horizon
         \/ /\ queryId' = queryId /\ Horizon = NoCheckpoint
            /\ Horizon' = earliest /\ bronzeStart' = earliest
         \/ /\ queryId' = queryId + 1
            /\ Horizon' = NoCheckpoint /\ bronzeStart' = NoCheckpoint
<1>1. BronzeTypeOK /\ CheckpointOK
  BY DEF BronzeInv
<1>2. UNCHANGED <<log, earliest, tableVars, sinkTxn>>
  BY DEF BronzeStart, BronzePlan, BronzeFail, BronzeCommit, BronzeFinish,
         BronzeCrash, BronzeReset, topicVars
<1>3. CASE BronzeStart
  BY <1>1, <1>2, <1>3
  DEF BronzeStart, BronzeTypeOK, CheckpointOK, Horizon, InSink, NoCheckpoint
<1>4. CASE BronzePlan
  BY <1>1, <1>2, <1>4
  DEF BronzePlan, BronzeTypeOK, CheckpointOK, Horizon, InSink, NoCheckpoint
<1>5. CASE BronzeFail \/ BronzeFinish \/ BronzeCrash
  BY <1>1, <1>2, <1>5
  DEF BronzeFail, BronzeFinish, BronzeCrash, Horizon, InSink
<1>6. CASE BronzeCommit
  BY <1>1, <1>2, <1>6
  DEF BronzeCommit, BronzeTypeOK, CheckpointOK, Horizon, InSink, NoCheckpoint
<1>7. CASE BronzeReset
  BY <1>1, <1>2, <1>7
  DEF BronzeReset, BronzeTypeOK, CheckpointOK, Horizon, InSink, NoCheckpoint
<1> QED
  BY <1>3, <1>4, <1>5, <1>6, <1>7

\* The steps of the query that touch neither topic nor table: each moves the
\* checkpoint, and none moves the horizon past an offset that is not there.
LEMMA CheckpointInv ==
  ASSUME BronzeInv,
         \/ BronzeStart \/ BronzePlan \/ BronzeFail \/ BronzeCommit
         \/ BronzeFinish \/ BronzeCrash \/ BronzeReset
  PROVE  BronzeInv'
<1>0. TableTypeOK /\ BronzeTypeOK /\ CheckpointOK /\ Verbatim /\ Covered /\ CountedOnce
  BY DEF BronzeInv
<1>1. UNCHANGED <<log, earliest, tableVars, sinkTxn>>
  BY DEF BronzeStart, BronzePlan, BronzeFail, BronzeCommit, BronzeFinish,
         BronzeCrash, BronzeReset, topicVars
<1>2. TableTypeOK' /\ Verbatim' /\ \A o : RowsAt(o)' = RowsAt(o)
  BY <1>1, SameTable
<1>3. EndOfLog \in Nat /\ EndOfLog' = EndOfLog
  BY <1>0, <1>1 DEF BronzeTypeOK, EndOfLog
<1>4. BronzeTypeOK'
  <2>1. CASE BronzeStart
    BY <1>0, <1>1, <1>3, <2>1 DEF BronzeStart, BronzeTypeOK, CheckpointOK, NoCheckpoint
  <2>2. CASE BronzePlan
    BY <1>0, <1>1, <1>3, <2>2 DEF BronzePlan, BronzeTypeOK, NoCheckpoint
  <2>3. CASE BronzeFail \/ BronzeFinish \/ BronzeCrash
    BY <1>0, <1>1, <1>3, <2>3
    DEF BronzeFail, BronzeFinish, BronzeCrash, BronzeTypeOK, NoCheckpoint
  <2>4. CASE BronzeCommit
    BY <1>0, <1>1, <1>3, <2>4 DEF BronzeCommit, BronzeTypeOK, CheckpointOK, NoCheckpoint
  <2>5. CASE BronzeReset
    BY <1>0, <1>1, <1>3, <2>5 DEF BronzeReset, BronzeTypeOK, NoCheckpoint
  <2> QED
    BY <2>1, <2>2, <2>3, <2>4, <2>5
<1>5. CheckpointOK'
  <2>1. CASE BronzeStart
    BY <1>0, <1>1, <1>3, <2>1
    DEF BronzeStart, BronzeTypeOK, CheckpointOK, NoCheckpoint, InSink
  <2>2. CASE BronzePlan
    BY <1>0, <1>1, <1>3, <2>2
    DEF BronzePlan, BronzeTypeOK, CheckpointOK, NoCheckpoint, InSink
  <2>3. CASE BronzeFail \/ BronzeFinish \/ BronzeCrash
    BY <1>0, <1>1, <1>3, <2>3
    DEF BronzeFail, BronzeFinish, BronzeCrash, BronzeTypeOK, CheckpointOK, InSink
  <2>4. CASE BronzeCommit
    BY <1>0, <1>1, <1>3, <2>4
    DEF BronzeCommit, BronzeTypeOK, CheckpointOK, NoCheckpoint, InSink
  <2>5. CASE BronzeReset
    BY <1>0, <1>1, <1>3, <2>5
    DEF BronzeReset, BronzeTypeOK, CheckpointOK, NoCheckpoint, InSink
  <2> QED
    BY <2>1, <2>2, <2>3, <2>4, <2>5
<1>6. Covered'
  <2>1. CASE BronzeStart
    BY <1>0, <1>1, <1>2, <2>1
    DEF BronzeStart, BronzeTypeOK, CheckpointOK, Covered, Horizon, InSink, NoCheckpoint
  <2>2. CASE BronzePlan
    BY <1>0, <1>1, <1>2, <2>2
    DEF BronzePlan, BronzeTypeOK, CheckpointOK, Covered, Horizon, InSink, NoCheckpoint
  <2>3. CASE BronzeFail \/ BronzeFinish \/ BronzeCrash
    BY <1>0, <1>1, <1>2, <2>3
    DEF BronzeFail, BronzeFinish, BronzeCrash, Covered, Horizon, InSink
  <2>4. CASE BronzeCommit
    BY <1>0, <1>1, <1>2, <2>4
    DEF BronzeCommit, BronzeTypeOK, CheckpointOK, Covered, Horizon, InSink, NoCheckpoint
  <2>5. CASE BronzeReset
    BY <2>5 DEF BronzeReset, Covered
  <2> QED
    BY <2>1, <2>2, <2>3, <2>4, <2>5
<1>7. Horizon \in Int /\ Horizon' \in Int /\ queryId \in Nat /\ earliest \in Nat
  BY <1>0, <1>4 DEF BronzeTypeOK, EndOfLog, Horizon, NoCheckpoint
<1>8. \/ queryId' = queryId /\ Horizon <= Horizon'
      \/ queryId' = queryId + 1
  BY <1>7, HorizonMoves DEF NoCheckpoint
<1>9. CountedOnce'
  <2> SUFFICES ASSUME NEW o \in Nat
               PROVE  /\ IsFiniteSet(RowsAt(o))
                      /\ Cardinality(RowsAt(o)) <= queryId' + (IF o < Horizon' THEN 1 ELSE 0)
    BY <1>2 DEF CountedOnce
  <2>1. /\ IsFiniteSet(RowsAt(o))
        /\ Cardinality(RowsAt(o)) <= queryId + (IF o < Horizon THEN 1 ELSE 0)
    BY <1>0 DEF CountedOnce
  <2>2. Cardinality(RowsAt(o)) \in Nat
    BY <2>1, FS_CardinalityType
  <2> QED
    BY <1>7, <1>8, <2>1, <2>2
<1> QED
  BY <1>2, <1>4, <1>5, <1>6, <1>9 DEF BronzeInv

\* The append puts one row at every offset between the horizon and the planned
\* end, and moves the horizon there; a batch the sink has changes nothing.
LEMMA AppendInv ==
  ASSUME EnvelopeAssumption, BronzeInv, BronzeAppend
  PROVE  BronzeInv'
<1>0. TableTypeOK /\ BronzeTypeOK /\ CheckpointOK /\ Verbatim /\ Covered /\ CountedOnce
  BY DEF BronzeInv
<1>1. /\ bronzePc = "planned" /\ bronzePc' = "appended"
      /\ UNCHANGED <<log, earliest, bronzeStart, bronzeDone, bronzePlanned, batchId,
                     queryId, bronzeTarget>>
  BY DEF BronzeAppend, topicVars
<1>2. CASE InSink
  <2>1. UNCHANGED tableVars /\ sinkTxn' = sinkTxn
    BY <1>2 DEF BronzeAppend
  <2>2. TableTypeOK' /\ Verbatim' /\ \A o : RowsAt(o)' = RowsAt(o)
    BY <1>1, <2>1, SameTable
  <2>3. BronzeTypeOK'
    BY <1>0, <1>1, <2>1 DEF BronzeTypeOK, EndOfLog
  <2>4. CheckpointOK' /\ Horizon' = Horizon
    BY <1>0, <1>1, <1>2, <2>1 DEF CheckpointOK, Horizon, InSink, EndOfLog
  <2>5. Covered' /\ CountedOnce'
    BY <1>0, <1>1, <2>2, <2>4 DEF Covered, CountedOnce
  <2> QED
    BY <2>2, <2>3, <2>4, <2>5 DEF BronzeInv
<1>3. CASE ~InSink
  <2> DEFINE Batch == bronzeDone .. bronzePlanned - 1
             Row(o) == [ver |-> bronzeVersion + 1, off |-> o, env |-> log[o + 1]]
  <2>1. /\ earliest <= bronzeDone /\ earliest \in Nat
        /\ AppendCommit(BatchRows)
        /\ sinkTxn' = [query |-> queryId, batch |-> batchId]
    BY <1>0, <1>3 DEF BronzeAppend, DataLoss, BronzeTypeOK, EndOfLog, NoCheckpoint
  <2>2. /\ bronzeDone \in Nat /\ bronzePlanned \in Nat /\ bronzeDone < bronzePlanned
        /\ bronzePlanned <= EndOfLog /\ EndOfLog <= MaxOffset + 1 /\ EndOfLog \in Nat
        /\ EndOfLog' = EndOfLog
    BY <1>0, <1>1, <2>1 DEF BronzeTypeOK, CheckpointOK, EndOfLog, NoCheckpoint
  <2>3. Batch \subseteq 0 .. EndOfLog - 1
    BY <2>2
  <2>4. /\ bronzeVersion' = bronzeVersion + 1
        /\ bronze' = bronze \cup {Row(o) : o \in Batch}
    <3>1. {p \in bronzeDone .. bronzePlanned - 1 : p >= earliest} = Batch
      BY <2>1, <2>2
    <3>2. DOMAIN BatchRows = Batch /\ \A o \in Batch : BatchRows[o] = log[o + 1]
      BY <3>1 DEF BatchRows
    <3> QED
      BY <2>1, <3>2 DEF AppendCommit
  <2>5. \A o \in Batch : log[o + 1] \in Envelopes /\ o \in Offsets
    BY <1>0, <2>2, <2>3, EnvelopeAssumption
    DEF BronzeTypeOK, EndOfLog, Offsets
  <2>6. TableTypeOK'
    <3>1. bronzeVersion \in Nat /\ bronze \subseteq BronzeRow
          /\ \A r \in bronze : r.ver <= bronzeVersion
      BY <1>0 DEF TableTypeOK
    <3>2. \A o \in Batch : Row(o) \in BronzeRow
      BY <2>5, <3>1 DEF BronzeRow
    <3>3. \A r \in bronze : r.ver \in Nat
      BY <3>1 DEF BronzeRow
    <3>4. bronze' \subseteq BronzeRow
      BY <2>4, <3>1, <3>2
    <3>5. \A r \in bronze' : r.ver <= bronzeVersion + 1
      BY <2>4, <3>1, <3>3
    <3> QED
      BY <2>4, <3>1, <3>4, <3>5 DEF TableTypeOK
  <2>7. BronzeTypeOK'
    BY <1>0, <1>1, <2>1, <2>2 DEF BronzeTypeOK
  <2>8. InSink' /\ Horizon = bronzeDone /\ Horizon' = bronzePlanned
    BY <1>0, <1>1, <1>3, <2>1 DEF InSink, Horizon, BronzeTypeOK
  <2>9. CheckpointOK'
    BY <1>0, <1>1, <2>1, <2>2, <2>8 DEF CheckpointOK, BronzeTypeOK, NoCheckpoint
  <2>10. Verbatim'
    BY <1>0, <1>1, <2>2, <2>3, <2>4 DEF Verbatim
  <2>11. \A o \in Batch : RowsAt(o)' = RowsAt(o) \cup {Row(o)}
    BY <2>4 DEF RowsAt
  <2>12. \A o : o \notin Batch => RowsAt(o)' = RowsAt(o)
    BY <2>4 DEF RowsAt
  <2>13. Covered'
    <3> SUFFICES ASSUME bronzeStart # NoCheckpoint,
                        NEW o \in bronzeStart .. bronzePlanned - 1
                 PROVE  RowsAt(o)' # {}
      BY <1>1, <2>8 DEF Covered
    <3>1. CASE o \in Batch
      BY <2>11, <3>1
    <3>2. CASE o \notin Batch
      <4>1. o \in bronzeStart .. Horizon - 1
        BY <1>0, <2>2, <2>8, <3>2 DEF BronzeTypeOK, NoCheckpoint
      <4> QED
        BY <1>0, <2>12, <3>2, <4>1 DEF Covered
    <3> QED
      BY <3>1, <3>2
  <2>14. CountedOnce'
    <3> SUFFICES ASSUME NEW o \in Nat
                 PROVE  /\ IsFiniteSet(RowsAt(o)')
                        /\ Cardinality(RowsAt(o)') <=
                             queryId + (IF o < bronzePlanned THEN 1 ELSE 0)
      BY <1>1, <2>8 DEF CountedOnce
    <3>1. /\ IsFiniteSet(RowsAt(o))
          /\ Cardinality(RowsAt(o)) <= queryId + (IF o < bronzeDone THEN 1 ELSE 0)
      BY <1>0, <2>8 DEF CountedOnce
    <3>2. queryId \in Nat /\ Cardinality(RowsAt(o)) \in Nat
      BY <1>0, <3>1, FS_CardinalityType DEF BronzeTypeOK
    <3>3. CASE o \in Batch
      <4>1. /\ IsFiniteSet(RowsAt(o) \cup {Row(o)})
            /\ Cardinality(RowsAt(o) \cup {Row(o)}) <= Cardinality(RowsAt(o)) + 1
        <5> HIDE DEF Row, Batch
        <5>1. IsFiniteSet(RowsAt(o))
          BY <3>1
        <5>2. /\ IsFiniteSet(RowsAt(o) \cup {Row(o)})
              /\ Cardinality(RowsAt(o) \cup {Row(o)}) =
                   IF Row(o) \in RowsAt(o) THEN Cardinality(RowsAt(o))
                                           ELSE Cardinality(RowsAt(o)) + 1
          BY <5>1, FS_AddElement
        <5> QED
          BY <3>2, <5>2
      <4>2. Cardinality(RowsAt(o) \cup {Row(o)}) \in Nat
        BY <4>1, FS_CardinalityType
      <4> QED
        BY <2>2, <2>11, <3>1, <3>2, <3>3, <4>1, <4>2
    <3>4. CASE o \notin Batch
      BY <2>2, <2>12, <3>1, <3>2, <3>4
    <3> QED
      BY <3>3, <3>4
  <2> QED
    BY <2>6, <2>7, <2>9, <2>10, <2>13, <2>14 DEF BronzeInv
<1> QED
  BY <1>2, <1>3

\* What an append is to a reader of the table: one commit of envelopes at
\* offsets, or no change.
LEMMA AppendIsCommit ==
  ASSUME EnvelopeAssumption, BronzeInv, BronzeAppend
  PROVE  \/ UNCHANGED tableVars
         \/ /\ AppendCommit(BatchRows)
            /\ DOMAIN BatchRows \subseteq Offsets
            /\ \A o \in DOMAIN BatchRows : BatchRows[o] \in Envelopes
<1>1. CASE InSink
  BY <1>1 DEF BronzeAppend
<1>2. CASE ~InSink
  <2>1. AppendCommit(BatchRows)
    BY <1>2 DEF BronzeAppend
  <2>2. /\ bronzeDone \in Nat /\ bronzePlanned \in Nat /\ earliest \in Nat
        /\ bronzePlanned <= Len(log) /\ Len(log) <= MaxOffset + 1
        /\ log \in Seq(Envelopes) /\ Len(log) \in Nat /\ MaxOffset \in Nat
    BY EnvelopeAssumption
    DEF BronzeInv, BronzeTypeOK, CheckpointOK, BronzeAppend, EndOfLog, NoCheckpoint
  <2>3. \A o \in bronzeDone .. bronzePlanned - 1 :
          o \in Offsets /\ log[o + 1] \in Envelopes
    BY <2>2 DEF Offsets
  <2> QED
    BY <2>1, <2>3 DEF BatchRows
<1> QED
  BY <1>1, <1>2

LEMMA StutterInv ==
  ASSUME BronzeInv, UNCHANGED <<topicVars, tableVars, bronzeVars>>
  PROVE  BronzeInv'
<1>1. UNCHANGED <<log, earliest, bronze, bronzeVersion, bronzeStart, bronzeDone,
                  bronzePlanned, batchId, queryId, sinkTxn, bronzeTarget, bronzePc>>
  BY DEF topicVars, tableVars, bronzeVars
<1> QED
  BY <1>1 DEF BronzeInv, TableTypeOK, BronzeTypeOK, CheckpointOK, Verbatim,
              Covered, CountedOnce, RowsAt, Horizon, InSink, EndOfLog

\* What the invariant is for: the three promises of the job.
LEMMA BronzeInvImplies ==
  ASSUME BronzeInv
  PROVE  Verbatim /\ OncePerCheckpoint /\ NoSilentSkip
<1>1. EndOfLog \in Nat /\ queryId \in Nat
  BY DEF BronzeInv, BronzeTypeOK, EndOfLog
<1>2. OncePerCheckpoint
  <2> SUFFICES ASSUME NEW o \in 0 .. EndOfLog - 1
               PROVE  Cardinality(RowsAt(o)) <= queryId + 1
    BY DEF OncePerCheckpoint, RowsAt
  <2>1. o \in Nat
    BY <1>1
  <2>2. /\ IsFiniteSet(RowsAt(o))
        /\ Cardinality(RowsAt(o)) <= queryId + (IF o < Horizon THEN 1 ELSE 0)
    BY <2>1 DEF BronzeInv, CountedOnce
  <2>3. Cardinality(RowsAt(o)) \in Nat
    BY <2>2, FS_CardinalityType
  <2> QED
    BY <1>1, <2>2, <2>3
<1>3. NoSilentSkip
  <2> SUFFICES ASSUME NEW o \in bronzeStart .. bronzeDone - 1,
                      bronzeStart # NoCheckpoint
               PROVE  RowsAt(o) # {}
    BY DEF NoSilentSkip, RowsAt
  <2>1. o \in bronzeStart .. Horizon - 1
    BY DEF BronzeInv, BronzeTypeOK, Horizon, NoCheckpoint
  <2> QED
    BY <2>1 DEF BronzeInv, Covered
<1> QED
  BY <1>2, <1>3 DEF BronzeInv

\* Until the checkpoint is cleared no record is in the table twice.
LEMMA FirstCheckpointUnique ==
  ASSUME BronzeInv, queryId = 0
  PROVE  \A r, s \in bronze : r.off = s.off => r = s
<1> SUFFICES ASSUME NEW r \in bronze, NEW s \in bronze, r.off = s.off
             PROVE  r = s
  OBVIOUS
<1>1. r.off \in 0 .. EndOfLog - 1 /\ EndOfLog \in Nat
  BY DEF BronzeInv, BronzeTypeOK, Verbatim, EndOfLog
<1>2. IsFiniteSet(RowsAt(r.off)) /\ Cardinality(RowsAt(r.off)) <= 1
  <2>1. r.off \in Nat
    BY <1>1
  <2>2. OncePerCheckpoint
    BY BronzeInvImplies
  <2> QED
    BY <1>1, <2>1, <2>2 DEF BronzeInv, CountedOnce, OncePerCheckpoint, RowsAt
<1>3. {r, s} \subseteq RowsAt(r.off)
  BY DEF RowsAt
<1>4. CASE r # s
  <2>1. IsFiniteSet({r, s}) /\ Cardinality({r, s}) = 2
    <3>1. IsFiniteSet({r}) /\ Cardinality({r}) = 1
      BY FS_Singleton
    <3>2. s \notin {r} /\ {r, s} = {r} \cup {s}
      BY <1>4
    <3>3. IsFiniteSet({r} \cup {s}) /\ Cardinality({r} \cup {s}) = Cardinality({r}) + 1
      BY <3>1, <3>2, FS_AddElement
    <3> QED
      BY <3>1, <3>2, <3>3
  <2>2. Cardinality({r, s}) <= Cardinality(RowsAt(r.off))
    BY <1>2, <1>3, FS_Subset
  <2>3. Cardinality(RowsAt(r.off)) \in Nat
    BY <1>2, FS_CardinalityType
  <2> QED
    BY <1>2, <2>1, <2>2, <2>3
<1> QED
  BY <1>4
-----------------------------------------------------------------------------
(***************************************************************************)
(* The specification.                                                      *)
(***************************************************************************)

LEMMA StepBronzeInv == BronzeInv /\ [Next]_vars => BronzeInv'
<1> SUFFICES ASSUME BronzeInv, [Next]_vars
             PROVE  BronzeInv'
  OBVIOUS
<1>1. CASE UNCHANGED vars
  BY <1>1, StutterInv DEF vars
<1>2. CASE EndOfLog < MaxLog /\ \E e \in Envelopes : Produce(e)
  <2>1. EndOfLog <= MaxOffset
    BY <1>2, BronzeBounds, EnvelopeAssumption DEF BronzeInv, BronzeTypeOK, EndOfLog
  <2> QED
    BY <1>2, <2>1, TopicInv, EnvelopeAssumption
<1>3. CASE Expire
  BY <1>3, TopicInv, EnvelopeAssumption
<1>4. CASE BronzeAppend
  BY <1>4, AppendInv, EnvelopeAssumption
<1>5. CASE \/ BronzeStart \/ BronzePlan \/ BronzeFail \/ BronzeCommit
           \/ BronzeFinish \/ BronzeCrash \/ BronzeReset
  BY <1>5, CheckpointInv
<1> QED
  BY <1>1, <1>2, <1>3, <1>4, <1>5 DEF Next

\* The invariant holds of the job: topic, checkpoint and table keep to it
\* through retention, crashes, failures and resets.
THEOREM BronzeInvariance == Spec => []BronzeInv
<1>1. Init => BronzeInv
  BY BronzeInitInv, EnvelopeAssumption DEF Init
<1> QED
  BY <1>1, StepBronzeInv, PTL DEF Spec

\* The checkpoint's three ends stay ordered within the topic
\* (01_bronze_ingest.py's query and its checkpoint).
THEOREM BronzeTypeCorrect == Spec => []TypeOK
<1>1. BronzeInv => TypeOK
  BY DEF BronzeInv, TypeOK
<1> QED
  BY <1>1, BronzeInvariance, PTL

\* Every row carries the record of its offset, unchanged.
THEOREM BronzeVerbatim == Spec => []Verbatim
<1>1. BronzeInv => Verbatim
  BY BronzeInvImplies
<1> QED
  BY <1>1, BronzeInvariance, PTL

\* One checkpoint appends an offset at most once, wherever a run died.
THEOREM BronzeOnce == Spec => []OncePerCheckpoint
<1>1. BronzeInv => OncePerCheckpoint
  BY BronzeInvImplies
<1> QED
  BY <1>1, BronzeInvariance, PTL

\* Nothing between a checkpoint's beginning and its end is missing from the
\* table, whatever retention dropped meanwhile.
THEOREM BronzeSkipsNothing == Spec => []NoSilentSkip
<1>1. BronzeInv => NoSilentSkip
  BY BronzeInvImplies
<1> QED
  BY <1>1, BronzeInvariance, PTL
-----------------------------------------------------------------------------
(***************************************************************************)
(* How often the job commits: never without a record its checkpoint had    *)
(* not put into the table yet.                                             *)
(***************************************************************************)

\* The horizon as a number of records.
Absorbed == IF Horizon < 0 THEN 0 ELSE Horizon

\* A commit moves the horizon of its checkpoint, and the horizon ends where
\* the topic does.
CommitsBounded ==
  /\ EndOfLog <= MaxLog
  /\ queryId <= MaxResets
  /\ bronzeVersion <= queryId * MaxLog + Absorbed

\* A bound that is raised still bounds.
LEMMA Loosen ==
  ASSUME NEW v \in Nat, NEW m \in Nat, NEW a \in Nat, NEW b \in Nat,
         v <= m + a, a <= b
  PROVE  v <= m + b
OBVIOUS

LEMMA StepCommitsBounded ==
  ASSUME BronzeInv, CommitsBounded, [Next]_vars
  PROVE  CommitsBounded'
<1>0. /\ BronzeTypeOK /\ CheckpointOK /\ TableTypeOK
      /\ bronzeVersion \in Nat /\ queryId \in Nat /\ EndOfLog \in Nat
      /\ Horizon \in Int /\ Horizon <= EndOfLog
      /\ MaxLog \in Nat /\ queryId * MaxLog \in Nat
  BY BronzeBounds
  DEF BronzeInv, BronzeTypeOK, TableTypeOK, EndOfLog, Horizon, NoCheckpoint
<1>1. CASE EndOfLog < MaxLog /\ \E e \in Envelopes : Produce(e)
  <2>1. UNCHANGED <<tableVars, bronzeVars>> /\ Len(log') = Len(log) + 1
    BY <1>0, <1>1 DEF Produce, BronzeTypeOK
  <2>2. UNCHANGED <<bronzeVersion, queryId, Horizon>>
    BY <2>1 DEF tableVars, bronzeVars, Horizon, InSink
  <2> QED
    BY <1>0, <1>1, <2>1, <2>2 DEF CommitsBounded, Absorbed, EndOfLog
<1>2. CASE Expire \/ UNCHANGED vars
  <2>1. UNCHANGED <<log, tableVars, bronzeVars>>
    BY <1>2 DEF Expire, vars, topicVars
  <2>2. UNCHANGED <<bronzeVersion, queryId, Horizon, EndOfLog>>
    BY <2>1 DEF tableVars, bronzeVars, Horizon, InSink, EndOfLog
  <2> QED
    BY <2>2 DEF CommitsBounded, Absorbed
<1>3. CASE BronzeAppend
  <2>1. UNCHANGED <<log, bronzeDone, bronzePlanned, batchId, queryId>>
        /\ bronzePc = "planned"
    BY <1>3 DEF BronzeAppend, topicVars
  <2>2. CASE InSink
    <3>1. UNCHANGED <<bronzeVersion, Horizon, EndOfLog>>
      BY <1>3, <2>1, <2>2 DEF BronzeAppend, tableVars, Horizon, InSink, EndOfLog
    <3> QED
      BY <2>1, <3>1 DEF CommitsBounded, Absorbed
  <2>3. CASE ~InSink
    <3>1. /\ bronzeVersion' = bronzeVersion + 1
          /\ sinkTxn' = [query |-> queryId, batch |-> batchId]
      BY <1>3, <2>3 DEF BronzeAppend, AppendCommit
    <3>2. Horizon = bronzeDone /\ Horizon' = bronzePlanned
      BY <1>0, <2>1, <2>3, <3>1 DEF Horizon, InSink, BronzeTypeOK
    <3>3. 0 <= bronzeDone /\ bronzeDone < bronzePlanned /\ bronzePlanned \in Int
          /\ bronzeDone \in Int
      BY <1>0, <2>1 DEF BronzeTypeOK, CheckpointOK, NoCheckpoint
    <3> QED
      BY <1>0, <2>1, <3>1, <3>2, <3>3 DEF CommitsBounded, Absorbed, EndOfLog
  <2> QED
    BY <2>2, <2>3
<1>4. CASE \/ BronzeStart \/ BronzePlan \/ BronzeFail \/ BronzeCommit
           \/ BronzeFinish \/ BronzeCrash
  <2>1. UNCHANGED <<log, tableVars, queryId>>
    BY <1>4 DEF BronzeStart, BronzePlan, BronzeFail, BronzeCommit, BronzeFinish,
                BronzeCrash, topicVars
  <2>2. BronzeInv'
    BY <1>4, CheckpointInv
  <2>3. Horizon' \in Int /\ Horizon <= Horizon'
    <3>1. Horizon' \in Int /\ earliest \in Nat
      BY <1>0, <2>2 DEF BronzeInv, BronzeTypeOK, EndOfLog, Horizon, NoCheckpoint
    <3> QED
      BY <1>0, <1>4, <2>1, <3>1, HorizonMoves DEF NoCheckpoint
  <2>4. bronzeVersion' = bronzeVersion /\ EndOfLog' = EndOfLog
    BY <2>1 DEF tableVars, EndOfLog
  <2>5. Absorbed \in Nat /\ Absorbed' \in Nat /\ Absorbed <= Absorbed'
    BY <1>0, <2>3 DEF Absorbed
  <2>6. bronzeVersion <= queryId * MaxLog + Absorbed
    BY DEF CommitsBounded
  <2>7. bronzeVersion <= queryId * MaxLog + Absorbed'
    BY <1>0, <2>5, <2>6, Loosen
  <2>8. bronzeVersion' <= queryId' * MaxLog + Absorbed'
    BY <2>1, <2>4, <2>7
  <2> QED
    BY <2>1, <2>4, <2>8 DEF CommitsBounded
<1>5. CASE queryId < MaxResets /\ BronzeReset
  <2>1. /\ UNCHANGED <<log, tableVars>> /\ queryId' = queryId + 1
        /\ UNCHANGED sinkTxn /\ bronzeDone' = NoCheckpoint
    BY <1>5 DEF BronzeReset, topicVars
  <2>2. bronzeVersion' = bronzeVersion /\ EndOfLog' = EndOfLog
    BY <2>1 DEF tableVars, EndOfLog
  <2>3. Horizon' = NoCheckpoint
    BY <1>0, <2>1 DEF Horizon, InSink, CheckpointOK, BronzeTypeOK
  <2>4. (queryId + 1) * MaxLog = queryId * MaxLog + MaxLog
    BY <1>0
  <2>5. bronzeVersion <= queryId * MaxLog + MaxLog
    BY <1>0 DEF CommitsBounded, Absorbed
  <2>6. queryId + 1 <= MaxResets
    BY <1>0, <1>5, BronzeBounds
  <2> QED
    BY <1>0, <2>1, <2>2, <2>3, <2>4, <2>5, <2>6 DEF CommitsBounded, Absorbed, NoCheckpoint
<1> QED
  BY <1>1, <1>2, <1>3, <1>4, <1>5 DEF Next

\* What the bound comes to.
LEMMA CommitsAtMost ==
  ASSUME BronzeInv, CommitsBounded
  PROVE  bronzeVersion <= (MaxResets + 1) * MaxLog
<1>1. /\ bronzeVersion \in Nat /\ queryId \in Nat /\ Horizon \in Int
      /\ Horizon <= MaxLog /\ MaxLog \in Nat /\ MaxResets \in Nat
      /\ queryId <= MaxResets
  BY BronzeBounds
  DEF BronzeInv, BronzeTypeOK, TableTypeOK, EndOfLog, Horizon, NoCheckpoint, CommitsBounded
<1>2. (MaxResets + 1) * MaxLog = MaxResets * MaxLog + MaxLog
  BY <1>1
<1>3. queryId * MaxLog <= MaxResets * MaxLog /\ queryId * MaxLog \in Nat
      /\ MaxResets * MaxLog \in Nat
  BY <1>1
<1> QED
  BY <1>1, <1>2, <1>3 DEF CommitsBounded, Absorbed

\* The table gets no more commits than there are records for each checkpoint:
\* a run that finds nothing new, and a batch that is retried, commit nothing
\* (availableNow and the sink's transaction of 01_bronze_ingest.py).
THEOREM BronzeCommitsBounded == Spec => [](bronzeVersion <= (MaxResets + 1) * MaxLog)
<1>1. Init => CommitsBounded
  BY BronzeBounds
  DEF Init, TableInit, BronzeInit, CommitsBounded, Absorbed, Horizon, InSink, EndOfLog,
      NoCheckpoint
<1>2. BronzeInv /\ CommitsBounded /\ [Next]_vars => CommitsBounded'
  BY StepCommitsBounded
<1>3. BronzeInv /\ CommitsBounded => bronzeVersion <= (MaxResets + 1) * MaxLog
  BY CommitsAtMost
<1> QED
  BY <1>1, <1>2, <1>3, BronzeInvariance, PTL DEF Spec
-----------------------------------------------------------------------------
(***************************************************************************)
(* The job as a copy of the topic.                                         *)
(***************************************************************************)

\* An append copies the records from the horizon to the planned end, or, when
\* the sink has them, nothing.
LEMMA AppendCopies ==
  ASSUME BronzeInv, BronzeAppend
  PROVE  TopicCopy!Copy \/ UNCHANGED TopicCopy!copyVars
<1>0. BronzeTypeOK /\ CheckpointOK
  BY DEF BronzeInv
<1>1. /\ bronzePc = "planned"
      /\ UNCHANGED <<log, earliest, bronzeStart, bronzeDone, bronzePlanned, batchId,
                     queryId>>
  BY DEF BronzeAppend, topicVars
<1>2. CASE InSink
  <2>1. UNCHANGED <<bronze, bronzeVersion, sinkTxn>>
    BY <1>2 DEF BronzeAppend, tableVars
  <2>2. Horizon' = Horizon
    BY <1>1, <2>1 DEF Horizon, InSink
  <2> QED
    BY <1>1, <2>1, <2>2 DEF TopicCopy!copyVars
<1>3. CASE ~InSink
  <2> DEFINE Copied ==
        {[ver |-> bronzeVersion + 1, off |-> o, env |-> log[o + 1]] :
           o \in bronzeDone .. bronzePlanned - 1}
  <2>1. /\ earliest <= bronzeDone /\ earliest \in Nat
        /\ AppendCommit(BatchRows)
        /\ sinkTxn' = [query |-> queryId, batch |-> batchId]
    BY <1>0, <1>3 DEF BronzeAppend, DataLoss, BronzeTypeOK, EndOfLog, NoCheckpoint
  <2>2. /\ bronzeDone \in Nat /\ bronzePlanned \in Nat
        /\ bronzePlanned \in bronzeDone + 1 .. Len(log)
    BY <1>0, <1>1 DEF BronzeTypeOK, CheckpointOK, EndOfLog, NoCheckpoint
  <2>3. Horizon = bronzeDone /\ Horizon' = bronzePlanned
    BY <1>0, <1>1, <1>3, <2>1 DEF InSink, Horizon, BronzeTypeOK
  <2>4. bronzeVersion' = bronzeVersion + 1 /\ bronze' = bronze \cup Copied
    <3>1. {p \in bronzeDone .. bronzePlanned - 1 : p >= earliest}
             = bronzeDone .. bronzePlanned - 1
      BY <2>1, <2>2
    <3>2. /\ DOMAIN BatchRows = bronzeDone .. bronzePlanned - 1
          /\ \A o \in bronzeDone .. bronzePlanned - 1 : BatchRows[o] = log[o + 1]
      BY <3>1 DEF BatchRows
    <3> QED
      BY <2>1, <3>2 DEF AppendCommit
  <2>5. Horizon # NoCheckpoint
    BY <2>2, <2>3 DEF NoCheckpoint
  <2> QED
    BY <1>1, <2>1, <2>2, <2>3, <2>4, <2>5 DEF TopicCopy!Copy
<1> QED
  BY <1>2, <1>3

\* The job implements TopicCopy: through crashes, retries and failures the
\* table grows by the next records of the topic, each once, and a pass begins
\* anew only where the checkpoint was cleared.
THEOREM BronzeImplementsCopy == Spec => CopySpec
<1>1. Init => TopicCopy!Init
  BY DEF Init, TableInit, BronzeInit, TopicCopy!Init, Horizon, InSink, NoCheckpoint
<1>2. ASSUME BronzeInv, [Next]_vars
      PROVE  [TopicCopy!Next]_(TopicCopy!copyVars)
  <2>1. CASE \E e \in Envelopes : Produce(e)
    <3>1. UNCHANGED <<earliest, bronze, bronzeVersion, bronzeStart, Horizon>>
      BY <2>1 DEF Produce, tableVars, bronzeVars, Horizon, InSink
    <3> QED
      BY <2>1, <3>1 DEF Produce, TopicCopy!Next, TopicCopy!Arrive
  <2>2. CASE Expire
    <3>1. UNCHANGED <<log, bronze, bronzeVersion, bronzeStart, Horizon>>
      BY <2>2 DEF Expire, tableVars, bronzeVars, Horizon, InSink
    <3> QED
      BY <2>2, <3>1 DEF Expire, EndOfLog, TopicCopy!Next, TopicCopy!Drop
  <2>3. CASE BronzeAppend
    BY <1>2, <2>3, AppendCopies DEF TopicCopy!Next
  <2>4. CASE \/ BronzeStart \/ BronzePlan \/ BronzeFail \/ BronzeCommit
             \/ BronzeFinish \/ BronzeCrash \/ BronzeReset
    <3>1. UNCHANGED <<log, earliest, bronze, bronzeVersion>>
      BY <2>4 DEF BronzeStart, BronzePlan, BronzeFail, BronzeCommit, BronzeFinish,
                  BronzeCrash, BronzeReset, topicVars, tableVars
    <3> QED
      BY <1>2, <2>4, <3>1, HorizonMoves
      DEF TopicCopy!Next, TopicCopy!Begin, TopicCopy!StartOver, TopicCopy!copyVars
  <2>5. CASE UNCHANGED vars
    BY <2>5 DEF vars, topicVars, tableVars, bronzeVars, TopicCopy!copyVars, Horizon, InSink
  <2> QED
    BY <1>2, <2>1, <2>2, <2>3, <2>4, <2>5 DEF Next
<1> QED
  BY <1>1, <1>2, BronzeInvariance, PTL DEF Spec, CopySpec, TopicCopy!Spec
=============================================================================
