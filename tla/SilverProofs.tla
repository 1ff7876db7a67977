---------------------------- MODULE SilverProofs ----------------------------
(***************************************************************************)
(* The theorems of SilverSystem: for every set of envelopes, every set of  *)
(* possible appends and any number of them.                                *)
(***************************************************************************)
EXTENDS SilverSystem, SilverLemmas

\* A step is an append, a step of the job or a stuttering step.
LEMMA NextCases ==
  ASSUME [Next]_vars
  PROVE  \/ BronzeAppend
         \/ SilverStep /\ UNCHANGED tableVars
         \/ UNCHANGED vars
BY DEF Next, SilverStep

\* The initial states satisfy the inductive invariant.
LEMMA InitInv == Init => TypeOK /\ SilverInv
BY SilverInitInv DEF Init, TypeOK

\* A step of the system keeps it.
LEMMA NextInv ==
  ASSUME TypeOK, SilverInv, [Next]_vars
  PROVE  TypeOK' /\ SilverInv'
<1>1. CASE BronzeAppend
  <2>1. PICK f \in Commits : AppendCommit(f)
    BY <1>1 DEF BronzeAppend
  <2>2. DOMAIN f \subseteq Offsets /\ \A o \in DOMAIN f : f[o] \in Envelopes
    BY CommitsAssumption
  <2>3. UNCHANGED silverVars
    BY <1>1 DEF BronzeAppend
  <2> QED
    BY <2>1, <2>2, <2>3, AppendCommitInv DEF TypeOK
<1>2. CASE SilverStep /\ UNCHANGED tableVars
  <2>1. TableTypeOK'
    BY <1>2 DEF TypeOK, TableTypeOK, tableVars
  <2>2. OneRowPerEvent
    BY DEF SilverInv
  <2> QED
    BY <1>2, <2>1, <2>2, EnvelopeAssumption, SilverStepTypeOK, SilverStepInv
       DEF TypeOK
<1>3. CASE UNCHANGED vars
  <2>1. UNCHANGED <<tableVars, silver, dlq, silverInserts, dlqInserts,
                    silverDone, silverPlanned, silverTarget, silverPc>>
    BY <1>3 DEF vars, silverVars
  <2>2. TypeOK'
    BY <2>1 DEF TypeOK, TableTypeOK, SilverTypeOK, tableVars
  <2>3. /\ SilverHorizon \in Int /\ SilverHorizon' = SilverHorizon
        /\ DlqHorizon \in Int /\ DlqHorizon' = DlqHorizon
    BY <2>1 DEF TypeOK, SilverTypeOK, SilverHorizon, DlqHorizon
  <2>4. SilverInv'
    BY <2>1, <2>3, HorizonFrame DEF TypeOK
  <2> QED
    BY <2>2, <2>4
<1> QED
  BY <1>1, <1>2, <1>3, NextCases

\* The inductive invariant holds in every reachable state.
THEOREM Invariance == Spec => [](TypeOK /\ SilverInv)
<1>1. Init => TypeOK /\ SilverInv
  BY InitInv
<1>2. (TypeOK /\ SilverInv) /\ [Next]_vars => (TypeOK /\ SilverInv)'
  BY NextInv
<1> QED
  BY <1>1, <1>2, PTL DEF Spec

\* Type correctness of the table, the job and its checkpoint.
THEOREM TypeCorrect == Spec => []TypeOK
BY Invariance, PTL

\* One row of Silver per event_id, through crashes, retries and resets.
THEOREM SilverUnique == Spec => []OneRowPerEvent
<1>1. TypeOK /\ SilverInv => OneRowPerEvent
  BY DEF SilverInv
<1> QED
  BY <1>1, Invariance, PTL

\* A Bronze row behind the checkpoint is in Silver or in the dead-letter queue.
THEOREM SilverDropsNothing == Spec => []NothingDropped
<1>1. TypeOK /\ SilverInv => NothingDropped
  BY SilverInvImplies DEF TypeOK
<1> QED
  BY <1>1, Invariance, PTL

\* A job that has caught up leaves the same Silver table whatever it went
\* through to get there.
THEOREM SilverConverges == Spec => []CaughtUpIsCanonical
<1>1. TypeOK /\ SilverInv => CaughtUpIsCanonical
  BY SilverInvImplies DEF TypeOK
<1> QED
  BY <1>1, Invariance, PTL

\* While Bronze holds no row twice, neither does the dead-letter queue.
THEOREM DlqUnique == Spec => []DlqCountsOnce
<1>1. TypeOK /\ SilverInv => DlqCountsOnce
  BY DEF SilverInv
<1> QED
  BY <1>1, Invariance, PTL

\* No step removes an event from Silver or a key from the dead-letter queue.
THEOREM SilverForgetsNothing == Spec => NeverForgotten
<1> DEFINE A == /\ \A t \in silver : \E u \in silver' : u.row.env = t.row.env
                /\ \A d \in dlq : \E e \in dlq' : DlqKey(e.row) = DlqKey(d.row)
<1>1. ASSUME TypeOK /\ SilverInv, [Next]_vars
      PROVE  [A]_vars
  <2>1. CASE BronzeAppend
    BY <2>1 DEF BronzeAppend, silverVars
  <2>2. CASE SilverStep /\ UNCHANGED tableVars
    BY <1>1, <2>2, SilverStepForgetsNothing DEF TypeOK, SilverInv
  <2>3. CASE UNCHANGED vars
    BY <2>3
  <2> QED
    BY <1>1, <2>1, <2>2, <2>3, NextCases
<1> QED
  BY <1>1, Invariance, PTL DEF Spec, NeverForgotten
-----------------------------------------------------------------------------
(***************************************************************************)
(* The job implements ObservationStore.                                    *)
(***************************************************************************)

\* An append is a Receive of the store.
LEMMA AppendRefines ==
  ASSUME TypeOK, BronzeAppend
  PROVE  Store!Receive
<1>1. PICK f \in Commits : AppendCommit(f)
  BY DEF BronzeAppend
<1> DEFINE new == {f[o] : o \in DOMAIN f}
           New == {[ver |-> bronzeVersion + 1, off |-> o, env |-> f[o]] :
                     o \in DOMAIN f}
<1>2. new \in SUBSET (Valid \cup (Invalid \cup Unparseable))
  BY CommitsAssumption DEF Envelopes
<1>3. bronze' = bronze \cup New
  BY <1>1 DEF AppendCommit
<1>4. {r.env : r \in New} = new
  <2>1. \A r \in New : r.env \in new
    OBVIOUS
  <2>2. \A o \in DOMAIN f : \E r \in New : r.env = f[o]
    <3> TAKE o \in DOMAIN f
    <3> DEFINE r == [ver |-> bronzeVersion + 1, off |-> o, env |-> f[o]]
    <3>1. r \in New /\ r.env = f[o]
      OBVIOUS
    <3> HIDE DEF New, r
    <3> QED
      BY <3>1
  <2> HIDE DEF New
  <2> QED
    BY <2>1, <2>2
<1> HIDE DEF New, new
<1>5. {r.env : r \in bronze'} = {r.env : r \in bronze} \cup new
  BY <1>3, <1>4
<1>6. silver' = silver /\ dlq' = dlq
  BY DEF BronzeAppend, silverVars
<1> QED
  BY <1>2, <1>5, <1>6 DEF Store!Receive

\* The MERGE into Silver is an Accept of the batch's valid envelopes.
LEMMA MergeRefines ==
  ASSUME TypeOK, SilverInv, SilverMerge, UNCHANGED tableVars
  PROVE  Store!Accept
<1> DEFINE good == ToSilver(ValidRows(Batch))
           envs == {s.env : s \in good}
<1>1. /\ good \in SUBSET BronzeRow /\ ValidRows(Batch) \in SUBSET BronzeRow
      /\ good \subseteq ValidRows(bronze)
  BY DEF ToSilver, ValidRows, Batch, TableTypeOK, TypeOK
<1>2. \A s, u \in good : s.env = u.env => s = u
  BY <1>1, WindowKeepsOne
<1>3. MergeIntoSilver(good) /\ dlq' = dlq /\ bronze' = bronze
  BY DEF SilverMerge, tableVars
<1>4. envs \in SUBSET ({r.env : r \in bronze} \cap Valid)
  BY <1>1 DEF ValidRows
<1> HIDE DEF good
<1>5. /\ \A s \in good : \E t \in silver' : t.row = s
      /\ \A t \in silver : (\A s \in good : s.env # t.row.env)
                             => t \in silver'
      /\ \A t \in silver' : t.row \in good \/ t \in silver
  BY <1>1, <1>2, <1>3, MergeEffect DEF TypeOK, SilverInv
<1>6. {t.row.env : t \in silver'} = {t.row.env : t \in silver} \cup envs
  <2>1. ASSUME NEW t \in silver'
        PROVE  t.row.env \in {u.row.env : u \in silver} \cup envs
    BY <1>5
  <2>2. ASSUME NEW t \in silver
        PROVE  \E u \in silver' : u.row.env = t.row.env
    BY <1>5
  <2>3. ASSUME NEW s \in good
        PROVE  \E u \in silver' : u.row.env = s.env
    BY <1>5
  <2> QED
    BY <2>1, <2>2, <2>3
<1> QED
  BY <1>3, <1>4, <1>6 DEF Store!Accept

\* The MERGE into the dead-letter queue is a Quarantine of the batch's others.
LEMMA DlqMergeRefines ==
  ASSUME TypeOK, DlqMerge, UNCHANGED tableVars
  PROVE  Store!Quarantine
<1> DEFINE bad == NewDlqRows(BadRows(Batch))
           New == [row : bad, ins : {dlqInserts + 1}]
           envs == {s.env : s \in bad}
<1>1. bad \subseteq BadRows(bronze)
  BY DEF NewDlqRows, BadRows, Batch
<1>2. \A r \in bad : r \in bronze /\ r.env \in Invalid \cup Unparseable
  BY <1>1 DEF BadRows, TypeOK, TableTypeOK, BronzeRow, Envelopes
<1>3. envs \in SUBSET ({r.env : r \in bronze} \cap (Invalid \cup Unparseable))
  BY <1>2
<1>4. dlq' = dlq \cup New /\ silver' = silver /\ bronze' = bronze
  BY DEF DlqMerge, MergeIntoDlq, tableVars
<1>5. {d.row.env : d \in New} = envs
  <2>1. \A d \in New : d.row \in bad
    OBVIOUS
  <2>2. \A s \in bad : \E d \in New : d.row = s
    <3> TAKE s \in bad
    <3>1. [row |-> s, ins |-> dlqInserts + 1] \in New
      OBVIOUS
    <3> QED
      BY <3>1
  <2> QED
    BY <2>1, <2>2
<1> HIDE DEF New, envs
<1>6. {d.row.env : d \in dlq'} = {d.row.env : d \in dlq} \cup envs
  BY <1>4, <1>5
<1> QED
  BY <1>3, <1>4, <1>6 DEF Store!Quarantine

\* The detailed specification implements the abstract one.
THEOREM ImplementsStore == Spec => StoreSpec
<1>1. Init => Store!Init
  BY DEF Init, TableInit, SilverInit, Store!Init
<1>2. ASSUME TypeOK /\ SilverInv, [Next]_vars
      PROVE  [Store!Next]_(Store!storeVars)
  <2>1. CASE BronzeAppend
    BY <1>2, <2>1, AppendRefines DEF Store!Next
  <2>2. CASE SilverMerge /\ UNCHANGED tableVars
    BY <1>2, <2>2, MergeRefines DEF Store!Next
  <2>3. CASE DlqMerge /\ UNCHANGED tableVars
    BY <1>2, <2>3, DlqMergeRefines DEF Store!Next
  <2>4. CASE /\ SilverStep /\ ~SilverMerge /\ ~DlqMerge
             /\ UNCHANGED tableVars
    <3>1. silver' = silver /\ dlq' = dlq /\ bronze' = bronze
      BY <2>4 DEF SilverStep, SilverStart, SilverPlan, SilverCommit,
                  SilverFinish, SilverCrash, SilverReset, tableVars
    <3> QED
      BY <3>1 DEF Store!storeVars
  <2>5. CASE UNCHANGED vars
    BY <2>5 DEF vars, tableVars, silverVars, Store!storeVars
  <2> QED
    BY <1>2, <2>1, <2>2, <2>3, <2>4, <2>5, NextCases
<1> QED
  BY <1>1, <1>2, Invariance, PTL DEF Spec, StoreSpec, Store!Spec
=============================================================================
