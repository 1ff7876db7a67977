-------------------------- MODULE SilverTransform --------------------------
(***************************************************************************)
(* The Silver job (databricks/jobs/02_silver_transform.py): a Structured   *)
(* Streaming query that reads the Bronze table under trigger               *)
(* availableNow and runs upsert() on every micro-batch.  upsert() makes    *)
(* two Delta MERGEs, one into Silver and one into the dead-letter queue;   *)
(* each is atomic, the pair is not.  The query writes the end of a batch   *)
(* to its offset log before it runs the batch and to its commit log after, *)
(* so a job that dies in between runs the same batch again.                *)
(*                                                                         *)
(* A row of a target table is modelled by the Bronze row its columns were  *)
(* last written from and the number of the MERGE that inserted it: two     *)
(* rows the table would hold twice stay two elements of the set.           *)
(***************************************************************************)
EXTENDS BronzeTable

VARIABLES
  silver,         \* heimdall.silver.business_events
  silverInserts,  \* MERGEs so far that inserted into it
  dlq,            \* heimdall.dlq.business
  dlqInserts,     \* MERGEs so far that inserted into it
  silverDone,     \* Bronze version the checkpoint's commit log has reached
  silverPlanned,  \* Bronze version its offset log has reached
  silverTarget,   \* where this availableNow run stops (lost with the process)
  silverPc        \* where the job is

silverVars ==
  <<silver, silverInserts, dlq, dlqInserts,
    silverDone, silverPlanned, silverTarget, silverPc>>

TargetRow == [row : BronzeRow, ins : Nat \ {0}]

SilverTypeOK ==
  /\ silver \subseteq TargetRow
  /\ silverInserts \in Nat
  /\ \A t \in silver : t.ins <= silverInserts
  /\ dlq \subseteq TargetRow
  /\ dlqInserts \in Nat
  /\ \A d \in dlq : d.ins <= dlqInserts
  /\ silverDone \in Nat
  /\ silverPlanned \in Nat
  /\ silverTarget \in Nat
  /\ silverPc \in {"idle", "ready", "planned", "merged", "quarantined"}
  /\ silverDone <= silverPlanned
  /\ silverPlanned <= bronzeVersion
  /\ silverTarget <= bronzeVersion
  /\ silverPc # "idle" => silverPlanned <= silverTarget
  /\ silverPc = "ready" => silverDone = silverPlanned
  /\ silverPc \in {"planned", "merged", "quarantined"}
       => silverDone < silverPlanned

SilverInit ==
  /\ silver = {}
  /\ silverInserts = 0
  /\ dlq = {}
  /\ dlqInserts = 0
  /\ silverDone = 0
  /\ silverPlanned = 0
  /\ silverTarget = 0
  /\ silverPc = "idle"
-----------------------------------------------------------------------------
(***************************************************************************)
(* upsert(batch_df, batch_id).                                             *)
(***************************************************************************)

\* The rows of the micro-batch: what Bronze gained after the commit log's end
\* and up to the offset log's end.
Batch == {r \in bronze : silverDone < r.ver /\ r.ver <= silverPlanned}

\* Mutant: the filter on failure_codes is gone.
ValidRowsUnfiltered(rows) == rows

\* The rows that parse and break no rule, and the others.
ValidRows(rows) == {r \in rows : r.env \in Valid}
BadRows(rows) == {r \in rows : r.env \notin Valid}

\* Mutant: the window orders by kafka_offset only.
LaterByOffset(r, s) == r.off > s.off

\* ORDER BY ingest_ts DESC, kafka_offset DESC: r comes before s.
Later(r, s) ==
  \/ r.ver > s.ver
  \/ r.ver = s.ver /\ r.off > s.off

\* Mutant: the batch goes into the MERGE without the window.
ToSilverWithoutWindow(rows) == rows

\* _to_silver: row_number() = 1 within each event_id.
ToSilver(rows) ==
  {r \in rows : \A s \in rows : s.env = r.env => ~Later(s, r)}

\* MERGE ... ON t.event_id = s.event_id, whenMatchedUpdateAll: a matched row
\* of the target keeps its identity and takes the source row's columns.
MatchedRows(good) ==
  {u \in [row : good, ins : 1 .. silverInserts] :
     \E t \in silver : t.ins = u.ins /\ t.row.env = u.row.env}

\* whenNotMatchedInsertAll: the source rows no row of the target matches.
UnmatchedRows(good) ==
  {s \in good : \A t \in silver : t.row.env # s.env}

\* Mutant: an overwrite where the MERGE was.
OverwriteSilver(good) ==
  /\ silver' = [row : good, ins : {silverInserts + 1}]
  /\ silverInserts' = silverInserts + 1

MergeIntoSilver(good) ==
  /\ silver' = {t \in silver : \A s \in good : s.env # t.row.env}
                 \cup MatchedRows(good)
                 \cup [row : UnmatchedRows(good), ins : {silverInserts + 1}]
  /\ silverInserts' = IF UnmatchedRows(good) = {} THEN silverInserts
                                                  ELSE silverInserts + 1

\* dlq_key: the hash of topic, partition, offset and raw envelope.
DlqKey(r) == <<r.off, r.env>>

\* Mutant: every quarantined row is inserted, matched or not.
AllDlqRows(bad) == bad

\* MERGE ... ON t.dlq_key = s.dlq_key, whenNotMatchedInsertAll.  The source
\* rows are compared with the table, not with each other.
NewDlqRows(bad) ==
  {r \in bad : \A d \in dlq : DlqKey(d.row) # DlqKey(r)}

MergeIntoDlq(bad) ==
  /\ dlq' = dlq \cup [row : NewDlqRows(bad), ins : {dlqInserts + 1}]
  /\ dlqInserts' = IF NewDlqRows(bad) = {} THEN dlqInserts ELSE dlqInserts + 1
-----------------------------------------------------------------------------
(***************************************************************************)
(* The query's steps.                                                      *)
(***************************************************************************)

\* Mutant: a restarted job believes its planned batch was committed.
SilverStartForgetsPlan ==
  /\ silverPc = "idle"
  /\ silverTarget' = bronzeVersion
  /\ silverPc' = "ready"
  /\ silverDone' = silverPlanned
  /\ UNCHANGED <<silver, silverInserts, dlq, dlqInserts, silverPlanned>>

\* Mutant: a restarted job plans anew, over the batch it left unfinished.
SilverStartReplans ==
  /\ silverPc = "idle"
  /\ silverTarget' = bronzeVersion
  /\ silverPc' = "ready"
  /\ UNCHANGED <<silver, silverInserts, dlq, dlqInserts,
                 silverDone, silverPlanned>>

\* The scheduler fires the job: the run will read up to the table's current
\* version, after running again a batch that was planned and not committed.
SilverStart ==
  /\ silverPc = "idle"
  /\ silverTarget' = bronzeVersion
  /\ silverPc' = IF silverDone < silverPlanned THEN "planned" ELSE "ready"
  /\ UNCHANGED <<silver, silverInserts, dlq, dlqInserts,
                 silverDone, silverPlanned>>

\* The end of the next micro-batch goes to the offset log.
SilverPlan ==
  /\ silverPc = "ready"
  /\ \E v \in silverDone + 1 .. silverTarget : silverPlanned' = v
  /\ silverPc' = "planned"
  /\ UNCHANGED <<silver, silverInserts, dlq, dlqInserts,
                 silverDone, silverTarget>>

\* upsert(), first MERGE.
SilverMerge ==
  /\ silverPc = "planned"
  /\ MergeIntoSilver(ToSilver(ValidRows(Batch)))
  /\ silverPc' = "merged"
  /\ UNCHANGED <<dlq, dlqInserts, silverDone, silverPlanned, silverTarget>>

\* Mutant: upsert() returns after the first MERGE.
DlqMergeSkipped ==
  /\ silverPc = "merged"
  /\ silverPc' = "quarantined"
  /\ UNCHANGED <<silver, silverInserts, dlq, dlqInserts,
                 silverDone, silverPlanned, silverTarget>>

\* upsert(), second MERGE.
DlqMerge ==
  /\ silverPc = "merged"
  /\ MergeIntoDlq(BadRows(Batch))
  /\ silverPc' = "quarantined"
  /\ UNCHANGED <<silver, silverInserts,
                 silverDone, silverPlanned, silverTarget>>

\* upsert() returned: the batch goes to the commit log.
SilverCommit ==
  /\ silverPc = "quarantined"
  /\ silverDone' = silverPlanned
  /\ silverPc' = "ready"
  /\ UNCHANGED <<silver, silverInserts, dlq, dlqInserts,
                 silverPlanned, silverTarget>>

\* availableNow: nothing is left below the target, awaitTermination returns.
SilverFinish ==
  /\ silverPc = "ready"
  /\ silverDone >= silverTarget
  /\ silverPc' = "idle"
  /\ silverTarget' = 0
  /\ UNCHANGED <<silver, silverInserts, dlq, dlqInserts,
                 silverDone, silverPlanned>>

\* The job dies, or a MERGE raises out of upsert(): tables and checkpoint stay.
SilverCrash ==
  /\ silverPc # "idle"
  /\ silverPc' = "idle"
  /\ silverTarget' = 0
  /\ UNCHANGED <<silver, silverInserts, dlq, dlqInserts,
                 silverDone, silverPlanned>>

\* An operator clears the job's checkpoint to reprocess Bronze.
SilverReset ==
  /\ silverPc = "idle"
  /\ silverDone' = 0
  /\ silverPlanned' = 0
  /\ UNCHANGED <<silver, silverInserts, dlq, dlqInserts,
                 silverTarget, silverPc>>

SilverStep ==
  \/ SilverStart \/ SilverPlan \/ SilverMerge \/ DlqMerge
  \/ SilverCommit \/ SilverFinish \/ SilverCrash \/ SilverReset

\* The scheduler keeps firing the job and a running job keeps running.
\* Nothing is assumed of crashes and operators.
SilverFairness ==
  /\ WF_silverVars(SilverStart)
  /\ WF_silverVars(SilverPlan)
  /\ WF_silverVars(SilverMerge)
  /\ WF_silverVars(DlqMerge)
  /\ WF_silverVars(SilverCommit)
  /\ WF_silverVars(SilverFinish)
-----------------------------------------------------------------------------
(***************************************************************************)
(* What the job promises about its two tables.                             *)
(***************************************************************************)

\* One Silver row per event_id, whatever was appended to Bronze twice,
\* retried after a crash or reprocessed after a reset: the MERGE updates in
\* place, and the window leaves the MERGE one source row per key.
OneRowPerEvent ==
  \A t, u \in silver : t.row.env = u.row.env => t = u

InSilver(r) == \E t \in silver : t.row.env = r.env
InDlq(r) == \E d \in dlq : DlqKey(d.row) = DlqKey(r)

\* "Nothing is dropped": a Bronze row behind the checkpoint is in Silver if it
\* is valid and in the dead-letter queue under its own lineage if it is not,
\* although the two MERGEs of a batch are not atomic and the job may die
\* between them.
NothingDropped ==
  \A r \in bronze :
    r.ver <= silverDone => IF r.env \in Valid THEN InSilver(r) ELSE InDlq(r)

\* When the checkpoint has caught up with Bronze, the content of Silver is a
\* function of Bronze alone: the latest row of every valid event.  How the
\* rows were cut into batches, which batches ran twice and what was
\* reprocessed after a reset (when an old row overwrites a newer one for a
\* while) leaves no trace.
CaughtUpIsCanonical ==
  silverDone = bronzeVersion =>
    {t.row : t \in silver} = ToSilver(ValidRows(bronze))

\* Bronze holds no record twice.
BronzeKeysUnique ==
  \A r, s \in bronze : DlqKey(r) = DlqKey(s) => r = s

\* The dead-letter queue counts a quarantined Bronze row once: a batch that is
\* retried or reprocessed inserts nothing.  Bronze must not hold the row
\* twice; a repeated row inside one batch is another matter.
DlqCountsOnce ==
  BronzeKeysUnique =>
    \A d, e \in dlq : DlqKey(d.row) = DlqKey(e.row) => d = e

\* "The DLQ write is itself idempotent (MERGE on a content hash)", so no key
\* is in the queue twice, with no condition on what Bronze holds.
DlqKeysUnique ==
  \A d, e \in dlq : DlqKey(d.row) = DlqKey(e.row) => d = e
-----------------------------------------------------------------------------
(***************************************************************************)
(* The inductive invariant behind them.  The horizon of a table is the     *)
(* Bronze version up to which it has absorbed every row: the commit log's  *)
(* end, or the planned end once the running batch went through its MERGE.  *)
(* A crash moves the horizon back to the commit log's end, a reset to 0.   *)
(***************************************************************************)
SilverHorizon ==
  IF silverPc \in {"merged", "quarantined"} THEN silverPlanned ELSE silverDone
DlqHorizon ==
  IF silverPc = "quarantined" THEN silverPlanned ELSE silverDone

RowsComeFromBronze ==
  /\ \A t \in silver : t.row \in ValidRows(bronze)
  /\ \A d \in dlq : d.row \in BadRows(bronze)

\* Silver holds every valid row up to the horizon, or a later one of its event.
SilverCovers ==
  \A r \in ValidRows(bronze) :
    r.ver <= SilverHorizon =>
      \E t \in silver : t.row.env = r.env /\ ~Later(r, t.row)

DlqCovers ==
  \A r \in BadRows(bronze) : r.ver <= DlqHorizon => InDlq(r)

SilverInv ==
  /\ RowsComeFromBronze
  /\ OneRowPerEvent
  /\ SilverCovers
  /\ DlqCovers
  /\ DlqCountsOnce
=============================================================================
