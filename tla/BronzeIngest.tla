--------------------------- MODULE BronzeIngest ---------------------------
(***************************************************************************)
(* The Bronze job (databricks/jobs/01_bronze_ingest.py) with its Kafka     *)
(* source: a Structured Streaming query under trigger availableNow that    *)
(* appends to the Bronze table what the topic gained since its checkpoint. *)
(* No maxOffsetsPerTrigger is set, so one run is one micro-batch up to the *)
(* end the topic had when the run started.                                 *)
(*                                                                         *)
(* The topic is one partition's log; partitions are independent and a      *)
(* business keeps to one, since its id is the record key.  The Delta sink  *)
(* stores with each append the id of the query (a new one per checkpoint)  *)
(* and of the batch, and skips a batch it has already.                     *)
(***************************************************************************)
EXTENDS BronzeTable, Sequences, FiniteSets

VARIABLES
  log,            \* the records of the topic; log[o + 1] is at offset o
  earliest,       \* the first offset retention has kept
  bronzeStart,    \* where this checkpoint began to read
  bronzeDone,     \* the end of its commit log: the next offset to read
  bronzePlanned,  \* the end of its offset log
  batchId,        \* the micro-batch that is next, or running
  queryId,        \* the checkpoint's id: how often the operator cleared it
  sinkTxn,        \* the query and batch of the table's latest append
  bronzeTarget,   \* where this availableNow run stops (lost with the process)
  bronzePc        \* where the job is

topicVars == <<log, earliest>>
bronzeVars ==
  <<bronzeStart, bronzeDone, bronzePlanned, batchId, queryId, sinkTxn,
    bronzeTarget, bronzePc>>

\* The checkpoint directory is empty.
NoCheckpoint == -1
EndOfLog == Len(log)

BronzeTypeOK ==
  /\ log \in Seq(Envelopes)
  /\ earliest \in 0 .. EndOfLog
  /\ bronzeStart \in {NoCheckpoint} \cup Nat
  /\ bronzeDone \in {NoCheckpoint} \cup Nat
  /\ bronzePlanned \in {NoCheckpoint} \cup Nat
  /\ batchId \in Nat
  /\ queryId \in Nat
  /\ sinkTxn \in [query : Nat, batch : Int]
  /\ bronzeTarget \in 0 .. EndOfLog
  /\ bronzePc \in {"idle", "ready", "planned", "appended"}
  /\ bronzeStart <= bronzeDone
  /\ bronzeDone <= bronzePlanned
  /\ bronzePlanned <= EndOfLog
  /\ bronzePc = "ready" => bronzeDone = bronzePlanned
  /\ bronzePc \in {"planned", "appended"} => bronzeDone < bronzePlanned

BronzeInit ==
  /\ log = <<>>
  /\ earliest = 0
  /\ bronzeStart = NoCheckpoint
  /\ bronzeDone = NoCheckpoint
  /\ bronzePlanned = NoCheckpoint
  /\ batchId = 0
  /\ queryId = 0
  /\ sinkTxn = [query |-> 0, batch |-> -1]
  /\ bronzeTarget = 0
  /\ bronzePc = "idle"
-----------------------------------------------------------------------------
(***************************************************************************)
(* The topic.                                                              *)
(***************************************************************************)

\* A record arrives.  The wire is at-least-once: any envelope may come again.
Produce(e) ==
  /\ log' = Append(log, e)
  /\ UNCHANGED <<earliest, tableVars, bronzeVars>>

\* Retention drops the oldest record, read or not.
Expire ==
  /\ earliest < EndOfLog
  /\ earliest' = earliest + 1
  /\ UNCHANGED <<log, tableVars, bronzeVars>>
-----------------------------------------------------------------------------
(***************************************************************************)
(* The query.                                                              *)
(***************************************************************************)

\* Mutant: a restarted job plans anew, over the batch it left unfinished.
BronzeStartReplans ==
  /\ bronzePc = "idle"
  /\ bronzeTarget' = EndOfLog
  /\ IF bronzeDone = NoCheckpoint
     THEN /\ bronzeStart' = earliest
          /\ bronzeDone' = earliest
          /\ bronzePlanned' = earliest
     ELSE UNCHANGED <<bronzeStart, bronzeDone, bronzePlanned>>
  /\ bronzePc' = "ready"
  /\ UNCHANGED <<topicVars, tableVars, batchId, queryId, sinkTxn>>

\* The scheduler fires the job.  With an empty checkpoint it starts at the
\* earliest retained offset; otherwise it resumes, and runs again a batch
\* that was planned and not committed.
BronzeStart ==
  /\ bronzePc = "idle"
  /\ bronzeTarget' = EndOfLog
  /\ IF bronzeDone = NoCheckpoint
     THEN /\ bronzeStart' = earliest
          /\ bronzeDone' = earliest
          /\ bronzePlanned' = earliest
          /\ bronzePc' = "ready"
     ELSE /\ bronzePc' = IF bronzeDone < bronzePlanned THEN "planned"
                                                       ELSE "ready"
          /\ UNCHANGED <<bronzeStart, bronzeDone, bronzePlanned>>
  /\ UNCHANGED <<topicVars, tableVars, batchId, queryId, sinkTxn>>

\* The end of the micro-batch goes to the offset log.
BronzePlan ==
  /\ bronzePc = "ready"
  /\ bronzeDone < bronzeTarget
  /\ bronzePlanned' = bronzeTarget
  /\ bronzePc' = "planned"
  /\ UNCHANGED <<topicVars, tableVars, bronzeStart, bronzeDone, batchId,
                 queryId, sinkTxn, bronzeTarget>>

\* The sink already has the batch.
InSink == sinkTxn.query = queryId /\ sinkTxn.batch >= batchId

\* Mutant: failOnDataLoss is "false".
DataLossIgnored == FALSE

\* Retention has dropped records the batch would read.
DataLoss == bronzeDone < earliest

\* Mutant: the value of the record before the offset it is stored under.
BatchRowsShifted ==
  [o \in {p \in bronzeDone .. bronzePlanned - 1 : p >= earliest} |->
     log[IF o = 0 THEN 1 ELSE o]]

\* Mutant: every batch begins where the checkpoint began.
BatchRowsFromStart ==
  [o \in {p \in bronzeStart .. bronzePlanned - 1 : p >= earliest} |-> log[o + 1]]

\* The batch: the offset and value of every record still there, the value as
\* it is.
BatchRows ==
  [o \in {p \in bronzeDone .. bronzePlanned - 1 : p >= earliest} |-> log[o + 1]]

\* The sink appends the batch in one Delta commit, or skips it.
BronzeAppend ==
  /\ bronzePc = "planned"
  /\ IF InSink
     THEN UNCHANGED <<tableVars, sinkTxn>>
     ELSE /\ ~DataLoss
          /\ AppendCommit(BatchRows)
          /\ sinkTxn' = [query |-> queryId, batch |-> batchId]
  /\ bronzePc' = "appended"
  /\ UNCHANGED <<topicVars, bronzeStart, bronzeDone, bronzePlanned, batchId,
                 queryId, bronzeTarget>>

\* failOnDataLoss: reading expired offsets fails the query.
BronzeFail ==
  /\ bronzePc = "planned"
  /\ ~InSink
  /\ DataLoss
  /\ bronzePc' = "idle"
  /\ bronzeTarget' = 0
  /\ UNCHANGED <<topicVars, tableVars, bronzeStart, bronzeDone, bronzePlanned,
                 batchId, queryId, sinkTxn>>

\* The batch goes to the commit log.
BronzeCommit ==
  /\ bronzePc = "appended"
  /\ bronzeDone' = bronzePlanned
  /\ batchId' = batchId + 1
  /\ bronzePc' = "ready"
  /\ UNCHANGED <<topicVars, tableVars, bronzeStart, bronzePlanned, queryId,
                 sinkTxn, bronzeTarget>>

\* awaitTermination returns.
BronzeFinish ==
  /\ bronzePc = "ready"
  /\ bronzeDone >= bronzeTarget
  /\ bronzePc' = "idle"
  /\ bronzeTarget' = 0
  /\ UNCHANGED <<topicVars, tableVars, bronzeStart, bronzeDone, bronzePlanned,
                 batchId, queryId, sinkTxn>>

\* The job dies; topic, table and checkpoint stay.
BronzeCrash ==
  /\ bronzePc # "idle"
  /\ bronzePc' = "idle"
  /\ bronzeTarget' = 0
  /\ UNCHANGED <<topicVars, tableVars, bronzeStart, bronzeDone, bronzePlanned,
                 batchId, queryId, sinkTxn>>

\* An operator clears the job's checkpoint; the next run is a new query.
BronzeReset ==
  /\ bronzePc = "idle"
  /\ bronzeDone # NoCheckpoint
  /\ bronzeStart' = NoCheckpoint
  /\ bronzeDone' = NoCheckpoint
  /\ bronzePlanned' = NoCheckpoint
  /\ batchId' = 0
  /\ queryId' = queryId + 1
  /\ UNCHANGED <<topicVars, tableVars, sinkTxn, bronzeTarget, bronzePc>>

BronzeStep ==
  \/ BronzeStart \/ BronzePlan \/ BronzeAppend \/ BronzeFail
  \/ BronzeCommit \/ BronzeFinish \/ BronzeCrash \/ BronzeReset

\* The scheduler keeps firing the job and a running job keeps running.
\* Nothing is assumed of producers, retention, crashes and operators.
BronzeFairness ==
  LET v == <<tableVars, bronzeVars>> IN
  /\ WF_v(BronzeStart)
  /\ WF_v(BronzePlan)
  /\ WF_v(BronzeAppend)
  /\ WF_v(BronzeFail)
  /\ WF_v(BronzeCommit)
  /\ WF_v(BronzeFinish)
-----------------------------------------------------------------------------
(***************************************************************************)
(* What the job promises.                                                  *)
(***************************************************************************)

\* A row carries the record of its offset, unchanged: lineage leads back to
\* the record, also from a batch that was planned, appended and retried.
Verbatim ==
  \A r \in bronze : r.off \in 0 .. EndOfLog - 1 /\ r.env = log[r.off + 1]

\* "Exactly-once for retained offsets": one checkpoint appends an offset at
\* most once, wherever its runs were interrupted, so the table holds it at
\* most once per checkpoint the job ever had.
OncePerCheckpoint ==
  \A o \in 0 .. EndOfLog - 1 :
    Cardinality({r \in bronze : r.off = o}) <= queryId + 1

\* "Fails loudly rather than silently skipping": every offset between the
\* checkpoint's beginning and its end is in the table, whenever retention
\* dropped the record.
NoSilentSkip ==
  \A o \in bronzeStart .. bronzeDone - 1 :
    bronzeStart # NoCheckpoint => \E r \in bronze : r.off = o

\* A record is in the table; the job fails whenever it is fired.
Ingested(o) == \E r \in bronze : r.off = o
FailingLoudly == bronzeDone # NoCheckpoint /\ DataLoss
=============================================================================
