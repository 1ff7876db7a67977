----------------------------- MODULE Medallion -----------------------------
(***************************************************************************)
(* The streaming part of the lakehouse: the Bronze job and the Silver job, *)
(* each fired by its own schedule, over the topic and the Bronze table     *)
(* between them.  Neither job knows of the other: Silver may read a table  *)
(* Bronze is appending to, and each dies, restarts and is reset alone.     *)
(***************************************************************************)
EXTENDS BronzeIngest, SilverTransform

CONSTANTS
  MaxLog,        \* bound: the number of records produced
  MaxResets,     \* bound: how often Bronze's checkpoint is cleared
  SilverResets   \* whether Silver's checkpoint may be cleared

ASSUME MedallionBounds ==
  /\ MaxLog \in Nat
  /\ MaxLog <= MaxOffset + 1
  /\ MaxResets \in Nat
  /\ SilverResets \in BOOLEAN

vars == <<topicVars, tableVars, bronzeVars, silverVars>>
outsideSilver == <<topicVars, tableVars, bronzeVars>>

Init == TableInit /\ BronzeInit /\ SilverInit

Next ==
  \/ /\ EndOfLog < MaxLog
     /\ \E e \in Envelopes : Produce(e)
     /\ UNCHANGED silverVars
  \/ Expire /\ UNCHANGED silverVars
  \/ BronzeStart /\ UNCHANGED silverVars
  \/ BronzePlan /\ UNCHANGED silverVars
  \/ BronzeAppend /\ UNCHANGED silverVars
  \/ BronzeFail /\ UNCHANGED silverVars
  \/ BronzeCommit /\ UNCHANGED silverVars
  \/ BronzeFinish /\ UNCHANGED silverVars
  \/ BronzeCrash /\ UNCHANGED silverVars
  \/ queryId < MaxResets /\ BronzeReset /\ UNCHANGED silverVars
  \/ SilverStart /\ UNCHANGED outsideSilver
  \/ SilverPlan /\ UNCHANGED outsideSilver
  \/ SilverMerge /\ UNCHANGED outsideSilver
  \/ DlqMerge /\ UNCHANGED outsideSilver
  \/ SilverCommit /\ UNCHANGED outsideSilver
  \/ SilverFinish /\ UNCHANGED outsideSilver
  \/ SilverCrash /\ UNCHANGED outsideSilver
  \/ SilverResets /\ SilverReset /\ UNCHANGED outsideSilver

Spec == Init /\ [][Next]_vars
FairSpec == Spec /\ BronzeFairness /\ SilverFairness
-----------------------------------------------------------------------------
TypeOK == TableTypeOK /\ BronzeTypeOK /\ SilverTypeOK

\* A record of the topic has reached the table it belongs in.
Landed(o) ==
  IF log[o + 1] \in Valid
  THEN \E t \in silver : t.row.env = log[o + 1]
  ELSE \E d \in dlq : DlqKey(d.row) = <<o, log[o + 1]>>

\* "Nothing is dropped", across the two jobs: once Silver has caught up with
\* the Bronze table, every record the Bronze job has gone past is landed,
\* whatever either job lived through and whatever retention dropped since.
RecordsLand ==
  silverDone = bronzeVersion =>
    \A o \in bronzeStart .. bronzeDone - 1 :
      bronzeStart # NoCheckpoint => Landed(o)

\* The data-quality metric is exact: as long as nobody cleared Bronze's
\* checkpoint, the dead-letter queue has one row per bad record of the topic
\* that Silver has gone past, no more (a retry counted twice) and no fewer.
DlqIsExact ==
  queryId = 0 /\ silverDone = bronzeVersion =>
    Cardinality(dlq) =
      Cardinality({o \in 0 .. EndOfLog - 1 :
                     Ingested(o) /\ log[o + 1] \notin Valid})

\* The lakehouse implements the abstract store from end to end: an envelope is
\* received when it is in the topic, and goes to the one place it belongs in
\* or nowhere.  The Bronze job, retention, both jobs' crashes and resets and
\* every retry are stuttering steps.
Store == INSTANCE ObservationStore WITH
  Good <- Valid,
  Bad <- Invalid \cup Unparseable,
  received <- {log[i] : i \in 1 .. EndOfLog},
  accepted <- {t.row.env : t \in silver},
  quarantined <- {d.row.env : d \in dlq}

StoreSpec == Store!Spec

\* From some point on neither job dies and nobody clears a checkpoint.
\* (Dying with nothing left to do is the same step as finishing, dying on lost
\* data the same as failing, and clearing an empty checkpoint is no step.)
Undisturbed ==
  <>[][/\ BronzeCrash => BronzeFinish \/ BronzeFail
       /\ SilverCrash => SilverFinish
       /\ ~BronzeReset
       /\ SilverReset => UNCHANGED silverVars]_vars

\* Once jobs stop dying and operators stop clearing checkpoints, every record
\* lands, or it expired before the checkpoint began, or Bronze keeps failing
\* for lost data.
RecordsEventuallyLand ==
  Undisturbed =>
    \A o \in 0 .. MaxLog - 1 :
      (o < EndOfLog) ~> (\/ o < EndOfLog /\ Landed(o)
                         \/ o < bronzeStart
                         \/ FailingLoudly)
=============================================================================
