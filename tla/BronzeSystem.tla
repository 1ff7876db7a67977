---------------------------- MODULE BronzeSystem ----------------------------
(***************************************************************************)
(* The Bronze job with a topic that producers fill and retention empties.  *)
(***************************************************************************)
EXTENDS BronzeIngest

CONSTANTS
  MaxLog,    \* bound: the number of records produced
  MaxResets  \* bound: how often the operator clears the checkpoint

ASSUME BronzeBounds ==
  /\ MaxLog \in Nat
  /\ MaxLog <= MaxOffset + 1
  /\ MaxResets \in Nat

vars == <<topicVars, tableVars, bronzeVars>>

Init == TableInit /\ BronzeInit

Next ==
  \/ EndOfLog < MaxLog /\ \E e \in Envelopes : Produce(e)
  \/ Expire
  \/ BronzeStart
  \/ BronzePlan
  \/ BronzeAppend
  \/ BronzeFail
  \/ BronzeCommit
  \/ BronzeFinish
  \/ BronzeCrash
  \/ queryId < MaxResets /\ BronzeReset

Spec == Init /\ [][Next]_vars
FairSpec == Spec /\ BronzeFairness
-----------------------------------------------------------------------------
TypeOK == TableTypeOK /\ BronzeTypeOK

\* Where the table stands for the current checkpoint: behind the batch that
\* is pending if the sink has it, before it otherwise.
Horizon == IF InSink THEN bronzePlanned ELSE bronzeDone

\* "Exactly-once for retained offsets": the table is a copy of the topic, made
\* commit by commit, each beginning where the one before it ended.  Planning,
\* failing, dying, restarting and the two logs of the checkpoint are stuttering
\* steps: what the job remembers in three places moves as one position.
TopicCopy == INSTANCE TopicCopy WITH
  Records <- Envelopes,
  None <- NoCheckpoint,
  source <- log,
  oldest <- earliest,
  copies <- bronze,
  commits <- bronzeVersion,
  first <- bronzeStart,
  next <- Horizon

CopySpec == TopicCopy!Spec

\* From some point on the job does not die and nobody clears its checkpoint.
\* (Dying with nothing left to do is the same step as finishing, and dying on
\* lost data the same as failing.)
Undisturbed ==
  <>[][(BronzeCrash => BronzeFinish \/ BronzeFail) /\ ~BronzeReset]_vars

\* Once jobs stop dying and the operator stops clearing the checkpoint, every
\* record is ingested, or it had expired before this checkpoint began, or the
\* job keeps failing for lost data: it never idles over a record it skipped.
IngestedOrLoud ==
  Undisturbed =>
    \A o \in 0 .. MaxLog - 1 :
      (o < EndOfLog) ~> (Ingested(o) \/ o < bronzeStart \/ FailingLoudly)
=============================================================================
