--------------------------- MODULE ProducerSystem ---------------------------
(***************************************************************************)
(* The producer as the runner drives it (ingest/runner.py, run_once and    *)
(* close): sweeps of any number of records, each ended by a flush and a    *)
(* SweepStats that takes its delivery_failed from the producer, then a     *)
(* close, which may come at any point between two calls.                   *)
(***************************************************************************)
EXTENDS EventProducer

VARIABLES
  sweepFirst,  \* the first record of the running sweep
  sweep        \* the latest SweepStats, and what flush() had returned

sweepVars == <<sweepFirst, sweep>>
vars == <<producerVars, sweepVars>>

NoSweep == [first |-> 1, last |-> 0, failed |-> 0, remaining |-> 0]

Init ==
  /\ ProducerInit
  /\ sweepFirst = 1
  /\ sweep = NoSweep

\* stats.delivery_failed = self._producer.failed
DeliveryFailed == failed

\* flush() returned; the sweep is reported and the next one begins.
Report(inFlight) ==
  /\ sweep' = [first |-> sweepFirst, last |-> published,
               failed |-> DeliveryFailed, remaining |-> inFlight]
  /\ sweepFirst' = published + 1

SweepDone == FlushReturn /\ Report(Cardinality(Outstanding))

SweepDoneWithoutKafka ==
  /\ call = "none"
  /\ ~settings.kafka
  /\ sweepFirst <= published
  /\ Report(0)
  /\ UNCHANGED producerVars

\* After close() the process is gone.
Exited == call = "closed" /\ UNCHANGED vars

Next ==
  \/ \E r \in Records : Write(r) /\ UNCHANGED sweepVars
  \/ \E r \in Records : Acknowledge(r) /\ UNCHANGED sweepVars
  \/ \E r \in Records : Refuse(r) /\ UNCHANGED sweepVars
  \/ \E r \in Records : TimeOut(r) /\ UNCHANGED sweepVars
  \/ Tick /\ UNCHANGED sweepVars
  \/ Publish /\ UNCHANGED sweepVars
  \/ Retry /\ UNCHANGED sweepVars
  \/ Flush("flush") /\ UNCHANGED sweepVars
  \/ Flush("close") /\ UNCHANGED sweepVars
  \/ FlushServe /\ UNCHANGED sweepVars
  \/ SweepDone
  \/ SweepDoneWithoutKafka
  \/ CloseReturn /\ UNCHANGED sweepVars
  \/ CloseWithoutKafka /\ UNCHANGED sweepVars
  \/ Exited

Spec == Init /\ [][Next]_vars

\* Time passes, librdkafka's timer runs and the caller's thread runs; a
\* broker need never answer.
FairSpec ==
  /\ Spec
  /\ WF_producerVars(Tick)
  /\ WF_producerVars(\E r \in Records : TimeOut(r))
  /\ WF_producerVars(Retry)
  /\ WF_producerVars(FlushServe)
  /\ WF_vars(SweepDone)
  /\ WF_producerVars(CloseReturn)
-----------------------------------------------------------------------------
TypeOK ==
  /\ ProducerTypeOK
  /\ sweepFirst \in 1 .. MaxRecords + 1
  /\ sweep \in [first : 1 .. MaxRecords + 1, last : 0 .. MaxRecords,
                failed : 0 .. MaxRecords, remaining : 0 .. MaxRecords]

\* A sweep that reports nothing in flight and nothing failed is on the
\* brokers, all of it that publish() accepted, and so is every earlier one:
\* delivery is only known through callbacks that other calls happen to serve.
CleanSweepIsDurable ==
  settings.kafka /\ sweep.remaining = 0 /\ sweep.failed = 0 =>
    \A r \in 1 .. sweep.last : r \in onBroker \/ status[r] = "dropped"

\* A sweep that ends with nothing in flight has accounted for every record of
\* the process: what Kafka took was counted delivered or failed exactly once,
\* whichever call happened to serve its report, and the rest was refused.
EveryRecordAccounted ==
  settings.kafka /\ sweep.remaining = 0 /\ sweep.last = published /\ call = "none" =>
    delivered + failed + Cardinality(With("dropped")) = published

\* What a reported sweep left in flight has waited for a whole flush: it is
\* decided within the rest of its message.timeout.ms, the other 15 of its 30 s,
\* and a flush longer than that timeout would leave nothing.
LeftInFlightIsOld ==
  \A r \in 1 .. sweep.last : status[r] = "queued" => age[r] >= FlushTicks

\* Every call of the caller's thread returns, whatever the brokers do.
CallsReturn == (call \in {"full", "flush", "close"}) ~> (call \in {"none", "closed"})

\* "Block until pending records are durably delivered" (ingest/runner.py:152):
\* a sweep ends with nothing in flight.
SweepEndsDelivered == sweep.remaining = 0

\* delivery_failed: "a non-zero value is a real loss" (ingest/runner.py:41-42).
FailedIsLost == \A r \in With("failed") : r \notin onBroker
=============================================================================
