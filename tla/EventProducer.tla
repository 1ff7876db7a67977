--------------------------- MODULE EventProducer ---------------------------
(***************************************************************************)
(* EventProducer (ingest/producer.py): one thread publishes records, each  *)
(* to the raw topic or to the producer-side DLQ topic, flushes and closes. *)
(* Below it librdkafka keeps a bounded local queue, sends in a thread of   *)
(* its own, and holds the delivery report of a record until the caller's   *)
(* thread polls; only then is on_delivery called and the record's place in *)
(* the queue freed.  Both topics share the queue and the callback.         *)
(*                                                                         *)
(* A record is its publication number.  A tick is the flush timeout        *)
(* (15 s); message.timeout.ms (30 s) is two of them.                       *)
(***************************************************************************)
EXTENDS Integers, FiniteSets

CONSTANTS
  MaxRecords,    \* bound: the number of records published
  QueueLimit,    \* how many records the local queue takes
  FlushTicks,    \* flush(timeout)
  DeliveryTicks  \* message.timeout.ms

ASSUME ProducerAssumption ==
  /\ MaxRecords \in Nat
  /\ QueueLimit \in Nat \ {0}
  /\ FlushTicks \in Nat
  /\ DeliveryTicks \in Nat \ {0}

Records == 1 .. MaxRecords

VARIABLES
  settings,    \* whether Kafka and the file sink are enabled
  status,      \* what became of each record, as far as the process can know
  onBroker,    \* the records a topic holds
  age,         \* how long a queued record has waited, in ticks
  mirror,      \* the records the sink file holds
  published,   \* the number of records publish was called for
  delivered,   \* self._delivered
  failed,      \* self._failed
  call,        \* what the caller's thread is in
  flushLeft    \* the ticks before flush() times out

kafkaVars == <<onBroker, age>>
producerVars ==
  <<settings, status, kafkaVars, mirror, published, delivered, failed,
    call, flushLeft>>

\* unsent: not published yet; queued: in librdkafka's hands; acked, errored:
\* its delivery report waits for a poll; delivered, failed: reported;
\* dropped: produce() raised; skipped: there is no Kafka; purged: it was in
\* the queue when the producer was thrown away.
Statuses == {"unsent", "queued", "acked", "errored", "delivered", "failed",
             "dropped", "skipped", "purged"}

With(s) == {r \in Records : status[r] = s}

\* The reports a poll would serve, and the records that take up the queue.
Reports == With("acked") \cup With("errored")
Outstanding == With("queued") \cup Reports

\* The types; and the sink file holds every record that publish was called for,
\* those that produce() then refused or that there is no Kafka for included.
ProducerTypeOK ==
  /\ settings \in [kafka : BOOLEAN, sink : BOOLEAN]
  /\ status \in [Records -> Statuses]
  /\ onBroker \subseteq Records
  /\ age \in [Records -> 0 .. DeliveryTicks]
  /\ mirror = IF settings.sink THEN 1 .. published ELSE {}
  /\ published \in 0 .. MaxRecords
  /\ delivered \in 0 .. MaxRecords
  /\ failed \in 0 .. MaxRecords
  /\ call \in {"none", "full", "flush", "close", "closed"}
  /\ flushLeft \in 0 .. FlushTicks

ProducerInit ==
  /\ settings \in [kafka : BOOLEAN, sink : BOOLEAN]
  /\ status = [r \in Records |-> "unsent"]
  /\ onBroker = {}
  /\ age = [r \in Records |-> 0]
  /\ mirror = {}
  /\ published = 0
  /\ delivered = 0
  /\ failed = 0
  /\ call = "none"
  /\ flushLeft = 0
-----------------------------------------------------------------------------
(***************************************************************************)
(* librdkafka and the brokers.                                             *)
(***************************************************************************)

callerVars == <<settings, mirror, published, delivered, failed, call>>

\* A broker writes a queued record.  The session is idempotent: once.
Write(r) ==
  /\ status[r] = "queued"
  /\ r \notin onBroker
  /\ onBroker' = onBroker \cup {r}
  /\ UNCHANGED <<callerVars, status, age, flushLeft>>

\* Its acknowledgement arrives.
Acknowledge(r) ==
  /\ status[r] = "queued"
  /\ r \in onBroker
  /\ status' = [status EXCEPT ![r] = "acked"]
  /\ UNCHANGED <<callerVars, kafkaVars, flushLeft>>

\* A broker refuses the record, or its time is up, whether or not a broker
\* wrote it and the acknowledgement got lost.
Refuse(r) ==
  /\ status[r] = "queued"
  /\ r \notin onBroker
  /\ status' = [status EXCEPT ![r] = "errored"]
  /\ UNCHANGED <<callerVars, kafkaVars, flushLeft>>

TimeOut(r) ==
  /\ status[r] = "queued"
  /\ age[r] = DeliveryTicks
  /\ status' = [status EXCEPT ![r] = "errored"]
  /\ UNCHANGED <<callerVars, kafkaVars, flushLeft>>

Waiting == call \in {"flush", "close"}

\* Time passes.  A record whose time is up times out first, a flush whose
\* time is up returns first, and poll(1.0) is shorter than a tick.
Tick ==
  /\ \A r \in With("queued") : age[r] < DeliveryTicks
  /\ call # "full"
  /\ Waiting => flushLeft > 0
  /\ With("queued") # {} \/ Waiting
  /\ age' = [r \in Records |-> IF status[r] = "queued" THEN age[r] + 1
                                                       ELSE age[r]]
  /\ flushLeft' = IF Waiting THEN flushLeft - 1 ELSE flushLeft
  /\ UNCHANGED <<callerVars, status, onBroker>>
-----------------------------------------------------------------------------
(***************************************************************************)
(* The caller's thread.                                                    *)
(***************************************************************************)

\* Mutant: the callback does not look at err.
OnDeliveryIgnoresErr(r) == "delivered"

\* _on_delivery: what a served report makes of its record.
OnDelivery(r) == IF status[r] = "acked" THEN "delivered" ELSE "failed"

\* Mutant: a report stays in the queue and the next poll serves it again.
ServedAgain == status

\* poll() serves every waiting report.
Served ==
  [r \in Records |-> IF r \in Reports THEN OnDelivery(r) ELSE status[r]]

\* Mutant: _on_delivery returns on an error before it has counted it.
CountServedDeliveredOnly ==
  /\ delivered' = delivered
       + Cardinality({r \in Reports : OnDelivery(r) = "delivered"})
  /\ UNCHANGED failed

\* _on_delivery counts each of them.
CountServed ==
  /\ delivered' = delivered
       + Cardinality({r \in Reports : OnDelivery(r) = "delivered"})
  /\ failed' = failed
       + Cardinality({r \in Reports : OnDelivery(r) = "failed"})

\* The sink file gets the record before Kafka does, and whatever Kafka says.
Mirrored(r) == IF settings.sink THEN mirror \cup {r} ELSE mirror

\* publish_business(), quarantine() and the inject calls, down to the first
\* produce().  A queue with room takes the record and poll(0) serves what is
\* ready; a full one raises BufferError and the thread goes into poll(1.0).
Publish ==
  LET r == published + 1 IN
  /\ call = "none"
  /\ published < MaxRecords
  /\ published' = r
  /\ mirror' = Mirrored(r)
  /\ \/ /\ ~settings.kafka
        /\ status' = [status EXCEPT ![r] = "skipped"]
        /\ UNCHANGED <<delivered, failed, call>>
     \/ /\ settings.kafka
        /\ Cardinality(Outstanding) < QueueLimit
        /\ status' = [Served EXCEPT ![r] = "queued"]
        /\ CountServed
        /\ UNCHANGED call
     \/ /\ settings.kafka
        /\ Cardinality(Outstanding) >= QueueLimit
        /\ call' = "full"
        /\ UNCHANGED <<status, delivered, failed>>
  /\ UNCHANGED <<settings, kafkaVars, flushLeft>>

\* poll(1.0) returns, when reports came or after a second, and produce() is
\* tried again; a second BufferError goes to the caller.
Retry ==
  LET r == published IN
  /\ call = "full"
  /\ \/ /\ Cardinality(With("queued")) < QueueLimit
        /\ status' = [Served EXCEPT ![r] = "queued"]
     \/ /\ Cardinality(With("queued")) >= QueueLimit
        /\ status' = [Served EXCEPT ![r] = "dropped"]
  /\ CountServed
  /\ call' = "none"
  /\ UNCHANGED <<settings, kafkaVars, mirror, published, flushLeft>>

\* Mutant: flush(0).
FlushAtOnce(how) ==
  /\ call = "none"
  /\ settings.kafka
  /\ call' = how
  /\ flushLeft' = 0
  /\ UNCHANGED <<settings, kafkaVars, status, mirror, published, delivered,
                 failed>>

\* flush(), also as the first thing close() does.
Flush(how) ==
  /\ call = "none"
  /\ settings.kafka
  /\ call' = how
  /\ flushLeft' = FlushTicks
  /\ UNCHANGED <<settings, kafkaVars, status, mirror, published, delivered,
                 failed>>

\* While it waits, flush() serves the reports that arrive.
FlushServe ==
  /\ Waiting
  /\ Reports # {}
  /\ status' = Served
  /\ CountServed
  /\ UNCHANGED <<settings, kafkaVars, mirror, published, call, flushLeft>>

\* Mutant: it returns when every record was delivered.
FlushOverAllDelivered == delivered = published

\* It returns when nothing is outstanding or its time is up.
FlushOver == Outstanding = {} \/ flushLeft = 0

FlushReturn ==
  /\ call = "flush"
  /\ FlushOver
  /\ call' = "none"
  /\ flushLeft' = 0
  /\ UNCHANGED <<settings, kafkaVars, status, mirror, published, delivered,
                 failed>>

\* close() lets go of the producer, with what it still holds.
CloseReturn ==
  /\ call = "close"
  /\ FlushOver
  /\ status' = [r \in Records |-> IF r \in Outstanding THEN "purged"
                                                       ELSE status[r]]
  /\ call' = "closed"
  /\ flushLeft' = 0
  /\ UNCHANGED <<settings, kafkaVars, mirror, published, delivered, failed>>

\* Without Kafka there is nothing to flush.
CloseWithoutKafka ==
  /\ call = "none"
  /\ ~settings.kafka
  /\ call' = "closed"
  /\ UNCHANGED <<settings, kafkaVars, status, mirror, published, delivered,
                 failed, flushLeft>>
=============================================================================
