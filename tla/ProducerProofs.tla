--------------------------- MODULE ProducerProofs ---------------------------
(***************************************************************************)
(* The theorems of ProducerSystem: for any number of records, any queue    *)
(* limit and any two timeouts.                                             *)
(***************************************************************************)
EXTENDS ProducerSystem, FiniteSetTheorems, TLAPS

Named(st, s) == {r \in Records : st[r] = s}

\* How a record's status goes with what was published and what the caller's
\* thread is in.
PublishedOK ==
  /\ \A r \in Records : status[r] = "unsent" <=>
                          r > published \/ (call = "full" /\ r = published)
  /\ call = "full" => published \in Records
  /\ call \in {"full", "flush"} => settings.kafka
  /\ settings.kafka => With("skipped") = {}
  /\ With("purged") # {} => call = "closed"
  /\ With("acked") \cup With("delivered") \subseteq onBroker

\* The counters are the numbers of reports served.
CountersOK ==
  /\ delivered = Cardinality(With("delivered"))
  /\ failed = Cardinality(With("failed"))

\* What an empty queue at the end of a sweep has shown, for good.
Settled ==
  /\ sweep.last <= published
  /\ settings.kafka /\ sweep.remaining = 0 =>
       \A r \in 1 .. sweep.last :
         /\ status[r] \in {"delivered", "failed", "dropped"}
         /\ sweep.failed = 0 => status[r] # "failed"

ProducerInv == TypeOK /\ PublishedOK /\ CountersOK /\ Settled

LEMMA RecordsFinite ==
  /\ IsFiniteSet(Records) /\ Cardinality(Records) = MaxRecords
  /\ \A S \in SUBSET Records : IsFiniteSet(S) /\ Cardinality(S) \in 0 .. MaxRecords
<1>1. IsFiniteSet(Records) /\ Cardinality(Records) = MaxRecords
  BY FS_Interval, ProducerAssumption DEF Records
<1>2. ASSUME NEW S \in SUBSET Records
      PROVE  IsFiniteSet(S) /\ Cardinality(S) \in 0 .. MaxRecords
  <2>1. IsFiniteSet(S) /\ Cardinality(S) <= MaxRecords
    BY <1>1, FS_Subset
  <2>2. Cardinality(S) \in Nat
    BY <2>1, FS_CardinalityType
  <2> QED
    BY <2>1, <2>2, ProducerAssumption
<1> QED
  BY <1>1, <1>2

\* Disjoint sets of records add up.
LEMMA DisjointSum ==
  ASSUME NEW S \in SUBSET Records, NEW T \in SUBSET Records, S \cap T = {}
  PROVE  Cardinality(S \cup T) = Cardinality(S) + Cardinality(T)
<1>1. IsFiniteSet(S) /\ IsFiniteSet(T) /\ Cardinality(S) \in Nat /\ Cardinality(T) \in Nat
  BY RecordsFinite
<1>2. Cardinality(S \cup T) = Cardinality(S) + Cardinality(T) - Cardinality(S \cap T)
  BY <1>1, FS_Union
<1>3. Cardinality(S \cap T) = 0
  BY FS_EmptySet
<1> QED
  BY <1>1, <1>2, <1>3

\* The sets that are counted are sets of records, whatever the statuses.
LEMMA NamedCount ==
  \A st, s : Named(st, s) \in SUBSET Records
             /\ Cardinality(Named(st, s)) \in 0 .. MaxRecords
<1>1. \A st, s : Named(st, s) \in SUBSET Records
  BY DEF Named
<1> QED
  BY <1>1, RecordsFinite

LEMMA ProducerInitInv == Init => ProducerInv
<1> SUFFICES ASSUME Init
             PROVE  ProducerInv
  OBVIOUS
<1> USE DEF Init, ProducerInit
<1>1. \A r \in Records : r > 0 /\ r \in Nat
  BY ProducerAssumption DEF Records
<1>2. TypeOK
  BY ProducerAssumption DEF TypeOK, ProducerTypeOK, Statuses, NoSweep
<1>3. PublishedOK
  BY <1>1 DEF PublishedOK, With
<1>4. CountersOK
  <2>1. With("delivered") = {} /\ With("failed") = {}
    BY DEF With
  <2> QED
    BY <2>1, FS_EmptySet DEF CountersOK
<1>5. Settled
  BY DEF Settled, NoSweep
<1> QED
  BY <1>2, <1>3, <1>4, <1>5 DEF ProducerInv

\* A poll counts each report once: afterwards the counters are again the
\* numbers of delivered and failed records, whatever else happens to a record
\* that was unsent.
LEMMA ServedIsCounted ==
  ASSUME ProducerInv, CountServed, NEW st,
         status' = st,
         Named(st, "delivered") = Named(Served, "delivered"),
         Named(st, "failed") = Named(Served, "failed")
  PROVE  CountersOK' /\ delivered' \in 0 .. MaxRecords /\ failed' \in 0 .. MaxRecords
<1> DEFINE NewOnes(s) == {r \in Reports : OnDelivery(r) = s}
<1>1. ASSUME NEW s \in {"delivered", "failed"}
      PROVE  /\ Named(Served, s) = With(s) \cup NewOnes(s)
             /\ With(s) \cap NewOnes(s) = {}
             /\ With(s) \in SUBSET Records /\ NewOnes(s) \in SUBSET Records
  BY DEF Named, Served, With, Reports, OnDelivery
<1>2. ASSUME NEW s \in {"delivered", "failed"}
      PROVE  Cardinality(Named(Served, s)) = Cardinality(With(s)) + Cardinality(NewOnes(s))
  <2> HIDE DEF NewOnes
  <2> QED
    BY <1>1, DisjointSum
<1>3. /\ delivered' = Cardinality(Named(Served, "delivered"))
      /\ failed' = Cardinality(Named(Served, "failed"))
  BY <1>2 DEF CountServed, ProducerInv, CountersOK
<1>4. /\ With("delivered")' = Named(Served, "delivered")
      /\ With("failed")' = Named(Served, "failed")
  BY DEF With, Named
<1> QED
  BY <1>3, <1>4, NamedCount DEF CountersOK

\* The counters stay while no record is reported or forgotten.
LEMMA SameCount ==
  ASSUME ProducerInv, delivered' = delivered, failed' = failed,
         With("delivered")' = With("delivered"), With("failed")' = With("failed")
  PROVE  CountersOK'
BY DEF ProducerInv, CountersOK

\* What a sweep has shown stays true while records keep their final status.
LEMMA SettledStays ==
  ASSUME ProducerInv, sweep' = sweep, settings' = settings,
         published' \in Nat, published <= published',
         \A r \in Records : status[r] \in {"delivered", "failed", "dropped"}
                              => status'[r] = status[r]
  PROVE  Settled'
<1>1. /\ sweep.last \in Nat /\ published \in Nat /\ sweep.last <= MaxRecords
      /\ sweep.last <= published
  BY ProducerAssumption DEF ProducerInv, TypeOK, ProducerTypeOK, Settled
<1>2. \A r \in 1 .. sweep.last : r \in Records
  BY <1>1, ProducerAssumption DEF Records
<1> QED
  BY <1>1, <1>2 DEF ProducerInv, Settled

\* librdkafka and the brokers report, but count nothing.
LEMMA LibraryInv ==
  ASSUME ProducerInv, UNCHANGED sweepVars,
         \/ \E r \in Records : Write(r) \/ Acknowledge(r) \/ Refuse(r) \/ TimeOut(r)
         \/ Tick
  PROVE  ProducerInv'
<1>0. TypeOK /\ PublishedOK
  BY DEF ProducerInv
<1>1. /\ UNCHANGED <<settings, mirror, published, delivered, failed, call>>
      /\ UNCHANGED <<sweepFirst, sweep>>
  BY DEF Write, Acknowledge, Refuse, TimeOut, Tick, callerVars, sweepVars
<1>2. CASE \E r \in Records : Write(r)
  <2>1. PICK r \in Records : Write(r)
    BY <1>2
  <2>2. status' = status /\ age' = age /\ flushLeft' = flushLeft /\ onBroker' = onBroker \cup {r}
    BY <2>1 DEF Write
  <2>3. TypeOK'
    BY <1>0, <1>1, <2>2 DEF TypeOK, ProducerTypeOK
  <2>4. PublishedOK'
    BY <1>0, <1>1, <2>2 DEF PublishedOK, With
  <2>5. CountersOK'
    BY <1>1, <2>2, SameCount DEF With
  <2>6. Settled'
    BY <1>0, <1>1, <2>2, SettledStays DEF TypeOK, ProducerTypeOK
  <2> QED
    BY <2>3, <2>4, <2>5, <2>6 DEF ProducerInv
<1>3. CASE \E r \in Records : Acknowledge(r) \/ Refuse(r) \/ TimeOut(r)
  <2>1. PICK r \in Records : Acknowledge(r) \/ Refuse(r) \/ TimeOut(r)
    BY <1>3
  <2>2. /\ UNCHANGED <<onBroker, age, flushLeft>>
        /\ status[r] = "queued"
        /\ \E s \in {"acked", "errored"} :
             /\ status' = [status EXCEPT ![r] = s]
             /\ s = "acked" => r \in onBroker
    BY <2>1 DEF Acknowledge, Refuse, TimeOut, kafkaVars
  <2>3. PICK s \in {"acked", "errored"} :
             /\ status' = [status EXCEPT ![r] = s]
             /\ s = "acked" => r \in onBroker
    BY <2>2
  <2>4. TypeOK'
    BY <1>0, <1>1, <2>2, <2>3 DEF TypeOK, ProducerTypeOK, Statuses
  <2>5. PublishedOK'
    BY <1>0, <1>1, <2>2, <2>3 DEF PublishedOK, With, TypeOK, ProducerTypeOK
  <2>6. CountersOK'
    <3>1. With("delivered")' = With("delivered") /\ With("failed")' = With("failed")
      BY <1>0, <2>2, <2>3 DEF With, TypeOK, ProducerTypeOK
    <3> QED
      BY <1>1, <3>1, SameCount
  <2>7. Settled'
    <3>1. \A q \in Records : status[q] \in {"delivered", "failed", "dropped"}
                               => status'[q] = status[q]
      BY <1>0, <2>2, <2>3 DEF TypeOK, ProducerTypeOK
    <3>2. published \in Nat
      BY <1>0 DEF TypeOK, ProducerTypeOK
    <3> QED
      BY <1>1, <3>1, <3>2, SettledStays
  <2> QED
    BY <2>4, <2>5, <2>6, <2>7 DEF ProducerInv
<1>4. CASE Tick
  <2>1. status' = status /\ onBroker' = onBroker
    BY <1>4 DEF Tick
  <2>2. age' \in [Records -> 0 .. DeliveryTicks]
    BY <1>0, <1>4, ProducerAssumption DEF Tick, TypeOK, ProducerTypeOK, With
  <2>3. flushLeft' \in 0 .. FlushTicks
    BY <1>0, <1>4, ProducerAssumption DEF Tick, TypeOK, ProducerTypeOK
  <2>4. TypeOK'
    BY <1>0, <1>1, <2>1, <2>2, <2>3 DEF TypeOK, ProducerTypeOK
  <2>5. PublishedOK'
    BY <1>0, <1>1, <2>1 DEF PublishedOK, With
  <2>6. CountersOK'
    BY <1>1, <2>1, SameCount DEF With
  <2>7. Settled'
    BY <1>0, <1>1, <2>1, SettledStays DEF TypeOK, ProducerTypeOK
  <2> QED
    BY <2>4, <2>5, <2>6, <2>7 DEF ProducerInv
<1> QED
  BY <1>2, <1>3, <1>4

LEMMA PublishInv ==
  ASSUME ProducerInv, Publish, UNCHANGED sweepVars
  PROVE  ProducerInv'
<1> DEFINE r == published + 1
<1>0. TypeOK /\ PublishedOK
  BY DEF ProducerInv
<1>1. /\ call = "none" /\ published' = r /\ mirror' = Mirrored(r)
      /\ UNCHANGED <<settings, onBroker, age, flushLeft, sweepFirst, sweep>>
  BY DEF Publish, kafkaVars, sweepVars
<1>2. r \in Records /\ status[r] = "unsent" /\ published \in Nat
      /\ \A q \in Records : q \in Nat
  BY <1>0, ProducerAssumption DEF Publish, Records, TypeOK, ProducerTypeOK, PublishedOK
<1>3. /\ mirror' = IF settings'.sink THEN 1 .. published' ELSE {}
      /\ published' \in 0 .. MaxRecords
  <2>1. 1 .. r = (1 .. published) \cup {r}
    BY <1>2
  <2>2. mirror = IF settings.sink THEN 1 .. published ELSE {}
    BY <1>0 DEF TypeOK, ProducerTypeOK
  <2>3. mirror' = IF settings.sink THEN 1 .. published' ELSE {}
    BY <1>1, <2>1, <2>2 DEF Mirrored
  <2>4. r \in 0 .. MaxRecords
    BY <1>2, ProducerAssumption DEF Records
  <2> QED
    BY <1>1, <2>3, <2>4
<1>4. CASE /\ ~settings.kafka
           /\ status' = [status EXCEPT ![r] = "skipped"]
           /\ UNCHANGED <<delivered, failed, call>>
  <2>1. TypeOK'
    BY <1>0, <1>1, <1>2, <1>3, <1>4 DEF TypeOK, ProducerTypeOK, Statuses
  <2>2. PublishedOK'
    BY <1>0, <1>1, <1>2, <1>4 DEF PublishedOK, With, TypeOK, ProducerTypeOK
  <2>3. With("delivered")' = With("delivered") /\ With("failed")' = With("failed")
    BY <1>0, <1>2, <1>4 DEF With, TypeOK, ProducerTypeOK
  <2>4. CountersOK'
    BY <1>4, <2>3, SameCount
  <2>5. Settled'
    BY <1>0, <1>1, <1>2, <1>4, SettledStays DEF TypeOK, ProducerTypeOK
  <2> QED
    BY <2>1, <2>2, <2>4, <2>5 DEF ProducerInv
<1>5. CASE /\ settings.kafka
           /\ status' = [Served EXCEPT ![r] = "queued"]
           /\ CountServed
           /\ call' = call
  <2>1. \A q \in Records :
          status'[q] = IF q = r THEN "queued"
                       ELSE IF q \in Reports THEN OnDelivery(q) ELSE status[q]
    BY <1>5 DEF Served
  <2>2. status' \in [Records -> Statuses]
    <3>1. Served \in [Records -> Statuses]
      BY <1>0 DEF Served, OnDelivery, Statuses, TypeOK, ProducerTypeOK
    <3> QED
      BY <1>5, <3>1 DEF Statuses
  <2>3. r \notin Reports
    BY <1>2 DEF Reports, With
  <2>4. CountersOK' /\ delivered' \in 0 .. MaxRecords /\ failed' \in 0 .. MaxRecords
    <3> DEFINE st == [Served EXCEPT ![r] = "queued"]
    <3>1. ASSUME NEW s \in {"delivered", "failed"}
          PROVE  Named(st, s) = Named(Served, s)
      BY <1>2, <2>3 DEF Named, Served
    <3>2. status' = st
      BY <1>5
    <3> HIDE DEF st
    <3> QED
      BY <1>5, <3>1, <3>2, ServedIsCounted
  <2>5. TypeOK'
    BY <1>0, <1>1, <1>3, <1>5, <2>2, <2>4 DEF TypeOK, ProducerTypeOK
  <2>6. PublishedOK'
    <3>1. PublishedOK /\ status \in [Records -> Statuses] /\ call = "none"
      BY <1>0, <1>1 DEF TypeOK, ProducerTypeOK
    <3> QED
      BY <3>1, <1>1, <1>2, <1>5, <2>1, <2>3 DEF PublishedOK, With, Reports, OnDelivery
  <2>7. Settled'
    <3>1. \A q \in Records : status[q] \in {"delivered", "failed", "dropped"}
                               => status'[q] = status[q]
      BY <1>2, <2>1 DEF Reports, With
    <3> QED
      BY <1>1, <1>2, <3>1, SettledStays
  <2> QED
    BY <2>4, <2>5, <2>6, <2>7 DEF ProducerInv
<1>6. CASE /\ settings.kafka
           /\ call' = "full"
           /\ UNCHANGED <<status, delivered, failed>>
  <2>1. TypeOK'
    BY <1>0, <1>1, <1>3, <1>6 DEF TypeOK, ProducerTypeOK
  <2>2. PublishedOK'
    BY <1>0, <1>1, <1>2, <1>6 DEF PublishedOK, With, TypeOK, ProducerTypeOK
  <2>3. CountersOK'
    BY <1>6, SameCount DEF With
  <2>4. Settled'
    BY <1>1, <1>2, <1>6, SettledStays
  <2> QED
    BY <2>1, <2>2, <2>3, <2>4 DEF ProducerInv
<1> QED
  BY <1>4, <1>5, <1>6 DEF Publish

\* poll(1.0) came back and produce() was tried again.
LEMMA RetryInv ==
  ASSUME ProducerInv, Retry, UNCHANGED sweepVars
  PROVE  ProducerInv'
<1> DEFINE r == published
<1>0. TypeOK /\ PublishedOK
  BY DEF ProducerInv
<1>1. /\ call = "full" /\ call' = "none" /\ settings.kafka
      /\ UNCHANGED <<settings, onBroker, age, mirror, published, flushLeft, sweepFirst, sweep>>
      /\ CountServed
  BY <1>0 DEF Retry, kafkaVars, sweepVars, PublishedOK
<1>2. r \in Records /\ status[r] = "unsent" /\ published \in Nat
      /\ \A q \in Records : q \in Nat
  BY <1>0, <1>1, ProducerAssumption DEF Records, TypeOK, ProducerTypeOK, PublishedOK
<1>3. PICK fate \in {"queued", "dropped"} : status' = [Served EXCEPT ![r] = fate]
  BY DEF Retry
<1>4. \A q \in Records :
        status'[q] = IF q = r THEN fate
                     ELSE IF q \in Reports THEN OnDelivery(q) ELSE status[q]
  BY <1>3 DEF Served
<1>5. status' \in [Records -> Statuses]
  <2>1. Served \in [Records -> Statuses]
    BY <1>0 DEF Served, OnDelivery, Statuses, TypeOK, ProducerTypeOK
  <2> QED
    BY <1>3, <2>1 DEF Statuses
<1>6. r \notin Reports
  BY <1>2 DEF Reports, With
<1>7. CountersOK' /\ delivered' \in 0 .. MaxRecords /\ failed' \in 0 .. MaxRecords
  <2> DEFINE st == [Served EXCEPT ![r] = fate]
  <2>1. ASSUME NEW s \in {"delivered", "failed"}
        PROVE  Named(st, s) = Named(Served, s)
    BY <1>2, <1>6 DEF Named, Served
  <2> HIDE DEF st
  <2> QED
    BY <1>1, <1>3, <2>1, ServedIsCounted DEF st
<1>8. TypeOK'
  BY <1>0, <1>1, <1>5, <1>7 DEF TypeOK, ProducerTypeOK
<1>9. PublishedOK'
  <2>1. \A q \in Records : /\ status'[q] = "unsent" => status[q] = "unsent" /\ q # r
                           /\ status'[q] = "skipped" => status[q] = "skipped"
                           /\ status'[q] = "purged" => status[q] = "purged"
                           /\ status'[q] = "acked" => status[q] = "acked"
                           /\ status'[q] = "delivered" => status[q] \in {"delivered", "acked"}
                           /\ status[q] = "unsent" /\ q # r => status'[q] = "unsent"
    BY <1>2, <1>4, <1>6 DEF Reports, With, OnDelivery
  <2>2. \A q \in Records : status'[q] = "unsent" <=> q > published
    BY <1>0, <1>1, <1>2, <2>1 DEF PublishedOK
  <2> QED
    BY <1>0, <1>1, <2>1, <2>2 DEF PublishedOK, With
<1>10. Settled'
  <2>1. \A q \in Records : status[q] \in {"delivered", "failed", "dropped"}
                             => status'[q] = status[q]
    BY <1>2, <1>4 DEF Reports, With
  <2> QED
    BY <1>1, <1>2, <2>1, SettledStays
<1> QED
  BY <1>7, <1>8, <1>9, <1>10 DEF ProducerInv

LEMMA FlushServeInv ==
  ASSUME ProducerInv, FlushServe, UNCHANGED sweepVars
  PROVE  ProducerInv'
<1>0. TypeOK /\ PublishedOK
  BY DEF ProducerInv
<1>1. /\ call \in {"flush", "close"} /\ status' = Served /\ CountServed
      /\ UNCHANGED <<settings, onBroker, age, mirror, published, call, flushLeft,
                     sweepFirst, sweep>>
  BY DEF FlushServe, Waiting, kafkaVars, sweepVars
<1>2. \A q \in Records :
        status'[q] = IF q \in Reports THEN OnDelivery(q) ELSE status[q]
  BY <1>1 DEF Served
<1>3. status' \in [Records -> Statuses]
  BY <1>0, <1>1 DEF Served, OnDelivery, Statuses, TypeOK, ProducerTypeOK
<1>4. CountersOK' /\ delivered' \in 0 .. MaxRecords /\ failed' \in 0 .. MaxRecords
  BY <1>1, ServedIsCounted
<1>5. TypeOK'
  BY <1>0, <1>1, <1>3, <1>4 DEF TypeOK, ProducerTypeOK
<1>6. PublishedOK'
  BY <1>0, <1>1, <1>2
  DEF PublishedOK, With, Reports, OnDelivery, TypeOK, ProducerTypeOK
<1>7. Settled'
  <2>1. \A q \in Records : status[q] \in {"delivered", "failed", "dropped"}
                             => status'[q] = status[q]
    BY <1>2 DEF Reports, With
  <2>2. published \in Nat
    BY <1>0 DEF TypeOK, ProducerTypeOK
  <2> QED
    BY <1>1, <2>1, <2>2, SettledStays
<1> QED
  BY <1>4, <1>5, <1>6, <1>7 DEF ProducerInv

\* A sweep that ends over an empty queue: every record it and the earlier ones
\* published has its final status, and the counter tells whether one failed.
LEMMA SweepDoneInv ==
  ASSUME ProducerInv, SweepDone \/ SweepDoneWithoutKafka
  PROVE  ProducerInv'
<1>0. TypeOK /\ PublishedOK /\ CountersOK
  BY DEF ProducerInv
<1>1. /\ call \in {"flush", "none"} /\ call' = "none" /\ flushLeft' \in {0, flushLeft}
      /\ UNCHANGED <<settings, status, onBroker, age, mirror, published, delivered, failed>>
  BY DEF SweepDone, SweepDoneWithoutKafka, FlushReturn, producerVars, kafkaVars
<1>2. \E n \in {0, Cardinality(Outstanding)} :
        /\ settings.kafka => n = Cardinality(Outstanding)
        /\ Report(n)
  BY DEF SweepDone, SweepDoneWithoutKafka
<1>3. PICK n \in {0, Cardinality(Outstanding)} :
        /\ settings.kafka => n = Cardinality(Outstanding)
        /\ Report(n)
  BY <1>2
<1>4. /\ sweepFirst' = published + 1
      /\ sweep' = [first |-> sweepFirst, last |-> published, failed |-> failed, remaining |-> n]
  BY <1>3 DEF Report, DeliveryFailed
<1>5. Outstanding \in SUBSET Records
  BY DEF Outstanding, Reports, With
<1>6. n \in 0 .. MaxRecords
  BY <1>3, <1>5, RecordsFinite, ProducerAssumption
<1>7. TypeOK'
  BY <1>0, <1>1, <1>4, <1>6, ProducerAssumption DEF TypeOK, ProducerTypeOK
<1>8. PublishedOK'
  BY <1>0, <1>1 DEF PublishedOK, With
<1>9. CountersOK'
  BY <1>1, SameCount DEF With
<1>10. Settled'
  <2> SUFFICES ASSUME settings.kafka, n = 0, NEW r \in 1 .. published
               PROVE  /\ status[r] \in {"delivered", "failed", "dropped"}
                      /\ failed = 0 => status[r] # "failed"
    <3>1. published \in Nat
      BY <1>0 DEF TypeOK, ProducerTypeOK
    <3> QED
      BY <1>1, <1>4, <3>1 DEF Settled
  <2>1. r \in Records /\ published \in Nat /\ r \in Nat /\ r <= published
    BY <1>0, ProducerAssumption DEF Records, TypeOK, ProducerTypeOK
  <2>2. Outstanding = {}
    BY <1>3, <1>5, RecordsFinite, FS_EmptySet
  <2>3. status[r] \notin {"unsent", "queued", "acked", "errored", "skipped", "purged"}
    BY <1>0, <1>1, <2>1, <2>2 DEF PublishedOK, Outstanding, Reports, With
  <2>4. status[r] \in {"delivered", "failed", "dropped"}
    BY <1>0, <2>1, <2>3 DEF TypeOK, ProducerTypeOK, Statuses
  <2>5. failed = 0 => With("failed") = {}
    <3>1. With("failed") \in SUBSET Records
      BY DEF With
    <3> QED
      BY <1>0, <3>1, RecordsFinite, FS_EmptySet DEF CountersOK
  <2> QED
    BY <2>1, <2>4, <2>5 DEF With
<1> QED
  BY <1>7, <1>8, <1>9, <1>10 DEF ProducerInv

\* Entering flush() and close(), and leaving close().
LEMMA CallInv ==
  ASSUME ProducerInv, UNCHANGED sweepVars,
         Flush("flush") \/ Flush("close") \/ CloseReturn \/ CloseWithoutKafka
  PROVE  ProducerInv'
<1>0. TypeOK /\ PublishedOK
  BY DEF ProducerInv
<1>1. UNCHANGED <<settings, onBroker, age, mirror, published, delivered, failed,
                  sweepFirst, sweep>>
  BY DEF Flush, CloseReturn, CloseWithoutKafka, kafkaVars, sweepVars
<1>2. /\ flushLeft' \in 0 .. FlushTicks /\ call' \in {"flush", "close", "closed"}
      /\ call \in {"none", "close"} /\ published \in Nat
      /\ call' = "flush" => settings.kafka
      /\ call' # "closed" => call = "none"
  BY <1>0, ProducerAssumption
  DEF Flush, CloseReturn, CloseWithoutKafka, TypeOK, ProducerTypeOK
<1>3. CASE CloseReturn
  <2>1. /\ \A r \in Records : status'[r] = IF r \in Outstanding THEN "purged" ELSE status[r]
        /\ status' \in [Records -> Statuses] /\ call' = "closed"
    BY <1>0, <1>3 DEF CloseReturn, Statuses, TypeOK, ProducerTypeOK
  <2>2. TypeOK'
    BY <1>0, <1>1, <1>2, <2>1 DEF TypeOK, ProducerTypeOK
  <2>3. PublishedOK'
    BY <1>0, <1>1, <1>2, <2>1 DEF PublishedOK, With, Outstanding, Reports
  <2>4. With("delivered")' = With("delivered") /\ With("failed")' = With("failed")
    BY <2>1 DEF With, Outstanding, Reports
  <2>5. CountersOK'
    BY <1>1, <2>4, SameCount
  <2>6. Settled'
    <3>1. \A q \in Records : status[q] \in {"delivered", "failed", "dropped"}
                               => status'[q] = status[q]
      BY <2>1 DEF Outstanding, Reports, With
    <3> QED
      BY <1>1, <1>2, <3>1, SettledStays
  <2> QED
    BY <2>2, <2>3, <2>5, <2>6 DEF ProducerInv
<1>4. CASE status' = status
  <2>1. TypeOK'
    BY <1>0, <1>1, <1>2, <1>4 DEF TypeOK, ProducerTypeOK
  <2>2. PublishedOK'
    BY <1>0, <1>1, <1>2, <1>4 DEF PublishedOK, With
  <2>3. CountersOK'
    BY <1>1, <1>4, SameCount DEF With
  <2>4. Settled'
    BY <1>1, <1>2, <1>4, SettledStays
  <2> QED
    BY <2>1, <2>2, <2>3, <2>4 DEF ProducerInv
<1>5. CloseReturn \/ status' = status
  BY DEF Flush, CloseWithoutKafka
<1> QED
  BY <1>3, <1>4, <1>5

LEMMA ProducerStepInv == ProducerInv /\ [Next]_vars => ProducerInv'
<1> SUFFICES ASSUME ProducerInv, [Next]_vars
             PROVE  ProducerInv'
  OBVIOUS
<1>1. CASE UNCHANGED vars
  <2>1. UNCHANGED <<settings, status, onBroker, age, mirror, published, delivered,
                    failed, call, flushLeft, sweepFirst, sweep>>
    BY <1>1 DEF vars, producerVars, kafkaVars, sweepVars
  <2> QED
    BY <2>1 DEF ProducerInv, TypeOK, ProducerTypeOK, PublishedOK, CountersOK, Settled, With
<1>2. CASE Next
  <2>1. CASE /\ \/ \E r \in Records : Write(r) \/ Acknowledge(r) \/ Refuse(r) \/ TimeOut(r)
                \/ Tick
             /\ UNCHANGED sweepVars
    BY <2>1, LibraryInv
  <2>2. CASE Publish /\ UNCHANGED sweepVars
    BY <2>2, PublishInv
  <2>3. CASE Retry /\ UNCHANGED sweepVars
    BY <2>3, RetryInv
  <2>4. CASE FlushServe /\ UNCHANGED sweepVars
    BY <2>4, FlushServeInv
  <2>5. CASE SweepDone \/ SweepDoneWithoutKafka
    BY <2>5, SweepDoneInv
  <2>6. CASE /\ Flush("flush") \/ Flush("close") \/ CloseReturn \/ CloseWithoutKafka
             /\ UNCHANGED sweepVars
    BY <2>6, CallInv
  <2>7. CASE Exited
    BY <1>1, <2>7 DEF Exited
  <2> QED
    BY <1>2, <2>1, <2>2, <2>3, <2>4, <2>5, <2>6, <2>7 DEF Next
<1> QED
  BY <1>1, <1>2

\* The counters of the producer are exact and an empty queue settles what was
\* published, whatever brokers, timeouts and a full queue do.
THEOREM ProducerInvariance == Spec => []ProducerInv
<1> QED
  BY ProducerInitInv, ProducerStepInv, PTL DEF Spec

\* Types and bounds of the producer and of SweepStats.
THEOREM ProducerTypeCorrect == Spec => []TypeOK
<1>1. ProducerInv => TypeOK
  BY DEF ProducerInv
<1> QED
  BY <1>1, ProducerInvariance, PTL

\* A sweep that reports nothing in flight and nothing failed can be trusted:
\* what publish() accepted, then and before, is on the brokers.
THEOREM ProducerCleanSweep == Spec => []CleanSweepIsDurable
<1>1. ProducerInv => CleanSweepIsDurable
  <2> SUFFICES ASSUME ProducerInv, settings.kafka, sweep.remaining = 0, sweep.failed = 0,
                      NEW r \in 1 .. sweep.last
               PROVE  r \in onBroker \/ status[r] = "dropped"
    BY DEF CleanSweepIsDurable
  <2>1. status[r] \in {"delivered", "dropped"}
    BY DEF ProducerInv, Settled
  <2>2. r \in Records
    BY ProducerAssumption DEF ProducerInv, TypeOK, Records
  <2> QED
    BY <2>1, <2>2 DEF ProducerInv, PublishedOK, With
<1> QED
  BY <1>1, ProducerInvariance, PTL

\* At the end of such a sweep every record of the process is counted once.
THEOREM ProducerAccounts == Spec => []EveryRecordAccounted
<1>1. ProducerInv => EveryRecordAccounted
  <2> DEFINE D == With("delivered")
             F == With("failed")
             X == With("dropped")
  <2> SUFFICES ASSUME ProducerInv, settings.kafka, sweep.remaining = 0,
                      sweep.last = published, call = "none"
               PROVE  delivered + failed + Cardinality(X) = published
    BY DEF EveryRecordAccounted
  <2>1. published \in 0 .. MaxRecords /\ MaxRecords \in Nat
    BY ProducerAssumption DEF ProducerInv, TypeOK, ProducerTypeOK
  <2>2. \A r \in 1 .. published : status[r] \in {"delivered", "failed", "dropped"}
    BY DEF ProducerInv, Settled
  <2>3. \A r \in Records : r \notin 1 .. published => status[r] = "unsent"
    BY <2>1 DEF ProducerInv, PublishedOK, Records
  <2>4. D \cup F \cup X = 1 .. published
    <3>1. 1 .. published \subseteq Records
      BY <2>1 DEF Records
    <3> QED
      BY <2>2, <2>3, <3>1 DEF With
  <2>5. /\ D \in SUBSET Records /\ F \in SUBSET Records /\ X \in SUBSET Records
        /\ D \cap F = {} /\ (D \cup F) \cap X = {} /\ D \cup F \in SUBSET Records
    BY DEF With
  <2> HIDE DEF D, F, X
  <2>6. Cardinality(D \cup F) = Cardinality(D) + Cardinality(F)
    BY <2>5, DisjointSum
  <2>7. Cardinality((D \cup F) \cup X) = Cardinality(D \cup F) + Cardinality(X)
    BY <2>5, DisjointSum
  <2>8. Cardinality(1 .. published) = published
    BY <2>1, FS_Interval
  <2>9. delivered = Cardinality(D) /\ failed = Cardinality(F)
    BY DEF ProducerInv, CountersOK, D, F
  <2> QED
    BY <2>4, <2>6, <2>7, <2>8, <2>9
<1> QED
  BY <1>1, ProducerInvariance, PTL
-----------------------------------------------------------------------------
(***************************************************************************)
(* What a sweep leaves in flight.                                          *)
(***************************************************************************)

\* While flush() waits, a record in the queue has waited as long as flush()
\* has, at least; and only records that came after a sweep are put in.
QueueAges ==
  /\ Waiting => \A r \in With("queued") : age[r] + flushLeft >= FlushTicks
  /\ LeftInFlightIsOld
  /\ call = "full" => sweep.last < published
  /\ ~settings.kafka => With("queued") = {}

\* Nothing is queued but by a publish, under the latest number, and nothing
\* in the queue gets younger.
LEMMA QueuedSteps ==
  ASSUME ProducerInv, [Next]_vars, NEW r \in Records, status'[r] = "queued"
  PROVE  \/ status[r] = "queued" /\ age'[r] >= age[r]
         \/ /\ r = published' /\ settings.kafka
            /\ (Publish \/ Retry) /\ UNCHANGED sweepVars
<1>0. TypeOK /\ age[r] \in Nat
  BY ProducerAssumption DEF ProducerInv, TypeOK, ProducerTypeOK
<1>1. CASE \E q \in Records : Write(q) \/ Acknowledge(q) \/ Refuse(q) \/ TimeOut(q)
  BY <1>0, <1>1 DEF TypeOK, ProducerTypeOK, Write, Acknowledge, Refuse, TimeOut, kafkaVars
<1>2. CASE Tick
  BY <1>0, <1>2 DEF Tick
<1>3. CASE Publish /\ UNCHANGED sweepVars
  <2>1. published' = published + 1 /\ UNCHANGED age
    BY <1>3 DEF Publish, kafkaVars
  <2>2. r = published' \/ status[r] = "queued"
    <3>1. \/ status' = [status EXCEPT ![published'] = "skipped"]
          \/ status' = [Served EXCEPT ![published'] = "queued"]
          \/ status' = status
      BY <1>3, <2>1 DEF Publish
    <3>2. r # published' => status'[r] \in {status[r], Served[r]}
      BY <1>0, <3>1 DEF TypeOK, ProducerTypeOK, Served
    <3>3. Served[r] = "queued" => status[r] = "queued"
      BY DEF Served, OnDelivery, Reports, With
    <3> QED
      BY <3>2, <3>3
  <2>3. r = published' => settings.kafka
    BY <1>0, <1>3, <2>1 DEF Publish, ProducerInv, PublishedOK, TypeOK, ProducerTypeOK
  <2> QED
    BY <1>0, <1>3, <2>1, <2>2, <2>3
<1>4. CASE Retry /\ UNCHANGED sweepVars
  <2>1. published' = published /\ UNCHANGED age
    BY <1>4 DEF Retry, kafkaVars
  <2>2. r = published \/ status[r] = "queued"
    BY <1>0, <1>4 DEF Retry, Served, OnDelivery, TypeOK, ProducerTypeOK
  <2>3. settings.kafka
    BY <1>4 DEF Retry, ProducerInv, PublishedOK
  <2> QED
    BY <1>0, <1>4, <2>1, <2>2, <2>3
<1>5. CASE FlushServe
  BY <1>0, <1>5 DEF FlushServe, Served, OnDelivery, kafkaVars
<1>6. CASE CloseReturn
  BY <1>0, <1>6 DEF CloseReturn, kafkaVars
<1>7. CASE \/ Flush("flush") \/ Flush("close") \/ SweepDone \/ SweepDoneWithoutKafka
           \/ CloseWithoutKafka \/ UNCHANGED vars
  BY <1>0, <1>7 DEF Flush, SweepDone, FlushReturn, SweepDoneWithoutKafka,
                    CloseWithoutKafka, vars, producerVars, kafkaVars
<1> QED
  BY <1>1, <1>2, <1>3, <1>4, <1>5, <1>6, <1>7 DEF Next, Exited

LEMMA QueueAgesInit == Init => QueueAges
BY DEF Init, ProducerInit, NoSweep, QueueAges, LeftInFlightIsOld, Waiting, With

LEMMA QueueAgesStep ==
  ASSUME ProducerInv, ProducerInv', QueueAges, [Next]_vars
  PROVE  QueueAges'
<1>0. /\ TypeOK /\ TypeOK'
      /\ sweep.last \in Nat /\ sweep.last <= published /\ published \in Nat
      /\ sweep.last <= MaxRecords /\ FlushTicks \in Nat /\ flushLeft \in Nat
      /\ \A r \in Records : r \in Nat /\ age[r] \in Nat /\ age'[r] \in Nat
  <2>1. TypeOK /\ TypeOK' /\ Settled
    BY DEF ProducerInv
  <2>2. age \in [Records -> 0 .. DeliveryTicks] /\ age' \in [Records -> 0 .. DeliveryTicks]
    BY <2>1 DEF TypeOK, ProducerTypeOK
  <2>3. \A r \in Records : r \in Nat /\ age[r] \in Nat /\ age'[r] \in Nat
    BY <2>2, ProducerAssumption DEF Records
  <2> QED
    BY <2>1, <2>3, ProducerAssumption DEF TypeOK, ProducerTypeOK, Settled
<1>1. settings' = settings
  BY DEF Next, Write, Acknowledge, Refuse, TimeOut, Tick, callerVars, Publish, Retry,
         Flush, FlushServe, SweepDone, FlushReturn, SweepDoneWithoutKafka, CloseReturn,
         CloseWithoutKafka, Exited, vars, producerVars
<1>2. ~settings'.kafka => With("queued")' = {}
  BY <1>1, QueuedSteps DEF QueueAges, With
<1>3. call' = "full" => sweep.last' < published'
  <2>1. CASE Publish /\ UNCHANGED sweepVars
    BY <1>0, <2>1 DEF Publish, sweepVars
  <2>2. CASE ~Publish /\ call' = "full"
    BY <2>2 DEF QueueAges, Next, Write, Acknowledge, Refuse, TimeOut, Tick, callerVars,
                Retry, Flush, FlushServe, SweepDone, FlushReturn, SweepDoneWithoutKafka,
                CloseReturn, CloseWithoutKafka, Exited, vars, producerVars, sweepVars
  <2> QED
    BY <2>1, <2>2 DEF Next, SweepDone, FlushReturn, SweepDoneWithoutKafka, producerVars,
                      Exited, vars
<1>4. ASSUME Waiting', NEW r \in Records, status'[r] = "queued"
      PROVE  age'[r] + flushLeft' >= FlushTicks
  <2>1. status[r] = "queued" /\ age'[r] >= age[r]
    BY <1>4, QueuedSteps DEF Waiting, Publish, Retry, ProducerInv, PublishedOK
  <2>2. CASE Waiting
    <3>1. age[r] + flushLeft >= FlushTicks
      BY <2>1, <2>2 DEF QueueAges, With
    <3>2. \/ flushLeft' = flushLeft
          \/ flushLeft' = flushLeft - 1 /\ age'[r] = age[r] + 1
      BY <1>4, <2>1, <2>2
      DEF Next, Write, Acknowledge, Refuse, TimeOut, Tick, callerVars, Publish, Retry,
          Flush, FlushServe, SweepDone, FlushReturn, SweepDoneWithoutKafka, CloseReturn,
          CloseWithoutKafka, Exited, vars, producerVars, Waiting
    <3> QED
      BY <1>0, <2>1, <3>1, <3>2
  <2>3. CASE ~Waiting
    <3>1. flushLeft' = FlushTicks
      BY <1>4, <2>3
      DEF Next, Write, Acknowledge, Refuse, TimeOut, Tick, callerVars, Publish, Retry,
          Flush, FlushServe, SweepDone, FlushReturn, SweepDoneWithoutKafka, CloseReturn,
          CloseWithoutKafka, Exited, vars, producerVars, Waiting
    <3> QED
      BY <1>0, <3>1
  <2> QED
    BY <2>2, <2>3
<1>5. LeftInFlightIsOld'
  <2> SUFFICES ASSUME NEW r \in 1 .. sweep'.last, status'[r] = "queued"
               PROVE  age'[r] >= FlushTicks
    BY DEF LeftInFlightIsOld
  <2>1. CASE sweep' = sweep
    <3>1. r \in Records /\ r <= sweep.last
      BY <1>0, <2>1, ProducerAssumption DEF Records
    <3>2. r # published' \/ ~(Publish \/ Retry)
      BY <1>0, <3>1 DEF QueueAges, Publish, Retry
    <3>3. status[r] = "queued" /\ age'[r] >= age[r]
      BY <3>1, <3>2, QueuedSteps
    <3> QED
      BY <1>0, <2>1, <3>1, <3>3 DEF QueueAges, LeftInFlightIsOld
  <2>2. CASE SweepDone
    <3>1. /\ r \in 1 .. published /\ UNCHANGED <<status, age>>
          /\ call = "flush" /\ FlushOver
      BY <2>2 DEF SweepDone, FlushReturn, Report, kafkaVars
    <3>2. r \in Records
      BY <1>0, <3>1, ProducerAssumption DEF Records, TypeOK, ProducerTypeOK
    <3>3. r \in With("queued")
      BY <3>1, <3>2 DEF With
    <3>4. flushLeft = 0
      BY <3>1, <3>3 DEF FlushOver, Outstanding
    <3> QED
      BY <1>0, <3>1, <3>2, <3>3, <3>4 DEF QueueAges, Waiting
  <2>3. CASE SweepDoneWithoutKafka
    <3>1. /\ r \in 1 .. published /\ UNCHANGED status /\ ~settings.kafka
      BY <2>3 DEF SweepDoneWithoutKafka, Report, producerVars
    <3>2. r \in With("queued")
      BY <1>0, <3>1, ProducerAssumption DEF Records, TypeOK, ProducerTypeOK, With
    <3> QED
      BY <3>1, <3>2 DEF QueueAges
  <2> QED
    BY <2>1, <2>2, <2>3 DEF Next, sweepVars, Exited, vars
<1> QED
  BY <1>2, <1>3, <1>4, <1>5 DEF QueueAges, With

\* A record a sweep leaves in flight has waited for the whole of flush()'s
\* timeout, so of its own timeout at most the difference of the two is left.
THEOREM ProducerLeavesOnlyOld == Spec => []LeftInFlightIsOld
<1>1. QueueAges => LeftInFlightIsOld
  BY DEF QueueAges
<1> QED
  BY <1>1, QueueAgesInit, QueueAgesStep, ProducerInvariance, PTL DEF Spec

\* What would close that gap: with a flush() that outlasts message.timeout.ms
\* (the code's is half of it) no record of a reported sweep is undecided.
COROLLARY LongFlushLeavesNone ==
  ASSUME FlushTicks > DeliveryTicks
  PROVE  Spec => [](\A r \in 1 .. sweep.last : status[r] # "queued")
<1>1. TypeOK /\ LeftInFlightIsOld => \A r \in 1 .. sweep.last : status[r] # "queued"
  <2> SUFFICES ASSUME TypeOK, LeftInFlightIsOld, NEW r \in 1 .. sweep.last,
                      status[r] = "queued"
               PROVE  FALSE
    OBVIOUS
  <2>1. sweep.last \in 0 .. MaxRecords /\ age \in [Records -> 0 .. DeliveryTicks]
    BY DEF TypeOK, ProducerTypeOK
  <2>2. age[r] \in 0 .. DeliveryTicks
    BY <2>1, ProducerAssumption DEF Records
  <2> QED
    BY <2>2, ProducerAssumption DEF LeftInFlightIsOld
<1> QED
  BY <1>1, ProducerTypeCorrect, ProducerLeavesOnlyOld, PTL
=============================================================================
