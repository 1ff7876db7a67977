-------------------------- MODULE ObservationStore --------------------------
(***************************************************************************)
(* What the lakehouse promises of an envelope, with no jobs, batches or    *)
(* checkpoints in sight: once Bronze has received it, it is either         *)
(* accepted into Silver or quarantined in the dead-letter queue, by what   *)
(* it is, and it never leaves the place it went to.  "Nothing is dropped"  *)
(* (databricks/jobs/02_silver_transform.py:19-20).                         *)
(***************************************************************************)
CONSTANTS
  Good,  \* envelopes that belong in Silver
  Bad    \* envelopes that belong in the dead-letter queue

VARIABLES
  received,    \* envelopes that reached Bronze
  accepted,    \* envelopes with a row in Silver
  quarantined  \* envelopes with a row in the dead-letter queue

storeVars == <<received, accepted, quarantined>>

Init ==
  /\ received = {}
  /\ accepted = {}
  /\ quarantined = {}

Receive ==
  /\ \E new \in SUBSET (Good \cup Bad) : received' = received \cup new
  /\ UNCHANGED <<accepted, quarantined>>

\* A batch lands its good envelopes in one step and its bad ones in another.
Accept ==
  /\ \E batch \in SUBSET (received \cap Good) :
       accepted' = accepted \cup batch
  /\ UNCHANGED <<received, quarantined>>

Quarantine ==
  /\ \E batch \in SUBSET (received \cap Bad) :
       quarantined' = quarantined \cup batch
  /\ UNCHANGED <<received, accepted>>

Next == Receive \/ Accept \/ Quarantine

Spec == Init /\ [][Next]_storeVars
=============================================================================
