---------------------------- MODULE BronzeTable ----------------------------
(***************************************************************************)
(* The Delta table heimdall.bronze.business_events_raw: the interface      *)
(* between the Bronze job, which appends to it, and the Silver job, which  *)
(* streams from it.  Bronze keeps every envelope as an opaque string, so a *)
(* row is a lineage (kafka_offset), a time (ingest_ts) and an envelope.    *)
(*                                                                         *)
(* One append is one Delta commit.  current_timestamp() is evaluated once  *)
(* per micro-batch, so every row of a commit carries the same ingest_ts    *)
(* and later commits carry later ones: the commit's version stands for it. *)
(***************************************************************************)
EXTENDS Integers

CONSTANTS
  Valid,        \* envelopes that pass every Silver rule (one per event_id)
  Invalid,      \* envelopes that parse but break at least one rule
  Unparseable,  \* values from_json turns into null
  MaxOffset     \* the largest kafka_offset (a signed 64-bit integer)

Envelopes == Valid \cup Invalid \cup Unparseable

ASSUME EnvelopeAssumption ==
  /\ Valid \cap Invalid = {}
  /\ Valid \cap Unparseable = {}
  /\ Invalid \cap Unparseable = {}
  /\ MaxOffset \in Nat

VARIABLES
  bronze,         \* the rows of the table
  bronzeVersion   \* the version of its latest commit (0: created, empty)

tableVars == <<bronze, bronzeVersion>>

\* Offsets are non-negative; rows that came from a volume carry -1.
Offsets == -1 .. MaxOffset

\* ver: the commit, standing for ingest_ts; off: kafka_offset; env:
\* raw_envelope.
BronzeRow == [ver : Nat \ {0}, off : Offsets, env : Envelopes]

TableTypeOK ==
  /\ bronze \subseteq BronzeRow
  /\ bronzeVersion \in Nat
  /\ \A r \in bronze : r.ver <= bronzeVersion

TableInit ==
  /\ bronze = {}
  /\ bronzeVersion = 0

\* One atomic Delta append of the envelopes f[o], o \in DOMAIN f.
AppendCommit(f) ==
  /\ bronzeVersion' = bronzeVersion + 1
  /\ bronze' = bronze \cup
       {[ver |-> bronzeVersion + 1, off |-> o, env |-> f[o]] : o \in DOMAIN f}
=============================================================================
