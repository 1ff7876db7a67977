---------------------------- MODULE SilverSystem ----------------------------
(***************************************************************************)
(* The Silver job over a Bronze table that anybody appends to: the commits *)
(* are taken from a set of possible contents, in any order and any number  *)
(* of times, so they include every batch the Bronze job can write and      *)
(* every batch it writes again after its own checkpoint was cleared.       *)
(***************************************************************************)
EXTENDS SilverTransform

CONSTANTS
  Commits,     \* what one append may hold: functions from offsets to envelopes
  MaxVersion   \* bound: the number of appends

ASSUME CommitsAssumption ==
  /\ \A f \in Commits : DOMAIN f \subseteq Offsets
                        /\ \A o \in DOMAIN f : f[o] \in Envelopes
  /\ MaxVersion \in Nat

vars == <<tableVars, silverVars>>

Init == TableInit /\ SilverInit

BronzeAppend ==
  /\ bronzeVersion < MaxVersion
  /\ \E f \in Commits : AppendCommit(f)
  /\ UNCHANGED silverVars

Next ==
  \/ BronzeAppend
  \/ SilverStart /\ UNCHANGED tableVars
  \/ SilverPlan /\ UNCHANGED tableVars
  \/ SilverMerge /\ UNCHANGED tableVars
  \/ DlqMerge /\ UNCHANGED tableVars
  \/ SilverCommit /\ UNCHANGED tableVars
  \/ SilverFinish /\ UNCHANGED tableVars
  \/ SilverCrash /\ UNCHANGED tableVars
  \/ SilverReset /\ UNCHANGED tableVars

Spec == Init /\ [][Next]_vars
FairSpec == Spec /\ SilverFairness
-----------------------------------------------------------------------------
TypeOK == TableTypeOK /\ SilverTypeOK

\* What a step may never do: take an event out of Silver or a key out of the
\* dead-letter queue, also when the operator has the job start over.
NeverForgotten ==
  [][/\ \A t \in silver : \E u \in silver' : u.row.env = t.row.env
     /\ \A d \in dlq : \E e \in dlq' : DlqKey(e.row) = DlqKey(d.row)]_vars

\* The job implements the abstract store: crashes, retries, resets and
\* reprocessing are stuttering steps of it.
Store == INSTANCE ObservationStore WITH
  Good <- Valid,
  Bad <- Invalid \cup Unparseable,
  received <- {r.env : r \in bronze},
  accepted <- {t.row.env : t \in silver},
  quarantined <- {d.row.env : d \in dlq}

StoreSpec == Store!Spec

\* From some point on the job does not die and nobody clears its checkpoint.
\* (Dying with nothing left to do is the same step as finishing, and clearing
\* an empty checkpoint is no step of the job.)
Undisturbed ==
  <>[][/\ SilverCrash => SilverFinish
       /\ SilverReset => UNCHANGED silverVars]_vars

\* Once the job stops dying and the operator stops clearing its checkpoint,
\* every row Bronze holds is landed: the target fixed at the start of a run
\* and a batch left half done only delay it.
EventuallyLanded ==
  Undisturbed =>
    \A e \in Envelopes :
      (\E r \in bronze : r.env = e)
        ~> IF e \in Valid THEN \E t \in silver : t.row.env = e
                          ELSE \E d \in dlq : d.row.env = e
=============================================================================
