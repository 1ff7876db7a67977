----------------------------- MODULE TopicCopy -----------------------------
(***************************************************************************)
(* What the Bronze job promises, without the job: the table is a copy of   *)
(* the topic, made in passes.  A pass begins at the oldest record kept and *)
(* takes up every time where it left off, so it copies each record once,   *)
(* unchanged and in order, or stops where retention overtook it.  Only an  *)
(* operator starts a pass over.                                            *)
(***************************************************************************)
EXTENDS Integers, Sequences

CONSTANTS
  Records,  \* what the topic may hold
  None      \* no pass has begun

VARIABLES
  source,   \* the topic, from its first record on
  oldest,   \* how many records of it retention has dropped
  copies,   \* the rows: [ver, off, env], off counted from 0
  commits,  \* how many times rows were added
  first,    \* where the pass began
  next      \* where it goes on

copyVars == <<source, oldest, copies, commits, first, next>>

Init ==
  /\ source = <<>>
  /\ oldest = 0
  /\ copies = {}
  /\ commits = 0
  /\ first = None
  /\ next = None

Arrive ==
  /\ \E r \in Records : source' = Append(source, r)
  /\ UNCHANGED <<oldest, copies, commits, first, next>>

Drop ==
  /\ oldest < Len(source)
  /\ oldest' = oldest + 1
  /\ UNCHANGED <<source, copies, commits, first, next>>

Begin ==
  /\ next = None
  /\ first' = oldest
  /\ next' = oldest
  /\ UNCHANGED <<source, oldest, copies, commits>>

\* The next records, all of them still there, in one commit.
Copy ==
  /\ next # None
  /\ oldest <= next
  /\ \E end \in next + 1 .. Len(source) :
       /\ copies' = copies \cup
            {[ver |-> commits + 1, off |-> o, env |-> source[o + 1]] :
               o \in next .. end - 1}
       /\ next' = end
  /\ commits' = commits + 1
  /\ UNCHANGED <<source, oldest, first>>

StartOver ==
  /\ first' = None
  /\ next' = None
  /\ UNCHANGED <<source, oldest, copies, commits>>

Next == Arrive \/ Drop \/ Begin \/ Copy \/ StartOver

Spec == Init /\ [][Next]_copyVars
=============================================================================
