--------------------------- MODULE MCSilverSystem ---------------------------
(***************************************************************************)
(* The Silver job over a source of five records: the same valid envelope   *)
(* at two offsets (an at-least-once redelivery), another valid one, an     *)
(* invalid one and one that does not parse.  An append is a slice of it.   *)
(***************************************************************************)
EXTENDS SilverSystem, Sequences

CONSTANTS v1, v2, i1, u1

MCValid == {v1, v2}
MCInvalid == {i1}
MCUnparseable == {u1}

\* The log a slice is taken from; offsets count from 0.
Source == <<v1, i1, v1, v2, u1>>
Slice(lo, hi) == [o \in lo .. hi |-> Source[o + 1]]

\* One record, two neighbours, or all of them.
MCCommits ==
  {Slice(o, o) : o \in 0 .. 4} \cup {Slice(o, o + 1) : o \in 0 .. 3}
    \cup {Slice(0, 4)}
=============================================================================
