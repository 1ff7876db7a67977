------------------------- MODULE MCGoldAggregates -------------------------
(***************************************************************************)
(* Three days under a window of two: day 1 closes, and every day can get   *)
(* rows late or early; one row has no category.                            *)
(***************************************************************************)
EXTENDS GoldAggregates

Row(d, n) == [day |-> d, id |-> n]
MCUncategorised == {Row(2, 2)}
MCObservations == {Row(1, 1), Row(2, 1), Row(3, 1)} \cup MCUncategorised
=============================================================================
