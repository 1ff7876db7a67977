-------------------------- MODULE MCRecordRouting --------------------------
(***************************************************************************)
(* Payloads that differ from a good one in at most two fields, each by     *)
(* every value on which some rule turns.                                   *)
(***************************************************************************)
EXTENDS RecordRouting

Good ==
  [business_id |-> {"word"}, name |-> {"word"}, city |-> {"word"},
   rating |-> {400}, review_count |-> {5}, latitude |-> {42},
   longitude |-> {-71}, categories |-> {"word"}]

TextValues == Nullable(Texts)
Numbers(S) == {{}} \cup {{n} : n \in S}

\* Ratings about the first, a middle and the last step; ties of both kinds.
Values ==
  [business_id |-> TextValues, name |-> TextValues, city |-> TextValues,
   rating |-> Numbers({-5, 0, 95, 100, 104, 145, 245, 250, 255, 405, 420, 495,
                       500, 504, 505, 510, 990}),
   review_count |-> Numbers({-9, -8, -1, 0, 7, 8, 15, 16}),
   latitude |-> Numbers({-91, -90, 0, 90, 91, 180}),
   longitude |-> Numbers({-181, -180, 0, 91, 180, 181}),
   categories |-> {{}, {"empty"}, {"word", "empty"}, {"word", "spaces"}, {"tabs"}}]

Payloads ==
  UNION {{[[Good EXCEPT ![f] = v] EXCEPT ![g] = w] :
            v \in Values[f], w \in Values[g]} : f, g \in DOMAIN Good}

MCBodies ==
  [object : {TRUE}, coercible : BOOLEAN, fields : Payloads]
    \cup {[object |-> FALSE, coercible |-> FALSE, fields |-> NullPayload]}

MCRawValues ==
  [form : {"json"}, event_id : TextValues, observed_at : BOOLEAN,
   payload : Payloads]
    \cup [form : {"blank", "malformed"}, event_id : {{}}, observed_at : {FALSE},
          payload : {NullPayload}]

\* The ties in [0, 6) that round(_, 1) takes down.
MCRoundsDown ==
  {15, 25, 35, 85, 95, 115, 125, 145, 165, 195, 205, 215, 225, 255, 265, 305,
   315, 325, 355, 365, 405, 425, 435, 455, 485, 505, 525, 535, 555, 585}
=============================================================================
