---------------------------- MODULE RoutingProofs ----------------------------
(***************************************************************************)
(* The theorems of RecordRouting: for any search results and messages, any *)
(* integers in them, any widths of the integer types and any ties that     *)
(* Python's round takes down.                                              *)
(***************************************************************************)
EXTENDS RecordRouting, TLAPS

-----------------------------------------------------------------------------
(***************************************************************************)
(* The operators.                                                          *)
(***************************************************************************)

LEMMA NullIsPayload == NullPayload \in PayloadType
BY DEF NullPayload, PayloadType, Nullable

LEMMA ValidRatings ==
  /\ PythonValidRatings = {10, 15, 20, 25, 30, 35, 40, 45, 50}
  /\ SparkValidRatings = {10, 15, 20, 25, 30, 35, 40, 45, 50}
BY DEF PythonValidRatings, SparkValidRatings

\* Which ratings the two rules judge differently.
LEMMA RoundingsDiffer ==
  ASSUME NEW r \in Int
  PROVE  (PythonRound(r) \in PythonValidRatings <=> SparkRound(r) \in SparkValidRatings)
           <=> ~(r \in RoundsDown /\ NearStep(r, {-5, 5}))
<1>1. NearStep(r, {-5, 5}) <=>
        r \in {95, 105, 145, 155, 195, 205, 245, 255, 295, 305, 345, 355,
               395, 405, 445, 455, 495, 505}
  BY DEF NearStep
<1>2. CASE r % 10 = 5 /\ r \in RoundsDown
  <2>1. PICK q \in Int : r = 10 * q + 5
    BY <1>2
  <2>2. PythonRound(r) = q /\ SparkRound(r) = q + 1
    BY <1>2, <2>1 DEF PythonRound, SparkRound
  <2> QED
    BY <1>1, <1>2, <2>1, <2>2, ValidRatings
<1>3. CASE ~(r % 10 = 5 /\ r \in RoundsDown)
  <2>1. PythonRound(r) = SparkRound(r)
    BY <1>3 DEF PythonRound, SparkRound
  <2>2. r % 10 # 5 => ~NearStep(r, {-5, 5})
    BY <1>1
  <2> QED
    BY <1>3, <2>1, <2>2, ValidRatings
<1> QED
  BY <1>2, <1>3

\* A rating that Python takes down to a step is above it.
LEMMA TakenDownIsAbove ==
  ASSUME NEW r \in Int, r \in RoundsDown, NearStep(r, {-5, 5}),
         PythonRound(r) \in PythonValidRatings
  PROVE  NearStep(r, {5})
<1>1. PICK k \in 2 .. 10 : r - 50 * k \in {-5, 5}
  BY DEF NearStep
<1>2. CASE r - 50 * k = -5
  <2>1. PythonRound(r) = 5 * k - 1
    BY <1>2 DEF PythonRound
  <2> QED
    BY <2>1, ValidRatings
<1> QED
  BY <1>1, <1>2 DEF NearStep

\* What Spark's rule lets through: from 0.05 under a half step to 0.04 over it.
LEMMA SparkTakesNear ==
  ASSUME NEW r \in Int
  PROVE  SparkRound(r) \in SparkValidRatings <=> NearStep(r, -5 .. 4)
<1>1. ASSUME SparkRound(r) \in SparkValidRatings
      PROVE  NearStep(r, -5 .. 4)
  <2>1. PICK k \in 2 .. 10 : (r + 5) \div 10 = 5 * k
    BY <1>1 DEF SparkRound, SparkValidRatings
  <2>2. r - 50 * k \in -5 .. 4
    BY <2>1
  <2> QED
    BY <2>2 DEF NearStep
<1>2. ASSUME NearStep(r, -5 .. 4)
      PROVE  SparkRound(r) \in SparkValidRatings
  <2>1. PICK k \in 2 .. 10 : r - 50 * k \in -5 .. 4
    BY <1>2 DEF NearStep
  <2>2. (r + 5) \div 10 = 5 * k
    BY <2>1
  <2> QED
    BY <2>2 DEF SparkRound, SparkValidRatings
<1> QED
  BY <1>1, <1>2

\* Within 0.04 of a half step a rating passes both rules.
LEMMA NearIsValid ==
  ASSUME NEW r \in Int, NearStep(r, -4 .. 4)
  PROVE  /\ PythonRound(r) \in PythonValidRatings
         /\ ~NearStep(r, {5})
<1>1. PICK k \in 2 .. 10 : r - 50 * k \in -4 .. 4
  BY DEF NearStep
<1>2. r % 10 # 5 /\ (r + 5) \div 10 = 5 * k
  BY <1>1
<1>3. ~NearStep(r, {5})
  BY <1>2 DEF NearStep
<1> QED
  BY <1>2, <1>3 DEF PythonRound, PythonValidRatings

\* A text is blank to one of them only if it is white space that is no space.
LEMMA BlanksDiffer ==
  ASSUME NEW s \in Nullable(Texts)
  PROVE  (PythonBlank(s) <=> SparkBlank(s)) <=> s # {"tabs"}
BY DEF Nullable, Texts, PythonBlank, SparkBlank

LEMMA NotBlank ==
  ASSUME NEW s \in Nullable(Texts)
  PROVE  ~SparkBlank(s) <=> s # {} /\ s \cap {"spaces", "empty"} = {}
BY DEF Nullable, SparkBlank

LEMMA ParsedType ==
  ASSUME NEW v \in RawType, NEW env \in Parsed(v)
  PROVE  /\ v.form \in {"malformed", "json"}
         /\ env.event_id \in Nullable(Texts)
         /\ env.observed_at \in BOOLEAN
         /\ env.payload \in PayloadType
         /\ FitsInteger(env.payload)
<1>1. v.form \in {"malformed", "json"}
  BY DEF Parsed, RawType
<1>2. CASE v.form = "malformed"
  <2>1. env = [event_id |-> {}, observed_at |-> FALSE, payload |-> NullPayload]
    BY <1>2 DEF Parsed
  <2>2. {} \in Nullable(Texts) /\ FitsInteger(NullPayload)
    BY DEF Nullable, FitsInteger, NullPayload
  <2> QED
    BY <1>1, <2>1, <2>2, NullIsPayload
<1>3. CASE v.form = "json"
  <2>1. PICK p \in IF FitsInteger(v.payload)
                   THEN {v.payload}
                   ELSE {NullPayload, [v.payload EXCEPT !.review_count = {}]} :
               env = [event_id |-> v.event_id, observed_at |-> v.observed_at,
                      payload |-> p]
    BY <1>3 DEF Parsed
  <2>2. p \in PayloadType /\ FitsInteger(p)
    BY NullIsPayload DEF RawType, PayloadType, Nullable, FitsInteger, NullPayload
  <2> QED
    BY <1>3, <2>1, <2>2 DEF RawType
<1> QED
  BY <1>1, <1>2, <1>3

\* Rule by rule: a mirror fails with its original exactly where the two do not
\* drift apart.
LEMMA MirrorsAgree ==
  ASSUME NEW env, NEW c \in PythonCodes, env.payload \in PayloadType
  PROVE  (c \in PythonFailures(env.payload) <=> c \in SparkFailures(env))
           <=> ~Drift(c, env.payload)
<1> DEFINE p == env.payload
<1>1. /\ {p.business_id, p.name, p.city} \subseteq Nullable(Texts)
      /\ {p.rating, p.latitude, p.longitude} \subseteq Nullable(Int)
  BY DEF PayloadType
<1>2. CASE c = "missing_business_id"
  BY <1>1, <1>2, BlanksDiffer
     DEF Drift, PythonFailures, SparkFailures, PythonCodes, SparkCodes, SharedCodes
<1>3. CASE c = "missing_name"
  BY <1>1, <1>3, BlanksDiffer
     DEF Drift, PythonFailures, SparkFailures, PythonCodes, SparkCodes, SharedCodes
<1>4. CASE c = "missing_city"
  BY <1>1, <1>4, BlanksDiffer
     DEF Drift, PythonFailures, SparkFailures, PythonCodes, SparkCodes, SharedCodes
<1>5. CASE c = "rating_out_of_range"
  <2>1. /\ c \in PythonFailures(p) <=>
             \E r \in p.rating : PythonRound(r) \notin PythonValidRatings
        /\ c \in SparkFailures(env) <=>
             \E r \in p.rating : SparkRound(r) \notin SparkValidRatings
        /\ Drift(c, p) <=>
             \E r \in p.rating : r \in RoundsDown /\ NearStep(r, {-5, 5})
    BY <1>5 DEF Drift, PythonFailures, SparkFailures, PythonCodes, SparkCodes,
                SharedCodes
  <2>2. CASE p.rating = {}
    BY <2>1, <2>2
  <2>3. CASE p.rating # {}
    <3>1. PICK r \in Int : p.rating = {r}
      BY <1>1, <2>3 DEF Nullable
    <3>2. /\ c \in PythonFailures(p) <=> PythonRound(r) \notin PythonValidRatings
          /\ c \in SparkFailures(env) <=> SparkRound(r) \notin SparkValidRatings
          /\ Drift(c, p) <=> r \in RoundsDown /\ NearStep(r, {-5, 5})
      BY <2>1, <3>1, Zenon
    <3> QED
      BY <3>2, RoundingsDiffer
  <2> QED
    BY <2>2, <2>3
<1>6. CASE c \in {"latitude_out_of_range", "longitude_out_of_range"}
  <2>1. {p.latitude, p.longitude} \subseteq SUBSET Int
    BY <1>1 DEF Nullable
  <2> QED
    BY <1>6, <2>1
       DEF Drift, PythonFailures, SparkFailures, PythonCodes, SparkCodes, SharedCodes
<1>7. CASE c \in {"missing_rating", "missing_review_count", "missing_categories",
                  "negative_review_count", "missing_coordinates"}
  BY <1>7 DEF Drift, PythonFailures, SparkFailures, PythonCodes, SparkCodes,
              SharedCodes
<1>8. CASE c = "bad_category_value"
  BY <1>8 DEF Drift, PythonFailures, SparkFailures, PythonCodes, SparkCodes,
              SharedCodes
<1> QED
  BY <1>2, <1>3, <1>4, <1>5, <1>6, <1>7, <1>8 DEF PythonCodes, SharedCodes

\* What passes all of Spark's rules: an observation with its keys, and no other.
LEMMA PassedIsObservation ==
  ASSUME NEW env, env.payload \in PayloadType, FitsInteger(env.payload),
         env.event_id \in Nullable(Texts), env.observed_at \in BOOLEAN,
         IntegerMax \in Nat
  PROVE  SparkFailures(env) = {} <=>
           /\ env.event_id # {} /\ env.event_id \cap {"spaces", "empty"} = {}
           /\ env.observed_at
           /\ Observation(env.payload, {"spaces", "empty"}, -5 .. 4)
<1> DEFINE p == env.payload
<1>1. /\ {p.business_id, p.name, p.city} \subseteq Nullable(Texts)
      /\ {p.rating, p.latitude, p.longitude, p.review_count} \subseteq SUBSET Int
  BY DEF PayloadType, Nullable
<1>2. \A s \in {p.business_id, p.name, p.city, env.event_id} :
        SparkBlank(s) <=> ~(s # {} /\ s \cap {"spaces", "empty"} = {})
  BY <1>1, NotBlank
<1>3. \A r \in p.rating :
        SparkRound(r) \in SparkValidRatings <=> NearStep(r, -5 .. 4)
  BY <1>1, SparkTakesNear
<1>4. /\ \A n \in p.review_count : n < 0 <=> n \notin 0 .. IntegerMax
      /\ \A x \in p.latitude : x < -90 \/ x > 90 <=> x \notin -90 .. 90
      /\ \A x \in p.longitude : x < -180 \/ x > 180 <=> x \notin -180 .. 180
  BY <1>1 DEF FitsInteger
<1>5. ASSUME SparkFailures(env) = {}
      PROVE  /\ \A s \in {p.business_id, p.name, p.city, env.event_id} :
                  ~SparkBlank(s)
             /\ env.observed_at
             /\ p.rating # {}
             /\ \A r \in p.rating : SparkRound(r) \in SparkValidRatings
             /\ p.review_count # {} /\ \A n \in p.review_count : ~(n < 0)
             /\ p.latitude # {} /\ \A x \in p.latitude : ~(x < -90 \/ x > 90)
             /\ p.longitude # {} /\ \A x \in p.longitude : ~(x < -180 \/ x > 180)
             /\ p.categories # {}
  <2>1. \A c \in SparkCodes : c \notin SparkFailures(env)
    BY <1>5
  <2>2. /\ ~SparkBlank(env.event_id) /\ ~SparkBlank(p.business_id)
        /\ ~SparkBlank(p.name) /\ ~SparkBlank(p.city) /\ env.observed_at
    BY <2>1 DEF SparkFailures, SparkCodes, SharedCodes
  <2>3. /\ p.rating # {}
        /\ \A r \in p.rating : SparkRound(r) \in SparkValidRatings
    BY <2>1 DEF SparkFailures, SparkCodes, SharedCodes
  <2>4. /\ p.review_count # {} /\ \A n \in p.review_count : ~(n < 0)
        /\ p.latitude # {} /\ p.longitude # {} /\ p.categories # {}
    BY <2>1 DEF SparkFailures, SparkCodes, SharedCodes
  <2>5. /\ \A x \in p.latitude : ~(x < -90 \/ x > 90)
        /\ \A x \in p.longitude : ~(x < -180 \/ x > 180)
    BY <2>1 DEF SparkFailures, SparkCodes, SharedCodes
  <2> QED
    BY <2>2, <2>3, <2>4, <2>5
<1>6. ASSUME env.event_id # {}, env.event_id \cap {"spaces", "empty"} = {},
             env.observed_at, Observation(p, {"spaces", "empty"}, -5 .. 4)
      PROVE  SparkFailures(env) = {}
  <2>1. \A s \in {p.business_id, p.name, p.city, env.event_id} : ~SparkBlank(s)
    BY <1>2, <1>6 DEF Observation
  <2>2. /\ p.rating # {} /\ p.review_count # {} /\ p.categories # {}
        /\ p.latitude # {} /\ p.longitude # {}
        /\ \A r \in p.rating : SparkRound(r) \in SparkValidRatings
        /\ \A n \in p.review_count : ~(n < 0)
        /\ \A x \in p.latitude : ~(x < -90 \/ x > 90)
        /\ \A x \in p.longitude : ~(x < -180 \/ x > 180)
    BY <1>3, <1>4, <1>6 DEF Observation
  <2> QED
    BY <1>6, <2>1, <2>2 DEF SparkFailures
<1>7. ASSUME SparkFailures(env) = {}
      PROVE  /\ env.event_id # {} /\ env.event_id \cap {"spaces", "empty"} = {}
             /\ env.observed_at
             /\ Observation(p, {"spaces", "empty"}, -5 .. 4)
  <2>1. /\ p.rating # {} /\ \A r \in p.rating : NearStep(r, -5 .. 4)
        /\ p.review_count # {} /\ \A n \in p.review_count : n \in 0 .. IntegerMax
        /\ p.latitude # {} /\ \A x \in p.latitude : x \in -90 .. 90
        /\ p.longitude # {} /\ \A x \in p.longitude : x \in -180 .. 180
    BY <1>3, <1>4, <1>5, <1>7
  <2>2. \A s \in {p.business_id, p.name, p.city, env.event_id} :
          s # {} /\ s \cap {"spaces", "empty"} = {}
    BY <1>2, <1>5, <1>7
  <2> QED
    BY <1>5, <1>7, <2>1, <2>2 DEF Observation
<1> QED
  BY <1>6, <1>7

\* Of a message that Spark finds no fault with, and of no other, an envelope
\* comes out that passes; all of them pass or none does.
LEMMA SilverTakes ==
  ASSUME NEW v \in RawType, NEW env \in Parsed(v)
  PROVE  SparkFailures(env) = {} <=>
           /\ v.form = "json"
           /\ v.event_id # {} /\ v.event_id \cap {"spaces", "empty"} = {}
           /\ v.observed_at
           /\ Observation(v.payload, {"spaces", "empty"}, -5 .. 4)
<1> DEFINE Passes(w) ==
      /\ w.event_id # {} /\ w.event_id \cap {"spaces", "empty"} = {}
      /\ w.observed_at
      /\ Observation(w.payload, {"spaces", "empty"}, -5 .. 4)
<1>1. /\ env.event_id \in Nullable(Texts) /\ env.observed_at \in BOOLEAN
      /\ env.payload \in PayloadType /\ FitsInteger(env.payload)
      /\ v.form \in {"malformed", "json"}
  BY ParsedType
<1>2. SparkFailures(env) = {} <=> Passes(env)
  BY <1>1, RecordAssumption, PassedIsObservation
<1>3. CASE v.form = "malformed"
  <2>1. env.event_id = {}
    BY <1>3 DEF Parsed
  <2> QED
    BY <1>2, <1>3, <2>1
<1>4. CASE v.form = "json" /\ FitsInteger(v.payload)
  <2>1. /\ env.event_id = v.event_id /\ env.observed_at = v.observed_at
        /\ env.payload = v.payload
    BY <1>4 DEF Parsed
  <2> QED
    BY <1>2, <1>4, <2>1
<1>5. CASE v.form = "json" /\ ~FitsInteger(v.payload)
  <2>1. env.payload.review_count = {}
    BY <1>5 DEF Parsed, NullPayload, RawType, PayloadType
  <2>2. ~Passes(env)
    BY <2>1 DEF Observation
  <2>3. ~Observation(v.payload, {"spaces", "empty"}, -5 .. 4)
    BY <1>5, RecordAssumption DEF Observation, FitsInteger
  <2> QED
    BY <1>2, <2>2, <2>3
<1> QED
  BY <1>1, <1>3, <1>4, <1>5

\* What the Python rules pass fails a rule of Spark for two causes only.
LEMMA PublishedFailsForCause ==
  ASSUME NEW p \in PayloadType, PythonFailures(p) = {},
         NEW env \in Parsed(Envelope(p)), SparkFailures(env) # {}
  PROVE  \/ \E r \in p.rating \cap RoundsDown : NearStep(r, {5})
         \/ ~FitsInteger(p)
<1> SUFFICES ASSUME FitsInteger(p)
             PROVE  \E r \in p.rating \cap RoundsDown : NearStep(r, {5})
  OBVIOUS
<1>1. env = [event_id |-> {"word"}, observed_at |-> TRUE, payload |-> p]
  BY DEF Parsed, Envelope
<1>2. PICK c \in SparkCodes : c \in SparkFailures(env)
  BY DEF SparkFailures
<1>3. c \in SharedCodes
  BY <1>1, <1>2 DEF SparkFailures, SparkCodes, SparkBlank, SharedCodes
<1>4. \A d \in PythonCodes : d \notin PythonFailures(p)
  OBVIOUS
<1>5. /\ p.business_id # {"tabs"} /\ p.name # {"tabs"} /\ p.city # {"tabs"}
      /\ p.latitude # {} /\ p.longitude # {}
      /\ \A r \in p.rating : PythonRound(r) \in PythonValidRatings
  BY <1>4 DEF PythonFailures, PythonCodes, SharedCodes, PythonBlank
<1>6. Drift(c, p)
  BY <1>1, <1>2, <1>3, <1>4, MirrorsAgree DEF PythonCodes
<1>7. c # "bad_category_value"
  BY <1>3 DEF SharedCodes
<1>8. PICK r \in p.rating \cap RoundsDown : NearStep(r, {-5, 5})
  BY <1>5, <1>6, <1>7 DEF Drift
<1>9. r \in Int
  BY DEF PayloadType, Nullable
<1> QED
  BY <1>5, <1>8, <1>9, TakenDownIsAbove

\* A payload that is all it should be passes both.
LEMMA ObservationPasses ==
  ASSUME NEW p \in PayloadType, IntegerMax \in Nat, p.categories = {"word"},
         Observation(p, {"spaces", "tabs", "empty"}, -4 .. 4)
  PROVE  /\ PythonFailures(p) = {}
         /\ FitsInteger(p)
         /\ \A r \in p.rating : ~NearStep(r, {5})
<1>1. /\ {p.business_id, p.name, p.city} \subseteq Nullable(Texts)
      /\ {p.rating, p.latitude, p.longitude, p.review_count} \subseteq SUBSET Int
  BY DEF PayloadType, Nullable
<1>2. \A s \in {p.business_id, p.name, p.city, {"word"}} : ~PythonBlank(s)
  BY <1>1 DEF Observation, PythonBlank, Nullable
<1>3. \A r \in p.rating : /\ PythonRound(r) \in PythonValidRatings
                          /\ ~NearStep(r, {5})
  BY <1>1, NearIsValid DEF Observation
<1>4. FitsInteger(p) /\ \A n \in p.review_count : ~(n < 0)
  BY DEF Observation, FitsInteger
<1> QED
  BY <1>2, <1>3, <1>4 DEF Observation, PythonFailures, PythonCodes
-----------------------------------------------------------------------------
(***************************************************************************)
(* The specification.                                                      *)
(***************************************************************************)

\* What the producer holds is the normalised search result; what it has put on
\* the raw topic, that in an envelope, and it passed the Python rules.
OnItsWay ==
  /\ at = "runner" => body \in Bodies
  /\ at = "producer" => Normalises(body) /\ payload = FromYelp(body)
  /\ at \in {"bronze", "dlq"} /\ origin = "yelp" =>
       /\ value = Envelope(payload)
       /\ payload = FromYelp(body)
       /\ PythonFailures(payload) = {}

RoutingInv ==
  /\ TypeOK
  /\ OnItsWay
  /\ PublishedReachSilver
  /\ SilverIsExact
  /\ GoodRecordsLand

\* A search result that is all it should be is a payload that is.
LEMMA GoodBodyIsGood ==
  ASSUME NEW b \in BodyType,
         Observation(b.fields, {"spaces", "tabs", "empty"}, -4 .. 4),
         "word" \in b.fields.categories,
         b.fields.categories \subseteq {"word", "empty"}
  PROVE  /\ FromYelp(b) \in PayloadType
         /\ Observation(FromYelp(b), {"spaces", "tabs", "empty"}, -4 .. 4)
         /\ FromYelp(b).categories = {"word"}
         /\ b.object /\ b.coercible => Normalises(b)
         /\ FromYelp(b).review_count = b.fields.review_count
         /\ Encodable(b.fields)
<1>1. b.fields \in PayloadType
  BY DEF BodyType
<1>2. FromYelp(b) = [b.fields EXCEPT !.categories = {"word"}]
  BY <1>1 DEF FromYelp, PayloadType
<1>3. FromYelp(b) \in PayloadType /\ FromYelp(b).categories = {"word"}
  BY <1>1, <1>2 DEF PayloadType, Texts
<1>4. Observation(FromYelp(b), {"spaces", "tabs", "empty"}, -4 .. 4)
  BY <1>1, <1>2 DEF Observation, PayloadType
<1>5. b.object /\ b.coercible => Normalises(b)
  BY DEF Observation, Normalises
<1>6. Encodable(b.fields)
  BY RecordAssumption DEF Observation, Encodable
<1> QED
  BY <1>1, <1>2, <1>3, <1>4, <1>5, <1>6 DEF PayloadType

LEMMA FromYelpType ==
  ASSUME NEW b \in BodyType
  PROVE  /\ FromYelp(b) \in PayloadType
         /\ FromYelp(b).business_id = b.fields.business_id
         /\ FromYelp(b).name = b.fields.name
         /\ Encodable(FromYelp(b)) <=> Encodable(b.fields)
BY DEF FromYelp, BodyType, PayloadType, Encodable

LEMMA EnvelopeType ==
  ASSUME NEW p \in PayloadType
  PROVE  Envelope(p) \in RawType /\ Envelope(p).form = "json"
         /\ Envelope(p).payload = p
BY DEF Envelope, RawType, Nullable, Texts

LEMMA InitRoutingInv == Init => RoutingInv
<1> SUFFICES ASSUME Init
             PROVE  RoutingInv
  OBVIOUS
<1>1. NoValue \in RawType
  BY NullIsPayload DEF NoValue, RawType, Nullable
<1> QED
  BY <1>1, NullIsPayload
     DEF Init, RoutingInv, TypeOK, OnItsWay, PublishedReachSilver, SilverIsExact,
         GoodRecordsLand

LEMMA BodyIsTyped == TypeOK => body \in BodyType
<1>1. NoBody \in BodyType
  BY NullIsPayload DEF NoBody, BodyType
<1>2. Bodies \subseteq BodyType
  BY RecordAssumption
<1> QED
  BY <1>1, <1>2 DEF TypeOK

LEMMA FailureTypes ==
  /\ \A p : PythonFailures(p) \subseteq PythonCodes
  /\ \A env : SparkFailures(env) \subseteq SparkCodes
BY DEF PythonFailures, SparkFailures

\* The producer's side.
LEMMA FetchInv ==
  ASSUME RoutingInv, Fetch
  PROVE  RoutingInv'
BY DEF RoutingInv, Fetch, TypeOK, OnItsWay, PublishedReachSilver, SilverIsExact,
       GoodRecordsLand

LEMMA NormaliseInv ==
  ASSUME RoutingInv, Normalise
  PROVE  RoutingInv'
<1> USE DEF RoutingInv, Normalise
<1>1. body \in BodyType
  BY BodyIsTyped
<1>2. TypeOK'
  BY <1>1, FromYelpType DEF TypeOK, Normalises
<1>3. OnItsWay'
  BY DEF OnItsWay
<1> QED
  BY <1>2, <1>3 DEF PublishedReachSilver, SilverIsExact, GoodRecordsLand

\* A record that is refused before it is normalised was no good one.
LEMMA RefusedInv ==
  ASSUME RoutingInv, Quarantine \/ HandlerRaises
  PROVE  RoutingInv'
<1> USE DEF RoutingInv, Quarantine, HandlerRaises, DeadLetter
<1>1. body \in BodyType /\ ~Normalises(body)
  BY BodyIsTyped
<1>2. TypeOK' /\ OnItsWay'
  BY DEF TypeOK, OnItsWay
<1>3. GoodRecordsLand'
  BY <1>1, GoodBodyIsGood DEF GoodRecordsLand
<1> QED
  BY <1>2, <1>3 DEF PublishedReachSilver, SilverIsExact

\* Nor does one that produce() drops go anywhere else.
LEMMA DroppedInv ==
  ASSUME RoutingInv, ProduceRaises
  PROVE  RoutingInv'
BY DEF RoutingInv, ProduceRaises, TypeOK, OnItsWay, PublishedReachSilver,
       SilverIsExact, GoodRecordsLand

LEMMA ProducerInv ==
  ASSUME RoutingInv, Divert \/ PublishBusiness \/ EncodeRaises
  PROVE  RoutingInv'
<1> USE DEF RoutingInv, Divert, PublishBusiness, EncodeRaises, DeadLetter
<1>1. /\ body \in BodyType
      /\ payload = FromYelp(body)
      /\ payload \in PayloadType
      /\ value \in RawType
  BY BodyIsTyped DEF TypeOK, OnItsWay
<1>2. Envelope(payload) \in RawType /\ Envelope(payload).form # "none"
  BY <1>1, EnvelopeType
<1>3. TypeOK'
  <2>1. CASE Divert
    BY <2>1, FailureTypes DEF TypeOK
  <2>2. CASE PublishBusiness
    BY <2>2, <1>2 DEF TypeOK
  <2>3. CASE EncodeRaises
    BY <2>3 DEF TypeOK
  <2> QED
    BY <2>1, <2>2, <2>3
<1>4. OnItsWay'
  BY <1>1 DEF OnItsWay
<1>5. GoodRecordsLand'
  <2> SUFFICES ASSUME body.object, body.coercible,
                      Observation(body.fields, {"spaces", "tabs", "empty"}, -4 .. 4),
                      "word" \in body.fields.categories,
                      body.fields.categories \subseteq {"word", "empty"}
               PROVE  PythonFailures(payload) = {} /\ Encodable(payload)
    BY DEF GoodRecordsLand
  <2> QED
    BY <1>1, RecordAssumption, GoodBodyIsGood, ObservationPasses, FromYelpType
<1> QED
  BY <1>3, <1>4, <1>5 DEF PublishedReachSilver, SilverIsExact

LEMMA TestInjectionTyped ==
  ASSUME TypeOK, InjectBadForTest
  PROVE  TypeOK'
<1>1. codes' \subseteq PythonCodes
  BY FailureTypes DEF InjectBadForTest, DeadLetter
<1>2. "missing_business_id" \in codes'
  BY DEF InjectBadForTest, DeadLetter, PythonFailures, PythonBlank, PythonCodes,
         SharedCodes, NullPayload
<1>3. /\ at' = "ingest_dlq" /\ origin' = "inject"
      /\ reason' = "injected_for_test"
      /\ UNCHANGED <<body, payload, value>>
  BY DEF InjectBadForTest, DeadLetter
<1> QED
  BY <1>1, <1>2, <1>3 DEF TypeOK

\* Records that do not come from Yelp.
LEMMA InjectedInv ==
  ASSUME RoutingInv, InjectBadForTest \/ InjectBadRaw \/ WriteRaw
  PROVE  RoutingInv'
<1> USE DEF RoutingInv, InjectBadForTest, InjectBadRaw, WriteRaw, DeadLetter
<1>1. Envelope(DemoPayload) \in RawType /\ Envelope(DemoPayload).form # "none"
  <2>1. DemoPayload \in PayloadType
    BY DEF DemoPayload, PayloadType, Nullable, Texts
  <2> QED
    BY <2>1, EnvelopeType
<1>2. TypeOK'
  <2>1. CASE InjectBadForTest
    BY <2>1, TestInjectionTyped
  <2>2. CASE InjectBadRaw
    BY <2>2, <1>1 DEF TypeOK
  <2>3. CASE WriteRaw
    <3>1. value' \in RawType /\ value'.form # "none"
      BY <2>3, RecordAssumption
    <3> QED
      BY <2>3, <3>1 DEF TypeOK
  <2> QED
    BY <2>1, <2>2, <2>3
<1> QED
  BY <1>2 DEF OnItsWay, PublishedReachSilver, SilverIsExact, GoodRecordsLand

\* Silver's side.
LEMMA SilverInvalidInv ==
  ASSUME RoutingInv, SilverParseFailed \/ SilverInvalid
  PROVE  RoutingInv'
<1> USE DEF RoutingInv, SilverParseFailed, SilverInvalid
<1>1. TypeOK'
  BY FailureTypes DEF TypeOK
<1>2. OnItsWay'
  BY DEF OnItsWay
<1>3. ASSUME origin = "yelp"
      PROVE  \/ \E r \in value.payload.rating \cap RoundsDown : NearStep(r, {5})
             \/ ~FitsInteger(value.payload)
  <2>1. /\ value = Envelope(payload) /\ payload \in PayloadType
        /\ PythonFailures(payload) = {}
    BY <1>3 DEF OnItsWay, TypeOK
  <2>2. Parsed(value) # {}
    BY <2>1 DEF Envelope, Parsed
  <2>3. PICK env \in Parsed(value) : SparkFailures(env) # {}
    BY <2>2
  <2> QED
    BY <2>1, <2>3, PublishedFailsForCause, EnvelopeType
<1>4. PublishedReachSilver'
  BY <1>3 DEF PublishedReachSilver
<1>5. GoodRecordsLand'
  <2> SUFFICES ASSUME origin = "yelp",
                      Observation(body.fields, {"spaces", "tabs", "empty"}, -4 .. 4),
                      "word" \in body.fields.categories,
                      body.fields.categories \subseteq {"word", "empty"}
               PROVE  FALSE
    BY DEF GoodRecordsLand
  <2>1. body \in BodyType /\ payload = FromYelp(body)
    BY BodyIsTyped DEF OnItsWay
  <2>2. FitsInteger(payload) /\ \A r \in payload.rating : ~NearStep(r, {5})
    BY <2>1, RecordAssumption, GoodBodyIsGood, ObservationPasses
  <2>3. value.payload = payload
    BY EnvelopeType DEF OnItsWay, TypeOK
  <2> QED
    BY <1>3, <2>2, <2>3
<1>6. SilverIsExact'
  <2>1. value \in RawType
    BY DEF TypeOK
  <2>2. Parsed(value) = {} => value.form # "json"
    BY DEF Parsed
  <2> QED
    BY <2>1, <2>2, SilverTakes DEF SilverIsExact
<1> QED
  BY <1>1, <1>2, <1>4, <1>5, <1>6

LEMMA SilverValidInv ==
  ASSUME RoutingInv, SilverValid
  PROVE  RoutingInv'
<1> USE DEF RoutingInv, SilverValid
<1>1. PICK env \in Parsed(value) :
        SparkFailures(env) = {} /\ value' = [value EXCEPT !.payload = env.payload]
  OBVIOUS
<1>2. value \in RawType
  BY DEF TypeOK
<1>3. /\ env.payload \in PayloadType /\ FitsInteger(env.payload)
      /\ env.event_id \in Nullable(Texts) /\ env.observed_at \in BOOLEAN
  BY <1>2, ParsedType
<1>4. /\ value'.payload = env.payload /\ value'.form = value.form
      /\ value' \in RawType
      /\ value'.event_id = value.event_id /\ value'.observed_at = value.observed_at
  BY <1>1, <1>2, <1>3 DEF RawType
<1>5. /\ value.form = "json" /\ FitsInteger(value.payload)
      /\ env.payload = value.payload
  <2>1. value.form = "json" /\ Observation(value.payload, {"spaces", "empty"}, -5 .. 4)
    BY <1>1, <1>2, SilverTakes
  <2>2. FitsInteger(value.payload)
    BY <2>1, RecordAssumption DEF Observation, FitsInteger
  <2> QED
    BY <2>1, <2>2 DEF Parsed
<1>6. TypeOK'
  BY <1>4 DEF TypeOK
<1>7. SilverIsExact'
  BY <1>1, <1>2, <1>4, <1>5, SilverTakes DEF SilverIsExact
<1> QED
  BY <1>6, <1>7 DEF OnItsWay, PublishedReachSilver, GoodRecordsLand

LEMMA StepRoutingInv ==
  ASSUME RoutingInv, [Next]_vars
  PROVE  RoutingInv'
<1>1. CASE UNCHANGED vars
  BY <1>1 DEF vars, RoutingInv, TypeOK, OnItsWay, PublishedReachSilver,
              SilverIsExact, GoodRecordsLand
<1> QED
  BY <1>1, FetchInv, NormaliseInv, RefusedInv, DroppedInv, ProducerInv,
     InjectedInv, SilverInvalidInv, SilverValidInv DEF Next

\* The inductive invariant holds in every reachable state.
THEOREM RoutingInvariance == Spec => []RoutingInv
<1>1. Init => RoutingInv
  BY InitRoutingInv
<1>2. RoutingInv /\ [Next]_vars => RoutingInv'
  BY StepRoutingInv
<1> QED
  BY <1>1, <1>2, PTL DEF Spec

\* Type correctness, and that reason and place go together.
THEOREM RoutingTypeCorrect == Spec => []TypeOK
<1>1. RoutingInv => TypeOK
  BY DEF RoutingInv
<1> QED
  BY <1>1, RoutingInvariance, PTL

\* The two sets of rules differ in the known cases and in no other, rule by
\* rule, for any payload that fits.
THEOREM RoutingRulesAgree == Spec => []RulesAgree
<1>1. ASSUME RoutingInv, at = "bronze", value.form = "json",
             FitsInteger(value.payload),
             NEW env \in Parsed(value), NEW c \in PythonCodes
      PROVE  (c \in PythonFailures(value.payload) <=> c \in SparkFailures(env))
               <=> ~Drift(c, value.payload)
  <2>1. value.payload \in PayloadType
    BY <1>1 DEF RoutingInv, TypeOK, RawType
  <2>2. env.payload = value.payload
    BY <1>1 DEF Parsed
  <2> QED
    BY <1>1, <2>1, <2>2, MirrorsAgree
<1>2. RoutingInv => RulesAgree
  BY <1>1 DEF RulesAgree
<1> QED
  BY <1>2, RoutingInvariance, PTL

\* What publish_business accepts, Silver quarantines for two causes only.
THEOREM RoutingPublishedReachSilver == Spec => []PublishedReachSilver
<1>1. RoutingInv => PublishedReachSilver
  BY DEF RoutingInv
<1> QED
  BY <1>1, RoutingInvariance, PTL

\* Silver takes the observations with their keys, ratings rounded, and no others.
THEOREM RoutingSilverIsExact == Spec => []SilverIsExact
<1>1. RoutingInv => SilverIsExact
  BY DEF RoutingInv
<1> QED
  BY <1>1, RoutingInvariance, PTL

\* A search result that is all it should be is refused by neither layer.
THEOREM RoutingGoodRecordsLand == Spec => []GoodRecordsLand
<1>1. RoutingInv => GoodRecordsLand
  BY DEF RoutingInv
<1> QED
  BY <1>1, RoutingInvariance, PTL
=============================================================================
