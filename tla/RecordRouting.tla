---------------------------- MODULE RecordRouting ----------------------------
(***************************************************************************)
(* One record's way from Yelp, or from whoever else writes to the raw      *)
(* topic, to Silver or to a dead-letter queue: the pydantic normalisation  *)
(* (ingest/schemas.py), the Python rules (validation/validators.py), the   *)
(* envelope, and the Spark parse and rules of 02_silver_transform.py that  *)
(* are meant to mirror them.                                               *)
(*                                                                         *)
(* A nullable value is the set of what is there: {} is null or absent.  A  *)
(* string is its class, a rating counts hundredths, a list of categories   *)
(* is the set of its elements' classes.                                    *)
(***************************************************************************)
EXTENDS Integers

CONSTANTS
  Bodies,      \* the search results Yelp may return
  RawValues,   \* what others may write to the raw topic
  IntegerMax,  \* the largest value of Spark's IntegerType
  LongMax,     \* the largest integer orjson encodes
  RoundsDown   \* ratings x.x5 that Python's round(_, 1) takes down: the double
               \* is below the decimal, or a tie goes to the even digit

Texts == {"word", "spaces", "tabs", "empty"}  \* tabs: any other white space

Nullable(S) == {T \in SUBSET S : \A x, y \in T : x = y}

\* The fields of BusinessEvent that a rule looks at.
PayloadType ==
  [business_id : Nullable(Texts), name : Nullable(Texts),
   city : Nullable(Texts), rating : Nullable(Int), review_count : Nullable(Int),
   latitude : Nullable(Int), longitude : Nullable(Int),
   categories : SUBSET Texts]

\* A search result, by what the calls of get() in from_yelp return (so a name
\* that is absent is "empty").  coercible: pydantic's lax mode can take every
\* value for its field's type (a "4.5", a 12.0); the fields are those values.
BodyType == [object : BOOLEAN, coercible : BOOLEAN, fields : PayloadType]

\* A message on the raw topic.
RawType ==
  [form : {"none", "blank", "malformed", "json"}, event_id : Nullable(Texts),
   observed_at : BOOLEAN, payload : PayloadType]

NullPayload ==
  [business_id |-> {}, name |-> {}, city |-> {}, rating |-> {},
   review_count |-> {}, latitude |-> {}, longitude |-> {}, categories |-> {}]
NoValue == [form |-> "none", event_id |-> {}, observed_at |-> FALSE,
            payload |-> NullPayload]
NoBody == [object |-> FALSE, coercible |-> FALSE, fields |-> NullPayload]

ASSUME RecordAssumption ==
  /\ IntegerMax \in Nat
  /\ LongMax \in Nat
  /\ IntegerMax < LongMax
  /\ Bodies \subseteq BodyType
  /\ RawValues \subseteq {v \in RawType : v.form # "none"}

VARIABLES
  at,       \* where the record is
  origin,   \* who made it: "yelp", "inject" or "other"
  body,     \* as the client yielded it
  payload,  \* as a BusinessEvent
  value,    \* as a message on the raw topic, and in Bronze
  reason,   \* the reason of its dead letter
  codes     \* and the codes

vars == <<at, origin, body, payload, value, reason, codes>>

-----------------------------------------------------------------------------
(***************************************************************************)
(* from_yelp.                                                              *)
(***************************************************************************)

\* Mutant: a name that is null goes on.
NormalisesNullName(b) ==
  b.object /\ b.coercible /\ b.fields.business_id # {}

\* business_id and name are str; otherwise from_yelp raises.
Normalises(b) ==
  /\ b.object
  /\ b.coercible
  /\ b.fields.business_id # {}
  /\ b.fields.name # {}

\* Mutant: latitude and longitude exchanged.
FromYelpSwapped(b) ==
  [b.fields EXCEPT !.latitude = b.fields.longitude,
                   !.longitude = b.fields.latitude,
                   !.categories = @ \ {"empty"}]

\* Aliases that are missing or empty are left out.
FromYelp(b) == [b.fields EXCEPT !.categories = @ \ {"empty"}]

\* orjson.dumps raises for an integer of more than 64 bits.
Encodable(p) == \A n \in p.review_count : n \in -LongMax .. LongMax
-----------------------------------------------------------------------------
(***************************************************************************)
(* The rules, twice.                                                       *)
(***************************************************************************)

SharedCodes ==
  {"missing_business_id", "missing_name", "missing_rating",
   "rating_out_of_range", "missing_review_count", "negative_review_count",
   "missing_coordinates", "latitude_out_of_range", "longitude_out_of_range",
   "missing_city", "missing_categories"}
PythonCodes == SharedCodes \cup {"bad_category_value"}
SparkCodes == SharedCodes \cup {"missing_event_id", "missing_observed_at"}

\* Tenths of the double, by round(); and of its decimal digits, by F.round.
PythonRound(r) ==
  IF r % 10 = 5 /\ r \in RoundsDown THEN r \div 10 ELSE (r + 5) \div 10
SparkRound(r) == (r + 5) \div 10

PythonValidRatings == {5 * k : k \in 2 .. 10}

\* Mutant: range(2, 10).
SparkValidRatingsShort == {5 * k : k \in 2 .. 9}

SparkValidRatings == {5 * k : k \in 2 .. 10}

\* Mutant: not s, without strip().
PythonBlankUnstripped(s) == s \subseteq {"empty"}

\* not s.strip()
PythonBlank(s) == s \subseteq {"spaces", "tabs", "empty"}

\* Mutant: without isNull(); a condition that is null adds no code.
SparkBlankUnlessNull(s) == s # {} /\ s \subseteq {"spaces", "empty"}

\* isNull(), or trim, which takes spaces only, leaves nothing.
SparkBlank(s) == s \subseteq {"spaces", "empty"}

\* validate_business_event.  Its two rules about types never fail here: the
\* models of schemas.py give each field its type.
PythonFailures(p) ==
  {c \in PythonCodes :
     \/ c = "missing_business_id" /\ PythonBlank(p.business_id)
     \/ c = "missing_name" /\ PythonBlank(p.name)
     \/ c = "missing_rating" /\ p.rating = {}
     \/ /\ c = "rating_out_of_range"
        /\ \E r \in p.rating : PythonRound(r) \notin PythonValidRatings
     \/ c = "missing_review_count" /\ p.review_count = {}
     \/ c = "negative_review_count" /\ \E n \in p.review_count : n < 0
     \/ c = "missing_coordinates" /\ (p.latitude = {} \/ p.longitude = {})
     \/ /\ c = "latitude_out_of_range"
        /\ p.longitude # {}
        /\ \E x \in p.latitude : x \notin -90 .. 90
     \/ /\ c = "longitude_out_of_range"
        /\ p.latitude # {}
        /\ \E x \in p.longitude : x \notin -180 .. 180
     \/ c = "missing_city" /\ PythonBlank(p.city)
     \/ c = "missing_categories" /\ p.categories = {}
     \/ c = "bad_category_value" /\ \E a \in p.categories : PythonBlank({a})}

\* _annotate_failures
SparkFailures(env) ==
  LET p == env.payload IN
  {c \in SparkCodes :
     \/ c = "missing_event_id" /\ SparkBlank(env.event_id)
     \/ c = "missing_observed_at" /\ ~env.observed_at
     \/ c = "missing_business_id" /\ SparkBlank(p.business_id)
     \/ c = "missing_name" /\ SparkBlank(p.name)
     \/ c = "missing_rating" /\ p.rating = {}
     \/ /\ c = "rating_out_of_range"
        /\ \E r \in p.rating : SparkRound(r) \notin SparkValidRatings
     \/ c = "missing_review_count" /\ p.review_count = {}
     \/ c = "negative_review_count" /\ \E n \in p.review_count : n < 0
     \/ c = "missing_coordinates" /\ (p.latitude = {} \/ p.longitude = {})
     \/ /\ c = "latitude_out_of_range"
        /\ \E x \in p.latitude : x < -90 \/ x > 90
     \/ /\ c = "longitude_out_of_range"
        /\ \E x \in p.longitude : x < -180 \/ x > 180
     \/ c = "missing_city" /\ SparkBlank(p.city)
     \/ c = "missing_categories" /\ p.categories = {}}

FitsInteger(p) ==
  \A n \in p.review_count : n \in -(IntegerMax + 1) .. IntegerMax

\* What from_json makes of a message, as the envelopes it may return: none
\* (null) for a value that is null or blank, one of nulls for what is no JSON.
\* A number too large for its type is null; whether its siblings survive
\* depends on spark.sql.json.enablePartialResults.
Parsed(v) ==
  CASE v.form = "blank" -> {}
    [] v.form = "malformed" ->
         {[event_id |-> {}, observed_at |-> FALSE, payload |-> NullPayload]}
    [] v.form = "json" ->
         {[event_id |-> v.event_id, observed_at |-> v.observed_at,
           payload |-> p] :
            p \in IF FitsInteger(v.payload)
                  THEN {v.payload}
                  ELSE {NullPayload, [v.payload EXCEPT !.review_count = {}]}}
    [] OTHER -> {}
-----------------------------------------------------------------------------
(***************************************************************************)
(* The record's way.                                                       *)
(***************************************************************************)

Init ==
  /\ at = "nowhere"
  /\ origin = ""
  /\ body = NoBody
  /\ payload = NullPayload
  /\ value = NoValue
  /\ reason = ""
  /\ codes = {}

\* iter_search yields an element.
Fetch ==
  /\ at = "nowhere"
  /\ origin' = "yelp"
  /\ body' \in Bodies
  /\ at' = "runner"
  /\ UNCHANGED <<payload, value, reason, codes>>

Normalise ==
  /\ at = "runner"
  /\ Normalises(body)
  /\ payload' = FromYelp(body)
  /\ at' = "producer"
  /\ UNCHANGED <<origin, body, value, reason, codes>>

\* A message to the ingest DLQ topic (_publish_dlq, _publish_raw).
DeadLetter(why, failures) ==
  /\ reason' = why
  /\ codes' = failures
  /\ at' = "ingest_dlq"

\* biz.get("id"), in the handler's log call.
HandlerReads(b) == b.object

Quarantine ==
  /\ at = "runner"
  /\ ~Normalises(body)
  /\ HandlerReads(body)
  /\ Encodable(body.fields)
  /\ DeadLetter("normalize_failed", {})
  /\ UNCHANGED <<origin, body, payload, value>>

\* The handler itself raises; the runner abandons the pair of city and term.
HandlerRaises ==
  /\ at = "runner"
  /\ ~Normalises(body)
  /\ ~(HandlerReads(body) /\ Encodable(body.fields))
  /\ at' = "abandoned"
  /\ UNCHANGED <<origin, body, payload, value, reason, codes>>

\* publish_business diverts the record.
Divert ==
  /\ at = "producer"
  /\ PythonFailures(payload) # {}
  /\ Encodable(payload)
  /\ DeadLetter("pre_publish_validation", PythonFailures(payload))
  /\ UNCHANGED <<origin, body, payload, value>>

Envelope(p) ==
  [form |-> "json", event_id |-> {"word"}, observed_at |-> TRUE, payload |-> p]

PublishBusiness ==
  /\ at = "producer"
  /\ PythonFailures(payload) = {}
  /\ Encodable(payload)
  /\ value' = Envelope(payload)
  /\ at' = "bronze"
  /\ UNCHANGED <<origin, body, payload, reason, codes>>

\* orjson.dumps raises, before the file sink and before produce().
EncodeRaises ==
  /\ at = "producer"
  /\ ~Encodable(payload)
  /\ at' = "abandoned"
  /\ UNCHANGED <<origin, body, payload, value, reason, codes>>

\* produce() raises: a KafkaException, or BufferError a second time.  Every call
\* of _publish_raw may end so; the runner goes on with the next pair.
ProduceRaises ==
  /\ \/ at = "nowhere" /\ origin' = "inject"
     \/ /\ at = "runner"
        /\ ~Normalises(body)
        /\ HandlerReads(body)
        /\ Encodable(body.fields)
        /\ UNCHANGED origin
     \/ at = "producer" /\ Encodable(payload) /\ UNCHANGED origin
  /\ at' = "dropped"
  /\ UNCHANGED <<body, payload, value, reason, codes>>

InjectBadForTest ==
  /\ at = "nowhere"
  /\ origin' = "inject"
  /\ DeadLetter("injected_for_test",
                PythonFailures([NullPayload EXCEPT
                                  !.business_id = {"empty"}, !.name = {"empty"},
                                  !.rating = {9900}, !.review_count = {-1}]))
  /\ UNCHANGED <<body, payload, value>>

DemoPayload ==
  [business_id |-> {"word"}, name |-> {"word"}, city |-> {"word"},
   rating |-> {990}, review_count |-> {-1}, latitude |-> {42},
   longitude |-> {-71}, categories |-> {"word"}]

InjectBadRaw ==
  /\ at = "nowhere"
  /\ origin' = "inject"
  /\ value' = Envelope(DemoPayload)
  /\ at' = "bronze"
  /\ UNCHANGED <<body, payload, reason, codes>>

\* Another writer on the raw topic.
WriteRaw ==
  /\ at = "nowhere"
  /\ origin' = "other"
  /\ value' \in RawValues
  /\ at' = "bronze"
  /\ UNCHANGED <<body, payload, reason, codes>>

\* upsert(): a row of Bronze, which holds the message verbatim.
SilverParseFailed ==
  /\ at = "bronze"
  /\ Parsed(value) = {}
  /\ reason' = "envelope_parse_failed"
  /\ codes' = {"unparseable_envelope"}
  /\ at' = "dlq"
  /\ UNCHANGED <<origin, body, payload, value>>

SilverInvalid ==
  /\ at = "bronze"
  /\ \E env \in Parsed(value) :
       /\ SparkFailures(env) # {}
       /\ codes' = SparkFailures(env)
  /\ reason' = "silver_validation"
  /\ at' = "dlq"
  /\ UNCHANGED <<origin, body, payload, value>>

\* The columns of Silver are those of the parsed envelope.
SilverValid ==
  /\ at = "bronze"
  /\ \E env \in Parsed(value) :
       /\ SparkFailures(env) = {}
       /\ value' = [value EXCEPT !.payload = env.payload]
  /\ at' = "silver"
  /\ UNCHANGED <<origin, body, payload, reason, codes>>

Next ==
  \/ Fetch \/ Normalise \/ Quarantine \/ HandlerRaises
  \/ Divert \/ PublishBusiness \/ EncodeRaises \/ ProduceRaises
  \/ InjectBadForTest \/ InjectBadRaw \/ WriteRaw
  \/ SilverParseFailed \/ SilverInvalid \/ SilverValid

Spec == Init /\ [][Next]_vars
-----------------------------------------------------------------------------
(***************************************************************************)
(* What the two layers promise.                                            *)
(***************************************************************************)

TypeOK ==
  /\ at \in {"nowhere", "runner", "producer", "bronze", "ingest_dlq",
             "silver", "dlq", "abandoned", "dropped"}
  /\ origin \in {"", "yelp", "inject", "other"}
  /\ body \in Bodies \cup {NoBody}
  /\ payload \in PayloadType
  /\ value \in RawType
  /\ codes \subseteq PythonCodes \cup SparkCodes \cup {"unparseable_envelope"}
  /\ at = "nowhere" <=> origin = ""
  /\ at \in {"runner", "producer", "abandoned"} => origin = "yelp"
  /\ at = "dropped" => origin \in {"yelp", "inject"}
  /\ at = "producer" => payload.business_id # {} /\ payload.name # {}
  /\ at \in {"bronze", "silver", "dlq"} => value.form # "none"
  /\ at = "ingest_dlq" <=> reason \in {"normalize_failed", "injected_for_test",
                                       "pre_publish_validation"}
  /\ at = "dlq" <=> reason \in {"silver_validation", "envelope_parse_failed"}
  /\ at \notin {"ingest_dlq", "dlq"} <=> reason = ""
  /\ codes = {} <=> reason \in {"", "normalize_failed"}

\* A rating, in hundredths, that misses a half step by a member of off.
NearStep(r, off) == \E k \in 2 .. 10 : r - 50 * k \in off

\* Where a rule and its mirror differ, on a payload without a number that Spark
\* cannot hold: only Python strips white space other than spaces; a rating of
\* five hundredths under or over a half step is taken down by its binary value
\* and up by its decimal one; only Spark looks at a coordinate without the
\* other; only Python looks at each category.
Drift(c, p) ==
  \/ c = "missing_business_id" /\ p.business_id = {"tabs"}
  \/ c = "missing_name" /\ p.name = {"tabs"}
  \/ c = "missing_city" /\ p.city = {"tabs"}
  \/ /\ c = "rating_out_of_range"
     /\ \E r \in p.rating \cap RoundsDown : NearStep(r, {-5, 5})
  \/ /\ c = "latitude_out_of_range"
     /\ p.longitude = {}
     /\ \E x \in p.latitude : x \notin -90 .. 90
  \/ /\ c = "longitude_out_of_range"
     /\ p.latitude = {}
     /\ \E x \in p.longitude : x \notin -180 .. 180
  \/ c = "bad_category_value" /\ \E a \in p.categories : PythonBlank({a})

\* "When you change a rule there, mirror it" (02_silver_transform.py:30-31):
\* over every rule of Python, and whoever wrote the message, Spark finds the
\* same failure, except in the cases of Drift; in those it never does.  (What
\* becomes of a payload with a number that does not fit is in SilverIsExact.)
RulesAgree ==
  at = "bronze" /\ value.form = "json" /\ FitsInteger(value.payload) =>
    \A env \in Parsed(value), c \in PythonCodes :
      (c \in PythonFailures(value.payload) <=> c \in SparkFailures(env))
        <=> ~Drift(c, value.payload)

\* "Because the producer applies the same rules before publishing, the Silver
\* DLQ normally fills only on genuine cross-layer drift or from a record
\* injected" (ARCHITECTURE.md:235-237): what publish_business accepted is
\* quarantined by Silver for two causes only, a rating just over a half step
\* that Python takes down and a number that does not fit.
PublishedReachSilver ==
  at = "dlq" /\ origin = "yelp" =>
    \/ \E r \in value.payload.rating \cap RoundsDown : NearStep(r, {5})
    \/ ~FitsInteger(value.payload)

\* An observation in the terms of ARCHITECTURE.md:237-241, where a rating may
\* miss its half step by off and a text is empty if it is one of blanks.  The
\* document has off = {0}, and no upper end for a review count.
Observation(p, blanks, off) ==
  /\ \A s \in {p.business_id, p.name, p.city} : s # {} /\ s \cap blanks = {}
  /\ p.rating # {} /\ \A r \in p.rating : NearStep(r, off)
  /\ p.review_count # {} /\ \A n \in p.review_count : n \in 0 .. IntegerMax
  /\ p.latitude # {} /\ \A x \in p.latitude : x \in -90 .. 90
  /\ p.longitude # {} /\ \A x \in p.longitude : x \in -180 .. 180
  /\ p.categories # {}

\* Which messages Silver takes, whoever wrote them and however they went
\* through the parser: these and no others.  It is not the document's list:
\* ratings from 0.05 under a half step to 0.04 over one are taken (0.95, 1.04,
\* 5.04), white space that is no space is a text, and a category may be blank.
\* "The MERGE keys and the Gold time bucket must never be null" holds.
SilverIsExact ==
  at \in {"silver", "dlq"} =>
    (at = "silver" <=>
       /\ value.form = "json"
       /\ value.event_id # {} /\ value.event_id \cap {"spaces", "empty"} = {}
       /\ value.observed_at
       /\ Observation(value.payload, {"spaces", "empty"}, -5 .. 4))

\* A search result that is all it should be, or whose rating misses a half step
\* by up to four hundredths (and whose categories may include some without an
\* alias), is refused by neither layer and never raises before produce().
GoodRecordsLand ==
  /\ origin = "yelp"
  /\ body.object /\ body.coercible
  /\ Observation(body.fields, {"spaces", "tabs", "empty"}, -4 .. 4)
  /\ "word" \in body.fields.categories
  /\ body.fields.categories \subseteq {"word", "empty"}
  => at \notin {"ingest_dlq", "dlq", "abandoned"}

\* "re-applies an equivalent set of rules" (validators.py:8-9), for what the
\* producer publishes.
RulesMirrored ==
  at = "bronze" /\ origin = "yelp" =>
    \A env \in Parsed(value) :
      PythonFailures(value.payload) = {} <=> SparkFailures(env) = {}

\* "A row whose envelope will not parse is quarantined with reason
\* envelope_parse_failed" (ARCHITECTURE.md:241-242).
ParseFailuresLabelled ==
  at = "dlq" /\ value.form = "malformed" => reason = "envelope_parse_failed"
=============================================================================
