---------------------------- MODULE RunnerProofs ----------------------------
(***************************************************************************)
(* The theorems of IngestRunner: for any budget, number of attempts, page  *)
(* size, limits, cities and terms, whatever the API answers and whenever   *)
(* the stop request comes.                                                 *)
(***************************************************************************)
EXTENDS IngestRunner, FiniteSetTheorems, TLAPS

\* What TypeOK says of the statistics, in one piece.
Stats ==
  [cities_attempted : Nat, pages_fetched : Nat, seen : Nat,
   accepted : Nat, rejected : Nat, errors : Nat]
StatsType == stats \in Stats

\* A generator that goes on is at a page it may ask for; a page in hand has
\* businesses on it.
PageInHand ==
  /\ search \in {"get", "yield"} => PageAllowed(page)
  /\ search = "yield" => pageLen > 0

\* The loop variables, and how many cities the sweep has entered.
LoopInv ==
  /\ pc \in {"terms", "search"} => city <= Cities /\ stats.cities_attempted = city
  /\ pc = "search" => term <= Terms
  /\ pc \in {"cities", "report"} => stats.cities_attempted = city - 1
  /\ pc = "report" => stop \/ city = Cities + 1

\* Where the loops are, as a pair: every pair before it was searched, and
\* during a search its own too.
Passed(c, t) ==
  \/ c < city
  \/ c = city /\ pc \in {"terms", "search"} /\ t < term
  \/ c = city /\ pc = "search" /\ t = term

SweptInv ==
  ~stop /\ pc \in {"cities", "terms", "search", "report"} =>
    \A c \in 1 .. Cities, t \in 1 .. Terms : Passed(c, t) => <<c, t>> \in swept

\* A page is counted with its first business: until then it is the one page
\* pages_fetched lacks, and the calls tell it from the last business's page.
PagesInv ==
  /\ lastPage <= callsMade - 1
  /\ pc \in {"cities", "terms", "search", "report"} =>
       IF search = "yield" /\ buffer = pageLen
       THEN pages = stats.pages_fetched + 1 /\ lastPage < callsMade - 1
       ELSE pages = stats.pages_fetched
  /\ search = "yield" /\ buffer < pageLen => lastPage = callsMade - 1

\* How many calls a search has made at most when it is where it is.
CallsSoFar ==
  IF search = "get" THEN page * Attempts + (attempt - 1)
  ELSE IF search = "yield" THEN (page + 1) * Attempts
  ELSE PagesPerSearch * Attempts

\* The calls since the stop request are the calls of the search it met.
StopInv == stop => callsMade - stopCalls <= CallsSoFar

RunnerInv ==
  /\ TypeOK
  /\ StatsType
  /\ PageInHand
  /\ LoopInv
  /\ SweptInv
  /\ PagesInv
  /\ StopInv
-----------------------------------------------------------------------------
\* The three outcomes a business is counted under.
Outcome == {"accepted", "rejected", "errors"}

\* A step of the loops outside a search.
LoopStep ==
  BeginSweep \/ Exit \/ NextCity \/ CitiesDone \/ TermsDone \/ Report \/ WakeUp

\* A business is seen; the search goes on, or the pair is over.
Counted ==
  \E k \in Outcome : See(k) /\ (UNCHANGED sameSearch \/ PairDone)

LEMMA NextCases ==
  ASSUME [Next]_vars
  PROVE  \/ RequestStop \/ LoopStep \/ NextTerm \/ Fetch \/ Counted
         \/ SearchDone \/ SearchRaised \/ UNCHANGED vars
BY DEF Next, LoopStep, Counted, Outcome, Accept, Reject, PublishRaises, Exited

LEMMA RunnerInit == Init => RunnerInv /\ StatsAddUp /\ EndsForAReason
<1> SUFFICES ASSUME Init
             PROVE  RunnerInv /\ StatsAddUp /\ EndsForAReason
  OBVIOUS
<1> USE DEF Init, ClientInit
<1>1. StatsType
  BY DEF StatsType, Stats, NewStats
<1>2. ClientTypeOK
  BY ClientAssumption DEF ClientTypeOK
<1>3. TypeOK
  <2>1. \A k \in DOMAIN stats : stats[k] \in Nat
    BY DEF NewStats
  <2>2. 0 <= Cities /\ 1 \in 1 .. Cities + 1 /\ 1 \in 1 .. Terms + 1
        /\ -1 \in -1 .. Budget /\ 0 \in 0 .. 0
    BY ClientAssumption, RunnerAssumption
  <2>3. stats.cities_attempted = 0
    BY DEF NewStats
  <2> QED
    BY <1>2, <2>1, <2>2, <2>3 DEF TypeOK
<1>4. PageInHand /\ LoopInv /\ SweptInv /\ PagesInv /\ StopInv
  BY DEF PageInHand, LoopInv, SweptInv, PagesInv, StopInv
<1>5. StatsAddUp /\ EndsForAReason
  BY DEF StatsAddUp, EndsForAReason, NewStats
<1> QED
  BY <1>1, <1>3, <1>4, <1>5 DEF RunnerInv

\* What counting a business does to the statistics.
LEMMA SeeEffect ==
  ASSUME StatsType, NEW k \in Outcome, See(k)
  PROVE  /\ StatsType'
         /\ stats'.cities_attempted = stats.cities_attempted
         /\ stats'.pages_fetched = PagesSince(stats)
         /\ stats'.seen = stats.seen + 1
         /\ stats'[k] = stats[k] + 1
         /\ \A j \in Outcome \ {k} : stats'[j] = stats[j]
<1> DEFINE s1 == [stats EXCEPT !.pages_fetched = PagesSince(stats)]
           s2 == [s1 EXCEPT !.seen = @ + 1]
           s3 == [s2 EXCEPT ![k] = @ + 1]
<1>1. stats \in Stats /\ stats' = s3
  BY DEF See, StatsType, Stats, Outcome
<1>2. PagesSince(stats) \in Nat
  BY DEF StatsType, Stats, PagesSince
<1>3. /\ s1 \in Stats
      /\ s1.cities_attempted = stats.cities_attempted
      /\ s1.pages_fetched = PagesSince(stats)
      /\ s1.seen = stats.seen
      /\ \A j \in Outcome : s1[j] = stats[j]
  BY <1>1, <1>2 DEF Stats, Outcome
<1> HIDE DEF s1
<1>4. /\ s2 \in Stats
      /\ s2.cities_attempted = stats.cities_attempted
      /\ s2.pages_fetched = PagesSince(stats)
      /\ s2.seen = stats.seen + 1
      /\ \A j \in Outcome : s2[j] = stats[j]
  BY <1>3 DEF Stats, Outcome
<1> HIDE DEF s2
<1>5. /\ s3 \in Stats
      /\ s3.cities_attempted = stats.cities_attempted
      /\ s3.pages_fetched = PagesSince(stats)
      /\ s3.seen = stats.seen + 1
      /\ s3[k] = stats[k] + 1
      /\ \A j \in Outcome \ {k} : s3[j] = stats[j]
  BY <1>4 DEF Stats, Outcome
<1> QED
  BY <1>1, <1>5 DEF StatsType

\* The steps that change the statistics outside a business.
LEMMA StatsStep ==
  ASSUME StatsType, [Next]_vars
  PROVE  StatsType'
<1>1. CASE Counted
  BY <1>1, SeeEffect DEF Counted
<1>2. CASE BeginSweep
  BY <1>2 DEF BeginSweep, NewStats, StatsType, Stats
<1>3. CASE NextCity
  BY <1>3 DEF NextCity, StatsType, Stats
<1>4. CASE SearchRaised
  BY <1>4 DEF SearchRaised, StatsType, Stats
<1>5. CASE stats' = stats
  BY <1>5 DEF StatsType
<1>6. ~(Counted \/ BeginSweep \/ NextCity \/ SearchRaised) => stats' = stats
  BY NextCases
  DEF RequestStop, LoopStep, Exit, CitiesDone, TermsDone, Report, WakeUp, Goto,
      NextTerm, Fetch, SearchDone, vars, runnerVars, results
<1> QED
  BY <1>1, <1>2, <1>3, <1>4, <1>5, <1>6

\* The client's variables keep their types.
LEMMA ClientStep ==
  ASSUME ClientTypeOK, PageInHand, [Next]_vars
  PROVE  ClientTypeOK'
<1>1. CASE UNCHANGED clientVars
  BY <1>1 DEF clientVars, ClientTypeOK
<1>2. CASE NextTerm
  BY <1>2, ClientAssumption DEF NextTerm, IterSearch, AtPage, ClientTypeOK
<1>3. CASE Fetch
  <2>1. CASE BudgetExceeded
    BY <2>1 DEF BudgetExceeded, ClientTypeOK
  <2>2. ASSUME NEW k \in 0 .. PageSize, GetPage(k)
        PROVE  ClientTypeOK'
    BY <2>2, ClientAssumption DEF GetPage, Call, BudgetLeft, ClientTypeOK
  <2>3. CASE RetryableError
    BY <2>3, ClientAssumption DEF RetryableError, Call, BudgetLeft, ClientTypeOK
  <2>4. CASE FatalError
    BY <2>4, ClientAssumption DEF FatalError, Call, BudgetLeft, ClientTypeOK
  <2>5. CASE PageConsumed
    BY <2>5, ClientAssumption
    DEF PageConsumed, AtPage, PageInHand, PageAllowed, ClientTypeOK
  <2> QED
    BY <1>3, <2>1, <2>2, <2>3, <2>4, <2>5 DEF Fetch
<1>4. CASE Counted
  BY <1>4 DEF Counted, See, Yield, sameSearch, PairDone, ClientTypeOK
<1>5. CASE SearchDone \/ SearchRaised
  BY <1>5 DEF SearchDone, SearchRaised, PairDone, ClientTypeOK
<1>6. LoopStep \/ RequestStop \/ UNCHANGED vars => UNCHANGED clientVars
  BY DEF LoopStep, BeginSweep, Exit, NextCity, CitiesDone, TermsDone, Report, WakeUp,
         Goto, RequestStop, vars
<1> QED
  BY <1>1, <1>2, <1>3, <1>4, <1>5, <1>6, NextCases

\* What each kind of step leaves alone.
LEMMA Frame ==
  ASSUME [Next]_vars
  PROVE  /\ LoopStep => UNCHANGED <<clientVars, flags, lastPage>>
         /\ NextTerm => UNCHANGED <<callsMade, flags, city, term, stats, pages>>
         /\ Fetch => UNCHANGED <<flags, pc, city, term, lastPage, stats, swept>>
         /\ Counted => UNCHANGED <<callsMade, page, attempt, pageLen, flags, city,
                                   pages, swept>>
         /\ SearchDone \/ SearchRaised =>
              UNCHANGED <<callsMade, page, attempt, pageLen, buffer, flags, city,
                          lastPage, pages, swept>>
<1>1. LoopStep => UNCHANGED <<clientVars, flags, lastPage>>
  BY DEF LoopStep, BeginSweep, Exit, NextCity, CitiesDone, TermsDone, Report, WakeUp, Goto
<1>2. NextTerm => UNCHANGED <<callsMade, flags, city, term, stats, pages>>
  BY DEF NextTerm, IterSearch, loop
<1>3. Fetch => UNCHANGED <<flags, pc, city, term, lastPage, stats, swept>>
  BY DEF Fetch, loop
<1>4. Counted => UNCHANGED <<callsMade, page, attempt, pageLen, flags, city, pages, swept>>
  BY DEF Counted, sameSearch, loop, PairDone
<1>5. SearchDone \/ SearchRaised =>
        UNCHANGED <<callsMade, page, attempt, pageLen, buffer, flags, city,
                    lastPage, pages, swept>>
  BY DEF SearchDone, SearchRaised, PairDone
<1> QED
  BY <1>1, <1>2, <1>3, <1>4, <1>5

\* The runner's variables keep their types.
LEMMA TypeStep ==
  ASSUME TypeOK, StatsType, PageInHand, LoopInv, [Next]_vars
  PROVE  TypeOK'
<1>1. ClientTypeOK' /\ StatsType'
  BY ClientStep, StatsStep DEF TypeOK
<1>2. DOMAIN stats' = DOMAIN NewStats /\ \A k \in DOMAIN stats' : stats'[k] \in Nat
  BY <1>1 DEF StatsType, Stats, NewStats
<1>3. callsMade \in Nat /\ callsMade' \in Nat /\ callsMade <= callsMade'
  <2>1. CASE Fetch
    BY <2>1 DEF Fetch, BudgetExceeded, GetPage, Call, RetryableError, FatalError,
                PageConsumed, TypeOK, ClientTypeOK
  <2>2. CASE ~Fetch
    <3>1. callsMade' = callsMade
      BY <2>2, Frame, NextCases DEF RequestStop, clientVars, vars
    <3> QED
      BY <3>1 DEF TypeOK, ClientTypeOK
  <2> QED
    BY <2>1, <2>2
<1>4. once' \in BOOLEAN /\ stop' \in BOOLEAN /\ stopCalls' \in 0 .. callsMade'
  <2>1. CASE RequestStop
    BY <2>1 DEF RequestStop, TypeOK, ClientTypeOK, clientVars
  <2>2. CASE ~RequestStop
    <3>1. UNCHANGED flags
      BY <2>2, Frame, NextCases DEF vars, runnerVars
    <3> QED
      BY <1>3, <3>1 DEF flags, TypeOK
  <2> QED
    BY <2>1, <2>2
<1>5. /\ pc' \in {"begin", "cities", "terms", "search", "report", "sleep", "exit"}
      /\ city' \in 1 .. Cities + 1 /\ term' \in 1 .. Terms + 1
      /\ lastPage' \in -1 .. Budget
      /\ pages' \in Nat
      /\ pc' = "search" <=> search' # "none"
      /\ stats'.cities_attempted <= Cities
      /\ swept' \subseteq (1 .. Cities) \X (1 .. Terms)
  <2>1. CASE RequestStop
    BY <2>1 DEF RequestStop, TypeOK, clientVars, loop, results
  <2>2. CASE LoopStep
    <3>1. lastPage' = lastPage /\ search' = search
      BY <2>2, Frame DEF clientVars
    <3>2. CASE BeginSweep
      BY <3>1, <3>2, RunnerAssumption DEF BeginSweep, NewStats, TypeOK
    <3>3. CASE NextCity
      <4>1. stats'.cities_attempted = stats.cities_attempted + 1
        BY <3>3 DEF NextCity, StatsType, Stats
      <4>2. stats.cities_attempted = city - 1
        BY <3>3 DEF NextCity, LoopInv
      <4> QED
        BY <3>1, <3>3, <4>1, <4>2, RunnerAssumption DEF NextCity, TypeOK
    <3>4. CASE TermsDone
      <4>1. city <= Cities
        BY <3>4 DEF TermsDone, LoopInv
      <4> QED
        BY <3>1, <3>4, <4>1, RunnerAssumption DEF TermsDone, results, TypeOK
    <3>5. CASE Exit \/ CitiesDone \/ Report \/ WakeUp
      BY <3>1, <3>5
      DEF Exit, CitiesDone, Report, WakeUp, Goto, loop, results, TypeOK
    <3> QED
      BY <2>2, <3>2, <3>3, <3>4, <3>5 DEF LoopStep
  <2>3. CASE NextTerm
    <3>1. <<city, term>> \in (1 .. Cities) \X (1 .. Terms)
      BY <2>3, RunnerAssumption DEF NextTerm, TypeOK, LoopInv
    <3>2. search' # "none" /\ -1 \in -1 .. Budget
      BY <2>3, ClientAssumption DEF NextTerm, IterSearch, AtPage
    <3> QED
      BY <2>3, <3>1, <3>2, Frame DEF NextTerm, TypeOK
  <2>4. CASE Fetch
    <3>1. pages' \in Nat
      BY <2>4 DEF Fetch, TypeOK
    <3>2. search # "none" /\ search' # "none"
      BY <2>4 DEF Fetch, BudgetExceeded, GetPage, Call, RetryableError, FatalError,
                  PageConsumed, AtPage
    <3> QED
      BY <2>4, <3>1, <3>2, Frame DEF TypeOK
  <2>5. CASE Counted
    <3>1. PICK k \in Outcome : See(k) /\ (UNCHANGED sameSearch \/ PairDone)
      BY <2>5 DEF Counted
    <3>2. stats'.cities_attempted = stats.cities_attempted
      BY <3>1, SeeEffect
    <3>3. lastPage' \in -1 .. Budget
      BY <3>1, ClientAssumption DEF See, TypeOK, ClientTypeOK
    <3>4. search = "yield" /\ pc = "search"
      BY <3>1 DEF See, Yield, TypeOK
    <3>5. CASE UNCHANGED sameSearch
      BY <3>2, <3>3, <3>5 DEF sameSearch, loop, TypeOK
    <3>6. CASE PairDone
      BY <3>2, <3>3, <3>4, <3>6, RunnerAssumption DEF PairDone, LoopInv, TypeOK
    <3> QED
      BY <3>1, <3>5, <3>6
  <2>6. CASE SearchDone \/ SearchRaised
    <3>1. pc = "search" /\ PairDone /\ lastPage' = lastPage
      BY <2>6 DEF SearchDone, SearchRaised, TypeOK
    <3>2. stats'.cities_attempted = stats.cities_attempted
      BY <2>6 DEF SearchDone, SearchRaised, StatsType, Stats
    <3> QED
      BY <3>1, <3>2, RunnerAssumption DEF PairDone, LoopInv, TypeOK
  <2>7. CASE UNCHANGED vars
    BY <2>7 DEF vars, clientVars, runnerVars, loop, results, TypeOK
  <2> QED
    BY <2>1, <2>2, <2>3, <2>4, <2>5, <2>6, <2>7, NextCases
<1> QED
  BY <1>1, <1>2, <1>3, <1>4, <1>5 DEF TypeOK

\* A search that goes on is at a page it may ask for.
LEMMA PageStep ==
  ASSUME ClientTypeOK, PageInHand, [Next]_vars
  PROVE  PageInHand'
<1>1. CASE UNCHANGED <<search, page, pageLen>>
  BY <1>1 DEF PageInHand, PageAllowed
<1>2. CASE NextTerm
  BY <1>2 DEF NextTerm, IterSearch, AtPage, PageInHand, PageAllowed
<1>3. CASE Fetch
  <2>1. ASSUME NEW k \in 0 .. PageSize, GetPage(k)
        PROVE  PageInHand'
    BY <2>1, ClientAssumption DEF GetPage, Call, PageInHand, PageAllowed
  <2>2. CASE BudgetExceeded \/ RetryableError \/ FatalError
    BY <2>2 DEF BudgetExceeded, RetryableError, FatalError, Call, PageInHand, PageAllowed
  <2>3. CASE PageConsumed
    BY <2>3 DEF PageConsumed, AtPage, PageInHand, PageAllowed
  <2> QED
    BY <1>3, <2>1, <2>2, <2>3 DEF Fetch
<1>4. CASE Counted \/ SearchDone \/ SearchRaised
  <2>1. UNCHANGED <<page, pageLen>> /\ (search' = search \/ search' = "none")
    BY <1>4, Frame DEF Counted, sameSearch, PairDone, SearchDone, SearchRaised
  <2> QED
    BY <2>1 DEF PageInHand, PageAllowed
<1>5. LoopStep \/ RequestStop \/ UNCHANGED vars => UNCHANGED <<search, page, pageLen>>
  BY Frame DEF RequestStop, clientVars, vars
<1> QED
  BY <1>1, <1>2, <1>3, <1>4, <1>5, NextCases

\* The loops go through cities and terms in order and enter each city once.
LEMMA LoopStepInv ==
  ASSUME TypeOK, StatsType, LoopInv, [Next]_vars
  PROVE  LoopInv'
<1>0. city \in Nat /\ term \in Nat /\ stats.cities_attempted \in Nat
  BY RunnerAssumption DEF TypeOK, StatsType, Stats
<1>1. CASE UNCHANGED <<pc, city, term, stats>> /\ (stop => stop')
  BY <1>1 DEF LoopInv
<1>2. CASE BeginSweep
  BY <1>2 DEF BeginSweep, NewStats, LoopInv
<1>3. CASE NextCity
  <2>1. stats'.cities_attempted = stats.cities_attempted + 1
    BY <1>3 DEF NextCity, StatsType, Stats
  <2> QED
    BY <1>0, <1>3, <2>1 DEF NextCity, LoopInv
<1>4. CASE CitiesDone \/ Exit \/ Report \/ WakeUp
  BY <1>0, <1>4, RunnerAssumption
  DEF CitiesDone, Exit, Report, WakeUp, Goto, flags, loop, results, LoopInv, TypeOK
<1>5. CASE TermsDone
  BY <1>0, <1>5 DEF TermsDone, results, LoopInv
<1>6. CASE NextTerm
  BY <1>6 DEF NextTerm, loop, LoopInv
<1>7. CASE Counted
  <2>1. PICK k \in Outcome : See(k) /\ (UNCHANGED sameSearch \/ PairDone)
    BY <1>7 DEF Counted
  <2>2. stats'.cities_attempted = stats.cities_attempted
    BY <2>1, SeeEffect
  <2>3. pc = "search" /\ UNCHANGED <<city, flags>>
    BY <1>7, <2>1, Frame DEF See, Yield, TypeOK
  <2> QED
    BY <2>1, <2>2, <2>3 DEF sameSearch, loop, PairDone, LoopInv
<1>8. CASE SearchDone \/ SearchRaised
  <2>1. pc = "search" /\ pc' = "terms" /\ city' = city
    BY <1>8 DEF SearchDone, SearchRaised, PairDone, TypeOK
  <2>2. stats'.cities_attempted = stats.cities_attempted
    BY <1>8 DEF SearchDone, SearchRaised, StatsType, Stats
  <2> QED
    BY <2>1, <2>2 DEF LoopInv
<1>9. RequestStop \/ Fetch \/ UNCHANGED vars =>
        UNCHANGED <<pc, city, term, stats>> /\ (stop => stop')
  BY Frame DEF RequestStop, loop, results, flags, vars, runnerVars
<1> QED
  BY <1>1, <1>2, <1>3, <1>4, <1>5, <1>6, <1>7, <1>8, <1>9, NextCases DEF LoopStep

\* Until somebody asks it to stop, a sweep leaves no pair behind.
LEMMA SweptStep ==
  ASSUME TypeOK, LoopInv, SweptInv, [Next]_vars
  PROVE  SweptInv'
<1>0. city \in Nat /\ term \in Nat
  BY RunnerAssumption DEF TypeOK
<1>1. CASE stop'
  BY <1>1 DEF SweptInv
<1>2. CASE BeginSweep
  BY <1>2 DEF BeginSweep, SweptInv, Passed
<1>3. CASE /\ ~stop'
           /\ Exit \/ NextCity \/ CitiesDone \/ TermsDone \/ Report \/ WakeUp
  <2>1. ~stop /\ swept' = swept
    BY <1>3
    DEF Exit, NextCity, CitiesDone, TermsDone, Report, WakeUp, Goto, flags, results
  <2>2. CASE NextCity
    BY <1>0, <2>1, <2>2 DEF NextCity, SweptInv, Passed
  <2>3. CASE TermsDone
    <3>1. ~stop' /\ pc = "terms" /\ pc' = "cities" /\ city' = city + 1 /\ term > Terms
      BY <1>3, <2>1, <2>3 DEF TermsDone
    <3>2. \A c \in 1 .. Cities, t \in 1 .. Terms :
            c < city' => c < city \/ (c = city /\ t < term)
      BY <1>0, <3>1, RunnerAssumption
    <3> QED
      BY <2>1, <3>1, <3>2 DEF SweptInv, Passed
  <2>4. CASE CitiesDone \/ Exit \/ Report \/ WakeUp
    BY <2>1, <2>4 DEF CitiesDone, Exit, Report, WakeUp, Goto, loop, SweptInv, Passed
  <2> QED
    BY <1>3, <2>2, <2>3, <2>4
<1>4. CASE ~stop' /\ NextTerm
  BY <1>0, <1>4 DEF NextTerm, loop, flags, SweptInv, Passed
<1>5. CASE ~stop' /\ (Counted \/ SearchDone \/ SearchRaised)
  <2>1. ~stop /\ swept' = swept /\ city' = city
    BY <1>5, Frame DEF flags
  <2>2. pc = "search"
    BY <1>5 DEF Counted, See, Yield, SearchDone, SearchRaised, TypeOK
  <2>3. \/ pc' = pc /\ term' = term
        \/ pc' = "terms" /\ term' = term + 1
    BY <1>5 DEF Counted, sameSearch, loop, PairDone, SearchDone, SearchRaised
  <2> QED
    BY <1>0, <2>1, <2>2, <2>3 DEF SweptInv, Passed
<1>6. CASE ~stop' /\ (Fetch \/ UNCHANGED vars)
  <2>1. UNCHANGED <<stop, pc, city, term, swept>>
    BY <1>6, Frame DEF vars, runnerVars, flags, loop, results
  <2> QED
    BY <2>1 DEF SweptInv, Passed
<1>7. RequestStop => stop'
  BY DEF RequestStop
<1> QED
  BY <1>1, <1>2, <1>3, <1>4, <1>5, <1>6, <1>7, NextCases DEF LoopStep

\* The statistics of a sweep keep adding up.
LEMMA StatsAddUpStep ==
  ASSUME StatsType, StatsAddUp, [Next]_vars
  PROVE  StatsAddUp'
<1>1. CASE Counted
  <2>1. PICK k \in Outcome : See(k)
    BY <1>1 DEF Counted
  <2>2. /\ stats'.seen = stats.seen + 1
        /\ stats'[k] = stats[k] + 1
        /\ \A j \in Outcome \ {k} : stats'[j] = stats[j]
    BY <2>1, SeeEffect
  <2>3. /\ stats.seen \in Nat /\ stats.accepted \in Nat
        /\ stats.rejected \in Nat /\ stats.errors \in Nat
    BY DEF StatsType, Stats
  <2> QED
    BY <2>2, <2>3 DEF StatsAddUp, Outcome
<1>2. CASE BeginSweep
  BY <1>2 DEF BeginSweep, NewStats, StatsAddUp
<1>3. CASE NextCity
  BY <1>3 DEF NextCity, StatsType, Stats, StatsAddUp
<1>4. CASE SearchRaised
  BY <1>4 DEF SearchRaised, StatsType, Stats, StatsAddUp
<1>5. CASE stats' = stats
  BY <1>5 DEF StatsAddUp
<1>6. ~(Counted \/ BeginSweep \/ NextCity \/ SearchRaised) => stats' = stats
  BY NextCases
  DEF RequestStop, LoopStep, Exit, CitiesDone, TermsDone, Report, WakeUp, Goto,
      NextTerm, Fetch, SearchDone, vars, runnerVars, results
<1> QED
  BY <1>1, <1>2, <1>3, <1>4, <1>5, <1>6

\* A search that came to its end keeps the reason until the runner sees it.
LEMMA EndsStep ==
  ASSUME ClientTypeOK, EndsForAReason, [Next]_vars
  PROVE  EndsForAReason'
<1>1. CASE search' # "done"
  BY <1>1 DEF EndsForAReason
<1>2. CASE UNCHANGED <<search, page, pageLen, callsMade>>
  BY <1>2 DEF EndsForAReason, PageAllowed
<1>3. CASE NextTerm
  BY <1>3 DEF NextTerm, IterSearch, AtPage, EndsForAReason, PageAllowed
<1>4. CASE Fetch
  <2>1. ASSUME NEW k \in 0 .. PageSize, GetPage(k)
        PROVE  EndsForAReason'
    BY <2>1, ClientAssumption DEF GetPage, EndsForAReason
  <2>2. CASE BudgetExceeded
    BY <2>2, ClientAssumption DEF BudgetExceeded, BudgetLeft, ClientTypeOK, EndsForAReason
  <2>3. CASE RetryableError \/ FatalError
    BY <2>3 DEF RetryableError, FatalError, Call, EndsForAReason
  <2>4. CASE PageConsumed
    BY <2>4 DEF PageConsumed, AtPage, EndsForAReason, PageAllowed
  <2> QED
    BY <1>4, <2>1, <2>2, <2>3, <2>4 DEF Fetch
<1>5. CASE Counted
  BY <1>1, <1>2, <1>5 DEF Counted, sameSearch, PairDone
<1>6. SearchDone \/ SearchRaised => search' # "done"
  BY DEF SearchDone, SearchRaised, PairDone
<1>7. LoopStep \/ RequestStop \/ UNCHANGED vars =>
        UNCHANGED <<search, page, pageLen, callsMade>>
  BY Frame DEF RequestStop, clientVars, vars
<1> QED
  BY <1>1, <1>2, <1>3, <1>4, <1>5, <1>6, <1>7, NextCases

\* A page goes uncounted from the call that brought it to its first business.
LEMMA PagesStep ==
  ASSUME TypeOK, StatsType, PageInHand, PagesInv, [Next]_vars
  PROVE  PagesInv'
<1>0. /\ callsMade \in Nat /\ lastPage \in Int /\ pages \in Nat
      /\ stats.pages_fetched \in Nat /\ buffer \in Nat /\ pageLen \in Nat
  BY ClientAssumption DEF TypeOK, ClientTypeOK, StatsType, Stats
<1>1. CASE LoopStep
  <2>1. UNCHANGED <<callsMade, search, buffer, pageLen, lastPage>>
    BY <1>1, Frame DEF clientVars
  <2>2. CASE BeginSweep
    BY <2>1, <2>2 DEF BeginSweep, NewStats, PagesInv, TypeOK
  <2>3. CASE NextCity
    <3>1. stats'.pages_fetched = stats.pages_fetched
      BY <2>3 DEF NextCity, StatsType, Stats
    <3> QED
      BY <2>1, <2>3, <3>1 DEF NextCity, PagesInv
  <2>4. CASE Exit \/ CitiesDone \/ TermsDone \/ Report \/ WakeUp
    BY <2>1, <2>4
    DEF Exit, CitiesDone, TermsDone, Report, WakeUp, Goto, results, PagesInv
  <2> QED
    BY <1>1, <2>2, <2>3, <2>4 DEF LoopStep
<1>2. CASE NextTerm
  BY <1>0, <1>2 DEF NextTerm, IterSearch, AtPage, PagesInv, TypeOK
<1>3. CASE Fetch
  <2>1. /\ UNCHANGED <<pc, lastPage, stats>> /\ pc = "search"
    BY <1>3, Frame
    DEF Fetch, BudgetExceeded, GetPage, Call, RetryableError, FatalError, PageConsumed,
        TypeOK
  <2>2. ASSUME NEW k \in 0 .. PageSize, GetPage(k),
               pages' = IF k = 0 THEN pages ELSE pages + 1
        PROVE  PagesInv'
    BY <1>0, <2>1, <2>2 DEF GetPage, Call, PagesInv
  <2>3. CASE /\ BudgetExceeded \/ RetryableError \/ FatalError
             /\ pages' = pages
    BY <1>0, <2>1, <2>3 DEF BudgetExceeded, RetryableError, FatalError, Call, PagesInv
  <2>4. CASE PageConsumed /\ pages' = pages
    BY <1>0, <2>1, <2>4 DEF PageConsumed, AtPage, PageInHand, PagesInv
  <2> QED
    BY <1>3, <2>2, <2>3, <2>4 DEF Fetch
<1>4. CASE Counted
  <2>1. PICK k \in Outcome : See(k) /\ (UNCHANGED sameSearch \/ PairDone)
    BY <1>4 DEF Counted
  <2>2. stats'.pages_fetched = PagesSince(stats)
    BY <2>1, SeeEffect
  <2>3. /\ search = "yield" /\ pc = "search" /\ buffer > 0 /\ buffer <= pageLen
        /\ buffer' = buffer - 1 /\ lastPage' = callsMade - 1
        /\ UNCHANGED <<callsMade, pageLen, pages>>
    BY <1>4, <2>1, Frame DEF See, Yield, TypeOK, ClientTypeOK
  <2>4. search' = "yield" \/ search' = "none"
    BY <2>1, <2>3 DEF sameSearch, PairDone
  <2>5. stats'.pages_fetched = pages
    BY <1>0, <2>2, <2>3 DEF PagesSince, PagesInv
  <2> QED
    BY <1>0, <2>3, <2>4, <2>5 DEF PagesInv
<1>5. CASE SearchDone \/ SearchRaised
  <2>1. stats'.pages_fetched = stats.pages_fetched
    BY <1>5 DEF SearchDone, SearchRaised, StatsType, Stats
  <2>2. /\ UNCHANGED <<callsMade, lastPage, pages>>
        /\ search # "yield" /\ search' = "none" /\ pc = "search"
    BY <1>5, Frame DEF SearchDone, SearchRaised, PairDone, TypeOK
  <2> QED
    BY <2>1, <2>2 DEF PagesInv
<1>6. CASE RequestStop \/ UNCHANGED vars
  <2>1. UNCHANGED <<callsMade, search, buffer, pageLen, lastPage, pc, pages, stats>>
    BY <1>6 DEF RequestStop, clientVars, results, vars, runnerVars
  <2> QED
    BY <2>1 DEF PagesInv
<1> QED
  BY <1>1, <1>2, <1>3, <1>4, <1>5, <1>6, NextCases

\* Multiplication keeps order.
LEMMA Scale ==
  ASSUME NEW m \in Nat, NEW n \in Nat, m <= n, NEW k \in Nat
  PROVE  m * k \in Nat /\ n * k \in Nat /\ m * k <= n * k
OBVIOUS

\* n + 1 times k is n times k and k.
LEMMA OneMore ==
  ASSUME NEW n \in Nat, NEW k \in Nat
  PROVE  n * k \in Nat /\ (n + 1) * k = n * k + k
OBVIOUS

\* How many pages a search may ask for is a number.
LEMMA PagesPerSearchType == PagesPerSearch \in Nat
<1>1. IsFiniteSet(0 .. MaxPages)
  BY ClientAssumption, FS_Interval
<1>2. IsFiniteSet({q \in 0 .. MaxPages : PageAllowed(q)})
  BY <1>1, FS_Subset
<1> QED
  BY <1>2, FS_CardinalityType DEF PagesPerSearch

\* A search asks for its allowed pages in order, so page p is at most the
\* (p + 1)st of them.
LEMMA PageCount ==
  ASSUME NEW p \in 0 .. MaxPages, PageAllowed(p)
  PROVE  PagesPerSearch \in Nat /\ p + 1 <= PagesPerSearch
<1> DEFINE Allowed == {q \in 0 .. MaxPages : PageAllowed(q)}
<1>1. 0 .. p \subseteq Allowed
  <2> SUFFICES ASSUME NEW q \in 0 .. p
               PROVE  q \in 0 .. MaxPages /\ q < MaxPages /\ q * PageSize < OffsetCap
    BY DEF PageAllowed
  <2>1. q \in 0 .. MaxPages /\ q < MaxPages
    BY ClientAssumption DEF PageAllowed
  <2>2. q * PageSize <= p * PageSize
    BY ClientAssumption, Scale
  <2>3. q * PageSize \in Nat /\ p * PageSize \in Nat /\ p * PageSize < OffsetCap
    BY ClientAssumption DEF PageAllowed
  <2> QED
    BY <2>1, <2>2, <2>3, ClientAssumption
<1>2. IsFiniteSet(0 .. MaxPages) /\ IsFiniteSet(0 .. p) /\ Cardinality(0 .. p) = p + 1
  BY ClientAssumption, FS_Interval
<1>3. IsFiniteSet(Allowed)
  BY <1>2, FS_Subset
<1>4. Cardinality(0 .. p) <= Cardinality(Allowed)
  <2> HIDE DEF Allowed
  <2> QED
    BY <1>1, <1>3, FS_Subset
<1> QED
  BY <1>2, <1>4, PagesPerSearchType DEF PagesPerSearch

\* The calls a search may have made grow with it: an attempt takes one call, a
\* page at most Attempts of them, and the last page is one it was allowed.
LEMMA StopStep ==
  ASSUME TypeOK, PageInHand, StopInv, [Next]_vars
  PROVE  StopInv'
<1> DEFINE bound == PagesPerSearch * Attempts
           since == callsMade - stopCalls
<1>0. /\ callsMade \in Nat /\ stopCalls \in Nat /\ attempt \in 1 .. Attempts
      /\ Attempts \in Nat /\ page \in 0 .. MaxPages /\ page \in Nat
  BY ClientAssumption DEF TypeOK, ClientTypeOK
<1>1. /\ PagesPerSearch \in Nat /\ PagesPerSearch' = PagesPerSearch
      /\ bound \in Nat
  <2>1. PagesPerSearch' = PagesPerSearch
    BY DEF PagesPerSearch, PageAllowed
  <2> QED
    BY <1>0, <2>1, PagesPerSearchType, Scale
<1>2. /\ page * Attempts \in Nat
      /\ (page + 1) * Attempts = page * Attempts + Attempts
      /\ (page + 1) * Attempts + 0 \in Nat
  BY <1>0, OneMore
<1>3. PageAllowed(page) => (page + 1) * Attempts <= bound
  <2> SUFFICES ASSUME PageAllowed(page)
               PROVE  (page + 1) * Attempts <= bound
    OBVIOUS
  <2>1. page + 1 \in Nat /\ page + 1 <= PagesPerSearch
    BY <1>0, PageCount
  <2> QED
    BY <1>0, <1>1, <2>1, Scale
<1> HIDE DEF bound
<1>4. CASE RequestStop
  <2>1. stop' /\ callsMade' = callsMade /\ stopCalls' = callsMade
        /\ UNCHANGED <<search, page, attempt>>
    BY <1>4 DEF RequestStop, clientVars
  <2>2. 0 <= CallsSoFar'
    BY <1>0, <1>1, <1>2, <2>1 DEF CallsSoFar, bound
  <2> QED
    BY <1>0, <2>1, <2>2 DEF StopInv
<1>5. CASE NextTerm
  BY <1>5 DEF NextTerm, flags, StopInv
<1>6. CASE Fetch
  <2>1. stop' = stop /\ stopCalls' = stopCalls
    BY <1>6, Frame DEF flags
  <2>2. CASE BudgetExceeded
    BY <1>0, <1>1, <1>2, <1>3, <2>1, <2>2
    DEF BudgetExceeded, PageInHand, StopInv, CallsSoFar, bound
  <2>3. ASSUME NEW k \in 0 .. PageSize, GetPage(k)
        PROVE  StopInv'
    BY <1>0, <1>1, <1>2, <1>3, <2>1, <2>3
    DEF GetPage, Call, PageInHand, StopInv, CallsSoFar, bound
  <2>4. CASE RetryableError \/ FatalError
    BY <1>0, <1>1, <1>2, <1>3, <2>1, <2>4
    DEF RetryableError, FatalError, Call, PageInHand, StopInv, CallsSoFar, bound
  <2>5. CASE PageConsumed
    BY <1>0, <1>1, <1>2, <1>3, <2>1, <2>5
    DEF PageConsumed, AtPage, PageInHand, StopInv, CallsSoFar, bound
  <2> QED
    BY <1>6, <2>2, <2>3, <2>4, <2>5 DEF Fetch
<1>7. CASE Counted
  <2>1. UNCHANGED <<callsMade, page, attempt, stop, stopCalls>>
    BY <1>7, Frame DEF flags
  <2>2. search = "yield" /\ (search' = search \/ search' = "none")
    BY <1>7 DEF Counted, See, Yield, sameSearch, PairDone
  <2> QED
    BY <1>0, <1>1, <1>2, <1>3, <2>1, <2>2 DEF PageInHand, StopInv, CallsSoFar, bound
<1>8. CASE SearchDone \/ SearchRaised
  <2>1. UNCHANGED <<callsMade, page, attempt, stop, stopCalls>>
    BY <1>8, Frame DEF flags
  <2>2. search \in {"done", "raised"} /\ search' = "none"
    BY <1>8 DEF SearchDone, SearchRaised, PairDone
  <2> QED
    BY <1>1, <2>1, <2>2 DEF StopInv, CallsSoFar, bound
<1>9. CASE LoopStep \/ UNCHANGED vars
  <2>1. UNCHANGED <<callsMade, search, page, attempt, stop, stopCalls>>
    BY <1>9, Frame DEF flags, clientVars, vars, runnerVars
  <2> QED
    BY <1>1, <2>1 DEF StopInv, CallsSoFar
<1> QED
  BY <1>4, <1>5, <1>6, <1>7, <1>8, <1>9, NextCases
-----------------------------------------------------------------------------
LEMMA RunnerStep ==
  ASSUME RunnerInv, StatsAddUp, EndsForAReason, [Next]_vars
  PROVE  RunnerInv' /\ StatsAddUp' /\ EndsForAReason'
BY TypeStep, StatsStep, PageStep, LoopStepInv, SweptStep, PagesStep, StopStep,
   StatsAddUpStep, EndsStep DEF RunnerInv, TypeOK

\* The invariant of run_once, its loops over the grid and the client's generator,
\* the statistics and the signal's flag, for any grid, budget and page size.
THEOREM RunnerInvariance == Spec => [](RunnerInv /\ StatsAddUp /\ EndsForAReason)
BY RunnerInit, RunnerStep, PTL DEF Spec

\* Type correctness; with it, the calls never go over the budget, and a sweep
\* never attempts more cities than there are (ingest/runner.py,
\* ingest/yelp_client.py).
THEOREM RunnerTypeCorrect == Spec => []TypeOK
<1>1. RunnerInv => TypeOK
  BY DEF RunnerInv
<1> QED
  BY <1>1, RunnerInvariance, PTL

\* SweepStats add up at every step, whatever a publish comes to.
THEOREM RunnerStatsAddUp == Spec => []StatsAddUp
BY RunnerInvariance, PTL

\* pages_fetched, worked out from the count of calls, is the number of pages
\* that had businesses on them, whatever was retried.
THEOREM RunnerPagesAreExact == Spec => []PagesAreExact
<1>1. RunnerInv => PagesAreExact
  BY DEF RunnerInv, TypeOK, PagesInv, PagesAreExact
<1> QED
  BY <1>1, RunnerInvariance, PTL

\* A sweep nobody stopped searches every pair, whatever failed on the way.
THEOREM RunnerSweepCoversAll == Spec => []SweepCoversAll
<1>1. RunnerInv => SweepCoversAll
  <2> SUFFICES ASSUME RunnerInv, pc = "report", ~stop
               PROVE  /\ swept = (1 .. Cities) \X (1 .. Terms)
                      /\ stats.cities_attempted = Cities
    BY DEF SweepCoversAll
  <2>1. city = Cities + 1 /\ stats.cities_attempted = city - 1
    BY DEF RunnerInv, LoopInv
  <2>2. \A c \in 1 .. Cities, t \in 1 .. Terms : <<c, t>> \in swept
    <3> TAKE c \in 1 .. Cities, t \in 1 .. Terms
    <3>1. c < city
      BY <2>1, RunnerAssumption
    <3> QED
      BY <3>1 DEF RunnerInv, SweptInv, Passed
  <2>3. swept \subseteq (1 .. Cities) \X (1 .. Terms)
    BY DEF RunnerInv, TypeOK
  <2> QED
    BY <2>1, <2>2, <2>3, RunnerAssumption
<1> QED
  BY <1>1, RunnerInvariance, PTL

\* A search that ends without an error is complete, or the budget is used up.
THEOREM RunnerEndsForAReason == Spec => []EndsForAReason
BY RunnerInvariance, PTL

\* After a stop request the process makes at most the calls of one search, its
\* retries included.
THEOREM RunnerStopsAfterPair == Spec => []StopsAfterPair
<1>1. RunnerInv => StopsAfterPair
  <2> SUFFICES ASSUME RunnerInv, stop
               PROVE  callsMade - stopCalls <= PagesPerSearch * Attempts
    BY DEF StopsAfterPair
  <2>1. callsMade - stopCalls <= CallsSoFar
    BY DEF RunnerInv, StopInv
  <2>2. CallsSoFar <= PagesPerSearch * Attempts /\ CallsSoFar \in Nat
    <3>1. /\ attempt \in 1 .. Attempts /\ Attempts \in Nat
          /\ page \in 0 .. MaxPages /\ page \in Nat
      BY ClientAssumption DEF RunnerInv, TypeOK, ClientTypeOK
    <3>2. PagesPerSearch * Attempts \in Nat
      BY <3>1, PagesPerSearchType, Scale
    <3>3. CASE search \notin {"get", "yield"}
      BY <3>2, <3>3 DEF CallsSoFar
    <3>4. CASE search \in {"get", "yield"}
      <4>1. page + 1 \in Nat /\ page + 1 <= PagesPerSearch /\ PagesPerSearch \in Nat
        BY <3>1, <3>4, PageCount DEF RunnerInv, PageInHand
      <4>2. (page + 1) * Attempts <= PagesPerSearch * Attempts
        BY <3>1, <4>1, Scale
      <4>3. page * Attempts \in Nat /\ (page + 1) * Attempts = page * Attempts + Attempts
        BY <3>1, OneMore
      <4> QED
        BY <3>1, <3>2, <3>4, <4>2, <4>3 DEF CallsSoFar
    <3> QED
      BY <3>3, <3>4
  <2>3. callsMade - stopCalls \in Int /\ PagesPerSearch * Attempts \in Int
    BY ClientAssumption, PagesPerSearchType DEF RunnerInv, TypeOK, ClientTypeOK
  <2> QED
    BY <2>1, <2>2, <2>3
<1> QED
  BY <1>1, RunnerInvariance, PTL
=============================================================================
