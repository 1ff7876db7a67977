---------------------------- MODULE IngestRunner ----------------------------
(***************************************************************************)
(* Runner (ingest/runner.py) driving a YelpClient: run_once() sweeps every *)
(* (city, term) pair, one iter_search() each, publishing as the generator  *)
(* yields; run_forever() repeats it until a signal has set the stop flag.  *)
(* Signal handlers run between any two steps.  A publish is seen here by   *)
(* its outcome only; EventProducer models what is behind it.               *)
(***************************************************************************)
EXTENDS YelpClient, FiniteSets

CONSTANTS
  Cities,  \* how many cities are configured
  Terms    \* how many terms

ASSUME RunnerAssumption == Cities \in Nat /\ Terms \in Nat

VARIABLES
  once,       \* --once: a single sweep
  stop,       \* self._stop
  pc,         \* where the runner is
  city,       \* the loop variables
  term,
  lastPage,   \* last_page of _sweep_city_term
  stats,      \* the sweep's SweepStats
  pages,      \* history: non-empty pages the sweep got
  swept,      \* history: pairs the sweep began to search
  stopCalls   \* history: callsMade when the flag was set

flags == <<once, stop, stopCalls>>
loop == <<city, term>>
results == <<stats, pages, swept>>
runnerVars == <<flags, pc, loop, lastPage, results>>
vars == <<clientVars, runnerVars>>

\* errors counts the entries of stats.errors.
NewStats ==
  [cities_attempted |-> 0, pages_fetched |-> 0, seen |-> 0, accepted |-> 0,
   rejected |-> 0, errors |-> 0]

TypeOK ==
  /\ ClientTypeOK
  /\ once \in BOOLEAN /\ stop \in BOOLEAN
  /\ pc \in {"begin", "cities", "terms", "search", "report", "sleep", "exit"}
  /\ city \in 1 .. Cities + 1 /\ term \in 1 .. Terms + 1
  /\ lastPage \in -1 .. Budget
  /\ DOMAIN stats = DOMAIN NewStats
  /\ \A k \in DOMAIN stats : stats[k] \in Nat
  /\ stats.cities_attempted <= Cities
  /\ pages \in Nat
  /\ swept \subseteq (1 .. Cities) \X (1 .. Terms)
  /\ stopCalls \in 0 .. callsMade
  /\ pc = "search" <=> search # "none"

Init ==
  /\ ClientInit
  /\ once \in BOOLEAN
  /\ stop = FALSE
  /\ pc = "begin"
  /\ city = 1 /\ term = 1
  /\ lastPage = -1
  /\ stats = NewStats
  /\ pages = 0
  /\ swept = {}
  /\ stopCalls = 0
-----------------------------------------------------------------------------
(***************************************************************************)
(* The loops of run_forever() and run_once().                              *)
(***************************************************************************)

\* A signal: the handler sets the flag and nothing else.
RequestStop ==
  /\ ~stop
  /\ pc # "exit"
  /\ stop' = TRUE
  /\ stopCalls' = callsMade
  /\ UNCHANGED <<clientVars, once, pc, loop, lastPage, results>>

\* run_once() starts; run_forever() checks the flag before it.
BeginSweep ==
  /\ pc = "begin"
  /\ once \/ ~stop
  /\ pc' = "cities"
  /\ city' = 1
  /\ stats' = NewStats
  /\ pages' = 0
  /\ swept' = {}
  /\ UNCHANGED <<clientVars, flags, term, lastPage>>

\* A step that moves the runner and leaves everything else alone.
Goto(from, to) ==
  /\ pc = from
  /\ pc' = to
  /\ UNCHANGED <<clientVars, flags, loop, lastPage, results>>

\* Mutant: run_forever() does not look at the flag.
ExitNever == FALSE /\ UNCHANGED vars

\* The while loop of run_forever() ends, and close() with it.
Exit ==
  /\ ~once /\ stop
  /\ Goto("begin", "exit") \/ Goto("sleep", "exit")

\* for city in cities
NextCity ==
  /\ pc = "cities"
  /\ ~stop /\ city <= Cities
  /\ pc' = "terms"
  /\ term' = 1
  /\ stats' = [stats EXCEPT !.cities_attempted = @ + 1]
  /\ UNCHANGED <<clientVars, flags, city, lastPage, pages, swept>>

CitiesDone ==
  /\ stop \/ city > Cities
  /\ Goto("cities", "report")

\* Mutant: the flag is looked at between cities only.
NextTermWithoutStop ==
  /\ pc = "terms"
  /\ term <= Terms
  /\ IterSearch
  /\ pc' = "search"
  /\ lastPage' = -1
  /\ swept' = swept \cup {<<city, term>>}
  /\ UNCHANGED <<flags, loop, stats, pages>>

\* for term in terms: _sweep_city_term() opens a generator.
NextTerm ==
  /\ pc = "terms"
  /\ ~stop /\ term <= Terms
  /\ IterSearch
  /\ pc' = "search"
  /\ lastPage' = -1
  /\ swept' = swept \cup {<<city, term>>}
  /\ UNCHANGED <<flags, loop, stats, pages>>

TermsDone ==
  /\ pc = "terms"
  /\ stop \/ term > Terms
  /\ pc' = "cities"
  /\ city' = city + 1
  /\ UNCHANGED <<clientVars, flags, term, lastPage, results>>

\* flush(), delivery_failed and sweep.done; then the sleep of run_forever().
Report == Goto("report", IF once THEN "exit" ELSE "sleep")

\* The sleep, in slices of a second, is over.
WakeUp ==
  /\ ~stop
  /\ Goto("sleep", "begin")

Exited == pc = "exit" /\ UNCHANGED vars
-----------------------------------------------------------------------------
(***************************************************************************)
(* _sweep_city_term(): the generator's steps, and the loop body on each    *)
(* business it yields.                                                     *)
(***************************************************************************)

Fetch ==
  /\ \/ BudgetExceeded /\ UNCHANGED pages
     \/ \E k \in 0 .. PageSize :
          GetPage(k) /\ pages' = IF k = 0 THEN pages ELSE pages + 1
     \/ RetryableError /\ UNCHANGED pages
     \/ FatalError /\ UNCHANGED pages
     \/ PageConsumed /\ UNCHANGED pages
  /\ UNCHANGED <<flags, pc, loop, lastPage, stats, swept>>

\* Mutant: every call to the API since the last business counts as a page.
PagesSinceIgnoringRetries(s) == s.pages_fetched + (callsMade - 1 - lastPage)

\* page = calls_made - 1; a page other than the last business's is a new one.
PagesSince(s) ==
  IF callsMade - 1 # lastPage THEN s.pages_fetched + 1 ELSE s.pages_fetched

\* The generator yields a business, which is counted as seen and in k.
See(k) ==
  /\ Yield
  /\ stats' = [stats EXCEPT !.pages_fetched = PagesSince(stats),
                            !.seen = @ + 1, ![k] = @ + 1]
  /\ lastPage' = callsMade - 1

sameSearch ==
  <<callsMade, search, page, attempt, pageLen, flags, pc, loop, pages, swept>>

\* publish_business() took the record.
Accept == See("accepted") /\ UNCHANGED sameSearch

\* Mutant: a record that cannot be normalized is not counted as rejected.
RejectUncounted ==
  /\ Yield
  /\ stats' = [stats EXCEPT !.pages_fetched = PagesSince(stats), !.seen = @ + 1]
  /\ lastPage' = callsMade - 1
  /\ UNCHANGED sameSearch

\* It went to the producer-side DLQ: not normalized, or not valid.
Reject == See("rejected") /\ UNCHANGED sameSearch

\* The pair is finished, one way or the other.
PairDone ==
  /\ search' = "none"
  /\ pc' = "terms"
  /\ term' = term + 1
  /\ UNCHANGED <<callsMade, page, attempt, pageLen, flags, city, pages, swept>>

\* The queue was full twice: the rest of the pair is abandoned.
PublishRaises == See("errors") /\ PairDone

SearchDone ==
  /\ search = "done"
  /\ PairDone
  /\ UNCHANGED <<buffer, stats, lastPage>>

\* Mutant: an error ends the loop over the city's terms.
SearchRaisedEndsCity ==
  /\ search = "raised"
  /\ stats' = [stats EXCEPT !.errors = @ + 1]
  /\ search' = "none"
  /\ pc' = "cities"
  /\ city' = city + 1
  /\ UNCHANGED <<callsMade, page, attempt, pageLen, flags, term, pages, swept,
                 buffer, lastPage>>

\* except YelpAPIError, except Exception: recorded, and on to the next pair.
SearchRaised ==
  /\ search = "raised"
  /\ stats' = [stats EXCEPT !.errors = @ + 1]
  /\ PairDone
  /\ UNCHANGED <<buffer, lastPage>>
-----------------------------------------------------------------------------
Next ==
  \/ RequestStop
  \/ BeginSweep \/ Exit
  \/ NextCity \/ CitiesDone \/ NextTerm \/ TermsDone
  \/ Fetch \/ Accept \/ Reject \/ PublishRaises \/ SearchDone \/ SearchRaised
  \/ Report \/ WakeUp
  \/ Exited

Spec == Init /\ [][Next]_vars

\* The process runs: every call has a timeout and every sleep an end.
FairSpec == Spec /\ WF_vars(Next /\ ~RequestStop)
-----------------------------------------------------------------------------
\* A sweep's statistics add up: what was seen was accepted or rejected, but
\* for the records whose publish raised, each of them an entry of errors.
StatsAddUp ==
  /\ stats.accepted + stats.rejected <= stats.seen
  /\ stats.seen <= stats.accepted + stats.rejected + stats.errors

\* pages_fetched, worked out from the count of calls, is the number of pages
\* with businesses on them, however many attempts each took.
PagesAreExact == pc \in {"cities", "terms", "report"} => stats.pages_fetched = pages

\* A sweep nobody stopped searches every pair, whatever failed on the way.
SweepCoversAll ==
  pc = "report" /\ ~stop =>
    /\ swept = (1 .. Cities) \X (1 .. Terms)
    /\ stats.cities_attempted = Cities

\* A search that ends without an error is complete (a short or empty page,
\* the page limit or Yelp's cap), or the budget is used up.
EndsForAReason ==
  search = "done" =>
    \/ callsMade >= Budget
    \/ pageLen < PageSize
    \/ ~PageAllowed(page)

\* The pages a search may ask for.
PagesPerSearch == Cardinality({p \in 0 .. MaxPages : PageAllowed(p)})

\* A stop request lets the pair at hand finish and nothing more: the calls
\* after it are at most those of one search, its retries included, in the
\* running sweep and in any other.
StopsAfterPair == stop => callsMade - stopCalls <= PagesPerSearch * Attempts

\* A stop request ends the process, and so does --once by itself.
Terminates == [](stop \/ once => <>(pc = "exit"))
=============================================================================
