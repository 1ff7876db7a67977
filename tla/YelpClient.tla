----------------------------- MODULE YelpClient -----------------------------
(***************************************************************************)
(* YelpClient (ingest/yelp_client.py): iter_search() is a generator that   *)
(* fetches pages of a search one by one and yields their businesses; each  *)
(* page is fetched by _get(), which counts its calls against a budget of   *)
(* the process and is retried by tenacity on 429, 5xx and transport        *)
(* errors.  The budget is checked on every attempt, also on a retry.       *)
(***************************************************************************)
EXTENDS Integers

CONSTANTS
  Budget,     \* api_call_budget
  Attempts,   \* stop_after_attempt
  PageSize,   \* page_size
  MaxPages,   \* max_pages
  OffsetCap   \* Yelp's hard cap on offset

ASSUME ClientAssumption ==
  /\ Budget \in Nat
  /\ Attempts \in Nat \ {0}
  /\ PageSize \in Nat \ {0}
  /\ MaxPages \in Nat
  /\ OffsetCap \in Nat

VARIABLES
  callsMade,  \* self._calls_made, for the life of the process
  search,     \* where the generator is
  page,       \* the page it is at
  attempt,    \* which attempt at it comes next
  pageLen,    \* the number of businesses on the page it fetched last, or
              \* PageSize when it has fetched none
  buffer      \* how many of them it has still to yield

clientVars == <<callsMade, search, page, attempt, pageLen, buffer>>

\* none: no generator; get: about to call _get(); yield: a page in hand;
\* done: it returned; raised: an exception came out of it.
ClientTypeOK ==
  /\ callsMade \in 0 .. Budget
  /\ search \in {"none", "get", "yield", "done", "raised"}
  /\ page \in 0 .. MaxPages
  /\ attempt \in 1 .. Attempts
  /\ pageLen \in 0 .. PageSize
  /\ buffer \in 0 .. pageLen

ClientInit ==
  /\ callsMade = 0
  /\ search = "none"
  /\ page = 0
  /\ attempt = 1
  /\ pageLen = PageSize
  /\ buffer = 0

\* The head of the loop over pages, for page p.
PageAllowed(p) == p < MaxPages /\ p * PageSize < OffsetCap

AtPage(p) ==
  /\ page' = p
  /\ attempt' = 1
  /\ search' = IF PageAllowed(p) THEN "get" ELSE "done"

IterSearch ==
  /\ search = "none"
  /\ AtPage(0)
  /\ pageLen' = PageSize
  /\ buffer' = 0
  /\ UNCHANGED callsMade

\* Mutant: the budget is checked once per page, before the first attempt.
BudgetLeftOnFirstAttempt == attempt > 1 \/ callsMade < Budget

\* _get() would go through to the API.
BudgetLeft == callsMade < Budget

\* _BudgetExceeded: iter_search() returns, an earlier attempt's error unsaid.
BudgetExceeded ==
  /\ search = "get"
  /\ ~BudgetLeft
  /\ search' = "done"
  /\ UNCHANGED <<callsMade, page, attempt, pageLen, buffer>>

Call ==
  /\ search = "get"
  /\ BudgetLeft
  /\ callsMade' = callsMade + 1

\* 200 with k businesses.  No business ends the search.
GetPage(k) ==
  /\ Call
  /\ pageLen' = k
  /\ buffer' = k
  /\ attempt' = 1
  /\ search' = IF k = 0 THEN "done" ELSE "yield"
  /\ UNCHANGED page

\* Mutant: the last attempt's error ends the search like an empty page.
RetryableErrorSwallowed ==
  /\ Call
  /\ \/ attempt < Attempts /\ attempt' = attempt + 1 /\ UNCHANGED search
     \/ attempt = Attempts /\ search' = "done" /\ UNCHANGED attempt
  /\ UNCHANGED <<page, pageLen, buffer>>

\* 429, 5xx or a transport error: tenacity sleeps and tries again, up to the
\* last attempt, whose error it reraises.
RetryableError ==
  /\ Call
  /\ \/ attempt < Attempts /\ attempt' = attempt + 1 /\ UNCHANGED search
     \/ attempt = Attempts /\ search' = "raised" /\ UNCHANGED attempt
  /\ UNCHANGED <<page, pageLen, buffer>>

\* Any other 4xx, or a body that cannot be decoded: not retried.
FatalError ==
  /\ Call
  /\ search' = "raised"
  /\ UNCHANGED <<page, attempt, pageLen, buffer>>

\* yield from businesses, one of them.
Yield ==
  /\ search = "yield"
  /\ buffer > 0
  /\ buffer' = buffer - 1

\* Every business of the page was yielded; a short page is the last one.
PageConsumed ==
  /\ search = "yield"
  /\ buffer = 0
  /\ \/ pageLen < PageSize /\ search' = "done" /\ UNCHANGED <<page, attempt>>
     \/ pageLen >= PageSize /\ AtPage(page + 1)
  /\ UNCHANGED <<callsMade, pageLen, buffer>>
=============================================================================
