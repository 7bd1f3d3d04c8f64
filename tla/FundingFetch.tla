---------------------------- MODULE FundingFetch ----------------------------
(***************************************************************************)
(* BinanceUsdmExchange.fetch_funding_rates over the SQLite cache, for one  *)
(* (exchange, symbol) key.  Several fetches run at once (web requests in   *)
(* one event loop, CLI processes sharing the file), each step between two  *)
(* awaits or two autocommitted statements being one action.                *)
(*                                                                         *)
(* Data: an event is its settlement time, a kline its open time, and the   *)
(* mark price of a row is the open time of the kline it was read from.     *)
(* All times and intervals are in the same tick.                           *)
(***************************************************************************)
EXTENDS Integers, FiniteSets

CONSTANTS
  Fetchers,    \* concurrent callers
  Events,      \* every instant the exchange ever settles funding
  Intervals,   \* values fundingIntervalHours may take in exchangeInfo
  Outage,      \* open times at which the exchange has no mark price kline
  Windows,     \* windows callers ask for: records [from, to]
  RateLimit,   \* rows of a fundingRate page (1000)
  KlineLimit   \* rows of a markPriceKlines page (1500)

\* Nothing is assumed of their distance: settlements drift, and the interval
\* reported may be longer than the real one.
ASSUME EventsAssumption == Events \subseteq Nat

ASSUME ParametersAssumption ==
  /\ Intervals \subseteq Nat \ {0} /\ Intervals # {}
  /\ Windows \subseteq [from : Nat, to : Nat] /\ Windows # {}
  /\ RateLimit \in Nat \ {0}
  /\ KlineLimit \in Nat \ {0}

VARIABLES
  now,        \* the exchange's clock: events up to now are settled
  interval,   \* fundingIntervalHours in exchangeInfo
  rows,       \* table funding_rates
  pc,         \* per fetcher: where its coroutine stands
  win,        \* its arguments start and end
  iv,         \* its local interval
  gaps,       \* the ranges of `gaps` it has not begun
  gap,        \* the range being fetched
  cursor,     \* cursor_ms of the page loop
  rates,      \* fundingTime of the rates of this gap
  klines,     \* open times of the klines of this gap
  todo,       \* events of this gap still to be inserted
  answer,     \* the list returned
  known,      \* auxiliary: the events of the window settled at the call
  cleared     \* auxiliary: the cache was cleared since the call

exchangeVars == <<now, interval>>
pageVars == <<gap, cursor, rates, klines>>
callVars == <<win, known>>
vars == <<now, interval, rows, pc, win, iv, gaps, gap, cursor, rates, klines,
          todo, answer, known, cleared>>

Window == [from : Nat, to : Nat]
Row == [at : Events, iv : Intervals, mark : Nat]

Within(t, w) == w.from <= t /\ t <= w.to

Cached == {r.at : r \in rows}

-----------------------------------------------------------------------------
(* The exchange *)

Settled == {t \in Events : t <= now}

Klines(i) == {k \in 0 .. now : k % i = 0 /\ k \notin Outage}

\* One answer of a paged endpoint to the query S: its first `limit` rows.
IsPage(b, S, limit) ==
  /\ b \subseteq S
  /\ Cardinality(b) <= limit
  /\ \A t \in b, u \in S : u < t => u \in b
  /\ Cardinality(b) < limit => b = S

Publish ==
  /\ \E t \in Events :
       /\ t > now
       /\ \A u \in Events : u > now => t <= u
       /\ now' = t
  /\ UNCHANGED <<interval, rows, pc, win, iv, gaps, gap, cursor, rates,
                 klines, todo, answer, known, cleared>>

ChangeInterval ==
  /\ interval' \in Intervals \ {interval}
  /\ UNCHANGED <<now, rows, pc, win, iv, gaps, gap, cursor, rates, klines,
                 todo, answer, known, cleared>>

-----------------------------------------------------------------------------
(* SqliteFundingRateCache *)

Between(from, to) == [from |-> from, to |-> to]

\* Mutant: up to two and a half intervals count as jitter.
TooWideLoose(span, i) == 2 * span > 5 * i

\* More than 1.5 intervals.
TooWide(span, i) == 2 * span > 3 * i

\* Mutant: the gap starts an interval early.
LeadingGapsEarly(R, w) ==
  {Between(w.from - r.iv, r.at) : r \in {f \in R : \A q \in R : f.at <= q.at}}

LeadingGaps(R, w) ==
  {Between(w.from, r.at) : r \in {f \in R : /\ \A q \in R : f.at <= q.at
                                            /\ TooWide(f.at - w.from, f.iv)}}

Adjacent(R) ==
  {ab \in R \X R : /\ ab[1].at < ab[2].at
                   /\ \A q \in R : q.at <= ab[1].at \/ ab[2].at <= q.at}

InteriorGaps(R) ==
  {Between(ab[1].at + ab[1].iv, ab[2].at) :
     ab \in {c \in Adjacent(R) : TooWide(c[2].at - c[1].at, c[1].iv)}}

TrailingGaps(R, w) ==
  {Between(r.at + r.iv, w.to) : r \in {l \in R : /\ \A q \in R : q.at <= l.at
                                                 /\ TooWide(w.to - l.at, l.iv)}}

MissingRanges(w) ==
  LET R == {r \in rows : Within(r.at, w)} IN
  IF R = {} THEN {w}
  ELSE LeadingGaps(R, w) \cup InteriorGaps(R) \cup TrailingGaps(R, w)

\* INSERT OR REPLACE on the primary key.
Upsert(r) == {q \in rows : q.at # r.at} \cup {r}

-----------------------------------------------------------------------------
(* BinanceUsdmExchange.fetch_funding_rates *)

Active(p) == pc[p] \in {"interval", "ranges", "loop", "rates", "klines", "put"}

\* `cache clear`, from another process.
Clear ==
  /\ rows' = {}
  /\ cleared' = [p \in Fetchers |-> Active(p) \/ cleared[p]]
  /\ UNCHANGED <<exchangeVars, pc, callVars, iv, gaps, pageVars, todo, answer>>

Call(p, w) ==
  /\ ~Active(p)
  /\ pc' = [pc EXCEPT ![p] = "interval"]
  /\ win' = [win EXCEPT ![p] = w]
  /\ known' = [known EXCEPT ![p] = {t \in Settled : Within(t, w)}]
  /\ answer' = [answer EXCEPT ![p] = {}]
  /\ cleared' = [cleared EXCEPT ![p] = FALSE]
  /\ UNCHANGED <<exchangeVars, rows, iv, gaps, pageVars, todo>>

GetInterval(p) ==
  /\ pc[p] = "interval"
  /\ iv' = [iv EXCEPT ![p] = interval]
  /\ pc' = [pc EXCEPT ![p] = "ranges"]
  /\ UNCHANGED <<exchangeVars, rows, callVars, gaps, pageVars, todo, answer,
                 cleared>>

GetRanges(p) ==
  /\ pc[p] = "ranges"
  /\ gaps' = [gaps EXCEPT ![p] = MissingRanges(win[p])]
  /\ pc' = [pc EXCEPT ![p] = "loop"]
  /\ UNCHANGED <<exchangeVars, rows, callVars, iv, pageVars, todo, answer,
                 cleared>>

\* The gaps are visited in chronological order.
NextGap(p) ==
  /\ pc[p] = "loop"
  /\ \E g \in gaps[p] :
       /\ \A h \in gaps[p] : g.from <= h.from
       /\ gap' = [gap EXCEPT ![p] = g]
       /\ gaps' = [gaps EXCEPT ![p] = @ \ {g}]
       /\ cursor' = [cursor EXCEPT ![p] = g.from]
  /\ rates' = [rates EXCEPT ![p] = {}]
  /\ klines' = [klines EXCEPT ![p] = {}]
  /\ pc' = [pc EXCEPT ![p] = "rates"]
  /\ UNCHANGED <<exchangeVars, rows, callVars, iv, todo, answer, cleared>>

\* Mutant: the next page starts at the last row of this one.
MorePagesAgain(p, b, limit) ==
  /\ Cardinality(b) = limit
  /\ \E last \in b :
       /\ \A u \in b : u <= last
       /\ last <= gap[p].to
       /\ cursor' = [cursor EXCEPT ![p] = last]

\* A full page whose last row is before the end of the gap: ask for the next.
MorePages(p, b, limit) ==
  /\ Cardinality(b) = limit
  /\ \E last \in b :
       /\ \A u \in b : u <= last
       /\ last + 1 <= gap[p].to
       /\ cursor' = [cursor EXCEPT ![p] = last + 1]

\* Mutant: a full page may be taken for the last one.
LastPageFull(p, b, limit) == Cardinality(b) <= limit

\* Any other page ends the loop.
LastPage(p, b, limit) ==
  \/ Cardinality(b) < limit
  \/ gap[p].to \in b

FetchRatePage(p) ==
  /\ pc[p] = "rates"
  /\ LET query == {t \in Settled : cursor[p] <= t /\ t <= gap[p].to} IN
     \E b \in SUBSET query :
       /\ IsPage(b, query, RateLimit)
       /\ rates' = [rates EXCEPT ![p] = @ \cup b]
       /\ \/ /\ MorePages(p, b, RateLimit)
             /\ UNCHANGED pc
          \/ /\ LastPage(p, b, RateLimit)
             /\ pc' = [pc EXCEPT ![p] = IF rates'[p] = {} THEN "loop"
                                        ELSE "klines"]
             /\ cursor' = [cursor EXCEPT ![p] = gap[p].from]
  /\ UNCHANGED <<exchangeVars, rows, callVars, iv, gaps, gap, klines, todo,
                 answer, cleared>>

\* _merge: the kline at the settlement, else the latest one at most one
\* interval before it.
IsMark(k, t, K, i) ==
  /\ k \in K /\ k <= t /\ t - k <= i
  /\ \A h \in K : h <= t => h <= k

HasMark(t, K, i) == \E k \in K : IsMark(k, t, K, i)

\* The last kline page, the merge and the start of the insert are one slice of
\* the event loop.
FetchKlinePage(p) ==
  /\ pc[p] = "klines"
  /\ LET query == {k \in Klines(iv[p]) : cursor[p] <= k /\ k <= gap[p].to} IN
     \E b \in SUBSET query :
       /\ IsPage(b, query, KlineLimit)
       /\ klines' = [klines EXCEPT ![p] = @ \cup b]
       /\ \/ /\ MorePages(p, b, KlineLimit)
             /\ UNCHANGED <<pc, todo>>
          \/ /\ LastPage(p, b, KlineLimit)
             /\ \A t \in rates[p] : HasMark(t, klines'[p], iv[p])
             /\ pc' = [pc EXCEPT ![p] = "put"]
             /\ todo' = [todo EXCEPT ![p] = rates[p]]
             /\ UNCHANGED cursor
          \/ /\ LastPage(p, b, KlineLimit)
             /\ \E t \in rates[p] : ~HasMark(t, klines'[p], iv[p])
             /\ pc' = [pc EXCEPT ![p] = "nomark"]
             /\ UNCHANGED <<cursor, todo>>
  /\ UNCHANGED <<exchangeVars, rows, callVars, iv, gaps, gap, rates, answer,
                 cleared>>

\* Mutant: the first kline that is near enough is taken.
PutRowFirst(p) ==
  /\ pc[p] = "put"
  /\ \E t \in todo[p], k \in klines[p] :
       /\ \A u \in todo[p] : t <= u
       /\ k <= t /\ t - k <= iv[p]
       /\ \A h \in klines[p] : t - h <= iv[p] => k <= h
       /\ rows' = Upsert([at |-> t, iv |-> iv[p], mark |-> k])
       /\ todo' = [todo EXCEPT ![p] = @ \ {t}]
       /\ pc' = [pc EXCEPT ![p] = IF todo[p] = {t} THEN "loop" ELSE "put"]
  /\ UNCHANGED <<exchangeVars, callVars, iv, gaps, pageVars, answer, cleared>>

\* executemany under autocommit: every row is a transaction of its own.
PutRow(p) ==
  /\ pc[p] = "put"
  /\ \E t \in todo[p], k \in klines[p] :
       /\ \A u \in todo[p] : t <= u
       /\ IsMark(k, t, klines[p], iv[p])
       /\ rows' = Upsert([at |-> t, iv |-> iv[p], mark |-> k])
       /\ todo' = [todo EXCEPT ![p] = @ \ {t}]
       /\ pc' = [pc EXCEPT ![p] = IF todo[p] = {t} THEN "loop" ELSE "put"]
  /\ UNCHANGED <<exchangeVars, callVars, iv, gaps, pageVars, answer, cleared>>

Return(p) ==
  /\ pc[p] = "loop" /\ gaps[p] = {}
  /\ answer' = [answer EXCEPT ![p] = {t \in Cached : Within(t, win[p])}]
  /\ pc' = [pc EXCEPT ![p] = "done"]
  /\ UNCHANGED <<exchangeVars, rows, callVars, iv, gaps, pageVars, todo,
                 cleared>>

\* A network error, the 120 s limit of the web route, Ctrl-C, a crash, a
\* locked database: the call ends here and leaves the rows it has written.
Stop(p) ==
  /\ Active(p)
  /\ pc' = [pc EXCEPT ![p] = "stopped"]
  /\ UNCHANGED <<exchangeVars, rows, callVars, iv, gaps, pageVars, todo,
                 answer, cleared>>

-----------------------------------------------------------------------------
Init ==
  /\ now = 0
  /\ interval \in Intervals
  /\ rows = {}
  /\ pc = [p \in Fetchers |-> "idle"]
  /\ win \in [Fetchers -> Windows]
  /\ iv = [p \in Fetchers |-> interval]
  /\ gaps = [p \in Fetchers |-> {}]
  /\ gap = [p \in Fetchers |-> Between(0, 0)]
  /\ cursor = [p \in Fetchers |-> 0]
  /\ rates = [p \in Fetchers |-> {}]
  /\ klines = [p \in Fetchers |-> {}]
  /\ todo = [p \in Fetchers |-> {}]
  /\ answer = [p \in Fetchers |-> {}]
  /\ known = [p \in Fetchers |-> {}]
  /\ cleared = [p \in Fetchers |-> FALSE]

\* The steps the event loop takes by itself once the call is made.
Step(p) ==
  \/ GetInterval(p)
  \/ GetRanges(p)
  \/ NextGap(p)
  \/ FetchRatePage(p)
  \/ FetchKlinePage(p)
  \/ PutRow(p)
  \/ Return(p)

Next ==
  \/ Publish
  \/ ChangeInterval
  \/ Clear
  \/ \E p \in Fetchers : Step(p) \/ Stop(p) \/ \E w \in Windows : Call(p, w)

Spec == Init /\ [][Next]_vars

\* A coroutine that can run is run, and every request is answered or given up in
\* the end: HttpClient makes three attempts, each under its timeouts.
FairSpec == Spec /\ \A p \in Fetchers : WF_vars(Step(p))

-----------------------------------------------------------------------------
(* Properties *)

TypeOK ==
  /\ now \in Nat
  /\ interval \in Intervals
  /\ rows \subseteq Row
  /\ pc \in [Fetchers -> {"idle", "interval", "ranges", "loop", "rates",
                          "klines", "put", "done", "nomark", "stopped"}]
  /\ win \in [Fetchers -> Windows]
  /\ iv \in [Fetchers -> Intervals]
  /\ gaps \in [Fetchers -> SUBSET Window]
  /\ gap \in [Fetchers -> Window]
  /\ cursor \in [Fetchers -> Nat]
  /\ rates \in [Fetchers -> SUBSET Events]
  /\ klines \in [Fetchers -> SUBSET Nat]
  /\ todo \in [Fetchers -> SUBSET Events]
  /\ answer \in [Fetchers -> SUBSET Events]
  /\ known \in [Fetchers -> SUBSET Events]
  /\ cleared \in [Fetchers -> BOOLEAN]

\* A row of the cache is a settled event, there is one row per event, and its
\* mark price is the one the whole price history gives, whichever gap, page or
\* concurrent fetch it was loaded by: the latest kline of its interval at or
\* before the settlement, at most one interval old (binance_usdm.py _merge).
CacheSound ==
  /\ \A r \in rows : r.at <= now /\ IsMark(r.mark, r.at, Klines(r.iv), r.iv)
  /\ \A q, r \in rows : q.at = r.at => q = r

\* An event of R at most an interval and a half before t, or one after t that is
\* as near to the start of w.
Near(t, w, R) ==
  \E r \in R, i \in Intervals :
    \/ r < t /\ 2 * (t - r) <= 3 * i
    \/ t < r /\ 2 * (r - w.from) <= 3 * i

\* A call that returns and met no `cache clear` may lack an event that had settled
\* when it was made, but never far from the events it returns: one of them is at
\* most one and a half of the longest interval before it, or after it and that near
\* to the start of the window.  Settlements that drift, intervals that change or are
\* wrong, and failed, partial or concurrent fetches do not add to the loss
\* (cache.py missing_ranges with the loop of fetch_funding_rates).
LacksOnlyNear ==
  \A p \in Fetchers :
    pc[p] = "done" /\ ~cleared[p] =>
      \A t \in known[p] \ answer[p] : Near(t, win[p], answer[p])

\* Between the first and the last event of such an answer nothing is missing: "The
\* jitter tolerance must not swallow real missing events" (test_cache.py, of
\* missing_ranges).
InteriorComplete ==
  \A p \in Fetchers :
    pc[p] = "done" /\ ~cleared[p] =>
      \A q, r \in answer[p], t \in known[p] : q < t /\ t < r => t \in answer[p]

\* A call that is made ends: no page loop turns for ever.
FetchEnds == \A p \in Fetchers : []<>~Active(p)

Status(p) ==
  IF Active(p) THEN "asked"
  ELSE IF pc[p] = "idle" THEN "idle"
  ELSE IF pc[p] = "done" THEN "answered"
  ELSE "refused"

Promise == INSTANCE FundingPromise
             WITH status <- [p \in Fetchers |-> Status(p)]

\* The fetch implements what its callers rely on.
KeepsPromise == Promise!Spec
=============================================================================
