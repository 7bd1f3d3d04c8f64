---------------------------- MODULE IncomePages ----------------------------
(***************************************************************************)
(* fetch_funding_income, the body of a history job: the span asked for is  *)
(* cut into 7-day windows, each window is read page by page, the next page *)
(* starting one millisecond after the last row of this one, and rows seen  *)
(* before are dropped by tranId.  Meanwhile the exchange posts new rows.   *)
(*                                                                         *)
(* A row is its tranId; its time is Stamp.  Funding of several symbols     *)
(* settles at one instant, so rows may share a time.                       *)
(***************************************************************************)
EXTENDS Integers, FiniteSets

CONSTANTS
  Ids,     \* tranIds of every FUNDING_FEE row the account ever gets
  Stamp,   \* their times
  Spans,   \* what callers ask for: records [from, to]
  Week,    \* length of an outer window (7 days)
  Limit    \* rows of a page (1000)

\* run_account_history refuses start >= end.
ASSUME IncomeAssumption ==
  /\ Stamp \in [Ids -> Nat]
  /\ Spans \subseteq [from : Nat, to : Nat] /\ Spans # {}
  /\ \A s \in Spans : s.from < s.to
  /\ Week \in Nat \ {0}
  /\ Limit \in Nat \ {0}

VARIABLES
  posted,       \* rows the exchange can return
  pc,           \* "idle", "offset", "window", "page", "done", "failed"
  span,         \* the arguments start and end
  windowStart,  \* locals of fetch_funding_income
  windowEnd,
  cursor,       \* cursor_ms of _iter_income_pages
  records,      \* how often each row is in the list `records`
  known         \* auxiliary: rows of the span posted when the call was made

locals == <<span, windowStart, windowEnd, cursor, known>>
vars == <<posted, pc, span, windowStart, windowEnd, cursor, records, known>>

Active == pc \in {"offset", "window", "page"}

InSpan(i) == span.from <= Stamp[i] /\ Stamp[i] <= span.to

\* rec.tran_id in seen_tran_ids
Seen(i) == records[i] > 0

-----------------------------------------------------------------------------
\* A row may show up well after its instant, and in any order.
Post(i) ==
  /\ i \notin posted
  /\ posted' = posted \cup {i}
  /\ UNCHANGED <<pc, locals, records>>

\* One answer to the query S: its first Limit rows by time; which rows of one
\* instant come first is up to the exchange.
IsPage(b, S) ==
  /\ b \subseteq S
  /\ Cardinality(b) <= Limit
  /\ \A i \in b, j \in S : Stamp[j] < Stamp[i] => j \in b
  /\ Cardinality(b) < Limit => b = S

Call(s) ==
  /\ ~Active
  /\ pc' = "offset"
  /\ span' = s
  /\ known' = {i \in posted : s.from <= Stamp[i] /\ Stamp[i] <= s.to}
  /\ records' = [i \in Ids |-> 0]
  /\ UNCHANGED <<posted, windowStart, windowEnd, cursor>>

\* Mutant: the offset of the clocks is applied to the window.
ComputeTimeOffsetShift ==
  /\ pc = "offset"
  /\ pc' = "window"
  /\ windowStart' = span.from - 1
  /\ UNCHANGED <<posted, span, windowEnd, cursor, records, known>>

ComputeTimeOffset ==
  /\ pc = "offset"
  /\ pc' = "window"
  /\ windowStart' = span.from
  /\ UNCHANGED <<posted, span, windowEnd, cursor, records, known>>

NextWindow ==
  /\ pc = "window" /\ windowStart < span.to
  /\ windowEnd' = IF windowStart + Week <= span.to THEN windowStart + Week
                  ELSE span.to
  /\ cursor' = windowStart
  /\ pc' = "page"
  /\ UNCHANGED <<posted, span, windowStart, records, known>>

\* Mutant: rows are appended whether or not they were seen.
CollectAll(b) ==
  [i \in Ids |-> IF i \in b THEN records[i] + 1 ELSE records[i]]

Collect(b) ==
  [i \in Ids |-> IF i \in b /\ ~Seen(i) THEN 1 ELSE records[i]]

\* Mutant: the next page starts with the instant of the last row.
AfterSame(l) == Stamp[l]

After(l) == Stamp[l] + 1

\* One signed request and the loop over its rows.  A full page asks for
\* another one, even past windowEnd: the answer is then empty, or an error.
FetchPage ==
  /\ pc = "page"
  /\ LET query == {i \in posted : cursor <= Stamp[i] /\ Stamp[i] <= windowEnd} IN
     \E b \in SUBSET query :
       /\ IsPage(b, query)
       /\ records' = Collect(b)
       /\ \/ /\ Cardinality(b) = Limit
             /\ \E l \in b : /\ \A j \in b : Stamp[j] <= Stamp[l]
                             /\ cursor' = After(l)
             /\ UNCHANGED <<pc, windowStart>>
          \/ /\ Cardinality(b) < Limit
             /\ windowStart' = windowEnd
             /\ pc' = "window"
             /\ UNCHANGED cursor
  /\ UNCHANGED <<posted, span, windowEnd, known>>

\* Mutant: what is left of the last week is not read.
ReturnEarly ==
  /\ pc = "window" /\ windowStart + Week > span.to
  /\ pc' = "done"
  /\ UNCHANGED <<posted, locals, records>>

Return ==
  /\ pc = "window" /\ windowStart >= span.to
  /\ pc' = "done"
  /\ UNCHANGED <<posted, locals, records>>

\* An error of the exchange or the network, or the worker's end: what was
\* collected is lost with the coroutine.
Fail ==
  /\ Active
  /\ pc' = "failed"
  /\ UNCHANGED <<posted, locals, records>>

-----------------------------------------------------------------------------
Init ==
  /\ posted = {}
  /\ pc = "idle"
  /\ span \in Spans
  /\ windowStart = 0
  /\ windowEnd = 0
  /\ cursor = 0
  /\ records = [i \in Ids |-> 0]
  /\ known = {}

Step == ComputeTimeOffset \/ NextWindow \/ FetchPage \/ Return

Next ==
  \/ \E i \in Ids : Post(i)
  \/ \E s \in Spans : Call(s)
  \/ Step
  \/ Fail

Spec == Init /\ [][Next]_vars

\* Requests are answered, by HttpClient's three attempts at the latest.
FairSpec == Spec /\ WF_vars(Step)

-----------------------------------------------------------------------------
(* Properties *)

TypeOK ==
  /\ posted \subseteq Ids
  /\ pc \in {"idle", "offset", "window", "page", "done", "failed"}
  /\ span \in Spans
  /\ windowStart \in Nat /\ windowEnd \in Nat /\ cursor \in Nat
  /\ records \in [Ids -> Nat]
  /\ known \subseteq Ids

\* What is summed up is real money, once: every record is a row of the account
\* and of the span, and no row counts twice, though neighbouring windows share
\* the instant between them and rows are posted between two pages
\* (binance_usdm.py seen_tran_ids).
EachRowOnce ==
  \A i \in Ids :
    Active \/ pc = "done" =>
      records[i] <= 1 /\ (Seen(i) => i \in posted /\ InSpan(i))

\* A row that was there when the call was made is missing only if another row
\* of the very same instant is in the answer: paging loses rows within an
\* instant, never an instant (binance_usdm.py cursor_ms = last time + 1).
NoInstantLost ==
  pc = "done" =>
    \A i \in known : \E j \in Ids : Seen(j) /\ Stamp[j] = Stamp[i]

\* "Pull FUNDING_FEE income records": every row that was there is in the answer.
IncomeComplete == pc = "done" => \A i \in known : Seen(i)

\* The two loops end.
IncomeEnds == Active ~> ~Active
=============================================================================
