------------------------- MODULE IncomePages_proofs -------------------------
(* Proofs about IncomePages, for every account, span, week and page size.    *)
EXTENDS IncomePages, TLAPS

\* No step leaves the types of the variables (fetch_funding_income).
THEOREM TypeCorrect == Spec => []TypeOK
<1>1. Init => TypeOK
  BY IncomeAssumption DEF Init, TypeOK
<1>2. TypeOK /\ [Next]_vars => TypeOK'
  <2> SUFFICES ASSUME TypeOK, [Next]_vars PROVE TypeOK'
    OBVIOUS
  <2> USE IncomeAssumption DEF TypeOK
  <2>1. ASSUME NEW i \in Ids, Post(i) PROVE TypeOK'
    BY <2>1 DEF Post, locals
  <2>2. ASSUME NEW s \in Spans, Call(s) PROVE TypeOK'
    BY <2>2 DEF Call
  <2>3. CASE ComputeTimeOffset
    BY <2>3 DEF ComputeTimeOffset
  <2>4. CASE NextWindow
    BY <2>4 DEF NextWindow
  <2>5. CASE FetchPage
    <3> PICK b \in SUBSET {i \in posted : cursor <= Stamp[i]
                                          /\ Stamp[i] <= windowEnd} :
          /\ records' = Collect(b)
          /\ \/ /\ \E l \in b : cursor' = After(l)
                /\ UNCHANGED <<pc, windowStart>>
             \/ /\ windowStart' = windowEnd
                /\ pc' = "window"
                /\ UNCHANGED cursor
      BY <2>5 DEF FetchPage
    <3>1. records' \in [Ids -> Nat]
      BY DEF Collect
    <3>2. cursor' \in Nat /\ windowStart' \in Nat
      BY DEF After
    <3> QED
      BY <2>5, <3>1, <3>2 DEF FetchPage
  <2>6. CASE Return
    BY <2>6 DEF Return, locals
  <2>7. CASE Fail
    BY <2>7 DEF Fail, locals
  <2>8. CASE UNCHANGED vars
    BY <2>8 DEF vars, locals
  <2> QED
    BY <2>1, <2>2, <2>3, <2>4, <2>5, <2>6, <2>7, <2>8 DEF Next, Step
<1> QED
  BY <1>1, <1>2, PTL DEF Spec

-----------------------------------------------------------------------------
\* What a step needs to know of the windows: they lie in the span.
WindowOK ==
  /\ pc = "window" => span.from <= windowStart /\ windowStart <= span.to
  /\ pc = "page" => /\ span.from <= windowStart /\ windowStart < windowEnd
                    /\ windowEnd <= span.to /\ windowStart <= cursor

CollectedOK ==
  \A i \in Ids : /\ records[i] <= 1
                 /\ Seen(i) => i \in posted
                 /\ pc # "failed" /\ Seen(i) => InSpan(i)
                 /\ pc \in {"idle", "offset"} => ~Seen(i)

\* The windows and the records together are inductive.
RowsInv == TypeOK /\ WindowOK /\ CollectedOK

\* A fetch that has not begun has no window and has collected nothing.
LEMMA RowsInit == Init => RowsInv
  BY IncomeAssumption
  DEF Init, RowsInv, TypeOK, WindowOK, CollectedOK, Seen, InSpan

\* Every step keeps the windows in order and the records apart.
LEMMA RowsStep == RowsInv /\ TypeOK' /\ [Next]_vars => RowsInv'
<1> SUFFICES ASSUME RowsInv, TypeOK', [Next]_vars PROVE WindowOK' /\ CollectedOK'
  BY DEF RowsInv
<1> USE IncomeAssumption DEF RowsInv, TypeOK, WindowOK, CollectedOK, Seen, InSpan
<1>1. ASSUME NEW i \in Ids, Post(i) PROVE WindowOK' /\ CollectedOK'
  BY <1>1 DEF Post, locals
<1>2. ASSUME NEW s \in Spans, Call(s) PROVE WindowOK' /\ CollectedOK'
  BY <1>2 DEF Call
<1>3. CASE ComputeTimeOffset
  BY <1>3 DEF ComputeTimeOffset
<1>4. CASE NextWindow
  BY <1>4 DEF NextWindow
<1>5. CASE FetchPage
  <2> DEFINE query == {i \in posted : cursor <= Stamp[i] /\ Stamp[i] <= windowEnd}
  <2> PICK b \in SUBSET query :
        /\ records' = Collect(b)
        /\ \/ /\ \E l \in b : cursor' = After(l)
              /\ UNCHANGED <<pc, windowStart>>
           \/ /\ windowStart' = windowEnd
              /\ pc' = "window"
              /\ UNCHANGED cursor
    BY <1>5 DEF FetchPage
  <2>1. pc = "page" /\ UNCHANGED <<posted, span, windowEnd, known>>
    BY <1>5 DEF FetchPage
  <2>2. WindowOK'
    BY <2>1 DEF After
  <2>3. \A i \in b : i \in posted /\ InSpan(i)
    BY <2>1
  <2>4. CollectedOK'
    BY <2>1, <2>3 DEF Collect
  <2> QED
    BY <2>2, <2>4
<1>6. CASE Return
  BY <1>6 DEF Return, locals
<1>7. CASE Fail
  BY <1>7 DEF Fail, locals
<1>8. CASE UNCHANGED vars
  BY <1>8 DEF vars, locals
<1> QED
  BY <1>1, <1>2, <1>3, <1>4, <1>5, <1>6, <1>7, <1>8 DEF Next, Step

\* No row is summed up twice, and none that is not the account's: neighbouring
\* windows share an instant, which seen_tran_ids makes harmless.
THEOREM RowsCountedOnce == Spec => []EachRowOnce
<1>1. RowsInv => EachRowOnce
  BY DEF RowsInv, CollectedOK, EachRowOnce, Active
<1> QED
  BY <1>1, RowsInit, RowsStep, TypeCorrect, PTL DEF Spec

-----------------------------------------------------------------------------
(* Paging loses no instant *)

Covered(i) == \E j \in Ids : Seen(j) /\ Stamp[j] = Stamp[i]

\* How far the known rows have been collected, up to a row of the same instant:
\* before the cursor inside a window, up to its end between two windows.
Progress ==
  /\ Active => known \subseteq posted /\ \A i \in known : InSpan(i)
  /\ pc = "window" => \A i \in known :
       Stamp[i] < windowStart \/ (Stamp[i] = windowStart /\ windowStart # span.from)
         => Covered(i)
  /\ pc = "page" => \A i \in known : Stamp[i] < cursor => Covered(i)
  /\ pc = "done" => \A i \in known : Covered(i)

\* Before the first fetch there is no progress to speak of.
LEMMA ProgressInit == Init => Progress
  BY DEF Init, Progress, Active

\* A page covers the query up to where the next one starts.
LEMMA PageCovers ==
  ASSUME RowsInv, Progress, FetchPage
  PROVE  Progress'
<1> USE IncomeAssumption DEF RowsInv, TypeOK
<1> DEFINE query == {i \in posted : cursor <= Stamp[i] /\ Stamp[i] <= windowEnd}
<1>1. PICK b \in SUBSET query :
        /\ IsPage(b, query)
        /\ records' = Collect(b)
        /\ \/ /\ Cardinality(b) = Limit
              /\ \E l \in b : /\ \A j \in b : Stamp[j] <= Stamp[l]
                              /\ cursor' = After(l)
              /\ UNCHANGED <<pc, windowStart>>
           \/ /\ Cardinality(b) < Limit
              /\ windowStart' = windowEnd
              /\ pc' = "window"
              /\ UNCHANGED cursor
  BY DEF FetchPage
<1>2. pc = "page" /\ UNCHANGED <<posted, span, windowEnd, known>>
  BY DEF FetchPage
<1>3. \A i \in Ids : Seen(i) => Seen(i)'
  BY <1>1 DEF Seen, Collect
<1>4. \A i \in b : Seen(i)'
  BY <1>1 DEF Seen, Collect
<1>5. \A i \in Ids : Covered(i) => Covered(i)'
  BY <1>3 DEF Covered
<1>6. \A i \in b : Covered(i)'
  BY <1>4 DEF Covered
<1>7. \A i \in known : i \in posted /\ InSpan(i)
  BY <1>2 DEF Progress, Active
<1>8. \A i \in known : Stamp[i] < cursor => Covered(i)'
  BY <1>2, <1>5 DEF Progress
<1>9. CASE Cardinality(b) = Limit /\ UNCHANGED <<pc, windowStart>>
           /\ \E l \in b : (\A j \in b : Stamp[j] <= Stamp[l]) /\ cursor' = After(l)
  <2>1. PICK l \in b : (\A j \in b : Stamp[j] <= Stamp[l]) /\ cursor' = After(l)
    BY <1>9
  <2>2. ASSUME NEW i \in known, Stamp[i] < cursor' PROVE Covered(i)'
    <3>1. Stamp[i] <= Stamp[l]
      BY <2>1, <2>2 DEF After
    <3>2. CASE Stamp[i] < cursor
      BY <1>8, <3>2
    <3>3. CASE cursor <= Stamp[i] /\ Stamp[i] < Stamp[l]
      <4>1. i \in query
        BY <1>7, <3>3, <2>1
      <4>2. i \in b
        BY <1>1, <2>1, <3>3, <4>1 DEF IsPage
      <4> QED
        BY <4>2, <1>6
    <3>4. CASE Stamp[i] = Stamp[l]
      BY <3>4, <1>4, <2>1 DEF Covered
    <3> QED
      BY <3>1, <3>2, <3>3, <3>4
  <2> QED
    BY <1>2, <1>7, <1>9, <2>2 DEF Progress, Active, InSpan
<1>10. CASE Cardinality(b) < Limit /\ windowStart' = windowEnd /\ pc' = "window"
  <2>1. b = query
    BY <1>1, <1>10 DEF IsPage
  <2>2. ASSUME NEW i \in known, Stamp[i] <= windowEnd PROVE Covered(i)'
    <3>1. CASE Stamp[i] < cursor
      BY <1>8, <3>1
    <3>2. CASE cursor <= Stamp[i]
      BY <3>2, <2>1, <2>2, <1>6, <1>7
    <3> QED
      BY <3>1, <3>2
  <2> QED
    BY <1>2, <1>7, <1>10, <2>2 DEF Progress, Active, InSpan
<1> QED
  BY <1>1, <1>9, <1>10

\* No step leaves a known row behind the window or the cursor uncollected.
LEMMA ProgressStep == RowsInv /\ Progress /\ [Next]_vars => Progress'
<1> SUFFICES ASSUME RowsInv, Progress, [Next]_vars PROVE Progress'
  OBVIOUS
<1> USE IncomeAssumption DEF RowsInv, TypeOK, WindowOK, Progress, Active
<1>1. ASSUME NEW i \in Ids, Post(i) PROVE Progress'
  BY <1>1 DEF Post, locals, Covered, Seen, InSpan
<1>2. ASSUME NEW s \in Spans, Call(s) PROVE Progress'
  BY <1>2 DEF Call, InSpan
<1>3. CASE ComputeTimeOffset
  BY <1>3 DEF ComputeTimeOffset, Covered, Seen, InSpan
<1>4. CASE NextWindow
  BY <1>4 DEF NextWindow, Covered, Seen, InSpan
<1>5. CASE FetchPage
  BY <1>5, PageCovers
<1>6. CASE Return
  <2>1. windowStart = span.to /\ span.from < span.to
    BY <1>6 DEF Return
  <2> QED
    BY <1>6, <2>1 DEF Return, locals, Covered, Seen, InSpan
<1>7. CASE Fail
  BY <1>7 DEF Fail, locals
<1>8. CASE UNCHANGED vars
  BY <1>8 DEF vars, locals, Covered, Seen, InSpan
<1> QED
  BY <1>1, <1>2, <1>3, <1>4, <1>5, <1>6, <1>7, <1>8 DEF Next, Step

\* Paging by `last time + 1` loses rows only within an instant: an instant at
\* which a row was posted before the call is in the answer.
THEOREM InstantsKept == Spec => []NoInstantLost
<1>1. Progress => NoInstantLost
  BY DEF Progress, NoInstantLost, Covered
<1> QED
  BY <1>1, RowsInit, RowsStep, ProgressInit, ProgressStep, TypeCorrect, PTL
  DEF Spec

\* An account whose rows never share an instant (one symbol, say) gets all of
\* them: what income_lost refutes in general.
THEOREM CompleteIfSpread ==
  ASSUME \A i, j \in Ids : Stamp[i] = Stamp[j] => i = j
  PROVE  Spec => []IncomeComplete
<1>1. TypeOK /\ NoInstantLost => IncomeComplete
  BY DEF TypeOK, NoInstantLost, IncomeComplete
<1> QED
  BY <1>1, TypeCorrect, InstantsKept, PTL

-----------------------------------------------------------------------------
(* The loops cannot go on for ever *)

\* Milliseconds ahead of a call, weighted so that every step leaves fewer: a page
\* moves the cursor, which it leaves at most one behind the window's end, and a
\* window is at least one long.
Ahead ==
  CASE pc = "offset" -> 4 * (span.to - span.from) + 2
    [] pc = "window" -> 4 * (span.to - windowStart) + 1
    [] pc = "page" -> 4 * (span.to - windowEnd) + (windowEnd - cursor) + 3
    [] OTHER -> 0

CursorOK == pc = "page" => cursor <= windowEnd + 1

\* A cursor comes from a row inside the window.
LEMMA CursorStep == RowsInv /\ CursorOK /\ [Next]_vars => CursorOK'
<1> SUFFICES ASSUME RowsInv, CursorOK, [Next]_vars PROVE CursorOK'
  OBVIOUS
<1> USE IncomeAssumption DEF RowsInv, TypeOK, WindowOK, CursorOK
<1>1. CASE NextWindow
  BY <1>1 DEF NextWindow
<1>2. CASE FetchPage
  <2>1. PICK b \in SUBSET {i \in posted : cursor <= Stamp[i] /\ Stamp[i] <= windowEnd} :
          \/ \E l \in b : cursor' = After(l)
          \/ pc' = "window"
    BY <1>2 DEF FetchPage
  <2>2. windowEnd' = windowEnd
    BY <1>2 DEF FetchPage
  <2>3. CASE pc' = "window"
    BY <2>3
  <2>4. CASE \E l \in b : cursor' = After(l)
    BY <2>2, <2>4 DEF After
  <2> QED
    BY <2>1, <2>3, <2>4
<1>3. CASE ~NextWindow /\ ~FetchPage
  <2>1. pc' = "page" => UNCHANGED <<pc, windowEnd, cursor>>
    BY <1>3 DEF Next, Step, Post, Call, ComputeTimeOffset, Return, Fail, vars, locals
  <2> QED
    BY <2>1
<1> QED
  BY <1>1, <1>2, <1>3

\* Every step of a call leaves less ahead of it, and nothing but a new call, not
\* even rows posted meanwhile, puts more there: both loops of fetch_funding_income
\* end after at most four steps for every millisecond of the span.
THEOREM LoopsRunOut ==
  Spec => /\ [](Ahead \in Nat)
          /\ [][/\ Step => Ahead' < Ahead
                /\ (\A s \in Spans : ~Call(s)) => UNCHANGED Ahead \/ Ahead' < Ahead]_vars
<1> DEFINE Sinks == /\ Step => Ahead' < Ahead
                    /\ (\A s \in Spans : ~Call(s)) => UNCHANGED Ahead \/ Ahead' < Ahead
<1> USE IncomeAssumption
<1>1. Init => CursorOK
  BY DEF Init, CursorOK
<1>2. RowsInv /\ CursorOK => Ahead \in Nat
  <2> SUFFICES ASSUME RowsInv, CursorOK PROVE Ahead \in Nat
    OBVIOUS
  <2>1. /\ span.from \in Nat /\ span.to \in Nat /\ span.from < span.to
        /\ windowStart \in Nat /\ windowEnd \in Nat /\ cursor \in Nat
    BY DEF RowsInv, TypeOK
  <2> QED
    BY <2>1 DEF RowsInv, TypeOK, WindowOK, CursorOK, Ahead
<1>3. RowsInv /\ CursorOK /\ Step => Ahead' < Ahead
  <2> SUFFICES ASSUME RowsInv, CursorOK, Step PROVE Ahead' < Ahead
    OBVIOUS
  <2>1. /\ span.from \in Nat /\ span.to \in Nat /\ span.from < span.to /\ span' = span
        /\ windowStart \in Nat /\ windowEnd \in Nat /\ cursor \in Nat
    BY DEF RowsInv, TypeOK, Step, ComputeTimeOffset, NextWindow, FetchPage, Return, locals
  <2>2. CASE ComputeTimeOffset
    BY <2>1, <2>2 DEF ComputeTimeOffset, Ahead
  <2>3. CASE NextWindow
    <3>1. /\ windowStart < windowEnd' /\ windowEnd' <= span.to /\ windowEnd' \in Nat
          /\ cursor' = windowStart /\ pc = "window" /\ pc' = "page"
      BY <2>1, <2>3 DEF NextWindow
    <3> QED
      BY <2>1, <3>1 DEF Ahead
  <2>4. CASE FetchPage
    <3>1. PICK b \in SUBSET {i \in posted : cursor <= Stamp[i] /\ Stamp[i] <= windowEnd} :
            \/ (\E l \in b : cursor' = After(l)) /\ UNCHANGED pc
            \/ pc' = "window" /\ windowStart' = windowEnd
      BY <2>4 DEF FetchPage
    <3>2. /\ pc = "page" /\ windowEnd' = windowEnd /\ cursor <= windowEnd + 1
      BY <2>4 DEF FetchPage, CursorOK
    <3>3. CASE (\E l \in b : cursor' = After(l)) /\ UNCHANGED pc
      <4>1. cursor' \in Nat /\ cursor < cursor'
        BY <2>1, <3>1, <3>3 DEF After, RowsInv, TypeOK
      <4> QED
        BY <2>1, <3>2, <3>3, <4>1 DEF Ahead
    <3>4. CASE pc' = "window" /\ windowStart' = windowEnd
      BY <2>1, <3>2, <3>4 DEF Ahead
    <3> QED
      BY <3>1, <3>3, <3>4
  <2>5. CASE Return
    BY <2>1, <2>5 DEF Return, Ahead, RowsInv, WindowOK
  <2> QED
    BY <2>2, <2>3, <2>4, <2>5 DEF Step
<1>4. RowsInv /\ CursorOK /\ [Next]_vars => [Sinks]_vars
  <2> SUFFICES ASSUME RowsInv, CursorOK, Next PROVE Sinks
    OBVIOUS
  <2>1. CASE Step
    BY <1>3, <2>1
  <2>2. ASSUME NEW i \in Ids, Post(i) PROVE ~Step /\ UNCHANGED Ahead
    BY <2>2
       DEF Post, locals, Ahead, Step, ComputeTimeOffset, NextWindow, FetchPage, Return, RowsInv,
           TypeOK
  <2>3. CASE Fail
    <3>1. Ahead' = 0 /\ pc' = "failed"
      BY <2>3 DEF Fail, Ahead
    <3>2. ~Step
      BY <3>1 DEF Step, ComputeTimeOffset, NextWindow, FetchPage, Return
    <3> QED
      BY <1>2, <3>1, <3>2
  <2>4. ASSUME NEW s \in Spans, Call(s) PROVE ~Step
    BY <2>4 DEF Call, Active, Step, ComputeTimeOffset, NextWindow, FetchPage, Return
  <2> QED
    BY <2>1, <2>2, <2>3, <2>4 DEF Next
<1> QED
  BY <1>1, <1>2, <1>4, CursorStep, RowsInit, RowsStep, TypeCorrect, PTL DEF Spec
=============================================================================
