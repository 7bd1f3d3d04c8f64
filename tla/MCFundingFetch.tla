--------------------------- MODULE MCFundingFetch ---------------------------
(* Instances of FundingFetch: settlements that come less than the reported  *)
(* interval apart, one of them without a kline, and settlements of which     *)
(* one is a tick late.                                                       *)
EXTENDS FundingFetch

Slot(from, to) == [from |-> from, to |-> to]

MCEvents == {0, 3, 5}
MCWindows == {Slot(0, 5), Slot(3, 4)}
MCIntervals == {2, 3}
MCOutage == {2}

LateEvents == {1, 4, 9}
LateWindows == {Slot(0, 3), Slot(8, 11), Slot(0, 11)}
NoOutage == {}

\* The part of the state that still matters: the locals of a coroutine are dead
\* outside the stretch of the fetch that reads them, a call that has ended is like
\* any other but for its answer, and once the cache was cleared nothing is said of
\* what the call knew.
LiveLocals(p) ==
  LET call == <<win[p], cleared[p], IF cleared[p] THEN {} ELSE known[p]>>
      page == <<call, iv[p], gaps[p], gap[p], cursor[p], rates[p]>> IN
  CASE pc[p] = "interval" -> <<"interval", call>>
    [] pc[p] = "ranges" -> <<"ranges", call, iv[p]>>
    [] pc[p] = "loop" -> <<"loop", call, iv[p], gaps[p]>>
    [] pc[p] = "rates" -> <<"rates", page>>
    [] pc[p] = "klines" -> <<"klines", page, klines[p]>>
    [] pc[p] = "put" -> <<"put", call, iv[p], gaps[p], klines[p], todo[p]>>
    [] pc[p] = "done" /\ ~cleared[p] -> <<"done", call, answer[p]>>
    [] OTHER -> <<>>

LiveState == <<now, interval, rows, [p \in Fetchers |-> LiveLocals(p)]>>
=============================================================================
