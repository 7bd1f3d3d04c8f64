--------------------------- MODULE FundingPromise ---------------------------
(***************************************************************************)
(* What a caller of fetch_funding_rates(symbol, start, end) may rely on,   *)
(* whatever the cache, the paging and the other fetches do: the answer is  *)
(* made of settled funding events of the window, and an event that had     *)
(* settled when the call was made and is missing has one of the answer at  *)
(* most an interval and a half before it, or after it and that near to the *)
(* start of the window.  FundingFetch implements this.                     *)
(***************************************************************************)
EXTENDS Integers

CONSTANTS Fetchers,   \* callers: CLI processes, web requests
          Events,     \* settlement times of the symbol, in ticks
          Intervals,  \* funding intervals the exchange may report
          Windows     \* the [from, to] windows callers ask for

VARIABLES now,        \* latest instant of the exchange
          status,     \* per fetcher: "idle", "asked", "answered", "refused"
          win,        \* per fetcher: the window asked for
          known,      \* per fetcher: the events settled when it asked
          answer,     \* per fetcher: times of the events returned
          cleared     \* per fetcher: the cache was cleared since it asked

promiseVars == <<now, status, win, known, answer, cleared>>

In(w) == {t \in Events : w.from <= t /\ t <= w.to}

Settled == {t \in Events : t <= now}

\* An event of R at most an interval and a half before t, or one after t that is
\* as near to the start of w.
Near(t, w, R) ==
  \E r \in R, i \in Intervals :
    \/ r < t /\ 2 * (t - r) <= 3 * i
    \/ t < r /\ 2 * (r - w.from) <= 3 * i

LacksOnlyNear(K, w, R) == \A t \in K \ R : Near(t, w, R)

Init ==
  /\ now = 0
  /\ status = [p \in Fetchers |-> "idle"]
  /\ win \in [Fetchers -> Windows]
  /\ known = [p \in Fetchers |-> {}]
  /\ answer = [p \in Fetchers |-> {}]
  /\ cleared = [p \in Fetchers |-> FALSE]

Publish ==
  /\ \E t \in Events : t > now /\ now' = t
  /\ UNCHANGED <<status, win, known, answer, cleared>>

Ask(p, w) ==
  /\ status[p] # "asked"
  /\ status' = [status EXCEPT ![p] = "asked"]
  /\ win' = [win EXCEPT ![p] = w]
  /\ known' = [known EXCEPT ![p] = Settled \cap In(w)]
  /\ answer' = [answer EXCEPT ![p] = {}]
  /\ cleared' = [cleared EXCEPT ![p] = FALSE]
  /\ UNCHANGED now

Answer(p) ==
  /\ status[p] = "asked"
  /\ \E R \in SUBSET (Settled \cap In(win[p])) :
       /\ cleared[p] \/ LacksOnlyNear(known[p], win[p], R)
       /\ answer' = [answer EXCEPT ![p] = R]
  /\ status' = [status EXCEPT ![p] = "answered"]
  /\ UNCHANGED <<now, win, known, cleared>>

Refuse(p) ==
  /\ status[p] = "asked"
  /\ status' = [status EXCEPT ![p] = "refused"]
  /\ UNCHANGED <<now, win, known, answer, cleared>>

Forget ==
  /\ cleared' = [p \in Fetchers |-> status[p] = "asked" \/ cleared[p]]
  /\ UNCHANGED <<now, status, win, known, answer>>

Next ==
  \/ Publish
  \/ Forget
  \/ \E p \in Fetchers : Answer(p) \/ Refuse(p) \/ \E w \in Windows : Ask(p, w)

Spec == Init /\ [][Next]_promiseVars
=============================================================================
