---------------------------- MODULE SymbolSearch ----------------------------
(***************************************************************************)
(* GET /symbols (web/routes/meta.py) with its one cached list, and the     *)
(* picker of the backtest page (SymbolPicker.tsx) that asks it.  Keystrokes *)
(* are debounced; answers can come in any order, and only the one with the *)
(* latest request id is used.                                              *)
(*                                                                         *)
(* A list of symbols is represented by its age, the options by the text    *)
(* they are for.  Times are ages, so the clock has no bound: one that has   *)
(* reached Ttl + Load counts no further.  The effect of a render runs with *)
(* the event that caused it (a keystroke or a choice flushes effects).     *)
(***************************************************************************)
EXTENDS Naturals

CONSTANTS
  Texts,     \* texts of two or more characters
  Short,     \* any shorter text
  None,      \* no text, no request, no options
  Requests,  \* request ids; bounds the requests under way
  Ttl,       \* _CACHE_TTL
  Load       \* how long a request to the exchange may take, in the same unit

ASSUME SearchAssumption ==
  /\ Ttl \in Nat /\ Load \in Nat /\ Load < Ttl
  /\ Short \notin Texts /\ None \notin Texts \cup {Short} \cup Requests \cup Nat

VARIABLES
  cache,    \* _cache["all"]: [stamp, list], ages; stamp = None before the first
  calls,    \* request -> [at, text, began, list]
  value,    \* the text in the box
  timer,    \* text the debounce timer would ask for, or None
  latest,   \* reqIdRef.current
  options,  \* text the options are for, or None if there are none
  missed    \* auxiliary: the answer to `latest` came without data

vars == <<cache, calls, value, timer, latest, options, missed>>
picker == <<value, timer, latest, options, missed>>

Oldest == Ttl + Load
Older(a) == IF a \in 0..Oldest - 1 THEN a + 1 ELSE a
Calls == [at : {"free", "sent", "loading", "answered"}, text : Texts \cup {None},
          began : 0..Load \cup {None}, list : 0..Oldest \cup {None}]
Free == [at |-> "free", text |-> None, began |-> None, list |-> None]
Under(r) == calls[r].at # "free"
Put(r, call) == calls' = [calls EXCEPT ![r] = call]
Answered(r, list) == [calls[r] EXCEPT !.at = "answered", !.began = None, !.list = list]

-----------------------------------------------------------------------------
(* The picker *)

\* Mutant: a short text empties the options and is asked for all the same.
TypeAsks(v) ==
  /\ v # value
  /\ value' = v /\ timer' = v
  /\ options' = IF v = Short THEN None ELSE options
  /\ UNCHANGED <<cache, calls, latest, missed>>

\* onChange, then the effect on [value]: the old timer is cleared; a short text
\* empties the options, another one sets the timer.
Type(v) ==
  /\ v # value
  /\ value' = v
  /\ IF v = Short THEN timer' = None /\ options' = None
                  ELSE timer' = v /\ UNCHANGED options
  /\ UNCHANGED <<cache, calls, latest, missed>>

\* 200 ms later.
Fire(r) ==
  /\ timer # None /\ ~Under(r)
  /\ Put(r, [Free EXCEPT !.at = "sent", !.text = timer])
  /\ latest' = r /\ timer' = None /\ missed' = FALSE
  /\ UNCHANGED <<cache, value, options>>

\* Mutant: whatever comes last is shown.
DeliverAny(r) ==
  /\ calls[r].at = "answered"
  /\ options' = IF calls[r].list # None THEN calls[r].text ELSE options
  /\ missed' = IF r = latest THEN calls[r].list = None ELSE missed
  /\ Put(r, Free)
  /\ UNCHANGED <<cache, value, timer, latest>>

\* The answer reaches the browser; an error leaves the options as they are.
Deliver(r) ==
  /\ calls[r].at = "answered"
  /\ IF r = latest
     THEN /\ options' = IF calls[r].list # None THEN calls[r].text ELSE options
          /\ missed' = (calls[r].list = None)
     ELSE UNCHANGED <<options, missed>>
  /\ Put(r, Free)
  /\ UNCHANGED <<cache, value, timer, latest>>

\* The page is left and opened again: a new picker, with mountedRef of the old
\* one FALSE, so that none of its answers counts.
Leave ==
  /\ value' = Short /\ timer' = None /\ latest' = None
  /\ options' = None /\ missed' = FALSE
  /\ UNCHANGED <<cache, calls>>

-----------------------------------------------------------------------------
(* The route *)

Fresh == cache.stamp # None /\ cache.stamp < Ttl

\* Up to the await: from the cache, or `now` is kept and the list asked for.
Serve(r) ==
  /\ calls[r].at = "sent"
  /\ IF Fresh THEN Put(r, Answered(r, cache.list))
              ELSE Put(r, [calls[r] EXCEPT !.at = "loading", !.began = 0])
  /\ UNCHANGED <<cache, picker>>

\* The exchange makes the list.
Listed(r) ==
  /\ calls[r].at = "loading" /\ calls[r].list = None
  /\ Put(r, [calls[r] EXCEPT !.list = 0])
  /\ UNCHANGED <<cache, picker>>

\* Mutant: the entry is stamped when it is stored.
StoreStampedLate(r) ==
  /\ calls[r].at = "loading" /\ calls[r].list # None
  /\ cache' = [stamp |-> 0, list |-> calls[r].list]
  /\ Put(r, Answered(r, calls[r].list))
  /\ UNCHANGED picker

\* After the await: the entry is replaced, by a later one or not.
Store(r) ==
  /\ calls[r].at = "loading" /\ calls[r].list # None
  /\ cache' = [stamp |-> calls[r].began, list |-> calls[r].list]
  /\ Put(r, Answered(r, calls[r].list))
  /\ UNCHANGED picker

\* Mutant: a failed load starts over.
FailAgain(r) ==
  /\ calls[r].at = "loading"
  /\ Put(r, [calls[r] EXCEPT !.began = 0, !.list = None])
  /\ UNCHANGED <<cache, picker>>

\* list_symbols raises after its attempts.
Fail(r) ==
  /\ calls[r].at = "loading"
  /\ Put(r, Answered(r, None))
  /\ UNCHANGED <<cache, picker>>

\* A request to the exchange ends before it is Load old.
Tick ==
  /\ \A r \in Requests : calls[r].at = "loading" => calls[r].began < Load
  /\ cache' = [stamp |-> Older(cache.stamp), list |-> Older(cache.list)]
  /\ calls' = [r \in Requests |->
       IF calls[r].at # "loading" THEN calls[r]
       ELSE [calls[r] EXCEPT !.began = @ + 1, !.list = Older(@)]]
  /\ UNCHANGED picker

-----------------------------------------------------------------------------
Init ==
  /\ cache = [stamp |-> None, list |-> None]
  /\ calls = [r \in Requests |-> Free]
  /\ value = Short /\ timer = None /\ latest = None /\ options = None
  /\ missed = FALSE

Route(r) == Serve(r) \/ Listed(r) \/ Store(r) \/ Fail(r)

Next ==
  \/ \E v \in Texts \cup {Short} : Type(v)
  \/ \E r \in Requests : Fire(r) \/ Deliver(r) \/ Route(r)
  \/ Leave \/ Tick

Spec == Init /\ [][Next]_vars

\* Timers fire, coroutines run, a request to the exchange ends (get_json makes a
\* bounded number of attempts) and answers arrive or fail.
Fairness ==
  /\ WF_vars(\E r \in Requests : Fire(r))
  /\ \A r \in Requests : WF_vars(Route(r)) /\ WF_vars(Deliver(r))

FairSpec == Spec /\ Fairness

-----------------------------------------------------------------------------
(* Properties *)

TypeOK ==
  /\ cache \in [stamp : 0..Oldest \cup {None}, list : 0..Oldest \cup {None}]
  /\ calls \in [Requests -> Calls]
  /\ value \in Texts \cup {Short} /\ timer \in Texts \cup {None}
  /\ latest \in Requests \cup {None} /\ options \in Texts \cup {None}
  /\ missed \in BOOLEAN

\* A list the route answers with was made less than an hour ago, in whatever order
\* overlapping requests store their lists, however long the exchange took: the
\* stamp is taken before the await (meta.py symbols).
ServedFresh ==
  \A r \in Requests :
    calls[r].at = "answered" /\ calls[r].list # None => calls[r].list < Ttl

\* Once nothing is under way the options are those of the text in the box, unless
\* its request failed, in whatever order the answers came (reqIdRef).  A short
\* text is left out: clearing the box does not change the request id.
QuietIsCurrent ==
  /\ value \in Texts /\ timer = None /\ ~missed
  /\ latest # None /\ ~Under(latest)
  => options = value

\* A text that stays in the box gets its options, or an error.
OptionsCome ==
  \A v \in Texts : <>[](value = v) => <>(options = v \/ missed)
=============================================================================
