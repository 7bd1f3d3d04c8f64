------------------------- MODULE SymbolSearch_proofs -------------------------
(***************************************************************************)
(* SymbolSearch for any texts, any number of requests under way, any time  *)
(* to live and any time the exchange takes below it.                       *)
(***************************************************************************)
EXTENDS SymbolSearch, TLAPS

\* An age that is not at its bound is one more, and stays an age.
LEMMA OlderAge ==
  ASSUME NEW a \in 0..Oldest
  PROVE  Older(a) \in 0..Oldest /\ (a < Oldest => Older(a) = a + 1) /\ (a = Oldest => Older(a) = a)
BY SearchAssumption DEF Older, Oldest

\* No age is no age.
LEMMA OlderNone == Older(None) = None
BY SearchAssumption DEF Older, Oldest

\* An answer is a call like any other.
LEMMA AnsweredCall ==
  ASSUME TypeOK, NEW r \in Requests, NEW list \in 0..Oldest \cup {None}
  PROVE  Answered(r, list) \in Calls
<1>1. calls[r] \in Calls
  BY DEF TypeOK
<1> QED
  BY <1>1 DEF Answered, Calls

\* A list is no older than the stamp of its entry or the begin of its request, and
\* an answer carries a list younger than the time to live.
AgesOK ==
  /\ cache.stamp # None => cache.list # None /\ cache.list <= cache.stamp
  /\ \A r \in Requests :
       /\ calls[r].at = "sent" => calls[r].list = None
       /\ calls[r].at = "loading" =>
            calls[r].began # None /\ (calls[r].list # None => calls[r].list <= calls[r].began)
       /\ calls[r].at = "answered" => calls[r].began = None

\* The timer and the request of the latest id are for the text in the box.
TextsOK ==
  /\ timer # None => timer = value
  /\ value \in Texts /\ timer = None /\ latest # None /\ Under(latest) =>
       calls[latest].text = value

SearchInv == TypeOK /\ AgesOK /\ TextsOK /\ ServedFresh /\ QuietIsCurrent

\* Every step keeps all of it.
LEMMA SearchStep == SearchInv /\ [Next]_vars => SearchInv'
<1> SUFFICES ASSUME SearchInv, [Next]_vars PROVE SearchInv'
  OBVIOUS
<1> USE SearchAssumption
    DEF SearchInv, TypeOK, AgesOK, TextsOK, ServedFresh, QuietIsCurrent, Under, Free, Put,
        Answered, picker, Oldest, Calls
<1>1. ASSUME NEW v \in Texts \cup {Short}, Type(v) PROVE SearchInv'
  <2>1. TypeOK'
    BY <1>1 DEF Type
  <2>2. AgesOK'
    BY <1>1 DEF Type
  <2>3. TextsOK'
    BY <1>1 DEF Type
  <2>4. ServedFresh'
    BY <1>1 DEF Type
  <2>5. QuietIsCurrent'
    BY <1>1 DEF Type
  <2> QED
    BY <2>1, <2>2, <2>3, <2>4, <2>5
<1>2. ASSUME NEW r \in Requests, Fire(r) PROVE SearchInv'
  <2>1. TypeOK'
    BY <1>2 DEF Fire
  <2>2. AgesOK'
    BY <1>2 DEF Fire
  <2>3. TextsOK'
    BY <1>2 DEF Fire
  <2>4. ServedFresh'
    BY <1>2 DEF Fire
  <2>5. QuietIsCurrent'
    BY <1>2 DEF Fire
  <2> QED
    BY <2>1, <2>2, <2>3, <2>4, <2>5
<1>3. ASSUME NEW r \in Requests, Deliver(r) PROVE SearchInv'
  <2>1. TypeOK'
    BY <1>3 DEF Deliver
  <2>2. AgesOK'
    BY <1>3 DEF Deliver
  <2>3. TextsOK'
    BY <1>3 DEF Deliver
  <2>4. ServedFresh'
    BY <1>3 DEF Deliver
  <2>5. QuietIsCurrent'
    BY <1>3 DEF Deliver
  <2> QED
    BY <2>1, <2>2, <2>3, <2>4, <2>5
<1>4. ASSUME NEW r \in Requests, Serve(r) PROVE SearchInv'
  <2>1. CASE Fresh
    <3>1. /\ calls' = [calls EXCEPT ![r] = Answered(r, cache.list)]
          /\ calls[r].at = "sent" /\ UNCHANGED <<cache, value, timer, latest, options, missed>>
      BY <1>4, <2>1 DEF Serve
    <3>2. cache.list \in 0..Oldest /\ cache.list < Ttl
      BY <2>1 DEF Fresh
    <3>3. Answered(r, cache.list) \in Calls
      BY AnsweredCall, <3>2
    <3>4. TypeOK'
      BY <3>1, <3>3
    <3>5. AgesOK' /\ ServedFresh'
      BY <3>1, <3>2
    <3>6. TextsOK' /\ QuietIsCurrent'
      BY <3>1
    <3> QED
      BY <3>4, <3>5, <3>6
  <2>2. CASE ~Fresh
    <3>1. /\ calls' = [calls EXCEPT ![r] = [calls[r] EXCEPT !.at = "loading", !.began = 0]]
          /\ calls[r].at = "sent" /\ UNCHANGED <<cache, value, timer, latest, options, missed>>
      BY <1>4, <2>2 DEF Serve
    <3>2. [calls[r] EXCEPT !.at = "loading", !.began = 0] \in Calls
      <4>1. calls[r] \in Calls /\ 0 \in 0..Load
        OBVIOUS
      <4> HIDE DEF TypeOK, AgesOK, TextsOK, ServedFresh, QuietIsCurrent, Oldest
      <4> QED
        BY <4>1
    <3> HIDE DEF Calls
    <3>5. TypeOK'
      BY <3>1, <3>2
    <3> USE DEF Calls
    <3>3. AgesOK' /\ ServedFresh'
      BY <3>1
    <3>4. TextsOK' /\ QuietIsCurrent'
      BY <3>1
    <3> QED
      BY <3>3, <3>4, <3>5
  <2> QED
    BY <2>1, <2>2
<1>5. ASSUME NEW r \in Requests, Listed(r) PROVE SearchInv'
  <2>1. TypeOK'
    BY <1>5 DEF Listed
  <2>2. AgesOK'
    BY <1>5 DEF Listed
  <2>3. TextsOK'
    BY <1>5 DEF Listed
  <2>4. ServedFresh'
    BY <1>5 DEF Listed
  <2>5. QuietIsCurrent'
    BY <1>5 DEF Listed
  <2> QED
    BY <2>1, <2>2, <2>3, <2>4, <2>5
<1>6. ASSUME NEW r \in Requests, Store(r) PROVE SearchInv'
  <2>1. TypeOK'
    <3>1. Answered(r, calls[r].list) \in Calls
      BY AnsweredCall DEF Calls
    <3>2. cache'.stamp \in 0..Oldest \cup {None} /\ cache'.list \in 0..Oldest \cup {None}
      BY <1>6 DEF Store, Calls
    <3> QED
      BY <1>6, <3>1, <3>2 DEF Store
  <2>2. AgesOK'
    BY <1>6 DEF Store
  <2>3. TextsOK'
    BY <1>6 DEF Store
  <2>4. ServedFresh'
    BY <1>6 DEF Store
  <2>5. QuietIsCurrent'
    BY <1>6 DEF Store
  <2> QED
    BY <2>1, <2>2, <2>3, <2>4, <2>5
<1>7. ASSUME NEW r \in Requests, Fail(r) PROVE SearchInv'
  <2>1. TypeOK'
    BY <1>7, AnsweredCall DEF Fail
  <2>2. AgesOK'
    BY <1>7 DEF Fail
  <2>3. TextsOK'
    BY <1>7 DEF Fail
  <2>4. ServedFresh'
    BY <1>7 DEF Fail
  <2>5. QuietIsCurrent'
    BY <1>7 DEF Fail
  <2> QED
    BY <2>1, <2>2, <2>3, <2>4, <2>5
<1>8. CASE Leave
  <2>1. TypeOK'
    BY <1>8 DEF Leave
  <2>2. AgesOK'
    BY <1>8 DEF Leave
  <2>3. TextsOK'
    BY <1>8 DEF Leave
  <2>4. ServedFresh'
    BY <1>8 DEF Leave
  <2>5. QuietIsCurrent'
    BY <1>8 DEF Leave
  <2> QED
    BY <2>1, <2>2, <2>3, <2>4, <2>5
<1>9. CASE Tick
  <2>1. /\ cache'.stamp = Older(cache.stamp) /\ cache'.list = Older(cache.list)
        /\ cache' \in [stamp : 0..Oldest \cup {None}, list : 0..Oldest \cup {None}]
    BY <1>9, OlderAge, OlderNone DEF Tick
  <2>2. cache'.stamp # None => cache'.list # None /\ cache'.list <= cache'.stamp
    <3>1. CASE cache.stamp = None
      BY <2>1, <3>1, OlderNone
    <3>2. CASE cache.stamp # None
      BY <2>1, <3>2, OlderAge
    <3> QED
      BY <3>1, <3>2
  <2>3. ASSUME NEW r \in Requests
        PROVE  calls'[r] = IF calls[r].at # "loading" THEN calls[r]
                           ELSE [calls[r] EXCEPT !.began = @ + 1, !.list = Older(@)]
    BY <1>9 DEF Tick
  <2>4. ASSUME NEW r \in Requests, calls[r].at = "loading"
        PROVE  /\ calls'[r] \in Calls /\ calls'[r].at = "loading"
               /\ calls'[r].text = calls[r].text
               /\ calls'[r].began = calls[r].began + 1 /\ calls'[r].began \in 0..Load
               /\ calls'[r].list = Older(calls[r].list)
               /\ calls'[r].list # None => calls'[r].list <= calls'[r].began
    <3>1. calls[r].began \in 0..Load /\ calls[r].began < Load
      BY <1>9, <2>4 DEF Tick
    <3>2. /\ Older(calls[r].list) \in 0..Oldest \cup {None}
          /\ Older(calls[r].list) # None => Older(calls[r].list) <= calls[r].began + 1
      BY <2>4, <3>1, OlderAge, OlderNone
    <3>3. calls'[r] = [calls[r] EXCEPT !.began = @ + 1, !.list = Older(@)]
      BY <2>3, <2>4
    <3>4. calls[r] \in Calls /\ calls[r].began + 1 \in 0..Load
      BY <3>1
    <3> HIDE DEF TypeOK, AgesOK, TextsOK, ServedFresh, QuietIsCurrent, Oldest
    <3> QED
      BY <2>4, <3>2, <3>3, <3>4
  <2>5. TypeOK'
    <3>1. calls' \in [Requests -> Calls]
      <4> HIDE DEF Calls
      <4> QED
        BY <1>9, <2>3, <2>4 DEF Tick
    <3> QED
      BY <1>9, <2>1, <3>1 DEF Tick
  <2>6. AgesOK'
    <3>1. ASSUME NEW r \in Requests, calls[r].at # "loading"
          PROVE  calls'[r] = calls[r]
      BY <2>3, <3>1
    <3>2. ASSUME NEW r \in Requests
          PROVE  /\ calls'[r].at = "sent" => calls'[r].list = None
                 /\ calls'[r].at = "loading" =>
                      /\ calls'[r].began # None
                      /\ calls'[r].list # None => calls'[r].list <= calls'[r].began
                 /\ calls'[r].at = "answered" => calls'[r].began = None
      <4>1. CASE calls[r].at = "loading"
        BY <2>4, <4>1
      <4>2. CASE calls[r].at # "loading"
        BY <3>1, <4>2
      <4> QED
        BY <4>1, <4>2
    <3> QED
      BY <2>2, <3>2
  <2>7. TextsOK' /\ ServedFresh' /\ QuietIsCurrent'
    BY <1>9, <2>3, <2>4 DEF Tick
  <2> QED
    BY <2>5, <2>6, <2>7
<1>10. CASE UNCHANGED vars
  BY <1>10 DEF vars
<1> QED
  BY <1>1, <1>2, <1>3, <1>4, <1>5, <1>6, <1>7, <1>8, <1>9, <1>10 DEF Next, Route

\* The same of every behaviour.
LEMMA AlwaysSearchInv == Spec => []SearchInv
<1>1. ASSUME Init PROVE SearchInv
  <2> USE SearchAssumption, <1>1 DEF Init, Under, Free
  <2>1. TypeOK
    BY DEF TypeOK, Calls
  <2>2. AgesOK /\ TextsOK
    BY DEF AgesOK, TextsOK
  <2>3. ServedFresh /\ QuietIsCurrent
    BY DEF ServedFresh, QuietIsCurrent
  <2> QED
    BY <2>1, <2>2, <2>3 DEF SearchInv
<1> QED
  BY <1>1, SearchStep, PTL DEF Spec

\* Types are kept: every timer asks for a text of two characters or more.
THEOREM TypeCorrect == Spec => []TypeOK
<1>1. SearchInv => TypeOK
  BY DEF SearchInv
<1> QED
  BY <1>1, AlwaysSearchInv, PTL

\* No list is served that is older than the time to live (symbols).
THEOREM AlwaysFresh == Spec => []ServedFresh
<1>1. SearchInv => ServedFresh
  BY DEF SearchInv
<1> QED
  BY <1>1, AlwaysSearchInv, PTL

\* Once nothing is under way the options are for the text in the box
\* (SymbolPicker).
THEOREM QuietCurrent == Spec => []QuietIsCurrent
<1>1. SearchInv => QuietIsCurrent
  BY DEF SearchInv
<1> QED
  BY <1>1, AlwaysSearchInv, PTL
-----------------------------------------------------------------------------
(* A request comes to an end *)

\* What a request has still to go through: the route, the exchange's list, the end
\* of the load, and the way back.
ToGo(r) ==
  CASE calls[r].at = "sent" -> 4
    [] calls[r].at = "loading" -> IF calls[r].list = None THEN 3 ELSE 2
    [] calls[r].at = "answered" -> 1
    [] calls[r].at = "free" -> 0

\* Its own steps bring a request nearer to its end, only the debounce timer begins
\* one anew, and nothing else moves it, however long the clock runs.
Nearer ==
  \A r \in Requests :
    /\ Route(r) \/ Deliver(r) => ToGo(r)' < ToGo(r)
    /\ ToGo(r)' <= ToGo(r) \/ (Fire(r) /\ ToGo(r) = 0)
    /\ ToGo(r)' < ToGo(r) => Route(r) \/ Deliver(r)

\* A step of one request leaves what the others have to go through.
LEMMA OthersWait ==
  ASSUME NEW r \in Requests, NEW s \in Requests, r # s, TypeOK,
         Fire(r) \/ Deliver(r) \/ Route(r)
  PROVE  ToGo(s)' = ToGo(s)
<1>1. calls'[s] = calls[s]
  <2>1. CASE Fire(r) \/ Deliver(r)
    BY <2>1 DEF Fire, Deliver, Put, TypeOK
  <2>2. CASE Serve(r) \/ Listed(r)
    BY <2>2 DEF Serve, Listed, Put, TypeOK
  <2>3. CASE Store(r) \/ Fail(r)
    BY <2>3 DEF Store, Fail, Put, TypeOK
  <2> QED
    BY <2>1, <2>2, <2>3 DEF Route
<1> QED
  BY <1>1 DEF ToGo

\* A step of a request's own: from "sent" to its list, to its answer, to its end.
LEMMA OwnStepNearer ==
  ASSUME NEW r \in Requests, TypeOK, Route(r) \/ Deliver(r)
  PROVE  ToGo(r)' < ToGo(r)
<1> USE SearchAssumption
<1>0. calls \in [Requests -> Calls] /\ calls[r] \in Calls
  BY DEF TypeOK
<1>1. /\ \A l : Answered(r, l).at = "answered"
      /\ [calls[r] EXCEPT !.at = "loading", !.began = 0].at = "loading"
  BY <1>0 DEF Answered, Calls
<1>2. CASE Serve(r)
  <2>1. calls[r].at = "sent" /\ calls'[r].at \in {"answered", "loading"}
    <3>1. CASE Fresh
      BY <1>0, <1>1, <1>2, <3>1 DEF Serve, Put
    <3>2. CASE ~Fresh
      BY <1>0, <1>1, <1>2, <3>2 DEF Serve, Put
    <3> QED
      BY <3>1, <3>2
  <2> QED
    BY <2>1 DEF ToGo
<1>3. CASE Listed(r)
  <2>1. /\ calls[r].at = "loading" /\ calls[r].list = None
        /\ calls'[r].at = "loading" /\ calls'[r].list = 0
    BY <1>0, <1>3 DEF Listed, Put, Calls
  <2>2. 0 # None
    OBVIOUS
  <2> QED
    BY <2>1, <2>2 DEF ToGo
<1>4. CASE Store(r) \/ Fail(r)
  <2>1. calls[r].at = "loading" /\ calls'[r].at = "answered"
    BY <1>0, <1>1, <1>4 DEF Store, Fail, Put
  <2> QED
    BY <2>1 DEF ToGo
<1>5. CASE Deliver(r)
  <2>1. calls[r].at = "answered" /\ calls'[r].at = "free"
    BY <1>0, <1>5 DEF Deliver, Put, Free
  <2> QED
    BY <2>1 DEF ToGo
<1> QED
  BY <1>2, <1>3, <1>4, <1>5 DEF Route

\* The clock and the text box leave what the requests have to go through.
LEMMA ClockWaits ==
  ASSUME NEW r \in Requests, TypeOK,
         Tick \/ Leave \/ (\E v \in Texts \cup {Short} : Type(v)) \/ UNCHANGED vars
  PROVE  ToGo(r)' = ToGo(r)
<1>1. CASE Tick
  <2>1. calls[r] \in Calls
    BY DEF TypeOK
  <2>2. CASE calls[r].at # "loading"
    BY <1>1, <2>2 DEF Tick, ToGo
  <2>3. CASE calls[r].at = "loading"
    <3>1. calls'[r] = [calls[r] EXCEPT !.began = @ + 1, !.list = Older(@)]
      BY <1>1, <2>3 DEF Tick
    <3>2. calls'[r].at = "loading" /\ calls'[r].list = Older(calls[r].list)
      BY <2>1, <2>3, <3>1 DEF Calls
    <3>3. Older(calls[r].list) = None <=> calls[r].list = None
      <4>1. calls[r].list \in 0..Oldest \cup {None}
        BY <2>1 DEF Calls
      <4>2. \A a \in 0..Oldest - 1 : a + 1 # None /\ a # None
        BY SearchAssumption DEF Oldest
      <4> QED
        BY <4>1, <4>2 DEF Older
    <3> QED
      BY <2>3, <3>2, <3>3 DEF ToGo
  <2> QED
    BY <2>2, <2>3
<1>2. CASE UNCHANGED calls
  BY <1>2 DEF ToGo
<1> QED
  BY <1>1, <1>2 DEF Leave, Type, vars

\* A request gets nearer to its end with every step the fairness makes it take, and
\* the user, the clock and the other requests cannot hold it up: at most four steps
\* of its own after the timer fired its answer has come (symbols, SymbolPicker).
THEOREM RequestsRunOut == Spec => [][Nearer]_vars
<1>1. ASSUME SearchInv, [Next]_vars, NEW r \in Requests
      PROVE  /\ Route(r) \/ Deliver(r) => ToGo(r)' < ToGo(r)
             /\ ToGo(r)' <= ToGo(r) \/ (Fire(r) /\ ToGo(r) = 0)
             /\ ToGo(r)' < ToGo(r) => Route(r) \/ Deliver(r)
  <2>0. TypeOK /\ ToGo(r) \in 0..4 /\ ToGo(r)' \in 0..4
    <3>1. TypeOK /\ TypeOK'
      BY <1>1, SearchStep DEF SearchInv
    <3>2. /\ calls[r].at \in {"free", "sent", "loading", "answered"}
          /\ calls'[r].at \in {"free", "sent", "loading", "answered"}
      BY <3>1 DEF TypeOK, Calls
    <3> QED
      BY <3>1, <3>2 DEF ToGo
  <2>1. CASE Route(r) \/ Deliver(r)
    BY <2>0, <2>1, OwnStepNearer
  <2>2. CASE Fire(r)
    <3>1. ToGo(r) = 0 /\ ToGo(r)' = 4
      BY <2>0, <2>2 DEF Fire, Under, Put, Free, ToGo, TypeOK
    <3> QED
      BY <2>0, <2>1, <2>2, <3>1
  <2>3. CASE ToGo(r)' = ToGo(r)
    BY <2>0, <2>1, <2>3
  <2>4. ASSUME NEW s \in Requests, s # r, Fire(s) \/ Deliver(s) \/ Route(s)
        PROVE  ToGo(r)' = ToGo(r)
    BY <2>0, <2>4, OthersWait
  <2> QED
    BY <1>1, <2>0, <2>1, <2>2, <2>3, <2>4, ClockWaits DEF Next
<1>2. SearchInv /\ [Next]_vars => [Nearer]_vars
  BY <1>1 DEF Nearer
<1> QED
  BY <1>2, AlwaysSearchInv, PTL DEF Spec
=============================================================================
