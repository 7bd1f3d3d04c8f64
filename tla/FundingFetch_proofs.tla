------------------------ MODULE FundingFetch_proofs ------------------------
(***************************************************************************)
(* Proofs about FundingFetch: its typing, the soundness of the cache, and  *)
(* that an answer lacks nothing but a possible event at each edge of the   *)
(* window, for any set of fetchers, events, windows and page sizes.        *)
(***************************************************************************)
EXTENDS FundingFetch, FiniteSetTheorems, WellFoundedInduction, TLAPS

USE EventsAssumption, ParametersAssumption

\* Every range missing_ranges yields for a window is a range of instants, the
\* rows being typed.
LEMMA MissingRangesType ==
  ASSUME NEW w \in Windows, rows \subseteq Row
  PROVE  MissingRanges(w) \subseteq Window
<1> DEFINE R == {r \in rows : Within(r.at, w)}
<1>1. R \subseteq Row /\ w \in Window
  BY DEF Window
<1>2. /\ \A r \in Row : r.at \in Nat /\ r.iv \in Nat
      /\ w.from \in Nat /\ w.to \in Nat
  BY <1>1 DEF Row, Window
<1>3. LeadingGaps(R, w) \subseteq Window
  BY <1>1, <1>2 DEF LeadingGaps, Between, Window
<1>4. InteriorGaps(R) \subseteq Window
  BY <1>1, <1>2 DEF InteriorGaps, Adjacent, Between, Window
<1>5. TrailingGaps(R, w) \subseteq Window
  BY <1>1, <1>2 DEF TrailingGaps, Between, Window
<1>6. QED
  BY <1>1, <1>3, <1>4, <1>5 DEF MissingRanges

\* Every step keeps the state well typed.
LEMMA StepKeepsType ==
  ASSUME TypeOK, NEW p \in Fetchers, Step(p)
  PROVE  TypeOK'
<1> USE DEF TypeOK, exchangeVars, pageVars, callVars
<1>1. CASE GetInterval(p)
  BY <1>1 DEF GetInterval
<1>2. CASE GetRanges(p)
  <2>1. MissingRanges(win[p]) \subseteq Window
    BY MissingRangesType
  <2>2. QED
    BY <1>2, <2>1 DEF GetRanges
<1>3. CASE NextGap(p)
  <2>1. PICK g \in gaps[p] : /\ gap' = [gap EXCEPT ![p] = g]
                             /\ gaps' = [gaps EXCEPT ![p] = @ \ {g}]
                             /\ cursor' = [cursor EXCEPT ![p] = g.from]
    BY <1>3 DEF NextGap
  <2>2. g \in Window /\ g.from \in Nat
    BY DEF Window
  <2>3. QED
    BY <1>3, <2>1, <2>2 DEF NextGap
<1>4. CASE FetchRatePage(p)
  <2> DEFINE query == {t \in Settled : cursor[p] <= t /\ t <= gap[p].to}
  <2>1. PICK b \in SUBSET query :
          /\ rates' = [rates EXCEPT ![p] = @ \cup b]
          /\ \/ MorePages(p, b, RateLimit) /\ UNCHANGED pc
             \/ /\ pc' = [pc EXCEPT ![p] = IF rates'[p] = {} THEN "loop"
                                           ELSE "klines"]
                /\ cursor' = [cursor EXCEPT ![p] = gap[p].from]
    BY <1>4 DEF FetchRatePage
  <2>2. b \subseteq Events /\ gap[p] \in Window /\ gap[p].from \in Nat
    BY DEF Settled, Window
  <2>3. cursor' \in [Fetchers -> Nat]
    BY <2>1, <2>2 DEF MorePages
  <2>4. pc' \in [Fetchers -> {"idle", "interval", "ranges", "loop", "rates",
                              "klines", "put", "done", "nomark", "stopped"}]
    BY <2>1
  <2>5. rates' \in [Fetchers -> SUBSET Events]
    BY <2>1, <2>2
  <2>6. QED
    BY <1>4, <2>3, <2>4, <2>5 DEF FetchRatePage
<1>5. CASE FetchKlinePage(p)
  <2> DEFINE query == {k \in Klines(iv[p]) : cursor[p] <= k /\ k <= gap[p].to}
  <2>1. PICK b \in SUBSET query :
          /\ klines' = [klines EXCEPT ![p] = @ \cup b]
          /\ \/ MorePages(p, b, KlineLimit) /\ UNCHANGED <<pc, todo>>
             \/ /\ pc' = [pc EXCEPT ![p] = "put"]
                /\ todo' = [todo EXCEPT ![p] = rates[p]]
                /\ UNCHANGED cursor
             \/ /\ pc' = [pc EXCEPT ![p] = "nomark"]
                /\ UNCHANGED <<cursor, todo>>
    BY <1>5 DEF FetchKlinePage
  <2>2. b \subseteq Nat
    BY DEF Klines
  <2>3. cursor' \in [Fetchers -> Nat]
    BY <2>1, <2>2 DEF MorePages
  <2>4. pc' \in [Fetchers -> {"idle", "interval", "ranges", "loop", "rates",
                              "klines", "put", "done", "nomark", "stopped"}]
    BY <2>1
  <2>5. klines' \in [Fetchers -> SUBSET Nat] /\ todo' \in [Fetchers -> SUBSET Events]
    BY <2>1, <2>2
  <2>6. QED
    BY <1>5, <2>3, <2>4, <2>5 DEF FetchKlinePage
<1>6. CASE PutRow(p)
  <2>1. PICK t \in todo[p], k \in klines[p] :
          /\ rows' = Upsert([at |-> t, iv |-> iv[p], mark |-> k])
          /\ todo' = [todo EXCEPT ![p] = @ \ {t}]
          /\ pc' = [pc EXCEPT ![p] = IF todo[p] = {t} THEN "loop" ELSE "put"]
    BY <1>6 DEF PutRow
  <2>2. [at |-> t, iv |-> iv[p], mark |-> k] \in Row
    BY DEF Row
  <2>3. rows' \subseteq Row
    BY <2>1, <2>2 DEF Upsert
  <2>4. QED
    BY <1>6, <2>1, <2>3 DEF PutRow
<1>7. CASE Return(p)
  BY <1>7 DEF Return, Cached, Row
<1>8. QED
  BY <1>1, <1>2, <1>3, <1>4, <1>5, <1>6, <1>7 DEF Step

\* The variables hold what the code puts in them.
THEOREM TypeCorrect == Spec => []TypeOK
<1>1. Init => TypeOK
  BY DEF Init, TypeOK, Between, Window
<1>2. TypeOK /\ [Next]_vars => TypeOK'
  <2> SUFFICES ASSUME TypeOK, [Next]_vars
               PROVE  TypeOK'
    OBVIOUS
  <2> USE DEF TypeOK, exchangeVars, pageVars, callVars
  <2>1. CASE Publish
    BY <2>1 DEF Publish
  <2>2. CASE ChangeInterval
    BY <2>2 DEF ChangeInterval
  <2>3. CASE Clear
    BY <2>3 DEF Clear, Active
  <2>4. ASSUME NEW p \in Fetchers, Step(p)
        PROVE  TypeOK'
    BY <2>4, StepKeepsType
  <2>5. ASSUME NEW p \in Fetchers, Stop(p)
        PROVE  TypeOK'
    BY <2>5 DEF Stop
  <2>6. ASSUME NEW p \in Fetchers, NEW w \in Windows, Call(p, w)
        PROVE  TypeOK'
    BY <2>6 DEF Call, Settled
  <2>7. CASE UNCHANGED vars
    BY <2>7 DEF vars
  <2>8. QED
    BY <2>1, <2>2, <2>3, <2>4, <2>5, <2>6, <2>7 DEF Next
<1>3. QED
  BY <1>1, <1>2, PTL DEF Spec

-----------------------------------------------------------------------------
(* Soundness of the cache *)

InGap(t, p) == gap[p].from <= t /\ t <= gap[p].to

\* The rates read so far are settled events of the gap, the klines read so far
\* are all the klines of the gap before the cursor, and what is still to be
\* inserted has all the klines that can price it.
FetchSound(p) ==
  /\ pc[p] \in {"rates", "klines", "put"} =>
       \A t \in rates[p] : t <= now /\ InGap(t, p)
  /\ pc[p] = "rates" => klines[p] = {}
  /\ pc[p] \in {"rates", "klines"} => gap[p].from <= cursor[p]
  /\ pc[p] \in {"klines", "put"} =>
       \A k \in klines[p] : k \in Klines(iv[p]) /\ gap[p].from <= k
  /\ pc[p] = "klines" =>
       /\ cursor[p] = gap[p].from \/ cursor[p] <= now + 1
       /\ \A k \in Klines(iv[p]) :
            gap[p].from <= k /\ k < cursor[p] => k \in klines[p]
  /\ pc[p] = "put" =>
       /\ todo[p] \subseteq rates[p]
       /\ \A t \in todo[p], k \in Klines(iv[p]) :
            gap[p].from <= k /\ k <= t => k \in klines[p]

SoundInv ==
  /\ TypeOK
  /\ CacheSound
  /\ \A p \in Fetchers : FetchSound(p)

\* The last page of a loop holds everything the query still had.
LEMMA LastPageIsWhole ==
  ASSUME TypeOK, NEW p \in Fetchers, NEW Q \in SUBSET Nat,
         NEW limit \in Nat, NEW b,
         IsPage(b, {t \in Q : cursor[p] <= t /\ t <= gap[p].to}, limit),
         LastPage(p, b, limit)
  PROVE  b = {t \in Q : cursor[p] <= t /\ t <= gap[p].to}
<1> DEFINE S == {t \in Q : cursor[p] <= t /\ t <= gap[p].to}
<1>1. CASE Cardinality(b) < limit
  BY <1>1 DEF IsPage
<1>2. CASE gap[p].to \in b
  <2>1. gap[p].to \in Nat
    BY DEF TypeOK, Window
  <2>2. \A t \in S : t = gap[p].to \/ t < gap[p].to
    BY <2>1
  <2>3. b \subseteq S /\ \A t \in S : t < gap[p].to => t \in b
    BY <1>2 DEF IsPage
  <2>4. QED
    BY <1>2, <2>2, <2>3
<1>3. QED
  BY <1>1, <1>2 DEF LastPage

\* A page that is followed by another holds everything up to the next cursor.
LEMMA PageIsPrefix ==
  ASSUME TypeOK, NEW p \in Fetchers, NEW Q \in SUBSET Nat,
         NEW limit \in Nat, NEW b,
         IsPage(b, {t \in Q : cursor[p] <= t /\ t <= gap[p].to}, limit),
         MorePages(p, b, limit)
  PROVE  /\ cursor'[p] \in Nat
         /\ \E last \in Q : cursor'[p] = last + 1
         /\ \A t \in Q : cursor[p] <= t /\ t < cursor'[p] => t \in b
<1> DEFINE S == {t \in Q : cursor[p] <= t /\ t <= gap[p].to}
<1>1. b \subseteq S /\ \A t \in b, u \in S : u < t => u \in b
  BY DEF IsPage
<1>2. PICK last \in b : last + 1 <= gap[p].to /\ cursor'[p] = last + 1
  BY DEF MorePages, TypeOK
<1>3. last \in Q /\ last \in Nat /\ gap[p].to \in Nat
  BY <1>1 DEF TypeOK, Window
<1>4. ASSUME NEW t \in Q, cursor[p] <= t, t < last + 1
      PROVE  t \in b
  <2>1. t \in S
    <3>1. t \in Nat /\ last + 1 <= gap[p].to
      BY <1>2
    <3>2. t <= gap[p].to
      BY <1>3, <1>4, <3>1
    <3>3. QED
      BY <1>4, <3>2
  <2>2. t = last \/ t < last
    BY <1>3, <1>4
  <2>3. QED
    BY <1>1, <2>1, <2>2
<1>5. QED
  BY <1>2, <1>3, <1>4

\* A mark chosen among the klines read is the one chosen among all klines.
LEMMA MarkIsCanonical ==
  ASSUME TypeOK, NEW p \in Fetchers, FetchSound(p), pc[p] = "put",
         NEW t \in todo[p], NEW k \in klines[p],
         IsMark(k, t, klines[p], iv[p])
  PROVE  IsMark(k, t, Klines(iv[p]), iv[p])
<1>1. k \in Klines(iv[p]) /\ gap[p].from <= k
  BY DEF FetchSound
<1>2. t \in Nat /\ gap[p].from \in Nat /\ k \in Nat
  BY DEF TypeOK, Window
<1>3. ASSUME NEW h \in Klines(iv[p]), h <= t
      PROVE  h <= k
  <2>1. h \in Nat
    BY DEF Klines, TypeOK
  <2>2. CASE gap[p].from <= h
    BY <1>3, <2>2 DEF FetchSound, IsMark
  <2>3. CASE h < gap[p].from
    BY <1>1, <1>2, <2>1, <2>3
  <2>4. QED
    BY <1>2, <2>1, <2>2, <2>3
<1>4. QED
  BY <1>1, <1>3 DEF IsMark

\* A mark stays the right one as the exchange's clock advances.
LEMMA MarkIsStable ==
  ASSUME NEW t \in Nat, t <= now, now \in Nat, now' \in Nat,
         now <= now', NEW i, NEW k, IsMark(k, t, Klines(i), i)
  PROVE  IsMark(k, t, Klines(i)', i)
BY DEF IsMark, Klines

\* What one fetcher has read does not concern another, and only the clock and
\* its own steps change what FetchSound says of a fetcher.
LEMMA OthersKeepFetchSound ==
  ASSUME TypeOK, TypeOK', NEW p \in Fetchers, FetchSound(p), now <= now',
         pc'[p] = pc[p] \/ pc'[p] \notin {"rates", "klines", "put"},
         UNCHANGED <<iv[p], gap[p], cursor[p], rates[p], klines[p], todo[p]>>
  PROVE  FetchSound(p)'
<1>1. CASE pc'[p] \notin {"rates", "klines", "put"}
  BY <1>1 DEF FetchSound
<1>2. CASE pc'[p] = pc[p] /\ pc[p] \in {"rates", "klines", "put"}
  <2>1. /\ now \in Nat /\ now' \in Nat /\ cursor[p] \in Nat
        /\ gap[p].from \in Nat
        /\ \A t \in rates[p] : t \in Nat
    BY DEF TypeOK, Window
  <2>2. \A k \in Klines(iv[p]) : k \in Klines(iv[p])'
    BY <2>1, <1>2 DEF Klines
  <2>3. \A k \in Klines(iv[p])' : k \in Nat /\ (k <= now => k \in Klines(iv[p]))
    BY <2>1, <1>2 DEF Klines
  <2>4. \A t \in rates[p] : t <= now' /\ InGap(t, p)'
    BY <1>2, <2>1 DEF FetchSound, InGap
  <2>5. /\ pc[p] = "rates" => klines'[p] = {}
        /\ pc[p] \in {"rates", "klines"} => gap'[p].from <= cursor'[p]
    BY DEF FetchSound
  <2>6. pc[p] \in {"klines", "put"} =>
          \A k \in klines'[p] : k \in Klines(iv[p])' /\ gap'[p].from <= k
    BY <2>2 DEF FetchSound
  <2>7. ASSUME pc[p] = "klines"
        PROVE  /\ cursor[p] = gap[p].from \/ cursor[p] <= now' + 1
               /\ \A k \in Klines(iv[p])' :
                    gap[p].from <= k /\ k < cursor[p] => k \in klines[p]
    <3>1. cursor[p] = gap[p].from \/ cursor[p] <= now + 1
      BY <2>7 DEF FetchSound
    <3>2. ASSUME NEW k \in Klines(iv[p])', gap[p].from <= k, k < cursor[p]
          PROVE  k \in klines[p]
      <4>1. k <= now
        BY <2>1, <2>3, <3>1, <3>2
      <4>2. QED
        BY <2>3, <2>7, <3>2, <4>1 DEF FetchSound
    <3>3. QED
      BY <2>1, <3>1, <3>2
  <2>8. ASSUME pc[p] = "put"
        PROVE  /\ todo[p] \subseteq rates[p]
               /\ \A t \in todo[p], k \in Klines(iv[p])' :
                    gap[p].from <= k /\ k <= t => k \in klines[p]
    <3>1. \A t \in todo[p] : t \in Nat /\ t <= now
      BY <2>1, <2>8 DEF FetchSound
    <3>2. QED
      BY <2>1, <2>3, <2>8, <3>1 DEF FetchSound
  <2>9. QED
    <3>1. /\ pc'[p] = pc[p] /\ iv'[p] = iv[p] /\ gap'[p] = gap[p]
          /\ cursor'[p] = cursor[p] /\ rates'[p] = rates[p]
          /\ klines'[p] = klines[p] /\ todo'[p] = todo[p]
      BY <1>2
    <3>2. QED
      BY <1>2, <2>4, <2>5, <2>6, <2>7, <2>8, <3>1 DEF FetchSound
<1>3. QED
  BY <1>1, <1>2

\* A page of rates read keeps the rates inside the settled part of the gap.
LEMMA RatePageKeepsSound ==
  ASSUME SoundInv, TypeOK', NEW p \in Fetchers, FetchRatePage(p)
  PROVE  FetchSound(p)'
<1> DEFINE query == {t \in Settled : cursor[p] <= t /\ t <= gap[p].to}
<1>1. PICK b \in SUBSET query :
        /\ rates' = [rates EXCEPT ![p] = @ \cup b]
        /\ \/ MorePages(p, b, RateLimit) /\ UNCHANGED pc
           \/ /\ pc' = [pc EXCEPT ![p] = IF rates'[p] = {} THEN "loop"
                                         ELSE "klines"]
              /\ cursor' = [cursor EXCEPT ![p] = gap[p].from]
  BY DEF FetchRatePage
<1>2. UNCHANGED <<now, iv, gap, klines>> /\ pc[p] = "rates" /\ klines[p] = {}
  BY DEF FetchRatePage, SoundInv, FetchSound, exchangeVars
<1>3. gap[p].from <= cursor[p] /\ gap[p].from \in Nat /\ cursor[p] \in Nat
  BY <1>2 DEF SoundInv, FetchSound, TypeOK, Window
<1>4. \A t \in rates'[p] : t <= now' /\ InGap(t, p)'
  <2>1. \A t \in rates[p] : t <= now /\ InGap(t, p)
    BY <1>2 DEF SoundInv, FetchSound
  <2>2. \A t \in b : t \in Nat /\ t <= now /\ cursor[p] <= t /\ t <= gap[p].to
    BY DEF Settled
  <2>3. rates'[p] = rates[p] \cup b
    BY <1>1 DEF SoundInv, TypeOK
  <2>4. QED
    BY <1>2, <1>3, <2>1, <2>2, <2>3 DEF InGap
<1>5. CASE MorePages(p, b, RateLimit) /\ UNCHANGED pc
  <2>1. PICK last \in b : cursor'[p] = last + 1
    BY <1>5 DEF MorePages, SoundInv, TypeOK
  <2>2. last \in Nat /\ cursor[p] <= last
    BY DEF Settled
  <2>3. gap'[p].from <= cursor'[p] /\ klines'[p] = {} /\ pc'[p] = "rates"
    BY <1>2, <1>3, <1>5, <2>1, <2>2
  <2>4. QED
    BY <1>4, <2>3 DEF FetchSound
<1>6. CASE /\ pc' = [pc EXCEPT ![p] = IF rates'[p] = {} THEN "loop"
                                      ELSE "klines"]
           /\ cursor' = [cursor EXCEPT ![p] = gap[p].from]
  <2>1. pc'[p] \in {"loop", "klines"} /\ cursor'[p] = gap[p].from
    BY <1>6 DEF SoundInv, TypeOK
  <2>2. klines'[p] = {} /\ gap'[p] = gap[p]
    BY <1>2
  <2>3. \A k \in Klines(iv[p])' : ~(gap'[p].from <= k /\ k < cursor'[p])
    BY <1>2, <1>3, <2>1, <2>2 DEF Klines, TypeOK
  <2>4. gap'[p].from <= cursor'[p]
    BY <1>3, <2>1, <2>2
  <2>5. QED
    BY <1>4, <2>1, <2>2, <2>3, <2>4 DEF FetchSound
<1>7. QED
  BY <1>1, <1>5, <1>6

\* A page of klines read leaves no hole behind the cursor.
LEMMA KlinePageKeepsSound ==
  ASSUME SoundInv, TypeOK', NEW p \in Fetchers, FetchKlinePage(p)
  PROVE  FetchSound(p)'
<1> DEFINE query == {k \in Klines(iv[p]) : cursor[p] <= k /\ k <= gap[p].to}
<1>1. PICK b \in SUBSET query :
        /\ IsPage(b, query, KlineLimit)
        /\ klines' = [klines EXCEPT ![p] = @ \cup b]
        /\ \/ MorePages(p, b, KlineLimit) /\ UNCHANGED <<pc, todo>>
           \/ /\ LastPage(p, b, KlineLimit)
              /\ pc' = [pc EXCEPT ![p] = "put"]
              /\ todo' = [todo EXCEPT ![p] = rates[p]]
              /\ UNCHANGED cursor
           \/ pc' = [pc EXCEPT ![p] = "nomark"]
  BY DEF FetchKlinePage
<1>2. /\ UNCHANGED <<now, iv, gap, rates>> /\ pc[p] = "klines"
      /\ FetchSound(p) /\ TypeOK
  BY DEF FetchKlinePage, SoundInv, exchangeVars
<1>3. /\ gap[p].from \in Nat /\ gap[p].to \in Nat /\ cursor[p] \in Nat
      /\ now \in Nat /\ Klines(iv[p]) \in SUBSET Nat
      /\ \A k \in Klines(iv[p]) : k \in Nat /\ k <= now
  BY <1>2 DEF TypeOK, Window, Klines
<1>4. klines'[p] = klines[p] \cup b
  BY <1>1, <1>2 DEF TypeOK
<1>5. \A t \in rates'[p] : t <= now' /\ InGap(t, p)'
  BY <1>2 DEF FetchSound, InGap
<1>6. /\ gap[p].from <= cursor[p]
      /\ \A k \in Klines(iv[p]) :
           gap[p].from <= k /\ k < cursor[p] => k \in klines[p]
  BY <1>2 DEF FetchSound
<1>7. \A k \in klines'[p] : k \in Klines(iv[p])' /\ gap'[p].from <= k
  <2>1. \A k \in klines[p] : k \in Klines(iv[p]) /\ gap[p].from <= k
    BY <1>2 DEF FetchSound
  <2>2. \A k \in b : k \in Klines(iv[p]) /\ gap[p].from <= k
    BY <1>3, <1>6
  <2>3. \A k \in Klines(iv[p]) : k \in Klines(iv[p])'
    BY <1>2 DEF Klines
  <2>4. QED
    BY <1>2, <1>4, <2>1, <2>2, <2>3
<1>8. CASE MorePages(p, b, KlineLimit) /\ UNCHANGED <<pc, todo>>
  <2>1. /\ cursor'[p] \in Nat
        /\ \E last \in Klines(iv[p]) : cursor'[p] = last + 1
        /\ \A k \in Klines(iv[p]) : cursor[p] <= k /\ k < cursor'[p] => k \in b
    BY <1>1, <1>2, <1>3, <1>8, PageIsPrefix
  <2>2. \A k \in Klines(iv[p])' :
          gap'[p].from <= k /\ k < cursor'[p] => k \in klines'[p]
    <3>1. \A k \in Klines(iv[p]) :
            gap[p].from <= k /\ k < cursor'[p] => k \in klines'[p]
      BY <1>3, <1>4, <1>6, <2>1
    <3>2. \A k \in Klines(iv[p])' : k \in Klines(iv[p])
      BY <1>2 DEF Klines
    <3>3. QED
      BY <1>2, <3>1, <3>2
  <2>3. cursor'[p] <= now' + 1 /\ gap'[p].from <= cursor'[p]
    BY <1>1, <1>2, <1>3, <1>6, <1>8, <2>1 DEF MorePages, TypeOK
  <2>4. pc'[p] = "klines"
    BY <1>2, <1>8
  <2>5. QED
    BY <1>5, <1>7, <2>2, <2>3, <2>4 DEF FetchSound
<1>9. CASE /\ LastPage(p, b, KlineLimit)
           /\ pc' = [pc EXCEPT ![p] = "put"]
           /\ todo' = [todo EXCEPT ![p] = rates[p]]
  <2>1. b = query
    BY <1>1, <1>2, <1>3, <1>9, LastPageIsWhole
  <2>2. todo'[p] = rates[p] /\ pc'[p] = "put" /\ rates'[p] = rates[p]
    BY <1>2, <1>9 DEF TypeOK
  <2>3. \A t \in rates[p] : t \in Nat /\ t <= gap[p].to
    BY <1>2 DEF FetchSound, InGap, TypeOK
  <2>4. \A t \in todo'[p], k \in Klines(iv[p]) :
          gap[p].from <= k /\ k <= t => k \in klines'[p]
    BY <1>3, <1>4, <1>6, <2>1, <2>2, <2>3
  <2>5. \A k \in Klines(iv[p])' : k \in Klines(iv[p])
    BY <1>2 DEF Klines
  <2>6. QED
    BY <1>2, <1>5, <1>7, <2>2, <2>4, <2>5 DEF FetchSound
<1>10. CASE pc' = [pc EXCEPT ![p] = "nomark"]
  BY <1>2, <1>10 DEF FetchSound, TypeOK
<1>11. QED
  BY <1>1, <1>8, <1>9, <1>10

\* Inserting a row keeps the table sound and the rest of the gap priced.
LEMMA PutKeepsSound ==
  ASSUME SoundInv, TypeOK', NEW p \in Fetchers, PutRow(p)
  PROVE  FetchSound(p)' /\ CacheSound'
<1>1. PICK t \in todo[p], k \in klines[p] :
        /\ IsMark(k, t, klines[p], iv[p])
        /\ rows' = Upsert([at |-> t, iv |-> iv[p], mark |-> k])
        /\ todo' = [todo EXCEPT ![p] = @ \ {t}]
        /\ pc' = [pc EXCEPT ![p] = IF todo[p] = {t} THEN "loop" ELSE "put"]
  BY DEF PutRow
<1>2. /\ UNCHANGED <<now, iv, gap, rates, klines>> /\ pc[p] = "put"
      /\ FetchSound(p) /\ TypeOK /\ CacheSound
  BY DEF PutRow, SoundInv, exchangeVars, pageVars
<1>3. FetchSound(p)'
  <2>1. todo'[p] \subseteq todo[p] /\ pc'[p] \in {"loop", "put"}
    BY <1>1, <1>2 DEF TypeOK
  <2>2. \A i : Klines(i)' = Klines(i)
    BY <1>2 DEF Klines
  <2>3. QED
    BY <1>2, <2>1, <2>2 DEF FetchSound, InGap
<1>4. CacheSound'
  <2> DEFINE r0 == [at |-> t, iv |-> iv[p], mark |-> k]
  <2>1. rows' = {q \in rows : q.at # t} \cup {r0}
    BY <1>1 DEF Upsert
  <2>2. r0.at <= now /\ IsMark(r0.mark, r0.at, Klines(r0.iv), r0.iv)
    <3>1. t <= now
      BY <1>2 DEF FetchSound
    <3>2. IsMark(k, t, Klines(iv[p]), iv[p])
      BY <1>1, <1>2, MarkIsCanonical
    <3>3. QED
      BY <3>1, <3>2
  <2>3. \A i : Klines(i)' = Klines(i)
    BY <1>2 DEF Klines
  <2>4. \A r \in rows' : r.at <= now' /\ IsMark(r.mark, r.at, Klines(r.iv)', r.iv)
    BY <1>2, <2>1, <2>2, <2>3 DEF CacheSound
  <2>5. \A q, r \in rows' : q.at = r.at => q = r
    BY <1>2, <2>1 DEF CacheSound
  <2>6. QED
    BY <2>4, <2>5 DEF CacheSound
<1>5. QED
  BY <1>3, <1>4

\* A step that leaves the table alone, the clock not running backwards, keeps
\* it sound.
LEMMA RowsStaySound ==
  ASSUME SoundInv, TypeOK', rows' \subseteq rows, now <= now'
  PROVE  CacheSound'
<1>1. ASSUME NEW r \in rows
      PROVE  r.at <= now' /\ IsMark(r.mark, r.at, Klines(r.iv)', r.iv)
  <2>1. /\ r.at \in Nat /\ now \in Nat /\ now' \in Nat /\ r.at <= now
        /\ IsMark(r.mark, r.at, Klines(r.iv), r.iv)
    BY <1>1 DEF SoundInv, TypeOK, Row, CacheSound
  <2>2. IsMark(r.mark, r.at, Klines(r.iv)', r.iv)
    BY <2>1, MarkIsStable
  <2>3. QED
    BY <2>1, <2>2
<1>2. QED
  BY <1>1 DEF SoundInv, CacheSound

\* The invariant is inductive.
LEMMA SoundInductive ==
  ASSUME SoundInv, TypeOK', [Next]_vars
  PROVE  SoundInv'
<1>1. TypeOK /\ CacheSound /\ \A p \in Fetchers : FetchSound(p)
  BY DEF SoundInv
<1>2. now \in Nat /\ now' \in Nat
  BY <1>1 DEF TypeOK
<1>3. CASE Publish
  <2>1. now <= now'
    BY <1>2, <1>3 DEF Publish
  <2>2. CacheSound'
    BY <1>3, <2>1, RowsStaySound DEF Publish
  <2>3. ASSUME NEW p \in Fetchers
        PROVE  FetchSound(p)'
    <3>1. /\ pc'[p] = pc[p]
          /\ UNCHANGED <<iv[p], gap[p], cursor[p], rates[p], klines[p], todo[p]>>
      BY <1>3 DEF Publish
    <3>2. QED
      BY <1>1, <2>1, <3>1, OthersKeepFetchSound
  <2>4. QED
    BY <2>2, <2>3 DEF SoundInv
<1>4. CASE ChangeInterval \/ Clear \/ UNCHANGED vars
  <2>1. now' = now /\ rows' \subseteq rows
        /\ UNCHANGED <<pc, iv, gap, cursor, rates, klines, todo>>
    BY <1>4 DEF ChangeInterval, Clear, vars, exchangeVars, pageVars
  <2>2. CacheSound'
    BY <1>2, <2>1, RowsStaySound
  <2>3. ASSUME NEW p \in Fetchers
        PROVE  FetchSound(p)'
    <3>1. /\ pc'[p] = pc[p] /\ now <= now'
          /\ UNCHANGED <<iv[p], gap[p], cursor[p], rates[p], klines[p], todo[p]>>
      BY <1>2, <2>1
    <3>2. QED
      BY <1>1, <3>1, OthersKeepFetchSound
  <2>4. QED
    BY <2>2, <2>3 DEF SoundInv
<1>5. ASSUME NEW p \in Fetchers, Step(p) \/ Stop(p) \/ \E w \in Windows : Call(p, w)
      PROVE  SoundInv'
  <2>1. now' = now /\ now <= now'
    BY <1>2, <1>5 DEF Step, GetInterval, GetRanges, NextGap, FetchRatePage,
         FetchKlinePage, PutRow, Return, Stop, Call, exchangeVars
  <2>2. ASSUME NEW q \in Fetchers, q # p
        PROVE  FetchSound(q)'
    <3>1. /\ pc'[q] = pc[q]
          /\ UNCHANGED <<iv[q], gap[q], cursor[q], rates[q], klines[q], todo[q]>>
      <4>1. CASE GetInterval(p) \/ GetRanges(p) \/ Return(p) \/ Stop(p)
                 \/ \E w \in Windows : Call(p, w)
        BY <1>1, <2>2, <4>1 DEF TypeOK, GetInterval, GetRanges, Return, Stop,
             Call, pageVars
      <4>2. CASE NextGap(p)
        BY <1>1, <2>2, <4>2 DEF TypeOK, NextGap
      <4>3. CASE FetchRatePage(p)
        BY <1>1, <2>2, <4>3 DEF TypeOK, FetchRatePage, MorePages
      <4>4. CASE FetchKlinePage(p)
        BY <1>1, <2>2, <4>4 DEF TypeOK, FetchKlinePage, MorePages
      <4>5. CASE PutRow(p)
        BY <1>1, <2>2, <4>5 DEF TypeOK, PutRow, pageVars
      <4>6. QED
        BY <1>5, <4>1, <4>2, <4>3, <4>4, <4>5 DEF Step
    <3>2. QED
      BY <1>1, <2>1, <3>1, OthersKeepFetchSound
  <2>3. CASE rows' = rows
    <3>1. CacheSound'
      BY <2>1, <2>3, RowsStaySound
    <3>2. FetchSound(p)'
      <4>1. CASE \/ GetInterval(p) \/ GetRanges(p) \/ Return(p) \/ Stop(p)
                 \/ \E w \in Windows : Call(p, w)
        <5>1. pc'[p] \in {"interval", "ranges", "loop", "done", "stopped"}
          BY <1>1, <4>1 DEF TypeOK, GetInterval, GetRanges, Return, Stop, Call
        <5>2. QED
          BY <5>1 DEF FetchSound
      <4>2. CASE NextGap(p)
        <5>1. /\ pc'[p] = "rates" /\ rates'[p] = {} /\ klines'[p] = {}
              /\ cursor'[p] = gap'[p].from
          BY <1>1, <4>2 DEF TypeOK, NextGap
        <5>2. gap'[p].from \in Nat
          BY DEF TypeOK, Window
        <5>3. QED
          BY <5>1, <5>2 DEF FetchSound
      <4>3. CASE FetchRatePage(p)
        BY <4>3, RatePageKeepsSound
      <4>4. CASE FetchKlinePage(p)
        BY <4>4, KlinePageKeepsSound
      <4>5. CASE PutRow(p)
        BY <4>5, PutKeepsSound
      <4>6. QED
        BY <1>5, <4>1, <4>2, <4>3, <4>4, <4>5 DEF Step
    <3>3. QED
      BY <2>2, <3>1, <3>2 DEF SoundInv
  <2>4. CASE PutRow(p)
    BY <2>2, <2>4, PutKeepsSound DEF SoundInv
  <2>5. QED
    BY <1>5, <2>3, <2>4 DEF Step, GetInterval, GetRanges, NextGap,
         FetchRatePage, FetchKlinePage, Return, Stop, Call
<1>6. QED
  BY <1>3, <1>4, <1>5 DEF Next

\* The cache never holds anything but settled events at their right price.
THEOREM CacheAlwaysSound == Spec => []CacheSound
<1>1. Init => SoundInv
  BY DEF Init, SoundInv, CacheSound, FetchSound, TypeOK, Between, Window
<1>2. SoundInv /\ TypeOK' /\ [Next]_vars => SoundInv'
  BY SoundInductive
<1>3. SoundInv => CacheSound
  BY DEF SoundInv
<1>4. QED
  BY <1>1, <1>2, <1>3, TypeCorrect, PTL DEF Spec

-----------------------------------------------------------------------------
(* Completeness of an answer but for the edges of its window *)

\* A non-empty set of naturals has a least element, a bounded one a greatest.
LEMMA LeastElement ==
  ASSUME NEW S \in SUBSET Nat, S # {}
  PROVE  \E m \in S : \A n \in S : m <= n
<1> DEFINE R == OpToRel(<, Nat)
<1>1. PICK m \in S : \A n \in S : ~(<<n, m>> \in R)
  BY NatLessThanWellFounded, WFMin
<1>2. \A n \in S : ~(n < m)
  BY <1>1 DEF OpToRel
<1>3. QED
  BY <1>2

\* A set of naturals with a bound, and with an element, has a greatest one: the last
\* stamp of a page, from which the next page's cursor is computed.
LEMMA GreatestElement ==
  ASSUME NEW S \in SUBSET Nat, S # {}, NEW top \in Nat, \A n \in S : n <= top
  PROVE  \E m \in S : \A n \in S : n <= m
<1> DEFINE T == {top - n : n \in S}
<1>1. T \in SUBSET Nat /\ T # {}
  <2>1. \A n \in S : top - n \in Nat
    OBVIOUS
  <2>2. QED
    BY <2>1
<1>2. PICK d \in T : \A e \in T : d <= e
  BY <1>1, LeastElement
<1>3. PICK m \in S : d = top - m
  BY <1>2
<1>4. \A n \in S : top - m <= top - n
  BY <1>2, <1>3
<1>5. QED
  BY <1>4

\* An event so near to a cached one that missing_ranges may report no gap for it.
Tolerated(t, w) == Near(t, w, {c \in Cached : Within(c, w)})

\* missing_ranges reports every event of the window that is not cached, but
\* for those it tolerates.
LEMMA MissingRangesCover ==
  ASSUME rows \subseteq Row, NEW w \in Windows,
         NEW t \in Events, Within(t, w), t \notin Cached
  PROVE  \/ \E g \in MissingRanges(w) : g.from <= t /\ t <= g.to
         \/ Tolerated(t, w)
<1> DEFINE R == {r \in rows : Within(r.at, w)}
<1> DEFINE Before == {r.at : r \in {q \in R : q.at < t}}
<1> DEFINE After == {r.at : r \in {q \in R : t < q.at}}
<1>1. /\ w.from \in Nat /\ w.to \in Nat /\ t \in Nat
      /\ w.from <= t /\ t <= w.to
  BY DEF Within
<1>2. \A r \in R : /\ r.at \in Events /\ r.at \in Nat /\ r.at \in Cached
                   /\ r.iv \in Intervals /\ r.iv \in Nat \ {0} /\ r.at # t
                   /\ Within(r.at, w)
  BY DEF Row, Cached
<1>3. /\ Before \in SUBSET Nat /\ After \in SUBSET Nat
      /\ \A n \in Before : n <= w.to
  BY <1>1, <1>2 DEF Within
<1>4. /\ \A r \in R : r.at < t /\ 2 * (t - r.at) <= 3 * r.iv => Tolerated(t, w)
      /\ \A r \in R : t < r.at /\ 2 * (r.at - w.from) <= 3 * r.iv => Tolerated(t, w)
  BY <1>2 DEF Tolerated, Near
<1>5. CASE R = {}
  BY <1>1, <1>5 DEF MissingRanges
<1>6. CASE R # {} /\ Before = {}
  <2>1. After # {}
    BY <1>1, <1>2, <1>6
  <2>2. PICK m \in After : \A n \in After : m <= n
    BY <1>3, <2>1, LeastElement
  <2>3. PICK f \in R : f.at = m /\ t < f.at
    BY <2>2
  <2>4. \A q \in R : f.at <= q.at
    BY <1>1, <1>2, <1>6, <2>2, <2>3
  <2>5. CASE TooWide(f.at - w.from, f.iv)
    <3>1. Between(w.from, f.at) \in LeadingGaps(R, w)
      BY <2>3, <2>4, <2>5 DEF LeadingGaps
    <3>2. Between(w.from, f.at) \in MissingRanges(w)
      BY <1>6, <3>1 DEF MissingRanges
    <3>3. QED
      BY <1>1, <1>2, <2>3, <3>2 DEF Between
  <2>6. CASE ~TooWide(f.at - w.from, f.iv)
    <3>1. 2 * (f.at - w.from) <= 3 * f.iv
      BY <1>1, <1>2, <2>3, <2>6 DEF TooWide
    <3>2. QED
      BY <1>4, <2>3, <3>1
  <2>7. QED
    BY <2>5, <2>6
<1>7. CASE Before # {} /\ After = {}
  <2>1. PICK m \in Before : \A n \in Before : n <= m
    BY <1>1, <1>3, <1>7, GreatestElement
  <2>2. PICK l \in R : l.at = m /\ l.at < t
    BY <2>1
  <2>3. \A q \in R : q.at <= l.at
    BY <1>1, <1>2, <1>7, <2>1, <2>2
  <2>4. CASE TooWide(w.to - l.at, l.iv)
    <3>1. Between(l.at + l.iv, w.to) \in TrailingGaps(R, w)
      BY <2>2, <2>3, <2>4 DEF TrailingGaps
    <3>2. Between(l.at + l.iv, w.to) \in MissingRanges(w)
      BY <2>2, <3>1 DEF MissingRanges
    <3>3. CASE l.at + l.iv <= t
      BY <1>1, <3>2, <3>3 DEF Between
    <3>4. CASE ~(l.at + l.iv <= t)
      <4>1. 2 * (t - l.at) <= 3 * l.iv
        BY <1>1, <1>2, <2>2, <3>4
      <4>2. QED
        BY <1>4, <2>2, <4>1
    <3>5. QED
      BY <3>3, <3>4
  <2>5. CASE ~TooWide(w.to - l.at, l.iv)
    <3>1. 2 * (t - l.at) <= 3 * l.iv
      BY <1>1, <1>2, <2>2, <2>5 DEF TooWide
    <3>2. QED
      BY <1>4, <2>2, <3>1
  <2>6. QED
    BY <2>4, <2>5
<1>8. CASE Before # {} /\ After # {}
  <2>1. PICK m \in Before : \A n \in Before : n <= m
    BY <1>1, <1>3, <1>8, GreatestElement
  <2>2. PICK k \in After : \A n \in After : k <= n
    BY <1>3, <1>8, LeastElement
  <2>3. PICK a \in R : a.at = m /\ a.at < t
    BY <2>1
  <2>4. PICK b \in R : b.at = k /\ t < b.at
    BY <2>2
  <2>5. \A q \in R : q.at <= a.at \/ b.at <= q.at
    BY <1>1, <1>2, <2>1, <2>2, <2>3, <2>4
  <2>6. <<a, b>> \in Adjacent(R)
    BY <1>1, <1>2, <2>3, <2>4, <2>5 DEF Adjacent
  <2>7. CASE a.at + a.iv <= t /\ TooWide(b.at - a.at, a.iv)
    <3> DEFINE c == <<a, b>>
    <3>1. c \in Adjacent(R) /\ c[1] = a /\ c[2] = b
      BY <2>6
    <3>2. TooWide(c[2].at - c[1].at, c[1].iv)
      BY <2>7, <3>1
    <3>3. Between(c[1].at + c[1].iv, c[2].at) \in InteriorGaps(R)
      BY <3>1, <3>2 DEF InteriorGaps
    <3>4. Between(a.at + a.iv, b.at) \in MissingRanges(w)
      BY <2>3, <3>1, <3>3 DEF MissingRanges
    <3>5. QED
      BY <1>1, <1>2, <2>4, <2>7, <3>4 DEF Between
  <2>8. CASE ~(a.at + a.iv <= t /\ TooWide(b.at - a.at, a.iv))
    <3>1. 2 * (t - a.at) <= 3 * a.iv
      BY <1>1, <1>2, <2>3, <2>4, <2>8 DEF TooWide
    <3>2. QED
      BY <1>4, <2>3, <3>1
  <2>9. QED
    BY <2>7, <2>8
<1>9. QED
  BY <1>5, <1>6, <1>7, <1>8

Fetching(p) == pc[p] \in {"rates", "klines", "put"}

\* Where a known event is while the fetch runs.
Covered(t, p) ==
  \/ t \in Cached
  \/ \E g \in gaps[p] : g.from <= t /\ t <= g.to
  \/ Fetching(p) /\ InGap(t, p)
  \/ Tolerated(t, win[p])

\* Until the cache is cleared every known event is cached, lies in a range the
\* fetch has still to read, or is tolerated; and the range being read loses none.
FetchCovers(p) ==
  /\ \A t \in known[p] : t <= now /\ Within(t, win[p])
  /\ ~cleared[p] =>
       /\ pc[p] \in {"loop", "rates", "klines", "put"} =>
            \A t \in known[p] : Covered(t, p)
       /\ pc[p] = "rates" =>
            \A t \in known[p] : InGap(t, p) /\ t < cursor[p] => t \in rates[p]
       /\ pc[p] = "klines" =>
            \A t \in known[p] : InGap(t, p) => t \in rates[p]
       /\ pc[p] = "put" =>
            \A t \in known[p] : InGap(t, p) => t \in Cached \/ t \in todo[p]
       /\ pc[p] = "done" =>
            \A t \in known[p] \ answer[p] : Near(t, win[p], answer[p])

CoverInv ==
  /\ TypeOK
  /\ \A p \in Fetchers : FetchCovers(p)

\* The steps of the others only add rows, or are recorded in cleared.
LEMMA OthersKeepCover ==
  ASSUME TypeOK, TypeOK', NEW p \in Fetchers, FetchCovers(p), now <= now',
         UNCHANGED <<pc[p], win[p], gaps[p], gap[p], cursor[p], rates[p],
                     todo[p], answer[p], known[p]>>,
         \/ cleared'[p]
         \/ ~cleared'[p] /\ ~cleared[p] /\ ~Active(p)
         \/ ~cleared'[p] /\ ~cleared[p] /\ Cached \subseteq Cached'
  PROVE  FetchCovers(p)'
<1>1. \A t \in known'[p] : t <= now' /\ Within(t, win'[p])
  <2>1. \A t \in known[p] : t <= now /\ t \in Nat /\ now \in Nat /\ now' \in Nat
    BY DEF FetchCovers, TypeOK
  <2>2. QED
    BY <2>1 DEF FetchCovers
<1>2. CASE cleared'[p]
  BY <1>1, <1>2 DEF FetchCovers
<1>3. CASE ~cleared'[p] /\ ~cleared[p] /\ ~Active(p)
  BY <1>1, <1>3 DEF FetchCovers, Active
<1>4. CASE ~cleared'[p] /\ ~cleared[p] /\ Cached \subseteq Cached'
  <2>1. \A t : Tolerated(t, win[p]) => Tolerated(t, win[p])'
    BY <1>4 DEF Tolerated, Near
  <2>2. \A t : Covered(t, p) => Covered(t, p)'
    BY <1>4, <2>1 DEF Covered, Fetching, InGap
  <2>3. \A t : InGap(t, p)' <=> InGap(t, p)
    BY DEF InGap
  <2>4. QED
    BY <1>1, <1>4, <2>2, <2>3 DEF FetchCovers
<1>5. QED
  BY <1>2, <1>3, <1>4

\* Inserting a row forgets no other event.
LEMMA UpsertKeeps ==
  ASSUME NEW r, rows' = Upsert(r)
  PROVE  Cached' = Cached \cup {r.at}
BY DEF Upsert, Cached

\* The ranges computed from the cache cover what was known.
LEMMA GetRangesCovers ==
  ASSUME CoverInv, TypeOK', NEW p \in Fetchers, GetRanges(p)
  PROVE  FetchCovers(p)'
<1>1. /\ gaps'[p] = MissingRanges(win[p]) /\ pc'[p] = "loop"
      /\ UNCHANGED <<now, rows, win, known, cleared>>
  BY DEF GetRanges, CoverInv, TypeOK, exchangeVars, callVars
<1>2. /\ rows \subseteq Row /\ win[p] \in Windows /\ known[p] \subseteq Events
      /\ \A t \in known[p] : t <= now /\ Within(t, win[p])
  BY DEF CoverInv, TypeOK, FetchCovers
<1>3. ASSUME NEW t \in known[p]
      PROVE  Covered(t, p)'
  <2>1. CASE t \in Cached
    BY <1>1, <2>1 DEF Covered, Cached
  <2>2. CASE t \notin Cached
    <3>1. \/ \E g \in MissingRanges(win[p]) : g.from <= t /\ t <= g.to
          \/ Tolerated(t, win[p])
      BY <1>2, <2>2, MissingRangesCover
    <3>2. Tolerated(t, win[p]) => Tolerated(t, win[p])'
      BY <1>1 DEF Tolerated, Near, Cached
    <3>3. QED
      BY <1>1, <3>1, <3>2 DEF Covered
  <2>3. QED
    BY <2>1, <2>2
<1>4. QED
  BY <1>1, <1>2, <1>3 DEF FetchCovers

\* Beginning a gap takes it over from the list.
LEMMA NextGapCovers ==
  ASSUME CoverInv, TypeOK', NEW p \in Fetchers, NextGap(p)
  PROVE  FetchCovers(p)'
<1>1. PICK g \in gaps[p] : /\ gap' = [gap EXCEPT ![p] = g]
                           /\ gaps' = [gaps EXCEPT ![p] = @ \ {g}]
                           /\ cursor' = [cursor EXCEPT ![p] = g.from]
  BY DEF NextGap
<1>2. /\ pc[p] = "loop" /\ pc'[p] = "rates" /\ gap'[p] = g
      /\ gaps'[p] = gaps[p] \ {g} /\ cursor'[p] = g.from
      /\ UNCHANGED <<now, rows, win, known, cleared>>
  BY <1>1 DEF NextGap, CoverInv, TypeOK, exchangeVars, callVars
<1>3. FetchCovers(p) /\ g.from \in Nat /\ known[p] \subseteq Nat
  <2>1. g \in Window /\ known[p] \subseteq Events
    BY DEF CoverInv, TypeOK
  <2>2. QED
    BY <2>1 DEF CoverInv, Window
<1>4. ASSUME ~cleared[p], NEW t \in known[p]
      PROVE  Covered(t, p)'
  <2>1. Covered(t, p)
    BY <1>2, <1>3, <1>4 DEF FetchCovers
  <2>2. Tolerated(t, win[p]) => Tolerated(t, win[p])'
    BY <1>2 DEF Tolerated, Near, Cached
  <2>3. t \in Cached => t \in Cached'
    BY <1>2 DEF Cached
  <2>4. (\E h \in gaps[p] : h.from <= t /\ t <= h.to) => Covered(t, p)'
    BY <1>2 DEF Covered, Fetching, InGap
  <2>5. QED
    BY <1>2, <2>1, <2>2, <2>3, <2>4 DEF Covered, Fetching
<1>5. \A t \in known'[p] : InGap(t, p)' => ~(t < cursor'[p])
  BY <1>2, <1>3 DEF InGap
<1>6. QED
  BY <1>2, <1>3, <1>4, <1>5 DEF FetchCovers

\* Paging reads every known event of the gap.
LEMMA RatePageCovers ==
  ASSUME CoverInv, TypeOK', NEW p \in Fetchers, FetchRatePage(p)
  PROVE  FetchCovers(p)'
<1> DEFINE query == {t \in Settled : cursor[p] <= t /\ t <= gap[p].to}
<1>1. PICK b \in SUBSET query :
        /\ IsPage(b, query, RateLimit)
        /\ rates' = [rates EXCEPT ![p] = @ \cup b]
        /\ \/ MorePages(p, b, RateLimit) /\ UNCHANGED pc
           \/ /\ LastPage(p, b, RateLimit)
              /\ pc' = [pc EXCEPT ![p] = IF rates'[p] = {} THEN "loop"
                                         ELSE "klines"]
  BY DEF FetchRatePage
<1>2. /\ UNCHANGED <<now, rows, win, known, cleared, gaps, gap, todo, answer>>
      /\ pc[p] = "rates" /\ FetchCovers(p) /\ TypeOK
  BY DEF FetchRatePage, CoverInv, exchangeVars, callVars
<1>3. /\ Settled \in SUBSET Nat /\ rates'[p] = rates[p] \cup b
      /\ cursor[p] \in Nat /\ known[p] \subseteq Nat
      /\ \A t \in known[p] : t \in Settled
  BY <1>1, <1>2 DEF Settled, TypeOK, FetchCovers
<1>4. /\ \A t : Tolerated(t, win[p]) => Tolerated(t, win[p])'
      /\ Cached' = Cached
      /\ \A t : InGap(t, p)' <=> InGap(t, p)
  BY <1>2 DEF Tolerated, Near, Cached, InGap
<1>5. CASE MorePages(p, b, RateLimit) /\ UNCHANGED pc
  <2>1. /\ cursor'[p] \in Nat
        /\ \A t \in Settled : cursor[p] <= t /\ t < cursor'[p] => t \in b
    BY <1>1, <1>2, <1>3, <1>5, PageIsPrefix
  <2>2. ~cleared[p] => \A t \in known[p] :
          InGap(t, p) /\ t < cursor'[p] => t \in rates'[p]
    BY <1>2, <1>3, <2>1 DEF FetchCovers
  <2>3. ~cleared[p] => \A t \in known[p] : Covered(t, p)'
    BY <1>2, <1>4, <1>5 DEF FetchCovers, Covered, Fetching
  <2>4. QED
    BY <1>2, <1>4, <1>5, <2>2, <2>3 DEF FetchCovers
<1>6. CASE /\ LastPage(p, b, RateLimit)
           /\ pc' = [pc EXCEPT ![p] = IF rates'[p] = {} THEN "loop"
                                      ELSE "klines"]
  <2>1. b = query
    BY <1>1, <1>2, <1>3, <1>6, LastPageIsWhole
  <2>2. ~cleared[p] => \A t \in known[p] : InGap(t, p) => t \in rates'[p]
    BY <1>2, <1>3, <2>1 DEF FetchCovers, InGap
  <2>3. \/ rates'[p] = {} /\ pc'[p] = "loop"
        \/ pc'[p] = "klines"
    BY <1>2, <1>6 DEF TypeOK
  <2>4. ASSUME ~cleared[p], NEW t \in known[p]
        PROVE  Covered(t, p)'
    <3>1. Covered(t, p)
      BY <1>2, <2>4 DEF FetchCovers
    <3>2. CASE InGap(t, p)
      BY <1>4, <2>2, <2>3, <2>4, <3>2 DEF Covered, Fetching
    <3>3. CASE ~InGap(t, p)
      BY <1>2, <1>4, <3>1, <3>3 DEF Covered
    <3>4. QED
      BY <3>2, <3>3
  <2>5. QED
    BY <1>2, <1>4, <2>2, <2>3, <2>4 DEF FetchCovers
<1>7. QED
  BY <1>1, <1>5, <1>6

\* Reading klines touches no event, and the merge drops none.
LEMMA KlinePageCovers ==
  ASSUME CoverInv, TypeOK', NEW p \in Fetchers, FetchKlinePage(p)
  PROVE  FetchCovers(p)'
<1>1. /\ UNCHANGED <<now, rows, win, known, cleared, gaps, gap, rates>>
      /\ pc[p] = "klines" /\ FetchCovers(p) /\ TypeOK
      /\ \/ pc'[p] = "klines"
         \/ pc'[p] = "put" /\ todo'[p] = rates[p]
         \/ pc'[p] = "nomark"
  BY DEF FetchKlinePage, CoverInv, exchangeVars, callVars, TypeOK
<1>2. /\ \A t : Tolerated(t, win[p]) => Tolerated(t, win[p])'
      /\ Cached' = Cached
      /\ \A t : InGap(t, p)' <=> InGap(t, p)
  BY <1>1 DEF Tolerated, Near, Cached, InGap
<1>3. ASSUME ~cleared[p], pc'[p] \in {"klines", "put"}, NEW t \in known[p]
      PROVE  Covered(t, p)'
  BY <1>1, <1>2, <1>3 DEF FetchCovers, Covered, Fetching
<1>4. QED
  BY <1>1, <1>2, <1>3 DEF FetchCovers

\* A row inserted moves its event from the gap to the cache; the last one
\* leaves nothing of the gap behind.
LEMMA PutRowCovers ==
  ASSUME CoverInv, TypeOK', NEW p \in Fetchers, PutRow(p)
  PROVE  FetchCovers(p)'
<1>1. PICK t \in todo[p], k \in klines[p] :
        /\ rows' = Upsert([at |-> t, iv |-> iv[p], mark |-> k])
        /\ todo' = [todo EXCEPT ![p] = @ \ {t}]
        /\ pc' = [pc EXCEPT ![p] = IF todo[p] = {t} THEN "loop" ELSE "put"]
  BY DEF PutRow
<1>2. /\ UNCHANGED <<now, win, known, cleared, gaps, gap>>
      /\ pc[p] = "put" /\ FetchCovers(p) /\ TypeOK
  BY DEF PutRow, CoverInv, exchangeVars, callVars, pageVars
<1>3. Cached' = Cached \cup {t}
  BY <1>1, UpsertKeeps
<1>4. /\ \A u : Tolerated(u, win[p]) => Tolerated(u, win[p])'
      /\ \A u : InGap(u, p)' <=> InGap(u, p)
  BY <1>2, <1>3 DEF Tolerated, Near, InGap
<1>5. ~cleared[p] => \A u \in known[p] :
        InGap(u, p) => u \in Cached' \/ u \in todo'[p]
  BY <1>1, <1>2, <1>3 DEF FetchCovers, TypeOK
<1>6. \/ pc'[p] = "loop" /\ todo'[p] = {}
      \/ pc'[p] = "put"
  BY <1>1, <1>2 DEF TypeOK
<1>7. ASSUME ~cleared[p], NEW u \in known[p]
      PROVE  Covered(u, p)'
  <2>1. Covered(u, p)
    BY <1>2, <1>7 DEF FetchCovers
  <2>2. CASE InGap(u, p)
    BY <1>4, <1>5, <1>6, <1>7, <2>2 DEF Covered, Fetching
  <2>3. CASE ~InGap(u, p)
    BY <1>2, <1>3, <1>4, <2>1, <2>3 DEF Covered
  <2>4. QED
    BY <2>2, <2>3
<1>8. QED
  BY <1>2, <1>4, <1>5, <1>6, <1>7 DEF FetchCovers

\* Once no gap is left, the answer lacks only what is tolerated.
LEMMA ReturnCovers ==
  ASSUME CoverInv, TypeOK', NEW p \in Fetchers, Return(p)
  PROVE  FetchCovers(p)'
<1>1. /\ pc[p] = "loop" /\ gaps[p] = {} /\ pc'[p] = "done"
      /\ answer'[p] = {t \in Cached : Within(t, win[p])}
      /\ UNCHANGED <<now, win, known, cleared>>
      /\ FetchCovers(p) /\ TypeOK
  BY DEF Return, CoverInv, TypeOK, exchangeVars, callVars
<1>2. /\ rows \subseteq Row /\ win[p] \in Windows /\ known[p] \in SUBSET Events
      /\ \A t \in known[p] : Within(t, win[p])
  BY <1>1 DEF TypeOK, FetchCovers
<1>3. ASSUME ~cleared[p], NEW t \in known[p], t \notin answer'[p]
      PROVE  Near(t, win[p], answer'[p])
  <2>1. t \in Cached \/ Tolerated(t, win[p])
    BY <1>1, <1>3 DEF FetchCovers, Covered, Fetching
  <2>2. QED
    BY <1>1, <1>2, <1>3, <2>1 DEF Tolerated
<1>4. QED
  BY <1>1, <1>3 DEF FetchCovers, Near

\* The invariant is inductive.
LEMMA CoverInductive ==
  ASSUME CoverInv, TypeOK', [Next]_vars
  PROVE  CoverInv'
<1>1. TypeOK /\ now \in Nat /\ now' \in Nat /\ \A p \in Fetchers : FetchCovers(p)
  BY DEF CoverInv, TypeOK
<1>2. CASE Publish \/ ChangeInterval \/ UNCHANGED vars
  <2>1. /\ now <= now'
        /\ UNCHANGED <<rows, pc, win, gaps, gap, cursor, rates, todo, answer,
                       known, cleared>>
    BY <1>1, <1>2 DEF Publish, ChangeInterval, vars
  <2>2. Cached \subseteq Cached' /\ \A p \in Fetchers : cleared[p] \in BOOLEAN
    BY <1>1, <2>1 DEF Cached, TypeOK
  <2>3. QED
    BY <1>1, <2>1, <2>2, OthersKeepCover DEF CoverInv
<1>3. CASE Clear
  <2>1. /\ now <= now'
        /\ UNCHANGED <<pc, win, gaps, gap, cursor, rates, todo, answer, known>>
    BY <1>1, <1>3 DEF Clear, exchangeVars, pageVars, callVars
  <2>2. ASSUME NEW p \in Fetchers
        PROVE  \/ cleared'[p]
               \/ ~cleared'[p] /\ ~cleared[p] /\ ~Active(p)
    BY <1>1, <1>3 DEF Clear, TypeOK
  <2>3. QED
    BY <1>1, <2>1, <2>2, OthersKeepCover DEF CoverInv
<1>4. ASSUME NEW p \in Fetchers, Step(p) \/ Stop(p) \/ \E w \in Windows : Call(p, w)
      PROVE  CoverInv'
  <2>1. now' = now /\ Cached \subseteq Cached'
    <3>1. now' = now
      BY <1>4 DEF Step, GetInterval, GetRanges, NextGap, FetchRatePage,
           FetchKlinePage, PutRow, Return, Stop, Call, exchangeVars
    <3>2. CASE PutRow(p)
      <4>1. PICK t, k : rows' = Upsert([at |-> t, iv |-> iv[p], mark |-> k])
        BY <3>2 DEF PutRow
      <4>2. QED
        BY <3>1, <4>1, UpsertKeeps
    <3>3. CASE rows' = rows
      BY <3>1, <3>3 DEF Cached
    <3>4. QED
      BY <1>4, <3>1, <3>2, <3>3 DEF Step, GetInterval, GetRanges, NextGap,
           FetchRatePage, FetchKlinePage, Return, Stop, Call
  <2>2. ASSUME NEW q \in Fetchers, q # p
        PROVE  FetchCovers(q)'
    <3>1. UNCHANGED <<pc[q], win[q], gaps[q], gap[q], cursor[q], rates[q],
                      todo[q], answer[q], known[q], cleared[q]>>
      <4>1. CASE GetInterval(p) \/ GetRanges(p) \/ Return(p) \/ Stop(p)
        BY <1>1, <2>2, <4>1 DEF TypeOK, GetInterval, GetRanges, Return, Stop,
             pageVars, callVars
      <4>2. CASE NextGap(p)
        BY <1>1, <2>2, <4>2 DEF TypeOK, NextGap, callVars
      <4>3. CASE FetchRatePage(p)
        BY <1>1, <2>2, <4>3 DEF TypeOK, FetchRatePage, MorePages, callVars
      <4>4. CASE FetchKlinePage(p)
        BY <1>1, <2>2, <4>4 DEF TypeOK, FetchKlinePage, MorePages, callVars
      <4>5. CASE PutRow(p)
        BY <1>1, <2>2, <4>5 DEF TypeOK, PutRow, pageVars, callVars
      <4>6. CASE \E w \in Windows : Call(p, w)
        BY <1>1, <2>2, <4>6 DEF TypeOK, Call, pageVars
      <4>7. QED
        BY <1>4, <4>1, <4>2, <4>3, <4>4, <4>5, <4>6 DEF Step
    <3>2. cleared[q] \in BOOLEAN
      BY <1>1 DEF TypeOK
    <3>3. QED
      BY <1>1, <2>1, <3>1, <3>2, OthersKeepCover
  <2>3. FetchCovers(p)'
    <3>1. CASE GetInterval(p) \/ Stop(p)
      <4>1. /\ pc'[p] \in {"ranges", "stopped"}
            /\ UNCHANGED <<now, win, known>>
        BY <1>1, <3>1 DEF TypeOK, GetInterval, Stop, exchangeVars, callVars
      <4>2. QED
        BY <1>1, <4>1 DEF FetchCovers
    <3>2. CASE \E w \in Windows : Call(p, w)
      <4>1. PICK w \in Windows : Call(p, w)
        BY <3>2
      <4>2. /\ pc'[p] = "interval" /\ win'[p] = w /\ now' = now
            /\ known'[p] = {t \in Settled : Within(t, w)}
        BY <1>1, <4>1 DEF TypeOK, Call, exchangeVars
      <4>3. QED
        BY <4>2 DEF FetchCovers, Settled
    <3>3. CASE GetRanges(p)
      BY <3>3, GetRangesCovers
    <3>4. CASE NextGap(p)
      BY <3>4, NextGapCovers
    <3>5. CASE FetchRatePage(p)
      BY <3>5, RatePageCovers
    <3>6. CASE FetchKlinePage(p)
      BY <3>6, KlinePageCovers
    <3>7. CASE PutRow(p)
      BY <3>7, PutRowCovers
    <3>8. CASE Return(p)
      BY <3>8, ReturnCovers
    <3>9. QED
      BY <1>4, <3>1, <3>2, <3>3, <3>4, <3>5, <3>6, <3>7, <3>8 DEF Step
  <2>4. QED
    BY <2>2, <2>3 DEF CoverInv
<1>5. QED
  BY <1>2, <1>3, <1>4 DEF Next

\* A call that meets no `cache clear` lacks no known event that is more than one and
\* a half intervals from those it returns, however settlements drift, intervals change
\* and fetches run, fail or are repeated (missing_ranges, fetch_funding_rates).
THEOREM AnswersLackOnlyNear == Spec => []LacksOnlyNear
<1>1. Init => CoverInv
  BY DEF Init, CoverInv, FetchCovers, TypeOK, Between, Window
<1>2. CoverInv /\ TypeOK' /\ [Next]_vars => CoverInv'
  BY CoverInductive
<1>3. CoverInv => LacksOnlyNear
  BY DEF CoverInv, FetchCovers, LacksOnlyNear
<1>4. QED
  BY <1>1, <1>2, <1>3, TypeCorrect, PTL DEF Spec

-----------------------------------------------------------------------------
(* FundingFetch implements FundingPromise *)

\* What callers see of where the coroutines stand.
Seen == [p \in Fetchers |-> Status(p)]

\* What the refinement needs to know of a state: types, sound rows, covered answers.
PromiseInv == TypeOK /\ CacheSound /\ LacksOnlyNear

\* The status of a coroutine changes only with its place.
LEMMA SeenChange ==
  ASSUME TypeOK, NEW p \in Fetchers, NEW place, pc' = [pc EXCEPT ![p] = place]
  PROVE  /\ Seen' = [Seen EXCEPT ![p] = Status(p)']
         /\ Status(p) = Status(p)' => Seen' = Seen
<1>1. \A q \in Fetchers : q # p => Status(q)' = Status(q)
  BY DEF TypeOK, Status, Active
<1>2. Seen' = [q \in Fetchers |-> Status(q)']
  BY DEF Seen
<1>3. Seen' = [Seen EXCEPT ![p] = Status(p)']
  BY <1>1, <1>2 DEF Seen
<1>4. Seen[p] = Status(p) /\ Seen = [q \in Fetchers |-> Seen[q]]
  BY DEF Seen
<1>5. QED
  BY <1>3, <1>4

\* A step a caller does not see.
LEMMA HiddenStep ==
  ASSUME TypeOK, TypeOK', NEW p \in Fetchers,
         GetInterval(p) \/ GetRanges(p) \/ NextGap(p) \/ FetchRatePage(p)
           \/ PutRow(p) \/ (FetchKlinePage(p) /\ pc'[p] # "nomark")
  PROVE  UNCHANGED <<now, Seen, win, known, answer, cleared>>
<1>1. UNCHANGED <<now, win, known, answer, cleared>>
  BY DEF GetInterval, GetRanges, NextGap, FetchRatePage, PutRow, FetchKlinePage,
         exchangeVars, callVars
<1>2. /\ Active(p) /\ Active(p)' /\ pc' = [pc EXCEPT ![p] = pc'[p]]
  <2>1. CASE GetInterval(p) \/ GetRanges(p) \/ NextGap(p)
    BY <2>1 DEF TypeOK, GetInterval, GetRanges, NextGap, Active
  <2>2. CASE FetchRatePage(p)
    BY <2>2 DEF TypeOK, FetchRatePage, Active
  <2>3. CASE FetchKlinePage(p) /\ pc'[p] # "nomark"
    BY <2>3 DEF TypeOK, FetchKlinePage, Active
  <2>4. CASE PutRow(p)
    BY <2>4 DEF TypeOK, PutRow, Active
  <2>5. QED
    BY <2>1, <2>2, <2>3, <2>4
<1>3. Status(p) = "asked" /\ Status(p)' = "asked"
  BY <1>2 DEF Status
<1>4. QED
  BY <1>1, <1>2, <1>3, SeenChange

\* The return of a fetch is an answer: settled events of the window, all those
\* known at the call but for the edges.
LEMMA ReturnAnswers ==
  ASSUME PromiseInv, PromiseInv', NEW p \in Fetchers, Return(p)
  PROVE  Promise!Answer(p)
<1>1. /\ pc[p] = "loop" /\ pc' = [pc EXCEPT ![p] = "done"]
      /\ answer' = [answer EXCEPT ![p] = {t \in Cached : Within(t, win[p])}]
      /\ UNCHANGED <<now, win, known, rows, cleared>>
  BY DEF Return, exchangeVars, callVars
<1>2. Seen[p] = "asked" /\ Seen' = [Seen EXCEPT ![p] = "answered"]
  <2>1. Status(p) = "asked" /\ Status(p)' = "answered"
    BY <1>1 DEF Status, Active, PromiseInv, TypeOK
  <2>2. QED
    BY <1>1, <2>1, SeenChange DEF Seen, PromiseInv
<1>3. answer'[p] \subseteq Promise!Settled \cap Promise!In(win[p])
  BY <1>1 DEF PromiseInv, TypeOK, CacheSound, Cached, Row, Within, Promise!Settled, Promise!In
<1>4. cleared[p] \/ Promise!LacksOnlyNear(known[p], win[p], answer'[p])
  <2>1. cleared[p] \/ \A t \in known[p] \ answer'[p] : Near(t, win[p], answer'[p])
    BY <1>1 DEF PromiseInv, TypeOK, LacksOnlyNear, Near
  <2>2. Promise!LacksOnlyNear(known[p], win[p], answer'[p])
          <=> \A t \in known[p] \ answer'[p] : Near(t, win[p], answer'[p])
    BY DEF Near, Promise!LacksOnlyNear, Promise!Near
  <2>3. QED
    BY <2>1, <2>2
<1>5. answer' = [answer EXCEPT ![p] = answer'[p]]
  BY <1>1 DEF PromiseInv, TypeOK
<1>6. QED
  BY <1>1, <1>2, <1>3, <1>4, <1>5 DEF Promise!Answer, Seen

\* Every step of the fetch is one of the promise, or one its callers do not see.
LEMMA PromiseStep ==
  ASSUME PromiseInv, PromiseInv', [Next]_vars
  PROVE  [Promise!Next]_(Promise!promiseVars)
<1> USE DEF PromiseInv
<1>1. CASE Publish
  <2>1. UNCHANGED <<Seen, win, known, answer, cleared>>
    BY <1>1 DEF Publish, Seen, Status, Active
  <2>2. Promise!Publish
    BY <1>1, <2>1 DEF Publish, Promise!Publish, Seen
  <2>3. QED
    BY <2>2 DEF Promise!Next
<1>2. CASE ChangeInterval \/ UNCHANGED vars
  <2>1. UNCHANGED <<now, Seen, win, known, answer, cleared>>
    BY <1>2 DEF ChangeInterval, vars, Seen, Status, Active
  <2>2. QED
    BY <2>1 DEF Promise!promiseVars, Seen
<1>3. CASE Clear
  <2>1. UNCHANGED <<now, Seen, win, known, answer>>
    BY <1>3 DEF Clear, exchangeVars, callVars, Seen, Status, Active
  <2>2. \A p \in Fetchers : Active(p) <=> Seen[p] = "asked"
    BY DEF Seen, Status
  <2>3. cleared' = [p \in Fetchers |-> Seen[p] = "asked" \/ cleared[p]]
    BY <1>3, <2>2 DEF Clear
  <2>4. Promise!Forget
    BY <2>1, <2>3 DEF Promise!Forget, Seen
  <2>5. QED
    BY <2>4 DEF Promise!Next
<1>4. ASSUME NEW p \in Fetchers, NEW w \in Windows, Call(p, w)
      PROVE  Promise!Ask(p, w)
  <2>1. /\ ~Active(p) /\ pc' = [pc EXCEPT ![p] = "interval"]
        /\ win' = [win EXCEPT ![p] = w]
        /\ known' = [known EXCEPT ![p] = {t \in Settled : Within(t, w)}]
        /\ answer' = [answer EXCEPT ![p] = {}]
        /\ cleared' = [cleared EXCEPT ![p] = FALSE] /\ now' = now
    BY <1>4 DEF Call, exchangeVars
  <2>2. Status(p) # "asked" /\ Status(p)' = "asked"
    BY <2>1 DEF Status, Active, TypeOK
  <2>3. Seen[p] # "asked" /\ Seen' = [Seen EXCEPT ![p] = "asked"]
    BY <2>1, <2>2, SeenChange DEF Seen
  <2>4. {t \in Settled : Within(t, w)} = Promise!Settled \cap Promise!In(w)
    BY DEF Settled, Within, Promise!Settled, Promise!In
  <2>5. QED
    BY <2>1, <2>3, <2>4 DEF Promise!Ask, Seen
<1>5. ASSUME NEW p \in Fetchers, Stop(p) \/ (FetchKlinePage(p) /\ pc'[p] = "nomark")
      PROVE  Promise!Refuse(p)
  <2>1. /\ Active(p) /\ pc' = [pc EXCEPT ![p] = pc'[p]] /\ pc'[p] \in {"stopped", "nomark"}
        /\ UNCHANGED <<now, win, known, answer, cleared>>
    <3>1. CASE Stop(p)
      BY <3>1 DEF Stop, exchangeVars, callVars, TypeOK
    <3>2. CASE FetchKlinePage(p) /\ pc'[p] = "nomark"
      BY <3>2 DEF FetchKlinePage, exchangeVars, callVars, TypeOK, Active
    <3>3. QED
      BY <1>5, <3>1, <3>2
  <2>2. Status(p) = "asked" /\ Status(p)' = "refused"
    BY <2>1 DEF Status, Active, TypeOK
  <2>3. Seen[p] = "asked" /\ Seen' = [Seen EXCEPT ![p] = "refused"]
    BY <2>1, <2>2, SeenChange DEF Seen
  <2>4. QED
    BY <2>1, <2>3 DEF Promise!Refuse, Seen
<1>6. ASSUME NEW p \in Fetchers, Step(p)
      PROVE  [Promise!Next]_(Promise!promiseVars)
  <2>1. CASE Return(p)
    BY <2>1, ReturnAnswers DEF Promise!Next
  <2>2. CASE FetchKlinePage(p) /\ pc'[p] = "nomark"
    BY <1>5, <2>2 DEF Promise!Next
  <2>3. CASE ~Return(p) /\ ~(FetchKlinePage(p) /\ pc'[p] = "nomark")
    <3>1. UNCHANGED <<now, Seen, win, known, answer, cleared>>
      BY <1>6, <2>3, HiddenStep DEF Step
    <3>2. QED
      BY <3>1 DEF Promise!promiseVars, Seen
  <2>4. QED
    BY <2>1, <2>2, <2>3
<1>7. QED
  BY <1>1, <1>2, <1>3, <1>4, <1>5, <1>6 DEF Next, Promise!Next

\* The fetch implements the promise of FundingPromise to its callers, whatever the
\* cache, the paging and other fetches do (fetch_funding_rates).
THEOREM FetchKeepsPromise == Spec => KeepsPromise
<1>1. Init => Promise!Init
  <2>1. Init => Seen = [p \in Fetchers |-> "idle"]
    BY DEF Init, Seen, Status, Active
  <2>2. QED
    BY <2>1 DEF Init, Promise!Init, Seen
<1>2. PromiseInv /\ PromiseInv' /\ [Next]_vars => [Promise!Next]_(Promise!promiseVars)
  BY PromiseStep
<1>3. TypeOK /\ CacheSound /\ LacksOnlyNear => PromiseInv
  BY DEF PromiseInv
<1>4. QED
  BY <1>1, <1>2, <1>3, TypeCorrect, CacheAlwaysSound, AnswersLackOnlyNear, PTL
     DEF Spec, KeepsPromise, Promise!Spec

-----------------------------------------------------------------------------
(* The loops cannot go on for ever *)

\* Where a call stands, in the order of its loops: the part of the call, the gaps it has
\* not begun, the stage of the gap, and what is left of that stage, instants ahead of
\* the cursor or events to insert.
Part(p) ==
  CASE pc[p] = "interval" -> 3
    [] pc[p] = "ranges" -> 2
    [] pc[p] = "loop" \/ Fetching(p) -> 1
    [] OTHER -> 0

GapsAhead(p) == Cardinality(gaps[p])

Stage(p) ==
  CASE pc[p] = "rates" -> 3
    [] pc[p] = "klines" -> 2
    [] pc[p] = "put" -> 1
    [] OTHER -> 0

Ahead(p) ==
  IF pc[p] = "put" THEN Cardinality(todo[p])
  ELSE IF pc[p] \in {"rates", "klines"} /\ cursor[p] <= gap[p].to
  THEN gap[p].to - cursor[p] + 1
  ELSE 0

\* One of them goes down, and none before it changes.
Lower(p) ==
  \/ Part(p)' < Part(p)
  \/ Part(p)' = Part(p) /\ GapsAhead(p)' < GapsAhead(p)
  \/ Part(p)' = Part(p) /\ GapsAhead(p)' = GapsAhead(p) /\ Stage(p)' < Stage(p)
  \/ /\ Part(p)' = Part(p) /\ GapsAhead(p)' = GapsAhead(p) /\ Stage(p)' = Stage(p)
     /\ Ahead(p)' < Ahead(p)

\* The table and the lists of a call are finite at any time.
FiniteInv ==
  /\ IsFiniteSet(rows)
  /\ \A p \in Fetchers :
       IsFiniteSet(gaps[p]) /\ IsFiniteSet(rates[p]) /\ IsFiniteSet(todo[p])

\* Finitely many rows leave finitely many gaps between them.
LEMMA MissingRangesFinite ==
  ASSUME NEW w, IsFiniteSet(rows)
  PROVE  IsFiniteSet(MissingRanges(w))
<1> DEFINE R == {r \in rows : Within(r.at, w)}
           Lead == {f \in R : /\ \A q \in R : f.at <= q.at
                              /\ TooWide(f.at - w.from, f.iv)}
           Inner == {c \in Adjacent(R) : TooWide(c[2].at - c[1].at, c[1].iv)}
           Trail == {l \in R : /\ \A q \in R : q.at <= l.at
                               /\ TooWide(w.to - l.at, l.iv)}
           LeadOf == [r \in Lead |-> Between(w.from, r.at)]
           InnerOf == [ab \in Inner |-> Between(ab[1].at + ab[1].iv, ab[2].at)]
           TrailOf == [r \in Trail |-> Between(r.at + r.iv, w.to)]
<1>1. IsFiniteSet(R) /\ IsFiniteSet(R \X R)
  BY FS_Subset, FS_Product
<1>2. IsFiniteSet(Lead) /\ IsFiniteSet(Trail) /\ IsFiniteSet(Inner)
  <2>1. Lead \subseteq R /\ Trail \subseteq R
    OBVIOUS
  <2>2. Inner \subseteq R \X R
    BY DEF Adjacent
  <2> HIDE DEF Lead, Trail, Inner, R
  <2> QED
    BY <1>1, <2>1, <2>2, FS_Subset
<1>3. IsFiniteSet(LeadingGaps(R, w))
  <2>1. LeadOf \in Surjection(Lead, LeadingGaps(R, w))
    BY DEF LeadingGaps, Surjection
  <2> QED
    BY <1>2, <2>1, FS_Surjection
<1>4. IsFiniteSet(InteriorGaps(R))
  <2>1. InnerOf \in Surjection(Inner, InteriorGaps(R))
    BY DEF InteriorGaps, Surjection
  <2> QED
    BY <1>2, <2>1, FS_Surjection
<1>5. IsFiniteSet(TrailingGaps(R, w))
  <2>1. TrailOf \in Surjection(Trail, TrailingGaps(R, w))
    BY DEF TrailingGaps, Surjection
  <2> QED
    BY <1>2, <2>1, FS_Surjection
<1>6. IsFiniteSet({w})
  BY FS_Singleton
<1> QED
  <2>1. MissingRanges(w) = IF R = {} THEN {w}
                           ELSE LeadingGaps(R, w) \cup InteriorGaps(R) \cup TrailingGaps(R, w)
    BY DEF MissingRanges
  <2>2. IsFiniteSet(LeadingGaps(R, w) \cup InteriorGaps(R) \cup TrailingGaps(R, w))
    BY <1>3, <1>4, <1>5, FS_Union
  <2> HIDE DEF R
  <2> QED
    BY <1>6, <2>1, <2>2

\* A step of one call keeps its lists finite, the table too.
LEMMA StepKeepsFinite ==
  ASSUME TypeOK, FiniteInv, NEW p \in Fetchers, Step(p)
  PROVE  FiniteInv'
<1> USE DEF FiniteInv, exchangeVars, callVars, pageVars
<1>0. /\ gaps \in [Fetchers -> SUBSET Window] /\ rates \in [Fetchers -> SUBSET Events]
      /\ todo \in [Fetchers -> SUBSET Events] /\ now \in Nat
  BY DEF TypeOK
<1>1. CASE GetInterval(p)
  BY <1>1 DEF GetInterval
<1>2. CASE GetRanges(p)
  <2>1. IsFiniteSet(MissingRanges(win[p]))
    BY MissingRangesFinite
  <2> QED
    BY <1>0, <1>2, <2>1 DEF GetRanges
<1>3. CASE NextGap(p)
  <2>1. PICK g \in gaps[p] : gaps' = [gaps EXCEPT ![p] = @ \ {g}]
    BY <1>3 DEF NextGap
  <2>2. IsFiniteSet(gaps[p] \ {g}) /\ IsFiniteSet({})
    BY FS_RemoveElement, FS_EmptySet
  <2> QED
    BY <1>0, <1>3, <2>1, <2>2 DEF NextGap
<1>4. CASE FetchRatePage(p)
  <2>1. PICK b \in SUBSET {t \in Settled : cursor[p] <= t /\ t <= gap[p].to} :
          rates' = [rates EXCEPT ![p] = @ \cup b]
    BY <1>4 DEF FetchRatePage
  <2>2. b \subseteq 0..now
    BY <1>0 DEF Settled
  <2>3. IsFiniteSet(b)
    <3>1. IsFiniteSet(0..now)
      BY <1>0, FS_Interval
    <3> QED
      BY <2>2, <3>1, FS_Subset
  <2>4. IsFiniteSet(rates[p] \cup b)
    BY <2>3, FS_Union
  <2> QED
    BY <1>0, <1>4, <2>1, <2>4 DEF FetchRatePage
<1>5. CASE FetchKlinePage(p)
  <2>1. todo' = todo \/ todo' = [todo EXCEPT ![p] = rates[p]]
    BY <1>5 DEF FetchKlinePage
  <2> QED
    BY <1>0, <1>5, <2>1 DEF FetchKlinePage
<1>6. CASE PutRow(p)
  <2>1. PICK t \in todo[p], k \in klines[p] :
          /\ rows' = Upsert([at |-> t, iv |-> iv[p], mark |-> k])
          /\ todo' = [todo EXCEPT ![p] = @ \ {t}]
    BY <1>6 DEF PutRow
  <2>2. IsFiniteSet(todo[p] \ {t})
    BY FS_RemoveElement
  <2>3. IsFiniteSet(rows')
    <3> DEFINE r == [at |-> t, iv |-> iv[p], mark |-> k]
               Q == {q \in rows : q.at # r.at}
    <3>1. IsFiniteSet(Q)
      BY FS_Subset
    <3>2. rows' = Q \cup {r}
      BY <2>1 DEF Upsert
    <3> HIDE DEF r, Q
    <3> QED
      BY <3>1, <3>2, FS_AddElement
  <2> QED
    BY <1>0, <1>6, <2>1, <2>2, <2>3 DEF PutRow
<1>7. CASE Return(p)
  BY <1>7 DEF Return
<1> QED
  BY <1>1, <1>2, <1>3, <1>4, <1>5, <1>6, <1>7 DEF Step

\* So do all others.
LEMMA NextKeepsFinite == TypeOK /\ FiniteInv /\ [Next]_vars => FiniteInv'
<1> SUFFICES ASSUME TypeOK, FiniteInv, [Next]_vars PROVE FiniteInv'
  OBVIOUS
<1>1. CASE Clear
  BY <1>1, FS_EmptySet DEF Clear, FiniteInv, exchangeVars, callVars, pageVars
<1>2. ASSUME NEW p \in Fetchers, Step(p) PROVE FiniteInv'
  BY <1>2, StepKeepsFinite
<1>3. CASE ~Clear /\ \A p \in Fetchers : ~Step(p)
  <2>1. UNCHANGED <<rows, gaps, rates, todo>>
    BY <1>3
       DEF Next, vars, Publish, ChangeInterval, Stop, Call, exchangeVars, callVars, pageVars
  <2> QED
    BY <2>1 DEF FiniteInv
<1> QED
  BY <1>1, <1>2, <1>3

\* A page that is not the last moves the cursor, and leaves less ahead of it.
LEMMA PageLowers ==
  ASSUME TypeOK, NEW p \in Fetchers, pc[p] \in {"rates", "klines"}, NEW b, NEW limit,
         \A t \in b : t \in Nat /\ cursor[p] <= t,
         MorePages(p, b, limit), UNCHANGED <<pc, gap, gaps>>
  PROVE  Lower(p)
<1>1. PICK last \in b : last + 1 <= gap[p].to /\ cursor' = [cursor EXCEPT ![p] = last + 1]
  BY DEF MorePages
<1>2. /\ last \in Nat /\ cursor[p] <= last /\ cursor[p] \in Nat /\ gap[p].to \in Nat
      /\ cursor'[p] = last + 1
  BY <1>1 DEF TypeOK, Window
<1>3. Ahead(p) = gap[p].to - cursor[p] + 1 /\ Ahead(p)' = gap[p].to - cursor'[p] + 1
  BY <1>1, <1>2 DEF Ahead
<1>4. Ahead(p)' < Ahead(p)
  BY <1>2, <1>3
<1>5. Part(p)' = Part(p) /\ GapsAhead(p)' = GapsAhead(p) /\ Stage(p)' = Stage(p)
  BY DEF Part, GapsAhead, Stage, Fetching
<1> QED
  BY <1>4, <1>5 DEF Lower

\* A step from one stage of a gap to a later one.
LEMMA StageLowers ==
  ASSUME NEW p \in Fetchers, Fetching(p), pc'[p] = "loop" \/ Fetching(p)',
         gaps'[p] = gaps[p], Stage(p)' < Stage(p)
  PROVE  Lower(p)
<1>1. Part(p)' = 1 /\ Part(p) = 1
  BY DEF Part, Fetching
<1>2. GapsAhead(p)' = GapsAhead(p)
  BY DEF GapsAhead
<1> QED
  BY <1>1, <1>2 DEF Lower

\* Every step of a call takes it further.
LEMMA StepLowers ==
  ASSUME TypeOK, FiniteInv, NEW p \in Fetchers, Step(p)
  PROVE  Lower(p)
<1> USE DEF exchangeVars, callVars, pageVars
<1>0. /\ DOMAIN pc = Fetchers /\ DOMAIN gaps = Fetchers /\ DOMAIN todo = Fetchers
      /\ gap[p] \in Window /\ cursor[p] \in Nat
  BY DEF TypeOK
<1>1. CASE GetInterval(p)
  BY <1>0, <1>1 DEF GetInterval, Lower, Part, Fetching
<1>2. CASE GetRanges(p)
  BY <1>0, <1>2 DEF GetRanges, Lower, Part, Fetching
<1>3. CASE NextGap(p)
  <2>1. PICK g \in gaps[p] : gaps'[p] = gaps[p] \ {g}
    BY <1>0, <1>3 DEF NextGap
  <2>2. pc[p] = "loop" /\ pc'[p] = "rates"
    BY <1>0, <1>3 DEF NextGap
  <2>3. /\ Cardinality(gaps'[p]) = Cardinality(gaps[p]) - 1
        /\ Cardinality(gaps[p]) \in Nat
    <3>1. IsFiniteSet(gaps[p])
      BY DEF FiniteInv
    <3>2. Cardinality(gaps[p] \ {g}) = Cardinality(gaps[p]) - 1
      BY ONLY <2>1, <3>1, FS_RemoveElement
    <3>3. Cardinality(gaps[p]) \in Nat
      BY ONLY <3>1, FS_CardinalityType
    <3> QED
      BY ONLY <2>1, <3>2, <3>3
  <2>4. Part(p)' = Part(p)
    BY <2>2 DEF Part, Fetching
  <2> QED
    BY <2>3, <2>4 DEF Lower, GapsAhead
<1>4. CASE FetchRatePage(p)
  <2>1. PICK b \in SUBSET {t \in Settled : cursor[p] <= t /\ t <= gap[p].to} :
          \/ MorePages(p, b, RateLimit) /\ UNCHANGED pc
          \/ pc' = [pc EXCEPT ![p] = IF rates'[p] = {} THEN "loop" ELSE "klines"]
    BY <1>4 DEF FetchRatePage
  <2>2. UNCHANGED <<gaps, gap>> /\ pc[p] = "rates"
    BY <1>4 DEF FetchRatePage
  <2>3. CASE MorePages(p, b, RateLimit) /\ UNCHANGED pc
    <3>1. \A t \in b : t \in Nat /\ cursor[p] <= t
      BY DEF Settled
    <3> QED
      BY <2>2, <2>3, <3>1, PageLowers
  <2>4. CASE pc'[p] \in {"loop", "klines"}
    BY <2>2, <2>4, StageLowers DEF Stage, Fetching
  <2> QED
    BY <1>0, <2>1, <2>3, <2>4
<1>5. CASE FetchKlinePage(p)
  <2>1. PICK b \in SUBSET {k \in Klines(iv[p]) : cursor[p] <= k /\ k <= gap[p].to} :
          \/ MorePages(p, b, KlineLimit) /\ UNCHANGED pc
          \/ pc' = [pc EXCEPT ![p] = "put"]
          \/ pc' = [pc EXCEPT ![p] = "nomark"]
    BY <1>5 DEF FetchKlinePage
  <2>2. UNCHANGED <<gaps, gap>> /\ pc[p] = "klines"
    BY <1>5 DEF FetchKlinePage
  <2>3. CASE MorePages(p, b, KlineLimit) /\ UNCHANGED pc
    <3>1. \A t \in b : t \in Nat /\ cursor[p] <= t
      BY DEF Klines
    <3> QED
      BY <2>2, <2>3, <3>1, PageLowers
  <2>4. CASE pc'[p] = "put"
    BY <2>2, <2>4, StageLowers DEF Stage, Fetching
  <2>5. CASE pc'[p] = "nomark"
    BY <2>2, <2>5 DEF Lower, Part, Fetching
  <2> QED
    BY <1>0, <2>1, <2>3, <2>4, <2>5
<1>6. CASE PutRow(p)
  <2>1. PICK t \in todo[p] : /\ todo'[p] = todo[p] \ {t}
                             /\ pc'[p] = IF todo[p] = {t} THEN "loop" ELSE "put"
    BY <1>0, <1>6 DEF PutRow
  <2>2. UNCHANGED gaps /\ pc[p] = "put"
    BY <1>6 DEF PutRow
  <2>3. CASE todo[p] = {t}
    BY <2>1, <2>2, <2>3, StageLowers DEF Stage, Fetching
  <2>4. CASE todo[p] # {t}
    <3>1. /\ Cardinality(todo'[p]) = Cardinality(todo[p]) - 1
          /\ Cardinality(todo[p]) \in Nat
      <4>1. t \in todo[p] /\ todo'[p] = todo[p] \ {t} /\ IsFiniteSet(todo[p])
        BY <2>1 DEF FiniteInv
      <4> QED
        BY <4>1, FS_RemoveElement, FS_CardinalityType
    <3>2. pc'[p] = "put"
      BY <2>1, <2>4
    <3>3. Ahead(p)' < Ahead(p)
      BY <2>2, <3>1, <3>2 DEF Ahead
    <3>4. Part(p)' = Part(p) /\ GapsAhead(p)' = GapsAhead(p) /\ Stage(p)' = Stage(p)
      BY <2>2, <3>2 DEF Part, GapsAhead, Stage, Fetching
    <3> QED
      BY <3>3, <3>4 DEF Lower
  <2> QED
    BY <2>3, <2>4
<1>7. CASE Return(p)
  BY <1>0, <1>7 DEF Return, Lower, Part, Fetching
<1> QED
  BY <1>1, <1>2, <1>3, <1>4, <1>5, <1>6, <1>7 DEF Step

\* Every step a call takes by itself takes it further in this order of four natural
\* numbers, and nothing that happens meanwhile takes it back, neither other callers,
\* nor settlements, nor a `cache clear`: the loops of fetch_funding_rates end.
THEOREM LoopsRunOut ==
  Spec => /\ [](\A p \in Fetchers : {Part(p), GapsAhead(p), Stage(p), Ahead(p)} \subseteq Nat)
          /\ [][\A p \in Fetchers :
                  /\ Step(p) => Lower(p)
                  /\ (\A w \in Windows : ~Call(p, w)) =>
                       \/ UNCHANGED <<Part(p), GapsAhead(p), Stage(p), Ahead(p)>>
                       \/ Lower(p)]_vars
<1> DEFINE Numbers == \A p \in Fetchers :
                        {Part(p), GapsAhead(p), Stage(p), Ahead(p)} \subseteq Nat
           Same(p) == UNCHANGED <<Part(p), GapsAhead(p), Stage(p), Ahead(p)>>
           Further == \A p \in Fetchers :
                        /\ Step(p) => Lower(p)
                        /\ (\A w \in Windows : ~Call(p, w)) =>
                             \/ UNCHANGED <<Part(p), GapsAhead(p), Stage(p), Ahead(p)>>
                             \/ Lower(p)
<1>1. Init => FiniteInv
  BY FS_EmptySet DEF Init, FiniteInv
<1>2. TypeOK /\ FiniteInv => Numbers
  <2> SUFFICES ASSUME TypeOK, FiniteInv, NEW p \in Fetchers
               PROVE  {Part(p), GapsAhead(p), Stage(p), Ahead(p)} \subseteq Nat
    OBVIOUS
  <2>1. Part(p) \in Nat /\ Stage(p) \in Nat
    BY DEF Part, Stage
  <2>2. GapsAhead(p) \in Nat /\ Cardinality(todo[p]) \in Nat
    BY FS_CardinalityType DEF FiniteInv, GapsAhead
  <2>3. cursor[p] \in Nat /\ gap[p].to \in Nat
    BY DEF TypeOK, Window
  <2>4. Ahead(p) \in Nat
    BY <2>2, <2>3 DEF Ahead
  <2> QED
    BY <2>1, <2>2, <2>4
<1>3. TypeOK /\ FiniteInv /\ Next => Further
  <2> SUFFICES ASSUME TypeOK, FiniteInv, Next, NEW p \in Fetchers,
                      ~Step(p), \A w \in Windows : ~Call(p, w)
               PROVE  \/ UNCHANGED <<Part(p), GapsAhead(p), Stage(p), Ahead(p)>>
                      \/ Lower(p)
    BY StepLowers
  <2>1. CASE Publish \/ ChangeInterval \/ Clear
    BY <2>1
       DEF Publish, ChangeInterval, Clear, callVars, pageVars, Part, GapsAhead, Stage, Ahead,
           Fetching
  <2>2. CASE Stop(p)
    BY <2>2 DEF Stop, Active, Lower, Part, Fetching, TypeOK
  <2>3. ASSUME NEW q \in Fetchers \ {p},
               Step(q) \/ Stop(q) \/ \E w \in Windows : Call(q, w)
        PROVE  Same(p)
    <3> DEFINE Untouched == /\ pc'[p] = pc[p] /\ gaps'[p] = gaps[p] /\ gap'[p] = gap[p]
                            /\ cursor'[p] = cursor[p] /\ todo'[p] = todo[p]
    <3> USE DEF TypeOK, callVars, pageVars
    <3>1. ASSUME GetInterval(q) \/ GetRanges(q) \/ NextGap(q) PROVE Untouched
      BY <2>3, <3>1 DEF GetInterval, GetRanges, NextGap
    <3>2. ASSUME FetchRatePage(q) PROVE Untouched
      BY <2>3, <3>2 DEF FetchRatePage, MorePages
    <3>3. ASSUME FetchKlinePage(q) PROVE Untouched
      BY <2>3, <3>3 DEF FetchKlinePage, MorePages
    <3>4. ASSUME PutRow(q) \/ Return(q) \/ Stop(q) PROVE Untouched
      BY <2>3, <3>4 DEF PutRow, Return, Stop
    <3>5. ASSUME \E w \in Windows : Call(q, w) PROVE Untouched
      BY <2>3, <3>5 DEF Call
    <3>6. Untouched
      BY <2>3, <3>1, <3>2, <3>3, <3>4, <3>5 DEF Step
    <3> QED
      BY <3>6 DEF Part, GapsAhead, Stage, Ahead, Fetching
  <2> QED
    BY <2>1, <2>2, <2>3 DEF Next
<1>4. TypeOK /\ FiniteInv /\ [Next]_vars => [Further]_vars
  BY <1>3
<1> QED
  BY <1>1, <1>2, <1>4, NextKeepsFinite, TypeCorrect, PTL DEF Spec
=============================================================================
