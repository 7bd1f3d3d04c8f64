------------------------- MODULE LoginLockout_proofs -------------------------
(***************************************************************************)
(* LoginLockout for any number of addresses and threads and any limits:    *)
(* first the bound on guesses, to which it does not matter which addresses *)
(* are evicted (one that is forgotten begins a new period), then the dict: *)
(* its size, and which address is forgotten.                               *)
(***************************************************************************)
EXTENDS LoginLockout, FiniteSetTheorems, FunctionTheorems, SequenceTheorems, TLAPS

\* The types of what the bound speaks of.
CountsOK ==
  /\ failures \in [Ips -> Nat] /\ tries \in [Ips -> Nat]
  /\ serves \in [Threads -> Ips \cup {Nobody}]
  /\ locked \subseteq Ips /\ old \subseteq Threads

\* Threads that compare a password of the present period.
Current(ip) == {t \in Threads : serves[t] = ip /\ t \notin old}

\* Failures of the present period, if the next one may still be tolerated.
Tolerated(ip) == IF failures[ip] < LockoutMax THEN failures[ip] ELSE 0

\* While an address is not locked, every comparison of its period is under way or
\* has been counted; the count cannot have passed the limit unnoticed.
GuessInv ==
  /\ CountsOK
  /\ \A ip \in Ips \ locked : tries[ip] <= Cardinality(Current(ip)) + Tolerated(ip)
  /\ GuessesBounded

\* There are no more comparisons under way than threads.
LEMMA SomeThreads ==
  ASSUME NEW S \in SUBSET Threads
  PROVE  /\ IsFiniteSet(S) /\ Cardinality(S) \in Nat
         /\ Cardinality(S) <= Cardinality(Threads)
         /\ Cardinality(Threads) \in Nat
<1> QED
  BY LockoutAssumption, FS_Subset, FS_CardinalityType

\* The threads of a period are some of them.
LEMMA CurrentFinite ==
  ASSUME NEW ip
  PROVE  /\ IsFiniteSet(Current(ip)) /\ Cardinality(Current(ip)) \in Nat
         /\ Cardinality(Current(ip)) <= Cardinality(Threads)
         /\ Cardinality(Threads) \in Nat
<1>1. Current(ip) \in SUBSET Threads
  BY DEF Current
<1> QED
  BY <1>1, SomeThreads

\* A comparison begins: one more try, one more under way.
LEMMA CheckStep ==
  ASSUME GuessInv, NEW t \in Threads, NEW ip \in Ips, Check(t, ip)
  PROVE  GuessInv'
<1> USE LockoutAssumption DEF GuessInv
<1>1. CASE ip \in locked
  <2>1. UNCHANGED <<failures, locked, serves, tries, old>>
    BY <1>1 DEF Check
  <2> QED
    BY <2>1 DEF CountsOK, Current, Tolerated, GuessesBounded
<1>2. CASE ip \notin locked
  <2>1. /\ serves[t] = Nobody /\ serves' = [serves EXCEPT ![t] = ip]
        /\ tries' = [tries EXCEPT ![ip] = @ + 1] /\ old' = old \ {t}
        /\ UNCHANGED <<failures, locked>>
    BY <1>2 DEF Check
  <2>2. CountsOK'
    BY <2>1 DEF CountsOK
  <2>3. ASSUME NEW j \in Ips, j # ip
        PROVE  Current(j)' = Current(j) /\ tries'[j] = tries[j] /\ Tolerated(j)' = Tolerated(j)
    BY <2>1, <2>3 DEF Current, CountsOK, Tolerated
  <2>4. Cardinality(Current(ip)') = Cardinality(Current(ip)) + 1
    <3>1. Current(ip)' = Current(ip) \cup {t} /\ t \notin Current(ip)
      BY <2>1 DEF Current, CountsOK
    <3> QED
      BY <3>1, CurrentFinite, FS_AddElement
  <2>5. \A j \in Ips \ locked' : tries'[j] <= Cardinality(Current(j)') + Tolerated(j)'
    <3>1. tries'[ip] <= Cardinality(Current(ip)') + Tolerated(ip)'
      BY <1>2, <2>1, <2>4, CurrentFinite DEF CountsOK, Tolerated
    <3> QED
      BY <2>1, <2>3, <3>1
  <2>6. GuessesBounded'
    <3>1. tries'[ip] + 1 <= LockoutMax + Cardinality(Threads)
      <4>1. tries'[ip] <= Cardinality(Current(ip)') + Tolerated(ip)'
        BY <1>2, <2>1, <2>5
      <4>2. Current(ip)' \in SUBSET Threads
        BY DEF Current
      <4>3. /\ Cardinality(Current(ip)') \in Nat /\ Cardinality(Threads) \in Nat
            /\ Cardinality(Current(ip)') <= Cardinality(Threads)
        <5> HIDE DEF GuessInv
        <5> QED
          BY <4>2, SomeThreads
      <4>4. Tolerated(ip)' \in Nat /\ Tolerated(ip)' + 1 <= LockoutMax
        BY <2>1 DEF Tolerated, CountsOK
      <4>5. tries'[ip] \in Nat
        BY <2>2 DEF CountsOK
      <4> QED
        BY <4>1, <4>3, <4>4, <4>5
    <3> QED
      BY <2>3, <3>1 DEF GuessesBounded
  <2> QED
    BY <2>2, <2>5, <2>6
<1> QED
  BY <1>1, <1>2

\* What the end of a comparison can mean for an address: a new period begins, its
\* own comparison is over, or nothing that counts here.
Begun(j) == tries'[j] = 0

Served(j, t, count, lock, anew) ==
  /\ j = serves[t] /\ j \notin anew
  /\ tries'[j] = tries[j] /\ failures'[j] = count
  /\ Current(j)' = Current(j) \ {t}
  /\ j \in locked' <=> lock \/ j \in locked

Kept(j) ==
  /\ tries'[j] = tries[j] /\ failures'[j] = failures[j]
  /\ Current(j)' = Current(j)
  /\ j \in locked' <=> j \in locked

\* Addresses other than the one compared, and not forgotten, keep what they have.
LEMMA SettleOthers ==
  ASSUME CountsOK, NEW t \in Threads, serves[t] # Nobody,
         NEW o, NEW count \in Nat, NEW lock \in BOOLEAN, NEW anew \in SUBSET {serves[t]},
         Settle(t, o, count, lock, anew)
  PROVE  /\ CountsOK'
         /\ \A j \in Ips : Begun(j) \/ Served(j, t, count, lock, anew) \/ Kept(j)
<1> DEFINE ip == serves[t]
           gone == Known(Used(ip)) \ Known(o)
           ended == gone \cup anew
<1>1. /\ failures' = [j \in Ips |-> IF j = ip THEN count
                                    ELSE IF j \in gone THEN 0 ELSE failures[j]]
      /\ locked' = (IF lock THEN locked \cup {ip} ELSE locked \ anew) \ gone
      /\ serves' = [serves EXCEPT ![t] = Nobody]
      /\ tries' = [j \in Ips |-> IF j \in ended THEN 0 ELSE tries[j]]
      /\ old' = (old \cup {u \in Threads : serves[u] \in ended}) \ {t}
  BY DEF Settle
<1> HIDE DEF gone
<1>2. ip \in Ips
  BY DEF CountsOK
<1>3. CountsOK'
  BY <1>1, <1>2 DEF CountsOK
<1>4. ASSUME NEW j \in Ips, j \notin ended, j = ip
      PROVE  Served(j, t, count, lock, anew)
  <2>1. Current(j)' = Current(j) \ {t}
    BY <1>1, <1>4, LockoutAssumption DEF CountsOK, Current
  <2> QED
    BY <1>1, <1>4, <2>1 DEF Served
<1>5. ASSUME NEW j \in Ips, j \notin ended, j # ip
      PROVE  Kept(j)
  <2>1. Current(j)' = Current(j)
    BY <1>1, <1>5, LockoutAssumption DEF CountsOK, Current
  <2> QED
    BY <1>1, <1>5, <2>1 DEF Kept
<1>6. ASSUME NEW j \in Ips, j \in ended PROVE Begun(j)
  BY <1>1, <1>6 DEF Begun
<1> QED
  BY <1>3, <1>4, <1>5, <1>6

\* A comparison ends: if its address stays unlocked, what is no longer under way
\* has been counted.
LEMMA SettleStep ==
  ASSUME GuessInv, NEW t \in Threads, serves[t] # Nobody,
         NEW o, NEW count \in Nat, NEW lock \in BOOLEAN, NEW anew \in SUBSET {serves[t]},
         Settle(t, o, count, lock, anew),
         anew = {} /\ ~lock => count < LockoutMax /\ count = failures[serves[t]] + 1
  PROVE  GuessInv'
<1> USE LockoutAssumption DEF GuessInv
<1>1. /\ CountsOK'
      /\ \A j \in Ips : Begun(j) \/ Served(j, t, count, lock, anew) \/ Kept(j)
  <2>1. CountsOK
    OBVIOUS
  <2> QED
    BY ONLY <2>1, SettleOthers, serves[t] # Nobody, t \in Threads, count \in Nat,
       lock \in BOOLEAN, anew \in SUBSET {serves[t]}, Settle(t, o, count, lock, anew)
<1>2. ASSUME NEW j \in Ips
      PROVE  /\ tries'[j] + 1 <= LockoutMax + Cardinality(Threads)
             /\ j \notin locked' => tries'[j] <= Cardinality(Current(j)') + Tolerated(j)'
  <2> Cardinality(Current(j)') \in Nat /\ Tolerated(j)' \in Nat /\ Cardinality(Threads) \in Nat
    <3>1. Current(j)' \in SUBSET Threads
      BY DEF Current
    <3> QED
      BY <1>1, <3>1, SomeThreads DEF CountsOK, Tolerated
  <2>1. CASE Begun(j)
    BY <2>1 DEF Begun
  <2>2. CASE Served(j, t, count, lock, anew)
    <3> USE <2>2 DEF Served
    <3>1. tries'[j] + 1 <= LockoutMax + Cardinality(Threads)
      BY <2>2 DEF GuessesBounded
    <3>2. ASSUME j \notin locked'
          PROVE  tries'[j] <= Cardinality(Current(j)') + Tolerated(j)'
      <4>1. count < LockoutMax /\ count = failures[j] + 1 /\ j \notin locked
        BY <2>2, <3>2
      <4>2. Tolerated(j)' = failures[j] + 1 /\ Tolerated(j) = failures[j]
        BY <2>2, <4>1 DEF Tolerated, CountsOK
      <4>3. Cardinality(Current(j)') >= Cardinality(Current(j)) - 1
        <5>1. IsFiniteSet(Current(j)) /\ Cardinality(Current(j)) \in Nat
          BY CurrentFinite
        <5>2. CASE t \in Current(j)
          <6>1. Cardinality(Current(j) \ {t}) = Cardinality(Current(j)) - 1
            BY <5>1, <5>2, FS_RemoveElement
          <6> QED
            BY <5>1, <6>1
        <5>3. CASE t \notin Current(j)
          <6>1. Cardinality(Current(j)') = Cardinality(Current(j))
            <7>1. Current(j)' = Current(j)
              BY <5>3
            <7> QED
              BY <7>1, Zenon
          <6> QED
            BY <5>1, <6>1
        <5> QED
          BY <5>2, <5>3
      <4>4. tries[j] <= Cardinality(Current(j)) + Tolerated(j)
        BY <4>1
      <4>5. Cardinality(Current(j)) \in Nat /\ failures[j] \in Nat /\ tries[j] \in Nat
        BY CurrentFinite DEF CountsOK
      <4> QED
        BY <2>2, <4>2, <4>3, <4>4, <4>5
    <3> QED
      BY <3>1, <3>2
  <2>3. CASE Kept(j)
    <3> USE <2>3 DEF Kept
    <3>1. Tolerated(j)' = Tolerated(j)
      BY <2>3 DEF Tolerated
    <3> QED
      BY <2>3, <3>1 DEF GuessesBounded
  <2> QED
    BY <1>1, <2>1, <2>2, <2>3
<1>3. GuessesBounded'
  BY <1>2 DEF GuessesBounded
<1> QED
  BY <1>1, <1>2, <1>3

\* However attempts interleave, the number of passwords compared for an address in
\* a lockout period is bounded (verify, _record_failure).
THEOREM GuessesAlwaysBounded == Spec => []GuessesBounded
<1>1. Init => GuessInv
  <2> SUFFICES ASSUME Init PROVE GuessInv
    OBVIOUS
  <2>1. CountsOK
    BY DEF Init, CountsOK
  <2>2. \A ip \in Ips : tries[ip] = 0 /\ Tolerated(ip) = 0
    BY LockoutAssumption DEF Init, Tolerated
  <2> QED
    BY <2>1, <2>2, CurrentFinite, LockoutAssumption DEF GuessInv, GuessesBounded
<1>2. GuessInv /\ [Next]_vars => GuessInv'
  <2> SUFFICES ASSUME GuessInv, [Next]_vars PROVE GuessInv'
    OBVIOUS
  <2>1. ASSUME NEW t \in Threads, NEW ip \in Ips, Check(t, ip) PROVE GuessInv'
    BY <2>1, CheckStep
  <2>2. ASSUME NEW t \in Threads, RecordFailure(t) PROVE GuessInv'
    <3> DEFINE ip == serves[t]
               count == IF failures[ip] > LockoutMax THEN failures[ip] ELSE failures[ip] + 1
    <3>1. ip \in Ips /\ failures[ip] \in Nat /\ count \in Nat /\ serves[t] # Nobody
      BY <2>2 DEF RecordFailure, GuessInv, CountsOK
    <3>2. Settle(t, Trim(Used(ip)), count, Locks(count), {})
      BY <2>2 DEF RecordFailure
    <3>3. Locks(count) \in BOOLEAN
          /\ (~Locks(count) => count < LockoutMax /\ count = failures[ip] + 1)
      BY <3>1, LockoutAssumption DEF Locks
    <3> HIDE DEF count
    <3> QED
      BY <3>1, <3>2, <3>3, SettleStep
  <2>3. ASSUME NEW t \in Threads, Succeed(t) PROVE GuessInv'
    <3>1. /\ serves[t] # Nobody
          /\ Settle(t, Trim(Used(serves[t])), 0, FALSE, {serves[t]})
      BY <2>3 DEF Succeed
    <3>2. {serves[t]} # {}
      OBVIOUS
    <3> QED
      BY <3>1, <3>2, SettleStep
  <2>4. ASSUME NEW ip \in Ips, RunsOut(ip) PROVE GuessInv'
    <3> USE LockoutAssumption DEF GuessInv
    <3>1. /\ tries' = [tries EXCEPT ![ip] = 0] /\ locked' = locked \ {ip}
          /\ old' = old \cup InFlight(ip) /\ UNCHANGED <<failures, serves>>
      BY <2>4 DEF RunsOut
    <3>2. CountsOK'
      BY <3>1 DEF CountsOK, InFlight
    <3>3. ASSUME NEW j \in Ips, j # ip
          PROVE  Current(j)' = Current(j) /\ tries'[j] = tries[j]
                 /\ Tolerated(j)' = Tolerated(j) /\ (j \in locked' <=> j \in locked)
      BY <3>1, <3>3 DEF CountsOK, Current, InFlight, Tolerated
    <3>4. tries'[ip] = 0 /\ Tolerated(ip)' \in Nat /\ Cardinality(Current(ip)') \in Nat
          /\ Cardinality(Threads) \in Nat
      <4>1. Current(ip)' \in SUBSET Threads
        BY DEF Current
      <4> QED
        BY <3>1, <3>2, <4>1, SomeThreads DEF CountsOK, Tolerated
    <3>5. GuessesBounded'
      BY <3>3, <3>4 DEF GuessesBounded
    <3>6. \A j \in Ips \ locked' : tries'[j] <= Cardinality(Current(j)') + Tolerated(j)'
      BY <3>3, <3>4
    <3> QED
      BY <3>2, <3>5, <3>6
  <2>5. CASE UNCHANGED vars
    BY <2>5 DEF vars, GuessInv, CountsOK, Current, Tolerated, GuessesBounded
  <2> QED
    BY <2>1, <2>2, <2>3, <2>4, <2>5 DEF Next, Verify
<1>3. GuessInv => GuessesBounded
  BY DEF GuessInv
<1> QED
  BY <1>1, <1>2, <1>3, PTL DEF Spec

-----------------------------------------------------------------------------
(* The dict *)

Distinct(o) == \A i, j \in DOMAIN o : o[i] = o[j] => i = j

\* Whatever is further on in the list o was used since.
Recency(o, s) == \A i, j \in DOMAIN o : i < j => o[j] \in s[o[i]]

\* Taking an address out of the list leaves the others in their order.
LEMMA WithoutSeq ==
  ASSUME NEW ip \in Ips, order \in Seq(Ips), Distinct(order)
  PROVE  /\ Without(ip) \in Seq(Ips)
         /\ Len(Without(ip)) = IF ip \in Known(order) THEN Len(order) - 1 ELSE Len(order)
         /\ Known(Without(ip)) = Known(order) \ {ip}
         /\ \A i, j \in DOMAIN Without(ip) : i < j =>
              \E a, b \in DOMAIN order :
                a < b /\ Without(ip)[i] = order[a] /\ Without(ip)[j] = order[b]
<1> DEFINE n == Len(order)
           w == Without(ip)
<1>1. n \in Nat /\ DOMAIN order = 1..n /\ \A i \in 1..n : order[i] \in Ips
  BY LenProperties, ElementOfSeq
<1>2. CASE ip \notin Known(order)
  <2>1. w = order
    BY <1>2 DEF Without
  <2> QED
    BY <1>1, <1>2, <2>1 DEF Known
<1>3. CASE ip \in Known(order)
  <2> DEFINE k == Place(ip)
             At(i) == IF i < k THEN i ELSE i + 1
  <2>1. k \in 1..n /\ order[k] = ip
    BY <1>1, <1>3 DEF Known, Place
  <2>2. w = [i \in 1..n - 1 |-> order[At(i)]]
    BY <1>3 DEF Without
  <2> HIDE DEF k, w
  <2>3. n - 1 \in Nat /\ \A i \in 1..n - 1 : At(i) \in 1..n /\ At(i) # k
    BY <1>1, <2>1
  <2>4. \A i \in 1..n - 1 : order[At(i)] \in Ips
    BY <1>1, <2>3
  <2> HIDE DEF At
  <2>5. [i \in 1..n - 1 |-> order[At(i)]] \in Seq(Ips)
    BY <2>3, <2>4, IsASeq
  <2>6. w \in Seq(Ips) /\ Len(w) = n - 1 /\ DOMAIN w = 1..n - 1
    BY <2>2, <2>3, <2>5, LenProperties
  <2>7. Known(w) = Known(order) \ {ip}
    <3>1. ASSUME NEW i \in 1..n - 1 PROVE w[i] \in Known(order) \ {ip}
      <4>1. w[i] = order[At(i)] /\ At(i) \in DOMAIN order /\ At(i) # k
        BY <1>1, <2>2, <2>3
      <4>2. k \in DOMAIN order
        BY <1>1, <2>1
      <4> QED
        BY <2>1, <4>1, <4>2 DEF Known, Distinct
    <3>2. ASSUME NEW a \in 1..n, order[a] # ip PROVE \E i \in 1..n - 1 : w[i] = order[a]
      <4>1. \E i \in 1..n - 1 : At(i) = a
        <5>1. a < k => a \in 1..n - 1 /\ At(a) = a
          BY <1>1, <2>1 DEF At
        <5>2. a > k => a - 1 \in 1..n - 1 /\ At(a - 1) = a
          BY <1>1, <2>1 DEF At
        <5>3. a < k \/ a > k
          BY <1>1, <2>1, <3>2
        <5> QED
          BY <5>1, <5>2, <5>3
      <4> QED
        BY <2>2, <4>1
    <3>3. Known(w) = {w[i] : i \in 1..n - 1}
      BY ONLY <2>6 DEF Known
    <3>4. Known(order) = {order[i] : i \in 1..n}
      BY ONLY <1>1 DEF Known
    <3>5. Known(w) \subseteq Known(order) \ {ip}
      BY ONLY <3>1, <3>3
    <3>6. Known(order) \ {ip} \subseteq Known(w)
      BY ONLY <3>2, <3>3, <3>4
    <3> QED
      BY ONLY <3>5, <3>6
  <2>8. \A i, j \in 1..n - 1 : i < j => At(i) < At(j)
    BY <1>1, <2>1 DEF At
  <2>9. ASSUME NEW i \in DOMAIN w, NEW j \in DOMAIN w, i < j
        PROVE  \E a, b \in DOMAIN order : a < b /\ w[i] = order[a] /\ w[j] = order[b]
    <3>1. At(i) \in DOMAIN order /\ At(j) \in DOMAIN order /\ At(i) < At(j)
      BY <1>1, <2>3, <2>6, <2>8, <2>9
    <3>2. w[i] = order[At(i)] /\ w[j] = order[At(j)]
      BY <2>2, <2>6
    <3> QED
      BY <3>1, <3>2
  <2> QED
    BY <1>3, <2>6, <2>7, <2>9 DEF w
<1> QED
  BY <1>2, <1>3

\* The list and how recent its addresses are (move_to_end keeps the dict in the order
\* of use).
ListOK ==
  /\ order \in Seq(Ips) /\ Distinct(order) /\ Recency(order, since)
  /\ since \in [Ips -> SUBSET Ips] /\ \A ip \in Ips : IsFiniteSet(since[ip])

\* A used address goes to the end, whether it was in the list or not.
LEMMA UsedSeq ==
  ASSUME NEW ip \in Ips, ListOK
  PROVE  /\ Used(ip) \in Seq(Ips)
         /\ Len(Used(ip)) = IF ip \in Known(order) THEN Len(order) ELSE Len(order) + 1
         /\ Len(Used(ip)) \in Nat \ {0} /\ Used(ip)[Len(Used(ip))] = ip
         /\ Known(Used(ip)) = Known(order) \cup {ip}
         /\ Distinct(Used(ip))
<1> DEFINE w == Without(ip)
           n == Len(w)
           u == Used(ip)
<1>0. \A i, j \in DOMAIN w : i < j =>
        \E a, b \in DOMAIN order : a < b /\ w[i] = order[a] /\ w[j] = order[b]
  BY WithoutSeq DEF ListOK
<1>1. /\ w \in Seq(Ips)
      /\ n = IF ip \in Known(order) THEN Len(order) - 1 ELSE Len(order)
      /\ Known(w) = Known(order) \ {ip}
  BY WithoutSeq DEF ListOK
<1>2. n \in Nat /\ DOMAIN w = 1..n /\ Len(order) \in Nat /\ DOMAIN order = 1..Len(order)
  BY <1>1, LenProperties DEF ListOK
<1> HIDE DEF w
<1>3. u = Append(w, ip)
  BY DEF Used, w
<1> HIDE DEF u
<1>4. /\ u \in Seq(Ips) /\ Len(u) = n + 1 /\ u[n + 1] = ip
      /\ \A i \in 1..n : u[i] = w[i]
  BY <1>1, <1>3, AppendProperties
<1>5. DOMAIN u = 1..n + 1
  BY <1>4, LenProperties
<1>6. Known(u) = Known(order) \cup {ip}
  <2>1. Known(u) = Known(w) \cup {ip}
    BY <1>2, <1>4, <1>5 DEF Known
  <2> QED
    BY <1>1, <2>1
<1>7. Distinct(u)
  <2>1. \A i \in 1..n : w[i] # ip
    BY <1>1, <1>2 DEF Known
  <2>2. ASSUME NEW i \in 1..n, NEW j \in 1..n, i < j PROVE w[i] # w[j]
    <3>1. PICK a \in DOMAIN order, b \in DOMAIN order :
             a < b /\ w[i] = order[a] /\ w[j] = order[b]
      BY <1>0, <1>2, <2>2
    <3>2. a # b
      BY <1>2, <3>1
    <3> QED
      BY <3>1, <3>2 DEF ListOK, Distinct
  <2>3. \A i, j \in 1..n : w[i] = w[j] => i = j
    <3>1. \A i, j \in 1..n : i < j \/ j < i \/ i = j
      BY <1>2
    <3> QED
      BY <2>2, <3>1
  <2> QED
    BY <1>2, <1>4, <1>5, <2>1, <2>3 DEF Distinct
<1> HIDE DEF n
<1>8. Len(u) = IF ip \in Known(order) THEN Len(order) ELSE Len(order) + 1
  <2>1. CASE ip \in Known(order)
    BY <1>1, <1>2, <1>4, <2>1
  <2>2. CASE ip \notin Known(order)
    BY <1>1, <1>2, <1>4, <2>2
  <2> QED
    BY <2>1, <2>2
<1>9. Len(u) \in Nat \ {0} /\ u[Len(u)] = ip
  BY <1>2, <1>4
<1> QED
  BY <1>4, <1>6, <1>7, <1>8, <1>9 DEF u

\* A use makes the address the most recent one.
LEMMA UsedRecency ==
  ASSUME NEW ip \in Ips, ListOK, Came(ip)
  PROVE  /\ Recency(Used(ip), since')
         /\ since' \in [Ips -> SUBSET Ips] /\ \A j \in Ips : IsFiniteSet(since'[j])
<1> DEFINE u == Used(ip)
           w == Without(ip)
           n == Len(w)
<1>1. since' = [j \in Ips |-> IF j = ip THEN {} ELSE since[j] \cup {ip}]
  BY DEF Came
<1>2. since' \in [Ips -> SUBSET Ips] /\ \A j \in Ips : IsFiniteSet(since'[j])
  BY <1>1, FS_EmptySet, FS_AddElement DEF ListOK
<1>3. /\ w \in Seq(Ips)
      /\ Known(w) = Known(order) \ {ip}
      /\ \A i, j \in DOMAIN w : i < j =>
           \E a, b \in DOMAIN order : a < b /\ w[i] = order[a] /\ w[j] = order[b]
  BY WithoutSeq DEF ListOK
<1>4. n \in Nat /\ DOMAIN w = 1..n /\ \A i \in 1..n : w[i] \in Ips
  BY <1>3, LenProperties, ElementOfSeq
<1>5. /\ u = Append(w, ip) /\ Len(u) = n + 1 /\ u[n + 1] = ip /\ u \in Seq(Ips)
      /\ \A i \in 1..n : u[i] = w[i]
  BY <1>3, AppendProperties DEF Used
<1>6. DOMAIN u = 1..n + 1
  BY <1>5, LenProperties
<1> HIDE DEF u, w
<1>7. ASSUME NEW i \in 1..n PROVE w[i] \in Ips /\ w[i] # ip
  BY <1>3, <1>4 DEF Known
<1>8. ASSUME NEW i \in 1..n, NEW j \in 1..n, i < j PROVE w[j] \in since[w[i]]
  <2>1. PICK a \in DOMAIN order, b \in DOMAIN order :
           a < b /\ w[i] = order[a] /\ w[j] = order[b]
    BY <1>3, <1>4, <1>8
  <2> QED
    BY <2>1 DEF ListOK, Recency
<1>9. ASSUME NEW i \in 1..n + 1, NEW j \in 1..n + 1, i < j PROVE u[j] \in since'[u[i]]
  <2>1. i \in 1..n /\ u[i] = w[i] /\ since'[w[i]] = since[w[i]] \cup {ip}
    BY <1>1, <1>4, <1>5, <1>7, <1>9
  <2>2. CASE j = n + 1
    BY <1>5, <2>1, <2>2
  <2>3. CASE j # n + 1
    <3>1. j \in 1..n /\ u[j] = w[j]
      BY <1>4, <1>5, <2>3
    <3> QED
      BY <1>8, <1>9, <2>1, <3>1
  <2> QED
    BY <2>2, <2>3
<1> QED
  BY <1>2, <1>6, <1>9 DEF Recency, u

\* Trimming takes the address that was used first, and no other.
LEMMA TrimSeq ==
  ASSUME NEW o \in Seq(Ips), NEW s, Len(o) \in Nat \ {0}, Distinct(o), Recency(o, s)
  PROVE  /\ Trim(o) \in Seq(Ips) /\ Distinct(Trim(o)) /\ Recency(Trim(o), s)
         /\ Len(Trim(o)) = IF Len(o) > StateMax THEN Len(o) - 1 ELSE Len(o)
         /\ Known(o) \ Known(Trim(o)) = IF Len(o) > StateMax THEN {o[1]} ELSE {}
         /\ Known(Trim(o)) \subseteq Known(o)
         /\ o[Len(o)] \in Known(Trim(o))
<1> DEFINE m == Len(o)
<1>1. DOMAIN o = 1..m /\ m \in Nat \ {0} /\ StateMax \in Nat \ {0}
  BY LenProperties, LockoutAssumption
<1>2. CASE m <= StateMax
  <2>1. ~(m > StateMax) /\ m \in DOMAIN o
    BY <1>1, <1>2
  <2>2. Trim(o) = o
    BY <2>1, Zenon DEF Trim
  <2> HIDE DEF m
  <2>3. o[m] \in Known(o)
    BY <2>1 DEF Known
  <2> QED
    BY <2>1, <2>2, <2>3 DEF m
<1>3. CASE m > StateMax
  <2> DEFINE r == Tail(o)
             n == m - 1
  <2>1. r \in Seq(Ips) /\ Len(r) = n /\ \A i \in 1..Len(r) : r[i] = o[i + 1]
    <3>1. o # <<>>
      BY EmptySeq
    <3> QED
      BY <3>1, HeadTailProperties
  <2>2. Trim(o) = r
    BY <1>3 DEF Trim
  <2> HIDE DEF r
  <2>3. DOMAIN r = 1..n
    BY <2>1, LenProperties
  <2> HIDE DEF m
  <2>4. /\ n \in Nat \ {0}
        /\ \A i \in 1..n : i + 1 \in 1..m /\ i + 1 # 1 /\ r[i] = o[i + 1]
        /\ \A i \in 1..m : i # 1 => i - 1 \in 1..n /\ r[i - 1] = o[i]
        /\ 1 \in 1..m
    BY <1>1, <1>3, <2>1
  <2>5. Distinct(r)
    <3> SUFFICES ASSUME NEW i \in 1..n, NEW j \in 1..n, r[i] = r[j] PROVE i = j
      BY <2>3 DEF Distinct
    <3>1. i + 1 \in DOMAIN o /\ j + 1 \in DOMAIN o /\ o[i + 1] = o[j + 1]
      BY <1>1, <2>4
    <3>2. i + 1 = j + 1
      BY <3>1 DEF Distinct
    <3> QED
      BY <2>4, <3>2
  <2>6. Recency(r, s)
    <3> SUFFICES ASSUME NEW i \in 1..n, NEW j \in 1..n, i < j PROVE r[j] \in s[r[i]]
      BY <2>3 DEF Recency
    <3>1. /\ i + 1 \in DOMAIN o /\ j + 1 \in DOMAIN o /\ i + 1 < j + 1
          /\ r[i] = o[i + 1] /\ r[j] = o[j + 1]
      BY <1>1, <2>4
    <3> QED
      BY <3>1 DEF Recency
  <2>7. Known(r) = Known(o) \ {o[1]} /\ o[1] \in Known(o)
    <3>1. ASSUME NEW i \in DOMAIN r PROVE r[i] \in Known(o) \ {o[1]}
      <4>1. i + 1 \in DOMAIN o /\ i + 1 # 1 /\ r[i] = o[i + 1] /\ 1 \in DOMAIN o
        BY <1>1, <2>3, <2>4
      <4> QED
        BY <4>1 DEF Known, Distinct
    <3>2. ASSUME NEW i \in DOMAIN o, o[i] # o[1] PROVE o[i] \in Known(r)
      <4>1. i - 1 \in DOMAIN r /\ r[i - 1] = o[i]
        BY <1>1, <2>3, <2>4, <3>2
      <4> QED
        BY <4>1 DEF Known
    <3>3. 1 \in DOMAIN o
      BY <1>1, <2>4
    <3>4. Known(r) \subseteq Known(o) \ {o[1]}
      BY <3>1 DEF Known
    <3>5. Known(o) \ {o[1]} \subseteq Known(r)
      BY <3>2 DEF Known
    <3> QED
      BY <3>3, <3>4, <3>5 DEF Known
  <2>8. o[m] \in Known(r)
    <3>1. m # 1 /\ m \in 1..m
      BY <1>1, <2>4
    <3>2. m - 1 \in DOMAIN r /\ r[m - 1] = o[m]
      BY <2>3, <2>4, <3>1
    <3> QED
      BY <3>2 DEF Known
  <2> QED
    BY <1>3, <2>1, <2>2, <2>5, <2>6, <2>7, <2>8 DEF m
<1> QED
  <2>1. m <= StateMax \/ m > StateMax
    BY <1>1
  <2> QED
    BY <1>2, <1>3, <2>1

Busy == {t \in Threads : serves[t] # Nobody}

\* A locked address is in the dict, and so is one whose password is compared, unless
\* it was overtaken by state_max others.
Present ==
  /\ locked \subseteq Known(order)
  /\ ~overtaken => \A t \in Busy : serves[t] \in Known(order)

DictInv == TypeOK /\ ListOK /\ Present /\ SizeBounded

\* Threads under way are finitely many.
LEMMA BusyFinite ==
  /\ IsFiniteSet(Busy) /\ Cardinality(Busy) \in Nat
  /\ Cardinality(Busy)' \in Nat
<1>1. Busy \in SUBSET Threads /\ Busy' \in SUBSET Threads
  BY DEF Busy
<1> QED
  BY <1>1, SomeThreads

\* The first section of verify: an address comes in, none goes.
LEMMA CheckDict ==
  ASSUME DictInv, NEW t \in Threads, NEW ip \in Ips, Check(t, ip)
  PROVE  DictInv' /\ Known(order) \subseteq Known(order')
<1>1. /\ serves[t] = Nobody /\ order' = Used(ip) /\ Came(ip)
      /\ UNCHANGED <<failures, locked, overtaken>>
  BY DEF Check
<1>2. ListOK'
  BY <1>1, UsedSeq, UsedRecency DEF DictInv, ListOK
<1>3. /\ Known(order') = Known(order) \cup {ip}
      /\ Len(order') = IF ip \in Known(order) THEN Len(order) ELSE Len(order) + 1
  BY <1>1, UsedSeq DEF DictInv
<1>4. Len(order) \in Nat /\ StateMax \in Nat
  BY LenProperties, LockoutAssumption DEF DictInv, ListOK
<1>5. CASE ip \in locked
  <2>1. UNCHANGED <<serves, tries, old>>
    BY <1>5 DEF Check
  <2>2. TypeOK'
    BY <1>1, <1>2, <2>1 DEF DictInv, TypeOK, ListOK
  <2>3. Len(order') = Len(order) /\ Busy' = Busy
    BY <1>3, <1>5, <2>1 DEF DictInv, Present, Busy
  <2>4. SizeBounded'
    BY <1>1, <2>3 DEF DictInv, SizeBounded, Busy
  <2>5. Present'
    BY <1>1, <1>3, <2>1, <2>3 DEF DictInv, Present
  <2> QED
    BY <1>2, <1>3, <2>2, <2>4, <2>5 DEF DictInv
<1>6. CASE ip \notin locked
  <2>1. /\ serves' = [serves EXCEPT ![t] = ip]
        /\ tries' = [tries EXCEPT ![ip] = @ + 1] /\ old' = old \ {t}
    BY <1>6 DEF Check
  <2>2. TypeOK'
    BY <1>1, <1>2, <2>1 DEF DictInv, TypeOK, ListOK
  <2>3. Busy' = Busy \cup {t} /\ t \notin Busy
    BY <1>1, <2>1, LockoutAssumption DEF DictInv, TypeOK, Busy
  <2>4. Cardinality(Busy') = Cardinality(Busy) + 1
    BY <2>3, BusyFinite, FS_AddElement
  <2>5. Len(order') <= Len(order) + 1 /\ Len(order') \in Nat
    BY <1>3, <1>4
  <2>6. SizeBounded'
    <3>1. ~overtaken => Len(order) <= StateMax + Cardinality(Busy)
      BY DEF DictInv, SizeBounded, Busy
    <3>2. ~overtaken' => Len(order') <= StateMax + Cardinality(Busy')
      BY <1>1, <1>4, <2>4, <2>5, <3>1, BusyFinite
    <3> QED
      BY <3>2 DEF SizeBounded, Busy
  <2>7. Present'
    BY <1>1, <1>3, <2>1, <2>3 DEF DictInv, Present, TypeOK
  <2> QED
    BY <1>2, <1>3, <2>2, <2>6, <2>7 DEF DictInv
<1> QED
  BY <1>5, <1>6

\* The second section: the address comes back to its place, and the one that was used
\* first goes if there are too many.
LEMMA SettleDict ==
  ASSUME DictInv, NEW t \in Threads, serves[t] # Nobody,
         NEW count \in 0..LockoutMax + 1, NEW lock \in BOOLEAN,
         NEW anew \in SUBSET {serves[t]},
         Settle(t, Trim(Used(serves[t])), count, lock, anew)
  PROVE  /\ DictInv'
         /\ \A ip \in Known(order) \ Known(order') : Cardinality(since'[ip]) >= StateMax
<1> DEFINE ip == serves[t]
           u == Used(ip)
           gone == Known(u) \ Known(Trim(u))
           ended == gone \cup anew
<1>1. /\ order' = Trim(u)
      /\ failures' = [j \in Ips |-> IF j = ip THEN count
                                    ELSE IF j \in gone THEN 0 ELSE failures[j]]
      /\ locked' = (IF lock THEN locked \cup {ip} ELSE locked \ anew) \ gone
      /\ serves' = [serves EXCEPT ![t] = Nobody]
      /\ tries' = [j \in Ips |-> IF j \in ended THEN 0 ELSE tries[j]]
      /\ old' = (old \cup {v \in Threads : serves[v] \in ended}) \ {t}
      /\ Came(ip)
      /\ overtaken' = (overtaken \/ \E v \in Threads \ {t} : serves[v] \in gone)
  BY DEF Settle
<1>2. ip \in Ips /\ ListOK /\ TypeOK /\ Present /\ SizeBounded
  BY DEF DictInv, TypeOK
<1>3. /\ u \in Seq(Ips) /\ Len(u) \in Nat \ {0} /\ u[Len(u)] = ip /\ Distinct(u)
      /\ Known(u) = Known(order) \cup {ip}
      /\ Len(u) = IF ip \in Known(order) THEN Len(order) ELSE Len(order) + 1
  BY <1>2, UsedSeq
<1>4. /\ Recency(u, since')
      /\ since' \in [Ips -> SUBSET Ips] /\ \A j \in Ips : IsFiniteSet(since'[j])
  BY <1>1, <1>2, UsedRecency
<1> HIDE DEF u
<1>5. /\ Trim(u) \in Seq(Ips) /\ Distinct(Trim(u)) /\ Recency(Trim(u), since')
      /\ Len(Trim(u)) = IF Len(u) > StateMax THEN Len(u) - 1 ELSE Len(u)
      /\ gone = IF Len(u) > StateMax THEN {u[1]} ELSE {}
      /\ Known(Trim(u)) \subseteq Known(u) /\ ip \in Known(Trim(u))
  BY <1>3, <1>4, TrimSeq
<1>6. ListOK'
  BY <1>1, <1>4, <1>5 DEF ListOK
<1>7. Known(order') = Known(u) \ gone
  BY <1>1, <1>5
<1> HIDE DEF gone
<1>8. TypeOK'
  <2>1. 0 \in 0..LockoutMax + 1
    BY LockoutAssumption
  <2>2. failures' \in [Ips -> 0..LockoutMax + 1]
    BY <1>1, <1>2, <2>1 DEF TypeOK
  <2>3. tries' \in [Ips -> Nat] /\ serves' \in [Threads -> Ips \cup {Nobody}]
    BY <1>1, <1>2 DEF TypeOK
  <2>4. locked' \subseteq Ips /\ old' \subseteq Threads /\ overtaken' \in BOOLEAN
    BY <1>1, <1>2 DEF TypeOK
  <2> QED
    BY <1>6, <2>2, <2>3, <2>4 DEF TypeOK, ListOK
<1>9. Present'
  <2>1. locked' \subseteq Known(order')
    BY <1>1, <1>2, <1>3, <1>7 DEF Present
  <2>2. ASSUME ~overtaken', NEW v \in Threads, serves'[v] # Nobody
        PROVE  serves'[v] \in Known(order')
    <3>1. v # t /\ serves'[v] = serves[v] /\ ~overtaken /\ serves[v] \notin gone
      BY <1>1, <1>2, <2>2 DEF TypeOK
    <3>2. serves[v] \in Known(order)
      BY <1>2, <2>2, <3>1 DEF Present, Busy
    <3> QED
      BY <1>3, <1>7, <3>1, <3>2
  <2> QED
    BY <2>1, <2>2 DEF Present, Busy
<1>10. SizeBounded'
  <2>1. Busy' = Busy \ {t} /\ t \in Busy
    BY <1>1, <1>2 DEF TypeOK, Busy
  <2>2. Cardinality(Busy') = Cardinality(Busy) - 1
    BY <2>1, BusyFinite, FS_RemoveElement
  <2>3. ASSUME ~overtaken' PROVE Len(order') <= StateMax + Cardinality(Busy')
    <3>1. ~overtaken /\ ip \in Known(order)
      BY <1>1, <1>2, <2>1, <2>3 DEF Present
    <3>2. Len(u) = Len(order) /\ Len(order) <= StateMax + Cardinality(Busy)
      BY <1>2, <1>3, <3>1 DEF SizeBounded, Busy
    <3>3. StateMax \in Nat /\ Len(u) \in Nat /\ Cardinality(Busy) \in Nat
          /\ Cardinality(Busy') \in Nat
      BY <1>3, BusyFinite, LockoutAssumption
    <3>4. CASE Len(u) > StateMax
      <4>1. Len(order') = Len(u) - 1
        BY <1>1, <1>5, <3>4
      <4> QED
        BY <2>2, <3>2, <3>3, <4>1
    <3>5. CASE ~(Len(u) > StateMax)
      <4>1. Len(order') = Len(u)
        BY <1>1, <1>5, <3>5
      <4> QED
        BY <3>3, <3>5, <4>1
    <3> QED
      BY <3>4, <3>5
  <2> QED
    BY <2>3 DEF SizeBounded, Busy
<1>11. ASSUME NEW x \in Known(order) \ Known(order')
       PROVE  Cardinality(since'[x]) >= StateMax
  <2>1. x \in gone
    BY <1>3, <1>7
  <2>2. Len(u) > StateMax /\ x = u[1]
    BY <1>5, <2>1 DEF gone
  <2> DEFINE n == Len(u) - 1
             f == [i \in 1..n |-> u[i + 1]]
  <2>3. DOMAIN u = 1..Len(u) /\ n \in Nat /\ n >= StateMax /\ StateMax \in Nat
    BY <1>3, <2>2, LenProperties, LockoutAssumption
  <2>4. \A i \in 1..n : i + 1 \in DOMAIN u /\ 1 \in DOMAIN u /\ 1 < i + 1
    BY <2>3
  <2>5. \A i \in 1..n : f[i] \in since'[x]
    BY <1>4, <2>2, <2>4 DEF Recency
  <2>6. \A i, j \in 1..n : f[i] = f[j] => i = j
    <3> SUFFICES ASSUME NEW i \in 1..n, NEW j \in 1..n, f[i] = f[j] PROVE i = j
      OBVIOUS
    <3>1. i + 1 = j + 1
      BY <1>3, <2>4 DEF Distinct
    <3> QED
      BY <2>3, <3>1
  <2> HIDE DEF n
  <2>7. f \in Injection(1..n, since'[x])
    BY <2>5, <2>6, Fun_IsInj
  <2>8. IsFiniteSet(since'[x]) /\ Cardinality(since'[x]) \in Nat
    <3>1. order \in Seq(Ips)
      BY <1>2 DEF ListOK
    <3>2. x \in Ips
      BY <3>1 DEF Known
    <3>3. IsFiniteSet(since'[x])
      BY <1>4, <3>2
    <3> QED
      BY <3>3, FS_CardinalityType
  <2>9. Cardinality(1..n) <= Cardinality(since'[x]) /\ Cardinality(1..n) = n
    BY <2>3, <2>7, <2>8, FS_Injection, FS_Interval
  <2> QED
    BY <2>3, <2>8, <2>9
<1> QED
  BY <1>6, <1>8, <1>9, <1>10, <1>11 DEF DictInv

\* A lock that runs out leaves the dict alone.
LEMMA RunsOutDict ==
  ASSUME DictInv, NEW ip \in Ips, RunsOut(ip)
  PROVE  DictInv' /\ order' = order
<1>1. /\ locked' = locked \ {ip} /\ tries' = [tries EXCEPT ![ip] = 0]
      /\ old' = old \cup InFlight(ip)
      /\ UNCHANGED <<order, failures, serves, since, overtaken>>
  BY DEF RunsOut
<1>2. TypeOK' /\ ListOK'
  BY <1>1 DEF DictInv, TypeOK, ListOK, InFlight
<1>3. Present' /\ SizeBounded'
  BY <1>1 DEF DictInv, Present, SizeBounded, Busy
<1> QED
  BY <1>1, <1>2, <1>3 DEF DictInv

\* Every step keeps the dict in order, and takes an address only behind state_max others.
LEMMA DictStep ==
  ASSUME DictInv, [Next]_vars
  PROVE  /\ DictInv'
         /\ order' # order => \A ip \in Known(order) \ Known(order') :
                                Cardinality(since'[ip]) >= StateMax
<1>1. ASSUME NEW t \in Threads, NEW ip \in Ips, Check(t, ip)
      PROVE  DictInv' /\ Known(order) \subseteq Known(order')
  BY <1>1, CheckDict
<1>2. ASSUME NEW t \in Threads, RecordFailure(t)
      PROVE  /\ DictInv'
             /\ \A ip \in Known(order) \ Known(order') : Cardinality(since'[ip]) >= StateMax
  <2> DEFINE ip == serves[t]
             count == IF failures[ip] > LockoutMax THEN failures[ip] ELSE failures[ip] + 1
  <2>1. serves[t] # Nobody /\ Settle(t, Trim(Used(ip)), count, Locks(count), {})
    BY <1>2 DEF RecordFailure
  <2>2. failures[ip] \in 0..LockoutMax + 1
    BY <2>1 DEF DictInv, TypeOK
  <2>3. count \in 0..LockoutMax + 1 /\ Locks(count) \in BOOLEAN
    BY <2>2, LockoutAssumption DEF Locks
  <2> HIDE DEF count
  <2> QED
    BY <2>1, <2>3, SettleDict
<1>3. ASSUME NEW t \in Threads, Succeed(t)
      PROVE  /\ DictInv'
             /\ \A ip \in Known(order) \ Known(order') : Cardinality(since'[ip]) >= StateMax
  <2>1. /\ serves[t] # Nobody
        /\ Settle(t, Trim(Used(serves[t])), 0, FALSE, {serves[t]})
    BY <1>3 DEF Succeed
  <2>2. 0 \in 0..LockoutMax + 1
    BY LockoutAssumption
  <2> QED
    BY <2>1, <2>2, SettleDict
<1>4. ASSUME NEW ip \in Ips, RunsOut(ip) PROVE DictInv' /\ order' = order
  BY <1>4, RunsOutDict
<1>5. CASE UNCHANGED vars
  BY <1>5 DEF vars, DictInv, TypeOK, ListOK, Present, SizeBounded, Busy
<1> QED
  BY <1>1, <1>2, <1>3, <1>4, <1>5 DEF Next, Verify, vars

\* The dict is in order in every state (AuthVerifier).
LEMMA DictInvariant == Spec => []DictInv
<1>1. Init => DictInv
  <2> SUFFICES ASSUME Init PROVE DictInv
    OBVIOUS
  <2>1. order = <<>> /\ order \in Seq(Ips) /\ Len(order) = 0 /\ DOMAIN order = {}
    <3>1. order = <<>> /\ order \in Seq(Ips) /\ Len(order) = 0
      BY EmptySeq DEF Init
    <3>2. DOMAIN order = 1..0
      BY <3>1, LenProperties
    <3> QED
      BY <3>1, <3>2
  <2>2. TypeOK
    <3>1. 0 \in 0..LockoutMax + 1 /\ 0 \in Nat
      BY LockoutAssumption
    <3> QED
      BY <2>1, <3>1 DEF Init, TypeOK
  <2>3. ListOK
    BY <2>1, FS_EmptySet DEF Init, ListOK, Distinct, Recency
  <2>4. Present
    BY DEF Init, Present, Busy
  <2>5. SizeBounded
    BY <2>1, BusyFinite, LockoutAssumption DEF SizeBounded, Busy
  <2> QED
    BY <2>2, <2>3, <2>4, <2>5 DEF DictInv
<1>2. DictInv /\ [Next]_vars => DictInv'
  BY DictStep
<1> QED
  BY <1>1, <1>2, PTL DEF Spec

\* Every variable keeps its type (web/auth.py).
THEOREM TypeCorrect == Spec => []TypeOK
<1>1. DictInv => TypeOK
  BY DEF DictInv
<1> QED
  BY <1>1, DictInvariant, PTL

\* The dict never outgrows state_max by more than the attempts under way, unless an
\* address was overtaken during its own comparison (verify adds one without evicting).
THEOREM SizeAlwaysBounded == Spec => []SizeBounded
<1>1. DictInv => SizeBounded
  BY DEF DictInv
<1> QED
  BY <1>1, DictInvariant, PTL

\* An address is forgotten only when state_max others were used since it was
\* (move_to_end, popitem).
THEOREM ForgottenAlwaysLast == Spec => ForgottenLast
<1>1. DictInv /\ [Next]_vars =>
        [\A ip \in Ips :
           ip \in Known(order) \ Known(order') => Cardinality(since'[ip]) >= StateMax]_vars
  <2> SUFFICES ASSUME DictInv, [Next]_vars, NEW ip \in Ips,
                      ip \in Known(order) \ Known(order')
               PROVE  Cardinality(since'[ip]) >= StateMax
    OBVIOUS
  <2>1. order' # order
    OBVIOUS
  <2> QED
    BY <2>1, DictStep
<1> QED
  BY <1>1, DictInvariant, PTL DEF Spec, ForgottenLast
=============================================================================
