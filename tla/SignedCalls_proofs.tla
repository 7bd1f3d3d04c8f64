------------------------- MODULE SignedCalls_proofs -------------------------
(***************************************************************************)
(* SignedCalls for every number of attempts, every timeout, backoff and    *)
(* window, and every skew of the local clock: what the estimate of the     *)
(* exchange's time is worth, and how long the whole call can take.         *)
(***************************************************************************)
EXTENDS SignedCalls, WellFoundedInduction, TLAPS

\* What is left of an attempt once it has its connection and k pieces of the answer
\* were read.
Rest(k) == WriteTimeout + (1 + k) * ReadTimeout

\* Every piece adds a read timeout, up to the longest way there is.
LEMMA RestSteps ==
  /\ Rest(0) = WriteTimeout + ReadTimeout /\ Rest(Pieces) = Travel /\ Travel \in Nat
  /\ \A k \in 0..Pieces :
       /\ Rest(k) \in Nat /\ Rest(k) <= Travel
       /\ Rest(k + 1) \in Nat /\ Rest(k + 1) = Rest(k) + ReadTimeout
<1>1. ReadTimeout \in Nat /\ WriteTimeout \in Nat /\ Pieces \in Nat
  BY SignedAssumption
<1>2. ASSUME NEW k \in Nat
      PROVE  (1 + k) * ReadTimeout \in Nat
  BY <1>1, <1>2
<1>3. ASSUME NEW k \in 0..Pieces
      PROVE  /\ Rest(k) \in Nat /\ Rest(k) <= Travel
             /\ Rest(k + 1) \in Nat /\ Rest(k + 1) = Rest(k) + ReadTimeout
  <2> DEFINE x == (1 + k) * ReadTimeout
             y == (Pieces - k) * ReadTimeout
             z == (1 + Pieces) * ReadTimeout
             t == (1 + (k + 1)) * ReadTimeout
  <2>1. k \in Nat /\ Pieces - k \in Nat
    BY <1>1
  <2>2. x \in Nat /\ y \in Nat /\ z = x + y /\ t = x + ReadTimeout /\ t \in Nat
    BY <1>1, <2>1
  <2>3. Rest(k) = WriteTimeout + x /\ Travel = WriteTimeout + z
        /\ Rest(k + 1) = WriteTimeout + t
    BY DEF Rest, Travel
  <2> HIDE DEF x, y, z, t
  <2> QED
    BY <1>1, <2>2, <2>3
<1>4. Rest(0) = WriteTimeout + ReadTimeout /\ Rest(Pieces) = Travel
  BY <1>1 DEF Rest, Travel
<1>5. Travel \in Nat
  BY <1>1, <1>2 DEF Travel
<1> QED
  BY <1>3, <1>4, <1>5

\* What the control knows: the counter, and an error that an attempt ended with.
ControlOK ==
  /\ now \in Nat /\ skew \in Int /\ attempt \in Nat
  /\ phase \in {"send", "opening", "going", "coming", "sleeping"}
  /\ pieces \in 0..Pieces
  /\ step \in {"time", "balance", "restrictions", "over"}
  /\ lastExc \in {"none"} \cup Errors
  /\ Running => step # "over"

\* Time does not pass the timer, which an attempt started when it had its
\* connection; an answer on its way was made since.
AttemptOK ==
  Running =>
    /\ phase = "going" =>
         /\ due \in Int /\ now <= due /\ due <= now + Rest(0) /\ pieces = 0
    /\ phase = "coming" =>
         /\ due \in Int /\ now <= due
         /\ reply.at \in Int /\ reply.at <= now /\ due <= reply.at + Rest(pieces)
    /\ phase # "coming" => reply.is # "stale"

\* The offset undoes the skew but for the time the answer took back.
OffsetOK ==
  Signed => lag \in Nat /\ lag <= Travel /\ offset = 0 - skew - lag

\* The stamp is the tool's idea of when the request began, at every attempt.
StampOK ==
  /\ asked \in Int /\ asked <= now
  /\ Running /\ Signed => stamp = asked - lag

\* Beyond the balance the key has proven itself.
ProvenOK == step = "restrictions" \/ outcome = "verified" => report # "none"

CallInv ==
  ControlOK /\ AttemptOK /\ OffsetOK /\ StampOK /\ ProvenOK /\ PromptIsAccepted

\* Every step of the call keeps what is known of it.
LEMMA CallStep == CallInv /\ [Next]_vars => CallInv'
<1> SUFFICES ASSUME CallInv, [Next]_vars PROVE CallInv'
  OBVIOUS
<1>r. /\ Rest(0) \in Nat /\ Rest(0) = WriteTimeout + ReadTimeout /\ Travel \in Nat
      /\ WriteTimeout \in Nat /\ ReadTimeout \in Nat /\ OpenTimeout \in Nat
      /\ \A k \in 0..Pieces :
           /\ Rest(k) \in Nat /\ Rest(k) <= Travel
           /\ Rest(k + 1) \in Nat /\ Rest(k + 1) = Rest(k) + ReadTimeout
  BY RestSteps, SignedAssumption
<1> USE SignedAssumption
    DEF CallInv, ControlOK, AttemptOK, OffsetOK, StampOK, ProvenOK, PromptIsAccepted,
        Running, Signed, Errors, Retried, Fatal, NoReply, Local
<1>1. CASE Send
  BY <1>1 DEF Send
<1>2. CASE Open
  BY <1>2, <1>r DEF Open
<1>3. CASE Arrive
  <2>1. /\ Running /\ phase = "going" /\ phase' = "coming" /\ reply'.at = now
        /\ reply'.is = "stale" => Signed /\ ~InWindow
        /\ UNCHANGED <<now, skew, step, attempt, due, pieces, offset, stamp, lastExc, report,
                       outcome, lag, asked>>
    BY <1>3 DEF Arrive
  <2>2. ControlOK' /\ OffsetOK' /\ StampOK' /\ ProvenOK'
    BY <2>1
  <2>3. AttemptOK'
    BY <2>1
  <2>4. PromptIsAccepted'
    BY <2>1 DEF InWindow
  <2> QED
    BY <2>2, <2>3, <2>4
<1>4. CASE Piece
  <2>1. /\ Running /\ phase = "coming" /\ phase' = "coming" /\ pieces < Pieces
        /\ pieces' = pieces + 1 /\ due' = now + ReadTimeout
        /\ UNCHANGED <<now, skew, step, attempt, reply, offset, stamp, lastExc, report,
                       outcome, lag, asked>>
    BY <1>4 DEF Piece
  <2>2. due' \in Int /\ now <= due' /\ due' <= reply.at + Rest(pieces')
    <3>1. /\ Rest(pieces) \in Nat /\ Rest(pieces') = Rest(pieces) + ReadTimeout
          /\ now \in Nat /\ due \in Int /\ now <= due /\ due <= reply.at + Rest(pieces)
          /\ reply.at \in Int
      BY <1>r, <2>1
    <3> QED
      BY <1>r, <2>1, <3>1
  <2>3. pieces' \in 0..Pieces
    BY <2>1
  <2> QED
    BY <2>1, <2>2, <2>3
<1>5. CASE Transport
  BY <1>5 DEF Transport, Fail, Sleep
<1>6. CASE Retry
  BY <1>6 DEF Retry, Fail, Sleep
<1>7. CASE Refuse
  BY <1>7 DEF Refuse, Raise, End
<1>8. CASE Accept
  <2>1. /\ Running /\ phase = "coming" /\ reply'.is = "none"
        /\ UNCHANGED <<now, skew, due, pieces>>
    BY <1>8 DEF Accept
  <2>2. CASE step = "time"
    <3>1. /\ step' = "balance" /\ attempt' = 0 /\ phase' = "send" /\ lastExc' = "none"
          /\ asked' = now /\ offset' = reply.at - (now + skew) /\ lag' = now - reply.at
          /\ stamp' = now + skew + offset' /\ UNCHANGED <<report, outcome>>
      BY <1>8, <2>2 DEF Accept, Ask, OffsetAt
    <3>2. lag' \in Nat /\ lag' <= Travel
      <4>1. /\ now \in Nat /\ due \in Int /\ now <= due /\ reply.at \in Int
            /\ reply.at <= now /\ due <= reply.at + Rest(pieces)
            /\ Rest(pieces) \in Nat /\ Rest(pieces) <= Travel
        BY <1>r, <2>1
      <4> QED
        BY <1>r, <3>1, <4>1
    <3> QED
      BY <2>1, <2>2, <3>1, <3>2
  <2>3. CASE step = "balance"
    BY <1>8, <2>1, <2>3 DEF Accept, Ask
  <2>4. CASE step = "restrictions"
    BY <1>8, <2>1, <2>4 DEF Accept, End
  <2> QED
    BY <1>8, <2>1, <2>2, <2>3, <2>4
<1>9. CASE Unusable
  BY <1>9 DEF Unusable, End
<1>10. CASE Wake
  BY <1>10 DEF Wake, Raise, End
<1>11. CASE Cancel
  BY <1>11 DEF Cancel, End
<1>12. CASE Tick
  BY <1>12, <1>r DEF Tick
<1>13. CASE UNCHANGED vars
  BY <1>13 DEF vars
<1> QED
  BY <1>1, <1>2, <1>3, <1>4, <1>5, <1>6, <1>7, <1>8, <1>9, <1>10, <1>11, <1>12, <1>13 DEF Next

\* The same of every behaviour.
LEMMA AlwaysCallInv == Spec => []CallInv
<1>1. Init => CallInv
  BY SignedAssumption
     DEF Init, CallInv, ControlOK, AttemptOK, OffsetOK, StampOK, ProvenOK, PromptIsAccepted,
         Running, Signed, NoReply
<1> QED
  BY <1>1, CallStep, PTL DEF Spec

\* The estimate of the exchange's time is never ahead, and behind by at most what a
\* request and its answer can take (_compute_time_offset).
THEOREM EstimateClose == Spec => []EstimateNeverAhead
<1>1. CallInv => EstimateNeverAhead
  BY SignedAssumption
     DEF CallInv, ControlOK, OffsetOK, EstimateNeverAhead, Local
<1> QED
  BY <1>1, AlwaysCallInv, PTL

\* A signed request is refused as stale only for the time since it began and the way
\* back of the server's time, at every attempt.
THEOREM PromptAccepted == Spec => []PromptIsAccepted
<1>1. CallInv => PromptIsAccepted
  BY DEF CallInv
<1> QED
  BY <1>1, AlwaysCallInv, PTL

\* No key is verified without its balance (verify_credentials).
THEOREM VerifiedProven == Spec => []VerifiedIsProven
<1>1. CallInv => VerifiedIsProven
  BY DEF CallInv, ProvenOK, VerifiedIsProven
<1> QED
  BY <1>1, AlwaysCallInv, PTL

-----------------------------------------------------------------------------
(* Types *)

\* While it sleeps the client knows which error it sleeps on; the rest of the
\* reply's type is that it came from the exchange's past.
TypeInv ==
  /\ TypeOK
  /\ Running /\ phase = "sleeping" => lastExc \in Errors

\* A Retry-After that is there is a number of seconds.
LEMMA AfterOK ==
  ASSUME NEW a \in RetryAfter \cup {-1, 0}, a # -1
  PROVE  a \in Nat
BY SignedAssumption

\* Every step keeps the types; that the lag is no longer than an answer can take is
\* what AttemptOK knows of the answer.
LEMMA TypeStep == CallInv /\ TypeInv /\ [Next]_vars => TypeInv'
<1> SUFFICES ASSUME CallInv, TypeInv, [Next]_vars PROVE TypeInv'
  OBVIOUS
<1> USE SignedAssumption
    DEF TypeInv, TypeOK, Running, Signed, Errors, Retried, Fatal, NoReply, Local
<1>b. \A k \in 0..Attempts - 1 : Backoff[k] \in Nat
  BY BackoffAssumption
<1>r. /\ Travel \in Nat /\ \A k \in 0..Pieces : Rest(k) \in Nat /\ Rest(k) <= Travel
  BY RestSteps
<1>1. CASE Send
  BY <1>1 DEF Send
<1>2. CASE Arrive
  BY <1>2 DEF Arrive
<1>11. CASE Open
  BY <1>11 DEF Open
<1>12. CASE Piece
  BY <1>12 DEF Piece
<1>13. CASE Unusable
  BY <1>13 DEF Unusable, End
<1>3. CASE Transport
  <2>1. PICK j \in 0..Jitter : due' = now + (IF -1 # -1 THEN -1 ELSE Backoff[attempt] + j)
    <3> HIDE DEF TypeInv, TypeOK
    <3> QED
      BY <1>3 DEF Transport, Fail, Sleep
  <2>2. due' \in Nat
    BY <1>b, <2>1
  <2> QED
    BY <1>3, <2>2 DEF Transport, Fail, Sleep
<1>4. CASE Retry
  <2>1. reply.after \in RetryAfter \cup {-1, 0}
    OBVIOUS
  <2>2. PICK j \in 0..Jitter :
          due' = now + (IF reply.after # -1 THEN reply.after ELSE Backoff[attempt] + j)
    BY <1>4 DEF Retry, Fail, Sleep
  <2>3. now \in Nat /\ Backoff[attempt] \in Nat
    BY <1>b
  <2>4. due' \in Nat
    <3> HIDE DEF TypeInv, TypeOK
    <3>1. CASE reply.after = -1
      BY <2>2, <2>3, <3>1
    <3>2. CASE reply.after # -1
      <4> DEFINE a == reply.after
      <4>1. a \in Nat
        BY <2>1, <3>2, AfterOK
      <4>2. due' = now + a
        BY <2>2, <3>2
      <4> QED
        BY <2>3, <4>1, <4>2
    <3> QED
      BY <3>1, <3>2
  <2> QED
    BY <1>4, <2>4 DEF Retry, Fail, Sleep
<1>5. CASE Refuse
  BY <1>5 DEF Refuse, Raise, End
<1>6. CASE Accept
  <2>1. /\ Running /\ phase = "coming" /\ reply' = NoReply /\ reply'.at \in 0..now'
        /\ UNCHANGED <<now, skew, deadline, due, pieces>>
    BY <1>6 DEF Accept
  <2>2. CASE step = "time"
    <3>1. lag' \in 0..Travel /\ offset' \in Int
      <4>1. lag' = now - reply.at /\ offset' = reply.at - (now + skew)
        BY <1>6, <2>1, <2>2 DEF Accept, OffsetAt
      <4>2. /\ due \in Int /\ now <= due /\ reply.at <= now /\ due <= reply.at + Rest(pieces)
            /\ Rest(pieces) \in Nat /\ Rest(pieces) <= Travel
        BY <1>r, <2>1 DEF CallInv, AttemptOK
      <4> QED
        BY <1>r, <4>1, <4>2
    <3>2. stamp' \in Int
      BY <1>6, <2>1, <2>2, <3>1 DEF Accept, Ask
    <3> QED
      BY <1>6, <2>1, <2>2, <3>1, <3>2 DEF Accept, Ask
  <2>3. CASE step = "balance"
    BY <1>6, <2>1, <2>3 DEF Accept, Ask
  <2>4. CASE step = "restrictions"
    BY <1>6, <2>1, <2>4 DEF Accept, End
  <2> QED
    BY <1>6, <2>1, <2>2, <2>3, <2>4 DEF CallInv, ControlOK
<1>7. CASE Wake
  BY <1>7 DEF Wake, Raise, End
<1>8. CASE Cancel
  BY <1>8 DEF Cancel, End
<1>9. CASE Tick
  BY <1>9 DEF Tick
<1>10. CASE UNCHANGED vars
  BY <1>10 DEF vars
<1> QED
  BY <1>1, <1>2, <1>3, <1>4, <1>5, <1>6, <1>7, <1>8, <1>9, <1>10,
     <1>11, <1>12, <1>13 DEF Next

\* The same of every behaviour.
LEMMA AlwaysTyped == Spec => [](CallInv /\ TypeInv)
<1>1. Init => TypeInv
  BY SignedAssumption, RestSteps
     DEF Init, TypeInv, TypeOK, Running, Retried, Fatal, Errors, NoReply
<1> QED
  BY <1>1, TypeStep, AlwaysCallInv, PTL DEF Spec

\* Every variable keeps its type: a call ends verified, with one of the tool's
\* exceptions, with the caller's timeout, or with the error of a body that is not
\* what it should be (get_json, _compute_time_offset), and with nothing else.
THEOREM TypeCorrect == Spec => []TypeOK
<1>1. TypeInv => TypeOK
  BY DEF TypeInv
<1> QED
  BY <1>1, AlwaysTyped, PTL

-----------------------------------------------------------------------------
(* How long the call takes *)

\* A non-empty set of naturals has a least element.
LEMMA LeastElement ==
  ASSUME NEW S \in SUBSET Nat, S # {}
  PROVE  \E m \in S : \A n \in S : m <= n
<1> DEFINE R == OpToRel(<, Nat)
<1>1. PICK m \in S : \A n \in S : ~(<<n, m>> \in R)
  BY NatLessThanWellFounded, WFMin
<1>2. \A n \in S : ~(n < m)
  BY <1>1 DEF OpToRel
<1>3. QED
  BY <1>2

\* No backoff is longer than the last one: counted from the last, the first to
\* be longer would be at most half of the one after it.
LEMMA BackoffGrows == \A k \in 0..Attempts - 1 : Backoff[k] <= Backoff[Attempts - 1]
<1> DEFINE last == Attempts - 1
           Longer == {d \in 0..last : Backoff[last - d] > Backoff[last]}
<1>1. last \in Nat /\ \A k \in 0..last : Backoff[k] \in Nat
  BY SignedAssumption, BackoffAssumption
<1>2. ASSUME NEW k \in 0..last, Backoff[k] > Backoff[last] PROVE FALSE
  <2>1. last - k \in Longer
    <3>1. last - k \in 0..last /\ last - (last - k) = k
      BY <1>1
    <3> QED
      BY <1>2, <3>1
  <2>2. Longer \in SUBSET Nat /\ Longer # {}
    BY <1>1, <2>1
  <2>3. PICK d \in Longer : \A e \in Longer : d <= e
    BY <2>2, LeastElement
  <2>4. d \in 0..last /\ Backoff[last - d] > Backoff[last]
    BY <2>3
  <2>5. d # 0
    <3>1. last - 0 = last
      BY <1>1
    <3> QED
      BY <1>1, <2>4, <3>1
  <2>6. /\ d - 1 \in 0..last /\ last - (d - 1) \in 1..last
        /\ (last - (d - 1)) - 1 = last - d /\ ~(d <= d - 1)
    BY <1>1, <2>4, <2>5
  <2>7. ~(Backoff[last - (d - 1)] > Backoff[last])
    BY <2>3, <2>6
  <2>8. Backoff[last - (d - 1)] = 2 * Backoff[last - d]
    BY <2>6, BackoffAssumption
  <2>9. /\ Backoff[last - (d - 1)] \in Nat /\ Backoff[last - d] \in Nat
        /\ Backoff[last] \in Nat
    BY <1>1, <2>4, <2>6
  <2> QED
    <3> HIDE DEF last
    <3> QED
      BY <2>4, <2>7, <2>8, <2>9
<1> QED
  BY <1>1, <1>2

\* A longest sleep: no backoff and no Retry-After is longer.
Sleeps == {Backoff[Attempts - 1] + Jitter} \cup RetryAfter
Longest(l) == l \in Sleeps /\ \A s \in Sleeps : s <= l

\* What a attempts can take together, each with its connection, its way and its sleep.
Spent(l, a) == a * (OpenTimeout + Travel + l)

\* It grows with every attempt, by the longest one and a sleep.
LEMMA SpentSteps ==
  ASSUME NEW l \in Nat
  PROVE  /\ Spent(l, 0) = 0
         /\ \A a \in Nat : /\ Spent(l, a) \in Nat
                           /\ Spent(l, a + 1) = Spent(l, a) + OpenTimeout + Travel + l
<1> DEFINE c == OpenTimeout + Travel + l
<1>1. c \in Nat /\ OpenTimeout \in Nat /\ Travel \in Nat
  BY SignedAssumption, RestSteps
<1>2. \A a \in Nat : a * c \in Nat /\ (a + 1) * c = a * c + c /\ 0 * c = 0
  <2> HIDE DEF c
  <2> QED
    BY <1>1
<1> QED
  BY <1>1, <1>2 DEF Spent

\* So more attempts never take less.
LEMMA SpentGrows ==
  ASSUME NEW l \in Nat, NEW a \in Nat, NEW b \in Nat, a <= b
  PROVE  Spent(l, a) <= Spent(l, b)
<1> DEFINE c == OpenTimeout + Travel + l
           x == a * c
           y == b * c
           z == (b - a) * c
<1>1. c \in Nat /\ b - a \in Nat
  BY SignedAssumption, RestSteps
<1>2. x \in Nat /\ z \in Nat /\ y = x + z
  <2> HIDE DEF c
  <2> QED
    BY <1>1
<1>3. x <= y
  <2> HIDE DEF x, y, z
  <2> QED
    BY <1>2
<1> QED
  BY <1>3 DEF Spent

\* The latest each request can begin: the balance once the server's time has been
\* answered, the restrictions once the balance has, within its window and an
\* answer's way.
BalanceFrom(l) == Spent(l, Attempts) - l
RestrictionsFrom(l) == BalanceFrom(l) + RecvWindow + Travel

\* A request begun no later than `from` is where its attempts allow it to be.
Paced(l, from) ==
  /\ phase = "send" => now <= from + Spent(l, attempt)
  /\ phase = "opening" => now <= due /\ due <= from + Spent(l, attempt) + OpenTimeout
  /\ phase \in {"going", "coming"} =>
       now <= due /\ due <= from + Spent(l, attempt) + OpenTimeout + Rest(pieces)
  /\ phase = "sleeping" => now <= due /\ due <= from + Spent(l, attempt + 1)

\* Every request is paced; the stamp of the balance's, and with it the answer that
\* accepts it, is no later than its begin allows.
Elapsed(l) ==
  /\ step = "time" => Paced(l, 0)
  /\ step = "balance" => Paced(l, BalanceFrom(l)) /\ stamp <= BalanceFrom(l)
  /\ step = "restrictions" => Paced(l, RestrictionsFrom(l))
  /\ now <= RestrictionsFrom(l) + Spent(l, Attempts)

ElapsedInv ==
  /\ Running /\ Signed /\ phase = "coming" /\ reply.is = "ok" =>
       reply.at <= stamp + RecvWindow
  /\ \A l \in Sleeps : Longest(l) => Elapsed(l)

\* Every sleep is one of those a longest one is compared with.
LEMMA SleepBound ==
  ASSUME NEW l \in Nat, Longest(l), TypeInv, NEW a \in RetryAfter \cup {-1, 0}, Sleep(a)
  PROVE  due' <= now + l
<1>1. now \in Nat /\ attempt \in 0..Attempts - 1
  BY DEF TypeInv, TypeOK
<1>2. /\ Backoff[attempt] \in Nat /\ Backoff[Attempts - 1] \in Nat /\ Jitter \in Nat
      /\ Backoff[attempt] <= Backoff[Attempts - 1]
  BY <1>1, SignedAssumption, BackoffAssumption, BackoffGrows
<1>3. Backoff[attempt] + Jitter <= l
  <2>1. Backoff[Attempts - 1] + Jitter <= l
    BY DEF Longest, Sleeps
  <2> QED
    BY <1>2, <2>1
<1>4. a # -1 => a \in Nat /\ a <= l
  <2>1. CASE a \in RetryAfter
    BY <2>1, SignedAssumption DEF Longest, Sleeps
  <2>2. CASE a = 0
    BY <2>2
  <2>3. CASE a = -1
    BY <2>3
  <2> QED
    BY <2>1, <2>2, <2>3
<1>5. CASE a = -1
  <2>1. PICK j \in 0..Jitter : due' = now + (IF a # -1 THEN a ELSE Backoff[attempt] + j)
    BY DEF Sleep
  <2> QED
    BY <1>1, <1>2, <1>3, <1>5, <2>1
<1>6. CASE a # -1
  <2>1. due' = now + a
    BY <1>6 DEF Sleep
  <2> QED
    BY <1>1, <1>4, <1>6, <2>1
<1> QED
  BY <1>5, <1>6

\* An attempt that failed, in transport or with an error that is retried, has taken
\* its connection, its way and one sleep at the most.
LEMMA PacedFail ==
  ASSUME NEW l \in Nat, Longest(l), NEW from \in Int, CallInv, TypeInv, Paced(l, from),
         phase \in {"opening", "going", "coming"}, Running,
         NEW a \in RetryAfter \cup {-1, 0}, Sleep(a), UNCHANGED <<now, attempt>>
  PROVE  Paced(l, from)'
<1>1. now \in Nat /\ attempt \in Nat /\ due \in Nat /\ now <= due
  BY SignedAssumption DEF TypeInv, TypeOK, Paced
<1>2. /\ Spent(l, attempt) \in Nat /\ OpenTimeout \in Nat /\ Travel \in Nat
      /\ Spent(l, attempt + 1) = Spent(l, attempt) + OpenTimeout + Travel + l
  BY <1>1, SpentSteps, RestSteps, SignedAssumption
<1>3. due' <= now + l
  BY SleepBound
<1>4. due <= from + Spent(l, attempt) + OpenTimeout + Travel
  <2>1. CASE phase = "opening"
    BY <1>1, <1>2, <2>1 DEF Paced
  <2>2. CASE phase \in {"going", "coming"}
    <3>1. Rest(pieces) \in Nat /\ Rest(pieces) <= Travel
      BY RestSteps DEF TypeInv, TypeOK
    <3>2. due <= from + Spent(l, attempt) + OpenTimeout + Rest(pieces)
      BY <2>2 DEF Paced
    <3> QED
      BY <1>1, <1>2, <3>1, <3>2
  <2> QED
    BY <2>1, <2>2
<1>5. phase' = "sleeping" /\ due' \in Int /\ now <= due'
  <2>1. now \in Nat /\ Backoff[attempt] \in Nat
    BY <1>1, SignedAssumption, BackoffAssumption DEF TypeInv, TypeOK
  <2>2. CASE a = -1
    <3>1. /\ \E j \in 0..Jitter : due' = now + (IF a # -1 THEN a ELSE Backoff[attempt] + j)
          /\ phase' = "sleeping"
      BY DEF Sleep
    <3> QED
      BY <2>1, <2>2, <3>1, SignedAssumption
  <2>3. CASE a # -1
    <3>1. a \in Nat
      BY <2>3, AfterOK
    <3>2. due' = now + a /\ phase' = "sleeping"
      BY <2>3 DEF Sleep
    <3> QED
      BY <2>1, <3>1, <3>2
  <2> QED
    BY <2>2, <2>3
<1>6. due' <= from + Spent(l, attempt + 1)
  BY <1>1, <1>2, <1>3, <1>4, <1>5
<1> QED
  BY <1>5, <1>6 DEF Paced

\* A step of the call stays within its time, for a fixed longest sleep.
LEMMA ElapsedStep ==
  ASSUME NEW l \in Nat, Longest(l), CallInv, TypeInv, ElapsedInv, Elapsed(l), [Next]_vars
  PROVE  Elapsed(l)'
<1> DEFINE A == Spent(l, Attempts)
           S == Spent(l, attempt)
           T == Spent(l, attempt + 1)
           begin == IF step = "time" THEN 0
                    ELSE IF step = "balance" THEN BalanceFrom(l) ELSE RestrictionsFrom(l)
<1>a. /\ now \in Nat /\ due \in Nat /\ attempt \in 0..Attempts - 1 /\ attempt \in Nat
      /\ stamp \in Int /\ Attempts \in Nat \ {0} /\ OpenTimeout \in Nat
      /\ WriteTimeout \in Nat /\ ReadTimeout \in Nat /\ RecvWindow \in Nat
      /\ step \in {"time", "balance", "restrictions", "over"}
      /\ phase \in {"send", "opening", "going", "coming", "sleeping"}
      /\ Running => step # "over"
  BY SignedAssumption DEF TypeInv, TypeOK, CallInv, ControlOK
<1>r. /\ Travel \in Nat /\ Rest(0) \in Nat /\ Rest(0) = WriteTimeout + ReadTimeout
      /\ pieces \in 0..Pieces /\ Rest(pieces) \in Nat /\ Rest(pieces) <= Travel
      /\ Rest(pieces + 1) = Rest(pieces) + ReadTimeout
  <2>1. pieces \in 0..Pieces /\ 0 \in 0..Pieces
    BY SignedAssumption DEF TypeInv, TypeOK
  <2> QED
    BY <2>1, RestSteps
<1>b. /\ A \in Nat /\ S \in Nat /\ T \in Nat /\ T = S + OpenTimeout + Travel + l /\ T <= A
      /\ Spent(l, 0) = 0
  <2>1. attempt + 1 \in Nat /\ attempt + 1 <= Attempts /\ Attempts \in Nat
    BY <1>a
  <2> QED
    BY <1>a, <2>1, SpentSteps, SpentGrows
<1>c. /\ BalanceFrom(l) = A - l /\ RestrictionsFrom(l) = A - l + RecvWindow + Travel
      /\ BalanceFrom(l) \in Nat /\ RestrictionsFrom(l) \in Nat
  <2>1. l <= A
    BY <1>a, <1>r, <1>b
  <2> QED
    BY <1>a, <1>r, <1>b, <2>1 DEF BalanceFrom, RestrictionsFrom
<1>d. PICK from \in Nat : from = begin /\ from <= RestrictionsFrom(l)
  <2>1. begin \in Nat /\ begin <= RestrictionsFrom(l)
    BY <1>a, <1>r, <1>b, <1>c
  <2> HIDE DEF begin
  <2> QED
    BY <2>1
<1>e. Running => Paced(l, from)
  <2>1. CASE step = "time"
    BY <1>d, <2>1 DEF Elapsed
  <2>2. CASE step = "balance"
    BY <1>d, <2>2 DEF Elapsed
  <2>3. CASE step = "restrictions"
    BY <1>d, <2>3 DEF Elapsed
  <2> QED
    BY <1>a, <2>1, <2>2, <2>3
<1> HIDE DEF A, S, T
<1>f. ASSUME step' = step, stamp' = stamp, Running, Paced(l, from)'
      PROVE  /\ step' = "time" => Paced(l, 0)'
             /\ step' = "balance" => Paced(l, BalanceFrom(l))' /\ stamp' <= BalanceFrom(l)
             /\ step' = "restrictions" => Paced(l, RestrictionsFrom(l))'
  <2>1. CASE step = "time"
    BY <1>d, <1>f, <2>1
  <2>2. CASE step = "balance"
    BY <1>d, <1>f, <2>2 DEF Elapsed, Spent, BalanceFrom, Paced
  <2>3. CASE step = "restrictions"
    BY <1>d, <1>f, <2>3 DEF Spent, RestrictionsFrom, BalanceFrom, Paced
  <2> QED
    BY <1>a, <1>f, <2>1, <2>2, <2>3
<1>g. ASSUME step' = step, stamp' = stamp, Running, Paced(l, from)', now' = now
      PROVE  Elapsed(l)'
  <2>1. now' <= RestrictionsFrom(l) + Spent(l, Attempts)
    BY <1>g DEF Elapsed
  <2> QED
    BY <1>f, <1>g, <2>1 DEF Elapsed, BalanceFrom, RestrictionsFrom, Spent
<1>h. ASSUME step' = "over", now' = now
      PROVE  Elapsed(l)'
  BY <1>h DEF Elapsed, BalanceFrom, RestrictionsFrom, Spent
<1>1. CASE Send
  <2>1. Paced(l, from)'
    BY <1>1, <1>a, <1>b, <1>d, <1>e DEF Send, Paced, S, Spent
  <2> QED
    BY <1>1, <1>g, <2>1 DEF Send
<1>11. CASE Open
  <2>1. /\ Running /\ phase = "opening" /\ phase' = "going"
        /\ due' = now + WriteTimeout + ReadTimeout /\ pieces' = 0
        /\ UNCHANGED <<now, step, attempt, stamp>>
    BY <1>11 DEF Open
  <2>2. now <= from + S + OpenTimeout
    BY <1>a, <1>b, <1>d, <1>e, <2>1 DEF Paced, S
  <2>3. now <= due' /\ due' <= from + S + OpenTimeout + Rest(0)
    BY <1>a, <1>b, <1>d, <1>r, <2>1, <2>2
  <2>4. Paced(l, from)'
    BY <2>1, <2>3 DEF Paced, S, Spent
  <2> QED
    BY <1>g, <2>1, <2>4
<1>12. CASE Piece
  <2>1. /\ Running /\ phase = "coming" /\ phase' = "coming"
        /\ pieces' = pieces + 1 /\ due' = now + ReadTimeout
        /\ UNCHANGED <<now, step, attempt, stamp>>
    BY <1>12 DEF Piece
  <2>2. now <= due /\ due <= from + S + OpenTimeout + Rest(pieces)
    BY <1>e, <2>1 DEF Paced, S
  <2>3. now <= due' /\ due' <= from + S + OpenTimeout + Rest(pieces + 1)
    BY <1>a, <1>b, <1>d, <1>r, <2>1, <2>2
  <2>4. Paced(l, from)'
    BY <2>1, <2>3 DEF Paced, S, Spent
  <2> QED
    BY <1>g, <2>1, <2>4
<1>13. CASE Unusable
  BY <1>13, <1>h DEF Unusable, End
<1>2. CASE Arrive
  <2>1. /\ Running /\ phase = "going" /\ phase' = "coming"
        /\ UNCHANGED <<now, step, attempt, due, pieces, stamp>>
    BY <1>2 DEF Arrive
  <2>2. Paced(l, from)'
    BY <1>e, <2>1 DEF Paced, Spent
  <2> QED
    BY <1>g, <2>1, <2>2
<1>3. CASE Transport
  <2>1. Paced(l, from)'
    BY <1>3, <1>d, <1>e, PacedFail DEF Transport, Fail
  <2> QED
    BY <1>3, <1>g, <2>1 DEF Transport, Fail
<1>4. CASE Retry
  <2>1. reply.after \in RetryAfter \cup {-1, 0}
    BY DEF TypeInv, TypeOK
  <2>2. Paced(l, from)'
    BY <1>4, <1>d, <1>e, <2>1, PacedFail DEF Retry, Fail
  <2> QED
    BY <1>4, <1>g, <2>2 DEF Retry, Fail
<1>5. CASE Refuse
  BY <1>5, <1>h DEF Refuse, Raise, End
<1>6. CASE Accept
  <2>1. /\ Running /\ phase = "coming" /\ reply.is = "ok"
        /\ UNCHANGED <<now, skew, due>>
        /\ due <= reply.at + Rest(pieces) /\ reply.at <= now /\ now <= due
        /\ reply.at \in Int
    BY <1>6 DEF Accept, CallInv, AttemptOK
  <2>2. now <= from + S + OpenTimeout + Travel
    <3>1. now <= due /\ due <= from + S + OpenTimeout + Rest(pieces)
      BY <1>e, <2>1 DEF Paced, S
    <3> QED
      BY <1>a, <1>b, <1>d, <1>r, <3>1
  <2>3. now <= RestrictionsFrom(l) + Spent(l, Attempts)
    BY DEF Elapsed
  <2>4. CASE step = "time"
    <3>1. /\ step' = "balance" /\ attempt' = 0 /\ phase' = "send"
          /\ stamp' = now + skew + (reply.at - (now + skew))
      BY <1>6, <2>1, <2>4 DEF Accept, Ask, OffsetAt, Local
    <3>2. stamp' = reply.at
      <4>1. now \in Int /\ skew \in Int
        BY SignedAssumption DEF TypeInv, TypeOK
      <4> QED
        BY <2>1, <3>1, <4>1
    <3>3. now <= BalanceFrom(l)
      <4>1. from = 0
        BY <1>d, <2>4
      <4> QED
        BY <1>a, <1>b, <1>c, <1>r, <2>2, <4>1
    <3>4. stamp' <= BalanceFrom(l)
      BY <1>a, <1>c, <2>1, <3>2, <3>3
    <3>5. Paced(l, BalanceFrom(l))'
      BY <1>a, <1>b, <1>c, <2>1, <3>1, <3>3 DEF Paced, BalanceFrom, Spent
    <3> QED
      BY <2>1, <2>3, <3>1, <3>4, <3>5 DEF Elapsed, BalanceFrom, RestrictionsFrom, Spent
  <2>5. CASE step = "balance"
    <3>1. step' = "restrictions" /\ attempt' = 0 /\ phase' = "send"
      BY <1>6, <2>1, <2>5 DEF Accept, Ask
    <3>2. now <= RestrictionsFrom(l)
      <4>1. reply.at <= stamp + RecvWindow /\ stamp <= BalanceFrom(l)
        BY <2>1, <2>5 DEF ElapsedInv, Elapsed, Signed
      <4> QED
        BY <1>a, <1>b, <1>c, <1>r, <2>1, <4>1 DEF RestrictionsFrom
    <3>3. Paced(l, RestrictionsFrom(l))'
      BY <1>a, <1>b, <1>c, <2>1, <3>1, <3>2 DEF Paced, BalanceFrom, RestrictionsFrom, Spent
    <3> QED
      BY <2>1, <2>3, <3>1, <3>3 DEF Elapsed, BalanceFrom, RestrictionsFrom, Spent
  <2>6. CASE step = "restrictions"
    BY <1>6, <1>h, <2>1, <2>6 DEF Accept, End
  <2> QED
    BY <1>a, <2>1, <2>4, <2>5, <2>6
<1>7. CASE Wake
  <2>1. CASE attempt + 1 < Attempts
    <3>1. /\ Running /\ phase = "sleeping" /\ now = due /\ phase' = "send"
          /\ attempt' = attempt + 1 /\ UNCHANGED <<now, step, stamp>>
      BY <1>7, <2>1 DEF Wake
    <3>2. now <= from + T
      BY <1>e, <3>1 DEF Paced, T
    <3>3. Paced(l, from)'
      BY <3>1, <3>2 DEF Paced, T, Spent
    <3> QED
      BY <1>g, <3>1, <3>3
  <2>2. CASE ~(attempt + 1 < Attempts)
    BY <1>7, <1>h, <2>2 DEF Wake, Raise, End
  <2> QED
    BY <2>1, <2>2
<1>8. CASE Cancel
  BY <1>8, <1>h DEF Cancel, End
<1>9. CASE Tick
  <2>1. /\ Running /\ phase # "send" /\ now < due /\ now' = now + 1
        /\ UNCHANGED <<step, phase, attempt, due, pieces, stamp>>
    BY <1>9 DEF Tick
  <2>2. now' <= due /\ now' \in Nat
    BY <1>a, <2>1
  <2>3. due <= from + T
    <3>1. CASE phase = "opening"
      BY <1>a, <1>b, <1>d, <1>e, <1>r, <2>1, <3>1 DEF Paced, S
    <3>2. CASE phase \in {"going", "coming"}
      <4>1. due <= from + S + OpenTimeout + Rest(pieces)
        BY <1>e, <2>1, <3>2 DEF Paced, S
      <4> QED
        BY <1>a, <1>b, <1>d, <1>r, <4>1
    <3>3. CASE phase = "sleeping"
      BY <1>e, <2>1, <3>3 DEF Paced, T
    <3> QED
      BY <1>a, <2>1, <3>1, <3>2, <3>3
  <2>4. Paced(l, from)'
    BY <1>e, <2>1, <2>2 DEF Paced, Spent
  <2>5. now' <= RestrictionsFrom(l) + A
    BY <1>a, <1>b, <1>c, <1>d, <1>r, <2>2, <2>3
  <2> QED
    BY <1>f, <2>1, <2>4, <2>5 DEF A, Elapsed, BalanceFrom, RestrictionsFrom, Spent
<1>10. CASE UNCHANGED vars
  BY <1>10 DEF vars, Elapsed, Paced, BalanceFrom, RestrictionsFrom, Spent
<1> QED
  BY <1>1, <1>2, <1>3, <1>4, <1>5, <1>6, <1>7, <1>8, <1>9, <1>10,
     <1>11, <1>12, <1>13 DEF Next

\* The same of every longest sleep, with the window an accepted balance arrived in.
LEMMA ElapsedInvStep ==
  CallInv /\ TypeInv /\ ElapsedInv /\ [Next]_vars => ElapsedInv'
<1> SUFFICES ASSUME CallInv, TypeInv, ElapsedInv, [Next]_vars PROVE ElapsedInv'
  OBVIOUS
<1>2. (Running /\ Signed /\ phase = "coming" /\ reply.is = "ok" =>
         reply.at <= stamp + RecvWindow)'
  <2> DEFINE Late == Running /\ Signed /\ phase = "coming" /\ reply.is = "ok"
  <2>1. CASE Arrive
    <3> SUFFICES ASSUME Late' PROVE reply'.at <= stamp' + RecvWindow
      OBVIOUS
    <3>1. /\ Signed /\ reply'.is = "ok" /\ stamp' = stamp /\ reply'.at = now
          /\ (Signed /\ ~InWindow => reply'.is \in Retried \cup {"stale"})
      BY <2>1 DEF Arrive, Signed
    <3>2. InWindow
      BY <3>1 DEF Retried
    <3>3. now \in Nat /\ stamp \in Int /\ RecvWindow \in Nat
      BY SignedAssumption DEF TypeInv, TypeOK
    <3> QED
      BY <3>1, <3>2, <3>3 DEF InWindow
  <2>2. CASE Tick \/ Piece \/ UNCHANGED vars
    BY <2>2 DEF Tick, Piece, vars, ElapsedInv, Running, Signed
  <2>3. CASE Send \/ Open \/ Transport \/ Retry
    <3>1. phase' # "coming"
      BY <2>3 DEF Send, Open, Transport, Retry, Fail, Sleep
    <3> QED
      BY <3>1
  <2>4. CASE Refuse \/ Unusable \/ Wake \/ Cancel
    <3>1. ~Late'
      BY <2>4 DEF Refuse, Unusable, Wake, Cancel, Raise, End, Signed
    <3> QED
      BY <3>1
  <2>5. CASE Accept
    <3>1. reply'.is # "ok"
      BY <2>5 DEF Accept, NoReply
    <3> QED
      BY <3>1
  <2> QED
    BY <2>1, <2>2, <2>3, <2>4, <2>5 DEF Next
<1>3. ASSUME NEW l \in Sleeps, Longest(l) PROVE Elapsed(l)'
  <2>1. l \in Nat
    <3>1. Attempts - 1 \in 0..Attempts - 1 /\ Jitter \in Nat
      BY SignedAssumption
    <3> QED
      BY <3>1, SignedAssumption, BackoffAssumption DEF Sleeps
  <2>2. Elapsed(l)
    BY <1>3 DEF ElapsedInv
  <2> QED
    BY <1>3, <2>1, <2>2, ElapsedStep
<1> QED
  BY <1>2, <1>3 DEF ElapsedInv, Sleeps, Longest

\* What each attempt can take, and the longest sleep, whichever that is, bound the
\* whole call with no deadline of the caller (get_json, _sleep, the timeouts of httpx).
THEOREM ElapsedAlwaysBounded == Spec => []ElapsedBounded
<1>1. Init => ElapsedInv
  <2> SUFFICES ASSUME Init PROVE ElapsedInv
    OBVIOUS
  <2>1. now = 0 /\ phase = "send" /\ step = "time" /\ attempt = 0
    BY SignedAssumption DEF Init
  <2>2. ASSUME NEW l \in Sleeps PROVE Elapsed(l)
    <3>1. l \in Nat
      <4>1. Attempts - 1 \in 0..Attempts - 1 /\ Jitter \in Nat
        BY SignedAssumption
      <4> QED
        BY <4>1, SignedAssumption, BackoffAssumption DEF Sleeps
    <3>2. /\ Attempts \in Nat /\ 1 \in Nat /\ 1 <= Attempts
          /\ RecvWindow \in Nat /\ OpenTimeout \in Nat /\ Travel \in Nat
      BY SignedAssumption, RestSteps
    <3>3. /\ Spent(l, Attempts) \in Nat /\ Spent(l, 1) <= Spent(l, Attempts)
          /\ Spent(l, 0) = 0
      BY <3>1, <3>2, SpentSteps, SpentGrows
    <3>4. Spent(l, 1) = OpenTimeout + Travel + l
      BY <3>1, <3>2 DEF Spent
    <3>5. l <= Spent(l, Attempts)
      BY <3>1, <3>2, <3>3, <3>4
    <3>6. 0 <= RestrictionsFrom(l) + Spent(l, Attempts)
      BY <3>1, <3>2, <3>5, <3>3 DEF RestrictionsFrom, BalanceFrom
    <3> QED
      BY <2>1, <3>2, <3>6, <3>3 DEF Elapsed, Paced
  <2> QED
    BY <2>1, <2>2 DEF ElapsedInv
<1>2. CallInv /\ TypeInv /\ ElapsedInv => ElapsedBounded
  <2> SUFFICES ASSUME TypeInv, ElapsedInv, NEW l \in Sleeps, Longest(l)
               PROVE  now <= 2 * Attempts * (OpenTimeout + Travel) + RecvWindow + Travel
                               + (2 * Attempts - 1) * l
    BY DEF ElapsedBounded, ElapsedInv, Sleeps, Longest
  <2>1. now <= RestrictionsFrom(l) + Spent(l, Attempts)
    BY DEF ElapsedInv, Elapsed
  <2>2. /\ l \in Nat /\ Attempts \in Nat /\ OpenTimeout \in Nat /\ Travel \in Nat
        /\ RecvWindow \in Nat
    <3>1. Attempts - 1 \in 0..Attempts - 1 /\ Jitter \in Nat
      BY SignedAssumption
    <3>2. Backoff[Attempts - 1] \in Nat
      BY <3>1, BackoffAssumption
    <3>3. l \in Nat
      BY <3>1, <3>2, SignedAssumption DEF Sleeps
    <3> QED
      BY <3>3, SignedAssumption, RestSteps
  <2>3. RestrictionsFrom(l) + Spent(l, Attempts)
          = 2 * Attempts * (OpenTimeout + Travel) + RecvWindow + Travel
              + (2 * Attempts - 1) * l
    BY <2>2 DEF RestrictionsFrom, BalanceFrom, Spent
  <2> QED
    BY <2>1, <2>3
<1> QED
  BY <1>1, <1>2, ElapsedInvStep, AlwaysTyped, PTL DEF Spec
-----------------------------------------------------------------------------
(* The call cannot go on for ever *)

\* What is left of a call: requests, then attempts of the request under way, then
\* stages of the attempt, then pieces of the answer, then the time until the timer
\* fires.
RequestsLeft ==
  CASE step = "time" -> 3 [] step = "balance" -> 2 [] step = "restrictions" -> 1
    [] step = "over" -> 0
AttemptsLeft == Attempts - attempt
StagesLeft ==
  CASE phase = "send" -> 4 [] phase = "opening" -> 3 [] phase = "going" -> 2
    [] phase = "coming" -> 1 [] phase = "sleeping" -> 0
PiecesLeft == Pieces - pieces
TimeLeft == due - now

LeftIsNatural ==
  RequestsLeft \in 0..3 /\ AttemptsLeft \in 1..Attempts /\ StagesLeft \in 0..4
  /\ PiecesLeft \in 0..Pieces

\* The first of them that changes gets less; the time does not get negative.
Lower ==
  \/ RequestsLeft' < RequestsLeft
  \/ RequestsLeft' = RequestsLeft /\ AttemptsLeft' < AttemptsLeft
  \/ /\ RequestsLeft' = RequestsLeft /\ AttemptsLeft' = AttemptsLeft
     /\ StagesLeft' < StagesLeft
  \/ /\ RequestsLeft' = RequestsLeft /\ AttemptsLeft' = AttemptsLeft
     /\ StagesLeft' = StagesLeft /\ PiecesLeft' < PiecesLeft
  \/ /\ RequestsLeft' = RequestsLeft /\ AttemptsLeft' = AttemptsLeft
     /\ StagesLeft' = StagesLeft /\ PiecesLeft' = PiecesLeft
     /\ TimeLeft' < TimeLeft /\ TimeLeft' \in Nat

\* A call that ends has no request left, and a running one has.
LEMMA EndLowers ==
  ASSUME TypeOK, step # "over", step' = "over"
  PROVE  Lower
BY DEF TypeOK, Lower, RequestsLeft

\* Every step lowers what is left: the attempts are counted up and given up at
\* retry_attempts, every branch of get_json leads to a sleep, a result or an
\* exception, and time stops at the timer that is due.
LEMMA StepLowers ==
  ASSUME TypeOK, Running => step # "over", Next
  PROVE  Lower
<1> USE SignedAssumption
<1>1. CASE Send
  BY <1>1 DEF Send, Lower, RequestsLeft, AttemptsLeft, StagesLeft
<1>2. CASE Arrive
  BY <1>2 DEF Arrive, Lower, RequestsLeft, AttemptsLeft, StagesLeft
<1>9. CASE Open
  BY <1>9 DEF Open, Lower, RequestsLeft, AttemptsLeft, StagesLeft
<1>10. CASE Piece
  BY <1>10 DEF Piece, Lower, RequestsLeft, AttemptsLeft, StagesLeft, PiecesLeft, TypeOK
<1>11. CASE Unusable
  <2>1. step # "over" /\ step' = "over"
    BY <1>11 DEF Unusable, End
  <2> QED
    BY <2>1, EndLowers
<1>3. CASE Transport \/ Retry
  <2>1. /\ phase \in {"opening", "going", "coming"} /\ phase' = "sleeping"
        /\ UNCHANGED <<step, attempt>>
    BY <1>3 DEF Transport, Retry, Fail, Sleep
  <2> QED
    BY <2>1 DEF Lower, RequestsLeft, AttemptsLeft, StagesLeft
<1>4. CASE Refuse
  BY <1>4, EndLowers DEF Refuse, Raise, End
<1>5. CASE Accept
  <2>1. CASE step = "time"
    <3>1. step' = "balance"
      BY <1>5, <2>1 DEF Accept, Ask
    <3> QED
      BY <2>1, <3>1 DEF Lower, RequestsLeft
  <2>2. CASE step = "balance"
    <3>1. step' = "restrictions"
      BY <1>5, <2>2 DEF Accept, Ask
    <3> QED
      BY <2>2, <3>1 DEF Lower, RequestsLeft
  <2>3. CASE step = "restrictions"
    <3>1. step' = "over"
      BY <1>5, <2>3 DEF Accept, End
    <3> QED
      BY <2>3, <3>1, EndLowers
  <2>4. step \in {"time", "balance", "restrictions"}
    BY <1>5 DEF Accept, TypeOK
  <2> QED
    BY <2>1, <2>2, <2>3, <2>4
<1>6. CASE Wake
  <2>1. CASE attempt + 1 < Attempts
    <3>1. attempt' = attempt + 1 /\ step' = step
      BY <1>6, <2>1 DEF Wake
    <3> QED
      BY <3>1 DEF Lower, RequestsLeft, AttemptsLeft, TypeOK
  <2>2. CASE ~(attempt + 1 < Attempts)
    BY <1>6, <2>2, EndLowers DEF Wake, Raise, End
  <2> QED
    BY <2>1, <2>2
<1>7. CASE Cancel
  BY <1>7, EndLowers DEF Cancel, End
<1>8. CASE Tick
  BY <1>8 DEF Tick, Lower, RequestsLeft, AttemptsLeft, StagesLeft, PiecesLeft,
             TimeLeft, TypeOK
<1> QED
  BY <1>1, <1>2, <1>3, <1>4, <1>5, <1>6, <1>7, <1>8,
     <1>9, <1>10, <1>11 DEF Next

\* Whatever the exchange answers, for any number of attempts, any timeout and any
\* Retry-After, a call of verify_credentials takes finitely many steps: each of
\* them lowers what is left of it (get_json's loop, _sleep, wait_for).
THEOREM CallRunsOut == Spec => []LeftIsNatural /\ [][Lower]_vars
<1>1. CallInv => (Running => step # "over")
  BY DEF CallInv, ControlOK
<1>2. CallInv /\ TypeInv => LeftIsNatural
  <2> SUFFICES ASSUME TypeOK PROVE LeftIsNatural
    BY DEF TypeInv
  <2>1. RequestsLeft \in 0..3
    BY DEF TypeOK, RequestsLeft
  <2>2. AttemptsLeft \in 1..Attempts
    BY SignedAssumption DEF TypeOK, AttemptsLeft
  <2>3. StagesLeft \in 0..4 /\ PiecesLeft \in 0..Pieces
    BY SignedAssumption DEF TypeOK, StagesLeft, PiecesLeft
  <2> QED
    BY <2>1, <2>2, <2>3 DEF LeftIsNatural
<1>3. CallInv /\ TypeInv /\ [Next]_vars => [Lower]_vars
  <2>1. TypeInv => TypeOK
    BY DEF TypeInv
  <2> QED
    BY <1>1, <2>1, StepLowers
<1> QED
  BY <1>2, <1>3, AlwaysTyped, PTL DEF Spec
=============================================================================
