---------------------------- MODULE LoginLockout ----------------------------
(***************************************************************************)
(* AuthVerifier (web/auth.py) under require_auth, a synchronous dependency *)
(* and so run in threads: several attempts are in verify at once.  verify  *)
(* holds the lock twice, for the check of the lockout and for what follows *)
(* from the password; the slow comparison lies between.                    *)
(*                                                                         *)
(* The monotonic clock is abstracted to which locks have not run out.  An  *)
(* address that is not in `order` has no failures and no lock.             *)
(***************************************************************************)
EXTENDS Integers, FiniteSets, Sequences

CONSTANTS
  Ips,         \* client addresses
  Nobody,      \* no address
  Threads,     \* threads of the pool
  LockoutMax,  \* lockout_max
  StateMax     \* state_max

ASSUME LockoutAssumption ==
  /\ LockoutMax \in Nat \ {0} /\ StateMax \in Nat \ {0}
  /\ Nobody \notin Ips /\ IsFiniteSet(Threads)

VARIABLES
  order,     \* addresses in _state, the one used last at the end
  failures,  \* of an address, counted no further than LockoutMax
  locked,    \* addresses with locked_until > now
  serves,    \* thread -> address whose password it compares, or Nobody
  tries,     \* auxiliary: comparisons begun for an address in this period: since
             \* its state was made anew, dropped, or its lock ran out
  old,       \* auxiliary: threads whose comparison began in an earlier period
  since,     \* auxiliary: addresses that were used since an address was
  overtaken  \* auxiliary: an address was forgotten during its own comparison

vars == <<order, failures, locked, serves, tries, old, since,
          overtaken>>

Known(o) == {o[i] : i \in DOMAIN o}
InFlight(ip) == {t \in Threads : serves[t] = ip}

-----------------------------------------------------------------------------
\* Mutant: setdefault alone keeps the place of a known address.
UsedInPlace(ip) == IF ip \in Known(order) THEN order ELSE Append(order, ip)

Place(ip) == CHOOSE i \in DOMAIN order : order[i] = ip

Without(ip) ==
  IF ip \in Known(order)
  THEN [i \in 1..Len(order) - 1 |-> order[IF i < Place(ip) THEN i ELSE i + 1]]
  ELSE order

\* setdefault and move_to_end
Used(ip) == Append(Without(ip), ip)

Came(ip) ==
  since' = [j \in Ips |-> IF j = ip THEN {} ELSE since[j] \cup {ip}]

\* popitem(last=False) when there are too many.
Trim(o) == IF Len(o) > StateMax THEN Tail(o) ELSE o

\* The first section: a locked address is refused with 429, another one's
\* password will be compared.  Nothing is evicted here.
Check(t, ip) ==
  /\ serves[t] = Nobody
  /\ order' = Used(ip)
  /\ Came(ip)
  /\ IF ip \in locked
     THEN UNCHANGED <<serves, tries, old>>
     ELSE /\ serves' = [serves EXCEPT ![t] = ip]
          /\ tries' = [tries EXCEPT ![ip] = @ + 1]
          /\ old' = old \ {t}
  /\ UNCHANGED <<failures, locked, overtaken>>

\* What the second section leaves: the address in its place, its count, locked or
\* not, and one address less if there are too many.  A period ends for those
\* that are gone and for those in `anew`.
Settle(t, o, count, lock, anew) ==
  LET ip == serves[t]
      gone == Known(Used(ip)) \ Known(o)
      ended == gone \cup anew
  IN /\ order' = o
     /\ failures' = [j \in Ips |-> IF j = ip THEN count
                                   ELSE IF j \in gone THEN 0 ELSE failures[j]]
     /\ locked' = (IF lock THEN locked \cup {ip} ELSE locked \ anew) \ gone
     /\ serves' = [serves EXCEPT ![t] = Nobody]
     /\ tries' = [j \in Ips |-> IF j \in ended THEN 0 ELSE tries[j]]
     /\ old' = (old \cup {u \in Threads : serves[u] \in ended}) \ {t}
     /\ Came(ip)
     /\ overtaken' = (overtaken \/ \E u \in Threads \ {t} : serves[u] \in gone)

\* Mutant: the count is compared for equality, and has passed the limit for good
\* once a lock has run out.
LocksOnce(count) == count = LockoutMax

Locks(count) == count >= LockoutMax

\* _record_failure, after a wrong password or a header that cannot be read.
RecordFailure(t) ==
  /\ serves[t] # Nobody
  /\ LET ip == serves[t]
         count == IF failures[ip] > LockoutMax THEN failures[ip] ELSE failures[ip] + 1
     IN Settle(t, Trim(Used(ip)), count, Locks(count), {})

\* Mutant: only failures trim the dict.
SucceedUntrimmed(t) ==
  /\ serves[t] # Nobody
  /\ Settle(t, Used(serves[t]), 0, FALSE, {serves[t]})

\* Mutant: a success takes one failure back.
SucceedForgivesOne(t) ==
  /\ serves[t] # Nobody
  /\ Settle(t, Trim(Used(serves[t])), failures[serves[t]] - 1, FALSE, {serves[t]})

\* The right password: the address starts anew.
Succeed(t) ==
  /\ serves[t] # Nobody
  /\ Settle(t, Trim(Used(serves[t])), 0, FALSE, {serves[t]})

\* lockout_secs have passed; the failures are kept.
RunsOut(ip) ==
  /\ ip \in locked
  /\ locked' = locked \ {ip}
  /\ tries' = [tries EXCEPT ![ip] = 0]
  /\ old' = old \cup InFlight(ip)
  /\ UNCHANGED <<order, failures, serves, since, overtaken>>

-----------------------------------------------------------------------------
Init ==
  /\ order = <<>>
  /\ failures = [ip \in Ips |-> 0] /\ locked = {}
  /\ serves = [t \in Threads |-> Nobody]
  /\ tries = [ip \in Ips |-> 0] /\ old = {}
  /\ since = [ip \in Ips |-> {}]
  /\ overtaken = FALSE

Verify(t) == (\E ip \in Ips : Check(t, ip)) \/ RecordFailure(t) \/ Succeed(t)

Next == (\E t \in Threads : Verify(t)) \/ (\E ip \in Ips : RunsOut(ip))

Spec == Init /\ [][Next]_vars

-----------------------------------------------------------------------------
(* Properties *)

TypeOK ==
  /\ order \in Seq(Ips)
  /\ failures \in [Ips -> 0..LockoutMax + 1]
  /\ locked \subseteq Ips
  /\ serves \in [Threads -> Ips \cup {Nobody}]
  /\ tries \in [Ips -> Nat]
  /\ old \subseteq Threads
  /\ since \in [Ips -> SUBSET Ips] /\ overtaken \in BOOLEAN

\* However the attempts interleave, fewer than lockout_max passwords plus one for
\* every thread are compared for an address before it is locked, in every period
\* (the check and the count are separate sections of verify).
GuessesBounded ==
  \A ip \in Ips : tries[ip] + 1 <= LockoutMax + Cardinality(Threads)

\* The dict outgrows state_max by no more than the attempts under way: verify adds
\* an address without evicting one, each end of an attempt evicts one.  An end
\* that has to add its address again, because state_max others came during one
\* comparison, evicts one too few.
SizeBounded ==
  ~overtaken =>
    Len(order) <= StateMax + Cardinality({t \in Threads : serves[t] # Nobody})

\* An address loses its failures or its lock to others only when state_max others
\* have been used since it was (move_to_end, popitem(last=False)).
ForgottenLast ==
  [][\A ip \in Ips :
       ip \in Known(order) \ Known(order') => Cardinality(since'[ip]) >= StateMax]_vars
=============================================================================
