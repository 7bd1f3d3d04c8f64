---------------------------- MODULE SignedCalls ----------------------------
(***************************************************************************)
(* verify_credentials over HttpClient.get_json: three requests in turn,    *)
(* the server's time and two signed ones, each with its attempts, its      *)
(* timeouts and its backoff, under the deadline create_account sets.       *)
(*                                                                         *)
(* The timeouts of httpx are of single operations: to get a connection, to *)
(* send on it, and to read from it each time there is nothing to read.  So *)
(* no timeout bounds an answer that comes in pieces; Pieces does here.     *)
(*                                                                         *)
(* `now` is the exchange's clock; the local clock shows now + skew.  A     *)
(* timer fires when it is due, so time never passes one.                   *)
(***************************************************************************)
EXTENDS Integers

CONSTANTS
  Attempts,     \* retry_attempts
  OpenTimeout,  \* all that pool and connect timeouts allow until there is a connection
  WriteTimeout, \* write=timeout_read
  ReadTimeout,  \* read=timeout_read
  Pieces,       \* bound: how often an answer under way is waited for anew
  BaseSleep,    \* retry_base_sleep
  Backoff,      \* retry_base_sleep * 2 ** attempt, for every attempt
  Jitter,       \* the most that random.uniform adds to it
  RecvWindow,   \* recvWindow of a signed request
  Deadlines,    \* when the caller gives up: 10 s in the web service, never in the CLI
  RetryAfter,   \* values the Retry-After header can have
  Skews         \* local clock minus the exchange's

ASSUME SignedAssumption ==
  /\ Attempts \in Nat \ {0} /\ BaseSleep \in Nat /\ RecvWindow \in Nat
  /\ OpenTimeout \in Nat /\ WriteTimeout \in Nat /\ ReadTimeout \in Nat
  /\ Pieces \in Nat /\ Jitter \in Nat /\ Deadlines \subseteq Nat
  /\ RetryAfter \subseteq Nat /\ Skews \subseteq Int

\* The sleeps double from one attempt to the next.
ASSUME BackoffAssumption ==
  /\ Backoff \in [0..Attempts - 1 -> Nat] /\ Backoff[0] = BaseSleep
  /\ \A k \in 1..Attempts - 1 : Backoff[k] = 2 * Backoff[k - 1]

VARIABLES
  now,      \* the exchange's clock
  skew,     \* local clock minus now
  deadline, \* of the caller
  step,     \* the request under way: "time", "balance", "restrictions", "over"
  phase,    \* "send", "opening" (no connection yet), "going" (until the exchange has
            \* the request), "coming", "sleeping"
  attempt,  \* the counter of get_json
  due,      \* when the timer of this phase fires
  pieces,   \* how often it was started anew by a piece of the answer
  reply,    \* [is, at, after]: what the exchange answers, its time, Retry-After
  offset,   \* time_offset_ms
  stamp,    \* timestamp of the signed request
  lastExc,  \* last_exc
  report,   \* "none", "read_ok", "full"
  outcome,  \* "running", or how the call ended
  lag,      \* auxiliary: how long the answer with the server's time took back
  asked     \* auxiliary: when the request began

vars == <<now, skew, deadline, step, phase, attempt, due, pieces, reply, offset, stamp,
          lastExc, report, outcome, lag, asked>>

Local == now + skew
Signed == step \in {"balance", "restrictions"}

\* Replies by the branch of get_json that handles them; "stale" is -1021, which
\* is no auth code, so it is a 4xx like any other.
Retried == {"rate_limit", "exchange_5xx"}
Fatal == {"auth", "banned", "refused", "stale"}
Errors == {"auth", "rate_limit", "exchange", "network"}

Running == outcome = "running"
NoReply == [is |-> "none", at |-> 0, after |-> 0]

-----------------------------------------------------------------------------
\* The longest way of a request and its answer on an open connection.
Travel == WriteTimeout + (1 + Pieces) * ReadTimeout

\* Mutant: one timestamp serves both signed requests.
AskOnce(s) ==
  /\ step' = s /\ attempt' = 0 /\ phase' = "send" /\ lastExc' = "none" /\ asked' = now
  /\ stamp' = IF s = "balance" THEN Local + offset' ELSE stamp

\* A request begins; a signed one is stamped now, once for all its attempts.
Ask(s) ==
  /\ step' = s /\ attempt' = 0 /\ phase' = "send" /\ lastExc' = "none" /\ asked' = now
  /\ stamp' = IF s = "balance" \/ s = "restrictions" THEN Local + offset' ELSE stamp

End(o) ==
  outcome' = o /\ step' = "over" /\ UNCHANGED <<attempt, phase, lastExc, stamp, asked>>

\* Mutant: the except clause is around both signed requests.
RaiseForgives(e) == End(IF Signed /\ e = "exchange" THEN "verified" ELSE e)

\* How verify_credentials takes the end of a request with an error: without the
\* restrictions it still returns, but only an ExchangeError is caught.
Raise(e) ==
  End(IF step = "restrictions" /\ e = "exchange" THEN "verified" ELSE e)

\* self._client.get: a connection is taken from the pool or opened.
Send ==
  /\ Running /\ phase = "send" /\ attempt < Attempts
  /\ phase' = "opening" /\ due' = now + OpenTimeout
  /\ UNCHANGED <<now, skew, deadline, step, attempt, pieces, reply, offset, stamp, lastExc,
                 report, outcome, lag, asked>>

\* The request is written and its answer awaited.
Open ==
  /\ Running /\ phase = "opening"
  /\ phase' = "going" /\ due' = now + WriteTimeout + ReadTimeout /\ pieces' = 0
  /\ UNCHANGED <<now, skew, deadline, step, attempt, reply, offset, stamp, lastExc, report,
                 outcome, lag, asked>>

\* The exchange checks a signed request's time when it arrives, and answers
\* anything else it likes.
InWindow == stamp <= now /\ now - stamp <= RecvWindow

Arrive ==
  /\ Running /\ phase = "going"
  /\ phase' = "coming"
  /\ \E r \in {"ok", "auth", "banned", "refused", "stale"} \cup Retried,
        a \in RetryAfter \cup {-1} :
       /\ Signed /\ ~InWindow => r \in Retried \cup {"stale"}
       /\ r = "stale" => Signed /\ ~InWindow
       /\ a # -1 => r = "rate_limit"
       /\ reply' = [is |-> r, at |-> now, after |-> a]
  /\ UNCHANGED <<now, skew, deadline, step, attempt, due, pieces, offset, stamp, lastExc,
                 report, outcome, lag, asked>>

\* A part of the answer is read and the rest is waited for.
Piece ==
  /\ Running /\ phase = "coming" /\ pieces < Pieces
  /\ pieces' = pieces + 1 /\ due' = now + ReadTimeout
  /\ UNCHANGED <<now, skew, deadline, step, phase, attempt, reply, offset, stamp, lastExc,
                 report, outcome, lag, asked>>

\* Mutant: the backoff comes on top of Retry-After.
SleepBoth(a) ==
  /\ phase' = "sleeping"
  /\ \E j \in 0..Jitter : due' = now + (IF a # -1 THEN a ELSE 0) + Backoff[attempt] + j

\* _sleep(attempt, retry_after), also after the last attempt.
Sleep(a) ==
  /\ phase' = "sleeping"
  /\ \E j \in 0..Jitter : due' = now + (IF a # -1 THEN a ELSE Backoff[attempt] + j)

Fail(e, a) ==
  /\ Sleep(a) /\ lastExc' = e /\ reply' = NoReply
  /\ UNCHANGED <<now, skew, deadline, step, attempt, pieces, offset, stamp, report, outcome,
                 lag, asked>>

\* One of the timeouts, or a connection that fails before it.
Transport ==
  /\ Running /\ phase \in {"opening", "going", "coming"}
  /\ Fail("network", -1)

\* Mutant: the error is not mapped to an exception of the tool.
RetryUnmapped ==
  /\ Running /\ phase = "coming" /\ reply.is \in Retried
  /\ Fail(reply.is, reply.after)

\* The branches of get_json on an answer.
Retry ==
  /\ Running /\ phase = "coming" /\ reply.is \in Retried
  /\ Fail(IF reply.is = "rate_limit" THEN "rate_limit" ELSE "exchange", reply.after)

Refuse ==
  /\ Running /\ phase = "coming" /\ reply.is \in Fatal
  /\ reply' = NoReply
  /\ Raise(IF reply.is = "auth" THEN "auth" ELSE "exchange")
  /\ UNCHANGED <<now, skew, deadline, due, pieces, offset, report, lag>>

\* Mutant: the local clock is read before the request.
OffsetAtSend(serverTime) == serverTime - (asked + skew)

\* The offset is taken when the answer is read.
OffsetAt(serverTime) == serverTime - Local

Accept ==
  /\ Running /\ phase = "coming" /\ reply.is = "ok"
  /\ reply' = NoReply
  /\ CASE step = "time" ->
            /\ offset' = OffsetAt(reply.at) /\ lag' = now - reply.at
            /\ Ask("balance") /\ UNCHANGED <<report, outcome>>
       [] step = "balance" ->
            /\ report' = "read_ok"
            /\ UNCHANGED <<offset, lag>>
            /\ Ask("restrictions") /\ UNCHANGED outcome
       [] step = "restrictions" ->
            /\ report' \in {"full", report}    \* a body that is no object adds nothing
            /\ End("verified") /\ UNCHANGED <<offset, lag>>
  /\ UNCHANGED <<now, skew, deadline, due, pieces>>

\* A 2xx whose body is no JSON, or is the server's time without it: ValueError or
\* KeyError, which nobody here catches.
Unusable ==
  /\ Running /\ phase = "coming" /\ reply.is = "ok"
  /\ reply' = NoReply
  /\ End("unhandled")
  /\ UNCHANGED <<now, skew, deadline, due, pieces, offset, report, lag>>

\* The sleep is over: the next attempt, or the error of the last one.
Wake ==
  /\ Running /\ phase = "sleeping" /\ now = due
  /\ IF attempt + 1 < Attempts
     THEN /\ attempt' = attempt + 1 /\ phase' = "send"
          /\ UNCHANGED <<step, outcome, lastExc, stamp, asked>>
     ELSE Raise(lastExc)
  /\ UNCHANGED <<now, skew, deadline, due, pieces, reply, offset, report, lag>>

\* wait_for cancels whatever is awaited.
Cancel ==
  /\ Running /\ now = deadline
  /\ End("timeout")
  /\ UNCHANGED <<now, skew, deadline, due, pieces, reply, offset, report, lag>>

Tick ==
  /\ Running /\ phase # "send" /\ now < due /\ now < deadline
  /\ now' = now + 1
  /\ UNCHANGED <<skew, deadline, step, phase, attempt, due, pieces, reply, offset, stamp,
                 lastExc, report, outcome, lag, asked>>

-----------------------------------------------------------------------------
Init ==
  /\ now = 0 /\ skew \in Skews /\ deadline \in Deadlines
  /\ step = "time" /\ phase = "send" /\ attempt = 0 /\ due = 0 /\ pieces = 0
  /\ reply = NoReply /\ offset = 0 /\ stamp = 0
  /\ lastExc = "none" /\ report = "none" /\ outcome = "running" /\ lag = 0
  /\ asked = 0

Next ==
  \/ Send \/ Open \/ Arrive \/ Piece \/ Tick
  \/ Transport \/ Retry \/ Refuse \/ Accept \/ Unusable \/ Wake \/ Cancel

Spec == Init /\ [][Next]_vars

-----------------------------------------------------------------------------
(* Properties *)

TypeOK ==
  /\ now \in Nat /\ skew \in Skews /\ deadline \in Deadlines
  /\ step \in {"time", "balance", "restrictions", "over"}
  /\ phase \in {"send", "opening", "going", "coming", "sleeping"} /\ pieces \in 0..Pieces
  /\ attempt \in 0..Attempts - 1 /\ due \in Nat
  /\ reply.is \in {"none", "ok"} \cup Retried \cup Fatal
  /\ reply.at \in 0..now /\ reply.after \in RetryAfter \cup {-1, 0}
  /\ offset \in Int /\ stamp \in Int
  /\ lastExc \in {"none"} \cup Errors
  /\ report \in {"none", "read_ok", "full"}
  /\ outcome \in {"running", "verified", "timeout", "unhandled"} \cup Errors
  /\ lag \in 0..Travel /\ asked \in 0..now

\* Whatever the local clock shows, the tool's idea of the exchange's time is never
\* ahead of it, and behind by no more than an answer can take: requests are stamped
\* neither in the future nor arbitrarily late (_compute_time_offset).
EstimateNeverAhead ==
  Signed => Local + offset <= now /\ now - (Local + offset) <= Travel

\* A signed request is refused as out of time only if it reached the exchange too long
\* after it began, earlier attempts and their sleeps included, counting in what the
\* answer took that the offset came from: the one before it has no part in it
\* (verify_credentials takes the timestamp afresh for every request, and get_json
\* keeps it for all attempts).
PromptIsAccepted == reply.is = "stale" => lag + (reply.at - asked) > RecvWindow

\* No key is reported as verified that the exchange did not accept for a balance
\* (only the failure of the second check is forgiven).
VerifiedIsProven == outcome = "verified" => report # "none"

\* What one attempt can take, and each longest sleep, bound the whole call even when
\* the caller sets no deadline: the attempts of the first request and of the last add
\* up, but the balance is accepted within its window or fails for good, whatever its
\* retries (three attempts, the timeouts of httpx, _sleep).
ElapsedBounded ==
  LET sleeps == {Backoff[Attempts - 1] + Jitter} \cup RetryAfter IN
  \A longest \in sleeps :
    (\A s \in sleeps : s <= longest) =>
      now <= 2 * Attempts * (OpenTimeout + Travel) + RecvWindow + Travel
               + (2 * Attempts - 1) * longest
=============================================================================
