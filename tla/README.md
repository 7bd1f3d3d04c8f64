# Formal models of funding-tool

TLA+ models of funding-tool: the tool that replays the funding payments of a
Binance USDⓈ-M perpetual (backtest), totals the funding an account really
received (history), and serves both through a CLI and a small web UI.
Each module is written from the source; paths below are relative to the
repository. `PROJECT.json` maps every definition to the lines it models, and
lists the runs, the hazards and the theorems.

## 1. The system

| part | state | operations | talks to |
|---|---|---|---|
| **Funding cache and fetch** `core/cache.py`, `core/exchanges/binance_usdm.py` 47-173 | SQLite table of settled events | `missing_ranges`, `put`, `get`, `clear`; `fetch_funding_rates` with two page loops and `_merge` | Binance; several requests and CLI processes share the file |
| **Income fetch** `binance_usdm.py` 175-256, `core/account.py` | locals of one coroutine | 7-day windows, pages, de-duplication by `tranId`, sums | Binance; it is the job a task runs |
| **HTTP client** `infra/http.py` | attempt counter | `get_json`: three attempts, backoff, mapping of errors | everything that talks to Binance |
| **Task manager** `web/tasks.py`, `web/routes/history.py` | dict of statuses, asyncio tasks, one JSON file per task | `submit`, `_run`, `_persist`, `status`, `cleanup_expired` | the single worker process, restarted by systemd |
| **History page** `HistoryPage.tsx`, `useTaskPoll.ts`, `App.tsx`, `api.ts`, `csrfStore.ts` | React state of the page and of its polling effect | `run()`, `tick()`, mount and unmount | task manager, by messages |
| **Secret store and account routes** `web/secret_store.py`, `web/routes/accounts.py` | encrypted accounts, canary, key versions | add, update permissions, list, delete, read; key rotation at start | Binance (verification), the accounts page |
| **Login lockout** `web/auth.py` | bounded LRU of failures per address, under a lock taken twice | `verify`, `_record_failure` | every route, in threadpool threads |
| **CSRF** `web/csrf.py`, `routes/csrf.py`, `csrfStore.ts` | cookie (per browser), token (per tab) | issue, verify, cache | every write of the UI |
| **Local account store** `core/account_store.py` | YAML file, OS keyring | add, remove, set default, read | CLI processes |
| **Accounts page, symbol picker, backtest page** | React state, request ids | load, delete, search | routes |
| **Symbols cache** `web/routes/meta.py` | one entry, one hour | refresh on demand | Binance |
| **Backtest arithmetic, audit log, scrubbing, models, configuration, output, charts** | none worth modelling | pure functions, formatting | |

What is hard in it: a fetch computes what is missing, awaits many requests, and
writes while others do the same or clear the table; it can stop anywhere and the
next one must repair what it left; settlements are *almost* on a grid; pages are
cut by count, not by instant; the worker dies with jobs in memory; a browser
page acts on answers that may be older than its state.

What makes the parts correct:

* cache and fetch: what is cached is true whatever loaded it; an answer lacks
  nothing a caller may count on; the loops end;
* income: no row is summed twice, none is lost;
* calls to Binance: a request is not refused for its time unless it and its
  retries took that long; a key is not called verified that was never accepted; a call ends;
* tasks: an answer once given stands; "running" means that somebody works on it;
  a job ends;
* page: the result shown is the one asked for; polling ends;
* accounts of the service: what is stored was accepted by Binance and stays
  readable while the service runs; the permissions shown belong to the stored key;
* lockout: guesses per lockout period are bounded however attempts overlap; an
  address is forgotten only for others that are more recent;
* local accounts: no crash damages the file; default, entries and keyring agree;
  the halves of a pair are of one pair;
* symbols: a served list is not too old; the options are for the text in the box;
* CSRF (not modelled): a tab that shows the UI can write, or learns that it must
  reload.

## 2. The modules

```
FundingPromise  <-- implemented by -- FundingFetch  <-- MCFundingFetch, FundingFetch_proofs
IncomePages                                         <-- MCIncomePages, IncomePages_proofs
SignedCalls                                         <-- MCSignedCalls, SignedCalls_proofs
TaskManager
     ^---- HistoryPage                              <-- HistoryPage_proofs (of both)
AccountRegistry <-- implemented by -- ServerAccounts <-- MCServerAccounts, ServerAccounts_proofs
LoginLockout                                        <-- MCLoginLockout, LoginLockout_proofs
AccountStore                                        <-- MCAccountStore, AccountStore_proofs
SymbolSearch                                        <-- MCSymbolSearch, SymbolSearch_proofs
```

The parts meet at few points, and each point is modelled on one side: a task runs
a fetch (its end is `Finish`), `create_account` calls `verify_credentials` (its
outcome is `Verified` or `NotVerified`, its deadline is in `Deadlines`), a fetch
calls `get_json` (an answer or `Stop`).

### FundingPromise and FundingFetch

`FundingPromise` is what a caller of `fetch_funding_rates` may rely on: the
answer is made of settled events of the window and, unless the cache was cleared
meanwhile, an event that had settled at the call and is missing is `Near` one that
is not: at most one and a half of the longest interval after it, or before it and
the one it has is that near to the start of the window. The tolerance of
`missing_ranges` and the place where its gaps begin cost that much, and nothing
else does: no failed, cancelled or overlapping fetch adds to it.

`FundingFetch` is the code for one symbol and any number of concurrent callers.

| in the model | in the code |
|---|---|
| `rows`, `Upsert`, `PutRow` | table `funding_rates`, `put`: one autocommitted row at a time |
| `MissingRanges` and its three kinds of gaps | `missing_ranges`, with the 1.5-interval tolerance |
| `GetInterval`, `GetRanges`, `NextGap`, `FetchRatePage`, `FetchKlinePage`, `Return` | the stretches of `fetch_funding_rates` between two awaits |
| `IsMark` | `_merge`: exact kline, else the latest at most one interval before |
| `Stop` | error, the 120 s of the backtest route, Ctrl-C, kill, locked database |
| `Clear` | `cache clear` of another process |
| `Publish`, `ChangeInterval`, `IsPage` | Binance: external, from how the code uses it |

An event is its settlement time and a mark price the open time of its kline:
rates and prices are copied, never computed with, so nothing else of them
matters. An exchange object serves one call, so its interval cache is always
empty when `GetInterval` runs. Time is in ticks. Nothing is assumed of settlement
times and intervals: an event may come a tick early or late, for which the real
milliseconds stand, and the interval reported may be longer than the distance of
the settlements, as the default of 8 hours is for a symbol that settles every 4.

### IncomePages

One call of `fetch_funding_income`. A row is its `tranId`, with a time; several
rows may share one. `records` counts how often each row is in the list, so
double counting is visible. `Post` adds rows at any moment, late ones too. A
page is the first `Limit` rows of the query, ties in any order.

### TaskManager and HistoryPage

`TaskManager` has one action per slice of the event loop between two awaits,
`Persist` (which can fail or leave a torn file), and the life of the process:
`Sigterm`, then `Cancel` for what is pending, `Exit`; `Kill` at any time, also
inside a write; `Start`. `cleanup_expired` is left out: nothing in `src/` calls
it, so files stay for good, against the design's TTL of an hour
(docs/superpowers/specs/2026-05-25-web-ui-design.md:427).

`HistoryPage` EXTENDS it with the page: `run()` up to its two awaits, the effect of
`useTaskPoll` (`pollFor` is the closure's `taskId`; an answer for another task
is one that meets `cancelled`), responses as messages, and the tab switch of
`App.tsx`. A render and the effect it triggers are two steps.

### SignedCalls

`verify_credentials`, the longest of the signed calls, with everything `get_json`
does for its three requests.

| in the model | in the code |
|---|---|
| `Ask` | the head of `get_json`; a signed request got its `timestamp` just before |
| `Send`, `Open`, `Arrive`, `Piece`, `Transport` | `_client.get`: the wait for a connection, the request on its way, the answer in pieces, and a timeout or failure of any of them |
| `Retry`, `Refuse`, `Wake` | the branches on the status, and `_sleep` |
| `Accept` | `_compute_time_offset`, `report`, and the next request |
| `Unusable` | `resp.json()` of a body that is none, or no `serverTime` in it: an exception that is none of the tool's |
| `Raise` | `except ExchangeError` around the restrictions only |
| `Cancel` | `asyncio.wait_for` of `create_account` |

The clock of the exchange ticks; the local clock is `skew` away. httpx has no timeout
for a request as a whole: 15 s for a connection from the pool and 5 s to open it
(`OpenTimeout`), 15 s to write (`WriteTimeout`), and 15 s for every read
(`ReadTimeout`), which starts anew with every piece of an answer. So no number bounds
an attempt whose answer trickles in; `Pieces` bounds how often that happens, and
`Travel` is what is left of an attempt once it has its connection. `phase` splits an
attempt into the wait for a connection, the way there and the way back, because only
the first two count for `recvWindow` and only the last spoils the offset. `reply` is
the class of the status code the branches of `get_json` distinguish; of bodies only
whether they can be used is kept. `asked` is when the request under way began, which
is when it was stamped: the retries of a request carry its first timestamp.

### ServerAccounts and AccountRegistry

`AccountRegistry` is what the account routes promise: a name stands for one
accepted key until it is deleted. `ServerAccounts` is `create_account` with its
four awaits as steps `verify`, `add`, `perms`, `list`, each a transaction of the
store that may fail (`StoreFails`: a 500 that takes back nothing); `DELETE`; `Stop` at
any point; and `Start` as `lifespan` does it: load the key, create the schema and the
canary, verify the canary. `RotateKey` is the operator. A ciphertext is the master key that made it, which is all decryption
depends on.

What the model says of a replaced master key: `lifespan` hands the new key to the
store as version 1 and the previous one as version 0, while canary and rows are
of version 1. So the previous key is never tried, `verify_canary` raises, and the
service does not start until the old file is back. That keeps `UpMeansReadable`
true; the re-encryption that would make a rotation succeed does not exist.

### LoginLockout

`verify` in any number of threads: `Check` is the first critical section,
`RecordFailure` and `Succeed` the second, with the comparison of the password
between. `order` is the `OrderedDict`. `RunsOut` replaces the clock. `tries`
counts the comparisons since a period began, `old` marks those from before.

Two things the model taught about the eviction: only the second section trims, so
the dict holds up to one address more for every thread; and when `state_max`
others come during one comparison, its own address is evicted and added again
(`overtaken`), with one failure where it had several, and the dict keeps one more.

### AccountStore

A command of `cli/account_cmd.py` is a process: it loads the file, changes the
copy, touches the keyring one half at a time (`KeyringStep`), and saves in three
steps: `OpenTmp` (with the `O_EXCL` collision), `Write`, `Replace`. `Die` can
come between any two. The store is meant for one user and takes no lock, so some
properties say what holds apart from a race, and each names its own: `tainted` are the
accounts on which two writing commands overlapped, or all of them when a temporary file
was taken from its process or an older copy was written over a newer file; `met` are
the processes whose pair another one changed between their look at the file and their
second read of the keyring; `robbed` says that a temporary file was unlinked under a
process that was saving.

The race on the file itself is real: of two processes that save at once the second
unlinks the first one's temporary file, and the first then renames the second's,
which is still empty (`local_race`). Nothing but that makes the file blank
(`FileWhole`).

### SymbolSearch

The route with its one-entry cache and the picker with its debounce timer and
request ids, answers in any order. A list is its age, the options are the text
they were asked for. `Leave` is an unmount. Two facts lie outside
`QuietIsCurrent`: a short text empties the options without a new request id, so
an answer under way fills them again below an empty box; and a failed answer
leaves the options of the text before (`missed`).

## 3. The runs

| run | instance | shows |
|---|---|---|
| `funding` | 2 callers, settlements at 0, 3 and 5, intervals 2 and 3, one kline missing, 2 windows, rate pages of 1 row, kline pages of 2 | `CacheSound` and `LacksOnlyNear` under interleaving, failure, clearing; FundingFetch implements FundingPromise (`KeepsPromise`); `FetchEnds` |
| `funding_drift` | 1 caller, interval 4, settlements at 1, 4 and 9 of which the first is a tick late, 3 windows | violation of `InteriorComplete` |
| `income_pages`, `income_lost` | 6 rows, 2 of them sharing an instant that is a window boundary, weeks of 4 ticks, pages of 2, 3 spans | `EachRowOnce`, `NoInstantLost`, `IncomeEnds`; violation |
| `signed_calls` | 2 attempts, timeouts of 1 to open, 1 to write and 2 to read, answers in up to 2 pieces, window 2, a backoff of 1, 2 (`Backoff`, doubling by assumption) with a jitter of 1, Retry-After 0 or 4, a clock 2 behind or 1 ahead, a deadline of 3 and one that is never met | `EstimateNeverAhead`, `PromptIsAccepted`, `VerifiedIsProven`, `ElapsedBounded` |
| `tasks_restart` | 2 tasks, any number of restarts | violation of `RunningIsAlive` |
| `page` | the page over the manager, 2 tasks, any number of restarts | `AnswersStick`, `JobsSettle`, `ResultIsOwn`, `ResultIsKept`, `PollingEnds` |
| `server_accounts` | 2 names, 2 good keys and a bad one, 2 master keys, 2 requests | `UpMeansReadable`, `PermsBelong`, `UnknownIsTransient`, and `KeepsRegistry`, the refinement |
| `lockout` | 4 addresses and 3 threads (symmetric), a limit of 3, room for 2 addresses | `GuessesBounded`, `SizeBounded`, `ForgottenLast` |
| `local_accounts`, `local_race` | 2 processes, names and pairs (all symmetric); for the second one pair | `FileWhole`, `DefaultListed`, `ListedHasPair`, `AnswerWhole`; violation of `FileNeverBlank` |
| `symbols` | 2 texts and a short one, 2 requests, a list lives 3, a load takes 1 | `ServedFresh`, `QuietIsCurrent`, `OptionsCome` |

Bounds, and why they are enough. Two callers: every conflict over the table is
between a pair. Settlements: three give windows with leading, interior and trailing
gaps and gaps of more than one page; 0, 3, 5 with intervals 2 and 3 are nearer to each
other than one interval and further apart than the other, and the third kline is the
one that is missing. The theorems below lift the run to any number. Page limits
of 1 to 3 make full, exactly full and short pages. Two tasks: one page shows one
query and can be surprised by the answer of one earlier. `signed_calls` keeps what
matters of the order of the real numbers: a request can miss the window within one
attempt or by a retry, a deadline falls into an attempt or never comes, Retry-After is
shorter or longer than any backoff, and the clock error lies on both sides of zero. Two requests and two
names in `server_accounts`: one request can be overtaken by a deletion and a
second creation. Three threads and a limit of 3 in `lockout`: the attempts under
way alone can exceed the limit, and two addresses fill the dict while others wait
outside. Two processes in `local_accounts`: a temporary file has one owner and
one thief. Two requests in `symbols`: an answer has one successor; ids return
once they are free. Nothing else is capped: the state spaces are finite by
themselves, `failures` and the ages by saturating where no comparison
distinguishes more. `VIEW LiveState` of `funding` drops the locals of
a coroutine that has left the stretch that reads them, the answer of a call that met a
`cache clear`, of which nothing is said, and which way a call ended without one.
What it drops decides neither what can happen next nor how a property judges it, so
states that look alike have the same continuations, under the same fairness, and
liveness may be checked on it. `VIEW Seen` of `local_accounts` drops what no later
step and no property reads. Symmetry is used for safety only.

Fairness. `FairSpec` of the two fetches: an asyncio coroutine that can run is
run, and `HttpClient` answers or raises after three attempts with timeouts (an answer
that trickles in for ever is what that leaves out).
`TaskManager`: the event loop, the end of a job (both fetches end), the exit of a
closing worker and its start by systemd. `HistoryPage`: the browser
runs its timers and promises and a request is answered or fails. `SymbolSearch`:
the same, and the route's coroutine runs and its load ends. No fairness is
assumed of clicks, of tab switches, of kills, of new events or rows.

`signed_calls` may stop (`CHECK_DEADLOCK FALSE`): a call that is over takes no
further step.

### What the violations show

* `income_lost`: rows of one instant (several symbols) split by a page are lost.
* `funding_drift`: a first call loads the event at 1, a second one that at 9, and a third
  over both takes the gap between them to begin at 1 + 4, behind the event at 4. It
  returns 1 and 9, and every later call does the same. With real times this is a
  settlement that is earlier than its predecessor plus the interval, by milliseconds
  or by hours if the interval is the default.
* `tasks_restart`: a graceful stop writes "running" to the file of a job it cancels.
* `local_race`: two commands that save at once leave an empty accounts file.

What else was met while modelling, and is an exception in the statement of a
property or a step of a model rather than a run:

* `missing_ranges` promises the sub-ranges "not covered by cache", but its
  tolerance hides a settled event at the edge of a larger window after a fetch of
  a smaller one; `Near` allows for it.
* A fetch whose gap begins behind a kline that its first event needs is refused although
  the kline exists.
* A failing csrf request, or a poll error, leaves the button of the history page
  disabled with nothing under way; switching tabs forgets the query.
* A request that is retried after a timeout re-sends the timestamp of its first
  attempt, and after 15 s it is outside its 5 s window: `PromptIsAccepted` counts from
  the first attempt.
* A 2xx whose body is no JSON ends a call with a `ValueError` that nobody catches.
* `verify_credentials` forgives an `ExchangeError` of the second check, not a
  `NetworkError` or a rate limit.
* An account whose creator was cut off between insert and update, or whose update
  failed, keeps unknown permissions (`orphans`), and creating it again is refused; one
  that was deleted and created again meanwhile gets those of the key before (`spoiled`).
* The two halves of a pair are read one after the other; a removal and a new
  registration in between leave `account test` with halves of two (`met`).
* What section 2 says of the rotation of the master key, the eviction of the
  lockout, the temporary file of the account store and the symbol picker.

## 4. The proofs

Checked by TLAPS for every value of the constants that satisfies the
assumptions of the modules (positive intervals and page sizes; windows that are not
empty; a backoff that doubles; finitely many threads). No theorem has a hypothesis
beyond them, but `CompleteIfSpread`, `AliveUnlessCancelled` and what is said below of
each.

**FundingFetch_proofs**

* `TypeCorrect`.
* `CacheAlwaysSound`. `CacheSound` is not inductive: that a row's kline is the
  one of the whole history rests on what the coroutine that writes it holds.
  `SoundInv` adds: `klines` of a coroutine are *all* klines of its gap up to
  `cursor`, `rates` and `todo` are settled events inside its gap, and the gap is
  fully loaded by the time rows are written. A kline outside the gap can then
  not be the latest one before the event.
* `AnswersLackOnlyNear`: `CoverInv` says of every fetch which of the events known at the
  call are already in the table, which are in a gap still to be fetched, and which are
  near an event of the table (`Tolerated`); rows are only added, and clearing is what
  `cleared` excepts. The helper lemmas say of `MissingRanges` that an uncovered event
  outside all gaps is near a cached one: its predecessor if there is one, since a gap
  begins one interval after it and none is reported within one and a half, else the first
  of the window, which is then near to its start. Nothing is assumed of the distance of
  settlements.
* `FetchKeepsPromise`: FundingFetch implements FundingPromise.
  Most steps of a coroutine are invisible to its caller (`HiddenStep`) or change
  its status only (`SeenChange`); `ReturnAnswers` is the step that answers, and
  there `LacksOnlyNear` of the next state is what the promise asks for.
* `LoopsRunOut`: the half of `FetchEnds` that is not liveness. Every step of a call
  lowers, in lexicographic order, the part of the call, the number of gaps ahead, the
  stage of the gap, and what is left of it (instants before its end, or events to
  insert), and no other caller, settlement or `cache clear` raises them. It needs
  that the table stays finite (`FiniteInv`), hence that `missing_ranges` yields
  finitely many gaps (`MissingRangesFinite`).

**IncomePages_proofs**

* `TypeCorrect`.
* `RowsCountedOnce`: `RowsInv` adds the order of the locals (`span.from <=
  windowStart < windowEnd <= span.to`, `windowStart <= cursor`).
* `InstantsKept`: `Progress` says how far the known rows are collected, up to a
  row of the same instant: before `cursor` inside a window, through
  `windowStart` between two. `PageCovers` is the step of one page.
* `CompleteIfSpread`: if no two rows share an instant, nothing is lost. This is
  exactly the condition `income_lost` breaks.
* `LoopsRunOut`: every step of a call lowers `Ahead`, at most four for each
  millisecond of the span and two more, because a page moves the cursor and leaves it
  at most one behind its window (`CursorOK`); rows posted meanwhile do not raise it.

**HistoryPage_proofs** for any set of tasks

* `TypeCorrect` of the manager; what `Cancel` writes is well-typed only because a job
  that lives is "running" (`Works`).
* `AnswersAlwaysStick`: `AnswerInv` says that a coroutine is over once anything
  shows of its end (`EndShown`), so nothing writes its file again, and that a
  result in the dict, or once told, is in the file unless its write failed (`StatusKept`, `ToldKept`). Polls are the only steps that tell.
* `AliveUnlessCancelled`: `RunningIsAlive` holds as long as no graceful stop cancels a
  job at work, which is what `tasks_restart` does to refute it. Kills, failing writes
  and a stop before the job's first slice do no harm.
* `PageUsesManager`: every step of the page, or of what goes on around it, is a step of
  TaskManager or leaves it alone (`PageStepsManager`), so the page's behaviours are
  behaviours of the manager and `AnswersStick` and `AnswerInv` hold of the two together.
* `PageTypeCorrect`, `ResultAlwaysOwn`, `ResultAlwaysKept`: `ResultIsOwn` is not
  inductive. `PageInv` adds that a result on its way is what was told last
  (`CarriesTold`), that a page which shows a result no longer polls for it
  (`ShowsTold`), and that only submitted tasks are known to it (`Known`, `IdsAreNew`), so
  no later poll can change what was told. `ResultIsKept` then is
  `ToldKept` of the task on the page.

**SignedCalls_proofs** for any number of attempts, timeout, backoff and skew

* `EstimateClose`, `PromptAccepted`, `VerifiedProven`. `CallInv` adds where the
  clock is within an attempt (`AttemptOK`, with `Rest(k)` for the time an attempt has
  left after k pieces), that the offset undoes the skew but for the way back of the
  answer (`OffsetOK`), and that a stamp is the tool's idea of when its request began, at
  every attempt (`StampOK`).
* `TypeCorrect`: an error that is slept on is one of the tool's (`TypeInv`), so nothing
  else is raised after the last attempt; the error of an unusable body is the one that is
  not the tool's.
* `ElapsedAlwaysBounded`: no backoff exceeds the last one (`BackoffGrows`, by a least
  counterexample, since the sleeps are only known to double). `Spent(l, a)` is what `a`
  attempts take with a longest sleep `l`; `Elapsed` says for each of the three requests
  how late it can have begun and how much of it is spent (`Paced`). The second one is
  bounded by its stamp, whatever its retries: an answer that accepts it is at most
  `RecvWindow` after the stamp, and the stamp is no later than the answer to the first.
  The deadline of the caller has no part in it. Connections, pieces and sleeps each count
  in full; a bound that took an attempt for one read timeout would be wrong.
* `CallRunsOut`: every step lowers, in lexicographic order, the requests left, the
  attempts left of the request, the stages left of the attempt, the pieces left of the
  answer, and the time until its timer fires. All five are natural numbers, so a call takes finitely many steps,
  whatever the exchange answers and without any fairness.

**ServerAccounts_proofs**

* `TypeCorrect`, with `DownIsIdle`: no request outlives its worker.
* `RunningReadsAll`: one key for canary, rows and worker (`OneKey`).
* `PermissionsBelong`, `UnknownPermissionsAwaited`: a request that is past its
  insert and not crossed has its own row (`OwnRow`); permissions that are unknown are
  awaited from the creator of this very row (`Awaited`), which `StoreFails` and `Stop`
  alone can end without them.
* `RoutesKeepRegistry`: the refinement of AccountRegistry; `OnlyGood` says that
  what is past the verification is a good key.

**LoginLockout_proofs** for any number of addresses and threads

* `GuessesAlwaysBounded`: `GuessInv` says that while an address is not locked its
  comparisons are under way in this period (`Current`) or counted as failures
  below the limit (`Tolerated`). Evictions begin a new period, so their order
  does not matter.
* `TypeCorrect`, `SizeAlwaysBounded`: `DictInv` says that the list has no address twice
  (`Distinct`), that a locked address is in it, and one whose password is compared
  too unless it was overtaken (`Present`). So the end of an attempt adds nothing, and what
  its beginning added it takes off again.
* `ForgottenAlwaysLast`: the list is in the order of use (`Recency`: whatever is further
  on was used since), so what is taken from its front has all that stay behind it.
  `WithoutSeq`, `UsedSeq` and `TrimSeq` say what the changes of the list do to it.

**AccountStore_proofs**

* `TypeCorrect` and `DefaultAlwaysListed`: all content there is, in files and in
  processes, is `Good`; `WithGood`, `WithoutGood` and `UseGood` say so of the three
  changes.
* `FileAlwaysWhole`: `OwnTmp` says that, as long as no temporary file was unlinked under
  a process that saves (`robbed`), who writes or replaces is alone and the file is its own.
* `ListedAlwaysPaired` and `AnswersAlwaysWhole`: for a name that is not tainted,
  `PairInv` says that at most one writing command runs on it (`Alone`), that the copies commands
  for other names hold are up to date on it until a replacement makes them stale
  (`Copied`), and how far an add or a get has come (`Adding`, `Getting`). `StoredInvariant`
  says of every name, raced on or not, that what a get holds is from the keyring.

**SymbolSearch_proofs**

* `TypeCorrect`, `AlwaysFresh`, `QuietCurrent`: `AgesOK` orders the ages of a list and
  of its stamp, `TextsOK` says that the timer and the request of the latest id are
  for the text in the box.
* `RequestsRunOut`: a request's own steps bring it nearer to its end (`ToGo`, at most
  four of them), only the timer begins one anew, and neither the clock nor the other
  requests nor the user move it. So nothing can hold up an answer but a route or a
  delivery that is never scheduled, which the fairness excludes.

Only model-checked: liveness, which is beyond the prover (`FetchEnds`, `IncomeEnds`,
`JobsSettle`, `PollingEnds`, `OptionsCome`). For the first two and the
last the theorems `LoopsRunOut` and `RequestsRunOut` prove what is left when fairness is
taken away. Every invariant and
every action property of the runs is a theorem, and so are both refinements.

## 5. Not modelled, and the plan

Still worth modelling, in this order:

1. `AccountsPage` and its form on top of ServerAccounts: superseded loads (guarded
   as in the symbol picker), names being deleted.
2. `CsrfTokens`: one cookie, several tabs, expiry. The service keeps no state for
   it; what HistoryPage needs of it, that the token request can fail, is there.
3. IncomePages over SignedCalls: pages with retries under the signed timestamp.

Theorems next: `UpMeansReadable` once a rotation re-encrypts.

Not to be modelled: Decimal arithmetic of the backtest and the sums of the
history (pure folds), formatting, logging and scrubbing, the audit log (no route
calls it), data classes, charts, the backtest page (one request at a time), nginx
and deployment scripts.
