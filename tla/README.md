# TLA+ models and proofs of EVMLogsListener

`evm_chain_listener` polls EVM chains for event logs, keeps the newest in an in-memory
cache, pushes all of them to an AlertProcessor over HTTP and records them in SQLite. This
directory models its core in TLA+, checks the models with TLC on small instances, and proves
the main invariants with TLAPS for every value of the constants. `PROJECT.json` maps each
definition to the lines it models; paths below are relative to `src/src/evm_chain_listener/`
unless they begin with `scripts/` or `docs/`, which lie in `src/`.

## 1. Inventory

| Part | Source | State | Operations | Model |
|---|---|---|---|---|
| LogPusher | `pusher.py` | `_pending_buffer`, `_last_pushed_block`, `PusherStats`, `_session`, timer task | `on_new_logs`, `_periodic_flush`, `_flush_all`, `_send_batch`, `_do_post_with_retry`, `start`, `stop`, `check_reconnect_status`, `send_replay` | `LogPusher`; the last two in `Ingest` |
| LogCache | `cache/log_cache.py` | `_cache` (deque), `_index`, counters | `add`, `add_many`, `query`, `clear`, readers | `LogCache`, `LogPaging` |
| ChainListener | `chains/base.py` | `_last_block`, `_error`, `_running`, poll task | `start`, `stop`, `_poll_loop`, `_poll` | `ChainListener` |
| BinarySearchQuerier | `rpc/binary_search.py` | none between calls; a tree of coroutines within one | `query_logs` | `BinarySearch`, `LogQuery` |
| EvmRpcPool | `rpc/apipool_client.py` | sessions; rotation lives in the apipool library | `from_server`, `start`, `get_block_number`, `get_logs` | `EvmRpcPool`, used by the three modules of its callers |
| Lifespan, ingest callback | `main.py` | the globals that hold all other parts | `lifespan`, `_on_logs_received` | `Ingest`; as far as a part sees them also in its module |
| Startup gap replay | `main.py:255-299`, `pusher.py:104-166` | reads the cache | GET status, POST replay | `Ingest` |
| BacktestRunner | `chains/backtest.py` | `_tasks`, lazy pool | `submit_backtest`, `_execute_backtest`, `close` | `Backtest` |
| LogDbRecorder, LogDbReplaySource | `db_recorder.py`, `db_replay.py` | SQLite `logs` and `sessions`; `_min_block`, `_max_block`, `_total_logs` | `write`, `close`, `replay` | `LogRecorder`, `LogReplay` |
| Migration script | `scripts/migrate_jsonl_to_sqlite.py` | the same database | import of files in batches | `LogMigration` |
| Auth middleware | `middleware/auth_middleware.py` | none | `dispatch`, `verify_token` | `AuthMiddleware`, composed in `LogPaging` |
| HTTP API | `main.py:395-730` | `_backtest_runners` | queries, status, submit | `GET /api/logs` in `LogPaging`, replay start in `LogReplay`, backtest run and its look-up of the chain in `Backtest` and `ChainLookup` |
| Configuration, logging, legacy re-exports, `diagnose_block_data.py` | `config.py`, `models.py`, `utils/`, `rpc/node_pool.py`, `rpc/exceptions.py`, `scripts/` | none of their own | sequential, stateless | not modelled |

How they interact. `lifespan` builds cache, pusher and recorders, starts one ChainListener per
chain, then the pusher, then runs the gap check; on shutdown it stops pusher, recorders,
listeners in this order. A listener asks the pool for the height and BinarySearchQuerier for
the logs of `[_last_block + 1, height]`, moves `_last_block`, and calls `_on_logs_received`,
which adds the logs to the cache, starts a task that runs `on_new_logs`, and writes the
recorder. All of this is one asyncio event loop: concurrency is the interleaving of tasks at
their awaits.

What is hard here, and what makes each part correct:

* **LogPusher.** Threshold flushes of any number of tasks, the timer and `stop()` take from
  one buffer while earlier takers still send; a request can time out after it was taken in; a
  backoff can span the closing of the session. Correct when each log has one owner, has one
  outcome, is delivered a bounded number of times, and nothing stays pending for ever.
* **LogCache.** Two eviction mechanisms at once (`deque(maxlen)` and an explicit loop), an
  index that must follow them, and clients that page by offset while the contents shift.
* **ChainListener.** Nodes that lag, polls that fail between two reads, a callback that raises
  after the progress moved, restarts. Correct when every block is covered once.
* **BinarySearchQuerier.** Concurrent halves, nested retries, halves that run on after the
  attempt they belong to has failed, errors classified by their text, cancellation.
* **Recorder and replay.** Memory and database move apart when a transaction fails; crashes
  leave sessions open; a replay reads the database its own logs are written to again. Correct
  when the sessions account for every row and a replay hands over what was there, once.
* **BacktestRunner.** Submissions race for the first pool; a batch counts as done before the
  callback has succeeded; three divisions must agree. Correct when a task hands over its range
  once, its progress adds up, and it ends.
* **Gap replay, lifespan as a whole.** The listeners run before the pusher starts and after it
  has stopped; the gap check works beside the live push without knowing of it, on a cache that a
  restart has emptied, with pages that are cut. Correct when every sink gets every log whatever
  the others do, only late logs are left behind, and what is sent twice is bounded.
* **Migration.** Batches that are committed one by one, a session only at the end, one write lock
  shared with live recorders; runs that fail and are repeated.
* **Errors.** A request fails in a dozen ways, which the pool sorts into five by words in their
  text; retrying, halving and giving up depend on the result.
* **HTTP API.** Tokens run out between two pages; chains are looked up by name or id in a
  dictionary that later chains write over.

`PROJECT.json` lists the hazards by line with the properties that cover them.

## 2. Modules

| Module | Role |
|---|---|
| `LogPusher` | the pusher, its tasks, the session, the lifespan as seen by it, the AlertProcessor |
| `LogDelivery` | abstract: the life of one log, without buffers, tasks or attempts |
| `Ingest` | listeners, callback, cache, pusher, recorders and gap check over process restarts (extends `LogPusher`) |
| `LogCache`, `LogPaging` | the cache; clients that page through it (extends `LogCache`, `AuthMiddleware`) |
| `AuthMiddleware` | what the middleware makes of a request |
| `EvmRpcPool` | what the pool makes of an answer, and whether it opens |
| `ChainListener` | one chain's poll loop over restarts (extends `EvmRpcPool`) |
| `BinarySearch`, `LogQuery` | one `query_logs` (extends `EvmRpcPool`); abstract: one ordered answer or one error |
| `LogRecorder`, `LogReplay` | all chains' recorders over one database and many processes; replays of it (extends `LogRecorder`) |
| `LogMigration` | the migration script beside the recorders (extends `LogRecorder`) |
| `ChainLookup` | the runners by name and id |
| `Backtest` | one chain's backtest runner: lazy pool, submissions, tasks (extends `EvmRpcPool`, `ChainLookup`) |
| `LogPusherProofs` | invariants of the pusher, its counters; it implements `LogDelivery` |
| `IngestProofs` | the composition, over `LogPusherProofs` |
| `LogCacheProofs` | the cache, the paging over it, the middleware |
| `BinarySearchProofs` | `query_logs` and its refinement of `LogQuery`; what the operators of `EvmRpcPool` return |
| `LogRecorderProofs`, `LogReplayProofs` | the recorders and the migration beside them; the replays |
| `ChainListenerProofs`, `BacktestProofs` | these modules; `ChainLookup` with the latter |
| `MC...` | constants, answers and symmetry sets for TLC |

A definition `XFault` before `X` is `X` with a plausible bug. No specification uses it; each
property is paired with one it must reject (`mutants` in `PROJECT.json`).

### LogPusher

One action is what a task does from one suspension to the next. Nothing suspends while holding
`_lock`, so the lock is always free when it is acquired and does not appear. `flush[t]` holds
what task `t` has taken and not settled: `todo`, the attempt, and the phase (`post`: request
sent; `ingested`: the AlertProcessor took it in, the answer is out; `backoff`). A flush sends
its chains one after the other (`Current`). `FinishBatch` runs on to the next suspension, so
batches that fail without one (no session, one attempt left) fail in the same action
(`FailsAtOnce`). `stop()` is three actions because it awaits twice. Handlers are the tasks in
which `on_new_logs` runs; a task that does not reach the threshold is over at once. `Retry-After`
only changes a delay, in the code as in the model. `retry_attempts = 0` is excluded by
`PusherAssumption`. Chains are sent in ascending order (`sorted`), logs of one chain in the order they came; a call of `on_new_logs` has all logs of its
blocks (`Deliverable`). That is how listeners call it; backtest tasks submitted for ranges out of order
do not, and `RangesAreWhole` is not claimed for them. The model takes the module as loaded:
`pusher.py:104` uses `Any` without importing it, which Python versions that evaluate annotations
at definition reject.

### LogCache and LogPaging

A step is one `add()`, the extent of the lock; `add_many()` calls may interleave, which is what
the class allows although the service itself calls it from one thread. `Accept` keeps both
eviction mechanisms: the explicit pops (`Overflow`, `Evict`) and the `maxlen` of the deque
(`PushRight`). Keys are a function on logs, so that different logs may share one. `clear()` is
part of the class and modelled, the service never calls it. `max_size = 0`, where `add` raises,
is excluded by `CacheAssumption`. In `LogPaging` the writers are the chains of realtime mode: a
chain's listener delivers its logs in block order. With a backtest or replay that delivers old
blocks later, `PagingMissesNothing` is not claimed: an older log may enter a page already read.
Without `chain_id` the listing mixes chains, which are not at the same height, while eviction goes
by arrival: an evicted log may lie above one the client has not seen and a new one below it, so
that the listing moves towards the pages already read. The property says just that this is the only way to
miss a log; TLC finds the case with three chains. Python's sort is stable, which decides the
order of two chains' logs of one block. The filters by block, time and address narrow the listing
like the chain does and are left out. `topic` is different: it is applied to the page after it
was cut, so that a page may be short or empty before the last one; a client must go by
`total_pages`, as the client here does. Its token lasts from one request to the next or does not.

### AuthMiddleware

`dispatch(path, header, now)` is the outcome before the handler. `verify_token` compares `exp`
twice: PyJWT with the time, the code again with `utcnow().timestamp()`, which takes UTC for local
time; `Offset` is the host's. For a public path and a scheme other than Bearer `call_next` stands inside the `try`,
so that a handler that raises a `ValueError` would be called a second time; handlers are not
modelled here.

### EvmRpcPool

An answer is its kind, its code, the words `limit` and `query` that its text has, and whether the
range really was too large (which only properties look at). `Called` is what one JSON-RPC call
raises, `get_logs` and `get_block_number` how these end. Two things easily overlooked: the texts of
`RpcRateLimitError` and `RpcTimeoutError` are passed by keyword and lost, so these two are never
mistaken for a limit; and the `asyncio.TimeoutError` of aiohttp's total timeout is not
`aiohttp.ServerTimeoutError`, so it is "other", judged by its text. Which key is used, and when all
are exhausted, is decided in the apipool library. `PoolOpened` says when a pool opens. The
access token of `from_server` is taken once: when it has expired the key list is no longer
refreshed; the refreshing is the library's and not modelled.

### ChainListener

`task` follows the coroutine over its awaits. `Heights` is what a lagging node may answer, at
most `MaxLag` below the head. The pool opens or not (`PoolReady`, `PoolFails`, in server mode over
an await). Raising may happen at each await (`PollFails`) and in the callback
(`LogsKnown(TRUE)`). `handed`, `base`, `lives` are history. The lists `query_logs`
returns are taken as complete here; what it can lose, a node that lags for `eth_getLogs` included,
is `BinarySearch`'s subject. Chain reorganisations are not modelled: the code takes no notice of
them. Chains share no state, so one suffices.

### BinarySearch

`calls` is the tree of `_query_with_retry` coroutines, named by paths. A step of a path holds
the number of failed attempts of the caller at the time, so the halves of different attempts
differ and an abandoned half stays in the tree and runs on. `JoinFails` is `gather` handing one
error on; when both halves have failed either error may come first. `Cancel` reaches exactly what
the root is waiting for (`Attached`). `AnswersFor` says what may come
back: a block over the limit is never returned, a longer range may always be found too large, and a
node that lags lists only what it has. `EvmRpcPool!get_logs` decides what that means to the
caller. `ImplementsLogQuery` is the refinement of `LogQuery` by `Lacking`: one answer, ordered,
without repetition, that lacks only refused blocks and blocks beyond the node's height.
`RequestsAreBounded` counts the requests for a range against the choices of `d + 1` attempts; there
are `MaxRetries ^ (d + 1)` of these.

### LogRecorder and LogReplay

A log is a record of chain, block and index; the index stands for `(tx_hash, log_index)`, so that
a record is what `UNIQUE(chain, block_number, tx_hash, log_index)` tells apart and the table is a
set. Nothing in `write()` or `close()` awaits: a call is one step, which commits or rolls back
(SQLite's atomicity is assumed). `Rollback` keeps the widened range in memory, as the code does.
Recorders are opened in the order of the configuration before anything else runs; on shutdown
each is closed, a failure to save its session being only logged, and `_recorders` is cleared. A
crash forgets the recorders, not the database.

In `LogReplay` replay and recorders share one database, the case in which they interact; with
recording disabled there are no recorders (`Down`). A step is one batch. The code suspends
between batches only when the interval is positive, so the model has more interleavings than the
code, never fewer. A directory replay is a list of sources, and one that fails does not keep the
rest from running. A client may also ask for what `discover_sessions` lists (`Recordings`).
`owed` and `out` are history. `_row_to_log` keeps what matters here.

### LogMigration

The script is where it is in its sorted files; a step is what it does between `BEGIN IMMEDIATE` and
commit. SQLite has one writer: while the script holds the lock the recorders change nothing. A line
is a log, no JSON, a log with null in a NOT NULL column (`INSERT OR IGNORE` skips it, the count of
the session does not), or JSON that raises. The session of a file bears the chain of its first
line, so that logs of other chains in the file (`Strays`) lie in no session's range.

### Backtest and ChainLookup

A step is what a submission or its task does between two awaits. The pool is opened by the first
submission; opening suspends in server mode, so that several can open one each, the last of which
stays (`PoolOpens`). With static URLs it opens at once, which is among these behaviours. The
pool that was replaced is never stopped; this is modelled and no property is stated against it.
The lifespan awaits the automatic submissions before it serves requests. `Chosen` models
`_cli_from_block or ...`: 0 counts as not given. `batch_size: 0` in the configuration raises in
`submit_backtest`. A negative `batch_size`, which only the configuration file admits and nothing checks,
is left out: each query's range ends before it begins and the loop moves away from `to_block`. `query_logs` returns all logs of its range or raises; what it may lose is
`BinarySearch`'s subject. The rejection by `use_rpc: false` is left out: then there is no runner.

`ChainLookup` is the dictionary of runners as the chain that is left under each key. `TurnsOf`
says whose turns in `_auto_submit_backtest` a runner gets: its own, unless two chains share a
name, when the last one gets both. Keys are compared exactly, then without regard to case.

### Ingest

`LogPusher` composed with everything around it. The lifespan's awaits are the steps `StartListener`,
`StartPusher`, `GapCheck`, `StopPusher`, `CloseRecorders`, `StopListener`, in this order; at each of them
poll tasks may call `_on_logs_received` (`Arrive`), which does not await: cache, task, recorder. `due` are the
calls of `on_new_logs` that `ensure_future` has scheduled and the loop has not begun. The cache is
what `LogCacheProofs` shows it to be, the newest accepted logs, and the recorders are the rows they
commit. A log stands for its whole block. `Crash` forgets what is in memory, `Restart` begins
at the head: what was mined meanwhile is `missed`. `gap` is `_check_and_replay_gaps`, which reads the status once and
sends one replay per chain the cache has newer logs of. `listener.start()` raises when
its pool does not open, which aborts the startup: the process ends with earlier listeners polling, which
is `Crash` before the pusher has started. `late` and `raised` are history.

## 3. Runs

| Run | Properties | What it shows |
|---|---|---|
| `pusher` | TypeOK, OneOwner, BelowThreshold, BoundedDuplicates, CountersTellOutcome, RangesAreWhole, ImplementsDelivery, BufferDrains, TakenLogsSettle | flushes of two handlers, timer and `stop()` interleave with failures at every point; what `/pusher/stats` shows agrees with the batches' fates; no log lies in the range a batch announces and not in the batch; the pusher implements `LogDelivery`; pending logs leave, taken logs are settled |
| `log_paging` | TypeOK, Coherent, KeepsNewest, EvictsOneForOne, PagingMissesNothing, PagesPartition | the cache is exactly the newest accepted logs; paging by offset loses nothing that stays cached, but for the case above |
| `listener` | TypeOK, CoveredOnce, ErrorStays, CatchesUp | blocks are covered once per process, and sooner or later; an error stays visible until there is progress |
| `query` | OnlyFailedAttemptsOutlive, RequestsAreBounded, EveryCallEnds, ImplementsLogQuery | answers are ordered, without repetition, and lack only what the code cannot know; retries multiply by level and no more; the recursion ends |
| `recording` | RowsInRange, TotalsCover, MemoryAgrees, SessionsOnlyGrow, ReplayFaithful, ReplayEnds | whatever fails or crashes, the sessions account for every row and are never taken back; a replay hands over what was there, once and in block order, while the table changes under it |
| `backtest` | TasksHaveQuerier, DeliversPrefix, ProgressAddsUp, TasksEnd | racing submissions always find a querier; a task hands over its range once, or a whole number of batches if it fails; progress adds up; tasks end |
| `ingest` | SinksAreIndependent, OnlyLateLogsAreLeft, DeliveriesAreBounded, ReplaySendsTheNewest, StartupEnds | cache, pusher and recorders each lack only what they refused themselves, whatever the others did and wherever a crash or the shutdown comes in between; at exit only what came after the last flush is left; push and gap check together send a log a bounded number of times; a replay is cut at the old end only; the startup is not held up for ever |
| `migration` | MigrationIsComplete, MigrationEnds | a run that ends well has brought everything in, whatever became of earlier runs and whatever the recorders did between its batches; each run ends |

Runs expected to fail, each a statement of the repository the code does not keep:

| Run | Statement | What the code does |
|---|---|---|
| `pusher_failed_stays` | `pusher.py:27`, failed data stays in the buffer | a batch whose attempts are used up is dropped |
| `pusher_stop_flushes` | `pusher.py:79`, stop flushes what remains | batches the timer task holds are lost |
| `query_missed` | `requirements.md:76`, halving misses nothing | a misread rate limit on a single block returns an empty list |
| `ingest_gap` | `main.py:256`, any gaps are replayed on startup | the gap check finds only what the new process has cached: neither what was mined while none ran nor what the old one had lost |

The performance report (`performance_analysis_report.md:164`) suspects that one `add` may evict
two logs and that a slot is lost; `EvictsOneForOne` and `KeepsNewest` show that neither happens.

Further disagreements met while modelling, each plain from the code and without a run:
`docs/ARCHITECTURE.md:237` speaks of at most 3 retries, but attempts multiply with the depth of
halving (`RequestsAreBounded` gives the bound that does hold); `db_recorder.py:187` promises the
number of logs inserted excluding duplicates, but `write()` returns, and adds to the total, the
length of the list, so that totals are only an upper bound of the rows (`TotalsCover`);
`main.py:751` says the option overrides the configuration file, but 0 does not (`main.py:211`);
`requirements.md:50` asks for all blocks after the last one queried, but a restart begins at the
head (in `ingest_gap` this is one of the ways a gap arises); `EVMLISTENER_INPUT_SPEC.md:236` calls
`last_pushed_block` the largest block, but of two batches of a chain under way the one that ends
last decides (`NotePushed`); `main.py:207` promises a task for each configured chain, but of two
chains with one name the second gets both (theorem `ASharedNameTakesTheTurn`; the recorders, keyed
by name too, lose one the same way); `POST /api/replay/start` takes a chain but in realtime mode
there are no runners to look it up in, so that the first chain is meant; `GET /health` always raises, in
realtime mode because `health_check()` has returned a dict whose `to_dict` is called (`main.py:682`)
or, in backtest mode, because `rpc_nodes` is unbound; the migration script says "one session per
input file" (line 16), but a second run makes another, and the number it prints as imported counts
duplicates and null rows.

### Bounds

* Pusher: two chains, four logs of which three are of one chain, threshold 2, two handlers, two attempts:
  flushes of both handlers, the timer's and that of `stop()` overlap, two batches of one chain can be
  under way at once with a third log pending, and two attempts suffice for a retry, a duplicate and giving up. With two attempts no batch fails within
  one action (`FailsAtOnce` is empty); the proofs cover one attempt and all other values.
* Paging: a cache of three, six logs of three chains of which two clash, so that evicted keys come
  back and a listing of all chains is shifted both ways; page sizes below, at and above the clamp
  (limit 2, default 1, standing for 1000 and 100), of which the API admits 1 and 2.
* Listener: six blocks, lag up to 2, one restart, five ways to answer, a server that lets the
  listener in or not.
* Query: three blocks, the least range with unequal halves and a second halving, two attempts
  and up to five failures (`MaxTroubles`), every kind of answer, an oversized block that some node
  lacks; the violation run uses the code's three attempts.
* Recording: two chains, three logs, one chain with two blocks further apart than a batch, two
  processes (four sessions), two lists from the listeners, one replay with batch sizes 0 (taken as
  1) and 2: a failed write, a repeated log, a crash and a replay that feeds back all occur.
* Backtest: three submissions, of which two may be the lifespan's because two chains have one name;
  ranges of four, three and one block and an empty one, batch size 2 or the configuration's 0.
* Ingest: two chains, three logs of which two clash, a cache of two and pages of one, so that the
  cache evicts and refuses and pages are cut; one attempt per batch (so that batches fail within
  one action when no session is open), one handler, a crash or a shutdown, one restart.
* Migration: two files, batches of two rows, a line of every kind, two runs; each of two recorders
  opens, writes, closes and crashes.

### Fairness

`asyncio` runs every ready task. The awaits of the pusher end: requests by `ClientTimeout`,
backoffs by `sleep`; hence weak fairness per flush and for the timer, and for `start()` and
`stop()` once called; nobody is obliged to call `stop()`. For the listener, sleeps end (weak
fairness of `Wake`), and strong fairness of `HeadKnown(head)` and `LogsKnown(FALSE)` is an
assumption on the nodes, not a fact of the code: they answer truthfully again and again, with
failures and lags in between. `query_logs` needs only weak fairness of its steps. A
replay (`Replay(j)`) and a backtest task (`Task(s)`) run again after each sleep or query, which
`EveryCallEnds` shows to end; weak fairness, as long as the process lives. The requests of the
startup end by their timeouts (weak fairness of `StartListener`, `StartPusher`, `GapCheck`). The migration
script goes on unless it is killed (weak fairness of `Proceed`); SQLite gives the lock to one that waits
or lets it time out, which is `GiveUp`. Deadlock
checking is off in all runs, because all of these stop: exit, bound on the chain or on the processes, end of query.

## 4. Proofs

All theorems hold for every value of the constants that satisfies the named `ASSUME` of the module;
nothing else is assumed. Every invariant and every action property of the runs is a theorem, and so
is the safety part of both refinements.

* **Pusher** (`LogPusherProofs`). `TypeCorrect` first. `LogsHaveOneOwner`: `OneOwner` is inductive
  together with `TypeOK` and `TaskLifetimes`, the latter because the final flush and the
  cancellation overwrite a task's state and may do so only when it is idle or recorded as lost.
  `BufferStaysBelowThreshold` rests on the type of the counters. `DuplicatesAreBounded` needs
  `AttemptDiscipline`: a batch was taken in at most once per attempt, one less while a request is
  unanswered. `BatchesCoverTheirRanges` (`RangesAreWhole`) is inductive as `RangesInv`: logs are
  handed over in the order of their blocks, so the buffer is always newer than all that has left it
  (`PendingIsNewest`); a flush that takes all of it takes a whole range, and a task lets go of whole
  chains only. A failed batch put back into the buffer would break exactly this.
  `PusherImplementsDelivery`: `Fate` partitions the logs because of `OneOwner`, each action maps to
  `Accept`, `Deliver`, `Resolve` or a stutter. `CountersAreTrue` (`CountersTellOutcome`): the
  property relates counts of batches to sets of logs, so `Counted` says of each counter that it is
  zero exactly as long as no log has ended so and never exceeds their number. `CountsAdd` carries
  that over a step, since the logs a batch settles had no outcome before, which is `OneOwner` again.
* **Ingest** (`IngestProofs`). The restarts and the gap check keep the pusher's invariant
  (`PusherSurvivesRestarts`): a crash and a restart are the only steps that change it and are none
  of its own. `IInv` adds what the composition rests on. `Leftovers`: from the last flush on, what
  waits in the buffer or is due came late. `CacheInv`: the cache has the logs of this process but
  for clashes and evictions. `ReplayOnce`: a log is replayed once at most, because a process replays
  only what it received itself and looks once. `RecordersInv`: the recorders
  are closed only once the pusher has stopped, so that what they miss by being closed came late.
  `EverySinkIsServed` (all three sinks), `ShutdownLeavesOnlyLateLogs`, `PushAndReplayAreBounded` and the action property `ReplaysAreTheNewest` follow.
* **Cache and paging** (`LogCacheProofs`). The inductive invariant is `Shape /\ Window /\ Coherent`:
  the deque is a window of the accepted logs, so that evicting at the left and appending at the
  right keeps both it and the key index; `PopsAtMostOne` shows that the loop runs at most once and
  that `maxlen` never evicts. Paging leaves the cache alone (`PagingOnlyReads`), so all this holds
  under it. `PagesAreAPartition` is arithmetic on the listing, which `Ahead` orders strictly.
  `PagingLosesNothing` needs `PInv`: a chain's logs lie in block order in what is still to come
  (`Waiting`) and in the cache (`Stored`), and each wanted log the client has not seen either is
  excused or has so many logs ahead of it that it is on a page to come (`Served`). An eviction may
  take away a log ahead of it only if it is of another chain, and that is the excuse.
* **Middleware** (`LogCacheProofs`). A protected handler runs only with a sound token that has not
  expired, whatever the host's time zone; at UTC and east of it the second comparison refuses
  nothing, west of it every token in its last hours.
* **Listener** (`ChainListenerProofs`). `IInv` adds to the properties that `base` and `last_block`
  are set together (`Anchored`) and that a fresh process shows no error. That `_last_block` never
  goes back (`NeverBack`) and `ErrorStays` follow as action properties.
* **Query** (`BinarySearchProofs`). The invariant is about the tree of calls, however deep and wide
  it has become. `Tree`: a call is half of its caller's range and belongs to an attempt the caller
  has begun; while that attempt is not over the caller waits or has ended, and if it has ended well
  or was cancelled nothing of the attempt runs. `Halved`: halves come in pairs. `Answered`: what a
  call returned is in order and lacks no more than `Lacking`. From it `QueryIsAnsweredInOrder`,
  every step is a step of `LogQuery`: a joined answer is ordered because the halves are disjoint,
  and a cancellation reaches every half of a call it reaches (`HalvesOfAttachedCalls`).
  `OutlivingWorkIsAbandoned`: on the path from a call that still runs to the root there is, seen
  from below, a last one that runs; its caller has failed that attempt or has raised.
  `RequestsStayBounded`: calls of one range have taken the same sides (`RangeGivesSides`), so that
  they differ only in the attempts they belong to, and requests map one to one into choices of
  attempts.
* **Pool** (`BinarySearchProofs`). For every answer `get_logs` ends in one of the five classes the
  querier handles, HTTP 429 is always a rate limit, and a height is never refused as too large.
* **Recorders** (`LogRecorderProofs`). `RowsInRange` is not inductive: a failed write leaves a
  widened range in memory, which the next commit writes over the session's. `IInv` adds that
  sessions with one end of a range have both (`WholeRanges`) and that a live recorder and its
  session are `Paired`: the session is open and the recorder's alone, totals agree and the range in
  memory covers the one in the database. `TypeCorrect`, `RowsAreInRange`, `MemoryAgreesWithDatabase`
  and the action property `SessionsAreNeverTakenBack` follow. `TotalsAccountForRows` (`TotalsCover`)
  compares the rows of a chain with what its sessions have counted, as sets of pairs (`CountedBy`):
  that set is finite (`TInv`), and a commit adds at least as many pairs to it as rows to the table.
* **Migration** (`LogRecorderProofs`). The script's rows lie in no session's range, so `RowsInRange`
  is lost beside it; the rest of `IInv`, `Core`, is not (`MigrationLeavesRecordersAlone`).
  `CompleteMeansComplete` (`MigrationIsComplete`) rests on `Imported`: all earlier files are in with
  their sessions, and of the present one the lines flushed so far. No recorder takes that back: rows
  are never deleted and a closed session, as the script's are, is no recorder's.
* **Replay** (`LogReplayProofs`). The recorders' promises, now with replays that write their logs
  back (`RecordersKeepTheirPromises`, `ReplaysTakeNothingBack`), and `ReplaysAreFaithful`: `JInv`
  adds to `IInv` that each replay is `Sound`, that is, what it owed below its next block is handed
  over, what is handed over lies below it, is in the table, in range and in order. It survives
  whatever others record, because rows are never deleted (`SoundStays`).
* **Backtest** (`BacktestProofs`). `Inv` says where a task is between two batches (`AtBatch`: its
  next block is the first one after its batches) and what it has handed over (`Covers`, `InOrder`).
  `TasksDeliverPrefix`, `TasksProgressAddsUp` (the three divisions agree) and
  `TasksAlwaysHaveQuerier` follow. A chain is found by its name or id if no two chains share one,
  and never another chain; a shared name takes the automatic backtest away from all but the last.

Only model-checked: all liveness, which this prover cannot treat (`BufferDrains`, `TakenLogsSettle`,
`CatchesUp`, `EveryCallEnds`, `ReplayEnds`, `TasksEnd`, `StartupEnds`, `MigrationEnds`, and the
fairness of `LogQuery` in `ImplementsLogQuery`), and that the runs expected to fail do.

## 5. Plan

1. *Done:* the modules of section 2, their runs and the proofs above.
2. Composition left: several clients of one cache, and `ChainListener` over `LogQuery` (a listener
   whose lists lack blocks beyond a lagging node's height).
3. Proofs left: two properties of one component that together say more, as that a log a shutdown
   leaves behind is in the recorder's table unless its write failed; whichever invariants the compositions need.

## 6. Not modelled

The apipool library (rotation, throttling, health tracking, refreshing of keys) is not part of the
repository. Configuration parsing, logging, templates, the read-only handlers and
`diagnose_block_data.py` are sequential code without shared state. Log contents beyond key, chain,
block and first topic play no role in the properties. `.codebuddy/` holds the skills of a coding
agent, which are no part of the service.

## 7. Running

    tlc -config LogPusher.cfg MCLogPusher             # likewise the LogPusher_*.cfg
    tlc -config LogPaging.cfg MCLogPaging
    tlc -config ChainListener.cfg MCChainListener
    tlc -config BinarySearch.cfg MCBinarySearch       # likewise BinarySearch_missed.cfg
    tlc -config LogReplay.cfg MCLogReplay
    tlc -config Backtest.cfg MCBacktest
    tlc -config Ingest.cfg MCIngest                   # likewise Ingest_gap.cfg
    tlc -config LogMigration.cfg MCLogMigration
    tlapm LogPusherProofs.tla                         # likewise the other proof modules
