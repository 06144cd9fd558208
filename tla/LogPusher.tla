------------------------------ MODULE LogPusher ------------------------------
(***************************************************************************)
(* The push path of evm_chain_listener/pusher.py: class LogPusher and the  *)
(* AlertProcessor it talks to.                                             *)
(*                                                                         *)
(* asyncio runs one task at a time and switches only where a coroutine     *)
(* really suspends.  An action below is the code a task runs from one      *)
(* suspension to the next.  Nothing suspends while holding                 *)
(* LogPusher._lock, so the lock is free whenever it is acquired and a      *)
(* critical section never ends an action.                                  *)
(*                                                                         *)
(* A definition named ...Fault before another is that definition with a    *)
(* plausible bug; the specification does not use it.                       *)
(***************************************************************************)
EXTENDS Naturals, FiniteSets

CONSTANTS
  Logs,           (* the log occurrences the listeners hand over             *)
  ChainOf,        (* the chain_id of a log                                   *)
  BlockOf,        (* the block_number of a log                               *)
  Handlers,       (* tasks on_new_logs runs in; bounds those alive at once   *)
  BatchSize,      (* AlertProcessorConfig.batch_size                         *)
  RetryAttempts   (* AlertProcessorConfig.retry_attempts                     *)

ASSUME PusherAssumption ==
  /\ IsFiniteSet(Logs)
  /\ ChainOf \in [Logs -> Nat]
  /\ BlockOf \in [Logs -> Nat]
  /\ BatchSize \in Nat \ {0}
  /\ RetryAttempts \in Nat \ {0}
  /\ Handlers \cap {"periodic", "stop"} = {}

(* Who flushes: on_new_logs at the threshold, the timer, and stop(). *)
Tasks    == Handlers \cup {"periodic", "stop"}
ChainIds == {ChainOf[l] : l \in Logs}
Outcomes == {"acked", "discarded", "dropped", "lost"}

VARIABLES
  (* The program. *)
  lifecycle,   (* how far the lifespan has driven start() and stop()         *)
  session,     (* _session: absent, open or closed                           *)
  buffer,      (* _pending_buffer                                            *)
  flush,       (* what each task took out of the buffer and has not settled  *)
  lastPushed,  (* _last_pushed_block, 0 for a chain without an entry         *)
  stats,       (* the counters of PusherStats                                *)
  (* History. *)
  handed,      (* logs on_new_logs has been called with                      *)
  outcome,     (* how the logs the pusher let go of ended                    *)
  ingests      (* how often the AlertProcessor has taken in each log         *)

vars == <<lifecycle, session, buffer, flush, lastPushed, stats,
          handed, outcome, ingests>>

Idle == [todo |-> {}, attempt |-> 0, phase |-> "idle"]

(* A task backs off only when it has an attempt left. *)
TaskState ==
  {s \in [todo : SUBSET Logs, attempt : 0..RetryAttempts,
          phase : {"idle", "post", "ingested", "backoff"}] :
     s.phase = "backoff" => s.attempt < RetryAttempts}

Settled == UNION {outcome[o] : o \in Outcomes}

-----------------------------------------------------------------------------
(* Flushing. *)

(* on_new_logs flushes when this holds of the buffer, the timer when       *)
(* HasPending does; the retry loop goes on when MayRetry does.             *)
FullFault(pending) == Cardinality(pending) > BatchSize
Full(pending) == Cardinality(pending) >= BatchSize

HasPendingFault == Full(buffer)
HasPending == buffer # {}

MayRetryFault(n) == n <= RetryAttempts
MayRetry(n) == n < RetryAttempts

(* The batch a task is sending: its logs of the lowest chain not sent yet. *)
Current(todo) == {l \in todo : \A m \in todo : ChainOf[l] <= ChainOf[m]}

(* _do_post returns False at once when there is no usable session. *)
CanPost == session = "open"

(* With one attempt and no session a batch fails without ever suspending. *)
FailsAtOnce(todo) == IF ~CanPost /\ RetryAttempts = 1 THEN todo ELSE {}

Batches(todo) == Cardinality({ChainOf[l] : l \in todo})

(* The n-th attempt of the current batch, up to where the task suspends. *)
Attempt(todo, n) ==
  [todo |-> todo, attempt |-> n, phase |-> IF CanPost THEN "post" ELSE "backoff"]

(* A task that begins to send todo, one chain after the other. *)
Begin(todo) == IF todo \ FailsAtOnce(todo) = {} THEN Idle ELSE Attempt(todo, 1)

Retries(todo) == IF ~CanPost /\ todo \ FailsAtOnce(todo) # {} THEN 1 ELSE 0

(* Records that S ended as o, and drops what else fails at once in rest. *)
Settle(S, o, rest) ==
  outcome' = [k \in Outcomes |->
                outcome[k] \cup (IF k = o THEN S ELSE {})
                           \cup (IF k = "dropped" THEN FailsAtOnce(rest) ELSE {})]

(* _flush_all up to its first suspension: t takes everything pending. *)
TakeAll(t, pending) ==
  /\ buffer' = {}
  /\ flush' = [flush EXCEPT ![t] = Begin(pending)]
  /\ stats' = [stats EXCEPT !.buffer_size = 0,
                            !.total_retried = @ + Retries(pending),
                            !.total_failed = @ + Batches(FailsAtOnce(pending))]
  /\ Settle({}, "dropped", pending)

(* The current batch of t ends as o and t goes on to the next chain. *)
FinishBatch(t, o) ==
  LET batch == Current(flush[t].todo)
      rest  == flush[t].todo \ batch
  IN  /\ flush' = [flush EXCEPT ![t] = Begin(rest)]
      /\ stats' = [stats EXCEPT
            !.total_pushed = @ + (IF o = "dropped" THEN 0 ELSE 1),
            !.total_retried = @ + Retries(rest),
            !.total_failed = @ + (IF o = "dropped" THEN 1 ELSE 0)
                               + Batches(FailsAtOnce(rest))]
      /\ Settle(batch, o, rest)

NotePushedFault(t) ==
  \E l \in flush[t].todo :
    /\ \A m \in flush[t].todo : BlockOf[m] <= BlockOf[l]
    /\ lastPushed' = [lastPushed EXCEPT ![ChainOf[l]] = BlockOf[l]]

(* _send_batch after a success: the highest block of the batch is noted. *)
NotePushed(t) ==
  \E l \in Current(flush[t].todo) :
    /\ \A m \in Current(flush[t].todo) : BlockOf[m] <= BlockOf[l]
    /\ lastPushed' = [lastPushed EXCEPT ![ChainOf[l]] = BlockOf[l]]

(* Attempt n of t has failed: back off, or give the batch up. *)
FailedAttempt(t, n) ==
  IF MayRetry(n)
  THEN /\ flush' = [flush EXCEPT ![t] =
                      [todo |-> @.todo, attempt |-> n, phase |-> "backoff"]]
       /\ stats' = [stats EXCEPT !.total_retried = @ + 1]
       /\ UNCHANGED outcome
  ELSE FinishBatch(t, "dropped")

-----------------------------------------------------------------------------
(* The tasks. *)

(* A listener hands over new logs of one chain, its blocks in order and    *)
(* each whole: S may follow the logs of past.                              *)
Deliverable(S, past) ==
  /\ S # {}
  /\ S \cap past = {}
  /\ \A l, m \in S : ChainOf[l] = ChainOf[m]
  /\ \A l \in S, m \in Logs \ (past \cup S) :
       ChainOf[l] = ChainOf[m] => BlockOf[l] < BlockOf[m]

(* on_new_logs, run in task t: buffer the logs, flush at the threshold. *)
OnNewLogs(t, S) ==
  /\ lifecycle # "exited"
  /\ flush[t] = Idle
  /\ handed' = handed \cup S
  /\ IF Full(buffer \cup S)
     THEN TakeAll(t, buffer \cup S)
     ELSE /\ buffer' = buffer \cup S
          /\ stats' = [stats EXCEPT !.buffer_size = Cardinality(buffer \cup S)]
          /\ UNCHANGED <<flush, outcome>>
  /\ UNCHANGED <<lifecycle, session, lastPushed, ingests>>

(* _periodic_flush wakes up and finds something pending. *)
PeriodicFlush ==
  /\ lifecycle = "running"
  /\ flush["periodic"] = Idle
  /\ HasPending
  /\ TakeAll("periodic", buffer)
  /\ UNCHANGED <<lifecycle, session, lastPushed, handed, ingests>>

(* The AlertProcessor takes in the request t has sent. *)
ServerIngests(t) ==
  /\ flush[t].phase = "post"
  /\ flush' = [flush EXCEPT ![t].phase = "ingested"]
  /\ ingests' = [l \in Logs |->
                   ingests[l] + (IF l \in Current(flush[t].todo) THEN 1 ELSE 0)]
  /\ UNCHANGED <<lifecycle, session, buffer, lastPushed, stats, handed, outcome>>

(* 200 or 202. *)
PostAccepted(t) ==
  /\ flush[t].phase = "ingested"
  /\ NotePushed(t)
  /\ FinishBatch(t, "acked")
  /\ UNCHANGED <<lifecycle, session, buffer, handed, ingests>>

PostBadRequestFault(t) ==
  /\ flush[t].phase = "post"
  /\ NotePushed(t)
  /\ FinishBatch(t, "acked")
  /\ UNCHANGED <<lifecycle, session, buffer, handed, ingests>>

(* 400: _do_post reports success so that the batch is not sent again. *)
PostBadRequest(t) ==
  /\ flush[t].phase = "post"
  /\ NotePushed(t)
  /\ FinishBatch(t, "discarded")
  /\ UNCHANGED <<lifecycle, session, buffer, handed, ingests>>

PostFailsFault(t) ==
  LET batch == Current(flush[t].todo)
  IN  /\ flush[t].phase \in {"post", "ingested"}
      /\ IF MayRetry(flush[t].attempt)
         THEN FailedAttempt(t, flush[t].attempt) /\ UNCHANGED buffer
         ELSE /\ flush' = [flush EXCEPT ![t] = Begin(@.todo \ batch)]
              /\ buffer' = buffer \cup batch
              /\ stats' = [stats EXCEPT !.buffer_size = Cardinality(buffer')]
              /\ UNCHANGED outcome
      /\ UNCHANGED <<lifecycle, session, lastPushed, handed, ingests>>

(* 429, 5xx or another status, a timeout or a connection error: before the *)
(* AlertProcessor has taken the request in, or after it.                   *)
PostFails(t) ==
  /\ flush[t].phase \in {"post", "ingested"}
  /\ FailedAttempt(t, flush[t].attempt)
  /\ UNCHANGED <<lifecycle, session, buffer, lastPushed, handed, ingests>>

BackoffEndsFault(t) ==
  /\ flush[t].phase = "backoff"
  /\ flush' = [flush EXCEPT ![t] = Attempt(@.todo, @.attempt)]
  /\ UNCHANGED <<lifecycle, session, buffer, lastPushed, stats, handed, outcome, ingests>>

(* The sleep between two attempts is over: the next attempt. *)
BackoffEnds(t) ==
  /\ flush[t].phase = "backoff"
  /\ IF CanPost
     THEN /\ flush' = [flush EXCEPT ![t] = Attempt(@.todo, @.attempt + 1)]
          /\ UNCHANGED <<stats, outcome>>
     ELSE FailedAttempt(t, flush[t].attempt + 1)
  /\ UNCHANGED <<lifecycle, session, buffer, lastPushed, handed, ingests>>

(* start(): the session is created, the timer begins to run. *)
Start ==
  /\ lifecycle = "created"
  /\ lifecycle' = "running"
  /\ session' = "open"
  /\ UNCHANGED <<buffer, flush, lastPushed, stats, handed, outcome, ingests>>

CancelPeriodicFault ==
  /\ lifecycle = "running"
  /\ lifecycle' = "stopping"
  /\ outcome' = [outcome EXCEPT !["lost"] = @ \cup flush["periodic"].todo]
  /\ UNCHANGED <<flush, session, buffer, lastPushed, stats, handed, ingests>>

(* stop() cancels the timer task, and with it the batches that task holds. *)
CancelPeriodic ==
  /\ lifecycle = "running"
  /\ lifecycle' = "stopping"
  /\ outcome' = [outcome EXCEPT !["lost"] = @ \cup flush["periodic"].todo]
  /\ flush' = [flush EXCEPT !["periodic"] = Idle]
  /\ UNCHANGED <<session, buffer, lastPushed, stats, handed, ingests>>

FinalFlushFault ==
  /\ lifecycle = "stopping"
  /\ lifecycle' = "flushing"
  /\ IF Full(buffer) THEN TakeAll("stop", buffer)
                     ELSE UNCHANGED <<buffer, flush, stats, outcome>>
  /\ UNCHANGED <<session, lastPushed, handed, ingests>>

(* stop() flushes what is left. *)
FinalFlush ==
  /\ lifecycle = "stopping"
  /\ lifecycle' = "flushing"
  /\ TakeAll("stop", buffer)
  /\ UNCHANGED <<session, lastPushed, handed, ingests>>

(* stop() closes the session once its own flush has returned. *)
CloseSession ==
  /\ lifecycle = "flushing"
  /\ flush["stop"] = Idle
  /\ lifecycle' = "stopped"
  /\ session' = "closed"
  /\ UNCHANGED <<buffer, flush, lastPushed, stats, handed, outcome, ingests>>

(* The event loop ends: the tasks still alive are cancelled. *)
Exit ==
  /\ lifecycle = "stopped"
  /\ lifecycle' = "exited"
  /\ outcome' = [outcome EXCEPT !["lost"] =
                   @ \cup UNION {flush[t].todo : t \in Tasks}]
  /\ flush' = [t \in Tasks |-> Idle]
  /\ UNCHANGED <<session, buffer, lastPushed, stats, handed, ingests>>

-----------------------------------------------------------------------------
Init ==
  /\ lifecycle = "created"
  /\ session = "none"
  /\ buffer = {}
  /\ flush = [t \in Tasks |-> Idle]
  /\ lastPushed = [c \in ChainIds |-> 0]
  /\ stats = [buffer_size |-> 0, total_pushed |-> 0,
              total_retried |-> 0, total_failed |-> 0]
  /\ handed = {}
  /\ outcome = [o \in Outcomes |-> {}]
  /\ ingests = [l \in Logs |-> 0]

(* What makes the flush of task t go on. *)
Progress(t) ==
  \/ ServerIngests(t)
  \/ PostAccepted(t)
  \/ PostBadRequest(t)
  \/ PostFails(t)
  \/ BackoffEnds(t)

Lifespan == Start \/ CancelPeriodic \/ FinalFlush \/ CloseSession \/ Exit

Next ==
  \/ \E t \in Handlers, S \in SUBSET (Logs \ handed) :
       Deliverable(S, handed) /\ OnNewLogs(t, S)
  \/ PeriodicFlush
  \/ \E t \in Tasks : Progress(t)
  \/ Lifespan

Spec == Init /\ [][Next]_vars

(* Every wait of a flush ends: a post by ClientTimeout(total=...), a       *)
(* backoff by its sleep; the timer fires as long as its task lives; the    *)
(* lifespan goes on by itself, except that nobody has to call stop().      *)
Fairness ==
  /\ \A t \in Tasks : WF_vars(Progress(t))
  /\ WF_vars(PeriodicFlush)
  /\ WF_vars(Start)
  /\ WF_vars(FinalFlush)
  /\ WF_vars(CloseSession)

FairSpec == Spec /\ Fairness

-----------------------------------------------------------------------------
(* Properties. *)

(* The state of the pusher is of the expected type. *)
TypeOK ==
  /\ lifecycle \in {"created", "running", "stopping", "flushing", "stopped", "exited"}
  /\ session \in {"none", "open", "closed"}
  /\ buffer \subseteq Logs
  /\ flush \in [Tasks -> TaskState]
  /\ lastPushed \in [ChainIds -> Nat]
  /\ stats \in [buffer_size : Nat, total_pushed : Nat,
                total_retried : Nat, total_failed : Nat]
  /\ handed \subseteq Logs
  /\ outcome \in [Outcomes -> SUBSET Logs]
  /\ ingests \in [Logs -> Nat]

(* A log handed to on_new_logs is always in exactly one place: the buffer, *)
(* the hands of one flushing task, or one outcome.  Concurrent threshold,  *)
(* timer and shutdown flushes neither forget a log nor both send it.       *)
OneOwner ==
  /\ handed = buffer \cup (UNION {flush[t].todo : t \in Tasks}) \cup Settled
  /\ \A t \in Tasks : flush[t].todo \cap (buffer \cup Settled) = {}
  /\ \A t, u \in Tasks : t # u => flush[t].todo \cap flush[u].todo = {}
  /\ buffer \cap Settled = {}
  /\ \A o, p \in Outcomes : o # p => outcome[o] \cap outcome[p] = {}

(* Between two steps of the event loop fewer than batch_size logs are      *)
(* pending and buffer_size tells their number, in every phase of the       *)
(* lifespan.                                                               *)
BelowThreshold ==
  /\ Cardinality(buffer) < BatchSize
  /\ stats.buffer_size = Cardinality(buffer)

(* A timeout after the AlertProcessor took the request in makes the retry  *)
(* deliver the batch again; but never more than retry_attempts times, over *)
(* all tasks and whatever happens to the session, and never for a log that *)
(* is still pending.                                                       *)
BoundedDuplicates ==
  /\ \A l \in Logs : ingests[l] <= RetryAttempts
  /\ \A l \in Logs : ingests[l] > 0 => l \in handed \ buffer

(* The bookkeeping of attempts behind BoundedDuplicates: a task that holds *)
(* logs has a request or a backoff under way; the batch it is sending was  *)
(* taken in at most once per attempt made, and the chains that wait behind *)
(* it not at all.                                                          *)
AttemptDiscipline ==
  \A t \in Tasks :
    /\ flush[t] # Idle => flush[t].phase # "idle" /\ flush[t].attempt > 0
    /\ \A l \in flush[t].todo :
         IF l \notin Current(flush[t].todo)
         THEN ingests[l] = 0
         ELSE /\ ingests[l] <= flush[t].attempt
              /\ flush[t].phase = "post" => ingests[l] < flush[t].attempt
              /\ flush[t].phase = "ingested" => ingests[l] > 0

(* The timer holds logs only while the pusher runs, stop() only during its *)
(* final flush, and no request outlives the event loop: what is in flight  *)
(* in any other phase of the lifespan belongs to on_new_logs.              *)
TaskLifetimes ==
  /\ lifecycle # "running" => flush["periodic"] = Idle
  /\ lifecycle # "flushing" => flush["stop"] = Idle
  /\ lifecycle = "exited" => \A t \in Tasks : flush[t] = Idle

(* What /pusher/stats shows agrees with what happened to the batches,      *)
(* whichever tasks sent them in whichever order: total_failed counts       *)
(* batches given up, total_pushed batches answered, and _last_pushed_block *)
(* names a block sent successfully for each chain that has one.            *)
CountersTellOutcome ==
  LET answered == outcome["acked"] \cup outcome["discarded"]
  IN  /\ stats.total_failed > 0 <=> outcome["dropped"] # {}
      /\ stats.total_failed <= Cardinality(outcome["dropped"])
      /\ stats.total_pushed > 0 <=> answered # {}
      /\ stats.total_pushed <= Cardinality(answered)
      /\ \A c \in ChainIds :
            LET sent == {l \in answered : ChainOf[l] = c}
            IN  IF sent = {} THEN lastPushed[c] = 0
                             ELSE \E l \in sent : BlockOf[l] = lastPushed[c]

(* A batch tells the AlertProcessor the truth about the range it covers    *)
(* (_send_batch: from_block, to_block): no log of the chain handed over so *)
(* far lies in that range and not in the batch, however many flushes are   *)
(* under way and whichever failed.  For that, what waits in the buffer     *)
(* must be newer than all that has left it.                                *)
RangesAreWhole ==
  /\ \A l \in handed \ buffer, m \in buffer :
       ChainOf[l] = ChainOf[m] => BlockOf[l] < BlockOf[m]
  /\ \A t \in Tasks : \A l, n \in flush[t].todo : \A m \in handed \ flush[t].todo :
       ChainOf[l] = ChainOf[m] /\ ChainOf[m] = ChainOf[n]
         => ~(BlockOf[l] <= BlockOf[m] /\ BlockOf[m] <= BlockOf[n])

(* No log stays pending: again and again the buffer is empty, unless       *)
(* stop() has been through.  What stays below the threshold goes with the  *)
(* timer.                                                                  *)
BufferDrains == []<>(buffer = {} \/ lifecycle \in {"stopped", "exited"})

(* No log stays in the hands of a flush, where it is taken once: the retry *)
(* loop ends, whatever the AlertProcessor answers and whenever the session *)
(* goes away.  With OneOwner the log is settled then.                      *)
TakenLogsSettle ==
  \A l \in Logs : []<>(\A t \in Tasks : l \notin flush[t].todo)

(* The life of a log as LogDelivery tells it. *)
Fate(l) ==
  CASE l \in outcome["acked"]     -> "acked"
    [] l \in outcome["discarded"] -> "discarded"
    [] l \in outcome["dropped"]   -> "dropped"
    [] l \in outcome["lost"]      -> "lost"
    [] l \in handed \ Settled     -> "held"
    [] OTHER                      -> "new"

Delivery == INSTANCE LogDelivery WITH
              MaxDeliveries <- RetryAttempts,
              fate          <- [l \in Logs |-> Fate(l)],
              delivered     <- ingests

(* Buffering, concurrent flushes, retries and shutdown together do what    *)
(* LogDelivery says: once let go of, a log is never sent or counted again. *)
ImplementsDelivery == Delivery!Spec

-----------------------------------------------------------------------------
(* What the repository says of the pusher and the code does not do. *)

(* pusher.py:27, "On failure the data stays in the buffer and is retried   *)
(* on next flush."                                                         *)
FailedDataStaysBuffered ==
  [][outcome'["dropped"] \ outcome["dropped"] \subseteq buffer']_vars

(* pusher.py:79, "Stop pusher and flush any remaining logs.": while stop() *)
(* runs no log the pusher had accepted goes unsent without its retries.    *)
StopFlushesRemaining ==
  lifecycle \in {"stopping", "flushing", "stopped"} => outcome["lost"] = {}
=============================================================================
