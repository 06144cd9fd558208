------------------------------- MODULE Backtest -------------------------------
(***************************************************************************)
(* chains/backtest.py: the BacktestRunner of one chain, with the RPC pool  *)
(* it opens on first use and the tasks submitted to it.                    *)
(*                                                                         *)
(* A step is what a submission or its task does from one await to the      *)
(* next.  What query_logs does inside is BinarySearchQuerier's; here it    *)
(* returns the logs of its range or raises.                                *)
(***************************************************************************)
EXTENDS EvmRpcPool, ChainLookup, FiniteSetsExt

CONSTANTS
  Me,          (* the place of the runner's chain in the configuration       *)
  Submissions, (* calls of submit_backtest                                   *)
  LogBlocks,   (* the blocks with logs that match the filters                *)
  Froms, Tos,  (* the blocks a request may name                              *)
  BatchSizes,  (* batch_size; the configuration file may say 0               *)
  Setups       (* how the opening of the RPC pool may go                     *)

ASSUME BacktestAssumption ==
  /\ Me \in DOMAIN Configured
  /\ LogBlocks \subseteq Nat
  /\ Froms \subseteq Nat /\ Tos \subseteq Nat
  /\ BatchSizes \subseteq Nat
  /\ Setups \subseteq SetupType

NoBlock == -1
NoPool  == 0

VARIABLES
  pool,   (* _rpc_pool with its querier: the number of the pool              *)
  pools,  (* pools started so far                                            *)
  subs,   (* the submissions and their BacktestTaskStatus; next is `current`,*)
          (* out the lists handed to the callback so far                     *)
  stopped, (* pools that close() has stopped                                 *)
  phase   (* the lifespan: "starting", "serving", "closed", "exited"         *)

vars == <<pool, pools, subs, stopped, phase>>

NoTask == [status |-> "none", from |-> 0, to |-> 0, size |-> 0, next |-> 0,
           total |-> 0, done |-> 0, out |-> <<>>]

-----------------------------------------------------------------------------
(* An end of the range from the command line or else from the              *)
(* configuration: 0 on the command line counts as not given.               *)
Chosen(cli, conf) == IF cli \in {NoBlock, 0} THEN conf ELSE cli

BatchCountFault(t) == (t.to - t.from + 1) \div t.size

(* total_batches *)
BatchCount(t) == (t.to - t.from + t.size) \div t.size

(* The rest of submit_backtest once there is a pool: a range that is empty *)
(* or a batch size of 0 raises, else a task is created.                    *)
Admitted(t) ==
  IF t.from > t.to \/ t.size = 0
  THEN [t EXCEPT !.status = "rejected"]
  ELSE [t EXCEPT !.status = "pending", !.total = BatchCount(t), !.next = t.from]

SubmitFault(s, from, to, size) ==
  LET t == [NoTask EXCEPT !.from = from, !.to = to, !.size = size]
  IN  /\ subs[s] = NoTask
      /\ subs' = [subs EXCEPT ![s] = IF pool # NoPool \/ \E u \in Submissions : subs[u].status = "opening"
                                     THEN Admitted(t)
                                     ELSE [t EXCEPT !.status = "opening"]]

(* submit_backtest is called: it waits for ensure_pool to start a pool if  *)
(* there is none yet, even if another submission is doing so.              *)
Submit(s, from, to, size) ==
  LET t == [NoTask EXCEPT !.from = from, !.to = to, !.size = size]
  IN  /\ subs[s] = NoTask
      /\ subs' = [subs EXCEPT ![s] = IF pool = NoPool
                                     THEN [t EXCEPT !.status = "opening"]
                                     ELSE Admitted(t)]

Submitted == {s \in Submissions : subs[s] # NoTask}
Opening   == {s \in Submissions : subs[s].status = "opening"}

(* The lifespan submits the configured range, unless one end is missing,   *)
(* before requests are served: once in each turn the runner gets, one turn *)
(* after the other.                                                        *)
AutoSubmit(s) ==
  /\ phase = "starting"
  /\ Opening = {}
  /\ Cardinality(Submitted) < Cardinality(TurnsOf(Me))
  /\ \E cf, ff \in Froms \cup {NoBlock}, ct, ft \in Tos \cup {NoBlock}, n \in BatchSizes :
       /\ NoBlock \notin {Chosen(cf, ff), Chosen(ct, ft)}
       /\ \A u \in Submitted :
            <<subs[u].from, subs[u].to, subs[u].size>> = <<Chosen(cf, ff), Chosen(ct, ft), n>>
       /\ Submit(s, Chosen(cf, ff), Chosen(ct, ft), n)
  /\ UNCHANGED <<pool, pools, stopped, phase>>

(* POST /api/backtest/run for a chain that is this runner's, which takes   *)
(* no batch size below 10.                                                 *)
Request(s) ==
  /\ phase = "serving"
  /\ \E chain \in Keys : find(chain) = Me
  /\ \E f \in Froms, t \in Tos, n \in BatchSizes \ {0} : Submit(s, f, t, n)
  /\ UNCHANGED <<pool, pools, stopped, phase>>

(* ensure_pool returns; the pool it started replaces any other. *)
PoolOpens(s) ==
  /\ subs[s].status = "opening"
  /\ \E r \in Setups : PoolOpened(r)
  /\ pools' = pools + 1
  /\ pool' = pools + 1
  /\ subs' = [subs EXCEPT ![s] = Admitted(@)]
  /\ UNCHANGED <<stopped, phase>>

(* The pool cannot be opened: submit_backtest raises, the next one tries   *)
(* again.                                                                  *)
PoolFails(s) ==
  /\ subs[s].status = "opening"
  /\ \E r \in Setups : ~PoolOpened(r)
  /\ subs' = [subs EXCEPT ![s].status = "rejected"]
  /\ UNCHANGED <<pool, pools, stopped, phase>>

(* _execute_backtest runs up to its first query. *)
Begin(s) ==
  /\ subs[s].status = "pending"
  /\ subs' = [subs EXCEPT ![s].status = "running"]
  /\ UNCHANGED <<pool, pools, stopped, phase>>

(* The condition of the batch loop. *)
Querying(s) == subs[s].status = "running" /\ subs[s].next <= subs[s].to

BatchEndFault(t) == Min({t.next + t.size, t.to})

BatchEnd(t) == Min({t.next + t.size - 1, t.to})

Found(t) == LogBlocks \cap (t.next..BatchEnd(t))

Handed(t) == IF Found(t) = {} THEN t.out ELSE Append(t.out, Found(t))

BatchDoneFault(s) ==
  /\ Querying(s)
  /\ LET t == subs[s]
     IN  subs' = [subs EXCEPT ![s] =
           [t EXCEPT !.done = @ + 1, !.out = Handed(t), !.next = BatchEnd(t) + 1,
                     !.status = IF BatchEnd(t) <= t.to THEN "running" ELSE "completed"]]
  /\ UNCHANGED <<pool, pools, stopped, phase>>

(* The query of a batch returns and so does the callback. *)
BatchDone(s) ==
  /\ Querying(s)
  /\ LET t == subs[s]
     IN  subs' = [subs EXCEPT ![s] =
           [t EXCEPT !.done = @ + 1, !.out = Handed(t), !.next = BatchEnd(t) + 1,
                     !.status = IF BatchEnd(t) < t.to THEN "running" ELSE "completed"]]
  /\ UNCHANGED <<pool, pools, stopped, phase>>

(* The callback raises (its recorder cannot write): the batch is counted   *)
(* and has reached the cache, the task fails.                              *)
CallbackRaises(s) ==
  /\ Querying(s)
  /\ Found(subs[s]) # {}
  /\ LET t == subs[s]
     IN  subs' = [subs EXCEPT ![s] =
           [t EXCEPT !.done = @ + 1, !.out = Handed(t), !.status = "failed"]]
  /\ UNCHANGED <<pool, pools, stopped, phase>>

(* The query raises. *)
QueryFails(s) ==
  /\ Querying(s)
  /\ subs' = [subs EXCEPT ![s].status = "failed"]
  /\ UNCHANGED <<pool, pools, stopped, phase>>

(* The lifespan yields once the submissions it awaits, all or none, have   *)
(* returned.                                                               *)
Serve ==
  /\ phase = "starting"
  /\ Opening = {}
  /\ Cardinality(Submitted) \in {0, Cardinality(TurnsOf(Me))}
  /\ phase' = "serving"
  /\ UNCHANGED <<pool, pools, subs, stopped>>

(* close() stops the pool the runner has; tasks are not told. *)
Close ==
  /\ phase = "serving"
  /\ phase' = "closed"
  /\ stopped' = stopped \cup ({pool} \ {NoPool})
  /\ UNCHANGED <<pool, pools, subs>>

(* The loop ends and with it whatever is under way. *)
Exit ==
  /\ phase = "closed"
  /\ phase' = "exited"
  /\ UNCHANGED <<pool, pools, subs, stopped>>

Init ==
  /\ pool = NoPool
  /\ pools = 0
  /\ subs = [s \in Submissions |-> NoTask]
  /\ stopped = {}
  /\ phase = "starting"

Task(s) == Begin(s) \/ BatchDone(s) \/ CallbackRaises(s) \/ QueryFails(s)

Next ==
  \/ phase # "exited" /\ \E s \in Submissions :
       AutoSubmit(s) \/ Request(s) \/ PoolOpens(s) \/ PoolFails(s) \/ Task(s)
  \/ Serve
  \/ Close
  \/ Exit

Spec == Init /\ [][Next]_vars

(* Queries end (BinarySearch shows it) and asyncio runs the task again. *)
FairSpec == Spec /\ \A s \in Submissions : WF_vars(phase # "exited" /\ Task(s))

-----------------------------------------------------------------------------
HasTask(t) == t.status \in {"pending", "running", "completed", "failed"}

(* A task never runs without a querier, however many submissions wait for  *)
(* the first pool at once: `self._querier.query_logs` finds one.           *)
TasksHaveQuerier == \A s \in Submissions : HasTask(subs[s]) => pool # NoPool

(* What a task has handed on is exactly what its batches so far contain,   *)
(* each block once and in order: all of its range if it is completed, a    *)
(* whole number of batches if it failed.                                   *)
DeliversPrefix ==
  \A s \in Submissions : HasTask(subs[s]) =>
    LET t   == subs[s]
        got == UNION {t.out[i] : i \in DOMAIN t.out}
    IN  /\ got = LogBlocks \cap (t.from..Min({t.from + t.done * t.size - 1, t.to}))
        /\ \A i, k \in DOMAIN t.out : i < k => \A a \in t.out[i], b \in t.out[k] : a < b
        /\ t.status = "completed" => got = LogBlocks \cap (t.from..t.to)

(* The progress shown to clients reaches total_batches exactly when the    *)
(* task completes, for ranges that are no multiple of the batch size too.  *)
ProgressAddsUp ==
  \A s \in Submissions : HasTask(subs[s]) =>
    /\ subs[s].done <= subs[s].total
    /\ subs[s].status = "completed" => subs[s].done = subs[s].total
    /\ subs[s].status \in {"pending", "running"} => subs[s].done < subs[s].total

(* Every task ends, unless the process does. *)
TasksEnd ==
  \A s \in Submissions :
    subs[s].status \in {"pending", "running"}
      ~> (subs[s].status \in {"completed", "failed"} \/ phase = "exited")
=============================================================================
