------------------------------ MODULE LogReplay ------------------------------
(***************************************************************************)
(* db_replay.py and the tasks of main.py that run it: replays of a         *)
(* database in block batches, while the recorders of the same process may  *)
(* be writing to it; what is replayed goes through the ingest callback and *)
(* so is recorded again.                                                   *)
(*                                                                         *)
(* A step is one batch.  The code suspends between batches only if the     *)
(* interval is positive; the model allows other steps there in any case.   *)
(***************************************************************************)
EXTENDS LogRecorder

CONSTANTS
  Jobs,       (* the replay tasks a process may start                        *)
  ChainOrder, (* _config.chains                                              *)
  AskedFrom,  (* from_block as configured or requested; NoBlock for None     *)
  AskedTo,    (* to_block likewise                                           *)
  BatchSizes, (* blocks_per_batch; the configuration file may say 0          *)
  MaxWrites   (* bound: lists of logs the listeners hand over                *)

ASSUME ReplayAssumption ==
  /\ ChainOrder \in Seq(Chains)
  /\ AskedFrom \subseteq Nat \cup {NoBlock} /\ AskedTo \subseteq Nat \cup {NoBlock}
  /\ BatchSizes \subseteq Nat
  /\ MaxWrites \in Nat

VARIABLES
  jobs,  (* the tasks: status, todo (sources to come), the request, and of  *)
         (* the source under way chain, next block, last block; history:     *)
         (* owed, the rows in range at its beginning, and out, the batches   *)
         (* handed to the callback                                           *)
  writes (* lists the listeners have handed over                             *)

pvars == <<rows, sessions, recs, jobs, writes>>

NoJob == [status |-> "idle", todo |-> <<>>, from |-> NoBlock, to |-> NoBlock, size |-> 0,
          chain |-> NoBlock, next |-> 0, last |-> 0, owed |-> {}, out |-> <<>>]

Idle == \A j \in Jobs : jobs[j] = NoJob

-----------------------------------------------------------------------------
(* The SELECT of one batch. *)
Stored(c, from, to) == {l \in rows : l.chain = c /\ from <= l.block /\ l.block <= to}

StepFault(n) == n

(* blocks_per_batch is at least 1, whatever the configuration says. *)
Step(n) == Max({1, n})

(* What was asked for, or what MIN and MAX of the chain's rows say, or 0.  *)
Lowest(c, from) ==
  IF from # NoBlock THEN from
  ELSE IF rows \cap LogsOf(c) = {} THEN 0 ELSE Min(BlocksOf(rows \cap LogsOf(c)))

Highest(c, to) ==
  IF to # NoBlock THEN to
  ELSE IF rows \cap LogsOf(c) = {} THEN 0 ELSE Max(BlocksOf(rows \cap LogsOf(c)))

Progress(next, last) == IF next <= last THEN "replaying" ELSE "completed"

(* What is replayed: the database for one chain (file_path, the API) or,   *)
(* as a directory, for all chains one after the other.                     *)
Sources == {<<c>> : c \in Chains} \cup {ChainOrder}

Configured == [todo : Sources, from : AskedFrom, to : AskedTo]

(* GET /api/replay/recordings: discover_sessions lists the chain and range *)
(* of each session, which a client may ask to be replayed.                 *)
Recordings ==
  {[todo |-> <<s.chain>>, from |-> s.from, to |-> s.to] : s \in {sessions[i] : i \in DOMAIN sessions}}

(* A replay starts; the database exists. *)
StartReplay(j) ==
  /\ jobs[j] = NoJob
  /\ sessions # <<>>
  /\ Serving \/ Down
  /\ \E r \in Configured \cup Recordings, n \in BatchSizes :
       jobs' = [jobs EXCEPT ![j] = [NoJob EXCEPT !.status = "pending", !.todo = r.todo,
                                                 !.from = r.from, !.to = r.to, !.size = n]]
  /\ UNCHANGED <<rows, sessions, recs, writes>>

Ended(j) == jobs[j].status \in {"pending", "completed", "failed"}

(* replay(): the next source; one that fails does not keep the rest.       *)
Begin(j) ==
  /\ Ended(j)
  /\ jobs[j].todo # <<>>
  /\ LET c  == Head(jobs[j].todo)
         lo == Lowest(c, jobs[j].from)
         hi == Highest(c, jobs[j].to)
     IN  jobs' = [jobs EXCEPT ![j].todo = Tail(@), ![j].chain = c, ![j].next = lo, ![j].last = hi,
                              ![j].owed = Stored(c, lo, hi), ![j].out = <<>>,
                              ![j].status = Progress(lo, hi)]
  /\ UNCHANGED <<rows, sessions, recs, writes>>

BatchEnd(j) == Min({jobs[j].next + Step(jobs[j].size) - 1, jobs[j].last})

MovesOnFault(j, out) ==
  jobs' = [jobs EXCEPT ![j].out = out, ![j].next = BatchEnd(j),
                       ![j].status = Progress(BatchEnd(j), jobs[j].last)]

(* The callback returns, or there was nothing to call it with. *)
MovesOn(j, out) ==
  jobs' = [jobs EXCEPT ![j].out = out, ![j].next = BatchEnd(j) + 1,
                       ![j].status = Progress(BatchEnd(j) + 1, jobs[j].last)]

(* One batch of blocks.  _on_logs_received takes its logs in and has the   *)
(* chain's recorder write them; the recorder raising ends the replay.      *)
ReplayBatch(j) ==
  /\ jobs[j].status = "replaying"
  /\ LET c     == jobs[j].chain
         batch == Stored(c, jobs[j].next, BatchEnd(j))
         out   == Append(jobs[j].out, batch)
     IN  \/ batch = {} /\ MovesOn(j, jobs[j].out) /\ UNCHANGED rvars
         \/ batch # {} /\ ~Opened(c) /\ MovesOn(j, out) /\ UNCHANGED rvars
         \/ batch # {} /\ Opened(c) /\ Commit(c, batch) /\ MovesOn(j, out)
         \/ /\ batch # {} /\ Opened(c) /\ Rollback(c, batch)
            /\ jobs' = [jobs EXCEPT ![j].out = out, ![j].status = "failed"]
  /\ UNCHANGED writes

(* sqlite3.Error on reading. *)
ReadFails(j) ==
  /\ jobs[j].status = "replaying"
  /\ jobs' = [jobs EXCEPT ![j].status = "failed"]
  /\ UNCHANGED <<rows, sessions, recs, writes>>

(* A listener's logs reach the callback. *)
LogsArrive(c) ==
  /\ Serving
  /\ writes < MaxWrites
  /\ \E batch \in SUBSET LogsOf(c) : Write(c, batch)
  /\ writes' = writes + 1
  /\ UNCHANGED jobs

(* The lifespan opens the recorders in this order before anything else. *)
OpenNext(i) ==
  /\ Idle
  /\ \A k \in DOMAIN ChainOrder : k < i <=> Opened(ChainOrder[k])
  /\ Open(ChainOrder[i])
  /\ UNCHANGED <<jobs, writes>>

Close == Shutdown /\ UNCHANGED <<jobs, writes>>

(* The loop ends, after the recorders are closed or by a crash. *)
Exit ==
  /\ Crash \/ (Down /\ ~Idle /\ UNCHANGED rvars)
  /\ jobs' = [j \in Jobs |-> NoJob]
  /\ UNCHANGED writes

PInit == RInit /\ jobs = [j \in Jobs |-> NoJob] /\ writes = 0

Replay(j) == Begin(j) \/ ReplayBatch(j)

PNext ==
  \/ \E i \in DOMAIN ChainOrder : OpenNext(i)
  \/ \E c \in Chains : LogsArrive(c)
  \/ \E j \in Jobs : StartReplay(j) \/ Replay(j) \/ ReadFails(j)
  \/ Close
  \/ Exit

PSpec == PInit /\ [][PNext]_pvars

(* asyncio runs the task again after each sleep. *)
FairSpec == PSpec /\ \A j \in Jobs : WF_pvars(Replay(j))

-----------------------------------------------------------------------------
Delivered(j) == UNION {jobs[j].out[i] : i \in DOMAIN jobs[j].out}

(* Up to where a source has got, each row that was there when it began has *)
(* been handed over, once and in block order, whatever was recorded in the *)
(* meantime; nothing else is handed over than rows of its chain and range. *)
ReplayFaithful ==
  \A j \in Jobs : jobs[j].status # "idle" =>
    LET out == jobs[j].out
    IN  /\ {l \in jobs[j].owed : l.block < jobs[j].next} \subseteq Delivered(j)
        /\ Delivered(j) \subseteq Stored(jobs[j].chain, jobs[j].from, jobs[j].last)
        /\ jobs[j].status = "completed" => jobs[j].owed \subseteq Delivered(j)
        /\ \A i, k \in DOMAIN out : i < k =>
             \A l \in out[i], m \in out[k] : l.block < m.block

(* A replay that runs ends, with any blocks_per_batch.                     *)
ReplayEnds ==
  \A j \in Jobs : jobs[j].status = "replaying" ~> jobs[j].status # "replaying"
=============================================================================
