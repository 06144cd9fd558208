---------------------------- MODULE ChainListener ----------------------------
(***************************************************************************)
(* chains/base.py: the polling task of one chain, in the process that      *)
(* main.py's lifespan starts and stops, over process restarts.             *)
(*                                                                         *)
(* A step is what the task does from one await to the next; in particular  *)
(* _poll moves _last_block and calls log_callback without suspending in    *)
(* between.  What query_logs does inside is BinarySearchQuerier's.         *)
(***************************************************************************)
EXTENDS EvmRpcPool

CONSTANTS
  MaxHead,    (* bound: the highest block mined                              *)
  MaxLag,     (* how far the node asked for the height may lag behind        *)
  LogBlocks,  (* the blocks with logs that match the filters                 *)
  Answers,    (* what may come back of a request for the height              *)
  Setups,     (* how the opening of the RPC pool may go                      *)
  MaxLives    (* bound: processes started                                    *)

ASSUME ListenerAssumption ==
  /\ MaxHead \in Nat
  /\ MaxLag \in Nat
  /\ LogBlocks \subseteq Nat
  /\ Answers \subseteq AnswerType
  /\ Setups \subseteq SetupType
  /\ MaxLives \in Nat

NoBlock == -1
Blocks  == 0..MaxHead

VARIABLES
  (* The program. *)
  task,       (* where start(), the polling task and stop() are              *)
  last_block, (* _last_block, NoBlock for None                               *)
  asked,      (* current_block of the _poll() under way                      *)
  error,      (* whether _error is set                                       *)
  (* The chain. *)
  head,       (* the highest block                                           *)
  (* History. *)
  lives,      (* processes started so far                                    *)
  base,       (* where the first poll of this process found the chain        *)
  handed      (* how often this process has covered each block               *)

vars == <<task, last_block, asked, error, head, lives, base, handed>>

Polling == {"head", "logs", "sleep"}

-----------------------------------------------------------------------------
(* The polling task. *)

(* What eth_blockNumber may answer: the node asked may lag behind. *)
Heights == {b \in Blocks : b <= head /\ head <= b + MaxLag}

(* The blocks [from_block, to_block] the poll under way asks for. *)
Window == (last_block + 1)..asked

(* The first poll of a process only notes where the chain is. *)
FirstPoll(b) ==
  /\ last_block = NoBlock
  /\ last_block' = b
  /\ base' = b
  /\ UNCHANGED <<task, asked>>

NothingNewLateFault(b) == b <= last_block + 1

(* current_block <= _last_block: no new block, or a node that lags. *)
NothingNew(b) == b <= last_block

LaterPollFault(b) ==
  /\ last_block # NoBlock
  /\ IF NothingNew(b)
     THEN task' = "sleep" /\ UNCHANGED asked
     ELSE task' = "logs" /\ asked' = b + 1
  /\ UNCHANGED <<last_block, base>>

(* A later poll sleeps when there is nothing new, or asks for the logs. *)
LaterPoll(b) ==
  /\ last_block # NoBlock
  /\ IF NothingNew(b)
     THEN task' = "sleep" /\ UNCHANGED asked
     ELSE task' = "logs" /\ asked' = b
  /\ UNCHANGED <<last_block, base>>

(* The answers with which get_block_number ends so. *)
AnswersEnding(how) == {a \in Answers : get_block_number(a) = how}

(* get_block_number answers. *)
HeadKnown(b) ==
  /\ task = "head"
  /\ b \in Heights
  /\ AnswersEnding("returned") # {}
  /\ FirstPoll(b) \/ LaterPoll(b)
  /\ UNCHANGED <<error, head, lives, handed>>

(* query_logs answers: the block moves on, then the callback is called if  *)
(* there are logs; it raises when a recorder cannot write.                 *)
LogsKnown(raises) ==
  /\ task = "logs"
  /\ raises => Window \cap LogBlocks # {}
  /\ last_block' = asked
  /\ handed' = [b \in Blocks |-> handed[b] + (IF b \in Window THEN 1 ELSE 0)]
  /\ error' = raises
  /\ task' = IF raises THEN "sleep" ELSE "head"
  /\ UNCHANGED <<asked, head, lives, base>>

PollFailsFault ==
  /\ task \in {"head", "logs"}
  /\ task' = "sleep"
  /\ error' = TRUE
  /\ last_block' = IF task = "logs" THEN asked ELSE last_block
  /\ UNCHANGED <<asked, head, lives, base, handed>>

(* get_block_number or query_logs raises. *)
PollFails ==
  /\ task \in {"head", "logs"}
  /\ task = "head" => Answers # AnswersEnding("returned")
  /\ task' = "sleep"
  /\ error' = TRUE
  /\ UNCHANGED <<last_block, asked, head, lives, base, handed>>

WakeFault ==
  /\ task = "sleep"
  /\ task' = "head"
  /\ error' = FALSE
  /\ UNCHANGED <<last_block, asked, head, lives, base, handed>>

(* The sleep of poll_interval is over. *)
Wake ==
  /\ task = "sleep"
  /\ task' = "head"
  /\ UNCHANGED <<last_block, asked, error, head, lives, base, handed>>

-----------------------------------------------------------------------------
(* Start, stop, crash and restart. *)

Start ==
  /\ task = "new"
  /\ task' = "init"
  /\ error' = FALSE
  /\ UNCHANGED <<last_block, asked, head, lives, base, handed>>

(* The RPC pool is there and the polling task is created. *)
PoolReady ==
  /\ task = "init"
  /\ \E s \in Setups : PoolOpened(s)
  /\ task' = "head"
  /\ UNCHANGED <<last_block, asked, error, head, lives, base, handed>>

(* stop() cancels the task wherever it waits. *)
Stop ==
  /\ task \in Polling
  /\ task' = "stopped"
  /\ UNCHANGED <<last_block, asked, error, head, lives, base, handed>>

(* The RPC pool cannot be opened: the error leaves start() and lifespan's  *)
(* startup, and the process ends.                                          *)
PoolFails ==
  /\ task = "init"
  /\ \E s \in Setups : ~PoolOpened(s)
  /\ task' = "dead"
  /\ UNCHANGED <<last_block, asked, error, head, lives, base, handed>>

(* The process dies. *)
Crash ==
  /\ task \notin {"new", "dead"}
  /\ task' = "dead"
  /\ UNCHANGED <<last_block, asked, error, head, lives, base, handed>>

(* A new process: nothing of the listener is persisted. *)
Restart ==
  /\ task = "dead"
  /\ lives < MaxLives
  /\ lives' = lives + 1
  /\ task' = "new"
  /\ last_block' = NoBlock
  /\ asked' = NoBlock
  /\ base' = NoBlock
  /\ error' = FALSE
  /\ handed' = [b \in Blocks |-> 0]
  /\ UNCHANGED head

(* The chain grows. *)
Mine ==
  /\ head < MaxHead
  /\ head' = head + 1
  /\ UNCHANGED <<task, last_block, asked, error, lives, base, handed>>

-----------------------------------------------------------------------------
Init ==
  /\ task = "new"
  /\ last_block = NoBlock
  /\ asked = NoBlock
  /\ error = FALSE
  /\ head \in Blocks
  /\ lives = 1
  /\ base = NoBlock
  /\ handed = [b \in Blocks |-> 0]

Next ==
  \/ \E b \in Blocks : HeadKnown(b)
  \/ \E raises \in BOOLEAN : LogsKnown(raises)
  \/ PollFails
  \/ Wake
  \/ Start
  \/ PoolReady
  \/ PoolFails
  \/ Stop
  \/ Crash
  \/ Restart
  \/ Mine

Spec == Init /\ [][Next]_vars

(* Sleeps end.  The RPC side is assumed to answer, and truthfully, again   *)
(* and again; it may fail or lag any number of times in between.           *)
Fairness ==
  /\ WF_vars(Wake)
  /\ SF_vars(HeadKnown(head))
  /\ SF_vars(LogsKnown(FALSE))

FairSpec == Spec /\ Fairness

-----------------------------------------------------------------------------
(* The state of the listener is of the expected type. *)
TypeOK ==
  /\ task \in {"new", "init", "stopped", "dead"} \cup Polling
  /\ {last_block, asked, base} \subseteq Blocks \cup {NoBlock}
  /\ error \in BOOLEAN
  /\ head \in Blocks
  /\ lives \in Nat
  /\ handed \in [Blocks -> Nat]

(* Within one process every block after the first poll is covered exactly  *)
(* once, up to _last_block and no further: failed polls, lagging nodes and *)
(* a raising callback neither skip a block nor cover one twice.            *)
CoveredOnce ==
  \A b \in Blocks :
    handed[b] = IF base < b /\ b <= last_block THEN 1 ELSE 0

(* The listener never believes in a block the chain does not have, and the *)
(* query under way is never empty.                                         *)
NeverAhead ==
  /\ last_block <= head
  /\ task = "logs" => last_block # NoBlock /\ last_block < asked /\ asked <= head

(* Within one process _last_block never goes back, whatever the nodes say. *)
NeverBack == [][lives' = lives => last_block' >= last_block]_vars

(* An error the status shows stays until the listener has moved on or is   *)
(* started anew: polls that find nothing new do not hide it.               *)
ErrorStays ==
  [][error /\ ~error' => last_block' > last_block \/ lives' # lives]_vars

(* A block mined while the listener polls is covered sooner or later.      *)
CatchesUp ==
  \A b \in Blocks :
    (task \in Polling /\ base # NoBlock /\ base < b /\ b <= head)
      ~> (task \notin Polling \/ b <= last_block)

=============================================================================
