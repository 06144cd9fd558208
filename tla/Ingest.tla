-------------------------------- MODULE Ingest --------------------------------
(***************************************************************************)
(* main.py in realtime mode: what connects the listeners to the cache, the *)
(* pusher and the recorders, over process restarts.                        *)
(*                                                                         *)
(* The lifespan starts the listeners one after the other, then the pusher, *)
(* asks the AlertProcessor for its progress and replays what the cache has *)
(* beyond it; on shutdown it stops the pusher, the recorders and then the  *)
(* listeners.  Poll tasks call _on_logs_received whenever the lifespan     *)
(* waits.  LogPusher is composed as it is.  The cache is what LogCache is  *)
(* proved to keep, the newest accepted logs; the recorders are the rows    *)
(* LogRecorder says they commit.                                           *)
(***************************************************************************)
EXTENDS LogPusher, SequencesExt

CONSTANTS
  ChainOrder,   (* config.chains in order, by chain_id                       *)
  KeyOf,        (* Log.unique_key, which does not name the chain             *)
  MaxSize,      (* CacheConfig.max_size                                      *)
  PageLimit,    (* 1000 in LogCache.query                                    *)
  Known,        (* the AlertProcessor's progress before all this, by chain   *)
  MaxLives      (* bound: processes started                                  *)

(* A log of an instance stands for its whole block, so that the order of   *)
(* blocks is the order (block_number, log_index).                          *)
ASSUME IngestAssumption ==
  /\ ToSet(ChainOrder) = ChainIds
  /\ \A l, m \in Logs : ChainOf[l] = ChainOf[m] /\ BlockOf[l] = BlockOf[m] => l = m
  /\ \A l \in Logs : BlockOf[l] > 0
  /\ DOMAIN KeyOf = Logs
  /\ MaxSize \in Nat \ {0}
  /\ PageLimit \in Nat \ {0}
  /\ Known \in [ChainIds -> Nat]
  /\ MaxLives \in Nat

VARIABLES
  (* The program. *)
  listening,    (* the chains whose poll task runs                           *)
  recording,    (* whether _recorders holds the recorders                    *)
  cache,        (* the deque of the LogCache                                 *)
  due,          (* calls of on_new_logs scheduled and not begun, in order    *)
  gap,          (* _check_and_replay_gaps                                    *)
  (* The database. *)
  rows,         (* the logs recorded                                         *)
  (* History. *)
  arrived,      (* the logs _on_logs_received was called with                *)
  earlier,      (* those of earlier processes                                *)
  missed,       (* the logs of blocks mined while no process polled          *)
  late,         (* those on_new_logs sees after the last flush of stop()     *)
  raised,       (* those whose recorder raised                               *)
  replays,      (* how often the AlertProcessor was replayed each log        *)
  lives         (* processes started                                         *)

ivars == <<listening, recording, cache, due, gap, rows,
           arrived, earlier, missed, late, raised, replays, lives>>

NotBegun == [phase |-> "off"]
Checked  == [phase |-> "done"]

DueLogs == UNION ToSet(due)

-----------------------------------------------------------------------------
(* The callback. *)

(* The logs of one call, in the order of their blocks. *)
InBlockOrder(S) ==
  {order \in [1..Cardinality(S) -> S] :
     \A i, j \in DOMAIN order : i < j => BlockOf[order[i]] < BlockOf[order[j]]}

(* LogCache.add *)
AddLog(s, l) ==
  IF \E i \in DOMAIN s : KeyOf[s[i]] = KeyOf[l]
  THEN s
  ELSE Append(IF Len(s) = MaxSize THEN Tail(s) ELSE s, l)

(* LogCache.add_many *)
AddMany(s, order) ==
  LET added[n \in 0..Len(order)] ==
        IF n = 0 THEN s ELSE AddLog(added[n - 1], order[n])
  IN  added[Len(order)]

(* Whether a log may still go to the AlertProcessor with the last flush. *)
AfterLastFlush == lifecycle \in {"flushing", "stopped"}

ArriveRecordAddedFault(S, written) ==
  /\ ChainOf[CHOOSE l \in S : TRUE] \in listening
  /\ Deliverable(S, arrived \cup missed)
  /\ written \/ recording
  /\ \E order \in InBlockOrder(S) : cache' = AddMany(cache, order)
  /\ due' = Append(due, S)
  /\ rows' = IF recording /\ written THEN rows \cup (S \cap ToSet(cache')) ELSE rows
  /\ arrived' = arrived \cup S
  /\ late' = IF AfterLastFlush THEN late \cup S ELSE late
  /\ raised' = IF written THEN raised ELSE raised \cup S
  /\ UNCHANGED <<listening, recording, gap, earlier, missed, replays, lives>>

(* _on_logs_received: the logs go into the cache, a call of on_new_logs is *)
(* scheduled, and the recorder of the chain, if there still is one, writes *)
(* them or raises.  Nothing awaits.                                        *)
Arrive(S, written) ==
  /\ ChainOf[CHOOSE l \in S : TRUE] \in listening
  /\ Deliverable(S, arrived \cup missed)
  /\ written \/ recording
  /\ \E order \in InBlockOrder(S) : cache' = AddMany(cache, order)
  /\ due' = Append(due, S)
  /\ rows' = IF recording /\ written THEN rows \cup S ELSE rows
  /\ arrived' = arrived \cup S
  /\ late' = IF AfterLastFlush THEN late \cup S ELSE late
  /\ raised' = IF written THEN raised ELSE raised \cup S
  /\ UNCHANGED <<listening, recording, gap, earlier, missed, replays, lives>>

(* The event loop begins the on_new_logs scheduled first. *)
PushNext(t) ==
  /\ due # <<>>
  /\ OnNewLogs(t, Head(due))
  /\ due' = Tail(due)
  /\ UNCHANGED <<listening, recording, cache, gap, rows,
                 arrived, earlier, missed, late, raised, replays, lives>>

-----------------------------------------------------------------------------
(* The gap check. *)

(* What GET /ingest/status says of a chain: consumed_blocks, 0 for none. *)
Consumed(c) ==
  Max({Known[c]} \cup {BlockOf[l] : l \in {m \in Logs : ChainOf[m] = c /\ ingests[m] + replays[m] > 0}})

GapFault(c, last) ==
  LET newer == {l \in ToSet(cache) : ChainOf[l] = c /\ BlockOf[l] > last}
  IN  {l \in newer : Cardinality({m \in newer : BlockOf[m] < BlockOf[l]}) < PageLimit}

(* The first page of LogCache.query from the block after last, newest      *)
(* first: page_size=10000 is cut to PageLimit.                             *)
Gap(c, last) ==
  LET newer == {l \in ToSet(cache) : ChainOf[l] = c /\ BlockOf[l] > last}
  IN  {l \in newer : Cardinality({m \in newer : BlockOf[m] > BlockOf[l]}) < PageLimit}

GoOnFault(todo, last, clean) ==
  \/ todo = {} /\ gap' = Checked
  \/ \E c \in todo :
       /\ Gap(c, last[c]) # {}
       /\ gap' = [phase |-> "post", chain |-> c, logs |-> Gap(c, last[c]),
                  todo |-> todo \ {c}, last |-> last, clean |-> clean]

(* The loop over consumed_blocks goes on to the next chain the cache has   *)
(* newer logs of and posts them; chains without are passed over.  last is  *)
(* what the status said; clean: each request so far was taken in.          *)
GoOn(todo, last, clean) ==
  \/ /\ \A c \in todo : Gap(c, last[c]) = {}
     /\ gap' = Checked
  \/ \E c \in todo : \E quiet \in SUBSET {q \in todo : Gap(q, last[q]) = {}} :
       /\ Gap(c, last[c]) # {}
       /\ gap' = [phase |-> "post", chain |-> c, logs |-> Gap(c, last[c]),
                  todo |-> todo \ ({c} \cup quiet), last |-> last, clean |-> clean]

(* check_reconnect_status gets a 200. *)
StatusKnown ==
  /\ gap.phase = "status"
  /\ LET last == [c \in ChainIds |-> Consumed(c)]
     IN  GoOn({c \in ChainIds : last[c] > 0}, last, TRUE)
  /\ UNCHANGED replays

(* Another status or an exception: None, and the check is skipped. *)
StatusUnknown ==
  /\ gap.phase = "status"
  /\ gap' = Checked
  /\ UNCHANGED replays

(* The AlertProcessor takes the replay in. *)
ReplayTaken ==
  /\ gap.phase = "post"
  /\ gap' = [gap EXCEPT !.phase = "taken"]
  /\ replays' = [l \in Logs |-> replays[l] + (IF l \in gap.logs THEN 1 ELSE 0)]

(* 200 or 202. *)
ReplayAccepted ==
  /\ gap.phase = "taken"
  /\ GoOn(gap.todo, gap.last, gap.clean)
  /\ UNCHANGED replays

ReplayFailsFault ==
  /\ gap.phase \in {"post", "taken"}
  /\ \/ gap' = [gap EXCEPT !.phase = "post"]
     \/ GoOn(gap.todo, gap.last, FALSE)
  /\ UNCHANGED replays

(* Anything else, before or after the AlertProcessor took the replay in:   *)
(* send_replay makes one attempt and its result is not looked at.          *)
ReplayFails ==
  /\ gap.phase \in {"post", "taken"}
  /\ GoOn(gap.todo, gap.last, FALSE)
  /\ UNCHANGED replays

GapCheck ==
  /\ StatusKnown \/ StatusUnknown \/ ReplayTaken \/ ReplayAccepted \/ ReplayFails
  /\ UNCHANGED vars
  /\ UNCHANGED <<listening, recording, cache, due, rows,
                 arrived, earlier, missed, late, raised, lives>>

-----------------------------------------------------------------------------
(* The lifespan. *)

(* c is the first chain of the configuration that is not in S. *)
IsNext(c, S) ==
  \E i \in DOMAIN ChainOrder :
    ChainOrder[i] = c /\ c \notin S /\ \A j \in 1..(i - 1) : ChainOrder[j] \in S

(* await listener.start() for the next listener: its poll task begins. *)
StartListener(c) ==
  /\ lifecycle = "created"
  /\ IsNext(c, listening)
  /\ listening' = listening \cup {c}
  /\ UNCHANGED vars
  /\ UNCHANGED <<recording, cache, due, gap, rows,
                 arrived, earlier, missed, late, raised, replays, lives>>

(* await _pusher.start(), and on to the request for the status. *)
StartPusher ==
  /\ listening = ChainIds
  /\ Start
  /\ gap' = [phase |-> "status"]
  /\ UNCHANGED <<listening, recording, cache, due, rows,
                 arrived, earlier, missed, late, raised, replays, lives>>

(* await _pusher.stop(), once the application has been serving. *)
StopPusher ==
  /\ gap = Checked
  /\ CancelPeriodic \/ FinalFlush \/ CloseSession
  /\ late' = IF lifecycle = "stopping" THEN late \cup DueLogs ELSE late
  /\ UNCHANGED <<listening, recording, cache, due, gap, rows,
                 arrived, earlier, missed, raised, replays, lives>>

(* rec.close() for each recorder, _recorders.clear(). *)
CloseRecorders ==
  /\ lifecycle = "stopped"
  /\ recording
  /\ recording' = FALSE
  /\ UNCHANGED vars
  /\ UNCHANGED <<listening, cache, due, gap, rows,
                 arrived, earlier, missed, late, raised, replays, lives>>

(* await listener.stop() for the next listener: its poll task is gone. *)
StopListener(c) ==
  /\ lifecycle = "stopped"
  /\ ~recording
  /\ IsNext(c, ChainIds \ listening)
  /\ listening' = listening \ {c}
  /\ UNCHANGED vars
  /\ UNCHANGED <<recording, cache, due, gap, rows,
                 arrived, earlier, missed, late, raised, replays, lives>>

(* The lifespan has returned.  What was scheduled has begun by then: each  *)
(* stop() awaits its poll task, and the event loop is first in, first out. *)
Return ==
  /\ ~recording
  /\ listening = {}
  /\ due = <<>>
  /\ Exit
  /\ UNCHANGED ivars

(* What a process keeps in memory is as new. *)
Forget ==
  /\ session' = "none"
  /\ buffer' = {}
  /\ flush' = [t \in Tasks |-> Idle]
  /\ lastPushed' = [c \in ChainIds |-> 0]
  /\ stats' = [f \in DOMAIN stats |-> 0]
  /\ listening' = {}
  /\ cache' = <<>>
  /\ due' = <<>>
  /\ gap' = NotBegun

(* The process dies, and with it the calls of on_new_logs that were due. *)
Crash ==
  /\ lifecycle # "exited"
  /\ lifecycle' = "exited"
  /\ Forget
  /\ handed' = handed \cup DueLogs
  /\ outcome' = [outcome EXCEPT !["lost"] = @ \cup (handed' \ Settled)]
  /\ recording' = FALSE
  /\ UNCHANGED <<ingests, rows, arrived, earlier, missed, late, raised, replays, lives>>

(* The next process: only the database and the AlertProcessor remember.    *)
(* Its listeners begin at the head of their chains, past the logs of S.    *)
Restart(S) ==
  /\ lifecycle = "exited"
  /\ lives < MaxLives
  /\ \A c \in {ChainOf[l] : l \in S} :
       Deliverable({l \in S : ChainOf[l] = c}, arrived \cup missed)
  /\ lives' = lives + 1
  /\ lifecycle' = "created"
  /\ Forget
  /\ outcome' = [outcome EXCEPT !["lost"] = @ \cup buffer]
  /\ recording' = TRUE
  /\ earlier' = arrived
  /\ missed' = missed \cup S
  /\ late' = {}
  /\ UNCHANGED <<handed, ingests, rows, arrived, raised, replays>>

-----------------------------------------------------------------------------
IInit ==
  /\ Init
  /\ listening = {}
  /\ recording = TRUE
  /\ cache = <<>>
  /\ due = <<>>
  /\ gap = NotBegun
  /\ rows = {}
  /\ arrived = {} /\ earlier = {} /\ missed = {} /\ late = {} /\ raised = {}
  /\ replays = [l \in Logs |-> 0]
  /\ lives = 1

(* The pusher's own tasks. *)
PusherStep ==
  /\ PeriodicFlush \/ \E t \in Tasks : Progress(t)
  /\ UNCHANGED ivars

INext ==
  \/ \E S \in SUBSET (Logs \ (arrived \cup missed)), written \in BOOLEAN :
       S # {} /\ Arrive(S, written) /\ UNCHANGED vars
  \/ \E t \in Handlers : PushNext(t)
  \/ PusherStep
  \/ GapCheck
  \/ \E c \in ChainIds : StartListener(c) \/ StopListener(c)
  \/ StartPusher
  \/ StopPusher
  \/ CloseRecorders
  \/ Return
  \/ Crash
  \/ \E S \in SUBSET (Logs \ (arrived \cup missed)) : Restart(S)

ISpec == IInit /\ [][INext]_<<vars, ivars>>

(* The requests of the startup are answered or time out. *)
IFairness ==
  /\ WF_<<vars, ivars>>(\E c \in ChainIds : StartListener(c))
  /\ WF_<<vars, ivars>>(StartPusher)
  /\ WF_<<vars, ivars>>(GapCheck)

FairISpec == ISpec /\ IFairness
-----------------------------------------------------------------------------
(* Properties. *)

(* The logs this process has received. *)
Fresh == arrived \ earlier

(* The pusher gets each log once, whatever the other two do with it. *)
PusherGetsAll ==
  /\ arrived = handed \cup DueLogs
  /\ handed \cap DueLogs = {}
  /\ \A i, j \in DOMAIN due : i # j => due[i] \cap due[j] = {}

(* The recorders lack what their own write raised on and, once they are    *)
(* closed, what came after the last flush of stop(); not what the cache    *)
(* has refused or the pusher dropped.                                      *)
RecordersGetAll ==
  Fresh \ (raised \cup (IF recording THEN {} ELSE late)) \subseteq rows

(* The cache lacks a log when another has its key or when it is too small; *)
(* not when the log could not be recorded or pushed.                       *)
CacheGetsAll ==
  lifecycle # "exited" =>
    \A l \in Fresh \ ToSet(cache) : \/ Cardinality(Fresh) > MaxSize
                                   \/ \E m \in Fresh \ {l} : KeyOf[m] = KeyOf[l]

(* _on_logs_received feeds three stores, and none costs another a log: a   *)
(* clash of unique_key between two chains, an eviction, a full disk, the   *)
(* order of the shutdown or whatever becomes of a log in the pusher stays  *)
(* within its own store.                                                   *)
SinksAreIndependent == PusherGetsAll /\ RecordersGetAll /\ CacheGetsAll

(* When the lifespan returns, the pusher has settled every log that it was *)
(* given before the last flush of stop(), although the listeners outlive   *)
(* it: only a log that came later can stay in its buffer for good.         *)
OnlyLateLogsAreLeft ==
  lifecycle = "exited" => arrived \ (earlier \cup late) \subseteq Settled

(* The push path and the gap check do not know of each other, so a log can *)
(* be sent by both; but never more often than the retries of its push and  *)
(* one replay, over all processes.                                         *)
DeliveriesAreBounded ==
  \A l \in Logs : ingests[l] + replays[l] <= RetryAttempts + 1

(* What a replay leaves out of the logs its process has received beyond    *)
(* the AlertProcessor's progress is older than all it sends, or the cache  *)
(* had lost it already: more than max_size logs came in, or another log    *)
(* has its unique_key.                                                     *)
ReplaySendsTheNewest ==
  [][gap'.phase = "post" /\ gap' # gap =>
       \A l \in arrived \ (earlier \cup gap'.logs) :
         /\ ChainOf[l] = gap'.chain
         /\ BlockOf[l] > gap'.last[gap'.chain]
         => \/ \A m \in gap'.logs : BlockOf[l] < BlockOf[m]
            \/ Cardinality(arrived \ earlier) > MaxSize
            \/ \E m \in arrived \ {l} : KeyOf[m] = KeyOf[l]]_<<vars, ivars>>

(* A process that starts gets to serve or dies: the startup waits for the  *)
(* status and for each replay, but for none of them for ever.              *)
StartupEnds == lifecycle = "created" ~> (gap = Checked \/ lifecycle = "exited")

-----------------------------------------------------------------------------
(* main.py:256, "Check AlertProcessor status on startup; replay any        *)
(* gaps.": after a gap check whose requests all went well the              *)
(* AlertProcessor has been given each log beyond the progress it had       *)
(* reported that is older than the process.                                *)
GapIsFilled ==
  [][ReplayAccepted /\ gap.clean /\ gap' = Checked =>
       \A l \in earlier \cup missed :
         gap.last[ChainOf[l]] > 0 /\ BlockOf[l] > gap.last[ChainOf[l]]
           => ingests[l] + replays[l] > 0]_<<vars, ivars>>
=============================================================================
