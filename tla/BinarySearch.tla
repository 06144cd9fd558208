----------------------------- MODULE BinarySearch -----------------------------
(***************************************************************************)
(* rpc/binary_search.py: one query_logs(First, Last) with its retries and  *)
(* its recursive halving of ranges the node finds too large.               *)
(*                                                                         *)
(* Every call of _query_with_retry is a coroutine of its own; both halves  *)
(* of a range run concurrently under asyncio.gather.  gather hands the     *)
(* first error to the caller and lets the other half go on, so a retry may *)
(* run beside what is left of the attempt before it.                       *)
(*                                                                         *)
(* A call is named by its path from query_logs: one step per level, made   *)
(* of the failed attempts of the caller when it split, and the side.  A    *)
(* list of logs is represented by the list of blocks it covers.            *)
(***************************************************************************)
EXTENDS EvmRpcPool, Sequences, FiniteSets

CONSTANTS
  First, Last,  (* the range query_logs is called with                       *)
  MaxRetries,   (* max_retries, 3 in the code                                *)
  Oversized,    (* blocks with too many logs for any query                   *)
  Answers,      (* what may come back of a request                           *)
  MaxTroubles   (* bound: failed attempts and exhausted calls, all in all    *)

ASSUME SearchAssumption ==
  /\ First \in Nat
  /\ Last \in Nat
  /\ First <= Last
  /\ MaxRetries \in Nat \ {0}
  /\ Oversized \subseteq First..Last
  /\ Answers \subseteq AnswerType
  /\ MaxTroubles \in Nat

VARIABLE calls
  (* The calls made so far: a function from paths to                         *)
  (* [from, to : the range,  failures : attempts that have failed,           *)
  (*  phase : where it is or how it ended,  logs : what it returned].        *)

Root    == <<>>
Running == {"asking", "split", "backoff"}
Raised  == {"failed", "exhausted"}

-----------------------------------------------------------------------------
Mid(f, t) == (f + t) \div 2

(* All logs of a range, in order. *)
Blocks(f, t) == [i \in 1..(t - f + 1) |-> f + i - 1]

Call(f, t) == [from |-> f, to |-> t, failures |-> 0, phase |-> "asking", logs |-> <<>>]

(* The halves of the attempt under way. *)
Half(id, side) == Append(id, <<calls[id].failures, side>>)
Left(id)  == Half(id, "left")
Right(id) == Half(id, "right")

Returns(id, logs) == [calls EXCEPT ![id].phase = "returned", ![id].logs = logs]

(* An attempt fails in a way that is retried after a delay, if any attempt *)
(* is left.                                                                *)
AttemptFailsFault(id) ==
  [calls EXCEPT ![id].phase = IF calls[id].failures < MaxRetries THEN "backoff" ELSE "failed",
                ![id].failures = @ + 1]

AttemptFailsForeverFault(id) ==
  [calls EXCEPT ![id].phase = IF calls[id].failures + 1 < MaxRetries THEN "backoff" ELSE "failed"]

AttemptFails(id) ==
  [calls EXCEPT ![id].phase = IF calls[id].failures + 1 < MaxRetries THEN "backoff" ELSE "failed",
                ![id].failures = @ + 1]

(* What MaxTroubles bounds. *)
Troubles ==
  Cardinality(UNION {{id} \X (1..calls[id].failures) : id \in DOMAIN calls})
    + Cardinality({id \in DOMAIN calls : calls[id].phase = "exhausted"})

(* The logs an answer lists; a node may not have all blocks yet.           *)
Listed(a, f, t) ==
  IF a.kind = "list" THEN Blocks(f, IF a.height < t THEN a.height ELSE t) ELSE <<>>

(* What a node may answer for a range: it cannot list the logs of an       *)
(* oversized block, and may find any range of several blocks too large.    *)
AnswersFor(f, t) ==
  {a \in Answers : /\ \A i \in DOMAIN Listed(a, f, t) : Listed(a, f, t)[i] \notin Oversized
                   /\ a.large => f < t \/ f \in Oversized}

(* The answers get_logs returns or raises so for the range of a call. *)
Ending(c, how) == {a \in AnswersFor(c.from, c.to) : get_logs(a) = how}

-----------------------------------------------------------------------------
(* get_logs returns and all its logs can be converted. *)
GotLogs(id) ==
  LET c == calls[id]
  IN  /\ c.phase = "asking"
      /\ \E a \in Ending(c, "returned") :
           /\ Convertible(a)
           /\ calls' = Returns(id, Listed(a, c.from, c.to))

(* A single block is over the limit: its logs are given up. *)
GiveUp(id) ==
  LET c == calls[id]
  IN  /\ c.phase = "asking"
      /\ c.from = c.to
      /\ Ending(c, "LogLimitExceededError") # {}
      /\ calls' = Returns(id, <<>>)

(* A range is over the limit: both halves are asked for. *)
Split(id) ==
  LET c == calls[id]
      m == Mid(c.from, c.to)
  IN  /\ c.phase = "asking"
      /\ c.from # c.to
      /\ Ending(c, "LogLimitExceededError") # {}
      /\ calls' = [x \in DOMAIN calls \cup {Left(id), Right(id)} |->
                     CASE x = Left(id)  -> Call(c.from, m)
                       [] x = Right(id) -> Call(m + 1, c.to)
                       [] x = id        -> [c EXCEPT !.phase = "split"]
                       [] OTHER         -> calls[x]]

(* What get_logs raises that is retried. *)
Transient == {"RpcRateLimitError", "RpcTimeoutError", "InvalidResponseError"}

(* get_logs raises one of them, or a log cannot be converted. *)
AskFails(id) ==
  LET c == calls[id]
  IN  /\ c.phase = "asking"
      /\ \/ \E how \in Transient : Ending(c, how) # {}
         \/ \E a \in Ending(c, "returned") : ~Convertible(a)
      /\ Troubles < MaxTroubles
      /\ calls' = AttemptFails(id)

(* All nodes have failed: this is not retried here. *)
NodesExhausted(id) ==
  LET c == calls[id]
  IN  /\ c.phase = "asking"
      /\ Ending(c, "AllNodesFailedError") # {}
      /\ Troubles < MaxTroubles
      /\ calls' = [calls EXCEPT ![id].phase = "exhausted"]

JoinSwappedFault(id) ==
  /\ calls[id].phase = "split"
  /\ calls[Left(id)].phase = "returned"
  /\ calls[Right(id)].phase = "returned"
  /\ calls' = Returns(id, calls[Right(id)].logs \o calls[Left(id)].logs)

(* Both halves have returned. *)
Join(id) ==
  /\ calls[id].phase = "split"
  /\ calls[Left(id)].phase = "returned"
  /\ calls[Right(id)].phase = "returned"
  /\ calls' = Returns(id, calls[Left(id)].logs \o calls[Right(id)].logs)

(* A half has raised; the whole range is retried or given up.              *)
JoinFails(id) ==
  /\ calls[id].phase = "split"
  /\ \E half \in {Left(id), Right(id)} :
       \/ /\ calls[half].phase = "exhausted"
          /\ calls' = [calls EXCEPT ![id].phase = "exhausted"]
       \/ /\ calls[half].phase = "failed"
          /\ calls' = AttemptFails(id)

(* The delay before the next attempt is over. *)
Retry(id) ==
  /\ calls[id].phase = "backoff"
  /\ calls' = [calls EXCEPT ![id].phase = "asking"]

AttachedFault(id) == id = Root

(* A call the root is still waiting for, directly or not. *)
Attached(id) ==
  \A n \in 1..Len(id) :
    LET caller == calls[SubSeq(id, 1, n - 1)]
    IN  caller.phase = "split" /\ caller.failures = id[n][1]

(* ChainListener.stop() cancels its task while it waits for query_logs;    *)
(* the cancellation goes down to what is waited for, and no further.       *)
Cancel ==
  /\ calls[Root].phase \in Running
  /\ calls' = [id \in DOMAIN calls |->
                 IF calls[id].phase \in Running /\ Attached(id)
                 THEN [calls[id] EXCEPT !.phase = "cancelled"]
                 ELSE calls[id]]

Init == calls = [id \in {Root} |-> Call(First, Last)]

Next ==
  \/ \E id \in DOMAIN calls :
       \/ GotLogs(id)
       \/ GiveUp(id)
       \/ Split(id)
       \/ AskFails(id)
       \/ NodesExhausted(id)
       \/ Join(id)
       \/ JoinFails(id)
       \/ Retry(id)
  \/ Cancel

Spec == Init /\ [][Next]_calls

(* Requests time out, sleeps end and the event loop resumes what is ready. *)
FairSpec == Spec /\ WF_calls(Next)

-----------------------------------------------------------------------------
(* The blocks a call returned without that did not come from halves of it. *)
Lacking ==
  UNION {(calls[id].from .. calls[id].to) \ {calls[id].logs[i] : i \in DOMAIN calls[id].logs} :
           id \in {k \in DOMAIN calls : calls[k].phase = "returned" /\ Left(k) \notin DOMAIN calls}}

(* What still runs when query_logs has ended, by an answer, an error or a  *)
(* cancellation, belongs to an attempt that failed.                        *)
OnlyFailedAttemptsOutlive ==
  calls[Root].phase \notin Running =>
    \A id \in DOMAIN calls :
      calls[id].phase \in Running =>
        \E n \in 1..Len(id) :
          LET caller == calls[SubSeq(id, 1, n - 1)]
          IN  caller.failures > id[n][1] \/ caller.phase \in Raised

(* How often get_logs was called in a call, and for a range. *)
Asked(c) == c.failures + (IF c.phase \in {"backoff", "failed"} THEN 0 ELSE 1)

Requests(f, t) ==
  UNION {{id} \X (1..Asked(calls[id])) :
           id \in {k \in DOMAIN calls : calls[k].from = f /\ calls[k].to = t}}

(* However the halves and their callers fail, a range that is reached by d *)
(* halvings is asked for at most as often as there are choices of d + 1    *)
(* attempts, MaxRetries ^ (d + 1).                                         *)
RequestsAreBounded ==
  \A id \in DOMAIN calls :
    Cardinality(Requests(calls[id].from, calls[id].to))
      <= Cardinality([0..Len(id) -> 1..MaxRetries])

(* Every call that was started ends, the abandoned ones included.          *)
EveryCallEnds == <>[](\A id \in DOMAIN calls : calls[id].phase \notin Running)

(* An answer that speaks of a limit although the range is not too large. *)
Misread(a) == get_logs(a) = "LogLimitExceededError" /\ ~a.large

(* The blocks some node may not list: those over the limit and those above *)
(* its height; all of them if an error is misread or a result is null.     *)
MayLack ==
  IF \E a \in Answers : Misread(a) \/ a.kind = "null"
  THEN First..Last
  ELSE Oversized \cup UNION {(a.height + 1)..Last : a \in {b \in Answers : b.kind = "list"}}

(* query_logs implements LogQuery: whatever is halved, retried, abandoned  *)
(* or cancelled, an answer is in order, has no block twice and lacks only  *)
(* blocks that a node did not list.                                        *)
Query == INSTANCE LogQuery WITH
  outcome   <- CASE calls[Root].phase \in Running  -> "pending"
                 [] calls[Root].phase = "returned" -> "answered"
                 [] OTHER                          -> calls[Root].phase,
  got       <- calls[Root].logs,
  lacking   <- Lacking

ImplementsLogQuery == Query!Spec

-----------------------------------------------------------------------------
(* requirements.md:75-76: "二分法 SHALL 确保不遗漏任何日志", halving loses no   *)
(* logs, a single block that is over the limit being the one exception.    *)
NothingMissed ==
  calls[Root].phase = "returned" =>
    (First..Last) \ Oversized \subseteq {calls[Root].logs[i] : i \in DOMAIN calls[Root].logs}
=============================================================================
