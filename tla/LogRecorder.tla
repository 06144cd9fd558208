----------------------------- MODULE LogRecorder -----------------------------
(***************************************************************************)
(* db_recorder.py: the LogDbRecorders of all chains, which share one       *)
(* SQLite database, over process restarts.                                 *)
(*                                                                         *)
(* The database (rows, sessions) survives a crash, a recorder's fields do  *)
(* not.  A transaction is one step.  Nothing in write() or close() awaits, *)
(* so a call is one step too, and either commits or rolls back.            *)
(***************************************************************************)
EXTENDS Integers, Sequences, FiniteSets, FiniteSetsExt

CONSTANTS
  Chains,      (* the configured chains                                      *)
  Logs,        (* the logs there are, as records: chain, block, index        *)
  MaxSessions  (* bound: recorders opened                                    *)

ASSUME RecorderAssumption ==
  /\ Logs \subseteq [chain : Chains, block : Nat, index : Nat]
  /\ IsFiniteSet(Logs)
  /\ MaxSessions \in Nat

NoBlock == -1

VARIABLES
  (* The database. *)
  rows,     (* the logs table: UNIQUE makes it a set of logs                 *)
  sessions, (* the recording_sessions table, by id                           *)
  (* The process. *)
  recs      (* _recorders: the fields of each chain's recorder, if there is one *)

rvars == <<rows, sessions, recs>>

NoRecorder == [session |-> 0, from |-> NoBlock, to |-> NoBlock, total |-> 0]

Opened(c) == recs[c].session # 0
Serving   == \A c \in Chains : Opened(c)
Down      == \A c \in Chains : ~Opened(c)

LogsOf(c)    == {l \in Logs : l.chain = c}
BlocksOf(ls) == {l.block : l \in ls}

-----------------------------------------------------------------------------
(* The row _UPDATE_SESSION leaves for recorder r of chain c. *)
SessionRow(c, r, closed) ==
  [chain |-> c, from |-> r.from, to |-> r.to, total |-> r.total, closed |-> closed]

(* LogDbRecorder.__init__: a new session, closed_at NULL. *)
Open(c) ==
  /\ ~Opened(c)
  /\ Len(sessions) < MaxSessions
  /\ recs' = [recs EXCEPT ![c] = [NoRecorder EXCEPT !.session = Len(sessions) + 1]]
  /\ sessions' = Append(sessions, SessionRow(c, NoRecorder, FALSE))
  /\ UNCHANGED rows

WidenedFault(r, batch) ==
  IF r.from = NoBlock
  THEN [r EXCEPT !.from = Min(BlocksOf(batch)), !.to = Max(BlocksOf(batch))]
  ELSE [r EXCEPT !.to = Max(BlocksOf(batch) \cup {r.to})]

(* The range is widened in memory before the transaction begins. *)
Widened(r, batch) ==
  [r EXCEPT !.from = Min(BlocksOf(batch) \cup ({r.from} \ {NoBlock})),
            !.to   = Max(BlocksOf(batch) \cup {r.to})]

Counted(r, batch) == [Widened(r, batch) EXCEPT !.total = @ + Cardinality(batch)]

CommitFault(c, batch) ==
  /\ rows' = rows \cup batch
  /\ recs' = [recs EXCEPT ![c] = Counted(@, batch)]
  /\ sessions' = [sessions EXCEPT ![recs[c].session] = SessionRow(c, Widened(recs[c], batch), FALSE)]

(* The transaction: logs the table has are ignored but counted. *)
Commit(c, batch) ==
  /\ rows' = rows \cup batch
  /\ recs' = [recs EXCEPT ![c] = Counted(@, batch)]
  /\ sessions' = [sessions EXCEPT ![recs[c].session] = SessionRow(c, recs'[c], FALSE)]

RollbackFault(c, batch) ==
  /\ recs' = [recs EXCEPT ![c] = Counted(@, batch)]
  /\ UNCHANGED <<rows, sessions>>

(* sqlite3.Error: the database is as before, the range in memory is not,   *)
(* and write() raises.                                                     *)
Rollback(c, batch) ==
  /\ recs' = [recs EXCEPT ![c] = Widened(@, batch)]
  /\ UNCHANGED <<rows, sessions>>

(* write() *)
Write(c, batch) ==
  /\ Opened(c)
  /\ batch # {}
  /\ Commit(c, batch) \/ Rollback(c, batch)

ShutdownFault ==
  /\ Serving
  /\ \E saved \in SUBSET Chains :
       sessions' = [i \in DOMAIN sessions |->
                      IF \E c \in saved : recs[c].session = i
                      THEN SessionRow(sessions[i].chain, recs[sessions[i].chain], TRUE)
                      ELSE sessions[i]]
  /\ UNCHANGED <<rows, recs>>

(* The lifespan closes all recorders and forgets them, without an await.   *)
(* A failure to save a session on close is only logged; a crash half-way   *)
(* leaves the same database.                                               *)
Shutdown ==
  /\ Serving
  /\ \E saved \in SUBSET Chains :
       sessions' = [i \in DOMAIN sessions |->
                      IF \E c \in saved : recs[c].session = i
                      THEN SessionRow(sessions[i].chain, recs[sessions[i].chain], TRUE)
                      ELSE sessions[i]]
  /\ recs' = [c \in Chains |-> NoRecorder]
  /\ UNCHANGED rows

(* The process ends at any time, or fails to start. *)
Crash ==
  /\ ~Down
  /\ recs' = [c \in Chains |-> NoRecorder]
  /\ UNCHANGED <<rows, sessions>>

RInit ==
  /\ rows = {}
  /\ sessions = <<>>
  /\ recs = [c \in Chains |-> NoRecorder]

RNext ==
  \/ \E c \in Chains : Open(c)
  \/ \E c \in Chains : \E batch \in SUBSET LogsOf(c) : Serving /\ Write(c, batch)
  \/ Shutdown
  \/ Crash

RSpec == RInit /\ [][RNext]_rvars

-----------------------------------------------------------------------------
SessionRows ==
  [chain : Chains, from : Nat \cup {NoBlock}, to : Nat \cup {NoBlock}, total : Nat, closed : BOOLEAN]

(* Types of the database and of the recorders; a recorder's session exists. *)
RTypeOK ==
  /\ rows \subseteq Logs
  /\ sessions \in Seq(SessionRows)
  /\ recs \in [Chains -> [session : 0..Len(sessions), from : Nat \cup {NoBlock},
                          to : Nat \cup {NoBlock}, total : Nat]]

(* Every recorded log lies in the range some session of its chain shows:   *)
(* whatever failed, crashed or was recorded twice, a reader that goes by   *)
(* the sessions finds every row.                                           *)
RowsInRange ==
  \A l \in rows : \E i \in DOMAIN sessions :
    /\ sessions[i].chain = l.chain
    /\ sessions[i].from <= l.block
    /\ l.block <= sessions[i].to

(* What the sessions of chain c say they counted, each log under the       *)
(* session and its number there.                                           *)
CountedBy(c) ==
  UNION {{i} \X (1..sessions[i].total) : i \in {j \in DOMAIN sessions : sessions[j].chain = c}}

(* The totals of a chain's sessions account for all its rows, and a        *)
(* session has a range exactly if it has counted something.                *)
TotalsCover ==
  /\ \A c \in Chains : Cardinality(rows \cap LogsOf(c)) <= Cardinality(CountedBy(c))
  /\ \A i \in DOMAIN sessions : ~sessions[i].closed =>
       (sessions[i].total = 0 <=> sessions[i].from = NoBlock)

(* A live recorder has an open session of its own; failed writes leave the *)
(* total in memory and in the database equal, and the range in memory at   *)
(* least as wide.                                                          *)
MemoryAgrees ==
  \A c \in Chains : Opened(c) =>
    LET s == sessions[recs[c].session]
    IN  /\ s.chain = c /\ ~s.closed
        /\ s.total = recs[c].total
        /\ s.from # NoBlock => recs[c].from <= s.from /\ s.to <= recs[c].to

(* A session is never taken back: its range and total only grow, and once  *)
(* closed it stays as it is, although write() sets closed_at to NULL.      *)
SessionsOnlyGrow ==
  [][\A i \in DOMAIN sessions :
       /\ i \in DOMAIN sessions'
       /\ sessions[i].closed => sessions'[i] = sessions[i]
       /\ sessions[i].total <= sessions'[i].total
       /\ sessions[i].to <= sessions'[i].to
       /\ sessions[i].from # NoBlock => sessions'[i].from <= sessions[i].from]_rvars
=============================================================================
