----------------------------- MODULE LogMigration -----------------------------
(***************************************************************************)
(* scripts/migrate_jsonl_to_sqlite.py: old recordings, files of JSON       *)
(* lines, are imported into the database of the recorders, which may be in *)
(* use.  The script may fail or be killed anywhere and be run again.       *)
(*                                                                         *)
(* SQLite has one writer: from BEGIN IMMEDIATE to its commit the script    *)
(* keeps the recorders out, and what they try meanwhile times out.         *)
(***************************************************************************)
EXTENDS LogRecorder

CONSTANTS
  Directories, (* what the input directory may hold: its sorted files, each  *)
               (* a sequence of lines                                        *)
  BatchSize,   (* --batch-size                                               *)
  MaxRuns,     (* bound: times the script is started; its sessions are not   *)
               (* bounded by MaxSessions, only the recorders' are            *)
  MaxTries     (* bound: writes the recorders try                            *)

(* A line holds a log; or no JSON; or a log with null in a column that is  *)
(* NOT NULL; or JSON that raises when it is converted.                     *)
Lines == [kind : {"log", "malformed", "null", "unusable"}, log : Logs]

ASSUME MigrationAssumption ==
  /\ Directories \subseteq Seq(Seq(Lines))
  /\ {BatchSize, MaxRuns, MaxTries} \subseteq Nat

VARIABLES
  script,  (* the script: its directory, where it is, the file, and how many *)
           (* of its lines are in committed batches                          *)
  runs,    (* times it was started                                           *)
  tries    (* writes the recorders have tried                                *)

mvars == <<rows, sessions, recs, script, runs, tries>>

NoRun == [phase |-> "idle", dir |-> <<>>, file |-> 0, flushed |-> 0]

(* The script is between BEGIN IMMEDIATE and commit or rollback. *)
Locked == script.phase = "importing"

-----------------------------------------------------------------------------
(* migrate_file *)

(* The lines of file after the first a, up to b, that become parameters of *)
(* an INSERT, and the logs these insert.                                   *)
Parsed(file, a, b) == {i \in (a + 1)..b : file[i].kind \in {"log", "null"}}
Inserted(file, a, b) == {file[i].log : i \in {k \in (a + 1)..b : file[k].kind = "log"}}

UnknownChain == "unknown"

(* The session of a file: blocks and count of what was parsed, the chain   *)
(* of the first such line.                                                 *)
SessionOf(file) ==
  LET parsed == Parsed(file, 0, Len(file))
      blocks == BlocksOf({file[i].log : i \in parsed})
  IN  IF parsed = {}
      THEN SessionRow(UnknownChain, NoRecorder, TRUE)
      ELSE [chain |-> file[Min(parsed)].log.chain, from |-> Min(blocks), to |-> Max(blocks),
            total |-> Cardinality(parsed), closed |-> TRUE]

File == script.dir[script.file]

(* The line that fills the next batch; beyond the file if none does. *)
FullAt ==
  LET full == {e \in Parsed(File, script.flushed, Len(File)) :
                 Cardinality(Parsed(File, script.flushed, e)) >= BatchSize}
  IN  IF full = {} THEN Len(File) + 1 ELSE Min(full)

(* Reading up to that line meets one that raises. *)
Raises ==
  \E i \in (script.flushed + 1)..Min({FullAt, Len(File)}) : File[i].kind = "unusable"

(* The script is started, on an input that exists and is not empty. *)
StartScript(dir) ==
  /\ script.phase \in {"idle", "ended", "failed"}
  /\ runs < MaxRuns
  /\ dir # <<>>
  /\ script' = [phase |-> "waiting", dir |-> dir, file |-> 1, flushed |-> 0]
  /\ runs' = runs + 1
  /\ UNCHANGED <<rows, sessions, recs, tries>>

(* BEGIN IMMEDIATE *)
TakeLock ==
  /\ script.phase = "waiting"
  /\ script' = [script EXCEPT !.phase = "importing"]
  /\ UNCHANGED <<rows, sessions, recs, runs, tries>>

FullBatchFault ==
  /\ Locked
  /\ ~Raises
  /\ FullAt <= Len(File)
  /\ rows' = rows \cup Inserted(File, script.flushed, FullAt - 1)
  /\ script' = [script EXCEPT !.phase = "waiting", !.flushed = FullAt]
  /\ UNCHANGED <<sessions, recs, runs, tries>>

FullBatchAgainFault ==
  /\ Locked
  /\ ~Raises
  /\ FullAt <= Len(File)
  /\ rows' = rows \cup Inserted(File, script.flushed, FullAt)
  /\ script' = [script EXCEPT !.phase = "waiting"]
  /\ UNCHANGED <<sessions, recs, runs, tries>>

(* A batch is full: it is committed and the lock is asked for again. *)
FullBatch ==
  /\ Locked
  /\ ~Raises
  /\ FullAt <= Len(File)
  /\ rows' = rows \cup Inserted(File, script.flushed, FullAt)
  /\ script' = [script EXCEPT !.phase = "waiting", !.flushed = FullAt]
  /\ UNCHANGED <<sessions, recs, runs, tries>>

(* The file has been read: the rest and the file's session are committed,  *)
(* and the next file is opened, if there is one.                           *)
FinishFile ==
  /\ Locked
  /\ ~Raises
  /\ FullAt > Len(File)
  /\ rows' = rows \cup Inserted(File, script.flushed, Len(File))
  /\ sessions' = Append(sessions, SessionOf(File))
  /\ script' = IF script.file < Len(script.dir)
               THEN [script EXCEPT !.phase = "waiting", !.file = @ + 1, !.flushed = 0]
               ELSE [script EXCEPT !.phase = "ended"]
  /\ UNCHANGED <<recs, runs, tries>>

(* A line raises, the lock does not come in 30 seconds, or the script is   *)
(* killed: the transaction is rolled back and the script ends there.       *)
GiveUp ==
  /\ script.phase \in {"waiting", "importing"}
  /\ script' = [script EXCEPT !.phase = "failed"]
  /\ UNCHANGED <<rows, sessions, recs, runs, tries>>

(* What the script does by itself. *)
Proceed == TakeLock \/ FullBatch \/ FinishFile \/ (Locked /\ Raises /\ GiveUp)

-----------------------------------------------------------------------------
(* The recorders; while the script holds the lock they change nothing.     *)
RecorderStep ==
  /\ Locked => UNCHANGED <<rows, sessions>>
  /\ \/ /\ (\E c \in Chains : Open(c)) \/ Shutdown \/ Crash
        /\ UNCHANGED tries
     \/ /\ tries < MaxTries
        /\ \E c \in Chains : \E batch \in SUBSET LogsOf(c) : Serving /\ Write(c, batch)
        /\ tries' = tries + 1
  /\ UNCHANGED <<script, runs>>

MInit == RInit /\ script = NoRun /\ runs = 0 /\ tries = 0

MNext ==
  \/ \E dir \in Directories : StartScript(dir)
  \/ Proceed
  \/ GiveUp
  \/ RecorderStep

MSpec == MInit /\ [][MNext]_mvars

(* A script that is not killed goes on. *)
FairMSpec == MSpec /\ WF_mvars(Proceed)

-----------------------------------------------------------------------------
LogsIn(dir) == UNION {Inserted(dir[i], 0, Len(dir[i])) : i \in DOMAIN dir}

(* The logs a session cannot show, because their file began with another   *)
(* chain's.                                                                *)
Strays(dir) ==
  UNION {{l \in Inserted(dir[i], 0, Len(dir[i])) : l.chain # SessionOf(dir[i]).chain} :
           i \in DOMAIN dir}

(* A script that says "Migration complete" has all logs of its files in    *)
(* the database, whatever became of earlier runs and whatever the          *)
(* recorders did in between; and those of its files' chains lie in the     *)
(* range of a session, where a reader of the sessions finds them.          *)
MigrationIsComplete ==
  script.phase = "ended" =>
    /\ LogsIn(script.dir) \subseteq rows
    /\ \A l \in LogsIn(script.dir) \ Strays(script.dir) : \E i \in DOMAIN sessions :
         /\ sessions[i].chain = l.chain
         /\ sessions[i].from <= l.block
         /\ l.block <= sessions[i].to

(* A run of the script ends, and with it the lock that keeps recorders out. *)
MigrationEnds == script.phase \in {"waiting", "importing"} ~> script.phase \in {"ended", "failed"}
=============================================================================
