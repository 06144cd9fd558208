--------------------------- MODULE LogReplayProofs ---------------------------
(***************************************************************************)
(* What holds of replays beside recorders, for chains, logs, requests,     *)
(* batch sizes and numbers of tasks of any size.                           *)
(***************************************************************************)
EXTENDS LogReplay, LogRecorderProofs

-----------------------------------------------------------------------------
(* The steps of the recorders are those of LogRecorder, whoever takes them. *)

(* What a replay feeds back into a recorder is a batch of its chain.       *)
LEMMA StoredIsOfChain ==
  ASSUME IInv, NEW c, NEW lo, NEW hi, Stored(c, lo, hi) # {}
  PROVE  c \in Chains /\ Stored(c, lo, hi) \in SUBSET LogsOf(c)
BY RecorderAssumption DEF Stored, IInv, RTypeOK, LogsOf

LEMMA ReplayStepMoves ==
  ASSUME IInv, [PNext]_pvars
  PROVE  [RecorderMoves]_rvars
<1>1. CASE \E i \in DOMAIN ChainOrder : OpenNext(i)
  <2>1. PICK i \in DOMAIN ChainOrder : OpenNext(i)
    BY <1>1
  <2>2. ChainOrder[i] \in Chains /\ Open(ChainOrder[i])
    BY <2>1, ReplayAssumption DEF OpenNext
  <2> QED
    BY <2>2 DEF RecorderMoves
<1>2. CASE \E c \in Chains : LogsArrive(c)
  BY <1>2 DEF LogsArrive, RecorderMoves
<1>3. ASSUME NEW j \in Jobs, StartReplay(j) \/ Begin(j) \/ ReadFails(j)
      PROVE  UNCHANGED rvars
  BY <1>3 DEF StartReplay, Begin, ReadFails, rvars
<1>4. ASSUME NEW j \in Jobs, ReplayBatch(j)
      PROVE  [RecorderMoves]_rvars
  <2> DEFINE c == jobs[j].chain
             batch == Stored(c, jobs[j].next, BatchEnd(j))
  <2>1. CASE batch # {} /\ Opened(c) /\ (Commit(c, batch) \/ Rollback(c, batch))
    <3>1. c \in Chains /\ batch \in SUBSET LogsOf(c)
      BY <2>1, StoredIsOfChain
    <3> QED
      BY <2>1, <3>1 DEF RecorderMoves, Write
  <2> QED
    BY <1>4, <2>1 DEF ReplayBatch
<1>5. CASE Close \/ Exit
  BY <1>5 DEF Close, Exit, RecorderMoves
<1>6. CASE UNCHANGED pvars
  BY <1>6 DEF pvars, rvars
<1> QED
  BY <1>1, <1>2, <1>3, <1>4, <1>5, <1>6 DEF PNext, Replay

LEMMA ReplayStepPreserves ==
  ASSUME IInv, [PNext]_pvars
  PROVE  IInv' /\ Grows /\ rows \subseteq rows'
BY ReplayStepMoves, MovePreserves

LEMMA ReplayStartsWell == PInit => IInv
BY InitEstablishes DEF PInit

-----------------------------------------------------------------------------
(* Replays.                                                                *)

JobType ==
  [status : {"idle", "pending", "replaying", "completed", "failed"},
   todo : Seq(Chains), from : Nat \cup {NoBlock}, to : Nat \cup {NoBlock}, size : Nat,
   chain : Chains \cup {NoBlock}, next : Nat, last : Nat,
   owed : SUBSET Logs, out : Seq(SUBSET Logs)]

(* Log l is in table R and asked for by the source that b is at.           *)
Wanted(b, R, l) == l \in R /\ l.chain = b.chain /\ b.from <= l.block /\ l.block <= b.last

HandedOver(b, l) == \E i \in DOMAIN b.out : l \in b.out[i]

InOrder(out) ==
  \A i, k \in DOMAIN out : i < k => \A l \in out[i], m \in out[k] : l.block < m.block

(* A task that runs has handed over nothing from next on, and one that has *)
(* completed has next beyond the last block.                               *)
Sound(b, R) ==
  /\ \A l \in b.owed : Wanted(b, R, l) /\ (l.block < b.next => HandedOver(b, l))
  /\ \A i \in DOMAIN b.out : \A l \in b.out[i] : Wanted(b, R, l)
  /\ InOrder(b.out)
  /\ b.status = "replaying" =>
       b.from <= b.next /\ b.next <= b.last /\ \A i \in DOMAIN b.out : \A l \in b.out[i] : l.block < b.next
  /\ b.status = "completed" => b.last < b.next

JInv ==
  /\ IInv
  /\ jobs \in [Jobs -> JobType]
  /\ \A j \in Jobs : Sound(jobs[j], rows)

(* Recording more takes nothing from a replay.                             *)
LEMMA SoundStays ==
  ASSUME NEW b, NEW R, NEW Q, R \subseteq Q, Sound(b, R)
  PROVE  Sound(b, Q)
BY DEF Sound, Wanted

LEMMA NoJobIsSound ==
  /\ NoJob \in JobType
  /\ Sound(NoJob, rows)
<1>1. NoJob \in JobType
  BY DEF NoJob, JobType
<1>2. Sound(NoJob, rows)
  BY DEF NoJob, Sound, InOrder
<1> QED
  BY <1>1, <1>2

(* The range of a source.                                                  *)
LEMMA RangeIsOfBlocks ==
  ASSUME IInv, NEW c \in Chains, NEW n \in Nat \cup {NoBlock}
  PROVE  Lowest(c, n) \in Nat /\ n <= Lowest(c, n) /\ Highest(c, n) \in Nat
<1> DEFINE S == BlocksOf(rows \cap LogsOf(c))
<1>1. rows \cap LogsOf(c) \in SUBSET Logs
  BY DEF LogsOf
<1>2. S \in SUBSET Nat /\ IsFiniteSet(S)
  BY <1>1, BlocksAreFinite
<1>3. CASE rows \cap LogsOf(c) = {}
  BY <1>3 DEF Lowest, Highest, NoBlock
<1>4. CASE rows \cap LogsOf(c) # {}
  <2>1. S # {} /\ S \in SUBSET Int
    BY <1>2, <1>4 DEF BlocksOf
  <2>2. Min(S) \in Nat /\ Max(S) \in Nat
    <3> HIDE DEF S
    <3> QED
      BY <1>2, <2>1, MinBounds, MaxBounds
  <2> QED
    BY <2>2 DEF Lowest, Highest, NoBlock
<1> QED
  BY <1>3, <1>4

(* A batch ends within the range and after it begins.                      *)
LEMMA BatchesAdvance ==
  ASSUME NEW j \in Jobs, jobs[j].next \in Nat, jobs[j].last \in Nat, jobs[j].size \in Nat,
         jobs[j].next <= jobs[j].last
  PROVE  BatchEnd(j) \in Nat /\ jobs[j].next <= BatchEnd(j) /\ BatchEnd(j) <= jobs[j].last
<1> DEFINE s == Step(jobs[j].size)
           e == jobs[j].next + s - 1
<1>1. IsFiniteSet({1, jobs[j].size}) /\ {1, jobs[j].size} \in SUBSET Int
  <2>1. IsFiniteSet({1}) /\ {1, jobs[j].size} = {1} \cup {jobs[j].size}
    BY FS_Singleton
  <2>2. IsFiniteSet({1} \cup {jobs[j].size})
    BY <2>1, FS_AddElement
  <2> QED
    BY <2>1, <2>2
<1>2. s \in Nat /\ s >= 1
  BY <1>1, MaxBounds DEF Step
<1> HIDE DEF s
<1>3. e \in Nat /\ jobs[j].next <= e
  BY <1>2
<1>4. BatchEnd(j) = Min({e, jobs[j].last})
  BY DEF BatchEnd, s
<1> HIDE DEF e
<1>5. Min({e, jobs[j].last}) \in {e, jobs[j].last}
      /\ \A y \in {e, jobs[j].last} : Min({e, jobs[j].last}) <= y
  BY <1>3, MinBounds
<1> QED
  BY <1>3, <1>4, <1>5

(* The record a task that begins a source is left with.                    *)
AtSource(b, todo, c, lo, hi, owed, out, status) ==
  [b EXCEPT !.todo = todo, !.chain = c, !.next = lo, !.last = hi,
            !.owed = owed, !.out = out, !.status = status]

LEMMA JobAtSource ==
  ASSUME NEW b \in JobType, NEW todo \in Seq(Chains), NEW c \in Chains,
         NEW lo \in Nat, NEW hi \in Nat, NEW owed \in SUBSET Logs, NEW out \in Seq(SUBSET Logs),
         NEW status \in {"replaying", "completed"}
  PROVE  LET d == AtSource(b, todo, c, lo, hi, owed, out, status)
         IN  /\ d \in JobType
             /\ d.chain = c /\ d.from = b.from /\ d.next = lo /\ d.last = hi
             /\ d.owed = owed /\ d.out = out /\ d.status = status
<1>1. AtSource(b, todo, c, lo, hi, owed, out, status) \in JobType
  BY DEF JobType, AtSource
<1> QED
  BY <1>1 DEF JobType, AtSource

(* A source that begins has all before it.                                 *)
LEMMA BeginKeepsSound ==
  ASSUME JInv, NEW j \in Jobs, Begin(j)
  PROVE  jobs' \in [Jobs -> JobType] /\ \A k \in Jobs : Sound(jobs'[k], rows')
<1> DEFINE b  == jobs[j]
           c  == Head(b.todo)
           lo == Lowest(c, b.from)
           hi == Highest(c, b.to)
           t  == Tail(b.todo)
           o  == Stored(c, lo, hi)
           p  == Progress(lo, hi)
           e  == <<>>
           d  == AtSource(b, t, c, lo, hi, o, e, p)
<1>1. b \in JobType /\ b.todo # <<>> /\ rows' = rows /\ jobs' = [jobs EXCEPT ![j] = d]
  BY DEF JInv, Begin, AtSource
<1>2. c \in Chains /\ t \in Seq(Chains)
      /\ b.from \in Nat \cup {NoBlock} /\ b.to \in Nat \cup {NoBlock}
  BY <1>1 DEF JobType
<1>3. lo \in Nat /\ b.from <= lo /\ hi \in Nat
  BY <1>2, RangeIsOfBlocks DEF JInv
<1>4. o \in SUBSET Logs /\ e \in Seq(SUBSET Logs)
  BY DEF Stored, JInv, IInv, RTypeOK
<1>5. p = (IF lo <= hi THEN "replaying" ELSE "completed")
  BY DEF Progress
<1>6. /\ d \in JobType
      /\ d.chain = c /\ d.from = b.from /\ d.next = lo /\ d.last = hi
      /\ d.owed = o /\ d.out = e /\ d.status = p
  <2>1. p \in {"replaying", "completed"}
    BY <1>5
  <2> HIDE DEF b, lo, hi, c, t, o, e, p
  <2> QED
    BY <1>1, <1>2, <1>3, <1>4, <2>1, JobAtSource
<1>7. \A l \in o : /\ l \in rows /\ l.chain = c /\ l.block \in Nat
                  /\ lo <= l.block /\ l.block <= hi
  BY RecorderAssumption DEF Stored, JInv, IInv, RTypeOK
<1> HIDE DEF d, lo, hi, c, t, o, p
<1>8. \A l \in d.owed : Wanted(d, rows, l) /\ ~(l.block < d.next)
  BY <1>2, <1>3, <1>6, <1>7 DEF Wanted, NoBlock
<1>9. Sound(d, rows)
  <2>1. InOrder(d.out) /\ \A i \in DOMAIN d.out : FALSE
    BY <1>6 DEF InOrder
  <2>2. d.status = "completed" => d.last < d.next
    BY <1>3, <1>5, <1>6
  <2>3. d.from <= d.next /\ (d.status = "replaying" => d.next <= d.last)
    BY <1>3, <1>5, <1>6
  <2> QED
    BY <1>8, <2>1, <2>2, <2>3 DEF Sound
<1> QED
  BY <1>1, <1>6, <1>9 DEF JInv

(* The batches handed over after the one at hand.                          *)
Batch(j) == Stored(jobs[j].chain, jobs[j].next, BatchEnd(j))

HandedWith(j) == IF Batch(j) = {} THEN jobs[j].out ELSE Append(jobs[j].out, Batch(j))

LEMMA BatchKeepsSound ==
  ASSUME JInv, NEW j \in Jobs, jobs[j].status = "replaying"
  PROVE  LET b   == jobs[j]
             out == HandedWith(j)
         IN  /\ out \in Seq(SUBSET Logs)
             /\ InOrder(out)
             /\ \A i \in DOMAIN out : \A l \in out[i] : Wanted(b, rows, l) /\ l.block < BatchEnd(j) + 1
             /\ \A l \in b.owed : l.block < BatchEnd(j) + 1 => \E i \in DOMAIN out : l \in out[i]
<1> DEFINE b == jobs[j]
           e == BatchEnd(j)
<1>1. b \in JobType /\ Sound(b, rows)
  BY DEF JInv
<1>2. /\ b.next \in Nat /\ b.last \in Nat /\ b.size \in Nat /\ b.from \in Nat \cup {NoBlock}
      /\ b.out \in Seq(SUBSET Logs) /\ b.owed \in SUBSET Logs
  BY <1>1 DEF JobType
<1>3. /\ b.from <= b.next /\ b.next <= b.last
      /\ \A i \in DOMAIN b.out : \A l \in b.out[i] : Wanted(b, rows, l) /\ l.block < b.next
      /\ InOrder(b.out)
      /\ \A l \in b.owed : Wanted(b, rows, l) /\ (l.block < b.next => HandedOver(b, l))
  BY <1>1 DEF Sound
<1>4. e \in Nat /\ b.next <= e /\ e <= b.last
  BY <1>2, <1>3, BatchesAdvance
<1>5. \A l \in rows : l \in Logs /\ l.block \in Nat
  BY RecorderAssumption DEF JInv, IInv, RTypeOK
<1>6. /\ Batch(j) \in SUBSET Logs
      /\ \A l \in Batch(j) : l \in rows /\ l.chain = b.chain /\ b.next <= l.block /\ l.block <= e
  BY <1>5 DEF Batch, Stored
<1>7. \A l \in Batch(j) : Wanted(b, rows, l) /\ l.block < e + 1
  BY <1>2, <1>3, <1>4, <1>5, <1>6 DEF Wanted, NoBlock
<1>8. \A i \in DOMAIN b.out : \A l \in b.out[i] : l \in Logs /\ l.block \in Nat /\ l.block < e + 1
  <2> SUFFICES ASSUME NEW i \in DOMAIN b.out, NEW l \in b.out[i]
               PROVE  l \in Logs /\ l.block \in Nat /\ l.block < e + 1
    OBVIOUS
  <2>1. l \in rows /\ l.block < b.next
    BY <1>3 DEF Wanted
  <2> QED
    BY <1>2, <1>4, <1>5, <2>1
<1>9. \A l \in b.owed : l.block < e + 1 => l \in Batch(j) \/ HandedOver(b, l)
  <2> SUFFICES ASSUME NEW l \in b.owed, l.block < e + 1, ~(l.block < b.next)
               PROVE  l \in Batch(j)
    BY <1>3
  <2>1. l \in rows /\ l.chain = b.chain
    BY <1>3 DEF Wanted
  <2>2. b.next <= l.block /\ l.block <= e
    BY <1>2, <1>4, <1>5, <2>1
  <2> QED
    BY <2>1, <2>2 DEF Batch, Stored
<1>10. CASE Batch(j) = {}
  <2>1. HandedWith(j) = b.out
    BY <1>10 DEF HandedWith
  <2> QED
    BY <1>2, <1>3, <1>8, <1>9, <1>10, <2>1 DEF HandedOver
<1>11. CASE Batch(j) # {}
  <2> DEFINE n   == Len(b.out)
             out == HandedWith(j)
  <2>1. out = Append(b.out, Batch(j))
    BY <1>11 DEF HandedWith
  <2>2. /\ n \in Nat /\ DOMAIN b.out = 1..n
        /\ out \in Seq(SUBSET Logs) /\ DOMAIN out = 1..(n + 1)
        /\ out[n + 1] = Batch(j)
        /\ \A i \in 1..n : out[i] = b.out[i]
    BY <1>2, <1>6, <2>1
  <2> HIDE DEF out, n
  <2>3. \A i \in DOMAIN out : i = n + 1 \/ i \in DOMAIN b.out
    BY <2>2
  <2>4. \A i \in DOMAIN out : \A l \in out[i] : Wanted(b, rows, l) /\ l.block < e + 1
    <3> SUFFICES ASSUME NEW i \in DOMAIN out, NEW l \in out[i]
                 PROVE  Wanted(b, rows, l) /\ l.block < e + 1
      OBVIOUS
    <3>1. CASE i = n + 1
      BY <1>7, <2>2, <3>1
    <3>2. CASE i \in DOMAIN b.out
      BY <1>3, <1>8, <2>2, <3>2
    <3> QED
      BY <2>3, <3>1, <3>2
  <2>5. InOrder(out)
    <3> SUFFICES ASSUME NEW i \in DOMAIN out, NEW k \in DOMAIN out, i < k,
                        NEW l \in out[i], NEW m \in out[k]
                 PROVE  l.block < m.block
      BY DEF InOrder
    <3>1. i \in DOMAIN b.out /\ l \in b.out[i]
      BY <2>2, <2>3
    <3>2. CASE k \in DOMAIN b.out
      BY <1>3, <2>2, <3>1, <3>2 DEF InOrder
    <3>3. CASE k = n + 1
      <4>1. l.block < b.next /\ l.block \in Nat
        BY <1>3, <1>8, <3>1
      <4>2. b.next <= m.block /\ m.block \in Nat
        BY <1>5, <1>6, <2>2, <3>3
      <4> QED
        BY <1>2, <4>1, <4>2
    <3> QED
      BY <2>3, <3>2, <3>3
  <2>6. \A l \in b.owed : l.block < e + 1 => \E i \in DOMAIN out : l \in out[i]
    <3> SUFFICES ASSUME NEW l \in b.owed, l.block < e + 1
                 PROVE  \E i \in DOMAIN out : l \in out[i]
      OBVIOUS
    <3>1. CASE l \in Batch(j)
      BY <2>2, <3>1
    <3>2. CASE HandedOver(b, l)
      <4>1. PICK i \in DOMAIN b.out : l \in b.out[i]
        BY <3>2 DEF HandedOver
      <4>2. i \in DOMAIN out /\ l \in out[i]
        BY <2>2, <4>1
      <4> QED
        BY <4>2
    <3> QED
      BY <1>9, <3>1, <3>2
  <2> QED
    BY <2>2, <2>4, <2>5, <2>6 DEF out
<1> QED
  BY <1>10, <1>11

LEMMA ReplayBatchKeepsSound ==
  ASSUME JInv, NEW j \in Jobs, ReplayBatch(j), rows \subseteq rows'
  PROVE  jobs' \in [Jobs -> JobType] /\ \A k \in Jobs : Sound(jobs'[k], rows')
<1> DEFINE b   == jobs[j]
           n   == BatchEnd(j) + 1
           out == HandedWith(j)
           p   == Progress(n, b.last)
           d   == [b EXCEPT !.out = out, !.next = n, !.status = p]
           f   == [b EXCEPT !.out = out, !.status = "failed"]
<1>1. /\ b \in JobType /\ b.status = "replaying"
      /\ jobs \in [Jobs -> JobType]
      /\ Sound(b, rows)
  BY DEF JInv, ReplayBatch
<1>2. /\ b.next \in Nat /\ b.last \in Nat /\ b.size \in Nat /\ b.from \in Nat \cup {NoBlock}
      /\ b.from <= b.next /\ b.next <= b.last
  BY <1>1 DEF JobType, Sound
<1>3. n \in Nat /\ b.next <= n /\ b.from <= n /\ n <= b.last + 1
  <2>1. BatchEnd(j) \in Nat /\ b.next <= BatchEnd(j) /\ BatchEnd(j) <= b.last
    BY <1>2, BatchesAdvance
  <2> QED
    BY <1>2, <2>1 DEF NoBlock
<1>4. /\ out \in Seq(SUBSET Logs)
      /\ InOrder(out)
      /\ \A i \in DOMAIN out : \A l \in out[i] : Wanted(b, rows, l) /\ l.block < n
      /\ \A l \in b.owed : l.block < n => \E i \in DOMAIN out : l \in out[i]
  BY <1>1, BatchKeepsSound
<1>5. jobs' = [jobs EXCEPT ![j] = d] \/ jobs' = [jobs EXCEPT ![j] = f]
  BY DEF ReplayBatch, MovesOn, HandedWith, Batch
<1>6. \A l \in b.owed : Wanted(b, rows, l)
  BY <1>1 DEF Sound
<1>7. p = IF n <= b.last THEN "replaying" ELSE "completed"
  BY DEF Progress
<1> HIDE DEF b, n, out, p
<1>8. /\ d \in JobType
      /\ d.out = out /\ d.next = n /\ d.status = p
      /\ d.owed = b.owed /\ d.chain = b.chain /\ d.from = b.from /\ d.last = b.last
  <2>1. p \in {"replaying", "completed"}
    BY <1>7
  <2>2. d \in JobType
    BY <1>1, <1>3, <1>4, <2>1 DEF JobType
  <2> QED
    BY <1>1, <2>2 DEF JobType
<1>9. /\ f \in JobType
      /\ f.out = out /\ f.next = b.next /\ f.status = "failed"
      /\ f.owed = b.owed /\ f.chain = b.chain /\ f.from = b.from /\ f.last = b.last
  <2>1. f \in JobType
    BY <1>1, <1>4 DEF JobType
  <2> QED
    BY <1>1, <2>1 DEF JobType
<1> HIDE DEF d, f
<1>10. Sound(d, rows)
  <2>1. \A l \in d.owed : Wanted(d, rows, l) /\ (l.block < d.next => HandedOver(d, l))
    BY <1>4, <1>6, <1>8 DEF Wanted, HandedOver
  <2>2. \A i \in DOMAIN d.out : \A l \in d.out[i] : Wanted(d, rows, l) /\ l.block < d.next
    BY <1>4, <1>8 DEF Wanted
  <2>3. d.status = "replaying" => d.from <= d.next /\ d.next <= d.last
    BY <1>3, <1>7, <1>8
  <2>4. d.status = "completed" => d.last < d.next
    BY <1>2, <1>3, <1>7, <1>8 DEF b
  <2> QED
    BY <1>4, <1>8, <2>1, <2>2, <2>3, <2>4 DEF Sound
<1>11. Sound(f, rows)
  <2>1. \A l \in f.owed : Wanted(f, rows, l) /\ (l.block < f.next => HandedOver(f, l))
    <3> SUFFICES ASSUME NEW l \in f.owed
                 PROVE  Wanted(f, rows, l) /\ (l.block < f.next => HandedOver(f, l))
      OBVIOUS
    <3>1. Wanted(f, rows, l)
      BY <1>6, <1>9 DEF Wanted
    <3>2. l.block \in Nat
      BY <3>1, RecorderAssumption DEF Wanted, JInv, IInv, RTypeOK
    <3>3. l.block < f.next => l.block < n
      BY <1>2, <1>3, <1>9, <3>2 DEF b
    <3> QED
      BY <1>4, <1>9, <3>1, <3>3 DEF HandedOver
  <2>2. \A i \in DOMAIN f.out : \A l \in f.out[i] : Wanted(f, rows, l)
    BY <1>4, <1>9 DEF Wanted
  <2> QED
    BY <1>4, <1>9, <2>1, <2>2 DEF Sound
<1>12. \A k \in Jobs : Sound(jobs'[k], rows)
  <2> TAKE k \in Jobs
  <2>1. jobs'[k] = jobs[k] \/ jobs'[k] = d \/ jobs'[k] = f
    BY <1>1, <1>5
  <2> QED
    BY <1>10, <1>11, <2>1 DEF JInv
<1>13. jobs' \in [Jobs -> JobType]
  BY <1>1, <1>5, <1>8, <1>9
<1> QED
  BY <1>12, <1>13, SoundStays

(* A task that is created or fails.                                        *)
LEMMA StatusKeepsSound ==
  ASSUME JInv, NEW j \in Jobs, StartReplay(j) \/ ReadFails(j)
  PROVE  jobs' \in [Jobs -> JobType] /\ \A k \in Jobs : Sound(jobs'[k], rows')
<1>1. rows' = rows /\ jobs \in [Jobs -> JobType] /\ \A k \in Jobs : Sound(jobs[k], rows)
  BY DEF JInv, StartReplay, ReadFails
<1>2. CASE ReadFails(j)
  <2> DEFINE b == jobs[j]
             f == [b EXCEPT !.status = "failed"]
  <2>1. b \in JobType /\ jobs' = [jobs EXCEPT ![j] = f]
    BY <1>1, <1>2 DEF ReadFails
  <2> HIDE DEF b
  <2>2. /\ f \in JobType /\ f.status = "failed"
        /\ f.out = b.out /\ f.next = b.next /\ f.owed = b.owed
        /\ f.chain = b.chain /\ f.from = b.from /\ f.last = b.last
    BY <2>1 DEF JobType
  <2> HIDE DEF f
  <2>3. Sound(f, rows)
    <3>1. Sound(b, rows)
      BY <1>1 DEF b
    <3> QED
      BY <2>2, <3>1 DEF Sound, Wanted, HandedOver
  <2> QED
    BY <1>1, <2>1, <2>2, <2>3
<1>3. CASE StartReplay(j)
  <2>1. PICK r \in Configured \cup Recordings, n \in BatchSizes :
          jobs' = [jobs EXCEPT ![j] = [NoJob EXCEPT !.status = "pending", !.todo = r.todo,
                                                    !.from = r.from, !.to = r.to, !.size = n]]
    BY <1>3 DEF StartReplay
  <2> DEFINE d == [NoJob EXCEPT !.status = "pending", !.todo = r.todo,
                                !.from = r.from, !.to = r.to, !.size = n]
  <2>2. r.todo \in Seq(Chains) /\ r.from \in Nat \cup {NoBlock} /\ r.to \in Nat \cup {NoBlock}
    <3>1. CASE r \in Configured
      <4>1. r.todo \in Sources /\ r.from \in AskedFrom /\ r.to \in AskedTo
        BY <3>1 DEF Configured
      <4>2. \A c \in Chains : <<c>> \in Seq(Chains)
        OBVIOUS
      <4>3. r.todo \in Seq(Chains)
        BY <4>1, <4>2, ReplayAssumption DEF Sources
      <4> QED
        BY <4>1, <4>3, ReplayAssumption
    <3>2. CASE r \in Recordings
      <4>1. PICK i \in DOMAIN sessions :
              r = [todo |-> <<sessions[i].chain>>, from |-> sessions[i].from, to |-> sessions[i].to]
        BY <3>2 DEF Recordings
      <4>2. sessions[i] \in SessionRows
        BY DEF JInv, IInv, RTypeOK
      <4> QED
        BY <4>1, <4>2 DEF SessionRows
    <3> QED
      BY <3>1, <3>2
  <2>3. n \in Nat
    BY ReplayAssumption
  <2>4. /\ d \in JobType
        /\ d.status = "pending" /\ d.owed = NoJob.owed /\ d.out = NoJob.out
    BY <2>2, <2>3, NoJobIsSound DEF JobType
  <2>5. NoJob.owed = {} /\ NoJob.out = <<>>
    BY DEF NoJob
  <2> HIDE DEF d
  <2>6. Sound(d, rows)
    BY <2>4, <2>5 DEF Sound, InOrder
  <2> QED
    BY <1>1, <2>1, <2>4, <2>6 DEF d
<1> QED
  BY <1>2, <1>3

LEMMA JobsInvariance == PSpec => []JInv
<1>1. PInit => JInv
  BY ReplayStartsWell, NoJobIsSound DEF PInit, JInv
<1>2. JInv /\ [PNext]_pvars => JInv'
  <2> SUFFICES ASSUME JInv, [PNext]_pvars
               PROVE  JInv'
    OBVIOUS
  <2>1. IInv' /\ rows \subseteq rows'
    BY ReplayStepPreserves DEF JInv
  <2>2. ASSUME jobs' = jobs
        PROVE  jobs' \in [Jobs -> JobType] /\ \A k \in Jobs : Sound(jobs'[k], rows')
    BY <2>1, <2>2, SoundStays DEF JInv
  <2>3. ASSUME NEW j \in Jobs, StartReplay(j) \/ Replay(j) \/ ReadFails(j)
        PROVE  jobs' \in [Jobs -> JobType] /\ \A k \in Jobs : Sound(jobs'[k], rows')
    BY <2>1, <2>3, BeginKeepsSound, ReplayBatchKeepsSound, StatusKeepsSound DEF Replay
  <2>4. ASSUME Exit
        PROVE  jobs' \in [Jobs -> JobType] /\ \A k \in Jobs : Sound(jobs'[k], rows')
    <3>1. jobs' = [k \in Jobs |-> NoJob] /\ Sound(NoJob, rows')
      BY <2>1, <2>4, NoJobIsSound, SoundStays DEF Exit
    <3> QED
      BY <3>1, NoJobIsSound
  <2>5. CASE UNCHANGED jobs
    BY <2>1, <2>2, <2>5 DEF JInv
  <2>6. CASE \E j \in Jobs : StartReplay(j) \/ Replay(j) \/ ReadFails(j)
    BY <2>1, <2>3, <2>6 DEF JInv
  <2>7. CASE Exit
    BY <2>1, <2>4, <2>7 DEF JInv
  <2> QED
    BY <2>5, <2>6, <2>7 DEF PNext, OpenNext, LogsArrive, Close, pvars
<1> QED
  BY <1>1, <1>2, PTL DEF PSpec

-----------------------------------------------------------------------------
(* Beside replays that feed back into them, the recorders keep what they   *)
(* promise: rows in range, totals that account for the rows, memory in     *)
(* step with the database.                                                 *)
THEOREM RecordersKeepTheirPromises ==
  PSpec => [](RTypeOK /\ RowsInRange /\ TotalsCover /\ MemoryAgrees)
<1>1. JInv => RTypeOK /\ RowsInRange /\ MemoryAgrees
  BY DEF JInv, IInv, Paired, Matches, MemoryAgrees
<1>2. JInv /\ TInv /\ [PNext]_pvars => TInv'
  BY ReplayStepMoves, MoveCounts, IInvIsCore DEF JInv
<1>3. PInit => TInv
  BY InitCounts DEF PInit
<1>4. TInv => TotalsCover
  BY DEF TInv
<1> QED
  BY <1>1, <1>2, <1>3, <1>4, JobsInvariance, PTL DEF PSpec

(* What a replay writes back takes nothing back from a session either.     *)
THEOREM ReplaysTakeNothingBack == PSpec => SessionsOnlyGrow
<1> DEFINE Kept ==
      \A i \in DOMAIN sessions :
        /\ i \in DOMAIN sessions'
        /\ sessions[i].closed => sessions'[i] = sessions[i]
        /\ sessions[i].total <= sessions'[i].total
        /\ sessions[i].to <= sessions'[i].to
        /\ sessions[i].from # NoBlock => sessions'[i].from <= sessions[i].from
<1>1. JInv /\ [PNext]_pvars => [Kept]_rvars
  BY ReplayStepPreserves DEF JInv, Grows, RowGrows
<1> HIDE DEF Kept
<1>2. PSpec => [][Kept]_rvars
  BY <1>1, JobsInvariance, PTL DEF PSpec
<1> QED
  BY <1>2 DEF SessionsOnlyGrow, Kept

(* Whatever is recorded beside a replay, it hands over what its source had *)
(* when it began, once and in block order, and nothing else than asked.    *)
THEOREM ReplaysAreFaithful == PSpec => []ReplayFaithful
<1>1. JInv => ReplayFaithful
  <2> SUFFICES ASSUME JInv, NEW j \in Jobs
               PROVE  LET b   == jobs[j]
                          out == jobs[j].out
                      IN  /\ {l \in b.owed : l.block < b.next} \subseteq Delivered(j)
                          /\ Delivered(j) \subseteq Stored(b.chain, b.from, b.last)
                          /\ b.status = "completed" => b.owed \subseteq Delivered(j)
                          /\ \A i, k \in DOMAIN out : i < k =>
                               \A l \in out[i], m \in out[k] : l.block < m.block
    BY DEF ReplayFaithful
  <2> DEFINE b == jobs[j]
  <2>1. b \in JobType /\ Sound(b, rows)
    BY DEF JInv
  <2>2. \A l : HandedOver(b, l) <=> l \in Delivered(j)
    BY DEF HandedOver, Delivered
  <2>3. {l \in b.owed : l.block < b.next} \subseteq Delivered(j)
    BY <2>1, <2>2 DEF Sound
  <2>4. Delivered(j) \subseteq Stored(b.chain, b.from, b.last)
    BY <2>1 DEF Sound, Wanted, Delivered, Stored
  <2>5. b.status = "completed" => b.owed \subseteq Delivered(j)
    <3> SUFFICES ASSUME b.status = "completed", NEW l \in b.owed
                 PROVE  l.block < b.next
      BY <2>3
    <3>1. l \in rows /\ l.block <= b.last /\ b.last < b.next
      BY <2>1 DEF Sound, Wanted
    <3>2. l.block \in Nat /\ b.last \in Nat /\ b.next \in Nat
      BY <2>1, <3>1, RecorderAssumption DEF JobType, JInv, IInv, RTypeOK
    <3> QED
      BY <3>1, <3>2
  <2>6. InOrder(b.out)
    BY <2>1 DEF Sound
  <2> QED
    BY <2>3, <2>4, <2>5, <2>6 DEF InOrder
<1> QED
  BY <1>1, JobsInvariance, PTL
=============================================================================
