----------------------------- MODULE IngestProofs -----------------------------
(* Theorems about Ingest for all logs, chains, handlers and limits and any *)
(* number of processes, checked by TLAPS.                                  *)
EXTENDS Ingest, LogPusherProofs, SequenceTheorems

ivarsAll == <<vars, ivars>>

GapRecords ==
  [phase : {"post", "taken"}, chain : ChainIds, logs : SUBSET Logs,
   todo : SUBSET ChainIds, last : [ChainIds -> Nat], clean : BOOLEAN]

GapTypeOK == gap \in {NotBegun, Checked, [phase |-> "status"]} \/ gap \in GapRecords

ITypeOK ==
  /\ arrived \subseteq Logs
  /\ earlier \subseteq arrived
  /\ due \in Seq(SUBSET Logs)
  /\ listening \subseteq ChainIds
  /\ replays \in [Logs -> Nat]
  /\ GapTypeOK

(* What holds of the composed pusher in every process. *)
PusherInv == TypeOK /\ OneOwner /\ TaskLifetimes /\ AttemptDiscipline /\ DeliveryBound

(* Once stop() has begun its last flush, whatever waits came late. *)
Leftovers ==
  /\ lifecycle \in {"flushing", "stopped", "exited"} => buffer \cup DueLogs \subseteq late
  /\ lifecycle = "exited" => due = <<>> /\ listening = {}

(* The cache keeps logs of this process, no two with one key, and all of   *)
(* them but those that clash, until there are too many.                    *)
Keeps(s, logs, among) ==
  /\ s \in Seq(among)
  /\ Len(s) <= MaxSize
  /\ \A i, j \in DOMAIN s : i # j => KeyOf[s[i]] # KeyOf[s[j]]
  /\ \A l \in logs : \/ \E i \in DOMAIN s : s[i] = l
                     \/ Cardinality(among) > MaxSize
                     \/ \E m \in among \ {l} : KeyOf[m] = KeyOf[l]

CacheInv == Keeps(cache, IF lifecycle = "exited" THEN {} ELSE Fresh, Fresh)

(* How the gap check goes with the lifespan. *)
GapPhases ==
  /\ lifecycle = "created" => gap.phase = "off"
  /\ gap.phase \in {"status", "post", "taken"} => lifecycle = "running"

(* A log is replayed once, by the process that received it: those the gap  *)
(* check is still to look at have not been.                                *)
ReplayOnce ==
  /\ \A l \in Logs : replays[l] <= 1
  /\ \A l \in Logs : replays[l] > 0 => l \in arrived
  /\ lifecycle # "exited" /\ gap.phase \in {"off", "status"} =>
       \A l \in Fresh : replays[l] = 0
  /\ gap.phase \in {"post", "taken"} =>
       /\ \A l \in gap.logs : l \in Fresh /\ ChainOf[l] = gap.chain
       /\ gap.chain \notin gap.todo
       /\ \A l \in Fresh : ChainOf[l] \in gap.todo => replays[l] = 0
       /\ gap.phase = "post" => \A l \in gap.logs : replays[l] = 0

(* The recorders are closed once the pusher has stopped, when what still   *)
(* arrives is late.                                                        *)
RecordersInv ==
  /\ recording \/ lifecycle \in {"stopped", "exited"}
  /\ RecordersGetAll

IInv ==
  /\ PusherInv
  /\ ITypeOK
  /\ PusherGetsAll
  /\ RecordersInv
  /\ Leftovers
  /\ OnlyLateLogsAreLeft
  /\ CacheInv
  /\ GapPhases
  /\ ReplayOnce

-----------------------------------------------------------------------------
(* The logs that are due. *)

LEMMA InDueLogs ==
  ASSUME due \in Seq(SUBSET Logs)
  PROVE  \A l : l \in DueLogs <=> \E i \in 1..Len(due) : l \in due[i]
<1>1. DOMAIN due = 1..Len(due)
  OBVIOUS
<1>2. QED
  BY <1>1 DEF DueLogs, ToSet

LEMMA DueAppend ==
  ASSUME due \in Seq(SUBSET Logs), NEW S \in SUBSET Logs, due' = Append(due, S)
  PROVE  /\ due' \in Seq(SUBSET Logs)
         /\ DueLogs' = DueLogs \cup S
         /\ Len(due') = Len(due) + 1
         /\ due'[Len(due) + 1] = S
         /\ \A i \in 1..Len(due) : due'[i] = due[i]
<1>1. /\ due' \in Seq(SUBSET Logs)
      /\ Len(due) \in Nat
      /\ Len(due') = Len(due) + 1
      /\ due'[Len(due) + 1] = S
      /\ \A i \in 1..Len(due) : due'[i] = due[i]
  OBVIOUS
<1>2. DOMAIN due = 1..Len(due) /\ DOMAIN due' = 1..Len(due')
  BY <1>1
<1>3. \A l : l \in DueLogs' <=> l \in DueLogs \/ l \in S
  BY <1>1, <1>2 DEF DueLogs, ToSet
<1>4. QED
  BY <1>1, <1>3

LEMMA DueTail ==
  ASSUME due \in Seq(SUBSET Logs), due # <<>>, due' = Tail(due)
  PROVE  /\ due' \in Seq(SUBSET Logs)
         /\ Head(due) \in SUBSET Logs
         /\ Head(due) = due[1]
         /\ DueLogs = DueLogs' \cup Head(due)
         /\ Len(due') = Len(due) - 1
         /\ \A i \in 1..Len(due') : due'[i] = due[i + 1]
<1>1. /\ due' \in Seq(SUBSET Logs)
      /\ Len(due) \in Nat \ {0}
      /\ Head(due) \in SUBSET Logs
      /\ Head(due) = due[1]
      /\ Len(due') = Len(due) - 1
      /\ \A i \in 1..Len(due') : due'[i] = due[i + 1]
  BY HeadTailProperties
<1>2. DOMAIN due = 1..Len(due) /\ DOMAIN due' = 1..Len(due')
  BY <1>1
<1>3. \A l : l \in DueLogs' => l \in DueLogs
  BY <1>1, <1>2 DEF DueLogs, ToSet
<1>4. \A l : l \in Head(due) => l \in DueLogs
  BY <1>1, <1>2 DEF DueLogs, ToSet
<1>5. ASSUME NEW l, l \in DueLogs PROVE l \in DueLogs' \/ l \in Head(due)
  <2>1. PICK i \in 1..Len(due) : l \in due[i]
    BY <1>2, <1>5 DEF DueLogs, ToSet
  <2>2. CASE i = 1
    BY <1>1, <2>1, <2>2
  <2>3. CASE i # 1
    <3>1. i - 1 \in 1..Len(due') /\ due'[i - 1] = due[i]
      BY <1>1, <2>1, <2>3
    <3>2. QED
      BY <1>2, <2>1, <3>1 DEF DueLogs, ToSet
  <2>4. QED
    BY <2>2, <2>3
<1>6. QED
  BY <1>1, <1>3, <1>4, <1>5

-----------------------------------------------------------------------------
(* The pusher within Ingest. *)

LEMMA PushNextIsOnNewLogs ==
  ASSUME ITypeOK, PusherGetsAll, NEW t \in Handlers, PushNext(t)
  PROVE  Head(due) \in SUBSET (Logs \ handed) /\ OnNewLogs(t, Head(due))
<1>1. Head(due) \in SUBSET Logs /\ Head(due) \subseteq DueLogs
  BY DueTail DEF PushNext, ITypeOK
<1>2. QED
  BY <1>1 DEF PushNext, PusherGetsAll

(* But for a crash and a restart, a step of Ingest is a step of the pusher *)
(* or leaves it alone.                                                     *)
LEMMA StepOfPusher ==
  ASSUME ITypeOK, PusherGetsAll, [INext]_ivarsAll
  PROVE  [PusherNext]_vars \/ Crash \/ \E S \in SUBSET (Logs \ (arrived \cup missed)) : Restart(S)
<1>1. ASSUME NEW t \in Handlers, PushNext(t) PROVE PusherNext
  BY <1>1, PushNextIsOnNewLogs DEF PusherNext
<1>2. CASE PusherStep
  BY <1>2 DEF PusherStep, PusherNext
<1>3. CASE StartPusher \/ StopPusher \/ Return
  BY <1>3 DEF StartPusher, StopPusher, Return, PusherNext, Lifespan
<1>4. CASE GapCheck \/ CloseRecorders
  BY <1>4 DEF GapCheck, CloseRecorders
<1>5. ASSUME NEW c \in ChainIds, StartListener(c) \/ StopListener(c) PROVE UNCHANGED vars
  BY <1>5 DEF StartListener, StopListener
<1>6. CASE UNCHANGED ivarsAll
  BY <1>6 DEF ivarsAll
<1>7. QED
  BY <1>1, <1>2, <1>3, <1>4, <1>5, <1>6 DEF INext

LEMMA PusherInvStep == PusherInv /\ [PusherNext]_vars => PusherInv'
  BY TypeStep, OwnerStep, DisciplineStep DEF PusherInv

(* A process that ends leaves nothing in flight, and no log half settled.  *)
LEMMA ForgottenType ==
  ASSUME TypeOK, Forget, lifecycle' \in {"exited", "created"},
         handed' \in SUBSET Logs, UNCHANGED ingests,
         NEW L \in SUBSET Logs, outcome' = [outcome EXCEPT !["lost"] = @ \cup L]
  PROVE  TypeOK'
<1>1. flush' \in [Tasks -> TaskState]
  BY PusherAssumption DEF Forget, Idle, TaskState
<1>2. stats' \in [buffer_size : Nat, total_pushed : Nat,
                  total_retried : Nat, total_failed : Nat]
  BY DEF Forget, TypeOK
<1>3. outcome' \in [Outcomes -> SUBSET Logs]
  BY DEF TypeOK, Outcomes
<1>4. /\ lifecycle' \in {"created", "running", "stopping", "flushing", "stopped", "exited"}
      /\ session' \in {"none", "open", "closed"}
      /\ buffer' \subseteq Logs
      /\ lastPushed' \in [ChainIds -> Nat]
      /\ handed' \subseteq Logs
      /\ ingests' \in [Logs -> Nat]
  BY DEF Forget, TypeOK
<1>5. QED
  BY <1>1, <1>2, <1>3, <1>4 DEF TypeOK

LEMMA ForgottenInv ==
  ASSUME PusherInv, Forget, lifecycle' \in {"exited", "created"},
         handed' \in SUBSET Logs, handed \subseteq handed', UNCHANGED ingests,
         outcome' = [outcome EXCEPT !["lost"] = @ \cup (handed' \ Settled)]
  PROVE  PusherInv'
<1> USE DEF PusherInv
<1>1. handed' \ Settled \in SUBSET Logs
  OBVIOUS
<1>2. TypeOK'
  BY <1>1, ForgottenType
<1>3. \A t \in Tasks : flush'[t] = Idle
  BY DEF Forget
<1>4. \A o \in Outcomes : outcome'[o] =
        IF o = "lost" THEN outcome[o] \cup (handed' \ Settled) ELSE outcome[o]
  BY DEF TypeOK, Outcomes
<1>5. Settled' = handed'
  <2>1. Settled \subseteq handed
    BY DEF OneOwner
  <2>2. ASSUME NEW l \in Settled' PROVE l \in handed'
    BY <1>4, <2>1, <2>2 DEF Settled
  <2>3. ASSUME NEW l \in handed' PROVE l \in Settled'
    <3>1. CASE l \in Settled
      BY <1>4, <3>1 DEF Settled
    <3>2. CASE l \notin Settled
      BY <1>4, <2>3, <3>2 DEF Settled, Outcomes
    <3>3. QED
      BY <3>1, <3>2
  <2>4. QED
    BY <2>2, <2>3
<1>6. (\A o, p \in Outcomes : o # p => outcome[o] \cap outcome[p] = {})'
  <2> SUFFICES ASSUME NEW o \in Outcomes, NEW p \in Outcomes, o # p
               PROVE  outcome'[o] \cap outcome'[p] = {}
    OBVIOUS
  <2>1. outcome[o] \cap outcome[p] = {}
    BY DEF OneOwner
  <2>2. outcome[o] \subseteq Settled /\ outcome[p] \subseteq Settled
    BY DEF Settled
  <2>3. QED
    BY <1>4, <2>1, <2>2
<1>7. OneOwner'
  <2>1. \A t \in Tasks : flush'[t].todo = {}
    BY <1>3 DEF Idle
  <2>2. buffer' = {} /\ UNION {flush'[t].todo : t \in Tasks} = {}
    BY <2>1 DEF Forget
  <2>3. QED
    BY <1>5, <1>6, <2>1, <2>2 DEF OneOwner
<1>8. TaskLifetimes'
  BY <1>3, PusherAssumption DEF TaskLifetimes, Tasks
<1>9. AttemptDiscipline'
  BY <1>3 DEF AttemptDiscipline, Idle
<1>10. DeliveryBound'
  BY DEF DeliveryBound, Forget
<1>11. QED
  BY <1>2, <1>7, <1>8, <1>9, <1>10

LEMMA CrashInv ==
  ASSUME PusherInv, ITypeOK, PusherGetsAll, Crash
  PROVE  PusherInv'
<1>1. handed' = arrived /\ handed \subseteq handed'
  BY DEF Crash, PusherGetsAll
<1>2. QED
  BY <1>1, ForgottenInv DEF Crash, ITypeOK

LEMMA RestartInv ==
  ASSUME PusherInv, NEW S, Restart(S)
  PROVE  PusherInv'
<1>1. \A t \in Tasks : flush[t].todo = {}
  BY DEF PusherInv, Restart, TaskLifetimes, Idle
<1>2. handed \ Settled = buffer
  BY <1>1 DEF PusherInv, OneOwner
<1>3. QED
  BY <1>2, ForgottenInv DEF Restart, PusherInv, TypeOK

LEMMA PusherStepInv ==
  PusherInv /\ ITypeOK /\ PusherGetsAll /\ [INext]_ivarsAll => PusherInv'
  BY StepOfPusher, PusherInvStep, CrashInv, RestartInv

-----------------------------------------------------------------------------
(* Types. *)

(* Of a finite set, the greatest element is one with the fewest above it.  *)
LEMMA GreatestExists ==
  ASSUME NEW S \in SUBSET Nat, S # {}, IsFiniteSet(S)
  PROVE  \E x \in S : \A y \in S : x >= y
<1> DEFINE Above(x) == {y \in S : y > x}
           Tallies == {Cardinality(Above(x)) : x \in S}
<1>1. \A x \in S : IsFiniteSet(Above(x)) /\ Cardinality(Above(x)) \in Nat
  BY FS_Subset, FS_CardinalityType
<1>2. Tallies \in SUBSET Nat /\ Tallies # {}
  BY <1>1
<1>3. PICK n \in Tallies : \A m \in Tallies : n <= m
  <2> HIDE DEF Tallies
  <2>1. QED
    BY <1>2, LeastExists
<1>4. PICK x \in S : n = Cardinality(Above(x))
  BY <1>3
<1>5. ASSUME NEW y \in S, y > x
      PROVE  FALSE
  <2>1. Above(y) \in SUBSET Above(x) /\ y \in Above(x) /\ y \notin Above(y)
    <3>1. ASSUME NEW z \in S, z > y
          PROVE  z > x
      BY <1>5, <3>1
    <3>2. ~ (y > y)
      OBVIOUS
    <3>3. QED
      BY <1>5, <3>1, <3>2
  <2>2. /\ Cardinality(Above(y)) <= Cardinality(Above(x))
        /\ Cardinality(Above(y)) # Cardinality(Above(x))
    <3> HIDE DEF Above
    <3>1. QED
      BY <1>1, <2>1, FS_Subset
  <2>3. n <= Cardinality(Above(y))
    BY <1>3
  <2>4. QED
    BY <1>1, <1>4, <2>2, <2>3
<1>6. QED
  BY <1>5

LEMMA MaxIsNat ==
  ASSUME NEW S \in SUBSET Nat, S # {}, IsFiniteSet(S)
  PROVE  Max(S) \in Nat
  BY GreatestExists DEF Max

LEMMA ConsumedIsNat ==
  ASSUME NEW c \in ChainIds
  PROVE  Consumed(c) \in Nat
<1> DEFINE taken  == {m \in Logs : ChainOf[m] = c /\ ingests[m] + replays[m] > 0}
           blocks == {BlockOf[l] : l \in taken}
<1>1. IsFiniteSet(taken)
  BY PusherAssumption, FS_Subset
<1>2. [l \in taken |-> BlockOf[l]] \in Surjection(taken, blocks)
  BY DEF Surjection
<1>3. IsFiniteSet(blocks) /\ IsFiniteSet({Known[c]})
  BY <1>1, <1>2, FS_Surjection, FS_Singleton
<1>4. IsFiniteSet({Known[c]} \cup blocks)
  BY <1>3, FS_Union
<1>5. {Known[c]} \cup blocks \in SUBSET Nat
  BY PusherAssumption, IngestAssumption
<1> HIDE DEF blocks
<1>6. Max({Known[c]} \cup blocks) \in Nat
  BY <1>4, <1>5, MaxIsNat
<1>7. QED
  BY <1>6 DEF Consumed, blocks, taken

(* What a replay sends comes from the cache. *)
LEMMA GapIsCached ==
  ASSUME NEW c, NEW n
  PROVE  /\ Gap(c, n) \subseteq ToSet(cache)
         /\ \A l \in Gap(c, n) : ChainOf[l] = c
  BY DEF Gap

(* Where the loop of the gap check goes on to. *)
LEMMA GoOnGoesTo ==
  ASSUME ToSet(cache) \subseteq Logs, NEW todo \in SUBSET ChainIds,
         NEW last \in [ChainIds -> Nat], NEW clean \in BOOLEAN, GoOn(todo, last, clean)
  PROVE  \/ gap' = Checked
         \/ /\ gap' \in GapRecords
            /\ gap'.phase = "post"
            /\ gap'.chain \in todo
            /\ gap'.logs = Gap(gap'.chain, last[gap'.chain])
            /\ gap'.todo \subseteq todo \ {gap'.chain}
            /\ gap'.last = last
<1>1. CASE gap' = Checked
  BY <1>1
<1>2. ASSUME NEW c \in todo, NEW quiet \in SUBSET todo,
             gap' = [phase |-> "post", chain |-> c, logs |-> Gap(c, last[c]),
                     todo |-> todo \ ({c} \cup quiet), last |-> last, clean |-> clean]
      PROVE  /\ gap' \in GapRecords
             /\ gap'.phase = "post"
             /\ gap'.chain \in todo
             /\ gap'.logs = Gap(gap'.chain, last[gap'.chain])
             /\ gap'.todo \subseteq todo \ {gap'.chain}
             /\ gap'.last = last
  <2>1. Gap(c, last[c]) \in SUBSET Logs
    BY GapIsCached
  <2>2. QED
    BY <1>2, <2>1 DEF GapRecords
<1>3. QED
  BY <1>1, <1>2 DEF GoOn

-----------------------------------------------------------------------------
(* The cache. *)

(* A full cache that takes in a log of another key knows more logs than it *)
(* has places.                                                             *)
LEMMA FullCacheOverflows ==
  ASSUME NEW among, IsFiniteSet(among), NEW s \in Seq(among), NEW l \in among,
         Len(s) = MaxSize,
         \A i, j \in DOMAIN s : i # j => KeyOf[s[i]] # KeyOf[s[j]],
         \A i \in DOMAIN s : KeyOf[s[i]] # KeyOf[l]
  PROVE  Cardinality(among) > MaxSize
<1> DEFINE f == [i \in 1..(MaxSize + 1) |-> IF i = MaxSize + 1 THEN l ELSE s[i]]
<1>1. MaxSize \in Nat /\ MaxSize + 1 \in Nat /\ DOMAIN s = 1..MaxSize
  BY IngestAssumption
<1>2. \A i \in 1..(MaxSize + 1) : i = MaxSize + 1 \/ i \in DOMAIN s
  BY <1>1
<1>3. \A i \in DOMAIN s : s[i] \in among
  OBVIOUS
<1>4. f \in [1..(MaxSize + 1) -> among]
  BY <1>2, <1>3
<1>5. ASSUME NEW i \in 1..(MaxSize + 1), NEW j \in 1..(MaxSize + 1), i # j
      PROVE  f[i] # f[j]
  BY <1>2, <1>5
<1> HIDE DEF f
<1>6. f \in Injection(1..(MaxSize + 1), among)
  BY <1>4, <1>5 DEF Injection, IsInjective
<1>7. Cardinality(1..(MaxSize + 1)) = MaxSize + 1
  BY <1>1, FS_Interval
<1>8. Cardinality(1..(MaxSize + 1)) <= Cardinality(among)
  BY <1>6, FS_Injection
<1>9. Cardinality(among) \in Nat
  BY FS_CardinalityType
<1>10. QED
  BY <1>1, <1>7, <1>8, <1>9

LEMMA AddLogKeeps ==
  ASSUME NEW among, IsFiniteSet(among), NEW logs \in SUBSET among,
         NEW s, Keeps(s, logs, among), NEW l \in among
  PROVE  Keeps(AddLog(s, l), logs \cup {l}, among)
<1>1. CASE \E i \in DOMAIN s : KeyOf[s[i]] = KeyOf[l]
  <2>1. AddLog(s, l) = s
    BY <1>1 DEF AddLog
  <2>2. PICK i \in DOMAIN s : KeyOf[s[i]] = KeyOf[l]
    BY <1>1
  <2>3. s[i] \in among
    BY DEF Keeps
  <2>4. s[i] = l \/ \E m \in among \ {l} : KeyOf[m] = KeyOf[l]
    BY <2>2, <2>3
  <2>5. QED
    BY <2>1, <2>2, <2>4 DEF Keeps
<1>2. CASE \A i \in DOMAIN s : KeyOf[s[i]] # KeyOf[l]
  <2>1. s \in Seq(among) /\ Len(s) \in Nat /\ Len(s) <= MaxSize /\ DOMAIN s = 1..Len(s)
    BY DEF Keeps
  <2>2. CASE Len(s) = MaxSize
    <3>1. Cardinality(among) > MaxSize
      BY <1>2, <2>1, <2>2, FullCacheOverflows DEF Keeps
    <3>2. s # <<>>
      BY <2>2, IngestAssumption
    <3> DEFINE t == Tail(s)
    <3>3. /\ t \in Seq(among)
          /\ Len(t) = Len(s) - 1
          /\ \A i \in 1..Len(t) : i + 1 \in DOMAIN s /\ t[i] = s[i + 1]
      BY <2>1, <3>2, HeadTailProperties
    <3>4. AddLog(s, l) = Append(t, l)
      BY <1>2, <2>2 DEF AddLog
    <3> HIDE DEF t
    <3> DEFINE u == Append(t, l)
    <3>5. /\ u \in Seq(among)
          /\ Len(u) = Len(s)
          /\ DOMAIN u = 1..Len(s)
          /\ u[Len(s)] = l
          /\ \A i \in 1..(Len(s) - 1) : u[i] = s[i + 1] /\ i + 1 \in DOMAIN s
      <4>1. /\ u \in Seq(among)
            /\ Len(u) = Len(t) + 1
            /\ u[Len(u)] = l
            /\ \A i \in 1..Len(t) : u[i] = t[i]
        BY <3>3, AppendProperties
      <4>2. Len(t) = Len(s) - 1 /\ Len(u) = Len(s)
        BY <2>1, <3>3, <4>1
      <4>3. DOMAIN u = 1..Len(u)
        BY <4>1
      <4> HIDE DEF u
      <4>4. QED
        BY <3>3, <4>1, <4>2, <4>3
    <3> HIDE DEF u
    <3>6. ASSUME NEW i \in DOMAIN u, NEW j \in DOMAIN u, i # j
          PROVE  KeyOf[u[i]] # KeyOf[u[j]]
      <4>1. /\ i = Len(s) \/ i \in 1..(Len(s) - 1)
            /\ j = Len(s) \/ j \in 1..(Len(s) - 1)
        BY <2>1, <3>5
      <4>2. CASE i = Len(s)
        BY <1>2, <3>5, <3>6, <4>1, <4>2
      <4>3. CASE j = Len(s)
        BY <1>2, <3>5, <3>6, <4>1, <4>3
      <4>4. CASE i \in 1..(Len(s) - 1) /\ j \in 1..(Len(s) - 1)
        <5>1. i + 1 # j + 1 /\ i + 1 \in DOMAIN s /\ j + 1 \in DOMAIN s
          BY <2>1, <3>5, <3>6, <4>4
        <5>2. QED
          BY <3>5, <4>4, <5>1 DEF Keeps
      <4>5. QED
        BY <4>1, <4>2, <4>3, <4>4
    <3>7. Keeps(u, logs \cup {l}, among)
      BY <2>1, <3>1, <3>5, <3>6 DEF Keeps
    <3>8. QED
      BY <3>4, <3>7 DEF u
  <2>3. CASE Len(s) # MaxSize
    <3> DEFINE u == Append(s, l)
    <3>1. AddLog(s, l) = u
      BY <1>2, <2>3 DEF AddLog
    <3>2. /\ u \in Seq(among)
          /\ Len(u) = Len(s) + 1
          /\ DOMAIN u = 1..(Len(s) + 1)
          /\ u[Len(s) + 1] = l
          /\ \A i \in DOMAIN s : u[i] = s[i]
      BY <2>1
    <3> HIDE DEF u
    <3>3. \A i \in DOMAIN u : i \in DOMAIN s \/ i = Len(s) + 1
      BY <2>1, <3>2
    <3>4. DOMAIN s \subseteq DOMAIN u /\ Len(s) + 1 \in DOMAIN u
      BY <2>1, <3>2
    <3>5. \A i, j \in DOMAIN u : i # j => KeyOf[u[i]] # KeyOf[u[j]]
      BY <1>2, <3>2, <3>3 DEF Keeps
    <3>6. Len(u) <= MaxSize
      <4>1. MaxSize \in Nat
        BY IngestAssumption
      <4>2. Len(s) \in Nat /\ Len(s) <= MaxSize /\ Len(s) # MaxSize
        BY <2>1, <2>3
      <4>3. Len(u) = Len(s) + 1
        BY <3>2
      <4>4. QED
        BY <4>1, <4>2, <4>3
    <3>7. \A m \in logs \cup {l} :
             \/ \E i \in DOMAIN u : u[i] = m
             \/ Cardinality(among) > MaxSize
             \/ \E k \in among \ {m} : KeyOf[k] = KeyOf[m]
      BY <3>2, <3>4 DEF Keeps
    <3>8. QED
      BY <3>1, <3>2, <3>5, <3>6, <3>7 DEF Keeps
  <2>4. QED
    BY <2>2, <2>3
<1>3. QED
  BY <1>1, <1>2

(* The cache after the first n logs of order. *)
Added(s, order, f, n) ==
  f = [i \in 0..n |-> IF i = 0 THEN s ELSE AddLog(f[i - 1], order[i])]

LEMMA AddedExists ==
  ASSUME NEW s, NEW order, NEW len \in Nat
  PROVE  \E f : Added(s, order, f, len)
<1> DEFINE Bad == {n \in Nat : ~ \E f : Added(s, order, f, n)}
<1>1. ASSUME NEW n \in Bad, \A m \in Bad : n <= m
      PROVE  FALSE
  <2>1. n # 0
    <3> DEFINE g == [i \in 0..0 |-> s]
    <3>1. Added(s, order, g, 0)
      BY DEF Added
    <3>2. QED
      BY <3>1
  <2>2. n - 1 \in Nat /\ n - 1 \notin Bad
    BY <1>1, <2>1
  <2>3. PICK f : Added(s, order, f, n - 1)
    BY <2>2
  <2> DEFINE g == [i \in 0..n |-> IF i = n THEN AddLog(f[n - 1], order[n]) ELSE f[i]]
  <2>4. \A i \in 0..n : i # n => i \in 0..(n - 1) /\ (i # 0 => i - 1 \in 0..n /\ i - 1 # n)
    OBVIOUS
  <2>5. ASSUME NEW i \in 0..n
        PROVE  g[i] = IF i = 0 THEN s ELSE AddLog(g[i - 1], order[i])
    <3>1. CASE i = n
      <4>1. g[i] = AddLog(f[n - 1], order[n])
        BY <3>1
      <4>2. n - 1 \in 0..n /\ n - 1 # n /\ g[n - 1] = f[n - 1]
        BY <2>1
      <4>3. QED
        BY <2>1, <3>1, <4>1, <4>2
    <3>2. CASE i # n
      <4>1. g[i] = f[i] /\ (i # 0 => g[i - 1] = f[i - 1])
        BY <2>4, <3>2
      <4>2. f[i] = IF i = 0 THEN s ELSE AddLog(f[i - 1], order[i])
        BY <2>3, <2>4, <3>2 DEF Added
      <4>3. QED
        BY <4>1, <4>2
    <3>3. QED
      BY <3>1, <3>2
  <2>6. Added(s, order, g, n)
    <3>1. g = [i \in 0..n |-> g[i]]
      OBVIOUS
    <3> HIDE DEF g
    <3>2. QED
      BY <2>5, <3>1 DEF Added
  <2>7. QED
    BY <1>1, <2>6
<1>2. Bad = {}
  <2>1. Bad \in SUBSET Nat
    OBVIOUS
  <2> HIDE DEF Bad
  <2>2. QED
    BY <1>1, <2>1, LeastExists
<1>3. QED
  BY <1>2

LEMMA AddManyIsAdded ==
  ASSUME NEW s, NEW order, Len(order) \in Nat
  PROVE  \E f : Added(s, order, f, Len(order)) /\ AddMany(s, order) = f[Len(order)]
<1> DEFINE f == CHOOSE g : g = [i \in 0..Len(order) |->
                                  IF i = 0 THEN s ELSE AddLog(g[i - 1], order[i])]
<1>1. Added(s, order, f, Len(order))
  BY AddedExists DEF Added
<1>2. AddMany(s, order) = f[Len(order)]
  BY DEF AddMany
<1>3. QED
  BY <1>1, <1>2

LEMMA AddManyKeeps ==
  ASSUME NEW among, IsFiniteSet(among), NEW logs \in SUBSET among,
         NEW s, Keeps(s, logs, among), NEW order \in Seq(among)
  PROVE  Keeps(AddMany(s, order), logs \cup {order[i] : i \in 1..Len(order)}, among)
<1> DEFINE len == Len(order)
           Upto(n) == logs \cup {order[i] : i \in 1..n}
<1>1. len \in Nat /\ \A i \in 1..len : order[i] \in among
  OBVIOUS
<1>2. PICK f : Added(s, order, f, len) /\ AddMany(s, order) = f[len]
  BY <1>1, AddManyIsAdded
<1> HIDE DEF len
<1> DEFINE Good(n) == Keeps(f[n], Upto(n), among)
           Bad == {n \in 0..len : ~ Good(n)}
<1>3. ASSUME NEW n \in Bad, \A m \in Bad : n <= m
      PROVE  FALSE
  <2>1. n \in 0..len /\ ~ Good(n)
    BY <1>3
  <2>2. f[n] = IF n = 0 THEN s ELSE AddLog(f[n - 1], order[n])
    BY <1>2, <2>1 DEF Added
  <2>3. CASE n = 0
    <3>1. Upto(n) = logs
      BY <2>3
    <3>2. QED
      BY <2>1, <2>2, <2>3, <3>1
  <2>4. CASE n # 0
    <3> HIDE DEF Good
    <3>1. n - 1 \in 0..len /\ n - 1 \notin Bad /\ n \in 1..len
      <4>1. n - 1 \in 0..len /\ n \in 1..len /\ ~ (n <= n - 1)
        BY <1>1, <2>1, <2>4
      <4>2. QED
        BY <1>3, <4>1
    <3>2. Good(n - 1)
      BY <3>1
    <3> USE DEF Good
    <3>3. Upto(n - 1) \in SUBSET among /\ order[n] \in among
      BY <1>1, <3>1
    <3>4. Upto(n - 1) \cup {order[n]} = Upto(n)
      <4>1. 1..n = 1..(n - 1) \cup {n}
        BY <1>1, <3>1
      <4>2. QED
        BY <4>1
    <3> HIDE DEF Upto
    <3>5. Keeps(AddLog(f[n - 1], order[n]), Upto(n - 1) \cup {order[n]}, among)
      BY <3>2, <3>3, AddLogKeeps
    <3>6. QED
      BY <2>1, <2>2, <2>4, <3>4, <3>5
  <2>5. QED
    BY <2>3, <2>4
<1>4. Bad = {}
  <2>1. Bad \in SUBSET Nat
    BY <1>1
  <2> HIDE DEF Bad
  <2>2. QED
    BY <1>3, <2>1, LeastExists
<1>5. Good(len)
  <2> HIDE DEF Good
  <2>1. len \in 0..len
    BY <1>1
  <2>2. QED
    BY <1>4, <2>1
<1>6. QED
  BY <1>2, <1>5 DEF len

(* Logs in the order of their blocks are all there, each once. *)
LEMMA OrderCovers ==
  ASSUME NEW S \in SUBSET Logs, NEW order \in InBlockOrder(S)
  PROVE  order \in Seq(S) /\ {order[i] : i \in 1..Len(order)} = S
<1>1. IsFiniteSet(S) /\ Cardinality(S) \in Nat
  BY PusherAssumption, FS_Subset, FS_CardinalityType
<1>2. /\ order \in [1..Cardinality(S) -> S]
      /\ \A i, j \in 1..Cardinality(S) : i < j => BlockOf[order[i]] < BlockOf[order[j]]
  BY DEF InBlockOrder
<1>3. order \in Seq(S) /\ Len(order) = Cardinality(S)
  BY <1>1, <1>2
<1>4. ASSUME NEW i \in 1..Cardinality(S), NEW j \in 1..Cardinality(S), i # j
      PROVE  order[i] # order[j]
  <2>1. BlockOf[order[i]] \in Nat /\ BlockOf[order[j]] \in Nat
    BY <1>2, PusherAssumption
  <2>2. i < j \/ j < i
    BY <1>1, <1>4
  <2>3. BlockOf[order[i]] # BlockOf[order[j]]
    BY <1>2, <2>1, <2>2
  <2>4. QED
    BY <2>3
<1>5. order \in Injection(1..Cardinality(S), S)
  BY <1>2, <1>4 DEF Injection, IsInjective
<1>6. Cardinality(1..Cardinality(S)) = Cardinality(S)
  BY <1>1, FS_Interval
<1>7. order \in Surjection(1..Cardinality(S), S)
  BY <1>1, <1>5, <1>6, FS_Injection
<1>8. {order[i] : i \in 1..Cardinality(S)} = S
  BY <1>7 DEF Surjection
<1>9. QED
  BY <1>3, <1>8

LEMMA KeepsAmongMore ==
  ASSUME NEW more, IsFiniteSet(more), NEW among \in SUBSET more,
         NEW logs, NEW s, Keeps(s, logs, among)
  PROVE  Keeps(s, logs, more)
<1>1. IsFiniteSet(among)
  BY FS_Subset
<1>2. Cardinality(among) <= Cardinality(more) /\ Cardinality(among) \in Nat /\ Cardinality(more) \in Nat
  BY <1>1, FS_Subset, FS_CardinalityType
<1>3. MaxSize \in Nat
  BY IngestAssumption
<1>4. Cardinality(among) > MaxSize => Cardinality(more) > MaxSize
  BY <1>2, <1>3
<1>5. s \in Seq(more)
  BY DEF Keeps
<1>6. QED
  BY <1>4, <1>5 DEF Keeps

LEMMA ArriveKeeps ==
  ASSUME ITypeOK, Leftovers, CacheInv, NEW S \in SUBSET (Logs \ arrived), S # {},
         NEW written, Arrive(S, written), UNCHANGED vars
  PROVE  CacheInv'
<1>1. lifecycle # "exited" /\ lifecycle' = lifecycle
  BY DEF Arrive, Leftovers, vars
<1>2. Fresh' = Fresh \cup S /\ Fresh' \in SUBSET Logs
  BY DEF Arrive, Fresh, ITypeOK
<1>3. IsFiniteSet(Fresh')
  BY <1>2, PusherAssumption, FS_Subset
<1>4. Keeps(cache, Fresh, Fresh')
  BY <1>1, <1>2, <1>3, KeepsAmongMore DEF CacheInv
<1>5. PICK order \in InBlockOrder(S) : cache' = AddMany(cache, order)
  BY DEF Arrive
<1>6. order \in Seq(S) /\ {order[i] : i \in 1..Len(order)} = S
  BY <1>5, OrderCovers
<1>7. order \in Seq(Fresh')
  BY <1>2, <1>6, SeqMonotonic
<1>8. Keeps(cache', Fresh \cup S, Fresh')
  BY <1>2, <1>3, <1>4, <1>5, <1>6, <1>7, AddManyKeeps
<1>9. QED
  BY <1>1, <1>2, <1>8 DEF CacheInv

(* Only Arrive adds to the cache. *)
LEMMA CacheStep ==
  ASSUME ITypeOK, Leftovers, CacheInv, [INext]_ivarsAll
  PROVE  CacheInv'
<1>1. ASSUME UNCHANGED <<cache, arrived, earlier>>, lifecycle' = "exited" <=> lifecycle = "exited"
      PROVE  CacheInv'
  BY <1>1 DEF CacheInv, Fresh, Keeps
<1>2. ASSUME UNCHANGED <<cache, arrived, earlier>>, lifecycle' = "exited"
      PROVE  CacheInv'
  BY <1>2 DEF CacheInv, Fresh, Keeps
<1>3. ASSUME cache' = <<>>, lifecycle' = "exited" \/ Fresh' = {}
      PROVE  CacheInv'
  <2>1. cache' \in Seq(Fresh') /\ Len(cache') = 0 /\ DOMAIN cache' = {}
    BY <1>3
  <2>2. 0 <= MaxSize
    BY IngestAssumption
  <2>3. QED
    BY <1>3, <2>1, <2>2 DEF CacheInv, Keeps
<1>4. ASSUME NEW S \in SUBSET (Logs \ (arrived \cup missed)), NEW written \in BOOLEAN,
             S # {} /\ Arrive(S, written) /\ UNCHANGED vars
      PROVE  CacheInv'
  BY <1>4, ArriveKeeps
<1>5. ASSUME NEW t \in Handlers, PushNext(t) PROVE CacheInv'
  BY <1>1, <1>5 DEF PushNext, OnNewLogs
<1>6. CASE PusherStep
  <2>1. lifecycle' = lifecycle
    BY <1>6 DEF PusherStep, PeriodicFlush, Progress, ServerIngests, PostAccepted,
                PostBadRequest, PostFails, BackoffEnds
  <2>2. QED
    BY <1>1, <1>6, <2>1 DEF PusherStep, ivars
<1>7. CASE GapCheck \/ CloseRecorders \/ UNCHANGED ivarsAll
  BY <1>1, <1>7 DEF GapCheck, CloseRecorders, ivarsAll, vars, ivars
<1>8. ASSUME NEW c \in ChainIds, StartListener(c) \/ StopListener(c) PROVE CacheInv'
  BY <1>1, <1>8 DEF StartListener, StopListener, vars
<1>9. CASE StartPusher \/ StopPusher
  BY <1>1, <1>9 DEF StartPusher, StopPusher, Start, CancelPeriodic, FinalFlush, CloseSession
<1>10. CASE Return
  BY <1>2, <1>10 DEF Return, Exit, ivars
<1>11. CASE Crash
  BY <1>3, <1>11 DEF Crash, Forget
<1>12. ASSUME NEW S, Restart(S) PROVE CacheInv'
  BY <1>3, <1>12 DEF Restart, Forget, Fresh
<1>13. QED
  BY <1>4, <1>5, <1>6, <1>7, <1>8, <1>9, <1>10, <1>11, <1>12 DEF INext

-----------------------------------------------------------------------------
(* The gap check. *)

LEMMA CacheIsFresh ==
  ASSUME ITypeOK, CacheInv
  PROVE  ToSet(cache) \subseteq Fresh /\ Fresh \subseteq Logs
<1>1. \A i \in DOMAIN cache : cache[i] \in Fresh
  BY DEF CacheInv, Keeps
<1>2. QED
  BY <1>1 DEF ToSet, Fresh, ITypeOK

(* The loop goes on to logs that no replay of this process has held.       *)
LEMMA GoOnInv ==
  ASSUME ITypeOK, CacheInv, ReplayOnce, lifecycle = "running",
         NEW todo \in SUBSET ChainIds,
         \A l \in Fresh : ChainOf[l] \in todo => replays[l] = 0,
         NEW last \in [ChainIds -> Nat], NEW clean \in BOOLEAN, GoOn(todo, last, clean),
         UNCHANGED <<lifecycle, arrived, earlier, replays>>
  PROVE  GapTypeOK' /\ GapPhases' /\ ReplayOnce'
<1>1. ToSet(cache) \subseteq Fresh /\ Fresh \subseteq Logs /\ Fresh' = Fresh
  BY CacheIsFresh DEF Fresh
<1>2. CASE gap' = Checked
  BY <1>2 DEF Checked, GapTypeOK, GapPhases, ReplayOnce
<1>3. CASE /\ gap' \in GapRecords
           /\ gap'.phase = "post"
           /\ gap'.chain \in todo
           /\ gap'.logs = Gap(gap'.chain, last[gap'.chain])
           /\ gap'.todo \subseteq todo \ {gap'.chain}
  <2>1. \A l \in gap'.logs : l \in Fresh /\ ChainOf[l] = gap'.chain /\ l \in Logs
    BY <1>1, <1>3, GapIsCached
  <2>2. QED
    BY <1>1, <1>3, <2>1 DEF GapTypeOK, GapPhases, ReplayOnce
<1>4. QED
  BY <1>1, <1>2, <1>3, GoOnGoesTo

LEMMA GapCheckInv ==
  ASSUME ITypeOK, CacheInv, GapPhases, ReplayOnce, GapCheck
  PROVE  GapTypeOK' /\ replays' \in [Logs -> Nat] /\ GapPhases' /\ ReplayOnce'
<1>1. UNCHANGED <<lifecycle, arrived, earlier>> /\ lifecycle = "running"
  BY DEF GapCheck, GapPhases, vars, StatusKnown, StatusUnknown, ReplayTaken,
         ReplayAccepted, ReplayFails
<1>2. replays \in [Logs -> Nat]
  BY DEF ITypeOK
<1>3. gap.phase \in {"post", "taken"} =>
         /\ gap \in GapRecords
         /\ gap.todo \in SUBSET ChainIds
         /\ gap.last \in [ChainIds -> Nat]
         /\ gap.clean \in BOOLEAN
         /\ gap.logs \in SUBSET Logs
  BY DEF ITypeOK, GapTypeOK, NotBegun, Checked, GapRecords
<1>4. CASE StatusKnown
  <2> DEFINE last == [c \in ChainIds |-> Consumed(c)]
             todo == {c \in ChainIds : last[c] > 0}
  <2>1. last \in [ChainIds -> Nat] /\ todo \in SUBSET ChainIds
    BY ConsumedIsNat
  <2>2. GoOn(todo, last, TRUE) /\ replays' = replays /\ gap.phase = "status"
    BY <1>4 DEF StatusKnown
  <2> HIDE DEF last, todo
  <2>3. \A l \in Fresh : replays[l] = 0
    BY <1>1, <2>2 DEF ReplayOnce
  <2>4. QED
    BY <1>1, <1>2, <2>1, <2>2, <2>3, GoOnInv
<1>5. CASE StatusUnknown
  BY <1>1, <1>2, <1>5 DEF StatusUnknown, Checked, GapTypeOK, GapPhases, ReplayOnce
<1>6. CASE ReplayTaken
  <2>1. gap \in GapRecords /\ gap.phase = "post"
    BY <1>3, <1>6 DEF ReplayTaken
  <2>2. /\ gap' \in GapRecords
        /\ gap'.phase = "taken"
        /\ gap'.chain = gap.chain
        /\ gap'.logs = gap.logs
        /\ gap'.todo = gap.todo
    BY <1>6, <2>1 DEF ReplayTaken, GapRecords
  <2>3. \A l \in Logs : replays'[l] = replays[l] + (IF l \in gap.logs THEN 1 ELSE 0)
    BY <1>6 DEF ReplayTaken
  <2>4. replays' \in [Logs -> Nat]
    BY <1>2, <1>6 DEF ReplayTaken
  <2>5. \A l \in gap.logs : l \in Fresh /\ l \in arrived /\ ChainOf[l] = gap.chain /\ replays[l] = 0
    BY <2>1 DEF ReplayOnce, Fresh
  <2>6. \A l \in Logs : replays'[l] <= 1
    BY <1>2, <2>3, <2>5 DEF ReplayOnce
  <2>7. \A l \in Logs : replays'[l] > 0 => l \in arrived'
    BY <1>1, <1>2, <2>3, <2>5 DEF ReplayOnce
  <2>8. \A l \in Fresh' : ChainOf[l] \in gap'.todo => replays'[l] = 0
    <3> SUFFICES ASSUME NEW l \in Fresh, ChainOf[l] \in gap.todo
                 PROVE  replays'[l] = 0
      BY <1>1, <2>2 DEF Fresh
    <3>1. l \in Logs /\ replays[l] = 0
      BY <2>1 DEF ReplayOnce, Fresh, ITypeOK
    <3>2. l \notin gap.logs
      BY <2>1, <2>5 DEF ReplayOnce
    <3>3. QED
      BY <2>3, <3>1, <3>2
  <2>9. ReplayOnce'
    BY <1>1, <2>1, <2>2, <2>5, <2>6, <2>7, <2>8 DEF ReplayOnce, Fresh
  <2>10. QED
    BY <1>1, <2>2, <2>4, <2>9 DEF GapTypeOK, GapPhases
<1>7. ASSUME NEW clean \in BOOLEAN, gap.phase \in {"post", "taken"},
             GoOn(gap.todo, gap.last, clean), replays' = replays
      PROVE  GapTypeOK' /\ replays' \in [Logs -> Nat] /\ GapPhases' /\ ReplayOnce'
  <2>1. \A l \in Fresh : ChainOf[l] \in gap.todo => replays[l] = 0
    BY <1>7 DEF ReplayOnce
  <2>2. QED
    BY <1>1, <1>2, <1>3, <1>7, <2>1, GoOnInv
<1>8. CASE ReplayAccepted \/ ReplayFails
  BY <1>3, <1>7, <1>8 DEF ReplayAccepted, ReplayFails
<1>9. QED
  BY <1>4, <1>5, <1>6, <1>8 DEF GapCheck

-----------------------------------------------------------------------------
(* The composition. *)

LEMMA OnNewLogsMoves ==
  ASSUME NEW t, NEW S, OnNewLogs(t, S)
  PROVE  /\ handed' = handed \cup S
         /\ buffer' \subseteq buffer \cup S
         /\ lifecycle' = lifecycle
         /\ lifecycle # "exited"
  BY DEF OnNewLogs, TakeAll

LEMMA PusherStepMoves ==
  ASSUME TaskLifetimes, PusherStep
  PROVE  /\ UNCHANGED <<ivars, handed, lifecycle>>
         /\ buffer' \subseteq buffer
         /\ lifecycle # "exited"
<1>1. CASE PeriodicFlush
  BY <1>1 DEF PusherStep, PeriodicFlush, TakeAll
<1>2. ASSUME NEW t \in Tasks, Progress(t)
      PROVE  UNCHANGED <<handed, lifecycle, buffer>> /\ lifecycle # "exited"
  <2>1. flush[t].phase # "idle"
    BY <1>2 DEF Progress, ServerIngests, PostAccepted, PostBadRequest, PostFails, BackoffEnds
  <2>2. flush[t] # Idle
    BY <2>1 DEF Idle
  <2>3. QED
    BY <1>2, <2>2 DEF TaskLifetimes, Progress, ServerIngests, PostAccepted, PostBadRequest,
                      PostFails, BackoffEnds
<1>3. QED
  BY <1>1, <1>2 DEF PusherStep

LEMMA ITypeStep ==
  ASSUME ITypeOK, CacheInv, GapPhases, ReplayOnce, [INext]_ivarsAll
  PROVE  ITypeOK'
<1>1. ASSUME UNCHANGED <<arrived, earlier, due, listening, replays, gap>>
      PROVE  ITypeOK'
  BY <1>1 DEF ITypeOK, GapTypeOK
<1>2. ASSUME NEW S \in SUBSET (Logs \ (arrived \cup missed)), NEW written \in BOOLEAN,
             S # {} /\ Arrive(S, written) /\ UNCHANGED vars
      PROVE  ITypeOK'
  <2>1. due' \in Seq(SUBSET Logs)
    BY <1>2, DueAppend DEF Arrive, ITypeOK
  <2>2. QED
    BY <1>2, <2>1 DEF Arrive, ITypeOK, GapTypeOK
<1>3. ASSUME NEW t \in Handlers, PushNext(t) PROVE ITypeOK'
  <2>1. due' \in Seq(SUBSET Logs)
    BY <1>3, DueTail DEF PushNext, ITypeOK
  <2>2. QED
    BY <1>3, <2>1 DEF PushNext, ITypeOK, GapTypeOK
<1>4. CASE PusherStep \/ Return \/ StopPusher \/ CloseRecorders \/ UNCHANGED ivarsAll
  BY <1>1, <1>4 DEF PusherStep, Return, StopPusher, CloseRecorders, ivarsAll, ivars
<1>5. CASE GapCheck
  BY <1>5, GapCheckInv DEF GapCheck, ITypeOK
<1>6. ASSUME NEW c \in ChainIds, StartListener(c) \/ StopListener(c) PROVE ITypeOK'
  BY <1>6 DEF StartListener, StopListener, ITypeOK, GapTypeOK
<1>7. CASE StartPusher
  BY <1>7 DEF StartPusher, ITypeOK, GapTypeOK
<1>8. ASSUME NEW S, Crash \/ Restart(S) PROVE ITypeOK'
  <2>1. /\ UNCHANGED <<arrived, replays>>
        /\ earlier' \in {earlier, arrived}
        /\ due' = <<>> /\ listening' = {} /\ gap' = NotBegun
    BY <1>8 DEF Crash, Restart, Forget
  <2>2. due' \in Seq(SUBSET Logs)
    BY <2>1
  <2>3. QED
    BY <2>1, <2>2 DEF ITypeOK, GapTypeOK
<1>9. QED
  BY <1>2, <1>3, <1>4, <1>5, <1>6, <1>7, <1>8 DEF INext

(* The gap check goes with the lifespan, and replays each log once. *)
LEMMA ReplayStep ==
  ASSUME TypeOK, TaskLifetimes, ITypeOK, CacheInv, Leftovers, GapPhases, ReplayOnce,
         [INext]_ivarsAll
  PROVE  GapPhases' /\ ReplayOnce'
<1>1. ASSUME UNCHANGED <<arrived, earlier, replays, gap, lifecycle>>
      PROVE  GapPhases' /\ ReplayOnce'
  BY <1>1 DEF GapPhases, ReplayOnce, Fresh
<1>2. ASSUME NEW S \in SUBSET (Logs \ (arrived \cup missed)), NEW written \in BOOLEAN,
             S # {} /\ Arrive(S, written) /\ UNCHANGED vars
      PROVE  GapPhases' /\ ReplayOnce'
  <2>1. UNCHANGED <<earlier, replays, gap, lifecycle>> /\ arrived' = arrived \cup S
    BY <1>2 DEF Arrive, vars
  <2>2. \A l \in S : l \in Logs /\ replays[l] = 0
    BY DEF ReplayOnce, ITypeOK
  <2>3. Fresh \subseteq Fresh' /\ \A l \in Fresh' : l \in Fresh \/ l \in S
    BY <2>1 DEF Fresh
  <2>4. QED
    BY <2>1, <2>2, <2>3 DEF GapPhases, ReplayOnce
<1>3. ASSUME NEW t \in Handlers, PushNext(t) PROVE GapPhases' /\ ReplayOnce'
  BY <1>1, <1>3, OnNewLogsMoves DEF PushNext
<1>4. CASE PusherStep
  BY <1>1, <1>4, PusherStepMoves DEF ivars
<1>5. CASE GapCheck
  BY <1>5, GapCheckInv
<1>6. ASSUME NEW c \in ChainIds, StartListener(c) \/ StopListener(c)
      PROVE  GapPhases' /\ ReplayOnce'
  BY <1>1, <1>6 DEF StartListener, StopListener, vars
<1>7. CASE CloseRecorders \/ UNCHANGED ivarsAll
  BY <1>1, <1>7 DEF CloseRecorders, ivarsAll, vars, ivars
<1>8. CASE StartPusher
  <2>1. /\ UNCHANGED <<arrived, earlier, replays>>
        /\ gap' = [phase |-> "status"]
        /\ lifecycle = "created" /\ lifecycle' = "running"
        /\ gap.phase = "off"
    BY <1>8 DEF StartPusher, Start, GapPhases
  <2>2. gap'.phase = "status"
    BY <2>1
  <2>3. QED
    BY <2>1, <2>2 DEF GapPhases, ReplayOnce, Fresh
<1>9. ASSUME UNCHANGED <<arrived, earlier, replays, gap>>, lifecycle # "exited",
             lifecycle' # "created", gap.phase \notin {"status", "post", "taken"}
      PROVE  GapPhases' /\ ReplayOnce'
  BY <1>9 DEF GapPhases, ReplayOnce, Fresh
<1>10. CASE StopPusher
  <2>1. gap.phase = "done"
    BY <1>10 DEF StopPusher, Checked
  <2>2. QED
    BY <1>9, <1>10, <2>1 DEF StopPusher, CancelPeriodic, FinalFlush, CloseSession
<1>11. CASE Return
  <2>1. gap.phase \notin {"status", "post", "taken"}
    BY <1>11 DEF Return, Exit, GapPhases
  <2>2. QED
    BY <1>9, <1>11, <2>1 DEF Return, Exit, ivars
<1>12. ASSUME NEW S, Crash \/ Restart(S) PROVE GapPhases' /\ ReplayOnce'
  <2>1. /\ UNCHANGED <<arrived, replays>>
        /\ gap'.phase = "off"
        /\ lifecycle' = "exited" \/ Fresh' = {}
    BY <1>12 DEF Crash, Restart, Forget, NotBegun, Fresh
  <2>2. QED
    BY <2>1 DEF GapPhases, ReplayOnce
<1>13. QED
  BY <1>2, <1>3, <1>4, <1>5, <1>6, <1>7, <1>8, <1>10, <1>11, <1>12 DEF INext

(* Each log goes on to the pusher, once. *)
LEMMA PusherGetsAllStep ==
  ASSUME TaskLifetimes, ITypeOK, PusherGetsAll, Leftovers, [INext]_ivarsAll
  PROVE  PusherGetsAll'
<1>1. ASSUME UNCHANGED <<arrived, handed, due>>
      PROVE  PusherGetsAll'
  BY <1>1 DEF PusherGetsAll, DueLogs
<1>2. ASSUME NEW S \in SUBSET (Logs \ (arrived \cup missed)), NEW written \in BOOLEAN,
             S # {} /\ Arrive(S, written) /\ UNCHANGED vars
      PROVE  PusherGetsAll'
  <2>1. /\ arrived' = arrived \cup S /\ due' = Append(due, S) /\ handed' = handed
        /\ S \cap arrived = {}
    BY <1>2 DEF Arrive, vars
  <2>2. /\ DueLogs' = DueLogs \cup S
        /\ Len(due') = Len(due) + 1
        /\ due'[Len(due) + 1] = S
        /\ \A i \in 1..Len(due) : due'[i] = due[i]
    BY <2>1, DueAppend DEF ITypeOK
  <2>3. /\ Len(due) \in Nat
        /\ DOMAIN due = 1..Len(due)
        /\ DOMAIN due' = 1..(Len(due) + 1)
    BY <2>1 DEF ITypeOK
  <2>4. \A i \in DOMAIN due : due[i] \cap S = {}
    BY <2>1, <2>3, InDueLogs DEF ITypeOK, PusherGetsAll
  <2>5. ASSUME NEW i \in DOMAIN due', NEW j \in DOMAIN due', i # j
        PROVE  due'[i] \cap due'[j] = {}
    <3>1. (i \in DOMAIN due \/ i = Len(due) + 1) /\ (j \in DOMAIN due \/ j = Len(due) + 1)
      BY <2>3
    <3>2. CASE i \in DOMAIN due /\ j \in DOMAIN due
      BY <2>2, <2>3, <2>5, <3>2 DEF PusherGetsAll
    <3>3. CASE i = Len(due) + 1
      BY <2>2, <2>3, <2>4, <2>5, <3>1, <3>3
    <3>4. CASE j = Len(due) + 1
      BY <2>2, <2>3, <2>4, <2>5, <3>1, <3>4
    <3>5. QED
      BY <3>1, <3>2, <3>3, <3>4
  <2>6. QED
    BY <2>1, <2>2, <2>5 DEF PusherGetsAll
<1>3. ASSUME NEW t \in Handlers, PushNext(t) PROVE PusherGetsAll'
  <2>1. /\ handed' = handed \cup Head(due) /\ arrived' = arrived
        /\ due # <<>> /\ due' = Tail(due)
    BY <1>3, OnNewLogsMoves DEF PushNext
  <2>2. /\ due' \in Seq(SUBSET Logs)
        /\ Head(due) = due[1]
        /\ DueLogs = DueLogs' \cup Head(due)
        /\ Len(due') = Len(due) - 1
        /\ \A i \in 1..Len(due') : due'[i] = due[i + 1]
    BY <2>1, DueTail DEF ITypeOK
  <2>3. /\ Len(due) \in Nat
        /\ DOMAIN due = 1..Len(due)
        /\ DOMAIN due' = 1..(Len(due) - 1)
    BY <2>2 DEF ITypeOK
  <2>4. \A i, j \in DOMAIN due' : i # j => due'[i] \cap due'[j] = {}
    <3> SUFFICES ASSUME NEW i \in DOMAIN due', NEW j \in DOMAIN due', i # j
                 PROVE  due'[i] \cap due'[j] = {}
      OBVIOUS
    <3>1. i + 1 \in DOMAIN due /\ j + 1 \in DOMAIN due /\ i + 1 # j + 1
      BY <2>3
    <3>2. QED
      BY <2>2, <2>3, <3>1 DEF PusherGetsAll
  <2>5. Head(due) \cap DueLogs' = {}
    <3> SUFFICES ASSUME NEW l \in Head(due), l \in DueLogs'
                 PROVE  FALSE
      OBVIOUS
    <3>1. PICK i \in DOMAIN due' : l \in due'[i]
      BY DEF DueLogs, ToSet
    <3>2. i + 1 \in DOMAIN due /\ 1 \in DOMAIN due /\ i + 1 # 1
      BY <2>3, <3>1
    <3>3. l \in due[i + 1] /\ l \in due[1]
      BY <2>2, <2>3, <3>1
    <3>4. QED
      BY <3>2, <3>3 DEF PusherGetsAll
  <2>6. QED
    BY <2>1, <2>2, <2>4, <2>5 DEF PusherGetsAll
<1>4. CASE PusherStep
  BY <1>1, <1>4, PusherStepMoves DEF ivars
<1>5. CASE GapCheck \/ CloseRecorders \/ UNCHANGED ivarsAll
  BY <1>1, <1>5 DEF GapCheck, CloseRecorders, ivarsAll, vars, ivars
<1>6. ASSUME NEW c \in ChainIds, StartListener(c) \/ StopListener(c)
      PROVE  PusherGetsAll'
  BY <1>1, <1>6 DEF StartListener, StopListener, vars
<1>7. CASE StartPusher \/ StopPusher \/ Return
  BY <1>1, <1>7 DEF StartPusher, StopPusher, Return, Start, CancelPeriodic, FinalFlush,
                    TakeAll, CloseSession, Exit, ivars
<1>8. ASSUME NEW S, Crash \/ Restart(S) PROVE PusherGetsAll'
  <2>1. DueLogs' = {} /\ DOMAIN due' = {}
    BY <1>8 DEF Crash, Restart, Forget, DueLogs, ToSet
  <2>2. arrived' = handed'
    <3>1. CASE Crash
      BY <3>1 DEF Crash, PusherGetsAll
    <3>2. CASE Restart(S)
      <4>1. DueLogs = {}
        BY <3>2 DEF Restart, Leftovers, DueLogs, ToSet
      <4>2. QED
        BY <3>2, <4>1 DEF Restart, PusherGetsAll
    <3>3. QED
      BY <1>8, <3>1, <3>2
  <2>3. QED
    BY <2>1, <2>2 DEF PusherGetsAll
<1>9. QED
  BY <1>2, <1>3, <1>4, <1>5, <1>6, <1>7, <1>8 DEF INext

(* What the last flush of stop() leaves behind. *)
(* Only Arrive adds to what has to be recorded; what it leaves out raised  *)
(* or is late.                                                             *)
LEMMA RecordersStep ==
  ASSUME TaskLifetimes, ITypeOK, Leftovers, RecordersInv, [INext]_ivarsAll
  PROVE  RecordersInv'
<1>1. ASSUME UNCHANGED <<rows, arrived, earlier, raised, recording>>, late \subseteq late',
             recording \/ lifecycle' \in {"stopped", "exited"}
      PROVE  RecordersInv'
  BY <1>1 DEF RecordersInv, RecordersGetAll, Fresh
<1>2. ASSUME NEW S \in SUBSET (Logs \ (arrived \cup missed)), NEW written \in BOOLEAN,
             S # {} /\ Arrive(S, written) /\ UNCHANGED vars
      PROVE  RecordersInv'
  <2>1. /\ UNCHANGED <<lifecycle, recording, earlier>>
        /\ lifecycle # "exited"
        /\ Fresh' \subseteq Fresh \cup S
        /\ rows' = IF recording /\ written THEN rows \cup S ELSE rows
        /\ raised' = IF written THEN raised ELSE raised \cup S
        /\ late' = IF AfterLastFlush THEN late \cup S ELSE late
    BY <1>2 DEF Arrive, Leftovers, Fresh, vars
  <2>2. CASE recording
    BY <2>1, <2>2 DEF RecordersInv, RecordersGetAll
  <2>3. CASE ~recording
    <3>1. AfterLastFlush
      BY <2>1, <2>3 DEF RecordersInv, AfterLastFlush
    <3>2. QED
      BY <2>1, <2>3, <3>1 DEF RecordersInv, RecordersGetAll
  <2>4. QED
    BY <2>2, <2>3
<1>3. ASSUME NEW t \in Handlers, PushNext(t) PROVE RecordersInv'
  BY <1>1, <1>3, OnNewLogsMoves DEF PushNext, RecordersInv
<1>4. CASE PusherStep
  BY <1>1, <1>4, PusherStepMoves DEF ivars, RecordersInv
<1>5. CASE GapCheck \/ UNCHANGED ivarsAll
  BY <1>1, <1>5 DEF GapCheck, ivarsAll, vars, ivars, RecordersInv
<1>6. ASSUME NEW c \in ChainIds, StartListener(c) \/ StopListener(c)
      PROVE  RecordersInv'
  BY <1>1, <1>6 DEF StartListener, StopListener, vars, RecordersInv
<1>7. CASE StartPusher \/ StopPusher \/ Return
  <2>1. UNCHANGED <<rows, arrived, earlier, raised, recording>> /\ late \subseteq late'
    BY <1>7 DEF StartPusher, StopPusher, Return, ivars
  <2>2. recording \/ lifecycle' \in {"stopped", "exited"}
    BY <1>7 DEF StartPusher, StopPusher, Return, Start, CancelPeriodic, FinalFlush,
                CloseSession, Exit, RecordersInv
  <2>3. QED
    BY <1>1, <2>1, <2>2
<1>8. ASSUME UNCHANGED <<rows, arrived, earlier, late, raised>>, ~recording',
             lifecycle' \in {"stopped", "exited"}
      PROVE  RecordersInv'
  BY <1>8 DEF RecordersInv, RecordersGetAll, Fresh
<1>9. CASE CloseRecorders
  BY <1>8, <1>9 DEF CloseRecorders, vars
<1>10. CASE Crash
  BY <1>8, <1>10 DEF Crash
<1>11. ASSUME NEW S, Restart(S) PROVE RecordersInv'
  <2>1. recording' /\ Fresh' = {}
    BY <1>11 DEF Restart, Fresh
  <2>2. QED
    BY <2>1 DEF RecordersInv, RecordersGetAll
<1>12. QED
  BY <1>2, <1>3, <1>4, <1>5, <1>6, <1>7, <1>9, <1>10, <1>11 DEF INext

(* What CacheInv says of positions, said of the logs.                      *)
LEMMA CacheLacksNothingElse == CacheInv => CacheGetsAll
<1> SUFFICES ASSUME CacheInv, lifecycle # "exited", NEW l \in Fresh \ ToSet(cache)
             PROVE  \/ Cardinality(Fresh) > MaxSize
                    \/ \E m \in Fresh \ {l} : KeyOf[m] = KeyOf[l]
  BY DEF CacheGetsAll
<1>1. ~\E i \in DOMAIN cache : cache[i] = l
  BY DEF ToSet
<1>2. QED
  BY <1>1 DEF CacheInv, Keeps

LEMMA LeftoversStep ==
  ASSUME TaskLifetimes, ITypeOK, Leftovers, [INext]_ivarsAll
  PROVE  Leftovers'
<1>1. ASSUME UNCHANGED <<lifecycle, late, due>>, buffer' \subseteq buffer, listening' \subseteq listening
      PROVE  Leftovers'
  BY <1>1 DEF Leftovers, DueLogs
<1>2. ASSUME lifecycle' \in {"created", "running", "stopping"}
      PROVE  Leftovers'
  BY <1>2 DEF Leftovers
<1>3. ASSUME NEW S \in SUBSET (Logs \ (arrived \cup missed)), NEW written \in BOOLEAN,
             S # {} /\ Arrive(S, written) /\ UNCHANGED vars
      PROVE  Leftovers'
  <2>1. lifecycle # "exited" /\ UNCHANGED <<lifecycle, buffer>>
    BY <1>3 DEF Arrive, Leftovers, vars
  <2>2. DueLogs' = DueLogs \cup S
    BY <1>3, DueAppend DEF Arrive, ITypeOK
  <2>3. late' = IF lifecycle \in {"flushing", "stopped"} THEN late \cup S ELSE late
    BY <1>3 DEF Arrive, AfterLastFlush
  <2>4. QED
    BY <2>1, <2>2, <2>3 DEF Leftovers
<1>4. ASSUME NEW t \in Handlers, PushNext(t) PROVE Leftovers'
  <2>1. DueLogs = DueLogs' \cup Head(due)
    BY <1>4, DueTail DEF PushNext, ITypeOK
  <2>2. UNCHANGED <<lifecycle, late>> /\ lifecycle # "exited" /\ buffer' \subseteq buffer \cup Head(due)
    BY <1>4, OnNewLogsMoves DEF PushNext
  <2>3. QED
    BY <2>1, <2>2 DEF Leftovers
<1>5. CASE PusherStep
  BY <1>1, <1>5, PusherStepMoves DEF ivars
<1>6. CASE GapCheck \/ CloseRecorders \/ UNCHANGED ivarsAll
  BY <1>1, <1>6 DEF GapCheck, CloseRecorders, ivarsAll, vars, ivars
<1>7. ASSUME NEW c \in ChainIds, StartListener(c) PROVE Leftovers'
  BY <1>2, <1>7 DEF StartListener, vars
<1>8. ASSUME NEW c \in ChainIds, StopListener(c) PROVE Leftovers'
  BY <1>1, <1>8 DEF StopListener, vars
<1>9. CASE StartPusher
  BY <1>2, <1>9 DEF StartPusher, Start
<1>10. CASE StopPusher
  <2>1. CASE CancelPeriodic
    BY <1>2, <2>1 DEF CancelPeriodic
  <2>2. CASE FinalFlush
    <3>1. /\ buffer' = {} /\ due' = due
          /\ late' = late \cup DueLogs /\ lifecycle' = "flushing"
      BY <1>10, <2>2 DEF StopPusher, FinalFlush, TakeAll
    <3>2. QED
      BY <3>1 DEF Leftovers, DueLogs
  <2>3. CASE CloseSession
    <3>1. UNCHANGED <<late, due, buffer>> /\ lifecycle = "flushing" /\ lifecycle' = "stopped"
      BY <1>10, <2>3 DEF StopPusher, CloseSession
    <3>2. QED
      BY <3>1 DEF Leftovers, DueLogs
  <2>4. QED
    BY <1>10, <2>1, <2>2, <2>3 DEF StopPusher
<1>11. CASE Return
  <2>1. /\ UNCHANGED <<late, due, buffer, listening>> /\ lifecycle = "stopped"
        /\ listening = {} /\ due = <<>>
    BY <1>11 DEF Return, Exit, ivars
  <2>2. QED
    BY <2>1 DEF Leftovers, DueLogs
<1>12. CASE Crash
  BY <1>12 DEF Crash, Forget, Leftovers, DueLogs, ToSet
<1>13. ASSUME NEW S, Restart(S) PROVE Leftovers'
  BY <1>2, <1>13 DEF Restart
<1>14. QED
  BY <1>3, <1>4, <1>5, <1>6, <1>7, <1>8, <1>9, <1>10, <1>11, <1>12, <1>13 DEF INext

(* A process that has ended changes no more, until the next one starts. *)
LEMMA OnlyLateStep ==
  ASSUME PusherInv, PusherInv', ITypeOK, PusherGetsAll, Leftovers, GapPhases,
         OnlyLateLogsAreLeft, [INext]_ivarsAll
  PROVE  OnlyLateLogsAreLeft'
<1>1. ASSUME UNCHANGED <<lifecycle, arrived, earlier, late, outcome>>
      PROVE  OnlyLateLogsAreLeft'
  BY <1>1 DEF OnlyLateLogsAreLeft, Settled
<1>2. ASSUME lifecycle' # "exited"
      PROVE  OnlyLateLogsAreLeft'
  BY <1>2 DEF OnlyLateLogsAreLeft
<1>3. ASSUME NEW S \in SUBSET (Logs \ (arrived \cup missed)), NEW written \in BOOLEAN,
             S # {} /\ Arrive(S, written) /\ UNCHANGED vars
      PROVE  OnlyLateLogsAreLeft'
  BY <1>2, <1>3 DEF Arrive, Leftovers, vars
<1>4. ASSUME NEW t \in Handlers, PushNext(t) PROVE OnlyLateLogsAreLeft'
  BY <1>2, <1>4, OnNewLogsMoves DEF PushNext
<1>5. CASE PusherStep
  BY <1>2, <1>5, PusherStepMoves DEF PusherInv
<1>6. CASE GapCheck \/ CloseRecorders \/ UNCHANGED ivarsAll
  BY <1>1, <1>6 DEF GapCheck, CloseRecorders, ivarsAll, vars, ivars
<1>7. ASSUME NEW c \in ChainIds, StartListener(c) \/ StopListener(c)
      PROVE  OnlyLateLogsAreLeft'
  BY <1>1, <1>7 DEF StartListener, StopListener, vars
<1>8. CASE StartPusher \/ StopPusher
  BY <1>2, <1>8 DEF StartPusher, StopPusher, Start, CancelPeriodic, FinalFlush, CloseSession
<1>9. CASE Return
  <2>1. /\ UNCHANGED <<arrived, earlier, late, buffer, handed>> /\ lifecycle = "stopped"
        /\ DueLogs = {}
        /\ \A t \in Tasks : flush'[t] = Idle
    BY <1>9 DEF Return, Exit, ivars, DueLogs, ToSet
  <2>2. arrived = handed /\ buffer \subseteq late
    BY <2>1 DEF PusherGetsAll, Leftovers
  <2>3. \A t \in Tasks : flush'[t].todo = {}
    BY <2>1 DEF Idle
  <2>4. handed' \subseteq buffer' \cup Settled'
    BY <2>3 DEF PusherInv, OneOwner
  <2>5. QED
    BY <2>1, <2>2, <2>4 DEF OnlyLateLogsAreLeft
<1>10. CASE Crash
  <2>1. /\ arrived' = handed'
        /\ buffer' = {}
        /\ \A t \in Tasks : flush'[t].todo = {}
    BY <1>10 DEF Crash, Forget, Idle, PusherGetsAll
  <2>2. handed' \subseteq Settled'
    BY <2>1 DEF PusherInv, OneOwner
  <2>3. QED
    BY <2>1, <2>2 DEF OnlyLateLogsAreLeft
<1>11. ASSUME NEW S, Restart(S) PROVE OnlyLateLogsAreLeft'
  BY <1>2, <1>11 DEF Restart
<1>12. QED
  BY <1>3, <1>4, <1>5, <1>6, <1>7, <1>8, <1>9, <1>10, <1>11 DEF INext

LEMMA IInvInit == IInit => IInv
<1> SUFFICES ASSUME IInit PROVE IInv
  OBVIOUS
<1>1. PusherInv
  BY InitTypes, InitOwner, InitDisciplined DEF IInit, PusherInv
<1>2. /\ due \in Seq(SUBSET Logs) /\ DueLogs = {} /\ DOMAIN due = {}
      /\ Fresh = {}
  BY DEF IInit, DueLogs, ToSet, Fresh
<1>3. ITypeOK
  BY <1>2 DEF IInit, ITypeOK, GapTypeOK
<1>4. CacheInv
  <2>1. cache \in Seq(Fresh) /\ Len(cache) = 0 /\ DOMAIN cache = {} /\ 0 <= MaxSize
    BY IngestAssumption DEF IInit
  <2>2. QED
    BY <1>2, <2>1 DEF CacheInv, Keeps
<1>5. PusherGetsAll /\ Leftovers /\ OnlyLateLogsAreLeft
  BY <1>2 DEF IInit, Init, PusherGetsAll, Leftovers, OnlyLateLogsAreLeft
<1>6. RecordersInv
  BY <1>2 DEF IInit, RecordersInv, RecordersGetAll
<1>7. GapPhases /\ ReplayOnce
  BY <1>2 DEF IInit, Init, NotBegun, GapPhases, ReplayOnce
<1>8. QED
  BY <1>1, <1>3, <1>4, <1>5, <1>6, <1>7 DEF IInv

LEMMA IInvStep == IInv /\ [INext]_ivarsAll => IInv'
<1> SUFFICES ASSUME IInv, [INext]_ivarsAll PROVE IInv'
  OBVIOUS
<1> USE DEF IInv
<1>1. PusherInv'
  BY PusherStepInv
<1>2. ITypeOK' /\ CacheInv' /\ PusherGetsAll' /\ RecordersInv' /\ Leftovers'
  BY ITypeStep, CacheStep, PusherGetsAllStep, RecordersStep, LeftoversStep DEF PusherInv
<1>3. GapPhases' /\ ReplayOnce'
  BY ReplayStep DEF PusherInv
<1>4. OnlyLateLogsAreLeft'
  BY <1>1, OnlyLateStep
<1>5. QED
  BY <1>1, <1>2, <1>3, <1>4

LEMMA IInvHolds == ISpec => []IInv
  BY IInvInit, IInvStep, PTL DEF ISpec, ivarsAll

(* The composed pusher keeps what LogPusher alone keeps, over restarts:    *)
(* each log given to it is in one place, and sent only as often as         *)
(* attempts were made.                                                     *)
THEOREM PusherSurvivesRestarts == ISpec => [](OneOwner /\ AttemptDiscipline)
<1>1. IInv => OneOwner /\ AttemptDiscipline
  BY DEF IInv, PusherInv
<1>2. QED
  BY <1>1, IInvHolds, PTL

(* _on_logs_received, for any keys and sizes, however often a recorder     *)
(* raises and wherever a crash or the shutdown comes in between: pusher,   *)
(* recorders and cache each lack only what they refused themselves.        *)
THEOREM EverySinkIsServed == ISpec => []SinksAreIndependent
<1>1. IInv => SinksAreIndependent
  BY CacheLacksNothingElse DEF IInv, RecordersInv, SinksAreIndependent
<1>2. QED
  BY <1>1, IInvHolds, PTL

(* The shutdown of the lifespan, whatever the listeners still deliver.     *)
THEOREM ShutdownLeavesOnlyLateLogs == ISpec => []OnlyLateLogsAreLeft
<1>1. IInv => OnlyLateLogsAreLeft
  BY DEF IInv
<1>2. QED
  BY <1>1, IInvHolds, PTL

(* The push path and the replay together, over any number of processes.    *)
THEOREM PushAndReplayAreBounded == ISpec => []DeliveriesAreBounded
<1>1. IInv => DeliveriesAreBounded
  <2> SUFFICES ASSUME IInv, NEW l \in Logs
               PROVE  ingests[l] + replays[l] <= RetryAttempts + 1
    BY DEF DeliveriesAreBounded
  <2>1. ingests[l] \in Nat /\ ingests[l] <= RetryAttempts
    BY DEF IInv, PusherInv, TypeOK, DeliveryBound
  <2>2. replays[l] \in Nat /\ replays[l] <= 1
    BY DEF IInv, ITypeOK, ReplayOnce
  <2>3. QED
    BY <2>1, <2>2, PusherAssumption
<1>2. QED
  BY <1>1, IInvHolds, PTL

-----------------------------------------------------------------------------
(* What a replay sends. *)

(* The first page of the query, newest first. *)
LEMMA GapIsNewest ==
  ASSUME ToSet(cache) \subseteq Logs, NEW c, NEW n,
         NEW l \in ToSet(cache), ChainOf[l] = c, BlockOf[l] > n, l \notin Gap(c, n),
         NEW m \in Gap(c, n)
  PROVE  BlockOf[l] < BlockOf[m]
<1> DEFINE newer == {k \in ToSet(cache) : ChainOf[k] = c /\ BlockOf[k] > n}
           Above(k) == {x \in newer : BlockOf[x] > BlockOf[k]}
<1>1. l \in newer /\ m \in newer
  BY DEF Gap
<1>2. IsFiniteSet(newer) /\ \A k \in newer : BlockOf[k] \in Nat
  <2>1. newer \in SUBSET Logs
    OBVIOUS
  <2>2. QED
    BY <2>1, PusherAssumption, FS_Subset
<1>3. Cardinality(Above(m)) < PageLimit /\ ~ (Cardinality(Above(l)) < PageLimit)
  BY <1>1 DEF Gap
<1> HIDE DEF newer
<1>4. SUFFICES ASSUME BlockOf[m] <= BlockOf[l]
               PROVE  FALSE
  BY <1>1, <1>2
<1>5. Above(l) \in SUBSET Above(m)
  BY <1>1, <1>2, <1>4
<1>6. IsFiniteSet(Above(m)) /\ IsFiniteSet(Above(l))
  BY <1>2, FS_Subset
<1> HIDE DEF Above
<1>7. /\ Cardinality(Above(l)) <= Cardinality(Above(m))
      /\ Cardinality(Above(l)) \in Nat
      /\ Cardinality(Above(m)) \in Nat
  BY <1>5, <1>6, FS_Subset, FS_CardinalityType
<1>8. PageLimit \in Nat
  BY IngestAssumption
<1>9. QED
  BY <1>3, <1>7, <1>8

(* _check_and_replay_gaps, for any cache and page size: what is left out   *)
(* is older than all that is sent, or was not in the cache any more.       *)
THEOREM ReplaysAreTheNewest == ISpec => ReplaySendsTheNewest
<1>1. ASSUME IInv, [INext]_ivarsAll, gap'.phase = "post", gap' # gap,
             NEW l \in arrived \ (earlier \cup gap'.logs),
             ChainOf[l] = gap'.chain, BlockOf[l] > gap'.last[gap'.chain]
      PROVE  \/ \A m \in gap'.logs : BlockOf[l] < BlockOf[m]
             \/ Cardinality(arrived \ earlier) > MaxSize
             \/ \E m \in arrived \ {l} : KeyOf[m] = KeyOf[l]
  <2>1. ToSet(cache) \subseteq Fresh /\ Fresh \subseteq Logs /\ l \in Fresh
    BY <1>1, CacheIsFresh DEF IInv, Fresh
  <2>2. GapCheck
    BY <1>1 DEF INext, Arrive, PushNext, PusherStep, StartListener, StopListener,
                StartPusher, StopPusher, CloseRecorders, Return, Crash, Restart, Forget,
                NotBegun, ivars, ivarsAll
  <2>3. gap' # Checked
    BY <1>1 DEF Checked
  <2>4. /\ lifecycle # "exited"
        /\ gap'.logs = Gap(gap'.chain, gap'.last[gap'.chain])
    <3>1. ASSUME NEW todo \in SUBSET ChainIds, NEW last \in [ChainIds -> Nat],
                 NEW clean \in BOOLEAN, GoOn(todo, last, clean)
          PROVE  gap'.logs = Gap(gap'.chain, gap'.last[gap'.chain])
      BY <2>1, <2>3, <3>1, GoOnGoesTo
    <3>2. gap.phase \in {"post", "taken"} =>
             /\ gap.todo \in SUBSET ChainIds
             /\ gap.last \in [ChainIds -> Nat]
             /\ gap.clean \in BOOLEAN
      BY <1>1 DEF IInv, ITypeOK, GapTypeOK, NotBegun, Checked, GapRecords
    <3>3. gap.phase \in {"status", "post", "taken"}
      BY <2>2 DEF GapCheck, StatusKnown, StatusUnknown, ReplayTaken, ReplayAccepted, ReplayFails
    <3>4. CASE StatusKnown
      <4> DEFINE last == [c \in ChainIds |-> Consumed(c)]
                 todo == {c \in ChainIds : last[c] > 0}
      <4>1. last \in [ChainIds -> Nat] /\ todo \in SUBSET ChainIds
        BY ConsumedIsNat
      <4>2. GoOn(todo, last, TRUE)
        BY <3>4 DEF StatusKnown
      <4> HIDE DEF last, todo
      <4>3. gap'.logs = Gap(gap'.chain, gap'.last[gap'.chain])
        BY <3>1, <4>1, <4>2
      <4>4. QED
        BY <1>1, <3>3, <4>3 DEF IInv, GapPhases
    <3>5. CASE StatusUnknown
      BY <2>3, <3>5 DEF StatusUnknown
    <3>6. CASE ReplayTaken
      <4>1. gap' = [gap EXCEPT !.phase = "taken"] /\ gap \in GapRecords
        BY <1>1, <3>6 DEF ReplayTaken, IInv, ITypeOK, GapTypeOK, NotBegun, Checked, GapRecords
      <4>2. gap'.phase = "taken"
        BY <4>1 DEF GapRecords
      <4>3. QED
        BY <1>1, <4>2
    <3>7. CASE ReplayAccepted \/ ReplayFails
      BY <1>1, <3>1, <3>2, <3>3, <3>7 DEF ReplayAccepted, ReplayFails, IInv, GapPhases
    <3>8. QED
      BY <2>2, <3>4, <3>5, <3>6, <3>7 DEF GapCheck
  <2>5. \/ \E i \in DOMAIN cache : cache[i] = l
        \/ Cardinality(Fresh) > MaxSize
        \/ \E m \in Fresh \ {l} : KeyOf[m] = KeyOf[l]
    BY <1>1, <2>1, <2>4 DEF IInv, CacheInv, Keeps
  <2>6. CASE \E i \in DOMAIN cache : cache[i] = l
    <3>1. l \in ToSet(cache) /\ ToSet(cache) \subseteq Logs
      BY <2>1, <2>6 DEF ToSet
    <3>2. \A m \in gap'.logs : BlockOf[l] < BlockOf[m]
      BY <1>1, <2>4, <3>1, GapIsNewest
    <3>3. QED
      BY <3>2
  <2>7. QED
    BY <2>5, <2>6 DEF Fresh
<1>2. IInv /\ [INext]_ivarsAll =>
        [gap'.phase = "post" /\ gap' # gap =>
           \A l \in arrived \ (earlier \cup gap'.logs) :
             /\ ChainOf[l] = gap'.chain
             /\ BlockOf[l] > gap'.last[gap'.chain]
             => \/ \A m \in gap'.logs : BlockOf[l] < BlockOf[m]
                \/ Cardinality(arrived \ earlier) > MaxSize
                \/ \E m \in arrived \ {l} : KeyOf[m] = KeyOf[l]]_ivarsAll
  BY <1>1
<1>3. QED
  BY <1>2, IInvHolds, PTL DEF ISpec, ReplaySendsTheNewest, ivarsAll
=============================================================================
