-------------------------- MODULE LogPusherProofs --------------------------
(* Theorems about LogPusher for all logs, chains, handlers, batch sizes    *)
(* and retry limits, checked by TLAPS.                                     *)
EXTENDS LogPusher, FiniteSetTheorems, NaturalsInduction, TLAPS

(* A step of the pusher, however many logs it is handed and in whatever     *)
(* order: what the proofs need of Next, and what Ingest does with it too.  *)
PusherNext ==
  \/ \E t \in Handlers, S \in SUBSET (Logs \ handed) : OnNewLogs(t, S)
  \/ PeriodicFlush
  \/ \E t \in Tasks : Progress(t)
  \/ Lifespan

LEMMA NextIsPusherNext == [Next]_vars => [PusherNext]_vars
  BY DEF Next, PusherNext

LEMMA LeastExists ==
  ASSUME NEW S \in SUBSET Nat, S # {}
  PROVE  \E x \in S : \A y \in S : x <= y
<1>1. PICK x \in S : \A y \in S : ~ (<<y, x>> \in OpToRel(<, Nat))
  BY NatLessThanWellFounded, WFMin
<1>2. \A y \in S : ~ (y < x)
  BY <1>1 DEF OpToRel
<1>3. QED
  BY <1>2

Counters == [buffer_size : Nat, total_pushed : Nat,
              total_retried : Nat, total_failed : Nat]

(* Counting what a step adds to the statistics stays within the naturals.  *)
LEMMA BatchesIsNat ==
  ASSUME NEW S \in SUBSET Logs
  PROVE  Batches(S) \in Nat
<1>1. IsFiniteSet(S)
  BY PusherAssumption, FS_Subset
<1>2. IsFiniteSet({ChainOf[l] : l \in S})
  <2> DEFINE T == {ChainOf[l] : l \in S}
             f == [l \in S |-> ChainOf[l]]
  <2>1. f \in Surjection(S, T)
    BY DEF Surjection
  <2>2. QED
    BY <1>1, <2>1, FS_Surjection
<1>3. QED
  BY <1>2, FS_CardinalityType DEF Batches

LEMMA BufferCardinality ==
  ASSUME NEW S \in SUBSET Logs
  PROVE  Cardinality(S) \in Nat
  BY PusherAssumption, FS_Subset, FS_CardinalityType

(* The state in which a task begins to send, and what it gives up.         *)
LEMMA BeginType ==
  ASSUME NEW S \in SUBSET Logs
  PROVE  /\ Begin(S) \in TaskState
         /\ Retries(S) \in Nat
         /\ FailsAtOnce(S) \in SUBSET Logs
  BY PusherAssumption
     DEF Begin, Retries, FailsAtOnce, Attempt, Idle, TaskState, CanPost

LEMMA TodoType ==
  ASSUME TypeOK, NEW t \in Tasks
  PROVE  /\ flush[t].todo \in SUBSET Logs
         /\ flush[t].attempt \in 0..RetryAttempts
  BY DEF TypeOK, TaskState

LEMMA CurrentSubset ==
  ASSUME NEW S \in SUBSET Logs
  PROVE  /\ Current(S) \subseteq S
         /\ Current(S) \in SUBSET Logs
  BY DEF Current

-----------------------------------------------------------------------------
(* Type correctness. *)

LEMMA TakeAllType ==
  ASSUME TypeOK, NEW t \in Tasks, NEW S \in SUBSET Logs, TakeAll(t, S)
  PROVE  /\ buffer' \in SUBSET Logs
         /\ flush' \in [Tasks -> TaskState]
         /\ stats' \in Counters
         /\ outcome' \in [Outcomes -> SUBSET Logs]
<1>1. Begin(S) \in TaskState /\ Retries(S) \in Nat /\ FailsAtOnce(S) \in SUBSET Logs
  BY BeginType
<1>2. Batches(FailsAtOnce(S)) \in Nat
  BY <1>1, BatchesIsNat
<1>3. buffer' \in SUBSET Logs /\ flush' \in [Tasks -> TaskState]
  BY <1>1 DEF TakeAll, TypeOK
<1>4. stats' \in Counters
  <2>1. /\ stats.total_retried + Retries(S) \in Nat
        /\ stats.total_failed + Batches(FailsAtOnce(S)) \in Nat
    BY <1>1, <1>2 DEF TypeOK
  <2>2. QED
    BY <2>1 DEF TakeAll, TypeOK, Counters
<1>5. outcome' \in [Outcomes -> SUBSET Logs]
  BY <1>1 DEF TakeAll, Settle, TypeOK
<1>6. QED
  BY <1>3, <1>4, <1>5

LEMMA FinishBatchType ==
  ASSUME TypeOK, NEW t \in Tasks, NEW o \in Outcomes, FinishBatch(t, o)
  PROVE  /\ flush' \in [Tasks -> TaskState]
         /\ stats' \in Counters
         /\ outcome' \in [Outcomes -> SUBSET Logs]
<1> DEFINE batch == Current(flush[t].todo)
           rest  == flush[t].todo \ batch
<1>1. batch \in SUBSET Logs /\ rest \in SUBSET Logs
  BY CurrentSubset, TodoType
<1>2. Begin(rest) \in TaskState /\ Retries(rest) \in Nat /\ FailsAtOnce(rest) \in SUBSET Logs
  BY <1>1, BeginType
<1>3. Batches(FailsAtOnce(rest)) \in Nat
  BY <1>2, BatchesIsNat
<1> HIDE DEF batch, rest
<1>4. flush' = [flush EXCEPT ![t] = Begin(rest)]
  BY DEF FinishBatch, batch, rest
<1>5. flush' \in [Tasks -> TaskState]
  BY <1>2, <1>4 DEF TypeOK
<1>6. stats' = [stats EXCEPT
            !.total_pushed = @ + (IF o = "dropped" THEN 0 ELSE 1),
            !.total_retried = @ + Retries(rest),
            !.total_failed = @ + (IF o = "dropped" THEN 1 ELSE 0)
                               + Batches(FailsAtOnce(rest))]
  BY DEF FinishBatch, batch, rest
<1>7. stats' \in Counters
  <2>1. /\ stats.total_pushed + (IF o = "dropped" THEN 0 ELSE 1) \in Nat
        /\ stats.total_retried + Retries(rest) \in Nat
        /\ stats.total_failed + (IF o = "dropped" THEN 1 ELSE 0)
                              + Batches(FailsAtOnce(rest)) \in Nat
    BY <1>2, <1>3 DEF TypeOK
  <2>2. QED
    BY <1>6, <2>1 DEF TypeOK, Counters
<1>8. Settle(batch, o, rest)
  BY DEF FinishBatch, batch, rest
<1>9. outcome' \in [Outcomes -> SUBSET Logs]
  BY <1>1, <1>2, <1>8 DEF Settle, TypeOK
<1>10. QED
  BY <1>5, <1>7, <1>9

LEMMA FailedAttemptType ==
  ASSUME TypeOK, NEW t \in Tasks, NEW n \in Nat, FailedAttempt(t, n)
  PROVE  /\ flush' \in [Tasks -> TaskState]
         /\ stats' \in Counters
         /\ outcome' \in [Outcomes -> SUBSET Logs]
<1>1. CASE MayRetry(n)
  <2>1. [todo |-> flush[t].todo, attempt |-> n, phase |-> "backoff"] \in TaskState
    BY <1>1, PusherAssumption DEF TypeOK, TaskState, MayRetry
  <2>2. flush' \in [Tasks -> TaskState]
    BY <1>1, <2>1 DEF FailedAttempt, TypeOK, TaskState
  <2>3. stats.total_retried + 1 \in Nat
    BY DEF TypeOK
  <2>4. stats' = [stats EXCEPT !.total_retried = @ + 1] /\ outcome' = outcome
    BY <1>1 DEF FailedAttempt
  <2>5. stats' \in Counters
    BY <2>3, <2>4 DEF TypeOK, Counters
  <2>6. QED
    BY <2>2, <2>4, <2>5 DEF TypeOK
<1>2. CASE ~MayRetry(n)
  <2>1. FinishBatch(t, "dropped")
    BY <1>2 DEF FailedAttempt
  <2>2. QED
    BY <2>1, FinishBatchType DEF Outcomes
<1>3. QED
  BY <1>1, <1>2

LEMMA InitTypes == Init => TypeOK
<1> SUFFICES ASSUME Init PROVE TypeOK
  OBVIOUS
<1>1. flush \in [Tasks -> TaskState]
  BY PusherAssumption DEF Init, Idle, TaskState
<1>2. outcome \in [Outcomes -> SUBSET Logs]
  BY DEF Init
<1>3. QED
  BY <1>1, <1>2 DEF Init, TypeOK

LEMMA TypeStep == TypeOK /\ [PusherNext]_vars => TypeOK'
<1> SUFFICES ASSUME TypeOK, [PusherNext]_vars PROVE TypeOK'
  OBVIOUS
<1> USE DEF Counters, TaskState
<1>1. ASSUME NEW t \in Handlers, NEW S \in SUBSET (Logs \ handed), OnNewLogs(t, S)
      PROVE  TypeOK'
  <2>1. t \in Tasks /\ buffer \cup S \in SUBSET Logs
    BY DEF Tasks, TypeOK
  <2>2. CASE Full(buffer \cup S)
    <3>1. TakeAll(t, buffer \cup S)
      BY <1>1, <2>2 DEF OnNewLogs
    <3>2. QED
      BY <1>1, <2>1, <3>1, TakeAllType DEF OnNewLogs, TypeOK
  <2>3. CASE ~Full(buffer \cup S)
    <3>1. Cardinality(buffer \cup S) \in Nat
      BY <2>1, BufferCardinality
    <3>2. stats' \in Counters
      BY <1>1, <2>3, <3>1 DEF OnNewLogs, TypeOK
    <3>3. QED
      BY <1>1, <2>1, <2>3, <3>2 DEF OnNewLogs, TypeOK
  <2>4. QED
    BY <2>2, <2>3
<1>2. CASE PeriodicFlush
  <2>1. "periodic" \in Tasks /\ TakeAll("periodic", buffer)
    BY <1>2 DEF Tasks, PeriodicFlush
  <2>2. QED
    BY <1>2, <2>1, TakeAllType DEF PeriodicFlush, TypeOK
<1>3. ASSUME NEW t \in Tasks, Progress(t)
      PROVE  TypeOK'
  <2>1. CASE ServerIngests(t)
    <3>1. flush' \in [Tasks -> TaskState]
      BY <2>1 DEF ServerIngests, TypeOK
    <3>2. ingests' \in [Logs -> Nat]
      BY <2>1 DEF ServerIngests, TypeOK
    <3>3. QED
      BY <2>1, <3>1, <3>2 DEF ServerIngests, TypeOK
  <2>2. ASSUME NotePushed(t)
        PROVE  lastPushed' \in [ChainIds -> Nat]
    <3>1. PICK l \in Current(flush[t].todo) :
            lastPushed' = [lastPushed EXCEPT ![ChainOf[l]] = BlockOf[l]]
      BY <2>2 DEF NotePushed
    <3>2. l \in Logs
      BY <3>1, CurrentSubset DEF TypeOK
    <3>3. QED
      BY <3>1, <3>2, PusherAssumption DEF TypeOK
  <2>3. CASE PostAccepted(t)
    BY <2>2, <2>3, FinishBatchType DEF PostAccepted, TypeOK, Outcomes
  <2>4. CASE PostBadRequest(t)
    BY <2>2, <2>4, FinishBatchType DEF PostBadRequest, TypeOK, Outcomes
  <2>5. CASE PostFails(t)
    <3>1. flush[t].attempt \in Nat /\ FailedAttempt(t, flush[t].attempt)
      BY <2>5, PusherAssumption DEF PostFails, TypeOK
    <3>2. QED
      BY <2>5, <3>1, FailedAttemptType DEF PostFails, TypeOK
  <2>6. CASE BackoffEnds(t)
    <3>1. flush[t].attempt + 1 \in Nat
      BY PusherAssumption DEF TypeOK
    <3>2. CASE ~CanPost
      BY <2>6, <3>1, <3>2, FailedAttemptType DEF BackoffEnds, TypeOK
    <3>3. CASE CanPost
      <4>1. flush[t].attempt + 1 \in 0..RetryAttempts
        BY <2>6, <3>1, PusherAssumption DEF BackoffEnds, TypeOK
      <4>2. Attempt(flush[t].todo, flush[t].attempt + 1) \in TaskState
        BY <3>3, <4>1 DEF Attempt, CanPost, TypeOK
      <4>3. QED
        BY <2>6, <3>3, <4>2 DEF BackoffEnds, TypeOK
    <3>4. QED
      BY <3>2, <3>3
  <2>7. QED
    BY <1>3, <2>1, <2>3, <2>4, <2>5, <2>6 DEF Progress
<1>4. CASE Lifespan
  <2>1. Idle \in TaskState
    BY PusherAssumption DEF Idle
  <2>2. CASE Start
    BY <2>2 DEF Start, TypeOK
  <2>3. CASE CancelPeriodic
    BY <2>1, <2>3 DEF CancelPeriodic, TypeOK, Tasks, Outcomes
  <2>4. CASE FinalFlush
    <3>1. "stop" \in Tasks /\ TakeAll("stop", buffer)
      BY <2>4 DEF Tasks, FinalFlush
    <3>2. QED
      BY <2>4, <3>1, TakeAllType DEF FinalFlush, TypeOK
  <2>5. CASE CloseSession
    BY <2>5 DEF CloseSession, TypeOK
  <2>6. CASE Exit
    <3>1. UNION {flush[t].todo : t \in Tasks} \in SUBSET Logs
      BY DEF TypeOK
    <3>2. QED
      BY <2>1, <2>6, <3>1 DEF Exit, TypeOK, Outcomes
  <2>7. QED
    BY <1>4, <2>2, <2>3, <2>4, <2>5, <2>6 DEF Lifespan
<1>5. CASE UNCHANGED vars
  BY <1>5 DEF vars, TypeOK
<1>6. QED
  BY <1>1, <1>2, <1>3, <1>4, <1>5 DEF PusherNext

(* The state of the pusher is of the expected type, for all constants.     *)
THEOREM TypeCorrect == Spec => []TypeOK
  BY InitTypes, TypeStep, NextIsPusherNext, PTL DEF Spec

-----------------------------------------------------------------------------
(* Ownership. *)

(* Begin leaves with the task what does not fail at once. *)
LEMMA BeginTodo ==
  ASSUME NEW S \in SUBSET Logs
  PROVE  /\ FailsAtOnce(S) \subseteq S
         /\ Begin(S).todo = S \ FailsAtOnce(S)
  BY DEF Begin, FailsAtOnce, Attempt, Idle

(* Every step but Exit moves logs for one task t only: some of the pending *)
(* and the new logs to t, some of what t then has to the outcomes.         *)
LEMMA OneTaskMoves ==
  ASSUME TypeOK, OneOwner, NEW t \in Tasks,
         NEW S \in SUBSET (Logs \ handed), handed' = handed \cup S,
         NEW In \in SUBSET (buffer \cup S), buffer' = (buffer \cup S) \ In,
         NEW Gone \in [Outcomes -> SUBSET (flush[t].todo \cup In)],
         \A o, p \in Outcomes : o # p => Gone[o] \cap Gone[p] = {},
         flush'[t].todo = (flush[t].todo \cup In) \ UNION {Gone[o] : o \in Outcomes},
         \A u \in Tasks : u # t => flush'[u].todo = flush[u].todo,
         \A o \in Outcomes : outcome'[o] = outcome[o] \cup Gone[o]
  PROVE  OneOwner'
<1> DEFINE gone == UNION {Gone[o] : o \in Outcomes}
<1>1. Settled' = Settled \cup gone
  BY DEF Settled
<1>2. gone \subseteq flush[t].todo \cup In
  OBVIOUS
<1>3. /\ flush[t].todo \cup In \subseteq handed \cup S
      /\ (flush[t].todo \cup In) \cap Settled = {}
      /\ \A u \in Tasks : u # t => (flush[t].todo \cup In) \cap flush[u].todo = {}
      /\ \A u \in Tasks : flush[u].todo \cap S = {}
      /\ S \cap Settled = {}
      /\ flush[t].todo \cap buffer = {}
  <2>1. \A u \in Tasks : flush[u].todo \subseteq handed
    BY DEF OneOwner
  <2>2. buffer \subseteq handed /\ Settled \subseteq handed
    BY DEF OneOwner
  <2>3. \A u \in Tasks : flush[u].todo \cap (buffer \cup Settled) = {}
    BY DEF OneOwner
  <2>4. \A u \in Tasks : u # t => flush[t].todo \cap flush[u].todo = {}
    BY DEF OneOwner
  <2>5. buffer \cap Settled = {}
    BY DEF OneOwner
  <2>6. QED
    BY <2>1, <2>2, <2>3, <2>4, <2>5
<1>4. (\A u \in Tasks : flush[u].todo \cap (buffer \cup Settled) = {})'
  <2> SUFFICES ASSUME NEW u \in Tasks
               PROVE  flush'[u].todo \cap (buffer' \cup Settled') = {}
    OBVIOUS
  <2>1. CASE u = t
    BY <1>1, <1>3, <2>1
  <2>2. CASE u # t
    BY <1>1, <1>2, <1>3, <2>2 DEF OneOwner
  <2>3. QED
    BY <2>1, <2>2
<1>5. (\A u, v \in Tasks : u # v => flush[u].todo \cap flush[v].todo = {})'
  <2> SUFFICES ASSUME NEW u \in Tasks, NEW v \in Tasks, u # v
               PROVE  flush'[u].todo \cap flush'[v].todo = {}
    OBVIOUS
  <2>1. CASE u = t
    BY <1>3, <2>1
  <2>2. CASE v = t
    BY <1>3, <2>2
  <2>3. CASE u # t /\ v # t
    BY <2>3 DEF OneOwner
  <2>4. QED
    BY <2>1, <2>2, <2>3
<1>6. (buffer \cap Settled = {})'
  BY <1>1, <1>2, <1>3 DEF OneOwner
<1>7. (\A o, p \in Outcomes : o # p => outcome[o] \cap outcome[p] = {})'
  <2> SUFFICES ASSUME NEW o \in Outcomes, NEW p \in Outcomes, o # p
               PROVE  outcome'[o] \cap outcome'[p] = {}
    OBVIOUS
  <2>1. outcome[o] \cap outcome[p] = {}
    BY DEF OneOwner
  <2>2. outcome[o] \cap Gone[p] = {} /\ outcome[p] \cap Gone[o] = {}
    BY <1>3 DEF Settled
  <2>3. QED
    BY <2>1, <2>2
<1>8. (handed = buffer \cup (UNION {flush[u].todo : u \in Tasks}) \cup Settled)'
  <2>1. ASSUME NEW l, l \in handed'
        PROVE  l \in buffer' \/ l \in Settled' \/ \E u \in Tasks : l \in flush'[u].todo
    <3>1. CASE l \in flush[t].todo \cup In
      <4>1. CASE l \in gone
        BY <1>1, <4>1
      <4>2. CASE l \notin gone
        BY <3>1, <4>2
      <4>3. QED
        BY <4>1, <4>2
    <3>2. CASE l \notin flush[t].todo \cup In
      <4>1. \/ l \in buffer \cup S
            \/ l \in Settled
            \/ \E u \in Tasks : l \in flush[u].todo
        BY <2>1 DEF OneOwner
      <4>2. ASSUME NEW u \in Tasks, l \in flush[u].todo
            PROVE  l \in flush'[u].todo
        BY <3>2, <4>2
      <4>3. QED
        BY <1>1, <3>2, <4>1, <4>2
    <3>3. QED
      BY <3>1, <3>2
  <2>2. buffer' \subseteq handed'
    BY DEF OneOwner
  <2>3. Settled' \subseteq handed'
    BY <1>1, <1>2, <1>3 DEF OneOwner
  <2>4. ASSUME NEW u \in Tasks
        PROVE  flush'[u].todo \subseteq handed'
    <3>1. CASE u = t
      BY <1>3, <3>1
    <3>2. CASE u # t
      BY <3>2 DEF OneOwner
    <3>3. QED
      BY <3>1, <3>2
  <2>5. QED
    BY <2>1, <2>2, <2>3, <2>4
<1>9. QED
  BY <1>4, <1>5, <1>6, <1>7, <1>8 DEF OneOwner

(* Steps that only change how far a flush has come. *)
LEMMA NothingMoves ==
  ASSUME OneOwner, UNCHANGED <<buffer, handed, outcome>>,
         \A u \in Tasks : flush'[u].todo = flush[u].todo
  PROVE  OneOwner'
  BY DEF OneOwner, Settled

LEMMA TakeAllOwner ==
  ASSUME TypeOK, OneOwner, NEW t \in Tasks, flush[t] = Idle,
         NEW S \in SUBSET (Logs \ handed), handed' = handed \cup S,
         TakeAll(t, buffer \cup S)
  PROVE  OneOwner'
<1> DEFINE P    == buffer \cup S
           Gone == [o \in Outcomes |-> IF o = "dropped" THEN FailsAtOnce(P) ELSE {}]
<1>1. P \in SUBSET Logs
  BY DEF TypeOK
<1>2. FailsAtOnce(P) \subseteq P /\ Begin(P).todo = P \ FailsAtOnce(P)
  BY <1>1, BeginTodo
<1> HIDE DEF P
<1>3. TakeAll(t, P)
  BY DEF P
<1>4. flush[t].todo = {}
  BY DEF Idle
<1>5. UNION {Gone[o] : o \in Outcomes} = FailsAtOnce(P)
  BY DEF Outcomes
<1>6. flush' = [flush EXCEPT ![t] = Begin(P)] /\ buffer' = {}
  BY <1>3 DEF TakeAll
<1>7. /\ flush'[t].todo = (flush[t].todo \cup P) \ UNION {Gone[o] : o \in Outcomes}
      /\ \A u \in Tasks : u # t => flush'[u].todo = flush[u].todo
  BY <1>2, <1>4, <1>5, <1>6 DEF TypeOK
<1>8. \A o \in Outcomes : outcome'[o] = outcome[o] \cup Gone[o]
  BY <1>3 DEF TakeAll, Settle
<1>9. /\ Gone \in [Outcomes -> SUBSET (flush[t].todo \cup P)]
      /\ \A o, p \in Outcomes : o # p => Gone[o] \cap Gone[p] = {}
  BY <1>2
<1>10. P \in SUBSET (buffer \cup S) /\ buffer' = (buffer \cup S) \ P
  BY <1>6 DEF P
<1> HIDE DEF Gone
<1>11. QED
  BY <1>7, <1>8, <1>9, <1>10, OneTaskMoves

LEMMA FinishBatchOwner ==
  ASSUME TypeOK, OneOwner, NEW t \in Tasks, NEW o \in Outcomes,
         UNCHANGED <<buffer, handed>>, FinishBatch(t, o)
  PROVE  OneOwner'
<1> DEFINE batch == Current(flush[t].todo)
           rest  == flush[t].todo \ batch
           none  == {}
           Gone  == [k \in Outcomes |->
                       (IF k = o THEN batch ELSE {})
                       \cup (IF k = "dropped" THEN FailsAtOnce(rest) ELSE {})]
<1>1. batch \subseteq flush[t].todo /\ rest \in SUBSET Logs
  BY CurrentSubset, TodoType
<1>2. FailsAtOnce(rest) \subseteq rest /\ Begin(rest).todo = rest \ FailsAtOnce(rest)
  BY <1>1, BeginTodo
<1>3. /\ flush' = [flush EXCEPT ![t] = Begin(rest)]
      /\ Settle(batch, o, rest)
  BY DEF FinishBatch
<1>4. batch \cap rest = {} /\ rest = flush[t].todo \ batch
  OBVIOUS
<1> HIDE DEF batch, rest
<1>5. UNION {Gone[k] : k \in Outcomes} = batch \cup FailsAtOnce(rest)
  BY DEF Outcomes
<1>6. /\ flush'[t].todo = (flush[t].todo \cup none) \ UNION {Gone[k] : k \in Outcomes}
      /\ \A u \in Tasks : u # t => flush'[u].todo = flush[u].todo
  BY <1>2, <1>3, <1>4, <1>5 DEF TypeOK
<1>7. \A k \in Outcomes : outcome'[k] = outcome[k] \cup Gone[k]
  <2> SUFFICES ASSUME NEW k \in Outcomes
               PROVE  outcome'[k] = outcome[k] \cup Gone[k]
    OBVIOUS
  <2>1. outcome'[k] = outcome[k] \cup (IF k = o THEN batch ELSE {})
                                \cup (IF k = "dropped" THEN FailsAtOnce(rest) ELSE {})
    BY <1>3 DEF Settle
  <2>2. QED
    BY <2>1
<1>8. /\ Gone \in [Outcomes -> SUBSET (flush[t].todo \cup none)]
      /\ \A k, p \in Outcomes : k # p => Gone[k] \cap Gone[p] = {}
  BY <1>1, <1>2, <1>4
<1> HIDE DEF Gone
<1>9. /\ none \in SUBSET (Logs \ handed) /\ handed' = handed \cup none
      /\ none \in SUBSET (buffer \cup none) /\ buffer' = (buffer \cup none) \ none
  OBVIOUS
<1> HIDE DEF none
<1>10. QED
  BY <1>6, <1>7, <1>8, <1>9, OneTaskMoves, ZenonT(60)

LEMMA FailedAttemptOwner ==
  ASSUME TypeOK, OneOwner, NEW t \in Tasks, NEW n \in Nat,
         UNCHANGED <<buffer, handed>>, FailedAttempt(t, n)
  PROVE  OneOwner'
<1>1. CASE MayRetry(n)
  <2>1. \A u \in Tasks : flush'[u].todo = flush[u].todo
    BY <1>1 DEF FailedAttempt, TypeOK
  <2>2. QED
    BY <1>1, <2>1, NothingMoves DEF FailedAttempt
<1>2. CASE ~MayRetry(n)
  BY <1>2, FinishBatchOwner DEF FailedAttempt, Outcomes
<1>3. QED
  BY <1>1, <1>2

LEMMA ProgressOwner ==
  ASSUME TypeOK, OneOwner, NEW t \in Tasks, Progress(t)
  PROVE  OneOwner'
<1>1. CASE ServerIngests(t)
  <2>1. \A u \in Tasks : flush'[u].todo = flush[u].todo
    BY <1>1 DEF ServerIngests, TypeOK, TaskState
  <2>2. QED
    BY <1>1, <2>1, NothingMoves DEF ServerIngests
<1>2. CASE PostAccepted(t)
  BY <1>2, FinishBatchOwner DEF PostAccepted, Outcomes
<1>3. CASE PostBadRequest(t)
  BY <1>3, FinishBatchOwner DEF PostBadRequest, Outcomes
<1>4. CASE PostFails(t)
  <2>1. flush[t].attempt \in Nat
    BY TodoType
  <2>2. QED
    BY <1>4, <2>1, FailedAttemptOwner DEF PostFails
<1>5. CASE BackoffEnds(t)
  <2>1. flush[t].attempt + 1 \in Nat
    BY TodoType
  <2>2. CASE ~CanPost
    BY <1>5, <2>1, <2>2, FailedAttemptOwner DEF BackoffEnds
  <2>3. CASE CanPost
    <3>1. \A u \in Tasks : flush'[u].todo = flush[u].todo
      BY <1>5, <2>3 DEF BackoffEnds, Attempt, TypeOK
    <3>2. QED
      BY <1>5, <2>3, <3>1, NothingMoves DEF BackoffEnds
  <2>4. QED
    BY <2>2, <2>3
<1>6. QED
  BY <1>1, <1>2, <1>3, <1>4, <1>5 DEF Progress

LEMMA LifespanOwner ==
  ASSUME TypeOK, OneOwner, TaskLifetimes, Lifespan
  PROVE  OneOwner'
<1>1. CASE Start \/ CloseSession
  BY <1>1, NothingMoves DEF Start, CloseSession
<1>2. CASE CancelPeriodic
  <2> DEFINE todo == flush["periodic"].todo
  <2>1. "periodic" \in Tasks
    BY DEF Tasks
  <2>2. /\ flush'["periodic"].todo = {}
        /\ \A u \in Tasks : u # "periodic" => flush'[u].todo = flush[u].todo
    BY <1>2, <2>1 DEF CancelPeriodic, TypeOK, Idle
  <2>3. \A k \in Outcomes : outcome'[k] = outcome[k] \cup (IF k = "lost" THEN todo ELSE {})
    BY <1>2 DEF CancelPeriodic, TypeOK, Outcomes
  <2>4. Settled' = Settled \cup todo
    BY <2>3 DEF Settled, Outcomes
  <2>5. buffer' = buffer /\ handed' = handed
    BY <1>2 DEF CancelPeriodic
  <2>6. \A u \in Tasks : u # "periodic" => flush[u].todo \cap todo = {}
    BY <2>1 DEF OneOwner
  <2>7. todo \cap buffer = {} /\ todo \cap Settled = {}
    BY <2>1 DEF OneOwner
  <2>8. (\A u \in Tasks : flush[u].todo \cap (buffer \cup Settled) = {})'
    BY <2>2, <2>4, <2>5, <2>6 DEF OneOwner
  <2>9. (\A u, v \in Tasks : u # v => flush[u].todo \cap flush[v].todo = {})'
    BY <2>2 DEF OneOwner
  <2>10. (\A k, p \in Outcomes : k # p => outcome[k] \cap outcome[p] = {})'
    <3>1. \A k \in Outcomes : outcome[k] \cap todo = {}
      BY <2>7 DEF Settled
    <3>2. QED
      BY <2>3, <3>1 DEF OneOwner
  <2>11. (buffer \cap Settled = {})'
    BY <2>4, <2>5, <2>7 DEF OneOwner
  <2>12. (UNION {flush[u].todo : u \in Tasks})' \cup todo
           = UNION {flush[u].todo : u \in Tasks}
    BY <2>1, <2>2
  <2>13. (handed = buffer \cup (UNION {flush[u].todo : u \in Tasks}) \cup Settled)'
    BY <2>4, <2>5, <2>12 DEF OneOwner
  <2>14. QED
    BY <2>8, <2>9, <2>10, <2>11, <2>13 DEF OneOwner
<1>3. CASE FinalFlush
  <2>1. "stop" \in Tasks
    BY DEF Tasks
  <2>2. flush["stop"] = Idle
    BY <1>3 DEF FinalFlush, TaskLifetimes
  <2> DEFINE none == {}
  <2>3. none \in SUBSET (Logs \ handed) /\ handed' = handed \cup none
    BY <1>3 DEF FinalFlush
  <2>4. TakeAll("stop", buffer \cup none)
    BY <1>3 DEF FinalFlush
  <2> HIDE DEF none
  <2>5. QED
    BY <2>1, <2>2, <2>3, <2>4, TakeAllOwner
<1>4. CASE Exit
  <2> DEFINE held == UNION {flush[u].todo : u \in Tasks}
  <2>1. \A u \in Tasks : flush'[u].todo = {}
    BY <1>4 DEF Exit, Idle
  <2>2. \A k \in Outcomes : outcome'[k] = outcome[k] \cup (IF k = "lost" THEN held ELSE {})
    BY <1>4 DEF Exit, TypeOK, Outcomes
  <2>3. Settled' = Settled \cup held
    BY <2>2 DEF Settled, Outcomes
  <2>4. buffer' = buffer /\ handed' = handed
    BY <1>4 DEF Exit
  <2>5. held \cap buffer = {} /\ held \cap Settled = {}
    BY DEF OneOwner
  <2>6. (\A k, p \in Outcomes : k # p => outcome[k] \cap outcome[p] = {})'
    <3>1. \A k \in Outcomes : outcome[k] \cap held = {}
      BY <2>5 DEF Settled
    <3> HIDE DEF held
    <3>2. QED
      BY <2>2, <3>1 DEF OneOwner
  <2>7. (handed = buffer \cup (UNION {flush[u].todo : u \in Tasks}) \cup Settled)'
    <3>1. handed = buffer \cup held \cup Settled
      BY DEF OneOwner
    <3>2. (UNION {flush[u].todo : u \in Tasks})' = {}
      BY <2>1
    <3> HIDE DEF held
    <3>3. QED
      BY <2>3, <2>4, <3>1, <3>2
  <2>8. (buffer \cap Settled = {})'
    BY <2>3, <2>4, <2>5 DEF OneOwner
  <2>9. QED
    BY <2>1, <2>6, <2>7, <2>8 DEF OneOwner
<1>5. QED
  BY <1>1, <1>2, <1>3, <1>4 DEF Lifespan

(* The timer and stop() hold logs only while they may. *)
LEMMA TaskLifetimesStep ==
  ASSUME TypeOK, TaskLifetimes, [PusherNext]_vars
  PROVE  TaskLifetimes'
<1>1. /\ "periodic" \in Tasks /\ "stop" \in Tasks
      /\ \A t \in Handlers : t \in Tasks /\ t # "periodic" /\ t # "stop"
  BY PusherAssumption DEF Tasks
<1>2. ASSUME NEW t \in Handlers, NEW S \in SUBSET (Logs \ handed), OnNewLogs(t, S)
      PROVE  TaskLifetimes'
  <2>1. lifecycle' = lifecycle /\ lifecycle # "exited"
    BY <1>2 DEF OnNewLogs
  <2>2. \A u \in Tasks : u # t => flush'[u] = flush[u]
    BY <1>2 DEF OnNewLogs, TakeAll, TypeOK
  <2>3. QED
    BY <1>1, <2>1, <2>2 DEF TaskLifetimes
<1>3. CASE PeriodicFlush
  <2>1. \A u \in Tasks : u # "periodic" => flush'[u] = flush[u]
    BY <1>3 DEF PeriodicFlush, TakeAll, TypeOK
  <2>2. QED
    BY <1>1, <1>3, <2>1 DEF TaskLifetimes, PeriodicFlush
<1>4. ASSUME NEW t \in Tasks, Progress(t)
      PROVE  TaskLifetimes'
  <2>1. lifecycle' = lifecycle
    BY <1>4 DEF Progress, ServerIngests, PostAccepted, PostBadRequest, PostFails,
                BackoffEnds
  <2>2. flush[t] # Idle
    BY <1>4 DEF Progress, ServerIngests, PostAccepted, PostBadRequest, PostFails,
                BackoffEnds, Idle
  <2>3. \A u \in Tasks : u # t => flush'[u] = flush[u]
    BY <1>4 DEF Progress, ServerIngests, PostAccepted, PostBadRequest, PostFails,
                BackoffEnds, FailedAttempt, FinishBatch, TypeOK
  <2>4. QED
    BY <1>1, <2>1, <2>2, <2>3 DEF TaskLifetimes
<1>5. CASE Lifespan
  <2>1. CASE Start
    BY <2>1 DEF Start, TaskLifetimes
  <2>2. CASE CancelPeriodic
    BY <1>1, <2>2 DEF CancelPeriodic, TaskLifetimes, TypeOK
  <2>3. CASE FinalFlush
    BY <1>1, <2>3 DEF FinalFlush, TakeAll, TaskLifetimes, TypeOK
  <2>4. CASE CloseSession
    BY <2>4 DEF CloseSession, TaskLifetimes
  <2>5. CASE Exit
    BY <1>1, <2>5 DEF Exit, TaskLifetimes
  <2>6. QED
    BY <1>5, <2>1, <2>2, <2>3, <2>4, <2>5 DEF Lifespan
<1>6. CASE UNCHANGED vars
  BY <1>6 DEF vars, TaskLifetimes
<1>7. QED
  BY <1>2, <1>3, <1>4, <1>5, <1>6 DEF PusherNext

LEMMA OwnerStep ==
  TypeOK /\ TaskLifetimes /\ OneOwner /\ [PusherNext]_vars => (TaskLifetimes /\ OneOwner)'
<1> SUFFICES ASSUME TypeOK, TaskLifetimes, OneOwner, [PusherNext]_vars
             PROVE  OneOwner'
  BY TaskLifetimesStep
<1>1. ASSUME NEW t \in Handlers, NEW S \in SUBSET (Logs \ handed), OnNewLogs(t, S)
      PROVE  OneOwner'
  <2>1. t \in Tasks
    BY DEF Tasks
  <2>2. CASE Full(buffer \cup S)
    BY <1>1, <2>1, <2>2, TakeAllOwner DEF OnNewLogs
  <2>3. CASE ~Full(buffer \cup S)
    <3>1. /\ handed' = handed \cup S /\ buffer' = buffer \cup S
          /\ flush' = flush /\ outcome' = outcome
      BY <1>1, <2>3 DEF OnNewLogs
    <3>2. QED
      BY <3>1 DEF OneOwner, Settled
  <2>4. QED
    BY <2>2, <2>3
<1>2. CASE PeriodicFlush
  <2> DEFINE none == {}
  <2>1. /\ "periodic" \in Tasks
        /\ none \in SUBSET (Logs \ handed) /\ handed' = handed \cup none
        /\ flush["periodic"] = Idle
        /\ TakeAll("periodic", buffer \cup none)
    BY <1>2 DEF PeriodicFlush, Tasks
  <2> HIDE DEF none
  <2>2. QED
    BY <2>1, TakeAllOwner
<1>3. ASSUME NEW t \in Tasks, Progress(t)
      PROVE  OneOwner'
  BY <1>3, ProgressOwner
<1>4. CASE Lifespan
  BY <1>4, LifespanOwner
<1>5. CASE UNCHANGED vars
  BY <1>5, NothingMoves DEF vars
<1>6. QED
  BY <1>1, <1>2, <1>3, <1>4, <1>5 DEF PusherNext

LEMMA InitOwner == Init => TaskLifetimes /\ OneOwner
  BY DEF Init, TaskLifetimes, OneOwner, Settled, Tasks, Idle

(* OneOwner for all constants.  It is inductive together with TypeOK and   *)
(* TaskLifetimes: stop() must hold nothing when it takes the buffer.       *)
THEOREM LogsHaveOneOwner == Spec => []OneOwner
  BY InitOwner, OwnerStep, TypeCorrect, NextIsPusherNext, PTL DEF Spec

(* What TaskLifetimes says, for all constants. *)
THEOREM TasksKeepTheirLifetimes == Spec => []TaskLifetimes
<1>1. Init => TaskLifetimes
  BY DEF Init, TaskLifetimes, Tasks
<1>2. TypeOK /\ TaskLifetimes /\ [Next]_vars => TaskLifetimes'
  BY TaskLifetimesStep, NextIsPusherNext
<1>3. QED
  BY <1>1, <1>2, TypeCorrect, PTL DEF Spec

(* The buffer never holds batch_size logs between two steps, and           *)
(* buffer_size always tells how many it holds, for all constants.          *)
THEOREM BufferStaysBelowThreshold == Spec => []BelowThreshold
<1>1. Init => BelowThreshold
  BY PusherAssumption, FS_EmptySet DEF Init, BelowThreshold
<1>2. TypeOK /\ BelowThreshold /\ [Next]_vars => BelowThreshold'
  <2> SUFFICES ASSUME TypeOK, BelowThreshold, [Next]_vars PROVE BelowThreshold'
    OBVIOUS
  <2>1. ASSUME NEW t \in Tasks, NEW S \in SUBSET Logs, TakeAll(t, S)
        PROVE  BelowThreshold'
    <3>1. buffer' = {} /\ stats'.buffer_size = 0
      BY <2>1 DEF TakeAll, TypeOK
    <3>2. QED
      BY <3>1, PusherAssumption, FS_EmptySet DEF BelowThreshold
  <2>2. ASSUME UNCHANGED buffer, stats'.buffer_size = stats.buffer_size
        PROVE  BelowThreshold'
    BY <2>2 DEF BelowThreshold
  <2>3. ASSUME NEW t \in Handlers, NEW S \in SUBSET (Logs \ handed), OnNewLogs(t, S)
        PROVE  BelowThreshold'
    <3>1. t \in Tasks /\ buffer \cup S \in SUBSET Logs
      BY DEF Tasks, TypeOK
    <3>2. CASE Full(buffer \cup S)
      BY <2>1, <2>3, <3>1, <3>2 DEF OnNewLogs
    <3>3. CASE ~Full(buffer \cup S)
      <4>1. Cardinality(buffer \cup S) \in Nat
        BY <3>1, BufferCardinality
      <4>2. /\ buffer' = buffer \cup S
            /\ stats'.buffer_size = Cardinality(buffer \cup S)
        BY <2>3, <3>3 DEF OnNewLogs, TypeOK
      <4>3. QED
        BY <3>3, <4>1, <4>2, PusherAssumption DEF BelowThreshold, Full
    <3>4. QED
      BY <3>2, <3>3
  <2>4. CASE PeriodicFlush
    BY <2>1, <2>4 DEF PeriodicFlush, Tasks, TypeOK
  <2>5. ASSUME NEW t \in Tasks, Progress(t)
        PROVE  BelowThreshold'
    <3>1. UNCHANGED buffer
      BY <2>5 DEF Progress, ServerIngests, PostAccepted, PostBadRequest, PostFails,
                  BackoffEnds
    <3>2. stats'.buffer_size = stats.buffer_size
      BY <2>5 DEF Progress, ServerIngests, PostAccepted, PostBadRequest, PostFails,
                  BackoffEnds, FailedAttempt, FinishBatch, TypeOK
    <3>3. QED
      BY <2>2, <3>1, <3>2
  <2>6. CASE Lifespan
    <3>1. CASE FinalFlush
      BY <2>1, <3>1 DEF FinalFlush, Tasks, TypeOK
    <3>2. CASE ~FinalFlush
      BY <2>2, <2>6, <3>2 DEF Lifespan, Start, CancelPeriodic, CloseSession, Exit
    <3>3. QED
      BY <3>1, <3>2
  <2>7. CASE UNCHANGED vars
    BY <2>2, <2>7 DEF vars
  <2>8. QED
    BY <2>3, <2>4, <2>5, <2>6, <2>7 DEF Next
<1>3. QED
  BY <1>1, <1>2, TypeCorrect, PTL DEF Spec

-----------------------------------------------------------------------------
(* Ranges.  Logs are handed over in the order of their blocks, so that the *)
(* buffer is at any time the newest part of what was handed over, and what *)
(* a flush takes is whole.                                                 *)

Older(l, m) == ChainOf[l] = ChainOf[m] => BlockOf[l] < BlockOf[m]

HandedInOrder == \A l \in handed, m \in Logs \ handed : Older(l, m)

PendingIsNewest == \A l \in handed \ buffer, m \in buffer : Older(l, m)

(* No log handed over, of T or not, lies between two logs of T unless it   *)
(* is in T.                                                                *)
Whole(T, all) ==
  \A l, n \in T : \A m \in all \ T :
    ChainOf[l] = ChainOf[m] /\ ChainOf[m] = ChainOf[n]
      => ~(BlockOf[l] <= BlockOf[m] /\ BlockOf[m] <= BlockOf[n])

RangesInv == HandedInOrder /\ PendingIsNewest /\ \A t \in Tasks : Whole(flush[t].todo, handed)

LEMMA RangesInvTells == RangesInv => RangesAreWhole
  BY DEF RangesInv, PendingIsNewest, Older, Whole, RangesAreWhole

(* A task that lets go of whole chains leaves the others whole.            *)
LEMMA WholeWithoutChains ==
  ASSUME NEW T, NEW U \in SUBSET T, NEW all, Whole(T, all),
         \A l \in U, m \in T \ U : ChainOf[l] # ChainOf[m]
  PROVE  Whole(U, all)
  BY DEF Whole

(* New logs are newer than all that a task holds.                          *)
LEMMA WholeBesideNewer ==
  ASSUME NEW T \in SUBSET Logs, NEW all \in SUBSET Logs, T \subseteq all,
         NEW S \in SUBSET Logs, Whole(T, all), \A l \in all, m \in S : Older(l, m)
  PROVE  Whole(T, all \cup S)
<1> SUFFICES ASSUME NEW l \in T, NEW n \in T, NEW m \in (all \cup S) \ T,
                    ChainOf[l] = ChainOf[m], ChainOf[m] = ChainOf[n],
                    BlockOf[l] <= BlockOf[m], BlockOf[m] <= BlockOf[n]
             PROVE  FALSE
  BY DEF Whole
<1>1. CASE m \in all
  BY <1>1 DEF Whole
<1>2. CASE m \in S
  <2>1. BlockOf[n] < BlockOf[m]
    BY <1>2 DEF Older
  <2>2. BlockOf[n] \in Nat /\ BlockOf[m] \in Nat
    BY <1>2, PusherAssumption
  <2>3. QED
    BY <2>1, <2>2
<1>3. QED
  BY <1>1, <1>2

(* The newest part of a set is whole in it.                                *)
LEMMA NewestIsWhole ==
  ASSUME NEW T \in SUBSET Logs, NEW all \in SUBSET Logs,
         \A m \in all \ T, l \in T : Older(m, l)
  PROVE  Whole(T, all)
<1> SUFFICES ASSUME NEW l \in T, NEW n \in T, NEW m \in all \ T,
                    ChainOf[l] = ChainOf[m],
                    BlockOf[l] <= BlockOf[m]
             PROVE  FALSE
  BY DEF Whole
<1>1. BlockOf[m] < BlockOf[l]
  BY DEF Older
<1>2. BlockOf[l] \in Nat /\ BlockOf[m] \in Nat
  BY PusherAssumption
<1>3. QED
  BY <1>1, <1>2

(* A task that begins to send holds all of S or, after failing at once,    *)
(* nothing.                                                                *)
LEMMA BeginAllOrNone ==
  ASSUME NEW S \in SUBSET Logs
  PROVE  Begin(S).todo \in {S, {}}
  BY BeginTodo DEF FailsAtOnce

(* What a task still holds after a step, of the chains it held.            *)
LetsGoOf(t) ==
  /\ flush'[t].todo \subseteq flush[t].todo
  /\ \A l \in flush'[t].todo, m \in flush[t].todo \ flush'[t].todo : ChainOf[l] # ChainOf[m]

LEMMA FinishBatchLetsGo ==
  ASSUME TypeOK, NEW t \in Tasks, NEW o, FinishBatch(t, o), NEW u \in Tasks
  PROVE  LetsGoOf(u)
<1> DEFINE T    == flush[t].todo
           rest == T \ Current(T)
<1>1. T \in SUBSET Logs /\ rest \in SUBSET Logs
  BY TodoType
<1>2. flush' = [flush EXCEPT ![t] = Begin(rest)]
  BY DEF FinishBatch
<1>3. CASE u # t
  BY <1>2, <1>3 DEF TypeOK, LetsGoOf
<1>4. CASE u = t
  <2>1. flush'[u].todo \in {rest, {}}
    BY <1>1, <1>2, <1>4, BeginAllOrNone DEF TypeOK
  <2>2. \A l \in rest, m \in Current(T) : ChainOf[l] # ChainOf[m]
    BY DEF Current
  <2>3. QED
    BY <1>4, <2>1, <2>2 DEF LetsGoOf
<1>5. QED
  BY <1>3, <1>4

LEMMA FailedAttemptLetsGo ==
  ASSUME TypeOK, NEW t \in Tasks, NEW n, FailedAttempt(t, n), NEW u \in Tasks
  PROVE  LetsGoOf(u)
<1>1. CASE MayRetry(n)
  BY <1>1 DEF FailedAttempt, TypeOK, LetsGoOf
<1>2. CASE ~MayRetry(n)
  BY <1>2, FinishBatchLetsGo DEF FailedAttempt
<1>3. QED
  BY <1>1, <1>2

(* Progress and the end of tasks take whole chains from a task.            *)
LEMMA LettingGoKeepsRanges ==
  ASSUME TypeOK, RangesInv, UNCHANGED <<handed, buffer>>, \A t \in Tasks : LetsGoOf(t)
  PROVE  RangesInv'
<1>1. HandedInOrder' /\ PendingIsNewest'
  BY DEF RangesInv, HandedInOrder, PendingIsNewest, Older
<1>2. ASSUME NEW t \in Tasks PROVE Whole(flush'[t].todo, handed)
  BY WholeWithoutChains DEF RangesInv, LetsGoOf
<1>3. QED
  BY <1>1, <1>2 DEF RangesInv, Whole

(* A flush takes the buffer and the new logs S, the newest of all.         *)
LEMMA TakingKeepsRanges ==
  ASSUME TypeOK, OneOwner, RangesInv, NEW t \in Tasks, NEW S \in SUBSET (Logs \ handed),
         \A l \in S, m \in Logs \ (handed \cup S) : Older(l, m),
         handed' = handed \cup S, TakeAll(t, buffer \cup S)
  PROVE  RangesInv'
<1> DEFINE P == buffer \cup S
<1>1. /\ P \in SUBSET Logs /\ handed \in SUBSET Logs /\ handed' \in SUBSET Logs
      /\ S \in SUBSET Logs /\ buffer' = {}
      /\ flush' = [flush EXCEPT ![t] = Begin(P)]
  BY DEF TypeOK, TakeAll
<1>2. \A l \in handed, m \in S : Older(l, m)
  BY DEF RangesInv, HandedInOrder
<1>3. HandedInOrder' /\ PendingIsNewest'
  BY <1>1 DEF RangesInv, HandedInOrder, PendingIsNewest, Older
<1>4. ASSUME NEW u \in Tasks, u # t PROVE Whole(flush'[u].todo, handed')
  <2>1. flush'[u] = flush[u] /\ flush[u].todo \in SUBSET Logs /\ flush[u].todo \subseteq handed
    BY <1>1, <1>4, TodoType DEF OneOwner, TypeOK
  <2>2. Whole(flush[u].todo, handed)
    BY DEF RangesInv
  <2>3. QED
    BY <1>1, <1>2, <2>1, <2>2, WholeBesideNewer
<1>5. Whole(flush'[t].todo, handed')
  <2>1. flush'[t].todo \in {P, {}}
    BY <1>1, BeginAllOrNone DEF TypeOK
  <2>2. \A m \in handed' \ P, l \in P : Older(m, l)
    BY <1>2 DEF RangesInv, PendingIsNewest
  <2>3. Whole(P, handed')
    BY <1>1, <2>2, NewestIsWhole
  <2>4. Whole({}, handed')
    BY DEF Whole
  <2>5. QED
    BY <2>1, <2>3, <2>4
<1>6. \A u \in Tasks : Whole(flush'[u].todo, handed')
  BY <1>4, <1>5
<1>7. QED
  BY <1>3, <1>6 DEF RangesInv, Whole

LEMMA InitRanges == Init => RangesInv
  BY DEF Init, RangesInv, HandedInOrder, PendingIsNewest, Whole, Idle

LEMMA RangesStep ==
  TypeOK /\ OneOwner /\ RangesInv /\ [Next]_vars => RangesInv'
<1> SUFFICES ASSUME TypeOK, OneOwner, RangesInv, [Next]_vars PROVE RangesInv'
  OBVIOUS
<1>1. ASSUME NEW t \in Handlers, NEW S \in SUBSET (Logs \ handed),
             Deliverable(S, handed), OnNewLogs(t, S)
      PROVE  RangesInv'
  <2>1. /\ t \in Tasks /\ handed' = handed \cup S
        /\ \A l \in S, m \in Logs \ (handed \cup S) : Older(l, m)
    BY <1>1 DEF Tasks, OnNewLogs, Deliverable, Older
  <2>2. CASE Full(buffer \cup S)
    BY <1>1, <2>1, <2>2, TakingKeepsRanges DEF OnNewLogs
  <2>3. CASE ~Full(buffer \cup S)
    <3>1. buffer' = buffer \cup S /\ flush' = flush
      BY <1>1, <2>3 DEF OnNewLogs
    <3>2. \A l \in handed, m \in S : Older(l, m)
      BY DEF RangesInv, HandedInOrder
    <3>3. HandedInOrder' /\ PendingIsNewest'
      BY <2>1, <3>1, <3>2 DEF RangesInv, HandedInOrder, PendingIsNewest, Older
    <3>4. ASSUME NEW u \in Tasks PROVE Whole(flush'[u].todo, handed')
      <4>1. /\ flush[u].todo \in SUBSET Logs /\ flush[u].todo \subseteq handed
            /\ handed \in SUBSET Logs /\ S \in SUBSET Logs
        BY TodoType DEF OneOwner, TypeOK
      <4>2. Whole(flush[u].todo, handed)
        BY DEF RangesInv
      <4>3. QED
        BY <2>1, <3>1, <3>2, <4>1, <4>2, WholeBesideNewer
    <3>5. QED
      BY <3>3, <3>4 DEF RangesInv, Whole
  <2>4. QED
    BY <2>2, <2>3
<1>2. ASSUME NEW t \in Tasks, handed' = handed, TakeAll(t, buffer)
      PROVE  RangesInv'
  <2> DEFINE none == {}
  <2>1. /\ none \in SUBSET (Logs \ handed) /\ handed' = handed \cup none
        /\ TakeAll(t, buffer \cup none)
        /\ \A l \in none, m \in Logs \ (handed \cup none) : Older(l, m)
    BY <1>2
  <2> HIDE DEF none
  <2>2. QED
    BY <2>1, TakingKeepsRanges
<1>3. CASE PeriodicFlush
  BY <1>2, <1>3 DEF PeriodicFlush, Tasks
<1>4. ASSUME NEW t \in Tasks, Progress(t) PROVE RangesInv'
  <2>1. UNCHANGED <<handed, buffer>>
    BY <1>4 DEF Progress, ServerIngests, PostAccepted, PostBadRequest, PostFails, BackoffEnds
  <2>2. ASSUME NEW u \in Tasks PROVE LetsGoOf(u)
    <3>1. CASE ServerIngests(t)
      BY <3>1 DEF ServerIngests, LetsGoOf, TypeOK, TaskState
    <3>2. CASE PostAccepted(t) \/ PostBadRequest(t)
      BY <3>2, FinishBatchLetsGo DEF PostAccepted, PostBadRequest
    <3>3. CASE PostFails(t)
      BY <3>3, FailedAttemptLetsGo DEF PostFails
    <3>4. CASE BackoffEnds(t) /\ CanPost
      BY <3>4 DEF BackoffEnds, Attempt, LetsGoOf, TypeOK
    <3>5. CASE BackoffEnds(t) /\ ~CanPost
      BY <3>5, FailedAttemptLetsGo DEF BackoffEnds
    <3>6. QED
      BY <1>4, <3>1, <3>2, <3>3, <3>4, <3>5 DEF Progress
  <2>3. QED
    BY <2>1, <2>2, LettingGoKeepsRanges
<1>5. CASE FinalFlush
  BY <1>2, <1>5 DEF FinalFlush, Tasks
<1>6. CASE Start \/ CancelPeriodic \/ CloseSession \/ Exit \/ UNCHANGED vars
  <2>1. UNCHANGED <<handed, buffer>>
    BY <1>6 DEF Start, CancelPeriodic, CloseSession, Exit, vars
  <2>2. ASSUME NEW u \in Tasks PROVE flush'[u].todo \in {flush[u].todo, {}}
    BY <1>6 DEF Start, CancelPeriodic, CloseSession, Exit, vars, Idle, TypeOK
  <2>3. ASSUME NEW u \in Tasks PROVE LetsGoOf(u)
    BY <2>2 DEF LetsGoOf
  <2>4. QED
    BY <2>1, <2>3, LettingGoKeepsRanges
<1>7. QED
  BY <1>1, <1>3, <1>4, <1>5, <1>6 DEF Next, Lifespan

(* RangesAreWhole for all constants: what from_block and to_block claim of *)
(* a batch is true, in any interleaving of flushes, failures and shutdown. *)
THEOREM BatchesCoverTheirRanges == Spec => []RangesAreWhole
<1>1. TypeOK /\ OneOwner /\ RangesInv /\ [Next]_vars => RangesInv'
  BY RangesStep
<1>2. QED
  BY <1>1, InitRanges, RangesInvTells, TypeCorrect, LogsHaveOneOwner, PTL DEF Spec

-----------------------------------------------------------------------------
(* Duplicates. *)

(* AttemptDiscipline of one task in state s, when g counts the deliveries. *)
Disciplined(s, g) ==
  /\ s # Idle => s.phase # "idle" /\ s.attempt > 0
  /\ \A l \in s.todo :
       IF l \notin Current(s.todo)
       THEN g[l] = 0
       ELSE /\ g[l] <= s.attempt
            /\ s.phase = "post" => g[l] < s.attempt
            /\ s.phase = "ingested" => g[l] > 0

LEMMA DisciplineOfTasks ==
  AttemptDiscipline <=> \A t \in Tasks : Disciplined(flush[t], ingests)
  BY DEF AttemptDiscipline, Disciplined

(* A task may begin with logs that were never delivered. *)
LEMMA BeginDisciplined ==
  ASSUME NEW S \in SUBSET Logs, \A l \in S : ingests[l] = 0
  PROVE  Disciplined(Begin(S), ingests)
<1>1. CASE S \ FailsAtOnce(S) = {}
  BY <1>1 DEF Begin, Disciplined, Idle
<1>2. CASE S \ FailsAtOnce(S) # {}
  <2>1. /\ Begin(S).todo = S /\ Begin(S).attempt = 1
        /\ Begin(S).phase \in {"post", "backoff"}
    BY <1>2 DEF Begin, Attempt
  <2>2. QED
    BY <2>1 DEF Disciplined
<1>3. QED
  BY <1>1, <1>2

(* Changing the task state of t alone to a disciplined one, while the      *)
(* deliveries stay as they are.                                            *)
LEMMA OneTaskDisciplined ==
  ASSUME TypeOK, AttemptDiscipline, UNCHANGED ingests, NEW t \in Tasks, NEW s,
         flush' = [flush EXCEPT ![t] = s], Disciplined(s, ingests)
  PROVE  AttemptDiscipline'
<1>1. \A u \in Tasks : Disciplined(flush'[u], ingests)
  BY DisciplineOfTasks DEF TypeOK
<1>2. QED
  BY <1>1 DEF AttemptDiscipline, Disciplined

LEMMA FinishBatchDisciplined ==
  ASSUME TypeOK, AttemptDiscipline, UNCHANGED ingests, NEW t \in Tasks, NEW o,
         FinishBatch(t, o)
  PROVE  AttemptDiscipline'
<1> DEFINE rest == flush[t].todo \ Current(flush[t].todo)
<1>1. rest \in SUBSET Logs
  BY TodoType
<1>2. \A l \in rest : ingests[l] = 0
  BY DEF AttemptDiscipline
<1>3. Disciplined(Begin(rest), ingests)
  BY <1>1, <1>2, BeginDisciplined
<1>4. flush' = [flush EXCEPT ![t] = Begin(rest)]
  BY DEF FinishBatch
<1>5. QED
  BY <1>3, <1>4, OneTaskDisciplined

LEMMA FailedAttemptDisciplined ==
  ASSUME TypeOK, AttemptDiscipline, UNCHANGED ingests, NEW t \in Tasks,
         NEW n \in Nat, n >= flush[t].attempt, n > 0, FailedAttempt(t, n)
  PROVE  AttemptDiscipline'
<1>1. CASE MayRetry(n)
  <2> DEFINE s == [todo |-> flush[t].todo, attempt |-> n, phase |-> "backoff"]
  <2>1. flush' = [flush EXCEPT ![t] = s]
    BY <1>1 DEF FailedAttempt
  <2>2. \A l \in flush[t].todo :
          ingests[l] \in Nat /\ flush[t].attempt \in Nat
    BY TodoType DEF TypeOK
  <2>3. Disciplined(s, ingests)
    BY <2>2 DEF Disciplined, AttemptDiscipline
  <2>4. QED
    BY <2>1, <2>3, OneTaskDisciplined
<1>2. CASE ~MayRetry(n)
  BY <1>2, FinishBatchDisciplined DEF FailedAttempt
<1>3. QED
  BY <1>1, <1>2

(* Pending logs were never delivered, delivered ones at most once per      *)
(* attempt that a batch may have.                                          *)
DeliveryBound ==
  /\ \A l \in Logs : l \notin handed \/ l \in buffer => ingests[l] = 0
  /\ \A l \in Logs : ingests[l] <= RetryAttempts

LEMMA TakeAllDisciplined ==
  ASSUME TypeOK, AttemptDiscipline, DeliveryBound, UNCHANGED ingests,
         NEW t \in Tasks, NEW S \in SUBSET (Logs \ handed), TakeAll(t, buffer \cup S)
  PROVE  AttemptDiscipline'
<1>1. /\ buffer \cup S \in SUBSET Logs
      /\ \A l \in buffer \cup S : ingests[l] = 0
  BY DEF TypeOK, DeliveryBound
<1>2. flush' = [flush EXCEPT ![t] = Begin(buffer \cup S)]
  BY DEF TakeAll
<1>3. QED
  BY <1>1, <1>2, BeginDisciplined, OneTaskDisciplined

LEMMA ServerIngestsBound ==
  ASSUME TypeOK, OneOwner, AttemptDiscipline, DeliveryBound,
         NEW t \in Tasks, ServerIngests(t)
  PROVE  AttemptDiscipline' /\ DeliveryBound'
<1> DEFINE batch == Current(flush[t].todo)
<1>1. batch \subseteq flush[t].todo /\ flush[t].todo \in SUBSET Logs
      /\ flush[t].phase = "post" /\ flush[t].attempt \in 0..RetryAttempts
  BY CurrentSubset, TodoType DEF ServerIngests
<1>2. \A l \in Logs : ingests'[l] = ingests[l] + (IF l \in batch THEN 1 ELSE 0)
  BY DEF ServerIngests
<1>3. \A l \in Logs : ingests[l] \in Nat
  BY DEF TypeOK
<1>4. \A l \in batch : ingests[l] < flush[t].attempt
  BY <1>1 DEF AttemptDiscipline
<1>5. /\ flush'[t].todo = flush[t].todo /\ flush'[t].attempt = flush[t].attempt
      /\ flush'[t].phase = "ingested"
      /\ \A u \in Tasks : u # t => flush'[u] = flush[u]
  BY DEF ServerIngests, TypeOK, TaskState
<1>6. AttemptDiscipline'
  <2> SUFFICES ASSUME NEW u \in Tasks
               PROVE  Disciplined(flush'[u], ingests')
    BY DEF AttemptDiscipline, Disciplined
  <2>1. CASE u = t
    <3>1. \A l \in flush[t].todo : l \notin batch => ingests'[l] = 0
      BY <1>1, <1>2, <1>3 DEF AttemptDiscipline
    <3>2. \A l \in batch : ingests'[l] <= flush[t].attempt /\ ingests'[l] > 0
      BY <1>1, <1>2, <1>3, <1>4
    <3>3. flush[t].attempt > 0
      BY <1>1 DEF AttemptDiscipline, Idle
    <3>4. QED
      BY <1>5, <2>1, <3>1, <3>2, <3>3 DEF Disciplined
  <2>2. CASE u # t
    <3>1. \A l \in flush[u].todo : l \in Logs /\ l \notin batch
      BY <1>1, <2>2, TodoType DEF OneOwner
    <3>2. \A l \in flush[u].todo : ingests'[l] = ingests[l]
      BY <1>2, <1>3, <3>1
    <3>3. Disciplined(flush[u], ingests)
      BY DisciplineOfTasks
    <3>4. QED
      BY <1>5, <2>2, <3>2, <3>3 DEF Disciplined
  <2>3. QED
    BY <2>1, <2>2
<1>7. DeliveryBound'
  <2>1. \A l \in batch : l \in handed /\ l \notin buffer
    BY <1>1 DEF OneOwner
  <2>2. handed' = handed /\ buffer' = buffer
    BY DEF ServerIngests
  <2>3. (\A l \in Logs : l \notin handed \/ l \in buffer => ingests[l] = 0)'
    BY <1>2, <1>3, <2>1, <2>2 DEF DeliveryBound
  <2>4. (\A l \in Logs : ingests[l] <= RetryAttempts)'
    BY <1>1, <1>2, <1>3, <1>4, PusherAssumption DEF DeliveryBound
  <2>5. QED
    BY <2>3, <2>4 DEF DeliveryBound
<1>8. QED
  BY <1>6, <1>7

(* What is inductive: no batch was delivered more often than it was        *)
(* attempted, waiting chains and pending logs were not delivered at all.   *)
LEMMA DisciplineStep ==
  /\ TypeOK /\ OneOwner /\ AttemptDiscipline /\ DeliveryBound
  /\ [PusherNext]_vars
  => (AttemptDiscipline /\ DeliveryBound)'
<1> SUFFICES ASSUME TypeOK, OneOwner, AttemptDiscipline, DeliveryBound, [PusherNext]_vars
             PROVE  AttemptDiscipline' /\ DeliveryBound'
  OBVIOUS
<1>1. ASSUME UNCHANGED ingests, NEW S \in SUBSET (Logs \ handed),
             handed' = handed \cup S, buffer' \subseteq buffer \cup S
      PROVE  DeliveryBound'
  BY <1>1 DEF DeliveryBound
<1>2. ASSUME UNCHANGED <<ingests, handed>>, buffer' \subseteq buffer
      PROVE  DeliveryBound'
  BY <1>2 DEF DeliveryBound
<1>3. ASSUME NEW t \in Handlers, NEW S \in SUBSET (Logs \ handed), OnNewLogs(t, S)
      PROVE  AttemptDiscipline' /\ DeliveryBound'
  <2>1. DeliveryBound'
    BY <1>1, <1>3 DEF OnNewLogs, TakeAll
  <2>2. CASE Full(buffer \cup S)
    BY <1>3, <2>1, <2>2, TakeAllDisciplined DEF OnNewLogs, Tasks
  <2>3. CASE ~Full(buffer \cup S)
    BY <1>3, <2>1, <2>3 DEF OnNewLogs, AttemptDiscipline
  <2>4. QED
    BY <2>2, <2>3
<1>4. ASSUME NEW t \in Tasks, TakeAll(t, buffer), UNCHANGED <<ingests, handed>>
      PROVE  AttemptDiscipline' /\ DeliveryBound'
  <2> DEFINE none == {}
  <2>1. none \in SUBSET (Logs \ handed) /\ TakeAll(t, buffer \cup none)
    BY <1>4
  <2>2. DeliveryBound'
    BY <1>2, <1>4 DEF TakeAll
  <2> HIDE DEF none
  <2>3. QED
    BY <1>4, <2>1, <2>2, TakeAllDisciplined
<1>5. CASE PeriodicFlush
  BY <1>4, <1>5 DEF PeriodicFlush, Tasks
<1>6. ASSUME NEW t \in Tasks, Progress(t)
      PROVE  AttemptDiscipline' /\ DeliveryBound'
  <2>1. CASE ServerIngests(t)
    BY <2>1, ServerIngestsBound
  <2>2. CASE PostAccepted(t) \/ PostBadRequest(t)
    BY <1>2, <2>2, FinishBatchDisciplined DEF PostAccepted, PostBadRequest
  <2>3. flush[t].phase # "idle" => flush[t].attempt \in Nat /\ flush[t].attempt > 0
    BY TodoType DEF AttemptDiscipline, Idle
  <2>4. CASE PostFails(t)
    BY <1>2, <2>3, <2>4, FailedAttemptDisciplined DEF PostFails
  <2>5. CASE BackoffEnds(t)
    <3>1. DeliveryBound'
      BY <1>2, <2>5 DEF BackoffEnds
    <3>2. CASE ~CanPost
      BY <2>3, <2>5, <3>1, <3>2, FailedAttemptDisciplined DEF BackoffEnds
    <3>3. CASE CanPost
      <4> DEFINE s == Attempt(flush[t].todo, flush[t].attempt + 1)
      <4>1. flush' = [flush EXCEPT ![t] = s]
        BY <2>5, <3>3 DEF BackoffEnds
      <4>2. \A l \in flush[t].todo : ingests[l] \in Nat
        BY TodoType DEF TypeOK
      <4>3. Disciplined(s, ingests)
        BY <2>3, <2>5, <3>3, <4>2 DEF BackoffEnds, Attempt, Disciplined, AttemptDiscipline
      <4> HIDE DEF s
      <4>4. QED
        BY <2>5, <3>1, <4>1, <4>3, OneTaskDisciplined DEF BackoffEnds
    <3>4. QED
      BY <3>2, <3>3
  <2>6. QED
    BY <1>6, <2>1, <2>2, <2>4, <2>5 DEF Progress
<1>7. CASE Lifespan
  <2>1. CASE FinalFlush
    BY <1>4, <2>1 DEF FinalFlush, Tasks
  <2>2. CASE Start \/ CloseSession
    BY <1>2, <2>2 DEF Start, CloseSession, AttemptDiscipline
  <2>3. Disciplined(Idle, ingests)
    BY DEF Disciplined, Idle
  <2>4. CASE CancelPeriodic
    BY <1>2, <2>3, <2>4, OneTaskDisciplined DEF CancelPeriodic, Tasks
  <2>5. CASE Exit
    BY <1>2, <2>5 DEF Exit, AttemptDiscipline, Idle
  <2>6. QED
    BY <1>7, <2>1, <2>2, <2>4, <2>5 DEF Lifespan
<1>8. CASE UNCHANGED vars
  BY <1>2, <1>8 DEF vars, AttemptDiscipline
<1>9. QED
  BY <1>3, <1>5, <1>6, <1>7, <1>8 DEF PusherNext

LEMMA InitDisciplined == Init => AttemptDiscipline /\ DeliveryBound
  BY PusherAssumption DEF Init, AttemptDiscipline, DeliveryBound, Idle

LEMMA AttemptsAreDisciplined == Spec => [](AttemptDiscipline /\ DeliveryBound)
  BY InitDisciplined, DisciplineStep, TypeCorrect, LogsHaveOneOwner, NextIsPusherNext, PTL
     DEF Spec

(* BoundedDuplicates for all constants: it follows from AttemptDiscipline, *)
(* the bound on the deliveries and the single owner of each log.           *)
THEOREM DuplicatesAreBounded == Spec => []BoundedDuplicates
<1>1. TypeOK /\ OneOwner /\ DeliveryBound => BoundedDuplicates
  BY DEF TypeOK, DeliveryBound, BoundedDuplicates
<1>2. QED
  BY <1>1, TypeCorrect, LogsHaveOneOwner, AttemptsAreDisciplined, PTL

-----------------------------------------------------------------------------
(* LogPusher implements LogDelivery. *)

(* Where each log is, by its fate. *)
FateTells ==
  \A l \in Logs :
    /\ \A o \in Outcomes : Fate(l) = o <=> l \in outcome[o]
    /\ Fate(l) = "held" <=> l \in handed /\ \A o \in Outcomes : l \notin outcome[o]
    /\ Fate(l) = "new" <=> l \notin handed
    /\ Fate(l) \in Outcomes \cup {"held", "new"}

(* With one owner per log the cases of Fate exclude each other. *)
LEMMA FateCases == TypeOK /\ OneOwner => FateTells
<1> SUFFICES ASSUME TypeOK, OneOwner, NEW l \in Logs
             PROVE  /\ \A o \in Outcomes : Fate(l) = o <=> l \in outcome[o]
                    /\ Fate(l) = "held" <=>
                          l \in handed /\ \A o \in Outcomes : l \notin outcome[o]
                    /\ Fate(l) = "new" <=> l \notin handed
                    /\ Fate(l) \in Outcomes \cup {"held", "new"}
  BY DEF FateTells
<1>1. l \in Settled <=> \E o \in Outcomes : l \in outcome[o]
  BY DEF Settled
<1>2. Settled \subseteq handed
  BY DEF OneOwner
<1>3. \A o, p \in Outcomes : l \in outcome[o] /\ l \in outcome[p] => o = p
  BY DEF OneOwner
<1>4. CASE l \in outcome["acked"]
  BY <1>1, <1>2, <1>3, <1>4 DEF Fate, Outcomes
<1>5. CASE l \in outcome["discarded"]
  BY <1>1, <1>2, <1>3, <1>5 DEF Fate, Outcomes
<1>6. CASE l \in outcome["dropped"]
  BY <1>1, <1>2, <1>3, <1>6 DEF Fate, Outcomes
<1>7. CASE l \in outcome["lost"]
  BY <1>1, <1>2, <1>3, <1>7 DEF Fate, Outcomes
<1>8. CASE l \notin Settled
  <2>1. \A o \in Outcomes : l \notin outcome[o]
    BY <1>1, <1>8
  <2>2. Fate(l) = IF l \in handed THEN "held" ELSE "new"
    BY <1>8, <2>1 DEF Fate, Outcomes
  <2>3. QED
    BY <2>1, <2>2 DEF Outcomes
<1>9. QED
  BY <1>1, <1>4, <1>5, <1>6, <1>7, <1>8 DEF Outcomes

LEMMA FateCasesNext == (TypeOK /\ OneOwner)' => FateTells'
  BY FateCases, PTL

(* What no step undoes, and which step may give a log an outcome. *)
Monotone ==
  /\ handed \subseteq handed'
  /\ \A o \in Outcomes : outcome[o] \subseteq outcome'[o]

LEMMA AcceptStep ==
  ASSUME TypeOK, OneOwner, TypeOK', OneOwner', Monotone, UNCHANGED ingests,
         \A o \in Outcomes \ {"dropped"} : outcome'[o] = outcome[o]
  PROVE  Delivery!Accept
<1> SUFFICES ASSUME NEW l \in Logs
             PROVE  \/ Fate(l)' = Fate(l)
                    \/ Fate(l) = "new" /\ Fate(l)' \in {"held", "dropped"}
                    \/ Fate(l) = "held" /\ Fate(l)' = "dropped"
  BY DEF Delivery!Accept
<1>1. FateTells /\ FateTells'
  BY FateCases, FateCasesNext
<1>2. QED
  BY <1>1 DEF FateTells, Monotone, Outcomes

LEMMA ResolveStep ==
  ASSUME TypeOK, OneOwner, TypeOK', OneOwner', Monotone, UNCHANGED <<handed, ingests>>,
         \A l \in outcome'["acked"] \ outcome["acked"] : ingests[l] > 0
  PROVE  Delivery!Resolve
<1> SUFFICES ASSUME NEW l \in Logs
             PROVE  \/ Fate(l)' = Fate(l)
                    \/ /\ Fate(l) = "held"
                       /\ Fate(l)' \in Outcomes
                       /\ Fate(l)' = "acked" => ingests[l] > 0
  <2>1. Delivery!Final = Outcomes
    BY DEF Delivery!Final, Outcomes
  <2>2. QED
    BY <2>1 DEF Delivery!Resolve
<1>1. FateTells /\ FateTells'
  BY FateCases, FateCasesNext
<1>2. QED
  BY <1>1 DEF FateTells, Monotone, Outcomes

(* How the parts of the steps change the outcomes. *)
LEMMA SettleMonotone ==
  ASSUME TypeOK, NEW S, NEW o, NEW rest, Settle(S, o, rest)
  PROVE  /\ \A k \in Outcomes : outcome[k] \subseteq outcome'[k]
         /\ \A k \in Outcomes \ {o, "dropped"} : outcome'[k] = outcome[k]
         /\ o # "dropped" => \A k \in Outcomes : k = o => outcome'[k] \subseteq outcome[k] \cup S
<1>1. ASSUME NEW k \in Outcomes
      PROVE  outcome'[k] = outcome[k] \cup (IF k = o THEN S ELSE {})
                             \cup (IF k = "dropped" THEN FailsAtOnce(rest) ELSE {})
  BY DEF Settle
<1>2. QED
  BY <1>1

LEMMA FailedAttemptResolves ==
  ASSUME TypeOK, OneOwner, TypeOK', OneOwner', NEW t \in Tasks, NEW n,
         FailedAttempt(t, n), UNCHANGED <<handed, ingests>>
  PROVE  Delivery!Resolve
<1>1. Monotone /\ outcome'["acked"] = outcome["acked"]
  <2>1. CASE MayRetry(n)
    BY <2>1 DEF FailedAttempt, Monotone
  <2>2. CASE ~MayRetry(n)
    BY <2>2, SettleMonotone DEF FailedAttempt, FinishBatch, Monotone, Outcomes
  <2>3. QED
    BY <2>1, <2>2
<1>2. QED
  BY <1>1, ResolveStep

LEMMA FinishBatchResolves ==
  ASSUME TypeOK, OneOwner, TypeOK', OneOwner', NEW t \in Tasks,
         NEW o \in {"acked", "discarded"}, FinishBatch(t, o),
         UNCHANGED <<handed, ingests>>,
         o = "acked" => \A l \in Current(flush[t].todo) : ingests[l] > 0
  PROVE  Delivery!Resolve
<1>1. /\ \A k \in Outcomes : outcome[k] \subseteq outcome'[k]
      /\ \A k \in Outcomes \ {o, "dropped"} : outcome'[k] = outcome[k]
      /\ outcome'[o] \subseteq outcome[o] \cup Current(flush[t].todo)
  BY SettleMonotone DEF FinishBatch, Outcomes
<1>2. Monotone
  BY <1>1 DEF Monotone
<1>3. \A l \in outcome'["acked"] \ outcome["acked"] : ingests[l] > 0
  BY <1>1 DEF Outcomes
<1>4. QED
  BY <1>2, <1>3, ResolveStep

LEMMA TakeAllAccepts ==
  ASSUME TypeOK, OneOwner, TypeOK', OneOwner', NEW t \in Tasks, NEW S,
         TakeAll(t, S), handed \subseteq handed', UNCHANGED ingests
  PROVE  Delivery!Accept
  BY SettleMonotone, AcceptStep DEF TakeAll, Monotone

(* Taking a request in delivers logs that are held, and not too often. *)
LEMMA ServerIngestsDelivers ==
  ASSUME TypeOK, OneOwner, TypeOK', OneOwner', AttemptDiscipline,
         NEW t \in Tasks, ServerIngests(t)
  PROVE  Delivery!Deliver
<1> DEFINE batch == Current(flush[t].todo)
<1>1. \A l \in Logs : Fate(l)' = Fate(l)
  BY DEF ServerIngests, Fate, Settled
<1>2. ASSUME NEW l \in batch
      PROVE  Fate(l) = "held" /\ ingests[l] < RetryAttempts
  <2>1. l \in flush[t].todo /\ l \in Logs /\ flush[t].attempt \in 0..RetryAttempts
    BY <1>2, CurrentSubset, TodoType
  <2>2. l \in handed /\ l \notin Settled
    BY <2>1 DEF OneOwner
  <2>3. Fate(l) = "held"
    BY <2>1, <2>2, FateCases DEF Settled, FateTells
  <2>4. ingests[l] < flush[t].attempt /\ ingests[l] \in Nat
    BY <1>2, <2>1 DEF AttemptDiscipline, ServerIngests, TypeOK
  <2>5. QED
    BY <2>1, <2>3, <2>4, PusherAssumption
<1>3. \A l \in Logs : ingests'[l] = ingests[l] + (IF l \in batch THEN 1 ELSE 0)
  BY DEF ServerIngests
<1>4. \A l \in Logs : \/ ingests'[l] = ingests[l]
                      \/ /\ Fate(l) = "held"
                         /\ ingests[l] < RetryAttempts
                         /\ ingests'[l] = ingests[l] + 1
  BY <1>2, <1>3 DEF TypeOK
<1> HIDE DEF batch
<1>5. QED
  BY <1>1, <1>4 DEF Delivery!Deliver

(* Buffering, concurrent flushes, retries and shutdown implement           *)
(* LogDelivery: each step accepts, delivers or resolves logs, or stutters. *)
THEOREM PusherImplementsDelivery == Spec => ImplementsDelivery
<1>1. Init => Delivery!Init
  BY DEF Init, Delivery!Init, Fate, Settled, Outcomes
<1>2. /\ TypeOK /\ OneOwner /\ AttemptDiscipline /\ TypeOK' /\ OneOwner' /\ [Next]_vars
      => [Delivery!Next]_<<[l \in Logs |-> Fate(l)], ingests>>
  <2> SUFFICES ASSUME TypeOK, OneOwner, AttemptDiscipline, TypeOK', OneOwner', [Next]_vars
               PROVE  [Delivery!Next]_<<[l \in Logs |-> Fate(l)], ingests>>
    OBVIOUS
  <2>1. ASSUME NEW t \in Handlers, NEW S \in SUBSET (Logs \ handed), OnNewLogs(t, S)
        PROVE  Delivery!Next
    <3>1. t \in Tasks /\ handed \subseteq handed' /\ UNCHANGED ingests
      BY <2>1 DEF OnNewLogs, Tasks
    <3>2. CASE Full(buffer \cup S)
      BY <2>1, <3>1, <3>2, TakeAllAccepts DEF OnNewLogs, Delivery!Next
    <3>3. CASE ~Full(buffer \cup S)
      BY <2>1, <3>1, <3>3, AcceptStep DEF OnNewLogs, Monotone, Delivery!Next
    <3>4. QED
      BY <3>2, <3>3
  <2>2. CASE PeriodicFlush
    BY <2>2, TakeAllAccepts DEF PeriodicFlush, Tasks, Delivery!Next
  <2>3. ASSUME NEW t \in Tasks, Progress(t)
        PROVE  Delivery!Next
    <3>1. CASE ServerIngests(t)
      BY <3>1, ServerIngestsDelivers DEF Delivery!Next
    <3>2. CASE PostAccepted(t)
      <4>1. \A l \in Current(flush[t].todo) : ingests[l] > 0
        BY <3>2, CurrentSubset, TodoType DEF PostAccepted, AttemptDiscipline
      <4>2. QED
        BY <3>2, <4>1, FinishBatchResolves DEF PostAccepted, Delivery!Next
    <3>3. CASE PostBadRequest(t)
      BY <3>3, FinishBatchResolves DEF PostBadRequest, Delivery!Next
    <3>4. CASE PostFails(t)
      BY <3>4, FailedAttemptResolves DEF PostFails, Delivery!Next
    <3>5. CASE BackoffEnds(t)
      <4>1. CASE CanPost
        BY <3>5, <4>1, ResolveStep DEF BackoffEnds, Monotone, Delivery!Next
      <4>2. CASE ~CanPost
        BY <3>5, <4>2, FailedAttemptResolves DEF BackoffEnds, Delivery!Next
      <4>3. QED
        BY <4>1, <4>2
    <3>6. QED
      BY <2>3, <3>1, <3>2, <3>3, <3>4, <3>5 DEF Progress
  <2>4. CASE Lifespan
    <3>1. CASE FinalFlush
      BY <3>1, TakeAllAccepts DEF FinalFlush, Tasks, Delivery!Next
    <3>2. CASE Start \/ CloseSession
      BY <3>2, ResolveStep DEF Start, CloseSession, Monotone, Delivery!Next
    <3>3. CASE CancelPeriodic \/ Exit
      <4>1. /\ UNCHANGED <<handed, ingests>>
            /\ \A o \in Outcomes : outcome[o] \subseteq outcome'[o]
            /\ outcome'["acked"] = outcome["acked"]
        BY <3>3 DEF CancelPeriodic, Exit, TypeOK, Outcomes
      <4>2. QED
        BY <4>1, ResolveStep DEF Monotone, Delivery!Next
    <3>4. QED
      BY <2>4, <3>1, <3>2, <3>3 DEF Lifespan
  <2>5. CASE UNCHANGED vars
    BY <2>5 DEF vars, Fate, Settled
  <2>6. QED
    BY <2>1, <2>2, <2>3, <2>4, <2>5 DEF Next
<1>3. QED
  BY <1>1, <1>2, TypeCorrect, LogsHaveOneOwner, AttemptsAreDisciplined, PTL
     DEF Spec, ImplementsDelivery, Delivery!Spec
-----------------------------------------------------------------------------
(* The counters. *)

(* n counts batches that together are S. *)
Counts(n, S) == n \in Nat /\ n <= Cardinality(S) /\ (n > 0 <=> S # {})

LEMMA CountsAdd ==
  ASSUME NEW S \in SUBSET Logs, NEW T \in SUBSET Logs, S \cap T = {},
         NEW n, Counts(n, S), NEW k, Counts(k, T)
  PROVE  Counts(n + k, S \cup T)
<1>1. IsFiniteSet(S) /\ IsFiniteSet(T)
  BY PusherAssumption, FS_Subset
<1>2. /\ Cardinality(S) \in Nat /\ Cardinality(T) \in Nat
      /\ Cardinality(S \cup T) = Cardinality(S) + Cardinality(T) - Cardinality(S \cap T)
      /\ Cardinality(S \cap T) = 0
  BY <1>1, FS_CardinalityType, FS_Union, FS_EmptySet
<1>3. Cardinality(S \cup T) = Cardinality(S) + Cardinality(T)
  BY <1>2
<1>4. QED
  BY <1>2, <1>3 DEF Counts

LEMMA CountsNone == Counts(0, {})
  BY FS_EmptySet DEF Counts

LEMMA CountsOne ==
  ASSUME NEW S \in SUBSET Logs, S # {}
  PROVE  Counts(1, S)
<1>1. IsFiniteSet(S)
  BY PusherAssumption, FS_Subset
<1>2. Cardinality(S) \in Nat /\ Cardinality(S) # 0
  BY <1>1, FS_CardinalityType, FS_EmptySet
<1>3. QED
  BY <1>2 DEF Counts

LEMMA CountsBatches ==
  ASSUME NEW S \in SUBSET Logs
  PROVE  Counts(Batches(S), S)
<1> DEFINE T == {ChainOf[l] : l \in S}
           f == [l \in S |-> ChainOf[l]]
<1>1. IsFiniteSet(S)
  BY PusherAssumption, FS_Subset
<1>2. f \in Surjection(S, T)
  BY DEF Surjection
<1>3. T = {} <=> S = {}
  OBVIOUS
<1> HIDE DEF T
<1>4. IsFiniteSet(T) /\ Cardinality(T) <= Cardinality(S) /\ Cardinality(T) \in Nat
  BY <1>1, <1>2, FS_Surjection, FS_CardinalityType
<1>5. Cardinality(T) = 0 <=> T = {}
  BY <1>4, FS_EmptySet
<1>6. Batches(S) = Cardinality(T)
  BY DEF Batches, T
<1>7. QED
  BY <1>3, <1>4, <1>5, <1>6 DEF Counts

(* A task that has logs has a batch, all of one chain. *)
LEMMA CurrentIsBatch ==
  ASSUME NEW S \in SUBSET Logs, S # {}
  PROVE  /\ Current(S) # {}
         /\ \A l, m \in Current(S) : ChainOf[l] = ChainOf[m]
<1> DEFINE T == {ChainOf[l] : l \in S}
<1>1. \A l \in S : ChainOf[l] \in Nat
  BY PusherAssumption
<1>2. T \in SUBSET Nat /\ T # {}
  BY <1>1
<1>3. \E c \in T : \A d \in T : c <= d
  <2> HIDE DEF T
  <2>1. QED
    BY <1>2, LeastExists
<1>4. Current(S) # {}
  BY <1>3 DEF Current
<1>5. QED
  BY <1>1, <1>4 DEF Current

Answered == outcome["acked"] \cup outcome["discarded"]

(* The block noted for a chain is one of the logs answered.                *)
Noted(S, last) ==
  \A c \in ChainIds :
    IF \A l \in S : ChainOf[l] # c THEN last[c] = 0
    ELSE \E l \in S : ChainOf[l] = c /\ BlockOf[l] = last[c]

Counted ==
  /\ Counts(stats.total_failed, outcome["dropped"])
  /\ Counts(stats.total_pushed, Answered)
  /\ Noted(Answered, lastPushed)
  /\ \A t \in Tasks : flush[t].phase # "idle" => flush[t].todo # {}

LEMMA CountedTells == TypeOK /\ Counted => CountersTellOutcome
  BY DEF TypeOK, Counted, Counts, Noted, Answered, CountersTellOutcome

LEMMA BeginHasTodo ==
  ASSUME NEW S
  PROVE  Begin(S).phase # "idle" => Begin(S).todo # {}
  BY DEF Begin, Attempt, Idle

LEMMA TakeAllCounted ==
  ASSUME TypeOK, Counted, NEW t \in Tasks, NEW S \in SUBSET Logs, S \cap Settled = {},
         TakeAll(t, S), UNCHANGED lastPushed
  PROVE  Counted'
<1> DEFINE F == FailsAtOnce(S)
<1>1. F \in SUBSET S
  BY BeginTodo
<1>2. Counts(Batches(F), F)
  BY <1>1, CountsBatches
<1>3. F \cap outcome["dropped"] = {} /\ outcome["dropped"] \in SUBSET Logs
  BY <1>1 DEF Settled, TypeOK, Outcomes
<1>4. /\ stats'.total_failed = stats.total_failed + Batches(F)
      /\ stats'.total_pushed = stats.total_pushed
  BY DEF TakeAll, TypeOK
<1>5. /\ outcome'["dropped"] = outcome["dropped"] \cup F
      /\ Answered' = Answered
  BY DEF TakeAll, Settle, Outcomes, Answered
<1>6. \A u \in Tasks : flush'[u] = IF u = t THEN Begin(S) ELSE flush[u]
  BY DEF TakeAll, TypeOK
<1> HIDE DEF F
<1>7. Counts(stats'.total_failed, outcome'["dropped"])
  BY <1>1, <1>2, <1>3, <1>4, <1>5, CountsAdd DEF Counted
<1>8. QED
  BY <1>4, <1>5, <1>6, <1>7, BeginHasTodo DEF Counted

LEMMA FinishBatchCounted ==
  ASSUME TypeOK, OneOwner, Counted, NEW t \in Tasks, flush[t].phase # "idle",
         NEW o \in {"acked", "discarded", "dropped"}, FinishBatch(t, o),
         IF o = "dropped" THEN UNCHANGED lastPushed ELSE NotePushed(t)
  PROVE  Counted'
<1> DEFINE batch == Current(flush[t].todo)
           rest  == flush[t].todo \ batch
           F     == FailsAtOnce(rest)
<1>1. /\ flush[t].todo \in SUBSET Logs /\ flush[t].todo # {}
      /\ batch \in SUBSET flush[t].todo /\ rest \in SUBSET Logs
  BY TodoType, CurrentSubset DEF Counted
<1>2. batch # {} /\ \A l, m \in batch : ChainOf[l] = ChainOf[m]
  BY <1>1, CurrentIsBatch
<1>3. F \in SUBSET rest /\ batch \cap F = {} /\ F \in SUBSET Logs /\ batch \in SUBSET Logs
  BY <1>1, BeginTodo
<1>4. Counts(Batches(F), F) /\ Counts(1, batch) /\ Counts(Batches(F) + 1, F \cup batch)
  BY <1>2, <1>3, CountsBatches, CountsOne, CountsAdd
<1>5. /\ (F \cup batch) \cap outcome["dropped"] = {}
      /\ batch \cap Answered = {}
      /\ Answered \in SUBSET Logs
      /\ outcome["dropped"] \in SUBSET Logs
  <2>1. flush[t].todo \cap Settled = {}
    BY DEF OneOwner
  <2>2. outcome["dropped"] \subseteq Settled /\ Answered \subseteq Settled
    BY DEF Settled, Outcomes, Answered
  <2>3. outcome["dropped"] \in SUBSET Logs /\ Answered \in SUBSET Logs
    BY DEF TypeOK, Outcomes, Answered
  <2>4. rest \subseteq flush[t].todo
    OBVIOUS
  <2> HIDE DEF batch, rest, F
  <2>5. F \cup batch \subseteq flush[t].todo
    BY <1>1, <1>3, <2>4
  <2>6. QED
    BY <2>1, <2>2, <2>3, <2>5
<1>6. \A u \in Tasks : flush'[u] = IF u = t THEN Begin(rest) ELSE flush[u]
  BY DEF FinishBatch, TypeOK
<1>7. /\ stats'.total_pushed = stats.total_pushed + (IF o = "dropped" THEN 0 ELSE 1)
      /\ stats'.total_failed = stats.total_failed + (IF o = "dropped" THEN 1 ELSE 0) + Batches(F)
  BY DEF FinishBatch, TypeOK
<1>8. \A k \in Outcomes : outcome'[k] = outcome[k] \cup (IF k = o THEN batch ELSE {})
                                          \cup (IF k = "dropped" THEN F ELSE {})
  BY DEF FinishBatch, Settle
<1> HIDE DEF batch, rest, F
<1>9. Batches(F) \in Nat /\ stats.total_failed \in Nat
  BY <1>4 DEF Counts, TypeOK
<1>10. CASE o = "dropped"
  <2>1. outcome'["dropped"] = outcome["dropped"] \cup (F \cup batch) /\ Answered' = Answered
    BY <1>8, <1>10 DEF Outcomes, Answered
  <2>2. /\ stats'.total_failed = stats.total_failed + (Batches(F) + 1)
        /\ stats'.total_pushed = stats.total_pushed
    BY <1>7, <1>9, <1>10 DEF TypeOK
  <2>3. F \cup batch \in SUBSET Logs
    BY <1>3
  <2>4. Counts(stats'.total_failed, outcome'["dropped"])
    BY <1>4, <1>5, <2>1, <2>2, <2>3, CountsAdd DEF Counted
  <2>5. QED
    BY <1>6, <1>10, <2>1, <2>2, <2>4, BeginHasTodo DEF Counted
<1>11. CASE o # "dropped"
  <2>1. outcome'["dropped"] = outcome["dropped"] \cup F /\ Answered' = Answered \cup batch
    BY <1>8, <1>11 DEF Outcomes, Answered
  <2>2. /\ stats'.total_failed = stats.total_failed + Batches(F)
        /\ stats'.total_pushed = stats.total_pushed + 1
    BY <1>7, <1>9, <1>11
  <2>3. Counts(stats'.total_failed, outcome'["dropped"])
    BY <1>3, <1>4, <1>5, <2>1, <2>2, CountsAdd DEF Counted
  <2>4. Counts(stats'.total_pushed, Answered')
    BY <1>3, <1>4, <1>5, <2>1, <2>2, CountsAdd DEF Counted
  <2>5. PICK l \in batch : lastPushed' = [lastPushed EXCEPT ![ChainOf[l]] = BlockOf[l]]
    BY <1>11 DEF NotePushed, batch
  <2>6. Noted(Answered', lastPushed')
    <3> SUFFICES ASSUME NEW c \in ChainIds
                 PROVE  IF \A m \in Answered' : ChainOf[m] # c THEN lastPushed'[c] = 0
                        ELSE \E m \in Answered' : ChainOf[m] = c /\ BlockOf[m] = lastPushed'[c]
      BY DEF Noted
    <3>1. lastPushed'[c] = IF c = ChainOf[l] THEN BlockOf[l] ELSE lastPushed[c]
      BY <2>5 DEF TypeOK
    <3>2. CASE c = ChainOf[l]
      BY <2>1, <2>5, <3>1, <3>2
    <3>3. CASE c # ChainOf[l]
      <4>1. \A m \in batch : ChainOf[m] # c
        BY <1>2, <2>5, <3>3
      <4>2. QED
        BY <2>1, <3>1, <3>3, <4>1 DEF Counted, Noted
    <3>4. QED
      BY <3>2, <3>3
  <2>7. QED
    BY <1>6, <2>3, <2>4, <2>6, BeginHasTodo DEF Counted
<1>12. QED
  BY <1>10, <1>11

LEMMA FailedAttemptCounted ==
  ASSUME TypeOK, OneOwner, Counted, NEW t \in Tasks, flush[t].phase # "idle",
         NEW n, FailedAttempt(t, n), UNCHANGED lastPushed
  PROVE  Counted'
<1>1. CASE MayRetry(n)
  <2>1. /\ stats'.total_failed = stats.total_failed /\ stats'.total_pushed = stats.total_pushed
        /\ UNCHANGED <<outcome, lastPushed>>
    BY <1>1 DEF FailedAttempt, TypeOK
  <2>2. \A u \in Tasks : flush'[u] =
           IF u = t THEN [todo |-> flush[t].todo, attempt |-> n, phase |-> "backoff"]
           ELSE flush[u]
    BY <1>1 DEF FailedAttempt, TypeOK
  <2>3. QED
    BY <2>1, <2>2 DEF Counted, Answered
<1>2. CASE ~MayRetry(n)
  BY <1>2, FinishBatchCounted DEF FailedAttempt
<1>3. QED
  BY <1>1, <1>2

LEMMA CountedStep ==
  ASSUME TypeOK, OneOwner, Counted, [Next]_vars
  PROVE  Counted'
<1>1. buffer \in SUBSET Logs /\ buffer \cap Settled = {} /\ Settled \subseteq handed
  BY DEF TypeOK, OneOwner
<1>2. ASSUME NEW t \in Handlers, NEW S \in SUBSET (Logs \ handed), OnNewLogs(t, S)
      PROVE  Counted'
  <2>1. CASE Full(buffer \cup S)
    <3>1. (buffer \cup S) \cap Settled = {} /\ buffer \cup S \in SUBSET Logs /\ t \in Tasks
      BY <1>1 DEF Tasks
    <3>2. QED
      BY <1>2, <2>1, <3>1, TakeAllCounted DEF OnNewLogs
  <2>2. CASE ~Full(buffer \cup S)
    <3>1. /\ stats'.total_failed = stats.total_failed /\ stats'.total_pushed = stats.total_pushed
          /\ UNCHANGED <<flush, outcome, lastPushed>>
      BY <1>2, <2>2 DEF OnNewLogs, TypeOK
    <3>2. QED
      BY <3>1 DEF Counted, Answered
  <2>3. QED
    BY <2>1, <2>2
<1>3. CASE PeriodicFlush
  BY <1>1, <1>3, TakeAllCounted DEF PeriodicFlush, Tasks
<1>4. ASSUME NEW t \in Tasks, Progress(t) PROVE Counted'
  <2>1. CASE ServerIngests(t)
    <3>1. \A u \in Tasks : flush'[u].todo = flush[u].todo /\ (u # t => flush'[u] = flush[u])
      BY <2>1 DEF ServerIngests, TypeOK, TaskState
    <3>2. flush[t].todo # {} /\ UNCHANGED <<stats, outcome, lastPushed>>
      BY <2>1 DEF ServerIngests, Counted
    <3>3. QED
      BY <3>1, <3>2 DEF Counted, Answered
  <2>2. CASE PostAccepted(t)
    BY <2>2, FinishBatchCounted DEF PostAccepted
  <2>3. CASE PostBadRequest(t)
    BY <2>3, FinishBatchCounted DEF PostBadRequest
  <2>4. CASE PostFails(t)
    BY <2>4, FailedAttemptCounted DEF PostFails
  <2>5. CASE BackoffEnds(t)
    <3>1. CASE CanPost
      <4>1. \A u \in Tasks : flush'[u].todo = flush[u].todo /\ (u # t => flush'[u] = flush[u])
        BY <2>5, <3>1 DEF BackoffEnds, Attempt, TypeOK, TaskState
      <4>2. flush[t].todo # {} /\ UNCHANGED <<stats, outcome, lastPushed>>
        BY <2>5, <3>1 DEF BackoffEnds, Counted
      <4>3. QED
        BY <4>1, <4>2 DEF Counted, Answered
    <3>2. CASE ~CanPost
      BY <2>5, <3>2, FailedAttemptCounted DEF BackoffEnds
    <3>3. QED
      BY <3>1, <3>2
  <2>6. QED
    BY <1>4, <2>1, <2>2, <2>3, <2>4, <2>5 DEF Progress
<1>5. CASE Lifespan
  <2>1. CASE FinalFlush
    BY <1>1, <2>1, TakeAllCounted DEF FinalFlush, Tasks
  <2>2. CASE Start \/ CloseSession
    BY <2>2 DEF Start, CloseSession, Counted, Answered
  <2>3. CASE CancelPeriodic \/ Exit
    <3>1. /\ UNCHANGED <<stats, lastPushed>>
          /\ outcome'["dropped"] = outcome["dropped"]
          /\ Answered' = Answered
      BY <2>3 DEF CancelPeriodic, Exit, TypeOK, Outcomes, Answered
    <3>2. \A t \in Tasks : flush'[t] = flush[t] \/ flush'[t].phase = "idle"
      BY <2>3 DEF CancelPeriodic, Exit, TypeOK, Idle
    <3>3. QED
      BY <3>1, <3>2 DEF Counted
  <2>4. QED
    BY <1>5, <2>1, <2>2, <2>3 DEF Lifespan
<1>6. CASE UNCHANGED vars
  BY <1>6 DEF vars, Counted, Answered
<1>7. QED
  BY <1>2, <1>3, <1>4, <1>5, <1>6 DEF Next

LEMMA InitCounted == Init => Counted
<1> SUFFICES ASSUME Init PROVE Counted
  OBVIOUS
<1>1. /\ outcome["dropped"] = {} /\ Answered = {}
      /\ stats.total_failed = 0 /\ stats.total_pushed = 0
  BY DEF Init, Outcomes, Answered
<1>2. Noted(Answered, lastPushed)
  BY <1>1 DEF Init, Noted
<1>3. QED
  BY <1>1, <1>2, CountsNone DEF Counted, Init, Idle

(* /pusher/stats, for any number of chains, handlers and batches: a batch  *)
(* is counted when, and only when, logs end that way, and as often at most *)
(* as there are such logs.                                                 *)
THEOREM CountersAreTrue == Spec => []CountersTellOutcome
<1>1. Spec => []Counted
  BY InitCounted, CountedStep, TypeCorrect, LogsHaveOneOwner, PTL DEF Spec
<1>2. QED
  BY <1>1, CountedTells, TypeCorrect, PTL
=============================================================================
