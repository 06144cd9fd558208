---------------------------- MODULE BacktestProofs ----------------------------
(***************************************************************************)
(* For every range, batch size and set of blocks with logs, and any number *)
(* of submissions: a task has a querier, hands on its range batch by batch *)
(* and its progress adds up.  At the end, for every configuration: which   *)
(* chain's runner a request finds.                                         *)
(***************************************************************************)
EXTENDS Backtest, WellFoundedInduction, TLAPS

(* A least number of two, as batch_end is one. *)
LEMMA MinOfTwo ==
  ASSUME NEW a \in Int, NEW b \in Int
  PROVE  Min({a, b}) = IF a <= b THEN a ELSE b
<1>1. \E x \in {a, b} : \A y \in {a, b} : x <= y
  BY DEF Min
<1>2. Min({a, b}) \in {a, b} /\ \A y \in {a, b} : Min({a, b}) <= y
  BY <1>1 DEF Min
<1> QED
  BY <1>2

(* total_batches counts the batches: after d of them of n blocks, w blocks *)
(* being left after the first, there is another one to come or there is    *)
(* not.                                                                    *)
LEMMA RoundedUp ==
  ASSUME NEW w \in Nat, NEW n \in Nat, n # 0, NEW d \in Nat, d * n <= w
  PROVE  /\ (w + n) \div n \in Nat
         /\ d < (w + n) \div n
         /\ w < d * n + n => d + 1 = (w + n) \div n
<1> DEFINE q == (w + n) \div n
<1>1. q \in Int /\ q * n <= w + n /\ w + n < q * n + n
  OBVIOUS
<1> HIDE DEF q
<1>2. \A x \in Int, y \in Int : x < y => x * n + n <= y * n
  OBVIOUS
<1>3. ~(q <= d)
  <2>1. CASE q = d
    BY <1>1, <2>1
  <2>2. CASE q < d
    BY <1>1, <1>2, <2>2
  <2> QED
    BY <1>1, <2>1, <2>2
<1>4. ASSUME w < d * n + n PROVE d + 1 = q
  <2>1. (d + 1) * n = d * n + n
    OBVIOUS
  <2>2. ~(d + 1 < q)
    BY <1>1, <1>2, <1>4, <2>1
  <2> QED
    BY <1>1, <1>3, <2>2
<1>5. q \in Nat /\ d < q
  BY <1>1, <1>3
<1> QED
  BY <1>4, <1>5 DEF q
-----------------------------------------------------------------------------
(* The inductive invariant. *)

TaskType ==
  [status : {"none", "opening", "rejected", "pending", "running", "completed", "failed"},
   from : Nat, to : Nat, size : Nat, next : Nat, total : Nat, done : Nat,
   out : Seq(SUBSET LogBlocks)]

TypeOK ==
  /\ pools \in Nat
  /\ pool \in 0..pools
  /\ stopped \subseteq 1..pools
  /\ subs \in [Submissions -> TaskType]
  /\ phase \in {"starting", "serving", "closed", "exited"}

(* The first block after the batches of a task so far. *)
Reached(t) == t.from + t.done * t.size

Got(t) == UNION {t.out[i] : i \in DOMAIN t.out}

Covers(t)  == Got(t) = {b \in LogBlocks : t.from <= b /\ b < Reached(t) /\ b <= t.to}
InOrder(t) == \A i, k \in DOMAIN t.out : i < k => \A a \in t.out[i], b \in t.out[k] : a < b

(* A task is between two batches, has done all of them or has failed. *)
AtBatch(t) ==
  /\ t.status \in {"pending", "running"} => t.next = Reached(t) /\ t.next <= t.to
  /\ t.status = "completed" => t.to < Reached(t) /\ t.done = t.total
  /\ t.status = "failed" => t.done <= t.total

TaskOK(t) ==
  /\ t.size # 0 /\ t.from <= t.to
  /\ t.total = BatchCount(t)
  /\ AtBatch(t)
  /\ Covers(t)
  /\ InOrder(t)

(* A submission that waits for a pool has handed on nothing.               *)
Fresh(t) == t.status = "opening" => t.out = <<>> /\ t.done = 0

Inv ==
  /\ TypeOK
  /\ TasksHaveQuerier
  /\ \A s \in Submissions : Fresh(subs[s])
  /\ \A s \in Submissions : HasTask(subs[s]) => TaskOK(subs[s])

(* A batch ends in the range, and the loop has come to its end if and only *)
(* if the next one would begin beyond.                                     *)
LEMMA BatchEnds ==
  ASSUME NEW t \in TaskType, t.size # 0, t.next <= t.to
  PROVE  /\ BatchEnd(t) \in Nat
         /\ t.next <= BatchEnd(t) /\ BatchEnd(t) <= t.to
         /\ \A b \in Nat : b <= BatchEnd(t) <=> b < t.next + t.size /\ b <= t.to
         /\ BatchEnd(t) < t.to => BatchEnd(t) + 1 = t.next + t.size
  BY MinOfTwo DEF BatchEnd, TaskType

(* A task that was just created is before its first batch. *)
LEMMA AdmittedIsOK ==
  ASSUME NEW t \in TaskType, t.out = <<>>, t.done = 0, ~HasTask(t)
  PROVE  /\ Admitted(t) \in TaskType
         /\ HasTask(Admitted(t)) => TaskOK(Admitted(t))
<1>1. CASE t.from > t.to \/ t.size = 0
  BY <1>1 DEF Admitted, TaskType, HasTask
<1>2. CASE t.from <= t.to /\ t.size # 0
  <2> DEFINE u == Admitted(t)
  <2>1. u = [t EXCEPT !.status = "pending", !.total = BatchCount(t), !.next = t.from]
    BY <1>2 DEF Admitted, TaskType
  <2>2. BatchCount(t) \in Nat
    <3> DEFINE w == t.to - t.from
    <3>1. w \in Nat /\ t.size \in Nat /\ 0 * t.size <= w
      BY <1>2 DEF TaskType
    <3>2. BatchCount(t) = (w + t.size) \div t.size
      BY DEF BatchCount
    <3> HIDE DEF w
    <3>3. (w + t.size) \div t.size \in Nat
      BY <1>2, <3>1, RoundedUp
    <3> QED
      BY <3>2, <3>3
  <2>3. u \in TaskType /\ BatchCount(u) = BatchCount(t)
    BY <2>1, <2>2 DEF TaskType, BatchCount
  <2>4. Reached(u) = t.from
    BY <1>2, <2>1 DEF Reached, TaskType
  <2>5. u.out = <<>> /\ u.from = t.from /\ t.from \in Nat
    BY <2>1 DEF TaskType
  <2>6. Got(u) = {} /\ InOrder(u)
    BY <2>5 DEF Got, InOrder
  <2>7. {b \in LogBlocks : u.from <= b /\ b < Reached(u) /\ b <= u.to} = {}
    <3>1. \A b \in LogBlocks : ~(t.from <= b /\ b < t.from)
      BY <2>5, BacktestAssumption
    <3> QED
      BY <2>4, <2>5, <3>1
  <2> QED
    BY <1>2, <2>1, <2>3, <2>4, <2>6, <2>7 DEF TaskOK, AtBatch, Covers, TaskType
<1> QED
  BY <1>1, <1>2 DEF TaskType

(* total_batches is reached with the batch that ends at the end.           *)
LEMMA BatchIsCounted ==
  ASSUME NEW t \in TaskType, t.status \in {"pending", "running"}, TaskOK(t)
  PROVE  /\ t.done + 1 <= t.total
         /\ BatchEnd(t) = t.to => t.done + 1 = t.total
<1> DEFINE w == t.to - t.from
           n == t.size
           d == t.done
<1>1. /\ t.size # 0 /\ t.from <= t.to /\ t.next = Reached(t) /\ t.next <= t.to
      /\ t.total = BatchCount(t)
  BY DEF TaskOK, AtBatch
<1>2. w \in Nat /\ n \in Nat /\ n # 0 /\ d \in Nat /\ d * n \in Nat
  BY <1>1 DEF TaskType
<1>3. d * n <= w
  BY <1>1, <1>2 DEF Reached, TaskType
<1>4. BatchEnd(t) = t.to => w < d * n + n
  <2>1. BatchEnd(t) = t.to => t.to < t.next + t.size
    BY <1>1, BatchEnds DEF TaskType
  <2> QED
    BY <1>1, <1>2, <2>1 DEF Reached, TaskType
<1>5. t.total = (w + n) \div n /\ d = t.done
  BY <1>1 DEF BatchCount
<1> HIDE DEF w, n, d
<1>6. /\ (w + n) \div n \in Nat
      /\ d < (w + n) \div n
      /\ w < d * n + n => d + 1 = (w + n) \div n
  BY <1>2, <1>3, RoundedUp
<1> QED
  BY <1>2, <1>4, <1>5, <1>6

(* What one batch adds to a task, whether its callback then returns or     *)
(* raises.                                                                 *)
LEMMA BatchHandsOn ==
  ASSUME NEW t \in TaskType, t.status = "running", TaskOK(t),
         NEW u, u.from = t.from, u.to = t.to, u.size = t.size,
         u.done = t.done + 1, u.out = Handed(t)
  PROVE  /\ Handed(t) \in Seq(SUBSET LogBlocks)
         /\ Reached(u) = t.next + t.size
         /\ Covers(u)
         /\ InOrder(u)
         /\ u.done <= t.total
         /\ BatchEnd(t) = t.to => u.done = t.total
<1>1. /\ t.size # 0 /\ t.from <= t.to /\ t.next = Reached(t) /\ t.next <= t.to
      /\ t.total = BatchCount(t)
  BY DEF TaskOK, AtBatch
<1>2. /\ BatchEnd(t) \in Nat
      /\ t.next <= BatchEnd(t) /\ BatchEnd(t) <= t.to
      /\ \A b \in Nat : b <= BatchEnd(t) <=> b < t.next + t.size /\ b <= t.to
  BY <1>1, BatchEnds
<1>3. Reached(u) = t.next + t.size
  BY <1>1 DEF Reached, TaskType
<1>4. Found(t) = {b \in LogBlocks : t.next <= b /\ b < t.next + t.size /\ b <= t.to}
  <2>1. \A b \in LogBlocks : b \in t.next..BatchEnd(t)
                               <=> t.next <= b /\ b < t.next + t.size /\ b <= t.to
    BY <1>2, BacktestAssumption DEF TaskType
  <2> QED
    BY <2>1 DEF Found
<1>5. \A i \in DOMAIN t.out : \A b \in t.out[i] : b \in LogBlocks /\ b < t.next
  BY <1>1 DEF TaskOK, Covers, Got
<1>6. Handed(t) \in Seq(SUBSET LogBlocks) /\ Got(u) = Got(t) \cup Found(t) /\ InOrder(u)
  <2>1. CASE Found(t) = {}
    BY <2>1 DEF Handed, Got, TaskOK, InOrder, TaskType
  <2>2. CASE Found(t) # {}
    <3>1. Handed(t) = Append(t.out, Found(t)) /\ Found(t) \in SUBSET LogBlocks
      BY <1>4, <2>2 DEF Handed
    <3>2. /\ Handed(t) \in Seq(SUBSET LogBlocks)
          /\ DOMAIN Handed(t) = DOMAIN t.out \cup {Len(t.out) + 1}
          /\ Handed(t)[Len(t.out) + 1] = Found(t)
          /\ DOMAIN t.out = 1..Len(t.out) /\ Len(t.out) \in Nat
          /\ \A i \in DOMAIN t.out : Handed(t)[i] = t.out[i]
      BY <3>1 DEF TaskType
    <3>3. Got(u) = Got(t) \cup Found(t)
      BY <3>2 DEF Got
    <3>4. InOrder(u)
      <4> SUFFICES ASSUME NEW i \in DOMAIN Handed(t), NEW k \in DOMAIN Handed(t), i < k,
                          NEW a \in Handed(t)[i], NEW b \in Handed(t)[k]
                   PROVE  a < b
        BY DEF InOrder
      <4>1. i \in DOMAIN t.out
        BY <3>2
      <4>2. CASE k \in DOMAIN t.out
        BY <3>2, <4>1, <4>2 DEF TaskOK, InOrder
      <4>3. CASE k = Len(t.out) + 1
        <5>1. a \in LogBlocks /\ a < t.next
          BY <1>5, <3>2, <4>1
        <5>2. b \in LogBlocks /\ t.next <= b
          BY <1>4, <3>2, <4>3
        <5> QED
          BY <5>1, <5>2, BacktestAssumption DEF TaskType
      <4> QED
        BY <3>2, <4>2, <4>3
    <3> QED
      BY <3>2, <3>3, <3>4
  <2> QED
    BY <2>1, <2>2
<1>7. Covers(u)
  <2>1. Got(t) = {b \in LogBlocks : t.from <= b /\ b < t.next /\ b <= t.to}
    BY <1>1 DEF TaskOK, Covers
  <2>2. t.from <= t.next
    <3>1. t.done * t.size \in Nat
      BY DEF TaskType
    <3> QED
      BY <1>1, <3>1 DEF Reached, TaskType
  <2>3. \A b \in LogBlocks :
          (t.from <= b /\ b < t.next /\ b <= t.to) \/ (t.next <= b /\ b < t.next + t.size /\ b <= t.to)
            <=> t.from <= b /\ b < t.next + t.size /\ b <= t.to
    BY <2>2, BacktestAssumption DEF TaskType
  <2> QED
    BY <1>3, <1>4, <1>6, <2>1, <2>3 DEF Covers
<1>8. u.done <= t.total /\ (BatchEnd(t) = t.to => u.done = t.total)
  BY BatchIsCounted
<1> QED
  BY <1>3, <1>6, <1>7, <1>8

-----------------------------------------------------------------------------
(* The invariant. *)

LEMMA ChosenIsANumber ==
  ASSUME NEW B \in SUBSET Nat, NEW c \in B \cup {NoBlock}, NEW f \in B \cup {NoBlock},
         Chosen(c, f) # NoBlock
  PROVE  Chosen(c, f) \in Nat
  BY DEF Chosen, NoBlock

(* A submission that finds a pool is a task, one that finds none waits.    *)
LEMMA SubmitKeeps ==
  ASSUME Inv, NEW s \in Submissions, NEW from \in Nat, NEW to \in Nat, NEW size \in Nat,
         Submit(s, from, to, size), UNCHANGED <<pool, pools, stopped, phase>>
  PROVE  Inv'
<1> DEFINE t == [NoTask EXCEPT !.from = from, !.to = to, !.size = size]
           u == IF pool = NoPool THEN [t EXCEPT !.status = "opening"] ELSE Admitted(t)
<1>1. t \in TaskType /\ t.status = "none" /\ t.out = <<>> /\ t.done = 0
  <2>1. <<>> \in Seq(SUBSET LogBlocks)
    OBVIOUS
  <2> QED
    BY <2>1 DEF NoTask, TaskType
<1>2. /\ Admitted(t) \in TaskType
      /\ HasTask(Admitted(t)) => TaskOK(Admitted(t))
  BY <1>1, AdmittedIsOK DEF HasTask
<1>3. /\ [t EXCEPT !.status = "opening"] \in TaskType
      /\ ~HasTask([t EXCEPT !.status = "opening"])
      /\ Fresh([t EXCEPT !.status = "opening"])
      /\ Fresh(Admitted(t))
  BY <1>1 DEF TaskType, HasTask, Fresh, Admitted
<1>4. subs' = [subs EXCEPT ![s] = u]
  BY DEF Submit
<1>5. u \in TaskType /\ (HasTask(u) => TaskOK(u) /\ pool # NoPool) /\ Fresh(u)
  BY <1>2, <1>3
<1> HIDE DEF u
<1> QED
  BY <1>4, <1>5 DEF Inv, TypeOK, TasksHaveQuerier

(* A step of one submission or of its task that leaves the pools alone.    *)
LEMMA TaskKeeps ==
  ASSUME Inv, NEW s \in Submissions, NEW u \in TaskType,
         subs' = [subs EXCEPT ![s] = u], UNCHANGED <<pool, pools, stopped, phase>>,
         u.status # "opening", HasTask(u) => HasTask(subs[s]) /\ TaskOK(u)
  PROVE  Inv'
  BY DEF Inv, TypeOK, TasksHaveQuerier, Fresh

LEMMA InitIsOK == Init => Inv
  BY DEF Init, Inv, TypeOK, TaskType, NoTask, NoPool, TasksHaveQuerier, HasTask, Fresh

LEMMA NextKeeps == Inv /\ [Next]_vars => Inv'
<1> SUFFICES ASSUME Inv, [Next]_vars PROVE Inv'
  OBVIOUS
<1>1. ASSUME NEW s \in Submissions, AutoSubmit(s) PROVE Inv'
  <2>1. PICK cf \in Froms \cup {NoBlock}, ff \in Froms \cup {NoBlock},
             ct \in Tos \cup {NoBlock}, ft \in Tos \cup {NoBlock}, n \in BatchSizes :
          /\ NoBlock \notin {Chosen(cf, ff), Chosen(ct, ft)}
          /\ Submit(s, Chosen(cf, ff), Chosen(ct, ft), n)
    BY <1>1 DEF AutoSubmit
  <2>2. Chosen(cf, ff) \in Nat /\ Chosen(ct, ft) \in Nat /\ n \in Nat
    BY <2>1, ChosenIsANumber, BacktestAssumption
  <2> QED
    BY <1>1, <2>1, <2>2, SubmitKeeps DEF AutoSubmit
<1>2. ASSUME NEW s \in Submissions, Request(s) PROVE Inv'
  <2>1. PICK f \in Froms, t \in Tos, n \in BatchSizes \ {0} : Submit(s, f, t, n)
    BY <1>2 DEF Request
  <2> QED
    BY <1>2, <2>1, SubmitKeeps, BacktestAssumption DEF Request
<1>3. ASSUME NEW s \in Submissions, PoolOpens(s) PROVE Inv'
  <2>1. subs[s] \in TaskType
    BY DEF Inv, TypeOK
  <2>2. subs[s].out = <<>> /\ subs[s].done = 0 /\ ~HasTask(subs[s])
    BY <1>3 DEF PoolOpens, HasTask, Inv, Fresh
  <2>3. /\ Admitted(subs[s]) \in TaskType
        /\ HasTask(Admitted(subs[s])) => TaskOK(Admitted(subs[s]))
    BY <2>1, <2>2, AdmittedIsOK
  <2>4. Fresh(Admitted(subs[s]))
    BY <2>1 DEF Admitted, Fresh, TaskType
  <2>5. pools' = pools + 1 /\ pool' = pools' /\ UNCHANGED <<stopped, phase>>
    BY <1>3 DEF PoolOpens
  <2>6. subs' = [subs EXCEPT ![s] = Admitted(subs[s])]
    BY <1>3 DEF PoolOpens
  <2>7. TypeOK'
    BY <2>3, <2>5, <2>6 DEF Inv, TypeOK
  <2>8. TasksHaveQuerier'
    BY <2>5 DEF TasksHaveQuerier, Inv, TypeOK, NoPool
  <2> QED
    BY <2>3, <2>4, <2>6, <2>7, <2>8 DEF Inv, TypeOK
<1>4. ASSUME NEW s \in Submissions, PoolFails(s) PROVE Inv'
  <2>1. subs' = [subs EXCEPT ![s] = [subs[s] EXCEPT !.status = "rejected"]]
    BY <1>4 DEF PoolFails, Inv, TypeOK
  <2>2. /\ [subs[s] EXCEPT !.status = "rejected"] \in TaskType
        /\ ~HasTask([subs[s] EXCEPT !.status = "rejected"])
        /\ [subs[s] EXCEPT !.status = "rejected"].status # "opening"
    BY DEF Inv, TypeOK, TaskType, HasTask
  <2> QED
    BY <1>4, <2>1, <2>2, TaskKeeps DEF PoolFails
<1>5. ASSUME NEW s \in Submissions, Begin(s) PROVE Inv'
  <2> DEFINE t == subs[s]
             u == [t EXCEPT !.status = "running"]
  <2>1. t \in TaskType /\ t.status = "pending" /\ TaskOK(t) /\ HasTask(t)
    BY <1>5 DEF Begin, Inv, TypeOK, HasTask
  <2>2. u \in TaskType /\ u.status = "running" /\ subs' = [subs EXCEPT ![s] = u]
    BY <1>5, <2>1 DEF Begin, TaskType, Inv, TypeOK
  <2>3. TaskOK(u)
    BY <2>1 DEF TaskOK, AtBatch, Covers, InOrder, Got, Reached, BatchCount, TaskType
  <2> QED
    BY <1>5, <2>1, <2>2, <2>3, TaskKeeps DEF Begin
<1>6. ASSUME NEW s \in Submissions, BatchDone(s) PROVE Inv'
  <2> DEFINE t == subs[s]
             u == [t EXCEPT !.done = t.done + 1, !.out = Handed(t), !.next = BatchEnd(t) + 1,
                            !.status = IF BatchEnd(t) < t.to THEN "running" ELSE "completed"]
  <2>1. t \in TaskType /\ t.status = "running" /\ TaskOK(t) /\ HasTask(t)
    BY <1>6 DEF BatchDone, Querying, Inv, TypeOK, HasTask
  <2>2. subs' = [subs EXCEPT ![s] = u]
    BY <1>6 DEF BatchDone
  <2>3. t.size # 0 /\ t.next <= t.to
    BY <2>1 DEF TaskOK, AtBatch
  <2>4. /\ BatchEnd(t) \in Nat
        /\ BatchEnd(t) <= t.to
        /\ \A b \in Nat : b <= BatchEnd(t) <=> b < t.next + t.size /\ b <= t.to
        /\ BatchEnd(t) < t.to => BatchEnd(t) + 1 = t.next + t.size
    BY <2>1, <2>3, BatchEnds
  <2>5. /\ u.from = t.from /\ u.to = t.to /\ u.size = t.size /\ u.total = t.total
        /\ u.done = t.done + 1 /\ u.out = Handed(t) /\ u.next = BatchEnd(t) + 1
        /\ u.status = IF BatchEnd(t) < t.to THEN "running" ELSE "completed"
    BY <2>1 DEF TaskType
  <2>6. /\ Handed(t) \in Seq(SUBSET LogBlocks)
        /\ Reached(u) = t.next + t.size
        /\ Covers(u)
        /\ InOrder(u)
        /\ BatchEnd(t) = t.to => u.done = t.total
    <3> HIDE DEF u
    <3> QED
      BY <2>1, <2>5, BatchHandsOn
  <2>7. u \in TaskType
    <3>1. BatchEnd(t) + 1 \in Nat /\ t.done + 1 \in Nat
      BY <2>1, <2>4 DEF TaskType
    <3>2. (IF BatchEnd(t) < t.to THEN "running" ELSE "completed") \in {"running", "completed"}
      OBVIOUS
    <3> HIDE DEF t
    <3> QED
      BY <2>1, <2>6, <3>1, <3>2 DEF TaskType
  <2>8. AtBatch(u)
    <3>1. CASE BatchEnd(t) < t.to
      BY <2>1, <2>4, <2>5, <2>6, <3>1 DEF AtBatch, TaskType
    <3>2. CASE BatchEnd(t) = t.to
      <4>1. t.to \in Nat /\ t.to < t.next + t.size
        BY <2>1, <2>4, <3>2 DEF TaskType
      <4>2. u.status = "completed"
        BY <2>5, <3>2, <4>1
      <4> HIDE DEF u
      <4> QED
        BY <2>5, <2>6, <3>2, <4>1, <4>2 DEF AtBatch
    <3> QED
      BY <2>1, <2>4, <3>1, <3>2 DEF TaskType
  <2>9. TaskOK(u)
    BY <2>1, <2>5, <2>6, <2>8 DEF TaskOK, BatchCount
  <2>10. u.status # "opening" /\ UNCHANGED <<pool, pools, stopped, phase>>
    BY <1>6, <2>5 DEF BatchDone
  <2> HIDE DEF u
  <2> QED
    BY <2>1, <2>2, <2>7, <2>9, <2>10, TaskKeeps
<1>7. ASSUME NEW s \in Submissions, CallbackRaises(s) PROVE Inv'
  <2> DEFINE t == subs[s]
             u == [t EXCEPT !.done = t.done + 1, !.out = Handed(t), !.status = "failed"]
  <2>1. t \in TaskType /\ t.status = "running" /\ TaskOK(t) /\ HasTask(t)
    BY <1>7 DEF CallbackRaises, Querying, Inv, TypeOK, HasTask
  <2>2. subs' = [subs EXCEPT ![s] = u]
    BY <1>7 DEF CallbackRaises
  <2>3. /\ u.from = t.from /\ u.to = t.to /\ u.size = t.size /\ u.total = t.total
        /\ u.done = t.done + 1 /\ u.out = Handed(t) /\ u.status = "failed"
    BY <2>1 DEF TaskType
  <2>4. /\ Handed(t) \in Seq(SUBSET LogBlocks)
        /\ Covers(u)
        /\ InOrder(u)
        /\ u.done <= t.total
    <3> HIDE DEF u
    <3> QED
      BY <2>1, <2>3, BatchHandsOn
  <2>5. u \in TaskType
    <3>1. t.done + 1 \in Nat
      BY <2>1 DEF TaskType
    <3> HIDE DEF t
    <3> QED
      BY <2>1, <2>4, <3>1 DEF TaskType
  <2>6. TaskOK(u)
    BY <2>1, <2>3, <2>4 DEF TaskOK, AtBatch, BatchCount
  <2>7. u.status # "opening" /\ UNCHANGED <<pool, pools, stopped, phase>>
    BY <1>7, <2>3 DEF CallbackRaises
  <2> HIDE DEF u
  <2> QED
    BY <2>1, <2>2, <2>5, <2>6, <2>7, TaskKeeps
<1>8. ASSUME NEW s \in Submissions, QueryFails(s) PROVE Inv'
  <2> DEFINE t == subs[s]
             u == [t EXCEPT !.status = "failed"]
  <2>1. t \in TaskType /\ t.status = "running" /\ TaskOK(t) /\ HasTask(t)
    BY <1>8 DEF QueryFails, Querying, Inv, TypeOK, HasTask
  <2>2. u \in TaskType /\ u.status = "failed" /\ subs' = [subs EXCEPT ![s] = u]
    BY <1>8, <2>1 DEF QueryFails, TaskType, Inv, TypeOK
  <2>3. t.done + 1 <= t.total
    BY <2>1, BatchIsCounted
  <2>4. TaskOK(u)
    <3>1. t.done <= t.total
      BY <2>1, <2>3 DEF TaskOK, BatchCount, TaskType
    <3> QED
      BY <2>1, <3>1 DEF TaskOK, AtBatch, Covers, InOrder, Got, Reached, BatchCount, TaskType
  <2> QED
    BY <1>8, <2>1, <2>2, <2>4, TaskKeeps DEF QueryFails
<1>9. CASE Serve \/ Exit
  BY <1>9 DEF Serve, Exit, Inv, TypeOK, TasksHaveQuerier
<1>10. CASE Close
  BY <1>10 DEF Close, Inv, TypeOK, TasksHaveQuerier, NoPool
<1>11. CASE UNCHANGED vars
  BY <1>11 DEF vars, Inv, TypeOK, TasksHaveQuerier
<1> QED
  BY <1>1, <1>2, <1>3, <1>4, <1>5, <1>6, <1>7, <1>8, <1>9, <1>10, <1>11 DEF Next, Task

LEMMA InvHolds == Spec => []Inv
  BY InitIsOK, NextKeeps, PTL DEF Spec

(* backtest.py, submit_backtest, ensure_pool: no task ever runs without a  *)
(* querier, however many submissions wait for the first pool at once.      *)
THEOREM TasksAlwaysHaveQuerier == Spec => []TasksHaveQuerier
<1>1. Inv => TasksHaveQuerier
  BY DEF Inv
<1> QED
  BY <1>1, InvHolds, PTL

(* backtest.py, _execute_backtest: what a task has handed on is its range  *)
(* up to the batch it has reached, each block once and in order, and all   *)
(* of its range if it is completed.                                        *)
THEOREM TasksDeliverPrefix == Spec => []DeliversPrefix
<1>1. ASSUME NEW t \in TaskType, TaskOK(t)
      PROVE  /\ Got(t) = LogBlocks \cap (t.from..Min({t.from + t.done * t.size - 1, t.to}))
             /\ t.status = "completed" => Got(t) = LogBlocks \cap (t.from..t.to)
  <2> DEFINE e == t.from + t.done * t.size - 1
  <2>1. t.from \in Nat /\ t.to \in Nat /\ e \in Int /\ Reached(t) = e + 1
    <3>1. t.from \in Nat /\ t.to \in Nat /\ t.done * t.size \in Int
      BY DEF TaskType
    <3> QED
      BY <3>1 DEF Reached
  <2> HIDE DEF e
  <2>2. Min({e, t.to}) = IF e <= t.to THEN e ELSE t.to
    BY <2>1, MinOfTwo
  <2>3. \A b \in LogBlocks : b \in t.from..Min({e, t.to})
                               <=> t.from <= b /\ b < e + 1 /\ b <= t.to
    BY <2>1, <2>2, BacktestAssumption
  <2>4. Got(t) = LogBlocks \cap (t.from..Min({e, t.to}))
    BY <1>1, <2>1, <2>3 DEF TaskOK, Covers
  <2>5. t.status = "completed" => Min({e, t.to}) = t.to
    BY <1>1, <2>1, <2>2 DEF TaskOK, AtBatch
  <2>6. t.status = "completed" => Got(t) = LogBlocks \cap (t.from..t.to)
    BY <2>4, <2>5
  <2> QED
    BY <2>4, <2>6 DEF e
<1>2. Inv => DeliversPrefix
  BY <1>1 DEF Inv, TypeOK, TaskOK, InOrder, Got, DeliversPrefix
<1> QED
  BY <1>2, InvHolds, PTL

(* backtest.py, _execute_backtest: the progress shown to clients reaches   *)
(* total_batches exactly when the task completes, for every range and      *)
(* every batch size.                                                       *)
THEOREM TasksProgressAddsUp == Spec => []ProgressAddsUp
<1>1. Inv => ProgressAddsUp
  <2> SUFFICES ASSUME Inv, NEW s \in Submissions, HasTask(subs[s])
               PROVE  /\ subs[s].done <= subs[s].total
                      /\ subs[s].status = "completed" => subs[s].done = subs[s].total
                      /\ subs[s].status \in {"pending", "running"} => subs[s].done < subs[s].total
    BY DEF ProgressAddsUp
  <2> DEFINE t == subs[s]
  <2>1. t \in TaskType /\ TaskOK(t) /\ AtBatch(t)
    BY DEF Inv, TypeOK, TaskOK
  <2>2. t.done \in Nat /\ t.total \in Nat
    BY <2>1 DEF TaskType
  <2>3. CASE t.status \in {"pending", "running"}
    <3>1. t.done + 1 <= t.total
      BY <2>1, <2>3, BatchIsCounted
    <3> QED
      BY <2>2, <2>3, <3>1
  <2>4. CASE t.status \in {"completed", "failed"}
    BY <2>1, <2>2, <2>4 DEF AtBatch
  <2> QED
    BY <2>3, <2>4 DEF HasTask
<1> QED
  BY <1>1, InvHolds, PTL

-----------------------------------------------------------------------------
(* The runner found for a name or an id. *)

LEMMA LeastExists ==
  ASSUME NEW S \in SUBSET Nat, S # {}
  PROVE  \E x \in S : \A y \in S : x <= y
<1>1. PICK x \in S : \A y \in S : ~ (<<y, x>> \in OpToRel(<, Nat))
  BY NatLessThanWellFounded, WFMin
<1>2. \A y \in S : ~ (y < x)
  BY <1>1 DEF OpToRel
<1> QED
  BY <1>2

LEMMA GreatestExists ==
  ASSUME NEW n \in Nat, NEW S \in SUBSET (1..n), S # {}
  PROVE  \E x \in S : \A y \in S : y <= x
<1> DEFINE Below == {n - y : y \in S}
<1>1. Below # {} /\ Below \in SUBSET Nat
  <2>1. \A y \in S : n - y \in Nat
    OBVIOUS
  <2> QED
    BY <2>1
<1>2. PICK b \in Below : \A c \in Below : b <= c
  <2> HIDE DEF Below
  <2> QED
    BY <1>1, LeastExists
<1>3. PICK x \in S : b = n - x
  BY <1>2
<1>4. \A y \in S : n - x <= n - y
  BY <1>2, <1>3
<1> QED
  BY <1>4

LEMMA RunnerIsLast ==
  ASSUME NEW k, Named(k) # {}
  PROVE  Runner(k) \in Named(k) /\ \A j \in Named(k) : j <= Runner(k)
<1>1. Len(Configured) \in Nat /\ Named(k) \in SUBSET (1..Len(Configured))
  BY LookupAssumption DEF Named
<1>2. \E i \in Named(k) : \A j \in Named(k) : j <= i
  BY <1>1, GreatestExists
<1> QED
  BY <1>2 DEF Runner

(* The key the second loop stops at is a key, and one like k. *)
LEMMA FirstAlikeIsAlike ==
  ASSUME NEW k, Alike(k) # {}
  PROVE  \E i \in Alike(k) : FirstAlike(k) \in KeysOf(i) /\ Lower[FirstAlike(k)] = Lower[k]
<1>1. Alike(k) \in SUBSET Nat
  BY LookupAssumption DEF Alike
<1>2. \E i \in Alike(k) : \A j \in Alike(k) : i <= j
  BY <1>1, LeastExists
<1> QED
  BY <1>2 DEF FirstAlike, Alike, KeysOf

(* main.py, _find_backtest_runner: a request for the name of a chain in    *)
(* any case, or for its id, reaches that chain's runner, if no two chains  *)
(* have a name or id in common.                                            *)
THEOREM EveryChainIsFound ==
  ASSUME NEW k \in Keys, NEW i \in DOMAIN Configured,
         \E key \in KeysOf(i) : Lower[key] = Lower[k],
         \A j, m \in DOMAIN Configured : \A a \in KeysOf(j), b \in KeysOf(m) :
           Lower[a] = Lower[b] => j = m
  PROVE  find(k) = i
<1>1. Alike(k) = {i}
  BY DEF Alike
<1>2. ASSUME NEW key, Lower[key] = Lower[k], Named(key) # {}
      PROVE  Runner(key) = i
  <2>1. Runner(key) \in Alike(k)
    BY <1>2, RunnerIsLast DEF Named, Alike
  <2> QED
    BY <1>1, <2>1
<1>3. CASE Named(k) # {}
  BY <1>2, <1>3 DEF find
<1>4. CASE Named(k) = {}
  <2>1. Lower[FirstAlike(k)] = Lower[k] /\ Named(FirstAlike(k)) # {}
    BY <1>1, FirstAlikeIsAlike DEF Named, Alike
  <2>2. Runner(FirstAlike(k)) = i
    BY <1>2, <2>1
  <2> QED
    BY <1>1, <1>4, <2>2 DEF find
<1> QED
  BY <1>3, <1>4

(* main.py, _find_backtest_runner: whatever the configuration, the runner  *)
(* found is that of a chain with the name or id asked for, but for case;   *)
(* the last of its three loops never finds one.                            *)
THEOREM NoOtherChainIsFound ==
  ASSUME NEW k \in Keys, find(k) # NoRunner
  PROVE  find(k) \in DOMAIN Configured /\ \E key \in KeysOf(find(k)) : Lower[key] = Lower[k]
<1>1. CASE Named(k) # {}
  BY <1>1, RunnerIsLast DEF find, Named
<1>2. CASE Named(k) = {} /\ Alike(k) # {}
  <2>1. Lower[FirstAlike(k)] = Lower[k] /\ Named(FirstAlike(k)) # {}
    BY <1>2, FirstAlikeIsAlike DEF Named, Alike
  <2> QED
    BY <1>2, <2>1, RunnerIsLast DEF find, Named
<1>3. CASE Named(k) = {} /\ Alike(k) = {}
  <2>1. InValues(k) = {}
    BY <1>3 DEF InValues, Alike, KeysOf
  <2> QED
    BY <1>3, <2>1 DEF find
<1> QED
  BY <1>1, <1>2, <1>3

(* main.py, _auto_submit_backtest: of two chains with one name the first   *)
(* gets no task; both turns go to a later one.                             *)
THEOREM ASharedNameTakesTheTurn ==
  ASSUME NEW i \in DOMAIN Configured, NEW j \in DOMAIN Configured,
         i < j, Configured[i].name = Configured[j].name
  PROVE  i \notin TurnsOf(i) /\ {i, j} \subseteq TurnsOf(Runner(Configured[i].name))
<1> DEFINE k == Configured[i].name
<1>1. {i, j} \subseteq Named(k)
  BY DEF Named, KeysOf
<1>2. Runner(k) \in Named(k) /\ j <= Runner(k)
  <2> HIDE DEF k
  <2> QED
    BY <1>1, RunnerIsLast
<1>3. Runner(k) # i
  BY <1>2, LookupAssumption DEF Named
<1> QED
  BY <1>3 DEF TurnsOf
=============================================================================
