-------------------------- MODULE BinarySearchProofs --------------------------
(***************************************************************************)
(* What holds of query_logs, for ranges, numbers of attempts, answers of   *)
(* the nodes and failures of any size and order; and of the pool's answers *)
(* it rests on.                                                            *)
(***************************************************************************)
EXTENDS BinarySearch, FiniteSetTheorems, TLAPS

-----------------------------------------------------------------------------
(* How the errors of a pool reach its callers, for every answer.           *)

Endings == {"returned", "LogLimitExceededError", "RpcRateLimitError", "RpcTimeoutError",
            "InvalidResponseError", "AllNodesFailedError"}

(* The classes _JsonRpcMethod.__call__ and apipool raise. *)
LEMMA CalledClasses ==
  ASSUME NEW a \in AnswerType
  PROVE  /\ Called(a).class \in {"none", "InvalidResponseError", "LogLimitExceededError",
                                 "RpcRateLimitError", "RpcTimeoutError", "Exception",
                                 "PoolExhaustedError"}
         /\ Called(a).class = "none" => Called(a) = NoError
  BY DEF Called, parse_rpc_error, Exception, NoError

(* apipool_client.py, get_logs: whatever comes back, the caller sees logs  *)
(* or one of the five classes _query_with_retry handles.                   *)
THEOREM GetLogsIsClassified ==
  ASSUME NEW a \in AnswerType
  PROVE  get_logs(a) \in Endings
  BY CalledClasses DEF get_logs, Endings, NoError

(* apipool_client.py, get_logs: HTTP 429 always stays a rate limit, it     *)
(* never makes the querier halve a range.                                  *)
THEOREM TooManyRequestsIsARateLimit ==
  ASSUME NEW a \in AnswerType, a.kind = "status", a.code = 429
  PROVE  get_logs(a) = "RpcRateLimitError"
  BY DEF get_logs, Called, Exception, NoError

(* apipool_client.py, get_block_number: a height is never refused as too   *)
(* large a result, whatever the error says.                                *)
THEOREM HeightsHaveNoLimit ==
  ASSUME NEW a \in AnswerType
  PROVE  get_block_number(a) \in Endings \ {"LogLimitExceededError"}
  BY CalledClasses DEF get_block_number, Endings, NoError

-----------------------------------------------------------------------------
(* Paths.                                                                  *)

Sides == {"left", "right"}
Steps == (0..(MaxRetries - 1)) \X Sides
Paths == Seq(Steps)

LEMMA AppendIsAPath ==
  ASSUME NEW p \in Paths, NEW e \in Steps
  PROVE  /\ Append(p, e) \in Paths /\ Append(p, e) # Root
         /\ Len(p) \in Nat /\ Len(Append(p, e)) = Len(p) + 1
         /\ \A i \in 1..Len(p) : Append(p, e)[i] = p[i]
         /\ Append(p, e)[Len(p) + 1] = e
BY DEF Paths, Root

LEMMA PathsAreAppends ==
  ASSUME NEW x \in Paths, x # Root
  PROVE  \E p \in Paths, e \in Steps : x = Append(p, e)
<1> DEFINE n == Len(x)
           p == SubSeq(x, 1, n - 1)
<1>1. n \in Nat /\ n # 0 /\ x \in [1..n -> Steps]
  BY DEF Paths, Root
<1>2. p \in Paths /\ Len(p) = n - 1 /\ \A i \in 1..(n - 1) : p[i] = x[i]
  BY <1>1 DEF Paths
<1>3. x[n] \in Steps
  BY <1>1
<1>4. Append(p, x[n]) = x
  <2> DEFINE y == Append(p, x[n])
  <2>1. y \in Paths /\ Len(y) = n
    BY <1>1, <1>2, <1>3, AppendIsAPath
  <2>2. y[n] = x[n] /\ \A i \in 1..(n - 1) : y[i] = x[i]
    <3> DEFINE e == x[n]
    <3> HIDE DEF p, e
    <3>1. y[Len(p) + 1] = e /\ \A i \in 1..Len(p) : y[i] = p[i]
      BY <1>2, <1>3, AppendIsAPath DEF e
    <3>2. Len(p) + 1 = n
      BY <1>1, <1>2
    <3> QED
      BY <1>2, <3>1, <3>2 DEF e
  <2> HIDE DEF y
  <2>3. y \in [1..n -> Steps]
    BY <2>1 DEF Paths
  <2>4. \A i \in 1..n : y[i] = x[i]
    BY <1>1, <2>2
  <2> QED
    BY <1>1, <2>3, <2>4
<1> QED
  BY <1>2, <1>3, <1>4

LEMMA AppendsDiffer ==
  ASSUME NEW p \in Paths, NEW q \in Paths, NEW d \in Steps, NEW e \in Steps,
         Append(p, d) = Append(q, e)
  PROVE  p = q /\ d = e
<1>1. /\ Len(p) \in Nat /\ Len(Append(p, d)) = Len(p) + 1 /\ Append(p, d)[Len(p) + 1] = d
      /\ \A i \in 1..Len(p) : Append(p, d)[i] = p[i]
  BY AppendIsAPath
<1>2. /\ Len(q) \in Nat /\ Len(Append(q, e)) = Len(q) + 1 /\ Append(q, e)[Len(q) + 1] = e
      /\ \A i \in 1..Len(q) : Append(q, e)[i] = q[i]
  BY AppendIsAPath
<1> DEFINE x == Append(p, d)
           y == Append(q, e)
<1>3. x = y
  OBVIOUS
<1> HIDE DEF x, y
<1>4. Len(p) = Len(q) /\ d = e
  BY <1>1, <1>2, <1>3 DEF x, y
<1>5. \A i \in 1..Len(p) : p[i] = q[i]
  BY <1>1, <1>2, <1>3, <1>4 DEF x, y
<1>6. p \in [1..Len(p) -> Steps] /\ q \in [1..Len(p) -> Steps]
  BY <1>4 DEF Paths
<1> QED
  BY <1>4, <1>5, <1>6

-----------------------------------------------------------------------------
(* The inductive invariant: the tree of calls.                             *)

Phases == Running \cup Raised \cup {"returned", "cancelled"}

CallType ==
  [from : Nat, to : Nat, failures : 0..MaxRetries, phase : Phases, logs : Seq(First..Last)]

(* A call is of a range within the one asked for, and has failed as often  *)
(* as it may exactly if it has given up.                                   *)
WellFormed(c) ==
  /\ c \in CallType
  /\ First <= c.from /\ c.from <= c.to /\ c.to <= Last
  /\ c.failures = MaxRetries <=> c.phase = "failed"

TypeOK ==
  /\ DOMAIN calls \subseteq Paths
  /\ Root \in DOMAIN calls
  /\ calls = [id \in DOMAIN calls |-> calls[id]]
  /\ \A id \in DOMAIN calls : WellFormed(calls[id])

(* query_logs answers for the whole range. *)
Whole == calls[Root].from = First /\ calls[Root].to = Last

(* h is of the half of c's range on a side. *)
IsHalf(h, c, side) ==
  /\ c.from < c.to
  /\ side = "left"  => h.from = c.from /\ h.to = Mid(c.from, c.to)
  /\ side = "right" => h.from = Mid(c.from, c.to) + 1 /\ h.to = c.to

(* A call other than the root is half of one that has got to its attempt;  *)
(* if that attempt is not over, its caller waits for it or has ended, and  *)
(* if it has ended well or was cancelled, no half of it runs.              *)
Tree ==
  \A p \in Paths, e \in Steps : Append(p, e) \in DOMAIN calls =>
    /\ p \in DOMAIN calls
    /\ IsHalf(calls[Append(p, e)], calls[p], e[2])
    /\ e[1] <= calls[p].failures
    /\ e[1] = calls[p].failures =>
         /\ calls[p].phase \notin {"asking", "backoff"}
         /\ calls[p].phase \in {"returned", "cancelled"} => calls[Append(p, e)].phase \notin Running

(* Halves come in pairs, and a call that waits for them has them.          *)
Halved ==
  \A id \in DOMAIN calls : calls[id].phase # "failed" =>
    /\ Left(id) \in DOMAIN calls <=> Right(id) \in DOMAIN calls
    /\ calls[id].phase = "split" => Left(id) \in DOMAIN calls

(* The blocks of its range that a call has not returned. *)
Lack(c) == (c.from..c.to) \ {c.logs[i] : i \in DOMAIN c.logs}

(* s lists blocks from f to t in ascending order. *)
Ascending(s, f, t) ==
  /\ \A i \in DOMAIN s : f <= s[i] /\ s[i] <= t
  /\ \A i, j \in DOMAIN s : i < j => s[i] < s[j]

(* What a call has returned is in order and lacks no more than Lacking.    *)
Answered ==
  \A id \in DOMAIN calls :
    LET c == calls[id]
    IN  IF c.phase = "returned"
        THEN Ascending(c.logs, c.from, c.to) /\ Lack(c) \subseteq Lacking
        ELSE c.logs = <<>>

IInv == TypeOK /\ Whole /\ Tree /\ Halved /\ Answered

-----------------------------------------------------------------------------
(* Halves.                                                                 *)

LEMMA MidIsBetween ==
  ASSUME NEW f \in Nat, NEW t \in Nat, f < t
  PROVE  Mid(f, t) \in Nat /\ f <= Mid(f, t) /\ Mid(f, t) < t
BY DEF Mid

LEMMA HalvesAreSteps ==
  ASSUME TypeOK, NEW id \in DOMAIN calls, calls[id].phase # "failed"
  PROVE  /\ id \in Paths
         /\ calls[id].failures \in 0..(MaxRetries - 1)
         /\ <<calls[id].failures, "left">> \in Steps /\ <<calls[id].failures, "right">> \in Steps
         /\ Left(id) = Append(id, <<calls[id].failures, "left">>)
         /\ Right(id) = Append(id, <<calls[id].failures, "right">>)
         /\ Left(id) # Right(id)
<1>1. id \in Paths /\ WellFormed(calls[id])
  BY DEF TypeOK
<1>2. calls[id].failures \in 0..(MaxRetries - 1)
  BY <1>1, SearchAssumption DEF WellFormed, CallType
<1>3. <<calls[id].failures, "left">> \in Steps /\ <<calls[id].failures, "right">> \in Steps
  BY <1>2 DEF Steps, Sides
<1>4. Left(id) # Right(id)
  <2>1. <<calls[id].failures, "left">> # <<calls[id].failures, "right">>
    OBVIOUS
  <2> QED
    BY <1>1, <1>3, <2>1, AppendsDiffer DEF Left, Right, Half
<1> QED
  BY <1>1, <1>2, <1>3, <1>4 DEF Left, Right, Half

LEMMA HalvesAreStepsNext ==
  ASSUME TypeOK', NEW id \in DOMAIN calls', calls'[id].phase # "failed"
  PROVE  /\ <<calls'[id].failures, "left">> \in Steps /\ <<calls'[id].failures, "right">> \in Steps
         /\ Left(id)' = Append(id, <<calls'[id].failures, "left">>)
         /\ Right(id)' = Append(id, <<calls'[id].failures, "right">>)
<1>1. calls'[id].failures \in 0..(MaxRetries - 1)
  BY SearchAssumption DEF TypeOK, WellFormed, CallType
<1> QED
  BY <1>1 DEF Steps, Sides, Left, Right, Half

LEMMA LackingMembers ==
  \A b : b \in Lacking <=>
    \E id \in DOMAIN calls : calls[id].phase = "returned" /\ Left(id) \notin DOMAIN calls /\ b \in Lack(calls[id])
BY DEF Lacking, Lack

LEMMA LackingMembersNext ==
  \A b : b \in Lacking' <=>
    \E id \in DOMAIN calls' : calls'[id].phase = "returned" /\ Left(id)' \notin DOMAIN calls' /\ b \in Lack(calls'[id])
BY DEF Lacking, Lack

LEMMA AppendIsLonger ==
  ASSUME NEW p \in Paths, NEW e \in Steps
  PROVE  Append(p, e) # p
BY AppendIsAPath

-----------------------------------------------------------------------------
(* A step of one call that starts no other.                                *)

Becomes(id, c) == calls' = [x \in DOMAIN calls |-> IF x = id THEN c ELSE calls[x]]

LEMMA LackingGrows ==
  ASSUME NEW id \in DOMAIN calls, NEW c, Becomes(id, c), calls[id].phase # "returned"
  PROVE  /\ Lacking \subseteq Lacking'
         /\ c.phase # "returned" => Lacking' = Lacking
         /\ c.failures = calls[id].failures /\ Left(id) \in DOMAIN calls => Lacking' = Lacking
         /\ Lacking' \subseteq Lacking \cup Lack(c)
         /\ c.phase = "returned" /\ c.failures = calls[id].failures /\ Left(id) \notin DOMAIN calls
              => Lack(c) \subseteq Lacking'
<1>1. /\ DOMAIN calls' = DOMAIN calls
      /\ calls'[id] = c
      /\ \A x \in DOMAIN calls : x # id => calls'[x] = calls[x] /\ Left(x)' = Left(x)
      /\ c.failures = calls[id].failures => Left(id)' = Left(id)
  BY DEF Becomes, Left, Half
<1> HIDE DEF Becomes
<1> QED
  BY <1>1, LackingMembers, LackingMembersNext

LEMMA StepKeepsInv ==
  ASSUME IInv, NEW id \in DOMAIN calls, NEW c, Becomes(id, c),
         calls[id].phase \in Running,
         WellFormed(c), c.from = calls[id].from, c.to = calls[id].to,
         c.phase \notin {"split", "cancelled"},
         calls[id].failures <= c.failures,
         c.failures # calls[id].failures => c.phase \in {"backoff", "failed"},
         c.failures = calls[id].failures /\ c.phase \in {"asking", "backoff"} =>
           calls[id].phase \in {"asking", "backoff"},
         c.phase = "returned" =>
           \A e \in Steps : Append(id, e) \in DOMAIN calls /\ e[1] = calls[id].failures =>
             calls[Append(id, e)].phase \notin Running,
         IF c.phase = "returned"
         THEN Ascending(c.logs, c.from, c.to) /\ Lack(c) \subseteq Lacking'
         ELSE c.logs = <<>>
  PROVE  IInv'
<1>1. /\ DOMAIN calls' = DOMAIN calls
      /\ calls' = [x \in DOMAIN calls' |-> calls'[x]]
      /\ calls'[id] = c
      /\ \A x \in DOMAIN calls : x # id => calls'[x] = calls[x]
  BY DEF Becomes
<1>2. TypeOK'
  BY <1>1 DEF IInv, TypeOK
<1>3. Tree'
  <2> SUFFICES ASSUME NEW p \in Paths, NEW e \in Steps, Append(p, e) \in DOMAIN calls
               PROVE  /\ p \in DOMAIN calls
                      /\ IsHalf(calls'[Append(p, e)], calls'[p], e[2])
                      /\ e[1] <= calls'[p].failures
                      /\ e[1] = calls'[p].failures =>
                           /\ calls'[p].phase \notin {"asking", "backoff"}
                           /\ calls'[p].phase \in {"returned", "cancelled"} =>
                                calls'[Append(p, e)].phase \notin Running
    BY <1>1 DEF Tree
  <2>1. /\ p \in DOMAIN calls
        /\ IsHalf(calls[Append(p, e)], calls[p], e[2])
        /\ e[1] <= calls[p].failures
        /\ e[1] = calls[p].failures =>
             /\ calls[p].phase \notin {"asking", "backoff"}
             /\ calls[p].phase \in {"returned", "cancelled"} => calls[Append(p, e)].phase \notin Running
    BY DEF IInv, Tree
  <2>2. Append(p, e) # p
    BY AppendIsLonger
  <2>3. IsHalf(calls'[Append(p, e)], calls'[p], e[2])
    <3>1. calls'[p].from = calls[p].from /\ calls'[p].to = calls[p].to
      BY <1>1, <2>1
    <3>2. /\ calls'[Append(p, e)].from = calls[Append(p, e)].from
          /\ calls'[Append(p, e)].to = calls[Append(p, e)].to
      BY <1>1
    <3> QED
      BY <2>1, <3>1, <3>2 DEF IsHalf
  <2>4. CASE p = id
    <3>1. e[1] \in Nat /\ calls[id].failures \in Nat /\ c.failures \in Nat
      BY <1>1, SearchAssumption DEF IInv, TypeOK, WellFormed, CallType, Steps
    <3>2. /\ calls'[p] = c
          /\ calls'[Append(p, e)] = calls[Append(p, e)]
      BY <1>1, <2>2, <2>4
    <3>3. e[1] = c.failures => c.failures = calls[id].failures
      BY <2>1, <2>4, <3>1
    <3> QED
      BY <2>1, <2>3, <2>4, <3>1, <3>2, <3>3
  <2>5. CASE p # id
    <3>1. calls'[p] = calls[p]
      BY <1>1, <2>1, <2>5
    <3>2. CASE Append(p, e) = id
      BY <2>1, <2>3, <3>1, <3>2
    <3>3. CASE Append(p, e) # id
      BY <1>1, <2>1, <2>3, <3>1, <3>3
    <3> QED
      BY <3>2, <3>3
  <2> QED
    BY <2>4, <2>5
<1>4. Halved'
  <2> SUFFICES ASSUME NEW x \in DOMAIN calls, calls'[x].phase # "failed"
               PROVE  /\ Left(x)' \in DOMAIN calls <=> Right(x)' \in DOMAIN calls
                      /\ calls'[x].phase = "split" => Left(x)' \in DOMAIN calls
    BY <1>1 DEF Halved
  <2>1. CASE calls'[x].failures = calls[x].failures
    <3>1. Left(x)' = Left(x) /\ Right(x)' = Right(x)
      BY <2>1 DEF Left, Right, Half
    <3>2. calls[x].phase # "failed"
      BY <1>1 DEF Running
    <3>3. calls'[x].phase = "split" => calls[x].phase = "split"
      BY <1>1
    <3> QED
      BY <3>1, <3>2, <3>3 DEF IInv, Halved
  <2>2. CASE calls'[x].failures # calls[x].failures
    <3>1. x = id /\ calls'[x] = c /\ c.phase = "backoff"
      BY <1>1, <2>2
    <3>2. Left(x)' \notin DOMAIN calls /\ Right(x)' \notin DOMAIN calls
      <4>1. /\ x \in Paths /\ calls[x].failures \in Nat /\ c.failures \in Nat /\ calls[x].failures < c.failures
        BY <2>2, <3>1, SearchAssumption DEF IInv, TypeOK, WellFormed, CallType
      <4>2. /\ <<c.failures, "left">> \in Steps /\ <<c.failures, "right">> \in Steps
            /\ Left(x)' = Append(x, <<c.failures, "left">>)
            /\ Right(x)' = Append(x, <<c.failures, "right">>)
        BY <1>2, <1>1, <3>1, HalvesAreStepsNext
      <4> QED
        BY <4>1, <4>2 DEF IInv, Tree
    <3> QED
      BY <3>1, <3>2
  <2> QED
    BY <2>1, <2>2
<1>5. Answered'
  <2>1. Lacking \subseteq Lacking'
    BY LackingGrows DEF Running
  <2> QED
    BY <1>1, <2>1 DEF IInv, Answered
<1>6. Whole'
  BY <1>1 DEF IInv, Whole, TypeOK
<1> QED
  BY <1>2, <1>3, <1>4, <1>5, <1>6 DEF IInv

-----------------------------------------------------------------------------
(* A range is halved.                                                      *)

LEMMA SplitFacts ==
  ASSUME IInv, NEW id \in DOMAIN calls, Split(id)
  PROVE  /\ DOMAIN calls' = DOMAIN calls \cup {Left(id), Right(id)}
         /\ calls' = [x \in DOMAIN calls' |-> calls'[x]]
         /\ Left(id) \notin DOMAIN calls /\ Right(id) \notin DOMAIN calls
         /\ calls[id].phase = "asking"
         /\ calls'[id] = [calls[id] EXCEPT !.phase = "split"]
         /\ calls'[Left(id)] = Call(calls[id].from, Mid(calls[id].from, calls[id].to))
         /\ calls'[Right(id)] = Call(Mid(calls[id].from, calls[id].to) + 1, calls[id].to)
         /\ \A x \in DOMAIN calls : x # id => calls'[x] = calls[x]
         /\ calls[id].from \in Nat /\ calls[id].to \in Nat /\ calls[id].from < calls[id].to
<1>1. calls[id].phase = "asking" /\ calls[id].from # calls[id].to
  BY DEF Split
<1>2. WellFormed(calls[id])
  BY DEF IInv, TypeOK
<1>3. /\ id \in Paths
      /\ <<calls[id].failures, "left">> \in Steps /\ <<calls[id].failures, "right">> \in Steps
      /\ Left(id) = Append(id, <<calls[id].failures, "left">>)
      /\ Right(id) = Append(id, <<calls[id].failures, "right">>)
      /\ Left(id) # Right(id)
  BY <1>1, HalvesAreSteps DEF IInv
<1>4. Left(id) \notin DOMAIN calls /\ Right(id) \notin DOMAIN calls
  BY <1>1, <1>3 DEF IInv, Tree
<1>5. calls[id].from \in Nat /\ calls[id].to \in Nat /\ calls[id].from < calls[id].to
  BY <1>1, <1>2 DEF WellFormed, CallType
<1>6. calls' = [x \in DOMAIN calls \cup {Left(id), Right(id)} |->
                  CASE x = Left(id)  -> Call(calls[id].from, Mid(calls[id].from, calls[id].to))
                    [] x = Right(id) -> Call(Mid(calls[id].from, calls[id].to) + 1, calls[id].to)
                    [] x = id        -> [calls[id] EXCEPT !.phase = "split"]
                    [] OTHER         -> calls[x]]
  BY DEF Split
<1> DEFINE l == Left(id)
           r == Right(id)
<1> HIDE DEF l, r
<1>7. l # r /\ l # id /\ r # id
  BY <1>3, <1>4 DEF l, r
<1>8. l \notin DOMAIN calls /\ r \notin DOMAIN calls
  BY <1>4 DEF l, r
<1>9. calls' = [x \in DOMAIN calls \cup {l, r} |->
                  CASE x = l  -> Call(calls[id].from, Mid(calls[id].from, calls[id].to))
                    [] x = r -> Call(Mid(calls[id].from, calls[id].to) + 1, calls[id].to)
                    [] x = id        -> [calls[id] EXCEPT !.phase = "split"]
                    [] OTHER         -> calls[x]]
  BY <1>6 DEF l, r
<1>10. /\ DOMAIN calls' = DOMAIN calls \cup {l, r}
       /\ calls' = [x \in DOMAIN calls' |-> calls'[x]]
       /\ calls'[id] = [calls[id] EXCEPT !.phase = "split"]
       /\ calls'[l] = Call(calls[id].from, Mid(calls[id].from, calls[id].to))
       /\ calls'[r] = Call(Mid(calls[id].from, calls[id].to) + 1, calls[id].to)
       /\ \A x \in DOMAIN calls : x # id => calls'[x] = calls[x]
  BY <1>7, <1>8, <1>9
<1> QED
  BY <1>1, <1>5, <1>8, <1>10 DEF l, r

LEMMA SplitKeepsInv ==
  ASSUME IInv, NEW id \in DOMAIN calls, Split(id)
  PROVE  IInv' /\ Lacking' = Lacking
<1> DEFINE f == calls[id].from
           t == calls[id].to
           m == Mid(f, t)
           n == calls[id].failures
<1>1. /\ DOMAIN calls' = DOMAIN calls \cup {Left(id), Right(id)}
      /\ calls' = [x \in DOMAIN calls' |-> calls'[x]]
      /\ Left(id) \notin DOMAIN calls /\ Right(id) \notin DOMAIN calls
      /\ calls[id].phase = "asking"
      /\ calls'[id] = [calls[id] EXCEPT !.phase = "split"]
      /\ calls'[Left(id)] = Call(f, m) /\ calls'[Right(id)] = Call(m + 1, t)
      /\ \A x \in DOMAIN calls : x # id => calls'[x] = calls[x]
      /\ f \in Nat /\ t \in Nat /\ f < t
  BY SplitFacts
<1>2. /\ id \in Paths
      /\ n \in 0..(MaxRetries - 1)
      /\ <<n, "left">> \in Steps /\ <<n, "right">> \in Steps
      /\ Left(id) = Append(id, <<n, "left">>) /\ Right(id) = Append(id, <<n, "right">>)
      /\ Left(id) # Right(id)
  BY <1>1, HalvesAreSteps DEF IInv
<1>3. Left(id) \in Paths /\ Right(id) \in Paths /\ Left(id) # id /\ Right(id) # id
  BY <1>2, AppendIsAPath, AppendIsLonger
<1>4. WellFormed(calls[id]) /\ m \in Nat /\ f <= m /\ m < t
  BY <1>1, MidIsBetween DEF IInv, TypeOK
<1>5. /\ calls'[id].from = f /\ calls'[id].to = t /\ calls'[id].failures = n
      /\ calls'[id].phase = "split" /\ calls'[id].logs = calls[id].logs
  BY <1>1, <1>4 DEF WellFormed, CallType
<1> DEFINE l == Left(id)
           r == Right(id)
<1>6. /\ calls'[l].from = f /\ calls'[l].to = m /\ calls'[l].failures = 0
      /\ calls'[l].phase = "asking" /\ calls'[l].logs = <<>>
      /\ calls'[r].from = m + 1 /\ calls'[r].to = t /\ calls'[r].failures = 0
      /\ calls'[r].phase = "asking" /\ calls'[r].logs = <<>>
  BY <1>1 DEF Call
<1>7. TypeOK'
  <2>1. WellFormed(calls'[id])
    BY <1>1, <1>4 DEF WellFormed, CallType, Phases, Running
  <2>2. First <= f /\ t <= Last
    BY <1>4 DEF WellFormed
  <2>3. WellFormed(Call(f, m)) /\ WellFormed(Call(m + 1, t))
    BY <1>1, <1>4, <2>2, SearchAssumption DEF WellFormed, CallType, Call, Phases, Running
  <2>4. \A x \in DOMAIN calls' : WellFormed(calls'[x])
    BY <1>1, <2>1, <2>3 DEF IInv, TypeOK
  <2> QED
    BY <1>1, <1>3, <2>4 DEF IInv, TypeOK
<1> HIDE DEF f, t, m, n, l, r
<1>8. /\ Left(id) = l /\ Right(id) = r
      /\ l = Append(id, <<n, "left">>) /\ r = Append(id, <<n, "right">>)
      /\ l # id /\ r # id /\ l # r
      /\ l \notin DOMAIN calls /\ r \notin DOMAIN calls
      /\ DOMAIN calls' = DOMAIN calls \cup {l, r}
  BY <1>1, <1>2, <1>3 DEF l, r, n
<1>9. Tree'
  <2> SUFFICES ASSUME NEW p \in Paths, NEW e \in Steps, Append(p, e) \in DOMAIN calls'
               PROVE  /\ p \in DOMAIN calls'
                      /\ IsHalf(calls'[Append(p, e)], calls'[p], e[2])
                      /\ e[1] <= calls'[p].failures
                      /\ e[1] = calls'[p].failures =>
                           /\ calls'[p].phase \notin {"asking", "backoff"}
                           /\ calls'[p].phase \in {"returned", "cancelled"} =>
                                calls'[Append(p, e)].phase \notin Running
    BY DEF Tree
  <2>1. CASE Append(p, e) \in DOMAIN calls
    <3>1. /\ p \in DOMAIN calls
          /\ IsHalf(calls[Append(p, e)], calls[p], e[2])
          /\ e[1] <= calls[p].failures
          /\ e[1] = calls[p].failures =>
               /\ calls[p].phase \notin {"asking", "backoff"}
               /\ calls[p].phase \in {"returned", "cancelled"} => calls[Append(p, e)].phase \notin Running
      BY <2>1 DEF IInv, Tree
    <3>2. \A x \in DOMAIN calls : /\ calls'[x].from = calls[x].from /\ calls'[x].to = calls[x].to
                                  /\ calls'[x].failures = calls[x].failures
      BY <1>1, <1>5 DEF f, t, n
    <3>3. IsHalf(calls'[Append(p, e)], calls'[p], e[2])
      BY <2>1, <3>1, <3>2 DEF IsHalf
    <3>4. CASE p = id
      BY <1>1, <1>5, <1>8, <3>1, <3>2, <3>3, <3>4
    <3>5. CASE p # id
      <4>1. calls'[p] = calls[p]
        BY <1>1, <3>1, <3>5
      <4>2. calls[Append(p, e)].phase \notin Running => calls'[Append(p, e)] = calls[Append(p, e)]
        BY <1>1, <2>1 DEF Running
      <4> QED
        BY <1>8, <3>1, <3>3, <4>1, <4>2
    <3> QED
      BY <3>4, <3>5
  <2>2. CASE Append(p, e) = l
    <3> DEFINE d == <<n, "left">>
    <3>1. id \in Paths /\ d \in Steps /\ Append(p, e) = Append(id, d) /\ d[1] = n /\ d[2] = "left"
      BY <1>2, <1>8, <2>2 DEF n
    <3> HIDE DEF d
    <3>2. p = id /\ e[1] = n /\ e[2] = "left"
      BY <3>1, AppendsDiffer
    <3>3. IsHalf(calls'[l], calls'[id], "left")
      BY <1>1, <1>5, <1>6 DEF IsHalf, m, f, t
    <3>4. n \in Nat
      BY <1>2, SearchAssumption DEF n
    <3> QED
      BY <1>5, <1>8, <2>2, <3>2, <3>3, <3>4
  <2>3. CASE Append(p, e) = r
    <3> DEFINE d == <<n, "right">>
    <3>1. id \in Paths /\ d \in Steps /\ Append(p, e) = Append(id, d) /\ d[1] = n /\ d[2] = "right"
      BY <1>2, <1>8, <2>3 DEF n
    <3> HIDE DEF d
    <3>2. p = id /\ e[1] = n /\ e[2] = "right"
      BY <3>1, AppendsDiffer
    <3>3. IsHalf(calls'[r], calls'[id], "right")
      BY <1>1, <1>5, <1>6 DEF IsHalf, m, f, t
    <3>4. n \in Nat
      BY <1>2, SearchAssumption DEF n
    <3> QED
      BY <1>5, <1>8, <2>3, <3>2, <3>3, <3>4
  <2> QED
    BY <1>8, <2>1, <2>2, <2>3
<1>10. \A x \in DOMAIN calls : x # id /\ calls[x].phase # "failed" =>
         /\ Left(x)' = Left(x) /\ Right(x)' = Right(x)
         /\ Left(x) \in DOMAIN calls' <=> Left(x) \in DOMAIN calls
         /\ Right(x) \in DOMAIN calls' <=> Right(x) \in DOMAIN calls
  <2> SUFFICES ASSUME NEW x \in DOMAIN calls, x # id, calls[x].phase # "failed"
               PROVE  /\ Left(x)' = Left(x) /\ Right(x)' = Right(x)
                      /\ Left(x) \notin {l, r} /\ Right(x) \notin {l, r}
    BY <1>8
  <2>1. Left(x)' = Left(x) /\ Right(x)' = Right(x)
    BY <1>1 DEF Left, Right, Half
  <2> DEFINE k == calls[x].failures
  <2>2. /\ x \in Paths /\ <<k, "left">> \in Steps /\ <<k, "right">> \in Steps
        /\ Left(x) = Append(x, <<k, "left">>) /\ Right(x) = Append(x, <<k, "right">>)
    BY HalvesAreSteps DEF IInv
  <2> HIDE DEF k
  <2>3. Left(x) \notin {l, r} /\ Right(x) \notin {l, r}
    BY <1>2, <1>8, <2>2, AppendsDiffer DEF n
  <2> QED
    BY <2>1, <2>3
<1>11. Halved'
  <2> SUFFICES ASSUME NEW x \in DOMAIN calls', calls'[x].phase # "failed"
               PROVE  /\ Left(x)' \in DOMAIN calls' <=> Right(x)' \in DOMAIN calls'
                      /\ calls'[x].phase = "split" => Left(x)' \in DOMAIN calls'
    BY DEF Halved
  <2>1. CASE x = id
    <3>1. Left(x)' = l /\ Right(x)' = r
      BY <1>5, <1>8, <2>1 DEF Left, Right, Half, n
    <3> QED
      BY <1>8, <3>1
  <2>2. CASE x \in DOMAIN calls /\ x # id
    BY <1>1, <1>10, <2>2 DEF IInv, Halved
  <2>3. CASE x \in {l, r}
    <3>1. /\ x \in Paths /\ x \notin DOMAIN calls /\ x # id
          /\ calls'[x].phase = "asking" /\ calls'[x].failures = 0
      BY <1>3, <1>6, <1>8, <2>3 DEF l, r
    <3>2. /\ <<0, "left">> \in Steps /\ <<0, "right">> \in Steps
          /\ Left(x)' = Append(x, <<0, "left">>) /\ Right(x)' = Append(x, <<0, "right">>)
      BY <1>7, <3>1, HalvesAreStepsNext
    <3>3. Left(x)' \notin DOMAIN calls /\ Right(x)' \notin DOMAIN calls
      BY <3>1, <3>2 DEF IInv, Tree
    <3>4. Left(x)' \notin {l, r} /\ Right(x)' \notin {l, r}
      BY <1>2, <1>8, <3>1, <3>2, AppendsDiffer DEF n
    <3> QED
      BY <1>8, <3>1, <3>3, <3>4
  <2> QED
    BY <1>8, <2>1, <2>2, <2>3
<1>12. Lacking' = Lacking
  <2>1. \A x \in DOMAIN calls' :
          calls'[x].phase = "returned" <=> x \in DOMAIN calls /\ calls[x].phase = "returned"
    BY <1>1, <1>5, <1>6, <1>8
  <2>2. \A x \in DOMAIN calls : calls[x].phase = "returned" =>
          /\ calls'[x] = calls[x] /\ x # id /\ calls[x].phase # "failed"
    BY <1>1
  <2>3. ASSUME NEW b
        PROVE  b \in Lacking' <=> b \in Lacking
    <3>1. ASSUME NEW x \in DOMAIN calls, calls[x].phase = "returned"
          PROVE  Left(x)' \in DOMAIN calls' <=> Left(x) \in DOMAIN calls
      BY <1>10, <2>2, <3>1
    <3>2. ASSUME NEW x \in DOMAIN calls, calls[x].phase = "returned"
          PROVE  Lack(calls'[x]) = Lack(calls[x])
      BY <2>2, <3>2
    <3> QED
      BY <1>8, <2>1, <3>1, <3>2, LackingMembers, LackingMembersNext
  <2> QED
    BY <2>3
<1>13. Answered'
  <2> SUFFICES ASSUME NEW x \in DOMAIN calls'
               PROVE  IF calls'[x].phase = "returned"
                      THEN /\ Ascending(calls'[x].logs, calls'[x].from, calls'[x].to)
                           /\ Lack(calls'[x]) \subseteq Lacking'
                      ELSE calls'[x].logs = <<>>
    BY DEF Answered
  <2>1. CASE x \in {l, r}
    BY <1>6, <2>1
  <2>2. CASE x = id
    BY <1>1, <1>5, <2>2 DEF IInv, Answered
  <2>3. CASE x \in DOMAIN calls /\ x # id
    BY <1>1, <1>12, <2>3 DEF IInv, Answered
  <2> QED
    BY <1>8, <2>1, <2>2, <2>3
<1>14. Whole'
  BY <1>1, <1>5 DEF IInv, Whole, TypeOK, f, t
<1> QED
  BY <1>7, <1>9, <1>11, <1>12, <1>13, <1>14 DEF IInv

-----------------------------------------------------------------------------
(* Prefixes: the calls above a call.                                       *)

LEMMA PrefixIsAPath ==
  ASSUME NEW x \in Paths, NEW n \in 0..Len(x)
  PROVE  /\ SubSeq(x, 1, n) \in Paths /\ Len(SubSeq(x, 1, n)) = n
         /\ \A i \in 1..n : SubSeq(x, 1, n)[i] = x[i]
<1>1. Len(x) \in Nat /\ x \in [1..Len(x) -> Steps]
  BY DEF Paths
<1> QED
  BY <1>1 DEF Paths

LEMMA SamePath ==
  ASSUME NEW x \in Paths, NEW y \in Paths, Len(x) = Len(y), \A i \in 1..Len(x) : x[i] = y[i]
  PROVE  x = y
<1>1. x \in [1..Len(x) -> Steps] /\ y \in [1..Len(x) -> Steps]
  BY DEF Paths
<1> QED
  BY <1>1

LEMMA WholePrefix ==
  ASSUME NEW x \in Paths
  PROVE  SubSeq(x, 1, Len(x)) = x
<1>1. Len(x) \in Nat
  BY DEF Paths
<1> DEFINE y == SubSeq(x, 1, Len(x))
<1>2. y \in Paths /\ Len(y) = Len(x) /\ \A i \in 1..Len(x) : y[i] = x[i]
  BY <1>1, PrefixIsAPath
<1> HIDE DEF y
<1>3. y = x
  BY <1>2, SamePath
<1> QED
  BY <1>3 DEF y

LEMMA NoPrefix ==
  ASSUME NEW x \in Paths
  PROVE  SubSeq(x, 1, 0) = Root
<1>1. Len(x) \in Nat
  BY DEF Paths
<1> DEFINE y == SubSeq(x, 1, 0)
<1>2. y \in Paths /\ Len(y) = 0
  BY <1>1, PrefixIsAPath
<1> HIDE DEF y
<1>3. y = Root
  BY <1>2 DEF Paths, Root
<1> QED
  BY <1>3 DEF y

LEMMA PrefixIsAppend ==
  ASSUME NEW x \in Paths, NEW n \in 1..Len(x)
  PROVE  /\ x[n] \in Steps
         /\ SubSeq(x, 1, n - 1) \in Paths
         /\ SubSeq(x, 1, n) = Append(SubSeq(x, 1, n - 1), x[n])
<1>1. Len(x) \in Nat /\ n \in Nat /\ x[n] \in Steps /\ n - 1 \in 0..Len(x) /\ n \in 0..Len(x)
  BY DEF Paths
<1> DEFINE p == SubSeq(x, 1, n - 1)
           e == x[n]
           y == SubSeq(x, 1, n)
<1>2. p \in Paths /\ Len(p) = n - 1 /\ \A i \in 1..(n - 1) : p[i] = x[i]
  BY <1>1, PrefixIsAPath
<1>3. y \in Paths /\ Len(y) = n /\ \A i \in 1..n : y[i] = x[i]
  BY <1>1, PrefixIsAPath
<1>4. e \in Steps /\ x[n] = e
  BY <1>1
<1> HIDE DEF p, e, y
<1> DEFINE z == Append(p, e)
<1>5. /\ z \in Paths /\ Len(z) = Len(p) + 1
      /\ z[Len(p) + 1] = e /\ \A i \in 1..Len(p) : z[i] = p[i]
  BY <1>2, <1>4, AppendIsAPath
<1> HIDE DEF z
<1>6. Len(z) = n /\ \A i \in 1..n : y[i] = z[i]
  BY <1>1, <1>2, <1>3, <1>4, <1>5
<1>7. y = z
  BY <1>3, <1>5, <1>6, SamePath
<1> QED
  BY <1>2, <1>4, <1>7 DEF p, e, y, z

LEMMA PrefixOfAppend ==
  ASSUME NEW p \in Paths, NEW e \in Steps, NEW n \in 0..Len(p)
  PROVE  SubSeq(Append(p, e), 1, n) = SubSeq(p, 1, n)
<1> DEFINE x == Append(p, e)
<1>1. /\ x \in Paths /\ Len(p) \in Nat /\ Len(x) = Len(p) + 1
      /\ \A i \in 1..Len(p) : x[i] = p[i]
  BY AppendIsAPath
<1> HIDE DEF x
<1> DEFINE y == SubSeq(x, 1, n)
           z == SubSeq(p, 1, n)
<1>2. n \in 0..Len(x)
  BY <1>1
<1>3. y \in Paths /\ Len(y) = n /\ \A i \in 1..n : y[i] = x[i]
  BY <1>1, <1>2, PrefixIsAPath
<1>4. z \in Paths /\ Len(z) = n /\ \A i \in 1..n : z[i] = p[i]
  BY PrefixIsAPath
<1> HIDE DEF y, z
<1>5. \A i \in 1..n : y[i] = z[i]
  BY <1>1, <1>3, <1>4
<1>6. y = z
  BY <1>3, <1>4, <1>5, SamePath
<1> QED
  BY <1>6 DEF x, y, z

-----------------------------------------------------------------------------
(* A cancellation reaches every half that is waited for.                   *)

LEMMA HalvesOfAttachedCalls ==
  ASSUME NEW p \in Paths, NEW e \in Steps,
         Attached(p), calls[p].phase = "split", calls[p].failures = e[1]
  PROVE  Attached(Append(p, e))
<1> DEFINE x == Append(p, e)
<1>1. /\ x \in Paths /\ Len(p) \in Nat /\ Len(x) = Len(p) + 1
      /\ x[Len(p) + 1] = e /\ \A i \in 1..Len(p) : x[i] = p[i]
  BY AppendIsAPath
<1>2. \A n \in 0..Len(p) : SubSeq(x, 1, n) = SubSeq(p, 1, n)
  BY PrefixOfAppend
<1>3. SubSeq(p, 1, Len(p)) = p
  BY WholePrefix
<1> HIDE DEF x
<1> SUFFICES ASSUME NEW n \in 1..Len(x)
             PROVE  /\ calls[SubSeq(x, 1, n - 1)].phase = "split"
                    /\ calls[SubSeq(x, 1, n - 1)].failures = x[n][1]
  BY DEF Attached, x
<1>4. SubSeq(x, 1, n - 1) = SubSeq(p, 1, n - 1)
  BY <1>1, <1>2
<1>5. CASE n \in 1..Len(p)
  BY <1>1, <1>4, <1>5 DEF Attached
<1>6. CASE n = Len(p) + 1
  <2>1. n - 1 = Len(p)
    BY <1>1, <1>6
  <2>2. SubSeq(x, 1, n - 1) = p
    BY <1>3, <1>4, <2>1
  <2>3. x[n] = e
    BY <1>1, <1>6
  <2> QED
    BY <2>2, <2>3
<1> QED
  BY <1>1, <1>5, <1>6

LEMMA CancelKeepsInv ==
  ASSUME IInv, Cancel
  PROVE  IInv' /\ Lacking' = Lacking
<1> DEFINE Hit(x) == calls[x].phase \in Running /\ Attached(x)
<1>1. /\ DOMAIN calls' = DOMAIN calls
      /\ calls' = [x \in DOMAIN calls' |-> calls'[x]]
      /\ \A x \in DOMAIN calls :
           calls'[x] = IF Hit(x) THEN [calls[x] EXCEPT !.phase = "cancelled"] ELSE calls[x]
  BY DEF Cancel
<1> HIDE DEF Hit
<1>2. \A x \in DOMAIN calls : calls[x] \in CallType
  BY DEF IInv, TypeOK, WellFormed
<1>3. ASSUME NEW x \in DOMAIN calls
      PROVE  /\ calls'[x].from = calls[x].from /\ calls'[x].to = calls[x].to
             /\ calls'[x].failures = calls[x].failures /\ calls'[x].logs = calls[x].logs
             /\ calls'[x].phase = IF Hit(x) THEN "cancelled" ELSE calls[x].phase
             /\ calls'[x] \in CallType
             /\ calls'[x] = calls[x] \/ calls[x].phase \in Running
  BY <1>1, <1>2, <1>3 DEF CallType, Phases, Hit
<1>4. TypeOK'
  <2>1. ASSUME NEW x \in DOMAIN calls
        PROVE  WellFormed(calls'[x])
    <3>1. WellFormed(calls[x])
      BY DEF IInv, TypeOK
    <3>2. calls'[x].phase = "failed" <=> calls[x].phase = "failed"
      BY <1>3 DEF Hit, Running
    <3> QED
      BY <1>3, <3>1, <3>2 DEF WellFormed
  <2> QED
    BY <1>1, <2>1 DEF IInv, TypeOK
<1>5. Tree'
  <2> SUFFICES ASSUME NEW p \in Paths, NEW e \in Steps, Append(p, e) \in DOMAIN calls
               PROVE  /\ p \in DOMAIN calls
                      /\ IsHalf(calls'[Append(p, e)], calls'[p], e[2])
                      /\ e[1] <= calls'[p].failures
                      /\ e[1] = calls'[p].failures =>
                           /\ calls'[p].phase \notin {"asking", "backoff"}
                           /\ calls'[p].phase \in {"returned", "cancelled"} =>
                                calls'[Append(p, e)].phase \notin Running
    BY <1>1 DEF Tree
  <2> DEFINE x == Append(p, e)
  <2>1. /\ p \in DOMAIN calls
        /\ IsHalf(calls[x], calls[p], e[2])
        /\ e[1] <= calls[p].failures
        /\ e[1] = calls[p].failures =>
             /\ calls[p].phase \notin {"asking", "backoff"}
             /\ calls[p].phase \in {"returned", "cancelled"} => calls[x].phase \notin Running
    BY DEF IInv, Tree
  <2>2. e[1] = calls[p].failures /\ Hit(p) => Attached(x)
    <3>1. e[1] = calls[p].failures /\ Hit(p) => calls[p].phase = "split" /\ Attached(p)
      BY <2>1 DEF Hit, Running
    <3> QED
      BY <3>1, HalvesOfAttachedCalls
  <2> HIDE DEF x
  <2>3. x \in DOMAIN calls
    BY DEF x
  <2>4. IsHalf(calls'[x], calls'[p], e[2])
    BY <1>3, <2>1, <2>3 DEF IsHalf
  <2>5. calls'[x].phase \in Running => calls[x].phase \in Running /\ ~ Hit(x)
    BY <1>3, <2>3 DEF Running
  <2>6. Attached(x) /\ calls[x].phase \in Running => Hit(x)
    BY DEF Hit
  <2>7. /\ calls'[p].failures = calls[p].failures
        /\ calls'[p].phase = IF Hit(p) THEN "cancelled" ELSE calls[p].phase
    BY <1>3, <2>1
  <2>8. /\ p \in DOMAIN calls
        /\ IsHalf(calls'[x], calls'[p], e[2])
        /\ e[1] <= calls'[p].failures
        /\ e[1] = calls'[p].failures =>
             /\ calls'[p].phase \notin {"asking", "backoff"}
             /\ calls'[p].phase \in {"returned", "cancelled"} => calls'[x].phase \notin Running
    BY <2>1, <2>2, <2>4, <2>5, <2>6, <2>7
  <2> QED
    BY <2>8 DEF x
<1>6. ASSUME NEW x \in DOMAIN calls
      PROVE  Left(x)' = Left(x) /\ Right(x)' = Right(x)
  BY <1>3 DEF Left, Right, Half
<1>7. Halved'
  <2> SUFFICES ASSUME NEW x \in DOMAIN calls, calls'[x].phase # "failed"
               PROVE  /\ Left(x)' \in DOMAIN calls <=> Right(x)' \in DOMAIN calls
                      /\ calls'[x].phase = "split" => Left(x)' \in DOMAIN calls
    BY <1>1 DEF Halved
  <2>1. calls[x].phase # "failed" /\ calls'[x].phase = "split" => calls[x].phase = "split"
    BY <1>3
  <2>2. calls[x].phase # "failed"
    BY <1>3 DEF Hit, Running
  <2> QED
    BY <1>6, <2>1, <2>2 DEF IInv, Halved
<1>8. Lacking' = Lacking
  <2>1. \A x \in DOMAIN calls :
          /\ calls'[x].phase = "returned" <=> calls[x].phase = "returned"
          /\ calls[x].phase = "returned" => calls'[x] = calls[x]
    BY <1>3 DEF Hit, Running
  <2>2. ASSUME NEW b
        PROVE  b \in Lacking' <=> b \in Lacking
    <3>1. ASSUME NEW x \in DOMAIN calls, calls[x].phase = "returned"
          PROVE  Lack(calls'[x]) = Lack(calls[x])
      BY <2>1, <3>1
    <3> QED
      BY <1>1, <1>6, <2>1, <3>1, LackingMembers, LackingMembersNext
  <2> QED
    BY <2>2
<1>9. Answered'
  <2> SUFFICES ASSUME NEW x \in DOMAIN calls
               PROVE  IF calls'[x].phase = "returned"
                      THEN /\ Ascending(calls'[x].logs, calls'[x].from, calls'[x].to)
                           /\ Lack(calls'[x]) \subseteq Lacking'
                      ELSE calls'[x].logs = <<>>
    BY <1>1 DEF Answered
  <2>1. calls'[x].phase = "returned" => calls'[x] = calls[x]
    BY <1>3 DEF Running
  <2>2. calls'[x].phase # "returned" => calls[x].phase # "returned"
    BY <1>3 DEF Hit, Running
  <2> QED
    BY <1>3, <1>8, <2>1, <2>2 DEF IInv, Answered
<1>10. Whole'
  BY <1>3 DEF IInv, Whole, TypeOK
<1> QED
  BY <1>4, <1>5, <1>7, <1>8, <1>9, <1>10 DEF IInv

-----------------------------------------------------------------------------
(* What an answer lists.                                                   *)

LEMMA FunctionsAreSequences ==
  ASSUME NEW S, NEW n \in Nat, NEW s \in [1..n -> S]
  PROVE  s \in Seq(S) /\ Len(s) = n
OBVIOUS

LEMMA ElementsOfSequences ==
  ASSUME NEW S, NEW s \in Seq(S)
  PROVE  /\ {s[i] : i \in DOMAIN s} \subseteq S
         /\ \A i \in 1..Len(s) : s[i] \in S
OBVIOUS

LEMMA BlocksListed ==
  ASSUME NEW f \in Nat, NEW t \in Nat, NEW u \in Nat, First <= f, t <= Last, u <= t
  PROVE  /\ Blocks(f, u) \in Seq(First..Last)
         /\ Ascending(Blocks(f, u), f, t)
         /\ \A b \in f..t : b <= u => b \in {Blocks(f, u)[i] : i \in DOMAIN Blocks(f, u)}
<1> DEFINE n == u - f + 1
           s == Blocks(f, u)
<1>1. s = [i \in 1..n |-> f + i - 1]
  BY DEF Blocks
<1>2. n \in Int
  OBVIOUS
<1>3. \A i \in 1..n : s[i] = f + i - 1 /\ s[i] \in Int /\ f <= s[i] /\ s[i] <= u
  BY <1>1
<1>4. DOMAIN s = 1..n
  BY <1>1
<1> HIDE DEF s
<1>5. Ascending(s, f, t)
  <2>1. \A i \in DOMAIN s : f <= s[i] /\ s[i] <= t
    BY <1>3, <1>4
  <2>2. \A i, j \in DOMAIN s : i < j => s[i] < s[j]
    BY <1>3, <1>4
  <2> QED
    BY <2>1, <2>2 DEF Ascending
<1>6. \A i \in 1..n : s[i] \in First..Last
  BY <1>3, SearchAssumption
<1>7. s \in Seq(First..Last)
  <2>1. CASE n \in Nat
    <3>1. s \in [1..n -> First..Last]
      BY <1>1, <1>4, <1>6 DEF s
    <3> HIDE DEF n
    <3> QED
      BY <2>1, <3>1, FunctionsAreSequences
  <2>2. CASE n \notin Nat
    <3>1. 1..n = {} /\ 1..0 = {}
      BY <1>2, <2>2
    <3>2. s \in [1..0 -> First..Last]
      BY <1>1, <3>1 DEF s
    <3> QED
      BY <3>2
  <2> QED
    BY <2>1, <2>2
<1>8. ASSUME NEW b \in f..t, b <= u
      PROVE  b \in {s[i] : i \in DOMAIN s}
  <2> DEFINE k == b - f + 1
  <2>1. k \in 1..n /\ f + k - 1 = b
    BY <1>8
  <2>2. s[k] = b /\ k \in DOMAIN s
    BY <1>3, <1>4, <2>1
  <2> QED
    BY <2>2
<1> QED
  BY <1>5, <1>7, <1>8 DEF s

LEMMA ReturnedKinds ==
  ASSUME NEW a \in AnswerType, get_logs(a) = "returned", Convertible(a)
  PROVE  a.kind \in {"list", "null"}
BY DEF get_logs, Called, parse_rpc_error, Exception, NoError, Convertible, AnswerType, Kinds

(* An answer leaves out nothing but what a node may not list. *)
LEMMA AnswerLacksLittle ==
  ASSUME NEW f \in Nat, NEW t \in Nat, First <= f, f <= t, t <= Last,
         NEW a \in Answers, get_logs(a) = "returned", Convertible(a)
  PROVE  /\ Listed(a, f, t) \in Seq(First..Last)
         /\ Ascending(Listed(a, f, t), f, t)
         /\ (f..t) \ {Listed(a, f, t)[i] : i \in DOMAIN Listed(a, f, t)} \subseteq MayLack
<1>1. a \in AnswerType /\ a.kind \in {"list", "null"} /\ a.height \in Nat
  BY ReturnedKinds, SearchAssumption DEF AnswerType
<1>2. CASE a.kind = "null"
  <2>1. Listed(a, f, t) = <<>> /\ MayLack = First..Last
    BY <1>2 DEF Listed, MayLack
  <2>2. <<>> \in Seq(First..Last) /\ DOMAIN <<>> = {}
    OBVIOUS
  <2>3. Ascending(<<>>, f, t)
    BY <2>2 DEF Ascending
  <2>4. f..t \subseteq First..Last
    BY SearchAssumption
  <2> QED
    BY <2>1, <2>2, <2>3, <2>4
<1>3. CASE a.kind = "list"
  <2> DEFINE u == IF a.height < t THEN a.height ELSE t
  <2>1. u \in Nat /\ u <= t /\ Listed(a, f, t) = Blocks(f, u)
    BY <1>1, <1>3 DEF Listed
  <2>2. \A b \in f..t : b > u => b \in (a.height + 1)..Last
    BY <1>1, SearchAssumption
  <2> HIDE DEF u
  <2> DEFINE s == Blocks(f, u)
  <2>3. /\ s \in Seq(First..Last) /\ Ascending(s, f, t)
        /\ \A b \in f..t : b <= u => b \in {s[i] : i \in DOMAIN s}
    BY <2>1, BlocksListed
  <2> HIDE DEF s
  <2>4. ASSUME NEW b \in f..t, b \notin {s[i] : i \in DOMAIN s}
        PROVE  b \in MayLack
    <3>1. b \in Int /\ ~ (b <= u)
      BY <2>3, <2>4
    <3>2. b \in (a.height + 1)..Last
      BY <2>1, <2>2, <3>1
    <3>3. b \in First..Last
      BY SearchAssumption
    <3> QED
      BY <1>3, <3>2, <3>3 DEF MayLack
  <2> QED
    BY <2>1, <2>3, <2>4 DEF s
<1> QED
  BY <1>1, <1>2, <1>3

(* One block is given up only if it is too large or an error was misread.  *)
LEMMA GivenUpMayLack ==
  ASSUME NEW b \in First..Last, NEW a \in AnswersFor(b, b), get_logs(a) = "LogLimitExceededError"
  PROVE  b \in MayLack
<1>1. a \in Answers /\ (a.large => b < b \/ b \in Oversized) /\ ~ (b < b)
  BY SearchAssumption DEF AnswersFor
<1>2. CASE a.large
  BY <1>1, <1>2 DEF MayLack
<1>3. CASE ~ a.large
  BY <1>1, <1>3 DEF MayLack, Misread
<1> QED
  BY <1>2, <1>3

-----------------------------------------------------------------------------
(* How the steps of calls show in LogQuery.                                *)

LEMMA BecomesMaps ==
  ASSUME IInv, NEW id \in DOMAIN calls, NEW c, Becomes(id, c), calls[id].phase \in Running,
         WellFormed(c), c.from = calls[id].from, c.to = calls[id].to, c.phase # "cancelled",
         Lacking \subseteq Lacking', Lacking' \subseteq Lacking \cup MayLack,
         IF c.phase = "returned"
         THEN Ascending(c.logs, c.from, c.to) /\ Lack(c) \subseteq Lacking'
         ELSE c.logs = <<>> /\ Lacking' = Lacking
  PROVE  [Query!Next]_(Query!vars)
<1>1. Query!MoreLacking
  BY DEF Query!MoreLacking
<1>2. /\ Root \in DOMAIN calls
      /\ calls'[Root] = IF Root = id THEN c ELSE calls[Root]
      /\ calls[Root].logs = <<>> \/ calls[Root].phase = "returned"
  BY DEF Becomes, IInv, TypeOK, Answered
<1>3. CASE id # Root
  <2>1. calls'[Root] = calls[Root]
    BY <1>2, <1>3
  <2>2. Query!Omit
    BY <1>1, <2>1 DEF Query!Omit
  <2> QED
    BY <2>2 DEF Query!Next
<1>4. CASE id = Root /\ c.phase \in Running
  <2>1. /\ calls'[Root].phase \in Running /\ calls[Root].phase \in Running
        /\ calls'[Root].logs = calls[Root].logs
    BY <1>2, <1>4 DEF Running
  <2>2. Query!Omit
    BY <1>1, <2>1 DEF Query!Omit, Running
  <2> QED
    BY <2>2 DEF Query!Next
<1>5. CASE id = Root /\ c.phase = "returned"
  <2>1. calls'[Root] = c /\ c.from = First /\ c.to = Last /\ calls[Root].phase \in Running
    BY <1>2, <1>5 DEF IInv, Whole
  <2> DEFINE gone == Lack(c)
             s == c.logs
  <2>2. gone \in SUBSET Lacking'
    BY <1>5
  <2>3. Query!Lists(s, (First..Last) \ gone)
    <3>1. Ascending(s, First, Last) /\ gone = (First..Last) \ {s[i] : i \in DOMAIN s}
      BY <1>5, <2>1 DEF Lack
    <3>2. s \in Seq(First..Last)
      BY DEF WellFormed, CallType
    <3>3. {s[i] : i \in DOMAIN s} \subseteq First..Last
      BY <3>2, ElementsOfSequences
    <3> QED
      BY <3>1, <3>3 DEF Ascending, Query!Lists
  <2>4. Query!Answer
    BY <1>1, <1>5, <2>1, <2>2, <2>3 DEF Query!Answer, Running
  <2> QED
    BY <2>4 DEF Query!Next
<1>6. CASE id = Root /\ c.phase \notin Running \cup {"returned"}
  <2>1. c.phase \in {"failed", "exhausted"} /\ Lacking' = Lacking /\ c.logs = <<>>
    BY <1>6 DEF WellFormed, CallType, Phases, Raised, Running
  <2>2. calls'[Root].phase = c.phase /\ calls[Root].phase \in Running /\ calls'[Root].logs = calls[Root].logs
    BY <1>2, <1>6, <2>1 DEF Running
  <2>3. Query!Raise
    BY <2>1, <2>2 DEF Query!Raise, Running
  <2> QED
    BY <2>3 DEF Query!Next
<1> QED
  BY <1>3, <1>4, <1>5, <1>6

-----------------------------------------------------------------------------
(* The steps one by one: each keeps the invariant and shows in LogQuery.   *)

LEMMA ReturnsIsSafe ==
  ASSUME IInv, NEW id \in DOMAIN calls, calls[id].phase \in Running,
         NEW s \in Seq(First..Last), calls' = Returns(id, s),
         Ascending(s, calls[id].from, calls[id].to),
         (calls[id].from .. calls[id].to) \ {s[i] : i \in DOMAIN s} \subseteq Lacking \cup MayLack,
         Left(id) \in DOMAIN calls =>
           (calls[id].from .. calls[id].to) \ {s[i] : i \in DOMAIN s} \subseteq Lacking,
         \A e \in Steps : Append(id, e) \in DOMAIN calls /\ e[1] = calls[id].failures =>
           calls[Append(id, e)].phase \notin Running
  PROVE  IInv' /\ [Query!Next]_(Query!vars)
<1> DEFINE c == [calls[id] EXCEPT !.phase = "returned", !.logs = s]
<1>1. WellFormed(calls[id])
  BY DEF IInv, TypeOK
<1>2. /\ c.from = calls[id].from /\ c.to = calls[id].to /\ c.failures = calls[id].failures
      /\ c.phase = "returned" /\ c.logs = s
  BY <1>1 DEF WellFormed, CallType
<1>3. WellFormed(c)
  BY <1>1 DEF WellFormed, CallType, Phases, Running
<1>4. Becomes(id, c)
  BY DEF Becomes, Returns, IInv, TypeOK
<1> HIDE DEF c
<1>5. Lack(c) = (calls[id].from .. calls[id].to) \ {s[i] : i \in DOMAIN s}
  BY <1>2 DEF Lack
<1>6. calls[id].phase # "returned"
  BY DEF Running
<1>7. /\ Lacking \subseteq Lacking'
      /\ Left(id) \in DOMAIN calls => Lacking' = Lacking
      /\ Lacking' \subseteq Lacking \cup Lack(c)
      /\ Left(id) \notin DOMAIN calls => Lack(c) \subseteq Lacking'
  BY <1>2, <1>4, <1>6, LackingGrows
<1>8. Lack(c) \subseteq Lacking' /\ Lacking' \subseteq Lacking \cup MayLack
  BY <1>5, <1>7
<1>9. Ascending(c.logs, c.from, c.to)
  BY <1>2
<1>10. calls[id].failures <= c.failures
  BY <1>1, <1>2, SearchAssumption DEF WellFormed, CallType
<1>11. IInv'
  BY <1>2, <1>3, <1>4, <1>8, <1>9, <1>10, StepKeepsInv
<1>12. [Query!Next]_(Query!vars)
  BY <1>2, <1>3, <1>4, <1>7, <1>8, <1>9, BecomesMaps
<1> QED
  BY <1>11, <1>12

LEMMA AttemptFailsIsSafe ==
  ASSUME IInv, NEW id \in DOMAIN calls, calls[id].phase \in Running, calls' = AttemptFails(id)
  PROVE  IInv' /\ [Query!Next]_(Query!vars)
<1> DEFINE k == calls[id].failures + 1
           ph == IF k < MaxRetries THEN "backoff" ELSE "failed"
           c == [calls[id] EXCEPT !.phase = ph, !.failures = k]
<1>1. /\ WellFormed(calls[id]) /\ calls[id].phase # "failed" /\ calls[id].phase # "returned"
      /\ calls[id].logs = <<>>
  BY DEF IInv, TypeOK, Answered, Running
<1>2. /\ calls[id].failures \in Nat /\ calls[id].failures < k /\ k \in 0..MaxRetries
      /\ k = MaxRetries <=> ph = "failed"
  BY <1>1, SearchAssumption DEF WellFormed, CallType
<1>3. Becomes(id, c)
  BY DEF Becomes, AttemptFails, IInv, TypeOK
<1>4. ph \in {"backoff", "failed"}
  OBVIOUS
<1> HIDE DEF k, ph
<1>5. /\ c.from = calls[id].from /\ c.to = calls[id].to /\ c.failures = k
      /\ c.phase = ph /\ c.logs = <<>>
  BY <1>1 DEF WellFormed, CallType
<1>6. WellFormed(c)
  BY <1>1, <1>2, <1>4 DEF WellFormed, CallType, Phases, Running, Raised
<1> HIDE DEF c
<1>7. Lacking' = Lacking
  BY <1>1, <1>3, <1>4, <1>5, LackingGrows
<1>8. IInv'
  BY <1>1, <1>2, <1>3, <1>4, <1>5, <1>6, StepKeepsInv
<1>9. [Query!Next]_(Query!vars)
  BY <1>3, <1>4, <1>5, <1>6, <1>7, BecomesMaps
<1> QED
  BY <1>8, <1>9

(* Exhausted, or asking again. *)
LEMMA MovesOnIsSafe ==
  ASSUME IInv, NEW id \in DOMAIN calls, calls[id].phase \in Running,
         NEW ph \in {"exhausted", "asking"}, calls' = [calls EXCEPT ![id].phase = ph],
         ph = "asking" => calls[id].phase = "backoff"
  PROVE  IInv' /\ [Query!Next]_(Query!vars)
<1> DEFINE c == [calls[id] EXCEPT !.phase = ph]
<1>1. /\ WellFormed(calls[id]) /\ calls[id].phase # "failed" /\ calls[id].phase # "returned"
      /\ calls[id].logs = <<>>
  BY DEF IInv, TypeOK, Answered, Running
<1>2. Becomes(id, c)
  BY DEF Becomes, IInv, TypeOK
<1>3. /\ c.from = calls[id].from /\ c.to = calls[id].to /\ c.failures = calls[id].failures
      /\ c.phase = ph /\ c.logs = <<>>
  BY <1>1 DEF WellFormed, CallType
<1>4. WellFormed(c)
  BY <1>1 DEF WellFormed, CallType, Phases, Running, Raised
<1> HIDE DEF c
<1>5. Lacking' = Lacking
  BY <1>1, <1>2, <1>3, LackingGrows
<1>6. calls[id].failures <= c.failures
  BY <1>1, <1>3, SearchAssumption DEF WellFormed, CallType
<1>7. IInv'
  BY <1>1, <1>2, <1>3, <1>4, <1>6, StepKeepsInv
<1>8. [Query!Next]_(Query!vars)
  BY <1>2, <1>3, <1>4, <1>5, BecomesMaps
<1> QED
  BY <1>7, <1>8

LEMMA NotSplitYet ==
  ASSUME IInv, NEW id \in DOMAIN calls, calls[id].phase = "asking"
  PROVE  /\ Left(id) \notin DOMAIN calls
         /\ \A e \in Steps : Append(id, e) \in DOMAIN calls => e[1] # calls[id].failures
<1>1. id \in Paths /\ <<calls[id].failures, "left">> \in Steps
      /\ Left(id) = Append(id, <<calls[id].failures, "left">>)
  BY HalvesAreSteps DEF IInv
<1> QED
  BY <1>1 DEF IInv, Tree

LEMMA GotLogsIsSafe ==
  ASSUME IInv, NEW id \in DOMAIN calls, GotLogs(id)
  PROVE  IInv' /\ [Query!Next]_(Query!vars)
<1>1. PICK a \in Ending(calls[id], "returned") :
        /\ Convertible(a)
        /\ calls' = Returns(id, Listed(a, calls[id].from, calls[id].to))
  BY DEF GotLogs
<1>2. a \in Answers /\ get_logs(a) = "returned"
  BY DEF Ending, AnswersFor
<1>3. calls[id].phase = "asking" /\ calls[id].phase \in Running
  BY DEF GotLogs, Running
<1>4. /\ calls[id].from \in Nat /\ calls[id].to \in Nat
      /\ First <= calls[id].from /\ calls[id].from <= calls[id].to /\ calls[id].to <= Last
  BY DEF IInv, TypeOK, WellFormed, CallType
<1> DEFINE s == Listed(a, calls[id].from, calls[id].to)
<1>5. /\ s \in Seq(First..Last) /\ Ascending(s, calls[id].from, calls[id].to)
      /\ (calls[id].from .. calls[id].to) \ {s[i] : i \in DOMAIN s} \subseteq MayLack
  BY <1>1, <1>2, <1>4, AnswerLacksLittle
<1>6. calls' = Returns(id, s)
  BY <1>1
<1> HIDE DEF s
<1> QED
  BY <1>3, <1>5, <1>6, NotSplitYet, ReturnsIsSafe

LEMMA GiveUpIsSafe ==
  ASSUME IInv, NEW id \in DOMAIN calls, GiveUp(id)
  PROVE  IInv' /\ [Query!Next]_(Query!vars)
<1> DEFINE b == calls[id].from
<1>1. PICK a \in Ending(calls[id], "LogLimitExceededError") : TRUE
  BY DEF GiveUp
<1>2. /\ calls[id].phase = "asking" /\ calls[id].phase \in Running /\ calls[id].to = b
      /\ calls' = Returns(id, <<>>)
  BY DEF GiveUp, Running
<1>3. a \in AnswersFor(b, b) /\ get_logs(a) = "LogLimitExceededError"
  BY <1>2 DEF Ending
<1>4. b \in First..Last
  BY <1>2, SearchAssumption DEF IInv, TypeOK, WellFormed, CallType
<1>5. b \in MayLack
  BY <1>3, <1>4, GivenUpMayLack
<1>6. calls[id].from .. calls[id].to = {b}
  BY <1>2, <1>4, SearchAssumption
<1> HIDE DEF b
<1> DEFINE s == <<>>
<1>7. s \in Seq(First..Last) /\ DOMAIN s = {} /\ Ascending(s, calls[id].from, calls[id].to)
  BY DEF Ascending
<1>8. calls' = Returns(id, s)
  BY <1>2
<1> HIDE DEF s
<1>9. (calls[id].from .. calls[id].to) \ {s[i] : i \in DOMAIN s} \subseteq Lacking \cup MayLack
  BY <1>5, <1>6
<1> QED
  BY <1>2, <1>7, <1>8, <1>9, NotSplitYet, ReturnsIsSafe

Elements(s) == {s[i] : i \in DOMAIN s}

LEMMA AscendingConcat ==
  ASSUME NEW f \in Nat, NEW m \in Nat, NEW t \in Nat, f <= m, m < t,
         NEW r \in Seq(First..Last), NEW s \in Seq(First..Last),
         Ascending(r, f, m), Ascending(s, m + 1, t)
  PROVE  /\ r \o s \in Seq(First..Last)
         /\ Ascending(r \o s, f, t)
         /\ Elements(r \o s) = Elements(r) \cup Elements(s)
<1> DEFINE z == r \o s
           n == Len(r)
           k == Len(s)
<1>1. /\ z \in Seq(First..Last) /\ n \in Nat /\ k \in Nat /\ Len(z) = n + k
      /\ DOMAIN r = 1..n /\ DOMAIN s = 1..k /\ DOMAIN z = 1..(n + k)
  OBVIOUS
<1>2. /\ \A i \in 1..n : z[i] = r[i]
      /\ \A i \in 1..k : z[i + n] = s[i]
  BY <1>1
<1>3. ASSUME NEW i \in 1..(n + k)
      PROVE  i \in 1..n \/ \E j \in 1..k : i = j + n
  <2>1. CASE i <= n
    BY <1>1, <2>1
  <2>2. CASE ~ (i <= n)
    <3> DEFINE j == i - n
    <3>1. j \in 1..k /\ i = j + n
      BY <1>1, <2>2
    <3> QED
      BY <3>1
  <2> QED
    BY <2>1, <2>2
<1>4. /\ \A i \in 1..n : r[i] \in Int /\ f <= r[i] /\ r[i] <= m
      /\ \A i \in 1..k : s[i] \in Int /\ m + 1 <= s[i] /\ s[i] <= t
  <2>1. \A i \in 1..n : r[i] \in First..Last
    BY ElementsOfSequences
  <2>2. \A i \in 1..k : s[i] \in First..Last
    BY ElementsOfSequences
  <2> HIDE DEF z, n, k
  <2>3. \A i \in 1..n : f <= r[i] /\ r[i] <= m
    BY <1>1 DEF Ascending
  <2>4. \A i \in 1..k : m + 1 <= s[i] /\ s[i] <= t
    BY <1>1 DEF Ascending
  <2> QED
    BY <2>1, <2>2, <2>3, <2>4, SearchAssumption
<1> HIDE DEF z, n, k
<1>5. ASSUME NEW i \in 1..(n + k)
      PROVE  f <= z[i] /\ z[i] <= t
  <2>1. CASE i \in 1..n
    BY <1>2, <1>4, <2>1
  <2>2. CASE i \notin 1..n
    <3>1. PICK j \in 1..k : i = j + n
      BY <1>3, <2>2
    <3>2. z[i] = s[j] /\ s[j] \in Int /\ m + 1 <= s[j] /\ s[j] <= t
      BY <1>2, <1>4, <3>1
    <3> QED
      BY <3>2
  <2> QED
    BY <2>1, <2>2
<1>6. ASSUME NEW i \in 1..(n + k), NEW j \in 1..(n + k), i < j
      PROVE  z[i] < z[j]
  <2>1. CASE i \in 1..n /\ j \in 1..n
    BY <1>1, <1>2, <1>6, <2>1 DEF Ascending
  <2>2. CASE i \in 1..n /\ j \notin 1..n
    <3>1. PICK y \in 1..k : j = y + n
      BY <1>3, <2>2
    <3>2. z[i] = r[i] /\ z[j] = s[y]
      BY <1>2, <2>2, <3>1
    <3> QED
      BY <1>4, <2>2, <3>2
  <2>3. CASE i \notin 1..n
    <3>1. PICK x \in 1..k : i = x + n
      BY <1>3, <2>3
    <3>2. j \notin 1..n
      BY <1>1, <1>6, <3>1
    <3>3. PICK y \in 1..k : j = y + n
      BY <1>3, <3>2
    <3>4. x < y
      BY <1>1, <1>6, <3>1, <3>3
    <3>5. z[i] = s[x] /\ z[j] = s[y]
      BY <1>2, <3>1, <3>3
    <3> QED
      BY <1>1, <3>4, <3>5 DEF Ascending
  <2> QED
    BY <2>1, <2>2, <2>3
<1>7. Ascending(z, f, t)
  BY <1>1, <1>5, <1>6 DEF Ascending
<1>8. ASSUME NEW b
      PROVE  b \in {z[i] : i \in DOMAIN z} <=>
               b \in {r[i] : i \in DOMAIN r} \cup {s[i] : i \in DOMAIN s}
  <2>1. ASSUME NEW i \in DOMAIN r
        PROVE  i \in DOMAIN z /\ z[i] = r[i]
    BY <1>1, <1>2
  <2>2. ASSUME NEW i \in DOMAIN s
        PROVE  i + n \in DOMAIN z /\ z[i + n] = s[i]
    BY <1>1, <1>2
  <2>3. ASSUME NEW i \in DOMAIN z
        PROVE  z[i] \in {r[j] : j \in DOMAIN r} \cup {s[j] : j \in DOMAIN s}
    <3>1. CASE i \in 1..n
      BY <1>1, <1>2, <3>1
    <3>2. CASE i \notin 1..n
      <4>1. PICK j \in 1..k : i = j + n
        BY <1>1, <1>3, <3>2
      <4>2. z[i] = s[j] /\ j \in DOMAIN s
        BY <1>1, <1>2, <4>1
      <4> QED
        BY <4>2
    <3> QED
      BY <3>1, <3>2
  <2> QED
    BY <2>1, <2>2, <2>3
<1> QED
  BY <1>1, <1>7, <1>8 DEF z, Elements

LEMMA JoinIsSafe ==
  ASSUME IInv, NEW id \in DOMAIN calls, Join(id)
  PROVE  IInv' /\ [Query!Next]_(Query!vars)
<1> DEFINE l == Left(id)
           r == Right(id)
           f == calls[id].from
           t == calls[id].to
           m == Mid(f, t)
           s == calls[l].logs \o calls[r].logs
<1>1. /\ calls[id].phase = "split" /\ calls[id].phase \in Running
      /\ calls[l].phase = "returned" /\ calls[r].phase = "returned"
      /\ calls' = Returns(id, s)
  BY DEF Join, Running
<1>2. l \in DOMAIN calls /\ r \in DOMAIN calls
  BY <1>1 DEF IInv, Halved
<1>3. /\ id \in Paths /\ calls[id].failures \in 0..(MaxRetries - 1)
      /\ <<calls[id].failures, "left">> \in Steps /\ <<calls[id].failures, "right">> \in Steps
      /\ l = Append(id, <<calls[id].failures, "left">>)
      /\ r = Append(id, <<calls[id].failures, "right">>)
  BY <1>1, HalvesAreSteps DEF IInv
<1>4. IsHalf(calls[l], calls[id], "left") /\ IsHalf(calls[r], calls[id], "right")
  <2>1. <<calls[id].failures, "left">>[2] = "left" /\ <<calls[id].failures, "right">>[2] = "right"
    OBVIOUS
  <2> QED
    BY <1>2, <1>3, <2>1 DEF IInv, Tree
<1>5. f \in Nat /\ t \in Nat /\ f < t /\ WellFormed(calls[id])
  BY <1>4 DEF IsHalf, IInv, TypeOK, WellFormed, CallType
<1>6. m \in Nat /\ f <= m /\ m < t
  BY <1>5, MidIsBetween
<1>7. /\ calls[l].from = f /\ calls[l].to = m /\ calls[r].from = m + 1 /\ calls[r].to = t
  BY <1>4 DEF IsHalf
<1>8. calls[l].logs \in Seq(First..Last) /\ calls[r].logs \in Seq(First..Last)
  BY <1>2 DEF IInv, TypeOK, WellFormed, CallType
<1>9. /\ Ascending(calls[l].logs, f, m) /\ Lack(calls[l]) \subseteq Lacking
      /\ Ascending(calls[r].logs, m + 1, t) /\ Lack(calls[r]) \subseteq Lacking
  BY <1>1, <1>2, <1>7 DEF IInv, Answered
<1>10. \A e \in Steps : Append(id, e) \in DOMAIN calls /\ e[1] = calls[id].failures =>
         calls[Append(id, e)].phase \notin Running
  <2> SUFFICES ASSUME NEW e \in Steps, e[1] = calls[id].failures
               PROVE  Append(id, e) \in {l, r}
    BY <1>1 DEF Running
  <2>1. e = <<calls[id].failures, "left">> \/ e = <<calls[id].failures, "right">>
    BY DEF Steps, Sides
  <2> QED
    BY <1>3, <2>1
<1> HIDE DEF l, r, f, t, m
<1>11. /\ s \in Seq(First..Last) /\ Ascending(s, f, t)
       /\ Elements(s) = Elements(calls[l].logs) \cup Elements(calls[r].logs)
  BY <1>5, <1>6, <1>8, <1>9, AscendingConcat
<1> HIDE DEF s
<1>12. (f..t) \ {s[i] : i \in DOMAIN s} \subseteq Lacking
  <2> SUFFICES ASSUME NEW b \in f..t, b \notin {s[i] : i \in DOMAIN s}
               PROVE  b \in Lack(calls[l]) \cup Lack(calls[r])
    BY <1>9
  <2>1. b \in f..m \/ b \in (m + 1)..t
    BY <1>5, <1>6
  <2> QED
    BY <1>7, <1>11, <2>1 DEF Lack, Elements
<1>13. Ascending(s, calls[id].from, calls[id].to)
       /\ (calls[id].from .. calls[id].to) \ {s[i] : i \in DOMAIN s} \subseteq Lacking
  BY <1>11, <1>12 DEF f, t
<1> QED
  BY <1>1, <1>10, <1>11, <1>13, ReturnsIsSafe

LEMMA AskFailsIsSafe ==
  ASSUME IInv, NEW id \in DOMAIN calls, AskFails(id)
  PROVE  IInv' /\ [Query!Next]_(Query!vars)
BY AttemptFailsIsSafe DEF AskFails, Running

LEMMA NodesExhaustedIsSafe ==
  ASSUME IInv, NEW id \in DOMAIN calls, NodesExhausted(id)
  PROVE  IInv' /\ [Query!Next]_(Query!vars)
<1>1. calls[id].phase \in Running /\ calls' = [calls EXCEPT ![id].phase = "exhausted"]
  BY DEF NodesExhausted, Running
<1> QED
  BY <1>1, MovesOnIsSafe

LEMMA JoinFailsIsSafe ==
  ASSUME IInv, NEW id \in DOMAIN calls, JoinFails(id)
  PROVE  IInv' /\ [Query!Next]_(Query!vars)
<1>1. /\ calls[id].phase \in Running
      /\ \/ calls' = [calls EXCEPT ![id].phase = "exhausted"]
         \/ calls' = AttemptFails(id)
  BY DEF JoinFails, Running
<1> QED
  BY <1>1, MovesOnIsSafe, AttemptFailsIsSafe

LEMMA RetryIsSafe ==
  ASSUME IInv, NEW id \in DOMAIN calls, Retry(id)
  PROVE  IInv' /\ [Query!Next]_(Query!vars)
<1>1. /\ calls[id].phase \in Running /\ calls[id].phase = "backoff"
      /\ calls' = [calls EXCEPT ![id].phase = "asking"]
  BY DEF Retry, Running
<1> QED
  BY <1>1, MovesOnIsSafe

LEMMA SplitIsSafe ==
  ASSUME IInv, NEW id \in DOMAIN calls, Split(id)
  PROVE  IInv' /\ [Query!Next]_(Query!vars)
<1>1. IInv' /\ Lacking' = Lacking
  BY SplitKeepsInv
<1>2. /\ Root \in DOMAIN calls
      /\ calls[Root].logs = calls'[Root].logs
      /\ calls[Root].phase = calls'[Root].phase \/ (calls[Root].phase = "asking" /\ calls'[Root].phase = "split")
  <2>1. calls[Root] \in CallType /\ Root \in DOMAIN calls
    BY DEF IInv, TypeOK, WellFormed
  <2>2. calls'[Root] = IF Root = id THEN [calls[Root] EXCEPT !.phase = "split"] ELSE calls[Root]
    BY <2>1, SplitFacts
  <2>3. Root = id => calls[Root].phase = "asking"
    BY SplitFacts
  <2> QED
    BY <2>1, <2>2, <2>3 DEF CallType
<1>3. UNCHANGED Query!vars
  BY <1>1, <1>2 DEF Query!vars, Running
<1> QED
  BY <1>1, <1>3

LEMMA CancelIsSafe ==
  ASSUME IInv, Cancel
  PROVE  IInv' /\ [Query!Next]_(Query!vars)
<1>1. IInv' /\ Lacking' = Lacking
  BY CancelKeepsInv
<1>2. Attached(Root)
  BY DEF Attached, Root
<1>3. calls[Root].phase \in Running /\ Root \in DOMAIN calls /\ calls[Root] \in CallType
  BY DEF Cancel, IInv, TypeOK, WellFormed
<1>4. calls'[Root] = [calls[Root] EXCEPT !.phase = "cancelled"]
  BY <1>2, <1>3 DEF Cancel
<1>5. calls'[Root].phase = "cancelled" /\ calls'[Root].logs = calls[Root].logs
  BY <1>3, <1>4 DEF CallType
<1>6. Query!Raise
  BY <1>1, <1>3, <1>5 DEF Query!Raise, Running
<1> QED
  BY <1>1, <1>6 DEF Query!Next

LEMMA StepIsSafe ==
  ASSUME IInv, [Next]_calls
  PROVE  IInv' /\ [Query!Next]_(Query!vars)
<1>1. CASE UNCHANGED calls
  <2>1. IInv'
    <3>1. Lacking' = Lacking
      BY <1>1 DEF Lacking, Left, Half
    <3>2. \A x \in DOMAIN calls : Left(x)' = Left(x) /\ Right(x)' = Right(x)
      BY <1>1 DEF Left, Right, Half
    <3>3. Halved'
      BY <1>1, <3>2 DEF IInv, Halved
    <3>4. Answered'
      BY <1>1, <3>1 DEF IInv, Answered
    <3>5. TypeOK' /\ Whole' /\ Tree'
      BY <1>1 DEF IInv, TypeOK, Whole, Tree
    <3> QED
      BY <3>3, <3>4, <3>5 DEF IInv
  <2>2. UNCHANGED Query!vars
    BY <1>1 DEF Query!vars, Lacking, Left, Half
  <2> QED
    BY <2>1, <2>2
<1>2. ASSUME NEW id \in DOMAIN calls,
             \/ GotLogs(id) \/ GiveUp(id) \/ Split(id) \/ AskFails(id) \/ NodesExhausted(id)
             \/ Join(id) \/ JoinFails(id) \/ Retry(id)
      PROVE  IInv' /\ [Query!Next]_(Query!vars)
  BY <1>2, GotLogsIsSafe, GiveUpIsSafe, SplitIsSafe, AskFailsIsSafe, NodesExhaustedIsSafe,
     JoinIsSafe, JoinFailsIsSafe, RetryIsSafe
<1>3. CASE Cancel
  BY <1>3, CancelIsSafe
<1> QED
  BY <1>1, <1>2, <1>3 DEF Next

LEMMA InitIsSafe ==
  ASSUME Init
  PROVE  IInv /\ Query!Init
<1>1. /\ DOMAIN calls = {Root} /\ calls = [id \in DOMAIN calls |-> calls[id]]
      /\ calls[Root] = Call(First, Last)
  BY DEF Init
<1>2. /\ calls[Root].from = First /\ calls[Root].to = Last /\ calls[Root].failures = 0
      /\ calls[Root].phase = "asking" /\ calls[Root].logs = <<>>
  BY <1>1 DEF Call
<1>3. Root \in Paths
  BY DEF Root, Paths
<1>4. TypeOK
  <2>1. WellFormed(Call(First, Last))
    BY SearchAssumption DEF WellFormed, CallType, Call, Phases, Running
  <2> QED
    BY <1>1, <1>3, <2>1 DEF TypeOK
<1>5. Tree
  BY <1>1, AppendIsAPath DEF Tree
<1>6. Halved
  <2>1. /\ Left(Root) # Root /\ Right(Root) # Root
    <3>1. /\ <<calls[Root].failures, "left">> \in Steps /\ <<calls[Root].failures, "right">> \in Steps
          /\ Left(Root) = Append(Root, <<calls[Root].failures, "left">>)
          /\ Right(Root) = Append(Root, <<calls[Root].failures, "right">>)
      BY <1>1, <1>2, <1>4, HalvesAreSteps
    <3> QED
      BY <1>3, <3>1, AppendIsAPath
  <2> QED
    BY <1>1, <1>2, <2>1 DEF Halved
<1>7. Lacking = {}
  BY <1>1, <1>2, LackingMembers
<1> QED
  BY <1>1, <1>2, <1>4, <1>5, <1>6, <1>7 DEF IInv, Whole, Answered, Query!Init, Running

LEMMA InvHolds == Spec => []IInv
<1>1. Init => IInv
  BY InitIsSafe
<1>2. IInv /\ [Next]_calls => IInv'
  BY StepIsSafe
<1> QED
  BY <1>1, <1>2, PTL DEF Spec

(* binary_search.py, _query_with_retry: every call made is of a range      *)
(* within the one asked for, and fails at most MaxRetries times, after     *)
(* which it does nothing more.                                             *)
THEOREM TypeCorrect == Spec => []TypeOK
BY InvHolds, PTL DEF IInv

(* binary_search.py, query_logs: whatever is halved, retried, abandoned or *)
(* cancelled, query_logs ends once, and an answer lists the logs of the    *)
(* range in block order, each block once, but for those a node left out.   *)
THEOREM QueryIsAnsweredInOrder == Spec => Query!Init /\ [][Query!Next]_(Query!vars)
<1>1. Init => Query!Init
  BY InitIsSafe
<1>2. IInv /\ [Next]_calls => [Query!Next]_(Query!vars)
  BY StepIsSafe
<1> QED
  BY <1>1, <1>2, InvHolds, PTL DEF Spec

-----------------------------------------------------------------------------
(* What still runs when query_logs has ended.                              *)

LEMMA LeastExists ==
  ASSUME NEW S \in SUBSET Nat, S # {}
  PROVE  \E x \in S : \A y \in S : x <= y
<1>1. PICK x \in S : \A y \in S : ~ (<<y, x>> \in OpToRel(<, Nat))
  BY NatLessThanWellFounded, WFMin
<1>2. \A y \in S : ~ (y < x)
  BY <1>1 DEF OpToRel
<1> QED
  BY <1>2

LEMMA OutlivingIsAbandoned ==
  ASSUME IInv
  PROVE  OnlyFailedAttemptsOutlive
<1> SUFFICES ASSUME calls[Root].phase \notin Running,
                    NEW id \in DOMAIN calls, calls[id].phase \in Running,
                    \A n \in 1..Len(id) :
                      LET caller == calls[SubSeq(id, 1, n - 1)]
                      IN  ~ (caller.failures > id[n][1]) /\ caller.phase \notin Raised
             PROVE  FALSE
  BY DEF OnlyFailedAttemptsOutlive
<1>1. id \in Paths /\ Len(id) \in Nat
  BY DEF IInv, TypeOK, Paths
<1> DEFINE S == {n \in 0..Len(id) : /\ SubSeq(id, 1, n) \in DOMAIN calls
                                    /\ calls[SubSeq(id, 1, n)].phase \in Running}
<1>2. Len(id) \in S
  <2>1. SubSeq(id, 1, Len(id)) = id /\ Len(id) \in 0..Len(id)
    BY <1>1, WholePrefix
  <2> QED
    BY <2>1
<1>3. PICK n \in S : \A k \in S : n <= k
  <2>1. S \in SUBSET Nat /\ S # {}
    BY <1>1, <1>2
  <2> HIDE DEF S
  <2> QED
    BY <2>1, LeastExists
<1>4. n # 0
  BY <1>1, NoPrefix
<1>5. n \in 1..Len(id) /\ n - 1 \in 0..Len(id)
  BY <1>1, <1>4
<1> DEFINE p == SubSeq(id, 1, n - 1)
           e == id[n]
<1>6. p \in Paths /\ e \in Steps /\ SubSeq(id, 1, n) = Append(p, e)
  BY <1>1, <1>5, PrefixIsAppend
<1>7. Append(p, e) \in DOMAIN calls /\ calls[Append(p, e)].phase \in Running
  BY <1>3, <1>6
<1>8. ~ (calls[p].failures > e[1]) /\ calls[p].phase \notin Raised
  BY <1>5
<1> HIDE DEF p, e
<1>9. /\ p \in DOMAIN calls
      /\ e[1] <= calls[p].failures
      /\ e[1] = calls[p].failures =>
           /\ calls[p].phase \notin {"asking", "backoff"}
           /\ calls[p].phase \in {"returned", "cancelled"} => calls[Append(p, e)].phase \notin Running
  BY <1>6, <1>7 DEF IInv, Tree
<1>10. e[1] \in Nat /\ calls[p].failures \in Nat /\ calls[p].phase \in Phases
  BY <1>6, <1>9, SearchAssumption DEF Steps, IInv, TypeOK, WellFormed, CallType
<1>11. e[1] = calls[p].failures
  BY <1>8, <1>9, <1>10
<1>12. calls[p].phase \in Running
  BY <1>7, <1>8, <1>9, <1>10, <1>11 DEF Phases
<1>13. n - 1 \in S
  BY <1>5, <1>9, <1>12 DEF p
<1> QED
  BY <1>1, <1>3, <1>13

(* binary_search.py, _query_with_retry: what still runs when query_logs    *)
(* has ended belongs to an attempt that had failed.                        *)
THEOREM OutlivingWorkIsAbandoned == Spec => []OnlyFailedAttemptsOutlive
BY InvHolds, OutlivingIsAbandoned, PTL

-----------------------------------------------------------------------------
(* Ranges and the paths that lead to them.                                 *)

Within(c, d) == d.from <= c.from /\ c.to <= d.to

LEMMA HalvesAreWithin ==
  ASSUME IInv, NEW p \in Paths, NEW e \in Steps, Append(p, e) \in DOMAIN calls
  PROVE  /\ p \in DOMAIN calls
         /\ Within(calls[Append(p, e)], calls[p])
         /\ IsHalf(calls[Append(p, e)], calls[p], e[2])
         /\ ~ Within(calls[p], calls[Append(p, e)])
<1> DEFINE x == Append(p, e)
<1>1. p \in DOMAIN calls /\ IsHalf(calls[x], calls[p], e[2])
  BY DEF IInv, Tree
<1>2. e[2] = "left" \/ e[2] = "right"
  BY DEF Steps, Sides
<1>3. calls[p].from \in Nat /\ calls[p].to \in Nat /\ calls[p].from < calls[p].to
  BY <1>1 DEF IInv, TypeOK, WellFormed, CallType, IsHalf
<1> HIDE DEF x
<1> DEFINE m == Mid(calls[p].from, calls[p].to)
<1>4. m \in Nat /\ calls[p].from <= m /\ m < calls[p].to
  BY <1>3, MidIsBetween
<1>5. \/ calls[x].from = calls[p].from /\ calls[x].to = m
      \/ calls[x].from = m + 1 /\ calls[x].to = calls[p].to
  BY <1>1, <1>2 DEF IsHalf
<1> HIDE DEF m
<1>6. Within(calls[x], calls[p]) /\ ~ Within(calls[p], calls[x])
  BY <1>3, <1>4, <1>5 DEF Within
<1> QED
  BY <1>1, <1>6 DEF x

(* The calls above a call are of ranges around its range. *)
LEMMA PrefixesAreAround ==
  ASSUME IInv, NEW x \in DOMAIN calls, NEW n \in 0..Len(x)
  PROVE  SubSeq(x, 1, n) \in DOMAIN calls /\ Within(calls[x], calls[SubSeq(x, 1, n)])
<1>1. x \in Paths /\ Len(x) \in Nat
  BY DEF IInv, TypeOK, Paths
<1> DEFINE Good(k) == SubSeq(x, 1, k) \in DOMAIN calls /\ Within(calls[x], calls[SubSeq(x, 1, k)])
           S == {j \in 0..Len(x) : ~ Good(Len(x) - j)}
<1>2. SUFFICES ASSUME S # {}
               PROVE  FALSE
  <2>1. Len(x) - n \in 0..Len(x) /\ Len(x) - (Len(x) - n) = n
    BY <1>1
  <2> HIDE DEF Good
  <2>2. S = {} => Good(n)
    BY <2>1
  <2> QED
    BY <2>2 DEF Good
<1>3. PICK j \in S : \A k \in S : j <= k
  <2>1. S \in SUBSET Nat
    BY <1>1
  <2> HIDE DEF S
  <2> QED
    BY <1>2, <2>1, LeastExists
<1>4. Good(Len(x))
  <2>1. calls[x].from \in Nat /\ calls[x].to \in Nat
    BY DEF IInv, TypeOK, WellFormed, CallType
  <2>2. SubSeq(x, 1, Len(x)) = x
    BY <1>1, WholePrefix
  <2>3. Within(calls[x], calls[x])
    BY <2>1 DEF Within
  <2> DEFINE y == SubSeq(x, 1, Len(x))
  <2>4. y = x
    BY <2>2
  <2> HIDE DEF y
  <2>5. y \in DOMAIN calls /\ Within(calls[x], calls[y])
    BY <2>3, <2>4
  <2> QED
    BY <2>5 DEF y
<1> DEFINE k == Len(x) - j
<1>5. j \in 0..Len(x) /\ ~ Good(k)
  BY <1>3
<1>6. j # 0
  BY <1>1, <1>4, <1>5
<1>7. k + 1 \in 1..Len(x) /\ k = k + 1 - 1 /\ k \in 0..Len(x) /\ j - 1 \in 0..Len(x)
      /\ Len(x) - (j - 1) = k + 1
  BY <1>1, <1>5, <1>6
<1>8. Good(k + 1)
  <2>1. j - 1 \notin S
    BY <1>1, <1>3, <1>5
  <2> HIDE DEF Good, k
  <2> QED
    BY <1>7, <2>1
<1>9. \A i \in 1..Len(x) :
        /\ x[i] \in Steps /\ SubSeq(x, 1, i - 1) \in Paths
        /\ SubSeq(x, 1, i) = Append(SubSeq(x, 1, i - 1), x[i])
  BY <1>1, PrefixIsAppend
<1> HIDE DEF S, k
<1> DEFINE p == SubSeq(x, 1, k)
           e == x[k + 1]
<1>10. e \in Steps /\ p \in Paths /\ SubSeq(x, 1, k + 1) = Append(p, e)
  BY <1>7, <1>9
<1>11. Append(p, e) \in DOMAIN calls /\ Within(calls[x], calls[Append(p, e)])
  BY <1>8, <1>10
<1> HIDE DEF p, e
<1>12. p \in DOMAIN calls /\ Within(calls[Append(p, e)], calls[p])
  BY <1>10, <1>11, HalvesAreWithin
<1>13. \A y \in DOMAIN calls : calls[y].from \in Nat /\ calls[y].to \in Nat
  BY DEF IInv, TypeOK, WellFormed, CallType
<1>14. Within(calls[x], calls[p])
  BY <1>11, <1>12, <1>13 DEF Within
<1> QED
  BY <1>5, <1>12, <1>14 DEF p

LEMMA PrefixesAreHalves ==
  ASSUME IInv, NEW x \in DOMAIN calls, NEW n \in 1..Len(x)
  PROVE  /\ SubSeq(x, 1, n - 1) \in DOMAIN calls /\ SubSeq(x, 1, n) \in DOMAIN calls
         /\ x[n] \in Steps /\ x[n][2] \in Sides
         /\ IsHalf(calls[SubSeq(x, 1, n)], calls[SubSeq(x, 1, n - 1)], x[n][2])
         /\ ~ Within(calls[SubSeq(x, 1, n - 1)], calls[SubSeq(x, 1, n)])
         /\ Within(calls[x], calls[SubSeq(x, 1, n)])
<1>1. x \in Paths /\ Len(x) \in Nat /\ n \in 0..Len(x)
  BY DEF IInv, TypeOK, Paths
<1> DEFINE p == SubSeq(x, 1, n - 1)
           e == x[n]
           h == SubSeq(x, 1, n)
<1>2. p \in Paths /\ e \in Steps /\ h = Append(p, e)
  BY <1>1, PrefixIsAppend
<1>3. h \in DOMAIN calls /\ Within(calls[x], calls[h])
  BY <1>1, PrefixesAreAround
<1> HIDE DEF p, e, h
<1>4. p \in DOMAIN calls /\ IsHalf(calls[h], calls[p], e[2]) /\ ~ Within(calls[p], calls[h])
  BY <1>2, <1>3, HalvesAreWithin
<1>5. e[2] \in Sides
  BY <1>2 DEF Steps
<1> QED
  BY <1>2, <1>3, <1>4, <1>5 DEF p, e, h

SameRange(c, d) == c.from = d.from /\ c.to = d.to

(* The sides taken determine the range. *)
LEMMA SidesGiveRange ==
  ASSUME IInv, NEW x \in DOMAIN calls, NEW y \in DOMAIN calls, NEW n \in Nat,
         n <= Len(x), n <= Len(y), \A i \in 1..n : x[i][2] = y[i][2]
  PROVE  SameRange(calls[SubSeq(x, 1, n)], calls[SubSeq(y, 1, n)])
<1>1. x \in Paths /\ Len(x) \in Nat /\ y \in Paths /\ Len(y) \in Nat
  BY DEF IInv, TypeOK, Paths
<1> DEFINE Good(k) == SameRange(calls[SubSeq(x, 1, k)], calls[SubSeq(y, 1, k)])
           S == {k \in 0..n : ~ Good(k)}
<1>2. SUFFICES ASSUME S # {}
               PROVE  FALSE
  <2> HIDE DEF Good
  <2>1. S = {} => Good(n)
    OBVIOUS
  <2> QED
    BY <2>1 DEF Good
<1>3. PICK k \in S : \A j \in S : k <= j
  <2>1. S \in SUBSET Nat
    OBVIOUS
  <2> HIDE DEF S
  <2> QED
    BY <1>2, <2>1, LeastExists
<1>4. k \in 0..n /\ ~ Good(k)
  BY <1>3
<1>5. Good(0)
  BY <1>1, NoPrefix DEF SameRange
<1>6. k \in 1..n /\ k - 1 \in 0..n
  BY <1>4, <1>5
<1>7. Good(k - 1)
  <2>1. k - 1 \notin S
    BY <1>3, <1>6
  <2> HIDE DEF Good
  <2> QED
    BY <1>6, <2>1
<1>8. k \in 1..Len(x) /\ k \in 1..Len(y) /\ x[k][2] = y[k][2]
  BY <1>1, <1>6
<1>9. /\ IsHalf(calls[SubSeq(x, 1, k)], calls[SubSeq(x, 1, k - 1)], x[k][2])
      /\ x[k][2] \in Sides
      /\ IsHalf(calls[SubSeq(y, 1, k)], calls[SubSeq(y, 1, k - 1)], y[k][2])
  BY <1>8, PrefixesAreHalves
<1>10. Good(k)
  <2> DEFINE a == calls[SubSeq(x, 1, k)]
             b == calls[SubSeq(y, 1, k)]
             c == calls[SubSeq(x, 1, k - 1)]
             d == calls[SubSeq(y, 1, k - 1)]
             s == x[k][2]
  <2>1. IsHalf(a, c, s) /\ IsHalf(b, d, s) /\ (s = "left" \/ s = "right") /\ SameRange(c, d)
    BY <1>7, <1>8, <1>9 DEF Sides
  <2> HIDE DEF a, b, c, d, s
  <2>2. SameRange(a, b)
    BY <2>1 DEF SameRange, IsHalf
  <2> QED
    BY <2>2 DEF a, b
<1> QED
  BY <1>4, <1>10

LEMMA DeeperIsSmaller ==
  ASSUME IInv, NEW x \in DOMAIN calls, NEW y \in DOMAIN calls, Len(x) < Len(y),
         \A i \in 1..Len(x) : x[i][2] = y[i][2]
  PROVE  ~ SameRange(calls[x], calls[y])
<1>1. x \in Paths /\ Len(x) \in Nat /\ y \in Paths /\ Len(y) \in Nat
  BY DEF IInv, TypeOK, Paths
<1> DEFINE n == Len(x)
           p == SubSeq(y, 1, n)
           h == SubSeq(y, 1, n + 1)
<1>2. SubSeq(x, 1, n) = x
  BY <1>1, WholePrefix
<1>3. SameRange(calls[SubSeq(x, 1, n)], calls[p])
  BY <1>1, SidesGiveRange
<1>4. n + 1 \in 1..Len(y) /\ n + 1 - 1 = n
  BY <1>1
<1>5. ~ Within(calls[p], calls[h]) /\ Within(calls[y], calls[h])
  <2>1. /\ ~ Within(calls[SubSeq(y, 1, n + 1 - 1)], calls[SubSeq(y, 1, n + 1)])
        /\ Within(calls[y], calls[SubSeq(y, 1, n + 1)])
    BY <1>4, PrefixesAreHalves
  <2> QED
    BY <1>4, <2>1
<1>6. SameRange(calls[x], calls[p])
  <2> DEFINE z == SubSeq(x, 1, n)
  <2>1. z = x /\ SameRange(calls[z], calls[p])
    BY <1>2, <1>3
  <2> HIDE DEF z
  <2> QED
    BY <2>1
<1> HIDE DEF n, p, h
<1> QED
  BY <1>5, <1>6 DEF SameRange, Within

(* Calls of the same range have taken the same sides. *)
LEMMA RangeGivesSides ==
  ASSUME IInv, NEW x \in DOMAIN calls, NEW y \in DOMAIN calls, SameRange(calls[x], calls[y])
  PROVE  Len(x) = Len(y) /\ \A i \in 1..Len(x) : x[i][2] = y[i][2]
<1>1. x \in Paths /\ Len(x) \in Nat /\ y \in Paths /\ Len(y) \in Nat
  BY DEF IInv, TypeOK, Paths
<1> DEFINE S == {i \in Nat : i \in 1..Len(x) /\ i \in 1..Len(y) /\ x[i][2] # y[i][2]}
<1>2. S = {}
  <2> SUFFICES ASSUME S # {}
               PROVE  FALSE
    OBVIOUS
  <2>1. PICK k \in S : \A j \in S : k <= j
    <3>1. S \in SUBSET Nat
      OBVIOUS
    <3> HIDE DEF S
    <3> QED
      BY <3>1, LeastExists
  <2>2. k \in 1..Len(x) /\ k \in 1..Len(y) /\ x[k][2] # y[k][2]
    BY <2>1
  <2>3. k - 1 \in Nat /\ k - 1 <= Len(x) /\ k - 1 <= Len(y)
    BY <1>1, <2>2
  <2>4. \A i \in 1..(k - 1) : x[i][2] = y[i][2]
    <3> SUFFICES ASSUME NEW i \in 1..(k - 1), x[i][2] # y[i][2]
                 PROVE  FALSE
      OBVIOUS
    <3>1. i \in S /\ ~ (k <= i)
      BY <1>1, <2>2
    <3> QED
      BY <2>1, <3>1
  <2>5. SameRange(calls[SubSeq(x, 1, k - 1)], calls[SubSeq(y, 1, k - 1)])
    BY <2>3, <2>4, SidesGiveRange
  <2>6. /\ IsHalf(calls[SubSeq(x, 1, k)], calls[SubSeq(x, 1, k - 1)], x[k][2])
        /\ x[k][2] \in Sides /\ y[k][2] \in Sides
        /\ IsHalf(calls[SubSeq(y, 1, k)], calls[SubSeq(y, 1, k - 1)], y[k][2])
        /\ Within(calls[x], calls[SubSeq(x, 1, k)])
        /\ Within(calls[y], calls[SubSeq(y, 1, k)])
        /\ SubSeq(x, 1, k - 1) \in DOMAIN calls
    BY <2>2, PrefixesAreHalves
  <2> DEFINE a == calls[SubSeq(x, 1, k)]
             b == calls[SubSeq(y, 1, k)]
             c == calls[SubSeq(x, 1, k - 1)]
             d == calls[SubSeq(y, 1, k - 1)]
             s == x[k][2]
             r == y[k][2]
  <2>7. /\ IsHalf(a, c, s) /\ IsHalf(b, d, r) /\ SameRange(c, d)
        /\ s \in {"left", "right"} /\ r \in {"left", "right"} /\ s # r
        /\ Within(calls[x], a) /\ Within(calls[y], b)
        /\ c.from \in Nat /\ c.to \in Nat /\ c.from < c.to
    BY <2>2, <2>5, <2>6 DEF Sides, IsHalf, IInv, TypeOK, WellFormed, CallType
  <2> HIDE DEF a, b, c, d, s, r
  <2> DEFINE m == Mid(c.from, c.to)
  <2>8. m \in Nat
    BY <2>7, MidIsBetween
  <2>9. \/ a.to = m /\ b.from = m + 1
        \/ b.to = m /\ a.from = m + 1
    BY <2>7 DEF IsHalf, SameRange
  <2> HIDE DEF m
  <2>10. /\ calls[x].from \in Nat /\ calls[x].to \in Nat /\ calls[x].from <= calls[x].to
         /\ calls[y].from = calls[x].from /\ calls[y].to = calls[x].to
    BY DEF IInv, TypeOK, WellFormed, CallType, SameRange
  <2> QED
    BY <2>7, <2>8, <2>9, <2>10 DEF Within
<1>3. \A i \in Nat : i \in 1..Len(x) /\ i \in 1..Len(y) => x[i][2] = y[i][2]
  BY <1>2
<1>4. ~ (Len(x) < Len(y))
  <2> SUFFICES ASSUME Len(x) < Len(y)
               PROVE  FALSE
    OBVIOUS
  <2>1. \A i \in 1..Len(x) : x[i][2] = y[i][2]
    BY <1>1, <1>3
  <2> QED
    BY <2>1, DeeperIsSmaller
<1>5. ~ (Len(y) < Len(x))
  <2> SUFFICES ASSUME Len(y) < Len(x)
               PROVE  FALSE
    OBVIOUS
  <2>1. \A i \in 1..Len(y) : y[i][2] = x[i][2]
    BY <1>1, <1>3
  <2>2. SameRange(calls[y], calls[x])
    BY DEF SameRange
  <2> QED
    BY <2>1, <2>2, DeeperIsSmaller
<1> QED
  BY <1>1, <1>3, <1>4, <1>5

-----------------------------------------------------------------------------
(* How often a range is asked for.                                         *)

LEMMA FunctionSetIsFinite ==
  ASSUME NEW S, NEW T, IsFiniteSet(S), IsFiniteSet(T)
  PROVE  IsFiniteSet([S -> T])
<1> DEFINE Graph == [f \in [S -> T] |-> {<<x, f[x]>> : x \in S}]
           G == SUBSET (S \X T)
<1>1. IsFiniteSet(G)
  BY FS_Product, FS_SUBSET
<1>2. \A f \in [S -> T] : Graph[f] \in G
  OBVIOUS
<1>3. \A f, g \in [S -> T] : Graph[f] = Graph[g] => f = g
  <2> SUFFICES ASSUME NEW f \in [S -> T], NEW g \in [S -> T],
                      {<<x, f[x]>> : x \in S} = {<<x, g[x]>> : x \in S},
                      NEW x \in S
               PROVE  f[x] = g[x]
    OBVIOUS
  <2>1. <<x, f[x]>> \in {<<y, f[y]>> : y \in S}
    OBVIOUS
  <2>2. PICK y \in S : <<x, f[x]>> = <<y, g[y]>>
    BY <2>1
  <2> QED
    BY <2>2
<1>4. Graph \in Injection([S -> T], G)
  <2>1. Graph \in [[S -> T] -> G]
    BY <1>2
  <2> HIDE DEF Graph
  <2> QED
    BY <1>3, <2>1 DEF Injection, IsInjective
<1> HIDE DEF Graph, G
<1> QED
  BY <1>1, <1>4, FS_Injection

LEMMA AskedIsBounded ==
  ASSUME IInv, NEW id \in DOMAIN calls
  PROVE  Asked(calls[id]) \in Nat /\ Asked(calls[id]) <= MaxRetries
<1>1. WellFormed(calls[id])
  BY DEF IInv, TypeOK
<1> QED
  BY <1>1, SearchAssumption DEF Asked, WellFormed, CallType

LEMMA RequestsBounded ==
  ASSUME IInv
  PROVE  RequestsAreBounded
<1> SUFFICES ASSUME NEW id \in DOMAIN calls
             PROVE  Cardinality(Requests(calls[id].from, calls[id].to))
                      <= Cardinality([0..Len(id) -> 1..MaxRetries])
  BY DEF RequestsAreBounded
<1> DEFINE d == Len(id)
           R == Requests(calls[id].from, calls[id].to)
           C == [0..d -> 1..MaxRetries]
<1>1. \A x \in DOMAIN calls : x \in Paths /\ Len(x) \in Nat
  BY DEF IInv, TypeOK, Paths
<1>2. d \in Nat
  BY <1>1
<1>3. ASSUME NEW q \in R
      PROVE  /\ q = <<q[1], q[2]>> /\ q[1] \in DOMAIN calls /\ q[2] \in 1..MaxRetries
             /\ SameRange(calls[q[1]], calls[id])
  <2>1. PICK x \in DOMAIN calls : SameRange(calls[x], calls[id]) /\ q \in {x} \X (1..Asked(calls[x]))
    BY <1>3 DEF Requests, SameRange
  <2>2. q = <<q[1], q[2]>> /\ q[1] = x /\ q[2] \in 1..Asked(calls[x])
    BY <2>1
  <2>3. Asked(calls[x]) \in Nat /\ Asked(calls[x]) <= MaxRetries
    BY AskedIsBounded
  <2>4. q[2] \in 1..MaxRetries
    BY <2>2, <2>3, SearchAssumption
  <2> QED
    BY <2>1, <2>2, <2>4
<1>4. ASSUME NEW x \in DOMAIN calls, SameRange(calls[x], calls[id])
      PROVE  /\ Len(x) = d /\ \A i \in 1..d : x[i][2] = id[i][2]
             /\ \A i \in 1..d : /\ x[i] \in Steps /\ x[i] = <<x[i][1], x[i][2]>>
                                /\ x[i][1] \in 0..(MaxRetries - 1)
  <2>1. Len(x) = d /\ \A i \in 1..d : x[i][2] = id[i][2]
    BY <1>4, RangeGivesSides
  <2>2. \A i \in 1..d : x[i] \in Steps
    BY <1>1, <2>1 DEF Paths
  <2>3. \A e \in Steps : e = <<e[1], e[2]>> /\ e[1] \in 0..(MaxRetries - 1)
    BY DEF Steps
  <2> QED
    BY <2>1, <2>2, <2>3
<1> DEFINE Choice(q) == [i \in 0..d |-> IF i = d THEN q[2] ELSE q[1][i + 1][1] + 1]
           Choices == [q \in R |-> Choice(q)]
<1> HIDE DEF d, R
<1>5. ASSUME NEW q \in R
      PROVE  Choice(q) \in C
  <2> SUFFICES ASSUME NEW i \in 0..d
               PROVE  (IF i = d THEN q[2] ELSE q[1][i + 1][1] + 1) \in 1..MaxRetries
    OBVIOUS
  <2>1. CASE i = d
    BY <1>3, <2>1
  <2>2. CASE i # d
    <3>1. i + 1 \in 1..d
      BY <1>2, <2>2
    <3>2. q[1][i + 1][1] \in 0..(MaxRetries - 1)
      BY <1>3, <1>4, <3>1
    <3> QED
      BY <2>2, <3>2, SearchAssumption
  <2> QED
    BY <2>1, <2>2
<1>6. ASSUME NEW q \in R, NEW r \in R, Choice(q) = Choice(r)
      PROVE  q = r
  <2> DEFINE x == q[1]
             y == r[1]
  <2>1. \A i \in 0..d : Choice(q)[i] = Choice(r)[i]
    BY <1>6
  <2>2. q[2] = r[2]
    <3>1. d \in 0..d
      BY <1>2
    <3> QED
      BY <2>1, <3>1
  <2>3. /\ x \in DOMAIN calls /\ SameRange(calls[x], calls[id])
        /\ y \in DOMAIN calls /\ SameRange(calls[y], calls[id])
        /\ q = <<x, q[2]>> /\ r = <<y, r[2]>>
    BY <1>3
  <2>4. ASSUME NEW i \in 1..d
        PROVE  x[i] = y[i]
    <3>1. i - 1 \in 0..d /\ i - 1 # d /\ (i - 1) + 1 = i
      BY <1>2
    <3>2. x[(i - 1) + 1][1] + 1 = y[(i - 1) + 1][1] + 1
      BY <2>1, <3>1
    <3>3. x[i][1] + 1 = y[i][1] + 1
      BY <3>1, <3>2
    <3> HIDE DEF x, y
    <3>4. /\ x[i][1] \in 0..(MaxRetries - 1) /\ y[i][1] \in 0..(MaxRetries - 1)
          /\ x[i][2] = y[i][2]
          /\ x[i] = <<x[i][1], x[i][2]>> /\ y[i] = <<y[i][1], y[i][2]>>
      BY <1>4, <2>3
    <3>5. x[i][1] = y[i][1]
      BY <3>3, <3>4, SearchAssumption
    <3> QED
      BY <3>4, <3>5
  <2> HIDE DEF x, y
  <2>5. x = y
    <3>1. Len(x) = d /\ Len(y) = d /\ x \in Paths /\ y \in Paths
      BY <1>1, <1>4, <2>3
    <3> QED
      BY <2>4, <3>1, SamePath
  <2> QED
    BY <2>2, <2>3, <2>5
<1> HIDE DEF Choice
<1>7. Choices \in Injection(R, C)
  <2>1. Choices \in [R -> C]
    BY <1>5
  <2>2. \A q, r \in R : Choices[q] = Choices[r] => q = r
    BY <1>6
  <2> HIDE DEF Choices, C
  <2> QED
    BY <2>1, <2>2 DEF Injection, IsInjective
<1>8. IsFiniteSet(C)
  <2>1. IsFiniteSet(0..d) /\ IsFiniteSet(1..MaxRetries)
    BY <1>2, SearchAssumption, FS_Interval
  <2> QED
    BY <2>1, FunctionSetIsFinite
<1> HIDE DEF Choices, C
<1>9. Cardinality(R) <= Cardinality(C)
  BY <1>7, <1>8, FS_Injection
<1> QED
  BY <1>9 DEF R, C, d

(* binary_search.py, _query_with_retry: whatever fails, a range that is    *)
(* reached by d halvings is asked for at most MaxRetries ^ (d + 1) times.  *)
THEOREM RequestsStayBounded == Spec => []RequestsAreBounded
BY InvHolds, RequestsBounded, PTL
=============================================================================
