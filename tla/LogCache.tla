------------------------------ MODULE LogCache ------------------------------
(***************************************************************************)
(* cache/log_cache.py: the bounded FIFO of logs with its dedup index.      *)
(*                                                                         *)
(* The RLock is held for one add(), not for a whole add_many(), so a step  *)
(* is one call of add() and the add_many() of different writers may        *)
(* interleave.  Logs are opaque; KeyOf is Log.unique_key.                  *)
(***************************************************************************)
EXTENDS Naturals, Sequences

CONSTANTS
  Logs,       (* the Log objects                                             *)
  KeyOf,      (* Log.unique_key, transaction_hash:log_index                  *)
  MaxSize,    (* CacheConfig.max_size                                        *)
  Writers,    (* who calls add_many()                                        *)
  Batches,    (* the lists add_many() is called with                         *)
  MaxAdded    (* bound: logs ever accepted                                   *)

ASSUME CacheAssumption ==
  /\ MaxSize \in Nat \ {0}
  /\ MaxAdded \in Nat
  /\ Batches \subseteq Seq(Logs)
  /\ DOMAIN KeyOf = Logs

VARIABLES
  (* The program. *)
  cache,          (* _cache, a deque(maxlen=max_size), oldest first          *)
  index,          (* the keys of _index                                      *)
  total_added,
  total_dropped,
  todo,           (* what each writer's add_many() has still to add          *)
  (* History. *)
  accepted,       (* every log add() returned True for, in order             *)
  cleared         (* how many logs clear() has removed                       *)

vars == <<cache, index, total_added, total_dropped, todo, accepted, cleared>>

-----------------------------------------------------------------------------
KeysOf(s) == {KeyOf[s[i]] : i \in DOMAIN s}

(* How many logs add() pops before it appends. *)
OverflowFault == IF Len(cache) > MaxSize THEN Len(cache) - MaxSize ELSE 0
OverflowEarlyFault == IF Len(cache) + 1 >= MaxSize THEN Len(cache) - MaxSize + 2 ELSE 0
Overflow == IF Len(cache) >= MaxSize THEN Len(cache) - MaxSize + 1 ELSE 0

(* A deque with maxlen gives up its left end when it is full. *)
PushRight(s, l) == Append(IF Len(s) = MaxSize THEN Tail(s) ELSE s, l)

EvictFault == SubSeq(cache, 1, Len(cache) - Overflow)

(* What the pops of add() leave. *)
Evict == SubSeq(cache, Overflow + 1, Len(cache))

AcceptFault(l) ==
  /\ cache' = PushRight(Evict, l)
  /\ index' = (index \ KeysOf(SubSeq(cache, 1, Overflow))) \cup {l}
  /\ total_added' = total_added + 1
  /\ total_dropped' = total_dropped + Overflow
  /\ accepted' = Append(accepted, l)

(* The part of add() for a key that is not in the index. *)
Accept(l) ==
  /\ cache' = PushRight(Evict, l)
  /\ index' = (index \ KeysOf(SubSeq(cache, 1, Overflow))) \cup {KeyOf[l]}
  /\ total_added' = total_added + 1
  /\ total_dropped' = total_dropped + Overflow
  /\ accepted' = Append(accepted, l)

(* A writer calls add_many(). *)
AddMany(w, batch) ==
  /\ todo[w] = <<>>
  /\ batch # <<>>
  /\ todo' = [todo EXCEPT ![w] = batch]
  /\ UNCHANGED <<cache, index, total_added, total_dropped, accepted, cleared>>

(* One iteration of add_many(): add() of the next log. *)
Add(w) ==
  /\ todo[w] # <<>>
  /\ total_added < MaxAdded
  /\ todo' = [todo EXCEPT ![w] = Tail(@)]
  /\ LET l == Head(todo[w])
     IN  IF KeyOf[l] \in index
         THEN UNCHANGED <<cache, index, total_added, total_dropped, accepted>>
         ELSE Accept(l)
  /\ UNCHANGED cleared

(* clear(): the counters of added and dropped logs stay as they are. *)
Clear ==
  /\ cleared' = cleared + Len(cache)
  /\ cache' = <<>>
  /\ index' = {}
  /\ UNCHANGED <<total_added, total_dropped, todo, accepted>>

Init ==
  /\ cache = <<>>
  /\ index = {}
  /\ total_added = 0
  /\ total_dropped = 0
  /\ todo = [w \in Writers |-> <<>>]
  /\ accepted = <<>>
  /\ cleared = 0

Next ==
  \/ \E w \in Writers, batch \in Batches : AddMany(w, batch)
  \/ \E w \in Writers : Add(w)
  \/ Clear

Spec == Init /\ [][Next]_vars

-----------------------------------------------------------------------------
(* The state of the cache is of the expected type. *)
TypeOK ==
  /\ cache \in Seq(Logs)
  /\ index \subseteq KeysOf(accepted)
  /\ total_added \in Nat
  /\ total_dropped \in Nat
  /\ todo \in [Writers -> Seq(Logs)]
  /\ accepted \in Seq(Logs)
  /\ cleared \in Nat

(* The index holds the keys of the cached logs, no more and no fewer, and  *)
(* no key is cached twice: evictions, which only know the log they pop,    *)
(* never leave a key behind that would shut a log out for good.            *)
Coherent ==
  /\ index = KeysOf(cache)
  /\ \A i, j \in DOMAIN cache : KeyOf[cache[i]] = KeyOf[cache[j]] => i = j

(* The cache never holds more than max_size logs, and it holds exactly the *)
(* newest of the accepted ones, in the order they came in; the counters    *)
(* account for each log that is gone.                                      *)
KeepsNewest ==
  /\ Len(cache) <= MaxSize
  /\ total_added = Len(accepted)
  /\ cache = SubSeq(accepted, total_dropped + cleared + 1, total_added)

(* A log is given up only by the add() that needs its place, one for one. *)
EvictsOneForOne ==
  [][total_dropped' # total_dropped =>
       /\ Len(cache) = MaxSize
       /\ total_dropped' = total_dropped + 1
       /\ total_added' = total_added + 1]_vars
=============================================================================
