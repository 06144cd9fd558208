--------------------------- MODULE LogCacheProofs ---------------------------
(***************************************************************************)
(* What holds of LogCache for every cache size, any writers and any lists, *)
(* and of LogPaging for any clients.                                       *)
(*                                                                         *)
(* TypeOK and KeepsNewest are inductive together.  They give what add()    *)
(* relies on without checking it, that at most one log is popped and that  *)
(* the deque never drops one by itself; Coherent rests on that.  Paging    *)
(* does not change the cache, so all this holds of LogPaging as well.      *)
(***************************************************************************)
EXTENDS LogPaging, SequenceTheorems, FiniteSetTheorems, TLAPS

(* The types TypeOK states, without the index, which Coherent pins down. *)
Shape ==
  /\ cache \in Seq(Logs)
  /\ total_added \in Nat
  /\ total_dropped \in Nat
  /\ todo \in [Writers -> Seq(Logs)]
  /\ accepted \in Seq(Logs)
  /\ cleared \in Nat

(* KeepsNewest, position by position. *)
Window ==
  /\ Len(cache) <= MaxSize
  /\ total_added = Len(accepted)
  /\ total_dropped + cleared + Len(cache) = total_added
  /\ \A i \in 1..Len(cache) : cache[i] = accepted[total_dropped + cleared + i]

IInv == Shape /\ Window /\ Coherent

-----------------------------------------------------------------------------
(* A suffix is the sequence of its elements. *)
LEMMA WindowIsSuffix ==
  ASSUME Shape, Window
  PROVE  KeepsNewest
<1> DEFINE gone == total_dropped + cleared
<1>1. /\ gone \in Nat /\ Len(cache) \in Nat /\ Len(accepted) = gone + Len(cache)
      /\ cache \in Seq(Logs) /\ accepted \in Seq(Logs)
  BY LenProperties DEF Shape, Window
<1>2. \A i \in gone + 1 .. total_added : accepted[i] \in Logs
  BY <1>1, ElementOfSeq DEF Window, Shape
<1> DEFINE tail == SubSeq(accepted, gone + 1, total_added)
<1>3. /\ tail \in Seq(Logs)
      /\ Len(tail) = IF gone + 1 <= total_added THEN total_added - (gone + 1) + 1 ELSE 0
      /\ \A i \in 1 .. total_added - (gone + 1) + 1 : tail[i] = accepted[gone + 1 + i - 1]
  <2>1. gone + 1 \in Int /\ total_added \in Int
    BY <1>1 DEF Shape
  <2> QED
    BY <2>1, <1>2, SubSeqProperties
<1>4. Len(tail) = Len(cache)
  BY <1>1, <1>3 DEF Window, Shape
<1>5. \A i \in 1..Len(cache) : cache[i] = tail[i]
  <2> SUFFICES ASSUME NEW i \in 1..Len(cache) PROVE cache[i] = tail[i]
    OBVIOUS
  <2>1. i \in 1 .. total_added - (gone + 1) + 1 /\ gone + 1 + i - 1 = gone + i
    BY <1>1 DEF Window, Shape
  <2>2. tail[i] = accepted[gone + i]
    BY <2>1, <1>3
  <2> QED
    BY <2>2 DEF Window
<1> HIDE DEF tail
<1>6. cache = tail
  BY <1>1, <1>3, <1>4, <1>5, SeqEqual
<1> QED
  BY <1>6 DEF tail, KeepsNewest, Window

(* What add() pops: nothing, or the single oldest log of a full cache. *)
LEMMA PopsAtMostOne ==
  ASSUME Shape, Window
  PROVE  /\ Len(cache) \in Nat
         /\ Overflow = IF Len(cache) = MaxSize THEN 1 ELSE 0
         /\ Evict \in Seq(Logs)
         /\ Len(Evict) = Len(cache) - Overflow
         /\ Len(Evict) < MaxSize
         /\ \A i \in 1..Len(Evict) : Evict[i] = cache[i + Overflow]
<1>1. Len(cache) \in Nat /\ MaxSize \in Nat \ {0} /\ Len(cache) <= MaxSize
  BY CacheAssumption, LenProperties DEF Shape, Window
<1>2. Overflow = IF Len(cache) = MaxSize THEN 1 ELSE 0
  BY <1>1 DEF Overflow
<1>3. Overflow \in 0..Len(cache) /\ Len(cache) - Overflow < MaxSize
  BY <1>1, <1>2
<1> HIDE DEF Overflow
<1>4. \A i \in Overflow + 1 .. Len(cache) : cache[i] \in Logs
  BY <1>1, <1>3, ElementOfSeq DEF Shape
<1>5. /\ Evict \in Seq(Logs)
      /\ Len(Evict) = IF Overflow + 1 <= Len(cache) THEN Len(cache) - (Overflow + 1) + 1 ELSE 0
      /\ \A i \in 1 .. Len(cache) - (Overflow + 1) + 1 : Evict[i] = cache[Overflow + 1 + i - 1]
  <2>1. Overflow + 1 \in Int /\ Len(cache) \in Int
    BY <1>1, <1>3
  <2> QED
    BY <2>1, <1>4, SubSeqProperties DEF Evict
<1>6. Len(Evict) = Len(cache) - Overflow
  BY <1>1, <1>3, <1>5
<1>7. \A i \in 1..Len(Evict) : Evict[i] = cache[i + Overflow]
  <2> SUFFICES ASSUME NEW i \in 1..Len(Evict) PROVE Evict[i] = cache[i + Overflow]
    OBVIOUS
  <2>1. i \in 1 .. Len(cache) - (Overflow + 1) + 1 /\ Overflow + 1 + i - 1 = i + Overflow
    BY <1>1, <1>3, <1>6
  <2> QED
    BY <2>1, <1>5
<1> QED
  BY <1>1, <1>2, <1>3, <1>5, <1>6, <1>7

(* The next cache after an accepted log, position by position. *)
LEMMA Appended ==
  ASSUME NEW S, NEW s \in Seq(S), NEW l \in S
  PROVE  /\ Append(s, l) \in Seq(S)
         /\ Len(Append(s, l)) = Len(s) + 1
         /\ \A i \in 1..Len(s) : Append(s, l)[i] = s[i]
         /\ Append(s, l)[Len(s) + 1] = l
OBVIOUS

LEMMA AcceptKeepsWindow ==
  ASSUME Shape, Window, NEW l \in Logs, Accept(l), UNCHANGED cleared
  PROVE  /\ cache' \in Seq(Logs) /\ accepted' \in Seq(Logs)
         /\ total_added' \in Nat /\ total_dropped' \in Nat
         /\ cache' = Append(Evict, l)
         /\ Window'
<1>1. /\ Len(cache) \in Nat
      /\ Overflow = IF Len(cache) = MaxSize THEN 1 ELSE 0
      /\ Evict \in Seq(Logs)
      /\ Len(Evict) = Len(cache) - Overflow
      /\ Len(Evict) < MaxSize
      /\ \A i \in 1..Len(Evict) : Evict[i] = cache[i + Overflow]
  BY PopsAtMostOne
<1>2. Overflow \in Nat /\ MaxSize \in Nat /\ Len(Evict) \in Nat
  BY <1>1, CacheAssumption, LenProperties
<1> HIDE DEF Overflow, Evict
<1>3. cache' = Append(Evict, l)
  BY <1>1, <1>2 DEF Accept, PushRight
<1>4. /\ cache' \in Seq(Logs)
      /\ Len(cache') = Len(Evict) + 1
      /\ \A i \in 1..Len(Evict) : cache'[i] = Evict[i]
      /\ cache'[Len(Evict) + 1] = l
  BY <1>1, <1>3, Appended
<1>5. /\ accepted' \in Seq(Logs)
      /\ Len(accepted') = Len(accepted) + 1
      /\ \A i \in 1..Len(accepted) : accepted'[i] = accepted[i]
      /\ accepted'[Len(accepted) + 1] = l
  BY Appended DEF Accept, Shape
<1>6. /\ total_added' = total_added + 1 /\ total_dropped' = total_dropped + Overflow
      /\ cleared' = cleared
  BY DEF Accept
<1>7. /\ total_added \in Nat /\ total_dropped \in Nat /\ cleared \in Nat
      /\ total_added = Len(accepted)
      /\ total_dropped + cleared + Len(cache) = total_added
  BY DEF Shape, Window
<1>8. /\ Len(cache') <= MaxSize
      /\ total_added' = Len(accepted')
      /\ total_dropped' + cleared' + Len(cache') = total_added'
  <2>1. Len(cache') = Len(Evict) + 1 /\ Len(accepted') = Len(accepted) + 1
    BY <1>4, <1>5
  <2>2. Len(Evict) = Len(cache) - Overflow /\ Len(Evict) < MaxSize /\ Len(cache) \in Nat
    BY <1>1
  <2> QED
    BY <2>1, <2>2, <1>2, <1>6, <1>7
<1>9. ASSUME NEW i \in 1..Len(cache')
      PROVE  cache'[i] = accepted'[total_dropped' + cleared' + i]
  <2>1. CASE i = Len(Evict) + 1
    <3>1. total_dropped' + cleared' + i = Len(accepted) + 1
      <4>1. Len(Evict) = Len(cache) - Overflow /\ Len(cache) \in Nat
        BY <1>1
      <4> QED
        BY <2>1, <4>1, <1>2, <1>6, <1>7
    <3> QED
      BY <2>1, <3>1, <1>4, <1>5
  <2>2. CASE i # Len(Evict) + 1
    <3>1. i \in 1..Len(Evict) /\ i + Overflow \in 1..Len(cache)
      BY <2>2, <1>1, <1>2, <1>4
    <3>2. cache'[i] = accepted[total_dropped + cleared + (i + Overflow)]
      BY <3>1, <1>1, <1>4 DEF Window
    <3>3. /\ total_dropped + cleared + (i + Overflow) \in 1..Len(accepted)
          /\ total_dropped + cleared + (i + Overflow) = total_dropped' + cleared' + i
      BY <3>1, <1>1, <1>2, <1>6, <1>7
    <3> QED
      BY <3>2, <3>3, <1>5
  <2> QED
    BY <2>1, <2>2
<1>10. Window'
  BY <1>8, <1>9 DEF Window
<1>11. total_added' \in Nat /\ total_dropped' \in Nat
  BY <1>2, <1>6, <1>7
<1> QED
  BY <1>3, <1>4, <1>5, <1>10, <1>11

(* The popped log's key leaves the index and the new key joins it. *)
LEMMA AcceptKeepsCoherent ==
  ASSUME Shape, Window, Coherent, NEW l \in Logs, Accept(l), UNCHANGED cleared,
         KeyOf[l] \notin index
  PROVE  Coherent'
<1>1. /\ Len(cache) \in Nat
      /\ Overflow = IF Len(cache) = MaxSize THEN 1 ELSE 0
      /\ Evict \in Seq(Logs)
      /\ Len(Evict) = Len(cache) - Overflow
      /\ \A i \in 1..Len(Evict) : Evict[i] = cache[i + Overflow]
  BY PopsAtMostOne
<1>2. Overflow \in 0..Len(cache) /\ Len(Evict) \in Nat
  BY <1>1, CacheAssumption, LenProperties
<1>3. cache' = Append(Evict, l)
  BY AcceptKeepsWindow
<1> HIDE DEF Overflow, Evict
<1>4. /\ cache' \in Seq(Logs)
      /\ Len(cache') = Len(Evict) + 1
      /\ \A i \in 1..Len(Evict) : cache'[i] = cache[i + Overflow]
      /\ cache'[Len(Evict) + 1] = l
  BY <1>1, <1>3, Appended
<1>5. /\ DOMAIN cache = 1..Len(cache) /\ DOMAIN cache' = 1..Len(cache')
      /\ index = {KeyOf[cache[i]] : i \in 1..Len(cache)}
      /\ \A i, j \in 1..Len(cache) : KeyOf[cache[i]] = KeyOf[cache[j]] => i = j
  BY <1>4, LenProperties DEF Shape, Coherent, KeysOf
<1> DEFINE popped == KeysOf(SubSeq(cache, 1, Overflow))
<1>6. popped = {KeyOf[cache[i]] : i \in 1..Overflow}
  <2>1. \A i \in 1..Overflow : cache[i] \in Logs
    BY <1>2, <1>1, ElementOfSeq DEF Shape
  <2>2. /\ SubSeq(cache, 1, Overflow) \in Seq(Logs)
        /\ Len(SubSeq(cache, 1, Overflow)) = IF 1 <= Overflow THEN Overflow - 1 + 1 ELSE 0
        /\ \A i \in 1 .. Overflow - 1 + 1 : SubSeq(cache, 1, Overflow)[i] = cache[1 + i - 1]
    <3>1. 1 \in Int /\ Overflow \in Int
      BY <1>2
    <3> QED
      BY <3>1, <2>1, SubSeqProperties
  <2>3. /\ DOMAIN SubSeq(cache, 1, Overflow) = 1..Overflow
        /\ \A i \in 1..Overflow : SubSeq(cache, 1, Overflow)[i] = cache[i]
    BY <2>2, <1>2, LenProperties
  <2> QED
    BY <2>3 DEF KeysOf
<1> HIDE DEF popped
<1>7. index' = (index \ popped) \cup {KeyOf[l]}
  BY DEF Accept, popped
<1>8. ASSUME NEW k
      PROVE  k \in index' <=> k \in {KeyOf[cache'[i]] : i \in 1..Len(cache')}
  <2>1. ASSUME k \in index' PROVE \E i \in 1..Len(cache') : k = KeyOf[cache'[i]]
    <3>1. CASE k = KeyOf[l]
      <4>1. Len(Evict) + 1 \in 1..Len(cache')
        BY <1>2, <1>4
      <4> QED
        BY <3>1, <4>1, <1>4
    <3>2. CASE k \in index \ popped
      <4>1. PICK i \in 1..Len(cache) : k = KeyOf[cache[i]]
        BY <3>2, <1>5
      <4>2. i \notin 1..Overflow
        BY <3>2, <4>1, <1>6
      <4>3. /\ i - Overflow \in 1..Len(Evict) /\ (i - Overflow) + Overflow = i
            /\ i - Overflow \in 1..Len(cache')
        BY <4>2, <1>1, <1>2, <1>4
      <4>4. cache'[i - Overflow] = cache[i]
        BY <4>3, <1>4
      <4> QED
        BY <4>1, <4>3, <4>4
    <3> QED
      BY <2>1, <3>1, <3>2, <1>7
  <2>2. ASSUME NEW i \in 1..Len(cache'), k = KeyOf[cache'[i]] PROVE k \in index'
    <3>1. CASE i = Len(Evict) + 1
      BY <2>2, <3>1, <1>4, <1>7
    <3>2. CASE i # Len(Evict) + 1
      <4>1. i \in 1..Len(Evict) /\ i + Overflow \in 1..Len(cache) /\ i + Overflow \notin 1..Overflow
        BY <3>2, <1>1, <1>2, <1>4
      <4>2. k = KeyOf[cache[i + Overflow]]
        BY <4>1, <2>2, <1>4
      <4>3. k \in index
        BY <4>1, <4>2, <1>5
      <4>4. k \notin popped
        <5> SUFFICES ASSUME NEW j \in 1..Overflow, k = KeyOf[cache[j]] PROVE FALSE
          BY <1>6
        <5>1. j \in 1..Len(cache) /\ j # i + Overflow
          BY <4>1, <1>2
        <5> QED
          BY <5>1, <4>1, <4>2, <1>5
      <4> QED
        BY <4>3, <4>4, <1>7
    <3> QED
      BY <3>1, <3>2
  <2> QED
    BY <2>1, <2>2
<1>9. index' = {KeyOf[cache'[i]] : i \in 1..Len(cache')}
  BY <1>8
<1>10. ASSUME NEW i \in 1..Len(cache'), NEW j \in 1..Len(cache'),
              KeyOf[cache'[i]] = KeyOf[cache'[j]]
       PROVE  i = j
  <2>1. ASSUME NEW m \in 1..Len(Evict) PROVE KeyOf[cache'[m]] # KeyOf[l]
    <3>1. m + Overflow \in 1..Len(cache) /\ cache'[m] = cache[m + Overflow]
      BY <1>1, <1>2, <1>4
    <3> QED
      BY <3>1, <1>5
  <2>2. CASE i \in 1..Len(Evict) /\ j \in 1..Len(Evict)
    <3>1. /\ i + Overflow \in 1..Len(cache) /\ cache'[i] = cache[i + Overflow]
          /\ j + Overflow \in 1..Len(cache) /\ cache'[j] = cache[j + Overflow]
      BY <2>2, <1>1, <1>2, <1>4
    <3>2. i + Overflow = j + Overflow
      BY <3>1, <1>10, <1>5
    <3> QED
      BY <3>2, <1>2
  <2>3. CASE i = Len(Evict) + 1 \/ j = Len(Evict) + 1
    BY <2>1, <2>3, <1>10, <1>2, <1>4
  <2> QED
    BY <2>2, <2>3, <1>2, <1>4
<1> QED
  BY <1>5, <1>9, <1>10 DEF Coherent, KeysOf

-----------------------------------------------------------------------------
LEMMA InitEstablishes == Init => IInv
<1> SUFFICES ASSUME Init PROVE IInv
  OBVIOUS
<1>1. /\ <<>> \in Seq(Logs) /\ Len(<<>>) = 0 /\ DOMAIN <<>> = {}
  OBVIOUS
<1>2. Shape
  BY <1>1 DEF Init, Shape
<1>3. Window
  BY <1>1, CacheAssumption DEF Init, Window
<1>4. Coherent
  BY <1>1 DEF Init, Coherent, KeysOf
<1> QED
  BY <1>2, <1>3, <1>4 DEF IInv

LEMMA StepPreserves == IInv /\ [Next]_vars => IInv'
<1> SUFFICES ASSUME IInv, [Next]_vars PROVE IInv'
  OBVIOUS
<1> USE DEF IInv
<1>1. ASSUME NEW w \in Writers, NEW batch \in Batches, AddMany(w, batch) PROVE IInv'
  <2>1. Shape'
    BY <1>1, CacheAssumption DEF AddMany, Shape
  <2>2. Window' /\ Coherent'
    BY <1>1 DEF AddMany, Window, Coherent, KeysOf
  <2> QED
    BY <2>1, <2>2
<1>2. ASSUME NEW w \in Writers, Add(w) PROVE IInv'
  <2> DEFINE l == Head(todo[w])
  <2>1. todo[w] \in Seq(Logs) /\ todo[w] # <<>>
    BY <1>2 DEF Add, Shape
  <2>2. l \in Logs /\ Tail(todo[w]) \in Seq(Logs)
    BY <2>1, HeadTailProperties
  <2>3. todo' \in [Writers -> Seq(Logs)]
    BY <1>2, <2>2 DEF Add, Shape
  <2>4. UNCHANGED cleared
    BY <1>2 DEF Add
  <2> HIDE DEF l
  <2>5. CASE KeyOf[l] \in index
    <3>1. UNCHANGED <<cache, index, total_added, total_dropped, accepted>>
      BY <1>2, <2>5 DEF Add, l
    <3> QED
      BY <3>1, <2>3, <2>4 DEF Shape, Window, Coherent, KeysOf
  <2>6. CASE KeyOf[l] \notin index
    <3>1. Accept(l)
      BY <1>2, <2>6 DEF Add, l
    <3>2. /\ cache' \in Seq(Logs) /\ accepted' \in Seq(Logs)
          /\ total_added' \in Nat /\ total_dropped' \in Nat
          /\ Window'
      BY <3>1, <2>2, <2>4, AcceptKeepsWindow
    <3>3. Coherent'
      BY <3>1, <2>2, <2>4, <2>6, AcceptKeepsCoherent
    <3> QED
      BY <3>2, <3>3, <2>3, <2>4 DEF Shape
  <2> QED
    BY <2>5, <2>6
<1>3. CASE Clear
  <2>1. /\ cache' = <<>> /\ index' = {} /\ cleared' = cleared + Len(cache)
        /\ UNCHANGED <<total_added, total_dropped, todo, accepted>>
    BY <1>3 DEF Clear
  <2>2. <<>> \in Seq(Logs) /\ Len(<<>>) = 0 /\ DOMAIN <<>> = {} /\ Len(cache) \in Nat
    BY LenProperties DEF Shape
  <2>3. Shape'
    BY <2>1, <2>2 DEF Shape
  <2>4. Window'
    <3>1. Len(cache') = 0 /\ 0 <= MaxSize
      BY <2>1, <2>2, CacheAssumption
    <3>2. total_added' = Len(accepted') /\ total_dropped' + cleared' + 0 = total_added'
      <4>1. /\ total_dropped \in Nat /\ cleared \in Nat /\ total_added = Len(accepted)
            /\ total_dropped + cleared + Len(cache) = total_added
        BY DEF Window, Shape
      <4> QED
        BY <2>1, <2>2, <4>1
    <3> QED
      BY <3>1, <3>2 DEF Window
  <2>5. Coherent'
    BY <2>1, <2>2 DEF Coherent, KeysOf
  <2> QED
    BY <2>3, <2>4, <2>5
<1>4. CASE UNCHANGED vars
  BY <1>4 DEF vars, Shape, Window, Coherent, KeysOf
<1> QED
  BY <1>1, <1>2, <1>3, <1>4 DEF Next

LEMMA Inductive == Spec => []IInv
BY InitEstablishes, StepPreserves, PTL DEF Spec

-----------------------------------------------------------------------------
(* log_cache.py, add(): the state stays of its type, and every key of the  *)
(* index is the key of a log that was accepted.                            *)
THEOREM TypeCorrect == Spec => []TypeOK
<1>1. IInv => TypeOK
  <2> SUFFICES ASSUME IInv PROVE TypeOK
    OBVIOUS
  <2>1. index \subseteq KeysOf(accepted)
    <3> SUFFICES ASSUME NEW k \in index PROVE k \in KeysOf(accepted)
      OBVIOUS
    <3>1. PICK i \in DOMAIN cache : k = KeyOf[cache[i]]
      BY DEF IInv, Coherent, KeysOf
    <3>2. /\ i \in 1..Len(cache) /\ Len(cache) \in Nat /\ DOMAIN accepted = 1..Len(accepted)
      BY <3>1, LenProperties DEF IInv, Shape
    <3>3. /\ total_dropped + cleared + i \in DOMAIN accepted
          /\ cache[i] = accepted[total_dropped + cleared + i]
      BY <3>2 DEF IInv, Shape, Window
    <3> QED
      BY <3>1, <3>3 DEF KeysOf
  <2> QED
    BY <2>1 DEF IInv, Shape, TypeOK
<1> QED
  BY <1>1, Inductive, PTL

(* log_cache.py, add() and clear(): deque and index always agree, and no   *)
(* key is cached twice.                                                    *)
THEOREM IndexIsCoherent == Spec => []Coherent
<1>1. IInv => Coherent
  BY DEF IInv
<1> QED
  BY <1>1, Inductive, PTL

(* log_cache.py, add(): the cache is bounded and is the newest stretch of  *)
(* the accepted logs.                                                      *)
THEOREM CacheKeepsNewest == Spec => []KeepsNewest
<1>1. IInv => KeepsNewest
  BY WindowIsSuffix DEF IInv
<1> QED
  BY <1>1, Inductive, PTL

(* log_cache.py, add(): one accepted log costs at most one cached log, and *)
(* only a full cache gives one up.                                         *)
THEOREM EvictionIsOneForOne == Spec => EvictsOneForOne
<1>1. ASSUME IInv, [Next]_vars, total_dropped' # total_dropped
      PROVE  /\ Len(cache) = MaxSize
             /\ total_dropped' = total_dropped + 1
             /\ total_added' = total_added + 1
  <2>1. PICK w \in Writers : Add(w)
    BY <1>1 DEF Next, AddMany, Clear, vars
  <2>2. total_dropped' = total_dropped + Overflow /\ total_added' = total_added + 1
    BY <2>1, <1>1 DEF Add, Accept
  <2>3. Overflow = IF Len(cache) = MaxSize THEN 1 ELSE 0
    BY <1>1, PopsAtMostOne DEF IInv
  <2>4. total_dropped \in Nat
    BY <1>1 DEF IInv, Shape
  <2> QED
    BY <1>1, <2>2, <2>3, <2>4
<1>2. IInv /\ [Next]_vars =>
        [total_dropped' # total_dropped =>
           /\ Len(cache) = MaxSize
           /\ total_dropped' = total_dropped + 1
           /\ total_added' = total_added + 1]_vars
  BY <1>1
<1> QED
  BY <1>2, Inductive, PTL DEF Spec, EvictsOneForOne
-----------------------------------------------------------------------------
(* The middleware a request passes before it reaches the cache. *)

(* auth_middleware.py, dispatch: a handler of a protected path runs only   *)
(* with the user of a sound bearer token that has not expired; the second  *)
(* look at exp, in whatever time zone, never lets one more through.        *)
THEOREM ProtectedNeedsToken ==
  ASSUME NEW path, path \notin PublicPaths, NEW h \in HeaderType, NEW now \in Nat,
         dispatch(path, h, now) # "refused"
  PROVE  /\ dispatch(path, h, now) = "user"
         /\ h.form = "bearer" /\ h.sound
         /\ h.exp # NoExpiry => now < h.exp
<1>1. h.form = "bearer" /\ verify_token(h, now)
  BY DEF dispatch
<1> QED
  BY <1>1 DEF dispatch, verify_token, Decodes

(* auth_middleware.py, dispatch: a public path is served whatever header   *)
(* comes along, expired, malformed or forged.                              *)
THEOREM PublicIsServed ==
  ASSUME NEW path \in PublicPaths, NEW h \in HeaderType, NEW now \in Nat
  PROVE  dispatch(path, h, now) \in {"user", "anonymous"}
  BY DEF dispatch

(* auth_middleware.py, verify_token: east of Greenwich and on hosts that   *)
(* keep UTC the second look at exp refuses no token jwt.decode accepts.    *)
THEOREM EastAcceptsValidTokens ==
  ASSUME NEW h \in HeaderType, NEW now \in Nat, Offset >= 0, Decodes(h, now)
  PROVE  verify_token(h, now)
<1>1. ASSUME h.exp # NoExpiry PROVE Apparent(now) <= h.exp
  <2>1. h.exp \in Nat /\ now < h.exp
    BY <1>1 DEF HeaderType, Decodes
  <2> QED
    BY <2>1, AuthAssumption DEF Apparent
<1> QED
  BY <1>1 DEF verify_token

(* auth_middleware.py, verify_token: west of it every token is refused for *)
(* the last -Offset seconds of its life, one that lives no longer than     *)
(* that from the beginning.                                                *)
THEOREM WestRefusesEarly ==
  ASSUME NEW h \in HeaderType, NEW now \in Nat, Offset < 0,
         h.exp # NoExpiry, h.exp < now - Offset
  PROVE  ~verify_token(h, now)
<1>1. h.exp \in Nat
  BY DEF HeaderType
<1>2. ~(Apparent(now) <= h.exp)
  BY <1>1, AuthAssumption DEF Apparent
<1> QED
  BY <1>2 DEF verify_token

-----------------------------------------------------------------------------
(* log_routes.py, get_logs: clients that page only read.  Whatever they    *)
(* do, the cache behaves as if nobody asked, so what is proved of Spec     *)
(* above holds while they page.                                            *)
THEOREM PagingOnlyReads == PSpec => Spec
<1>1. PInit => Init
  BY DEF PInit
<1>2. [PNext]_pvars => [Next]_vars
  BY DEF PNext, pvars, Next, Deliver, CacheStep, Begin, Expire, Renew, GetPage
<1> QED
  BY <1>1, <1>2, PTL DEF PSpec, Spec

(* A cached log has its places, and there are finitely many. *)
LEMMA FoundIsFinite ==
  ASSUME Shape, NEW c
  PROVE  IsFiniteSet(Found(c)) /\ Cardinality(Found(c)) \in Nat
<1>1. Len(cache) \in Nat /\ DOMAIN cache = 1..Len(cache)
  BY LenProperties DEF Shape
<1> DEFINE f == [i \in 1..Len(cache) |-> cache[i]]
<1>2. f \in Surjection(1..Len(cache), Cached)
  BY <1>1 DEF Cached, Surjection
<1>3. IsFiniteSet(1..Len(cache))
  BY <1>1, FS_Interval
<1> HIDE DEF f
<1>4. IsFiniteSet(Cached)
  BY <1>2, <1>3, FS_Surjection
<1>5. Found(c) \in SUBSET Cached
  BY DEF Found
<1> QED
  BY <1>4, <1>5, FS_Subset, FS_CardinalityType

(* query() clamps the size. *)
LEMMA SizeIsClamped ==
  ASSUME NEW n \in Nat
  PROVE  PageSize(n) \in 1..PageLimit /\ (n \in 1..PageLimit => PageSize(n) = n)
BY PagingAssumption DEF PageSize

LEMMA PageEnds ==
  ASSUME NEW p \in Nat, p > 0, NEW s \in Nat, s > 0
  PROVE  /\ p * s \in Nat /\ (p - 1) * s \in Nat
         /\ p * s = (p - 1) * s + s
OBVIOUS

(* A page is the stretch of the listing between its two ends. *)
LEMMA PageIsStretch ==
  ASSUME Shape, NEW c, NEW n \in Nat, NEW p \in Nat, p > 0
  PROVE  LET all == Cardinality(Found(c))
             lo  == (p - 1) * PageSize(n)
             hi  == Lesser(p * PageSize(n), all)
         IN  /\ Len(Page(c, p, n)) = IF lo < hi THEN hi - lo ELSE 0
             /\ DOMAIN Page(c, p, n) = 1..Len(Page(c, p, n))
             /\ \A j \in 1 .. hi - lo : Page(c, p, n)[j] = Listing(c)[lo + j]
<1> DEFINE all == Cardinality(Found(c))
           s   == PageSize(n)
           lo  == (p - 1) * s
           hi  == Lesser(p * s, all)
           S   == {Listing(c)[i] : i \in 1..all}
<1>1. all \in Nat
  BY FoundIsFinite
<1>2. s \in Nat /\ s > 0
  BY SizeIsClamped, PagingAssumption
<1> HIDE DEF s, all
<1>3. p * s \in Nat /\ lo \in Nat
  BY <1>2, PageEnds
<1>4. hi \in Nat /\ hi <= all
  <2> HIDE DEF lo
  <2> QED
    BY <1>1, <1>3 DEF Lesser
<1>5. DOMAIN Listing(c) = 1..all
  BY DEF Listing, all
<1>6. Len(Listing(c)) = all
  <2> DEFINE listing == Listing(c)
  <2>1. listing \in [1..all -> S]
    BY DEF Listing, all
  <2> HIDE DEF listing, S, hi, lo
  <2>2. listing \in Seq(S) /\ DOMAIN listing = 1..all
    BY <1>1, <2>1, SeqDef
  <2>3. Len(listing) \in Nat /\ DOMAIN listing = 1..Len(listing)
    BY <2>2, LenProperties
  <2> QED
    BY <1>1, <2>2, <2>3 DEF listing
<1>7. Page(c, p, n) = SubSeq(Listing(c), lo + 1, hi)
  BY <1>6 DEF Page, s
<1> HIDE DEF lo, hi
<1>8. \A i \in lo + 1 .. hi : Listing(c)[i] \in S
  BY <1>1, <1>3, <1>4
<1> HIDE DEF S
<1> DEFINE page == SubSeq(Listing(c), lo + 1, hi)
<1>9. /\ page \in Seq(S)
      /\ Len(page) = IF lo + 1 <= hi THEN hi - (lo + 1) + 1 ELSE 0
      /\ \A i \in 1 .. hi - (lo + 1) + 1 : page[i] = Listing(c)[lo + 1 + i - 1]
  <2>1. lo + 1 \in Int /\ hi \in Int
    BY <1>3, <1>4
  <2> QED
    BY <2>1, <1>8, SubSeqProperties
<1> HIDE DEF page
<1>10. Len(page) = (IF lo < hi THEN hi - lo ELSE 0) /\ DOMAIN page = 1..Len(page)
  BY <1>3, <1>4, <1>9, LenProperties
<1>11. ASSUME NEW j \in 1 .. hi - lo PROVE page[j] = Listing(c)[lo + j]
  <2>1. j \in 1 .. hi - (lo + 1) + 1 /\ lo + 1 + j - 1 = lo + j
    BY <1>3, <1>4
  <2> QED
    BY <2>1, <1>9
<1> QED
  BY <1>7, <1>10, <1>11 DEF page, lo, hi, s, all

(* total_pages pages of s logs are enough, and one fewer are not. *)
LEMMA RoundedUpPages ==
  ASSUME NEW all \in Nat, NEW s \in Nat, s > 0
  PROVE  LET pages == (all + s - 1) \div s
         IN  /\ pages \in Nat
             /\ all <= pages * s
             /\ pages * s < all + s
<1> DEFINE t     == all + s - 1
           pages == t \div s
<1>1. t \in Nat /\ t + 1 = all + s
  OBVIOUS
<1> HIDE DEF t
<1>2. pages \in Nat /\ pages * s <= t /\ t < pages * s + s
  BY <1>1
<1> HIDE DEF pages
<1>3. pages * s \in Nat
  BY <1>2
<1>4. all <= pages * s /\ pages * s < all + s
  BY <1>1, <1>2, <1>3
<1> QED
  BY <1>2, <1>4 DEF pages, t

(* Every place of the listing is a place of some page. *)
LEMMA PlaceOnPage ==
  ASSUME NEW i \in Nat, i > 0, NEW s \in Nat, s > 0
  PROVE  \E p \in Nat, j \in 1..s : p > 0 /\ (p - 1) * s + j = i
<1> DEFINE before == i - 1
           q == before \div s
           m == before % s
<1>1. before \in Nat /\ before + 1 = i
  OBVIOUS
<1> HIDE DEF before
<1>2. q \in Nat /\ m \in 0 .. s - 1 /\ before = q * s + m
  BY <1>1
<1> HIDE DEF q, m
<1>3. m + 1 \in 1..s /\ q + 1 \in Nat /\ q + 1 > 0 /\ (q + 1) - 1 = q
  BY <1>2
<1>4. q * s + (m + 1) = i
  <2>1. q * s \in Nat
    BY <1>2
  <2> QED
    BY <2>1, <1>1, <1>2
<1> QED
  BY <1>3, <1>4

LEMMA FewerIsLess ==
  ASSUME NEW p \in Nat, NEW q \in Nat, NEW s \in Nat
  PROVE  /\ p * s \in Nat /\ q * s \in Nat
         /\ p <= q => p * s <= q * s
OBVIOUS

(* The pages of one state hold the listing, place by place. *)
LEMMA PagesAreTheListing ==
  ASSUME Shape, NEW c, NEW n \in Nat
  PROVE  /\ TotalPages(c, n) \in Nat
         /\ \A i \in 1..Cardinality(Found(c)) :
              \E p \in 1..TotalPages(c, n) :
                \E j \in DOMAIN Page(c, p, n) : /\ (p - 1) * PageSize(n) + j = i
                                               /\ Page(c, p, n)[j] = Listing(c)[i]
         /\ \A p \in 1..TotalPages(c, n) : Len(Page(c, p, n)) \in 1..PageSize(n)
<1> DEFINE all   == Cardinality(Found(c))
           s     == PageSize(n)
           pages == TotalPages(c, n)
<1>1. all \in Nat
  BY FoundIsFinite
<1>2. s \in Nat /\ s > 0
  BY SizeIsClamped, PagingAssumption
<1>3. /\ \A p \in Nat : p > 0 =>
            /\ Len(Page(c, p, n)) = IF (p - 1) * s < Lesser(p * s, all)
                                    THEN Lesser(p * s, all) - ((p - 1) * s) ELSE 0
            /\ DOMAIN Page(c, p, n) = 1..Len(Page(c, p, n))
            /\ \A j \in 1 .. Lesser(p * s, all) - ((p - 1) * s) :
                 Page(c, p, n)[j] = Listing(c)[(p - 1) * s + j]
  BY PageIsStretch
<1>4. pages \in Nat /\ all <= pages * s /\ pages * s < all + s
  <2> HIDE DEF s, all
  <2>1. pages = (all + s - 1) \div s
    BY DEF TotalPages, s, all
  <2> HIDE DEF pages
  <2> QED
    BY <1>1, <1>2, <2>1, RoundedUpPages
<1> HIDE DEF all, s, pages
<1>5. ASSUME NEW p \in 1..pages
      PROVE  /\ (p - 1) * s \in Nat /\ p * s = (p - 1) * s + s
             /\ (p - 1) * s < all
             /\ Lesser(p * s, all) \in Nat /\ (p - 1) * s < Lesser(p * s, all)
             /\ Lesser(p * s, all) <= (p - 1) * s + s
  <2>1. p \in Nat /\ p > 0
    OBVIOUS
  <2>2. p * s \in Nat /\ (p - 1) * s \in Nat /\ p * s = (p - 1) * s + s
    BY <2>1, <1>2, PageEnds
  <2>3. p * s <= pages * s /\ pages * s \in Nat
    BY <2>1, <1>2, <1>4, FewerIsLess
  <2> DEFINE lo == (p - 1) * s
             ps == p * s
             ts == pages * s
  <2>4. lo \in Nat /\ ps = lo + s /\ ps <= ts /\ ts < all + s /\ ts \in Nat
    BY <2>2, <2>3, <1>4
  <2> HIDE DEF lo, ps, ts
  <2>5. /\ lo < all
        /\ Lesser(ps, all) \in Nat /\ lo < Lesser(ps, all) /\ Lesser(ps, all) <= lo + s
    BY <2>4, <1>1, <1>2 DEF Lesser
  <2> QED
    BY <2>2, <2>5 DEF lo, ps
<1>6. ASSUME NEW p \in 1..pages PROVE Len(Page(c, p, n)) \in 1..s
  <2> DEFINE lo == (p - 1) * s
             hi == Lesser(p * s, all)
  <2>1. lo \in Nat /\ hi \in Nat /\ lo < hi /\ hi <= lo + s
    BY <1>5
  <2>2. Len(Page(c, p, n)) = IF lo < hi THEN hi - lo ELSE 0
    BY <1>3, <1>4
  <2> HIDE DEF lo, hi
  <2> QED
    BY <2>1, <2>2, <1>2
<1>7. ASSUME NEW i \in 1..all
      PROVE  \E p \in 1..pages :
               \E j \in DOMAIN Page(c, p, n) : /\ (p - 1) * s + j = i
                                              /\ Page(c, p, n)[j] = Listing(c)[i]
  <2>1. PICK p \in Nat, j \in 1..s : p > 0 /\ (p - 1) * s + j = i
    <3>1. i \in Nat /\ i > 0
      BY <1>1
    <3> QED
      BY <3>1, <1>2, PlaceOnPage
  <2>2. p \in 1..pages
    <3> SUFFICES ASSUME ~(p <= pages) PROVE FALSE
      BY <2>1
    <3>1. pages * s <= (p - 1) * s /\ (p - 1) * s \in Nat /\ pages * s \in Nat
      <4>1. p - 1 \in Nat /\ pages <= p - 1
        BY <2>1, <1>4
      <4> QED
        BY <4>1, <1>2, <1>4, FewerIsLess
    <3> DEFINE lo == (p - 1) * s
               ts == pages * s
    <3>2. lo \in Nat /\ ts \in Nat /\ ts <= lo /\ lo + j = i /\ all <= ts
      BY <3>1, <2>1, <1>4
    <3> HIDE DEF lo, ts
    <3> QED
      BY <3>2, <1>1, <1>2
  <2> DEFINE lo == (p - 1) * s
             hi == Lesser(p * s, all)
  <2>3. lo \in Nat /\ hi \in Nat /\ lo < hi /\ p * s = lo + s /\ lo + j = i
    BY <2>1, <2>2, <1>5
  <2>4. j \in 1 .. hi - lo
    <3> DEFINE ps == p * s
    <3>1. ps = lo + s /\ hi = Lesser(ps, all)
      BY <2>3
    <3> HIDE DEF lo, ps, hi
    <3> QED
      BY <3>1, <2>3, <1>1, <1>2 DEF Lesser
  <2>5. Page(c, p, n)[j] = Listing(c)[lo + j]
    BY <2>2, <2>4, <1>3, <1>4
  <2>6. Len(Page(c, p, n)) = IF lo < hi THEN hi - lo ELSE 0
    BY <2>2, <1>3, <1>4
  <2>7. DOMAIN Page(c, p, n) = 1..Len(Page(c, p, n))
    BY <2>2, <1>3, <1>4
  <2> HIDE DEF lo, hi
  <2>8. j \in DOMAIN Page(c, p, n)
    BY <2>3, <2>4, <2>6, <2>7
  <2> QED
    BY <2>2, <2>3, <2>5, <2>8 DEF lo
<1> QED
  BY <1>4, <1>6, <1>7 DEF all, s, pages

(* log_cache.py, query(), and PaginatedResult.total_pages: in every state, *)
(* whatever size is asked for, pages 1 to total_pages are the matching     *)
(* logs, each on its one place, and none of them is empty.                 *)
THEOREM PagesAreAPartition == PSpec => []PagesPartition
<1>1. IInv => PagesPartition
  <2> SUFFICES ASSUME IInv, NEW c \in Writers \cup {AnyChain}, NEW n \in Requested
               PROVE  LET listing == Listing(c)
                          pages   == [p \in 1..TotalPages(c, n) |-> Page(c, p, n)]
                      IN  /\ \A i \in DOMAIN listing :
                               \E p \in DOMAIN pages :
                                 \E j \in DOMAIN pages[p] :
                                   /\ (p - 1) * PageSize(n) + j = i
                                   /\ pages[p][j] = listing[i]
                          /\ \A p \in DOMAIN pages : Len(pages[p]) \in 1..PageSize(n)
    BY DEF PagesPartition
  <2>1. n \in Nat
    BY PagingAssumption
  <2>2. DOMAIN Listing(c) = 1..Cardinality(Found(c))
    BY DEF Listing
  <2>3. /\ \A i \in 1..Cardinality(Found(c)) :
             \E p \in 1..TotalPages(c, n) :
               \E j \in DOMAIN Page(c, p, n) : /\ (p - 1) * PageSize(n) + j = i
                                              /\ Page(c, p, n)[j] = Listing(c)[i]
        /\ \A p \in 1..TotalPages(c, n) : Len(Page(c, p, n)) \in 1..PageSize(n)
    BY <2>1, PagesAreTheListing DEF IInv
  <2> QED
    BY <2>2, <2>3
<1> QED
  BY <1>1, PagingOnlyReads, Inductive, PTL

-----------------------------------------------------------------------------
(* What a client that pages can rely on.  Chains hand their logs over in   *)
(* order, so an eviction can only take a log ahead of a wanted one away if *)
(* it is of another chain; and a wanted log that no page had yet is on one *)
(* to come, as so many logs are still ahead of it.                         *)

Waiting ==
  \A c \in Writers : \A i \in DOMAIN todo[c] :
    /\ ChainOf[todo[c][i]] = c
    /\ \A j \in DOMAIN todo[c] : i < j => RankOf[todo[c][i]] < RankOf[todo[c][j]]
    /\ \A l \in Delivered : ChainOf[l] = c => RankOf[l] < RankOf[todo[c][i]]

Stored ==
  \A i, j \in DOMAIN cache :
    i < j /\ ChainOf[cache[i]] = ChainOf[cache[j]] => RankOf[cache[i]] < RankOf[cache[j]]

Before(l, c) == {m \in Found(c) : Ahead(m, l)}

Wanted(r) == {l \in (r.had \cap Cached) \ r.seen : OfChain(l, r.chain) /\ Matches(l, r.topic)}

Excused(r, l) ==
  /\ r.chain = AnyChain
  /\ \E m \in r.had \ Cached : ChainOf[m] # ChainOf[l] /\ RankOf[m] >= RankOf[l]

ToCome(r, l) ==
  /\ r.phase = "paging"
  /\ Cardinality(Before(l, r.chain)) >= (r.page - 1) * r.size

Reading(r) ==
  /\ r = [phase |-> r.phase, chain |-> r.chain, size |-> r.size, topic |-> r.topic,
          left |-> r.left, page |-> r.page, seen |-> r.seen, had |-> r.had]
  /\ r.phase \in {"paging", "done"}
  /\ r.size \in 1..PageLimit
  /\ r.page \in Nat \ {0}
  /\ r.had \subseteq Delivered

Served(r) ==
  /\ Reading(r)
  /\ \A i, j \in DOMAIN cache : i < j /\ cache[j] \in r.had => cache[i] \in r.had
  /\ \A l \in Wanted(r) : Excused(r, l) \/ ToCome(r, l)

PInv ==
  /\ IInv
  /\ Waiting
  /\ Stored
  /\ DOMAIN client = Clients
  /\ \A k \in Clients : client[k] = Unused \/ Served(client[k])

(* Newest first is a strict total order of what is cached. *)
LEMMA AheadIsAnOrder ==
  ASSUME Shape, Coherent
  PROVE  /\ \A x \in Cached : ~Ahead(x, x)
         /\ \A x, y \in Cached : x = y \/ Ahead(x, y) \/ Ahead(y, x)
         /\ \A x, y, z \in Cached : Ahead(x, y) /\ Ahead(y, z) => Ahead(x, z)
<1>1. Len(cache) \in Nat /\ DOMAIN cache = 1..Len(cache) /\ \A i \in 1..Len(cache) : cache[i] \in Logs
  BY LenProperties, ElementOfSeq DEF Shape
<1>2. \A x \in Cached : x \in Logs /\ RankOf[x] \in Nat
  BY <1>1, PagingAssumption DEF Cached
<1>3. \A i, j \in DOMAIN cache : cache[i] = cache[j] => i = j
  BY DEF Coherent
<1>4. ASSUME NEW x \in Cached PROVE ~Ahead(x, x)
  BY <1>1, <1>2, <1>3 DEF Ahead
<1>5. ASSUME NEW x \in Cached, NEW y \in Cached PROVE x = y \/ Ahead(x, y) \/ Ahead(y, x)
  <2>1. PICK i \in DOMAIN cache : x = cache[i]
    BY DEF Cached
  <2>2. PICK j \in DOMAIN cache : y = cache[j]
    BY DEF Cached
  <2>3. i = j \/ i < j \/ j < i
    BY <1>1
  <2>4. RankOf[x] > RankOf[y] \/ RankOf[y] > RankOf[x] \/ RankOf[x] = RankOf[y]
    BY <1>2
  <2> QED
    BY <2>1, <2>2, <2>3, <2>4 DEF Ahead
<1>6. ASSUME NEW x \in Cached, NEW y \in Cached, NEW z \in Cached, Ahead(x, y), Ahead(y, z)
      PROVE  Ahead(x, z)
  <2>1. /\ RankOf[x] \in Nat /\ RankOf[y] \in Nat /\ RankOf[z] \in Nat
        /\ RankOf[x] >= RankOf[y] /\ RankOf[y] >= RankOf[z]
    BY <1>2, <1>6 DEF Ahead
  <2>2. CASE RankOf[x] > RankOf[z]
    BY <2>2 DEF Ahead
  <2>3. CASE ~(RankOf[x] > RankOf[z])
    <3>1. RankOf[x] = RankOf[y] /\ RankOf[y] = RankOf[z]
      BY <2>1, <2>3
    <3>2. PICK i \in DOMAIN cache, j \in DOMAIN cache : i < j /\ cache[i] = x /\ cache[j] = y
      BY <2>1, <3>1, <1>6 DEF Ahead
    <3>3. PICK m \in DOMAIN cache, n \in DOMAIN cache : m < n /\ cache[m] = y /\ cache[n] = z
      BY <2>1, <3>1, <1>6 DEF Ahead
    <3>4. j = m
      BY <3>2, <3>3, <1>3
    <3>5. i < n
      BY <3>2, <3>3, <3>4, <1>1
    <3> QED
      BY <3>1, <3>2, <3>3, <3>5 DEF Ahead
  <2> QED
    BY <2>2, <2>3
<1> QED
  BY <1>4, <1>5, <1>6

LEMMA BeforeIsFinite ==
  ASSUME Shape, NEW c, NEW l
  PROVE  /\ IsFiniteSet(Before(l, c))
         /\ Cardinality(Before(l, c)) \in Nat
         /\ \A T \in SUBSET Before(l, c) :
              IsFiniteSet(T) /\ Cardinality(T) <= Cardinality(Before(l, c))
<1>1. Before(l, c) \in SUBSET Found(c)
  BY DEF Before
<1> QED
  BY <1>1, FoundIsFinite, FS_Subset, FS_CardinalityType

(* More is ahead of a log that is further behind. *)
LEMMA FurtherBehind ==
  ASSUME Shape, Coherent, NEW c, NEW x \in Found(c), NEW y \in Found(c), Ahead(x, y)
  PROVE  Cardinality(Before(x, c)) < Cardinality(Before(y, c))
<1>1. Found(c) \subseteq Cached
  BY DEF Found
<1>2. x \notin Before(x, c)
  BY <1>1, AheadIsAnOrder DEF Before
<1>3. Before(x, c) \cup {x} \in SUBSET Before(y, c)
  <2>1. ASSUME NEW m \in Before(x, c) PROVE m \in Before(y, c)
    <3>1. m \in Found(c) /\ Ahead(m, x)
      BY DEF Before
    <3>2. Ahead(m, y)
      BY <3>1, <1>1, AheadIsAnOrder
    <3> QED
      BY <3>1, <3>2 DEF Before
  <2>2. x \in Before(y, c)
    BY DEF Before
  <2> QED
    BY <2>1, <2>2
<1>4. /\ IsFiniteSet(Before(x, c))
      /\ Cardinality(Before(x, c)) \in Nat /\ Cardinality(Before(y, c)) \in Nat
      /\ Cardinality(Before(x, c) \cup {x}) <= Cardinality(Before(y, c))
  BY <1>3, BeforeIsFinite
<1>5. Cardinality(Before(x, c) \cup {x}) = Cardinality(Before(x, c)) + 1
  BY <1>2, <1>4, FS_AddElement
<1> QED
  BY <1>4, <1>5

(* A log's place in the listing tells how many are ahead of it. *)
LEMMA PlaceInListing ==
  ASSUME Shape, Coherent, NEW c, NEW l \in Found(c)
  PROVE  /\ Cardinality(Before(l, c)) < Cardinality(Found(c))
         /\ Listing(c)[Cardinality(Before(l, c)) + 1] = l
<1> DEFINE n == Cardinality(Before(l, c))
<1>1. Found(c) \subseteq Cached
  BY DEF Found
<1>2. n \in Nat /\ IsFiniteSet(Before(l, c)) /\ IsFiniteSet(Found(c)) /\ Cardinality(Found(c)) \in Nat
  BY BeforeIsFinite, FoundIsFinite
<1>3. n < Cardinality(Found(c))
  <2>1. l \notin Before(l, c) /\ Before(l, c) \cup {l} \in SUBSET Found(c)
    BY <1>1, AheadIsAnOrder DEF Before
  <2>2. Cardinality(Before(l, c) \cup {l}) = n + 1
    BY <2>1, <1>2, FS_AddElement
  <2>3. Cardinality(Before(l, c) \cup {l}) <= Cardinality(Found(c))
    BY <2>1, <1>2, FS_Subset
  <2> QED
    BY <2>2, <2>3, <1>2
<1>4. ASSUME NEW m \in Found(c), Cardinality(Before(m, c)) = n PROVE m = l
  <2> SUFFICES ASSUME m # l PROVE FALSE
    OBVIOUS
  <2>1. Ahead(m, l) \/ Ahead(l, m)
    BY <1>1, AheadIsAnOrder
  <2>2. Cardinality(Before(m, c)) < n \/ n < Cardinality(Before(m, c))
    BY <2>1, FurtherBehind
  <2> QED
    BY <2>2, <1>2, <1>4
<1>5. \A m \in Found(c) : Before(m, c) = {x \in Found(c) : Ahead(x, m)}
  BY DEF Before
<1> HIDE DEF n
<1>6. n + 1 \in 1..Cardinality(Found(c)) /\ (n + 1) - 1 = n
  BY <1>2, <1>3
<1>7. Listing(c)[n + 1] = CHOOSE m \in Found(c) : Cardinality(Before(m, c)) = (n + 1) - 1
  BY <1>5, <1>6 DEF Listing
<1>8. Listing(c)[n + 1] = CHOOSE m \in Found(c) : Cardinality(Before(m, c)) = n
  BY <1>6, <1>7
<1>9. Cardinality(Before(l, c)) = n
  BY DEF n
<1>10. Listing(c)[n + 1] = l
  BY <1>4, <1>8, <1>9
<1> QED
  BY <1>3, <1>10 DEF n

(* A log that a page did not bring, though the earlier pages' number is    *)
(* ahead of it, is behind that page, and the page is not the last.         *)
LEMMA BehindThePage ==
  ASSUME Shape, Coherent, NEW c, NEW p \in Nat, p > 0, NEW n \in 1..PageLimit,
         NEW l \in Found(c), Cardinality(Before(l, c)) >= (p - 1) * n,
         \A j \in DOMAIN Page(c, p, n) : Page(c, p, n)[j] # l
  PROVE  Cardinality(Before(l, c)) >= p * n /\ ~(p >= TotalPages(c, n))
<1> DEFINE b   == Cardinality(Before(l, c))
           all == Cardinality(Found(c))
           lo  == (p - 1) * n
           ps  == p * n
           hi  == Lesser(ps, all)
<1>1. n \in Nat /\ n > 0 /\ PageSize(n) = n
  BY SizeIsClamped, PagingAssumption
<1>2. ps \in Nat /\ lo \in Nat /\ ps = lo + n
  BY <1>1, PageEnds
<1>3. b \in Nat /\ all \in Nat /\ b < all /\ lo <= b
  BY <1>2, BeforeIsFinite, FoundIsFinite, PlaceInListing
<1>4. Listing(c)[b + 1] = l
  BY PlaceInListing
<1>5. /\ Len(Page(c, p, n)) = IF lo < hi THEN hi - lo ELSE 0
      /\ DOMAIN Page(c, p, n) = 1..Len(Page(c, p, n))
      /\ \A j \in 1 .. hi - lo : Page(c, p, n)[j] = Listing(c)[lo + j]
  BY <1>1, PageIsStretch
<1>6. \A j \in DOMAIN Page(c, p, n) : Page(c, p, n)[j] # l
  OBVIOUS
<1>7. TotalPages(c, n) = (all + n - 1) \div n
  BY <1>1 DEF TotalPages
<1>8. all <= TotalPages(c, n) * n /\ TotalPages(c, n) \in Nat
  <2> HIDE DEF all
  <2> QED
    BY <1>1, <1>3, <1>7, RoundedUpPages
<1>9. hi = Lesser(ps, all)
  OBVIOUS
<1> HIDE DEF b, all, lo, hi
<1>10. ps <= b
  <2> HIDE DEF ps
  <2> SUFFICES ASSUME b < ps PROVE FALSE
    BY <1>2, <1>3
  <2>1. hi \in Nat /\ b < hi
    BY <1>2, <1>3, <1>9 DEF Lesser
  <2>2. b + 1 - lo \in 1 .. hi - lo /\ lo + (b + 1 - lo) = b + 1 /\ lo < hi
    <3> DEFINE j == (b + 1) - lo
    <3>1. j \in 1 .. hi - lo /\ lo + j = b + 1 /\ lo < hi
      BY <2>1, <1>2, <1>3
    <3> QED
      BY <2>1, <1>2, <1>3
  <2> DEFINE j == b + 1 - lo
  <2>3. Page(c, p, n)[j] = l /\ j \in DOMAIN Page(c, p, n)
    BY <2>2, <1>4, <1>5
  <2> QED
    BY <2>3, <1>6
<1>11. ~(p >= TotalPages(c, n))
  <2> SUFFICES ASSUME TotalPages(c, n) <= p PROVE FALSE
    BY <1>8
  <2>1. TotalPages(c, n) * n <= ps /\ TotalPages(c, n) * n \in Nat
    BY <1>1, <1>8, FewerIsLess
  <2> DEFINE ts == TotalPages(c, n) * n
  <2>2. ts <= ps /\ ts \in Nat /\ all <= ts
    BY <2>1, <1>8
  <2> HIDE DEF ts, ps
  <2> QED
    BY <2>2, <1>2, <1>3, <1>10
<1> QED
  BY <1>2, <1>3, <1>10, <1>11 DEF b, ps

(* What an accepted log changes: at most the oldest log goes, the others   *)
(* keep their order, and the new one is the last.                          *)
LEMMA AcceptedLast ==
  ASSUME Shape, Window, Coherent, NEW l \in Logs, Accept(l), UNCHANGED cleared,
         l \notin Delivered
  PROVE  /\ Cached \subseteq Delivered
         /\ Delivered' = Delivered \cup {l}
         /\ Cached' \subseteq Cached \cup {l}
         /\ \A m \in Cached \ Cached' : 1 \in DOMAIN cache /\ m = cache[1]
         /\ \E shift \in {0, 1} :
              /\ \A j \in DOMAIN cache' : \/ j + shift \in DOMAIN cache /\ cache'[j] = cache[j + shift]
                                          \/ cache'[j] = l /\ \A i \in DOMAIN cache' : i <= j
              /\ \A j \in DOMAIN cache : j > shift =>
                   j - shift \in DOMAIN cache' /\ cache'[j - shift] = cache[j]
              /\ \A j \in DOMAIN cache : j <= shift => cache[j] \notin Cached'
<1> DEFINE shift == Overflow
<1>1. /\ Len(cache) \in Nat
      /\ shift = IF Len(cache) = MaxSize THEN 1 ELSE 0
      /\ Evict \in Seq(Logs)
      /\ Len(Evict) = Len(cache) - shift
      /\ \A i \in 1..Len(Evict) : Evict[i] = cache[i + shift]
  BY PopsAtMostOne
<1>2. shift \in {0, 1} /\ shift <= Len(cache) /\ Len(Evict) \in Nat
  BY <1>1, CacheAssumption, LenProperties
<1>3. cache' = Append(Evict, l)
  BY AcceptKeepsWindow
<1> HIDE DEF shift
<1>4. /\ cache' \in Seq(Logs)
      /\ Len(cache') = Len(Evict) + 1
      /\ \A i \in 1..Len(Evict) : cache'[i] = Evict[i]
      /\ cache'[Len(Evict) + 1] = l
  BY <1>1, <1>3, Appended
<1>5. /\ DOMAIN cache = 1..Len(cache)
      /\ DOMAIN cache' = 1 .. Len(cache) - shift + 1
      /\ \A i \in 1 .. Len(cache) - shift : cache'[i] = cache[i + shift]
      /\ cache'[Len(cache) - shift + 1] = l
  <2>1. DOMAIN cache' = 1..Len(cache') /\ DOMAIN cache = 1..Len(cache)
    BY <1>4, LenProperties DEF Shape
  <2>2. /\ Len(Evict) = Len(cache) - shift /\ Len(cache) \in Nat
        /\ Len(cache) - shift + 1 = Len(Evict) + 1
    BY <1>1, <1>2
  <2> QED
    BY <2>1, <2>2, <1>1, <1>4
<1> DEFINE n == Len(cache)
<1>6. n \in Nat /\ shift \in {0, 1} /\ shift <= n
  BY <1>1, <1>2
<1> HIDE DEF n
<1>7. /\ DOMAIN cache = 1..n
      /\ DOMAIN cache' = 1 .. n - shift + 1
      /\ \A i \in 1 .. n - shift : cache'[i] = cache[i + shift]
      /\ cache'[n - shift + 1] = l
  BY <1>5 DEF n
<1>8. Cached \subseteq Delivered
  <2> SUFFICES ASSUME NEW i \in DOMAIN cache PROVE cache[i] \in Delivered
    BY DEF Cached
  <2>1. i \in 1..Len(cache) /\ cache[i] = accepted[total_dropped + cleared + i]
    BY <1>5 DEF Window
  <2>2. total_dropped + cleared + i \in 1..Len(accepted)
    BY <2>1, <1>1 DEF Window, Shape
  <2>3. DOMAIN accepted = 1..Len(accepted)
    BY LenProperties DEF Shape
  <2> QED
    BY <2>1, <2>2, <2>3 DEF Delivered
<1>9. Delivered' = Delivered \cup {l}
  <2>1. /\ accepted' \in Seq(Logs)
        /\ Len(accepted') = Len(accepted) + 1
        /\ \A i \in 1..Len(accepted) : accepted'[i] = accepted[i]
        /\ accepted'[Len(accepted) + 1] = l
    BY Appended DEF Accept, Shape
  <2>2. /\ DOMAIN accepted = 1..Len(accepted) /\ Len(accepted) \in Nat
        /\ DOMAIN accepted' = 1 .. Len(accepted) + 1
    BY <2>1, LenProperties DEF Shape
  <2>3. ASSUME NEW m \in Delivered' PROVE m \in Delivered \cup {l}
    <3>1. PICK i \in DOMAIN accepted' : m = accepted'[i]
      BY DEF Delivered
    <3>2. i \in 1..Len(accepted) \/ i = Len(accepted) + 1
      BY <3>1, <2>2
    <3> QED
      BY <3>1, <3>2, <2>1, <2>2 DEF Delivered
  <2>4. ASSUME NEW m \in Delivered PROVE m \in Delivered'
    <3>1. PICK i \in DOMAIN accepted : m = accepted[i]
      BY DEF Delivered
    <3>2. i \in DOMAIN accepted' /\ accepted'[i] = m
      BY <3>1, <2>1, <2>2
    <3> QED
      BY <3>2 DEF Delivered
  <2>5. l \in Delivered'
    <3>1. Len(accepted) + 1 \in DOMAIN accepted'
      BY <2>2
    <3> QED
      BY <3>1, <2>1 DEF Delivered
  <2> QED
    BY <2>3, <2>4, <2>5
<1>10. l \notin Cached
  BY <1>8
<1>11. ASSUME NEW j \in DOMAIN cache'
       PROVE  \/ j + shift \in DOMAIN cache /\ cache'[j] = cache[j + shift]
              \/ cache'[j] = l /\ \A i \in DOMAIN cache' : i <= j
  <2>1. j \in 1 .. n - shift \/ j = n - shift + 1
    BY <1>6, <1>7
  <2>2. CASE j \in 1 .. n - shift
    BY <2>2, <1>6, <1>7
  <2>3. CASE j = n - shift + 1
    BY <2>3, <1>6, <1>7
  <2> QED
    BY <2>1, <2>2, <2>3
<1>12. ASSUME NEW j \in DOMAIN cache, j > shift
       PROVE  j - shift \in DOMAIN cache' /\ cache'[j - shift] = cache[j]
  <2>1. j - shift \in 1 .. n - shift /\ (j - shift) + shift = j /\ j - shift \in 1 .. n - shift + 1
    BY <1>12, <1>6, <1>7
  <2> QED
    BY <2>1, <1>7
<1>13. ASSUME NEW j \in DOMAIN cache, j <= shift PROVE cache[j] \notin Cached'
  <2> SUFFICES ASSUME NEW i \in DOMAIN cache', cache'[i] = cache[j] PROVE FALSE
    BY DEF Cached
  <2>1. cache[j] # l
    BY <1>10 DEF Cached
  <2>2. i + shift \in DOMAIN cache /\ cache[i + shift] = cache[j]
    BY <2>1, <1>11
  <2>3. i + shift = j
    BY <2>2 DEF Coherent
  <2> QED
    BY <2>3, <1>13, <1>6, <1>7
<1>14. Cached' \subseteq Cached \cup {l}
  BY <1>11 DEF Cached
<1>15. ASSUME NEW m \in Cached \ Cached' PROVE 1 \in DOMAIN cache /\ m = cache[1]
  <2>1. PICK j \in DOMAIN cache : m = cache[j]
    BY DEF Cached
  <2>2. ~(j > shift)
    BY <2>1, <1>12 DEF Cached
  <2>3. j = 1
    BY <2>2, <1>6, <1>7
  <2> QED
    BY <2>1, <2>3
<1> QED
  BY <1>6, <1>8, <1>9, <1>11, <1>12, <1>13, <1>14, <1>15

(* A new log disturbs no client: what a page still has to bring is no      *)
(* nearer than before, unless what was ahead of it is gone and was of      *)
(* another chain.                                                          *)
LEMMA AcceptKeepsServed ==
  ASSUME Shape, Window, Coherent, Stored, NEW l \in Logs, Accept(l), UNCHANGED cleared,
         KeyOf[l] \notin index, l \notin Delivered, UNCHANGED client,
         NEW k, Served(client[k])
  PROVE  Served(client[k])'
<1> DEFINE r == client[k]
<1>1. r' = r
  OBVIOUS
<1>2. /\ Reading(r)
      /\ \A i, j \in DOMAIN cache : i < j /\ cache[j] \in r.had => cache[i] \in r.had
      /\ \A x \in Wanted(r) : Excused(r, x) \/ ToCome(r, x)
  BY DEF Served
<1> HIDE DEF r
<1>3. /\ Cached \subseteq Delivered
      /\ Delivered' = Delivered \cup {l}
      /\ Cached' \subseteq Cached \cup {l}
      /\ \A m \in Cached \ Cached' : 1 \in DOMAIN cache /\ m = cache[1]
  BY AcceptedLast
<1>4. PICK shift \in {0, 1} :
        /\ \A j \in DOMAIN cache' : \/ j + shift \in DOMAIN cache /\ cache'[j] = cache[j + shift]
                                    \/ cache'[j] = l /\ \A i \in DOMAIN cache' : i <= j
        /\ \A j \in DOMAIN cache : j > shift =>
             j - shift \in DOMAIN cache' /\ cache'[j - shift] = cache[j]
        /\ \A j \in DOMAIN cache : j <= shift => cache[j] \notin Cached'
  BY AcceptedLast
<1>5. l \notin r.had /\ l \notin Cached /\ r.had \subseteq Delivered
  BY <1>2, <1>3 DEF Reading
<1>6. DOMAIN cache \subseteq Nat \ {0} /\ DOMAIN cache' \subseteq Nat \ {0}
  <2>1. cache' \in Seq(Logs) /\ cache \in Seq(Logs)
    BY AcceptKeepsWindow DEF Shape
  <2>2. DOMAIN cache' = 1..Len(cache') /\ DOMAIN cache = 1..Len(cache)
    BY <2>1, LenProperties
  <2> QED
    BY <2>2
<1>7. Reading(r)'
  BY <1>1, <1>2, <1>3 DEF Reading
<1>8. /\ IsFiniteSet(Cached \cup {l})
      /\ (r.page - 1) * r.size \in Nat
  <2>1. Found(AnyChain) = Cached
    BY DEF Found, OfChain
  <2>2. IsFiniteSet(Cached)
    BY <2>1, FoundIsFinite
  <2>3. r.page \in Nat /\ r.page > 0 /\ r.size \in Nat /\ r.size > 0
    BY <1>2, PagingAssumption DEF Reading
  <2> QED
    BY <2>2, <2>3, FS_AddElement, PageEnds
<1>9. ASSUME NEW i \in DOMAIN cache', NEW j \in DOMAIN cache', i < j, cache'[j] \in r.had
      PROVE  cache'[i] \in r.had
  <2>1. j + shift \in DOMAIN cache /\ cache'[j] = cache[j + shift]
    BY <1>4, <1>5, <1>9
  <2>2. i + shift \in DOMAIN cache /\ cache'[i] = cache[i + shift]
    BY <1>4, <1>6, <1>9
  <2>3. i + shift < j + shift
    BY <1>6, <1>9
  <2> QED
    BY <2>1, <2>2, <2>3, <1>2, <1>9
<1>10. ASSUME NEW x \in Cached \cap Cached', NEW y \in Cached \cap Cached', Ahead(x, y)
       PROVE  Ahead(x, y)'
  <2>1. CASE RankOf[x] > RankOf[y]
    BY <2>1 DEF Ahead
  <2>2. CASE ~(RankOf[x] > RankOf[y])
    <3>1. PICK i \in DOMAIN cache, j \in DOMAIN cache : i < j /\ cache[i] = x /\ cache[j] = y
      BY <2>2, <1>10 DEF Ahead
    <3>2. i > shift /\ j > shift
      BY <3>1, <1>4, <1>6
    <3>3. /\ i - shift \in DOMAIN cache' /\ cache'[i - shift] = x
          /\ j - shift \in DOMAIN cache' /\ cache'[j - shift] = y
          /\ i - shift < j - shift
      BY <3>1, <3>2, <1>4, <1>6
    <3>4. RankOf[x] = RankOf[y]
      BY <2>2, <1>10 DEF Ahead
    <3> QED
      BY <3>3, <3>4 DEF Ahead
  <2> QED
    BY <2>1, <2>2
<1>11. ASSUME NEW x \in Wanted(r)'
       PROVE  (Excused(r, x) \/ ToCome(r, x))'
  <2>1. /\ x \in r.had /\ x \in Cached' /\ x \notin r.seen
        /\ OfChain(x, r.chain) /\ Matches(x, r.topic)
    BY <1>1, <1>11 DEF Wanted, OfChain, Matches
  <2>2. x \in Cached /\ x \in Wanted(r)
    BY <2>1, <1>3, <1>5 DEF Wanted
  <2>3. CASE Excused(r, x)
    <3>1. PICK m \in r.had \ Cached : ChainOf[m] # ChainOf[x] /\ RankOf[m] >= RankOf[x]
      BY <2>3 DEF Excused
    <3>2. m \notin Cached'
      BY <3>1, <1>3, <1>5
    <3> QED
      BY <3>1, <3>2, <2>3, <1>1 DEF Excused
  <2>4. CASE ToCome(r, x) /\ Before(x, r.chain) \subseteq Cached'
    <3>1. ASSUME NEW m \in Before(x, r.chain) PROVE m \in Before(x, r.chain)'
      <4>1. m \in Cached /\ OfChain(m, r.chain) /\ Ahead(m, x) /\ m \in Cached'
        BY <2>4, <3>1 DEF Before, Found
      <4>2. Ahead(m, x)'
        BY <4>1, <2>1, <2>2, <1>10
      <4> QED
        BY <4>1, <4>2, <1>1 DEF Before, Found, OfChain
    <3> DEFINE now  == Before(x, r.chain)
               then == Before(x, r.chain)'
    <3>2. now \in SUBSET then
      BY <3>1
    <3>3. Cardinality(now) \in Nat
      BY BeforeIsFinite
    <3>4. then \in SUBSET (Cached \cup {l})
      BY <1>3 DEF Before, Found
    <3> HIDE DEF now, then
    <3>5. IsFiniteSet(then) /\ Cardinality(then) \in Nat
      BY <3>4, <1>8, FS_Subset, FS_CardinalityType
    <3>6. Cardinality(now) <= Cardinality(then)
      BY <3>2, <3>5, FS_Subset
    <3> DEFINE before == (r.page - 1) * r.size
    <3>7. before \in Nat /\ Cardinality(now) >= before
      BY <2>4, <1>8 DEF ToCome, now
    <3> HIDE DEF before
    <3>8. Cardinality(then) >= before
      BY <3>3, <3>5, <3>6, <3>7
    <3>9. ToCome(r, x)'
      BY <2>4, <3>8, <1>1 DEF ToCome, before, then
    <3> QED
      BY <3>9
  <2>5. CASE ToCome(r, x) /\ ~(Before(x, r.chain) \subseteq Cached')
    <3>1. PICK m \in Before(x, r.chain) : m \notin Cached'
      BY <2>5
    <3>2. m \in Cached /\ OfChain(m, r.chain) /\ Ahead(m, x)
      BY <3>1 DEF Before, Found
    <3>3. 1 \in DOMAIN cache /\ m = cache[1]
      BY <3>1, <3>2, <1>3
    <3>4. PICK j \in DOMAIN cache : x = cache[j]
      BY <2>2 DEF Cached
    <3>5. 1 < j
      <4>1. j # 1
        BY <3>1, <3>3, <3>4, <2>1
      <4> QED
        BY <4>1, <1>6
    <3>6. m \in r.had
      BY <3>3, <3>4, <3>5, <2>1, <1>2
    <3>7. m \in Logs /\ x \in Logs /\ RankOf[m] \in Nat /\ RankOf[x] \in Nat
      <4>1. m \in Logs /\ x \in Logs
        BY <3>3, <3>4, ElementOfSeq, LenProperties DEF Shape
      <4> QED
        BY <4>1, PagingAssumption
    <3>8. RankOf[m] >= RankOf[x]
      BY <3>2, <3>7 DEF Ahead
    <3>9. ChainOf[m] # ChainOf[x]
      <4> SUFFICES ASSUME ChainOf[m] = ChainOf[x] PROVE FALSE
        OBVIOUS
      <4>1. RankOf[m] < RankOf[x]
        BY <3>3, <3>4, <3>5 DEF Stored
      <4> QED
        BY <4>1, <3>7, <3>8
    <3>10. r.chain = AnyChain
      BY <3>2, <3>9, <2>1 DEF OfChain
    <3>11. Excused(r, x)'
      BY <3>1, <3>6, <3>8, <3>9, <3>10, <1>1 DEF Excused
    <3> QED
      BY <3>11
  <2> QED
    BY <2>2, <2>3, <2>4, <2>5, <1>2
<1>12. \A i, j \in DOMAIN cache' : i < j /\ cache'[j] \in r'.had => cache'[i] \in r'.had
  BY <1>1, <1>9
<1>13. \A x \in Wanted(r)' : (Excused(r, x) \/ ToCome(r, x))'
  BY <1>11
<1>14. Served(r)'
  BY <1>7, <1>12, <1>13 DEF Served
<1> QED
  BY <1>14 DEF r

(* While the cache does not change, what is true of a record stays true.   *)
LEMMA QuietKeepsServed ==
  ASSUME NEW k, NEW r, Served(r), UNCHANGED <<cache, accepted>>, client'[k] = r
  PROVE  Served(client[k])'
<1>1. Cached' = Cached /\ Delivered' = Delivered
  BY DEF Cached, Delivered
<1>2. \A m, l : Ahead(m, l)' <=> Ahead(m, l)
  BY DEF Ahead
<1>4. Reading(client[k])'
  BY <1>1 DEF Served, Reading
<1>5. (\A i, j \in DOMAIN cache : i < j /\ cache[j] \in client[k].had => cache[i] \in client[k].had)'
  BY DEF Served
<1>6. Wanted(client[k])' = Wanted(r)
  BY <1>1 DEF Wanted
<1>7. ASSUME NEW l \in Wanted(r) PROVE (Excused(client[k], l) \/ ToCome(client[k], l))'
  <2>1. CASE Excused(r, l)
    BY <2>1, <1>1 DEF Excused
  <2>2. CASE ToCome(r, l)
    <3>1. (Before(l, client[k].chain))' = Before(l, r.chain)
      BY <1>1, <1>2 DEF Before, Found
    <3> QED
      BY <2>2, <3>1 DEF ToCome
  <2> QED
    BY <2>1, <2>2, <1>7 DEF Served
<1> QED
  BY <1>4, <1>5, <1>6, <1>7 DEF Served

(* A page brings every wanted log that belongs on it, and a client stops   *)
(* only after the page the last of them is on.                             *)
LEMMA GetPageKeepsServed ==
  ASSUME Shape, Window, Coherent, NEW k \in Clients, DOMAIN client = Clients,
         Served(client[k]), GetPage(k), Cached \subseteq Delivered
  PROVE  Served(client[k])'
<1> DEFINE r    == client[k]
           page == Page(r.chain, r.page, r.size)
           got  == {page[i] : i \in {j \in DOMAIN page : Matches(page[j], r.topic)}}
           last == r.page >= TotalPages(r.chain, r.size)
           next == client'[k]
<1>1. /\ Reading(r)
      /\ \A i, j \in DOMAIN cache : i < j /\ cache[j] \in r.had => cache[i] \in r.had
      /\ \A x \in Wanted(r) : Excused(r, x) \/ ToCome(r, x)
  BY DEF Served
<1>2. /\ r.phase = "paging"
      /\ next = [r EXCEPT !.seen = @ \cup got,
                          !.phase = IF last THEN "done" ELSE @,
                          !.page = IF last THEN @ ELSE @ + 1,
                          !.had = IF r.page > 1 THEN @ ELSE Cached]
      /\ UNCHANGED vars
  BY DEF GetPage
<1> HIDE DEF page, got, last, r
<1>3. /\ r = [phase |-> r.phase, chain |-> r.chain, size |-> r.size, topic |-> r.topic,
              left |-> r.left, page |-> r.page, seen |-> r.seen, had |-> r.had]
      /\ r.size \in 1..PageLimit /\ r.page \in Nat \ {0} /\ r.had \subseteq Delivered
  BY <1>1 DEF Reading
<1>4. /\ next = [phase |-> next.phase, chain |-> next.chain, size |-> next.size,
                 topic |-> next.topic, left |-> next.left, page |-> next.page,
                 seen |-> next.seen, had |-> next.had]
      /\ next.chain = r.chain /\ next.size = r.size /\ next.topic = r.topic
      /\ next.seen = r.seen \cup got
      /\ next.phase = IF last THEN "done" ELSE "paging"
      /\ next.page = IF last THEN r.page ELSE r.page + 1
      /\ next.had = IF r.page > 1 THEN r.had ELSE Cached
  BY <1>2, <1>3
<1> HIDE DEF next
<1>5. Reading(next)
  BY <1>3, <1>4 DEF Reading
<1>6. ASSUME NEW i \in DOMAIN cache, NEW j \in DOMAIN cache, i < j, cache[j] \in next.had
      PROVE  cache[i] \in next.had
  BY <1>1, <1>4, <1>6 DEF Cached
<1>7. r.page \in Nat /\ r.page > 0 /\ r.size \in Nat /\ r.size > 0
  BY <1>3, PagingAssumption
<1>8. ASSUME NEW x \in Wanted(next) PROVE Excused(next, x) \/ ToCome(next, x)
  <2>1. /\ x \in next.had /\ x \in Cached /\ x \notin r.seen /\ x \notin got
        /\ OfChain(x, r.chain) /\ Matches(x, r.topic)
    BY <1>4, <1>8 DEF Wanted
  <2>2. x \in Found(r.chain)
    BY <2>1 DEF Found
  <2>3. CASE r.page > 1 /\ Excused(r, x)
    BY <2>3, <1>4 DEF Excused
  <2>4. CASE ~(r.page > 1 /\ Excused(r, x))
    <3> DEFINE b  == Cardinality(Before(x, r.chain))
               lo == (r.page - 1) * r.size
               hi == r.page * r.size
    <3>1. b \in Nat /\ lo \in Nat /\ hi \in Nat
      BY <1>7, BeforeIsFinite, PageEnds
    <3>2. b >= lo
      <4>1. CASE r.page > 1
        <5>1. x \in Wanted(r)
          BY <4>1, <2>1, <1>4 DEF Wanted
        <5> QED
          BY <5>1, <4>1, <2>4, <1>1 DEF ToCome
      <4>2. CASE ~(r.page > 1)
        <5>1. r.page = 1 /\ 0 * r.size = 0
          BY <4>2, <1>7
        <5>2. lo = 0
          BY <5>1
        <5> HIDE DEF lo, b
        <5> QED
          BY <5>2, <3>1
      <4> QED
        BY <4>1, <4>2
    <3>3. \A j \in DOMAIN page : page[j] # x
      BY <2>1 DEF got
    <3>4. b >= hi /\ ~last
      <4>1. \A j \in DOMAIN Page(r.chain, r.page, r.size) : Page(r.chain, r.page, r.size)[j] # x
        BY <3>3 DEF page
      <4> QED
        BY <4>1, <3>2, <2>2, <1>3, <1>7, BehindThePage DEF last
    <3>5. next.phase = "paging" /\ next.page - 1 = r.page
      BY <3>4, <1>4, <1>7
    <3>6. (next.page - 1) * next.size = hi
      BY <3>5, <1>4
    <3> HIDE DEF hi, b
    <3>7. b = Cardinality(Before(x, next.chain))
      BY <1>4 DEF b
    <3> QED
      BY <3>4, <3>5, <3>6, <3>7 DEF ToCome
  <2> QED
    BY <2>3, <2>4
<1>9. Served(next)
  BY <1>5, <1>6, <1>8 DEF Served
<1>10. next = client'[k]
  BY DEF next
<1> QED
  BY <1>2, <1>9, <1>10, QuietKeepsServed DEF vars

(* add_many() goes on to the next log of its list, which is newer than all *)
(* that its chain delivered.                                               *)
LEMMA NextLogIsNew ==
  ASSUME Shape, Waiting, NEW w \in Writers, todo[w] # <<>>
  PROVE  /\ Head(todo[w]) \in Logs \ Delivered
         /\ ChainOf[Head(todo[w])] = w
         /\ \A m \in Delivered : ChainOf[m] = w => RankOf[m] < RankOf[Head(todo[w])]
         /\ \A i \in DOMAIN Tail(todo[w]) :
              /\ i + 1 \in DOMAIN todo[w] /\ Tail(todo[w])[i] = todo[w][i + 1]
              /\ RankOf[Head(todo[w])] < RankOf[Tail(todo[w])[i]]
<1> DEFINE s == todo[w]
<1>1. s \in Seq(Logs) /\ s # <<>>
  BY DEF Shape
<1>2. /\ \A i \in DOMAIN s :
           /\ ChainOf[s[i]] = w
           /\ \A j \in DOMAIN s : i < j => RankOf[s[i]] < RankOf[s[j]]
           /\ \A m \in Delivered : ChainOf[m] = w => RankOf[m] < RankOf[s[i]]
  BY DEF Waiting
<1> HIDE DEF s
<1>3. /\ DOMAIN s = 1..Len(s) /\ Len(s) \in Nat /\ Len(s) > 0 /\ Head(s) = s[1]
      /\ Head(s) \in Logs
      /\ Tail(s) \in Seq(Logs) /\ Len(Tail(s)) = Len(s) - 1
      /\ \A i \in 1..Len(Tail(s)) : Tail(s)[i] = s[i + 1]
  BY <1>1, LenProperties, EmptySeq, HeadTailProperties
<1>4. DOMAIN Tail(s) = 1 .. Len(s) - 1
  BY <1>3, LenProperties
<1>5. 1 \in DOMAIN s
  BY <1>3
<1>6. ASSUME Head(s) \in Delivered PROVE FALSE
  <2>1. RankOf[s[1]] < RankOf[s[1]] /\ RankOf[s[1]] \in Nat
    BY <1>2, <1>3, <1>5, <1>6, PagingAssumption
  <2> QED
    BY <2>1
<1>7. ASSUME NEW i \in DOMAIN Tail(s)
      PROVE  /\ i + 1 \in DOMAIN s /\ Tail(s)[i] = s[i + 1]
             /\ RankOf[Head(s)] < RankOf[Tail(s)[i]]
  <2>1. i \in 1..Len(Tail(s)) /\ i + 1 \in DOMAIN s /\ 1 < i + 1
    BY <1>3, <1>4
  <2> QED
    BY <2>1, <1>2, <1>3, <1>5
<1>8. ChainOf[s[1]] = w /\ \A m \in Delivered : ChainOf[m] = w => RankOf[m] < RankOf[s[1]]
  BY <1>2, <1>5
<1> QED
  BY <1>3, <1>6, <1>7, <1>8 DEF s

(* One iteration of add_many() keeps every chain in order. *)
LEMMA AddKeepsOrder ==
  ASSUME IInv, Waiting, Stored, NEW w \in Writers, Add(w)
  PROVE  Waiting' /\ Stored'
<1> DEFINE l == Head(todo[w])
<1>1. Shape /\ Window /\ Coherent /\ todo[w] # <<>>
  BY DEF IInv, Add
<1>2. /\ l \in Logs \ Delivered /\ ChainOf[l] = w
      /\ \A m \in Delivered : ChainOf[m] = w => RankOf[m] < RankOf[l]
      /\ \A i \in DOMAIN Tail(todo[w]) :
           /\ i + 1 \in DOMAIN todo[w] /\ Tail(todo[w])[i] = todo[w][i + 1]
           /\ RankOf[l] < RankOf[Tail(todo[w])[i]]
  BY <1>1, NextLogIsNew
<1>3. /\ todo' = [todo EXCEPT ![w] = Tail(@)] /\ UNCHANGED cleared
      /\ DOMAIN todo = Writers
      /\ \/ UNCHANGED <<cache, accepted>>
         \/ Accept(l) /\ KeyOf[l] \notin index
  BY <1>1 DEF Add, Shape
<1>4. \A c \in Writers : DOMAIN todo[c] \subseteq Nat
  BY <1>1, LenProperties DEF Shape
<1>5. DOMAIN Tail(todo[w]) \subseteq Nat
  <2>1. Tail(todo[w]) \in Seq(Logs)
    BY <1>1, HeadTailProperties DEF Shape
  <2> QED
    BY <2>1, LenProperties
<1> HIDE DEF l
<1>6. \A m \in Delivered' : m \in Delivered \/ m = l
  <2>1. CASE UNCHANGED <<cache, accepted>>
    BY <2>1 DEF Delivered
  <2>2. CASE Accept(l)
    BY <2>2, <1>1, <1>2, <1>3, AcceptedLast
  <2> QED
    BY <2>1, <2>2, <1>3
<1>7. ASSUME NEW c \in Writers, NEW i \in DOMAIN todo'[c]
      PROVE  /\ ChainOf[todo'[c][i]] = c
             /\ \A j \in DOMAIN todo'[c] : i < j => RankOf[todo'[c][i]] < RankOf[todo'[c][j]]
             /\ \A m \in Delivered' : ChainOf[m] = c => RankOf[m] < RankOf[todo'[c][i]]
  <2>1. CASE c # w
    <3>1. todo'[c] = todo[c]
      BY <2>1, <1>3
    <3> QED
      BY <2>1, <3>1, <1>2, <1>6, <1>7 DEF Waiting
  <2>2. CASE c = w
    <3>1. todo'[c] = Tail(todo[w])
      BY <2>2, <1>3
    <3>2. /\ i + 1 \in DOMAIN todo[w] /\ todo'[c][i] = todo[w][i + 1]
          /\ RankOf[l] < RankOf[todo'[c][i]]
      BY <3>1, <1>2, <1>7
    <3>3. ASSUME NEW j \in DOMAIN todo'[c], i < j PROVE RankOf[todo'[c][i]] < RankOf[todo'[c][j]]
      <4>1. j + 1 \in DOMAIN todo[w] /\ todo'[c][j] = todo[w][j + 1] /\ i + 1 < j + 1
        BY <3>1, <3>3, <1>2, <1>5
      <4> QED
        BY <4>1, <3>2 DEF Waiting
    <3>4. /\ ChainOf[todo[w][i + 1]] = w
          /\ \A m \in Delivered : ChainOf[m] = w => RankOf[m] < RankOf[todo[w][i + 1]]
      BY <3>2 DEF Waiting
    <3>5. \A m \in Delivered' : ChainOf[m] = c => RankOf[m] < RankOf[todo'[c][i]]
      BY <3>2, <3>4, <2>2, <1>6
    <3> QED
      BY <3>2, <3>3, <3>4, <3>5, <2>2
  <2> QED
    BY <2>1, <2>2
<1>8. Waiting'
  BY <1>7 DEF Waiting
<1>9. Stored'
  <2>1. CASE UNCHANGED <<cache, accepted>>
    BY <2>1 DEF Stored
  <2>2. CASE Accept(l)
    <3>1. Cached \subseteq Delivered
      BY <2>2, <1>1, <1>2, <1>3, AcceptedLast
    <3>2. PICK shift \in {0, 1} :
            /\ \A j \in DOMAIN cache' : \/ j + shift \in DOMAIN cache /\ cache'[j] = cache[j + shift]
                                        \/ cache'[j] = l /\ \A i \in DOMAIN cache' : i <= j
            /\ \A j \in DOMAIN cache : j > shift =>
                 j - shift \in DOMAIN cache' /\ cache'[j - shift] = cache[j]
            /\ \A j \in DOMAIN cache : j <= shift => cache[j] \notin Cached'
      BY <2>2, <1>1, <1>2, <1>3, AcceptedLast
    <3>3. DOMAIN cache' \subseteq Nat
      <4>1. cache' \in Seq(Logs)
        BY <2>2, <1>1, <1>2, <1>3, AcceptKeepsWindow
      <4> QED
        BY <4>1, LenProperties
    <3>4. ASSUME NEW i \in DOMAIN cache', NEW j \in DOMAIN cache', i < j,
                 ChainOf[cache'[i]] = ChainOf[cache'[j]]
          PROVE  RankOf[cache'[i]] < RankOf[cache'[j]]
      <4>1. ~(j <= i)
        BY <3>3, <3>4
      <4>2. i + shift \in DOMAIN cache /\ cache'[i] = cache[i + shift]
        BY <3>2, <4>1
      <4>3. CASE cache'[j] = l
        <5>1. cache'[i] \in Delivered
          BY <4>2, <3>1 DEF Cached
        <5> QED
          BY <5>1, <4>3, <3>4, <1>2
      <4>4. CASE j + shift \in DOMAIN cache /\ cache'[j] = cache[j + shift]
        <5>1. i + shift < j + shift
          BY <3>3, <3>4
        <5> QED
          BY <5>1, <4>2, <4>4, <3>4 DEF Stored
      <4> QED
        BY <4>3, <4>4, <3>2
    <3> QED
      BY <3>4 DEF Stored
  <2> QED
    BY <2>1, <2>2, <1>3
<1> QED
  BY <1>8, <1>9

LEMMA PagingInitEstablishes == PInit => PInv
<1> SUFFICES ASSUME PInit PROVE PInv
  OBVIOUS
<1>1. IInv
  BY InitEstablishes DEF PInit
<1>2. Waiting /\ Stored
  <2>1. DOMAIN <<>> = {}
    OBVIOUS
  <2> QED
    BY <2>1 DEF PInit, Init, Waiting, Stored
<1>3. DOMAIN client = Clients /\ \A k \in Clients : client[k] = Unused
  BY DEF PInit
<1> QED
  BY <1>1, <1>2, <1>3 DEF PInv

(* What the clients do leaves the cache and the other clients alone. *)
LEMMA OwnStepKeepsPInv ==
  ASSUME PInv, UNCHANGED vars, NEW k \in Clients, NEW r,
         client' = [client EXCEPT ![k] = r], Served(client[k])'
  PROVE  PInv'
<1>1. IInv'
  <2>1. IInv /\ UNCHANGED vars
    BY DEF PInv
  <2> QED
    BY <2>1, StepPreserves
<1>2. Waiting' /\ Stored'
  BY DEF PInv, vars, Waiting, Stored, Delivered
<1>3. DOMAIN client' = Clients
  BY DEF PInv
<1>4. ASSUME NEW j \in Clients PROVE (client[j] = Unused \/ Served(client[j]))'
  <2>1. CASE j = k
    BY <2>1
  <2>2. CASE j # k
    <3>1. client'[j] = client[j] /\ (client[j] = Unused \/ Served(client[j]))
      BY <2>2 DEF PInv
    <3> QED
      BY <3>1, QuietKeepsServed DEF vars
  <2> QED
    BY <2>1, <2>2
<1> QED
  BY <1>1, <1>2, <1>3, <1>4 DEF PInv

LEMMA PagingStepPreserves == PInv /\ [PNext]_pvars => PInv'
<1> SUFFICES ASSUME PInv, [PNext]_pvars PROVE PInv'
  OBVIOUS
<1>1. /\ IInv /\ Shape /\ Window /\ Coherent /\ Waiting /\ Stored /\ DOMAIN client = Clients
      /\ \A k \in Clients : client[k] = Unused \/ Served(client[k])
  BY DEF PInv, IInv
<1>2. IInv'
  <2>1. [Next]_vars
    BY DEF PNext, pvars, Next, Deliver, CacheStep, Begin, Expire, Renew, GetPage
  <2> QED
    BY <1>1, <2>1, StepPreserves
<1>3. ASSUME UNCHANGED <<cache, accepted, client>>
      PROVE  Stored' /\ DOMAIN client' = Clients
             /\ \A k \in Clients : (client[k] = Unused \/ Served(client[k]))'
  <2>1. ASSUME NEW k \in Clients PROVE (client[k] = Unused \/ Served(client[k]))'
    <3>1. client'[k] = client[k]
      BY <1>3
    <3> QED
      BY <3>1, <1>1, <1>3, QuietKeepsServed
  <2> QED
    BY <2>1, <1>1, <1>3 DEF Stored
<1>4. ASSUME NEW c \in Writers, NEW batch \in Batches, Deliver(c, batch) PROVE PInv'
  <2>1. UNCHANGED <<cache, accepted, client>> /\ todo' = [todo EXCEPT ![c] = batch]
    BY <1>4 DEF Deliver, AddMany
  <2>2. Waiting'
    <3> SUFFICES ASSUME NEW d \in Writers, NEW i \in DOMAIN todo'[d]
                 PROVE  /\ ChainOf[todo'[d][i]] = d
                        /\ \A j \in DOMAIN todo'[d] : i < j => RankOf[todo'[d][i]] < RankOf[todo'[d][j]]
                        /\ \A l \in Delivered' : ChainOf[l] = d => RankOf[l] < RankOf[todo'[d][i]]
      BY DEF Waiting
    <3>1. Delivered' = Delivered
      BY <2>1 DEF Delivered
    <3>2. todo'[d] = IF d = c THEN batch ELSE todo[d]
      BY <2>1, <1>1 DEF Shape
    <3> QED
      BY <3>1, <3>2, <1>1, <1>4 DEF Deliver, Waiting
  <2> QED
    BY <1>2, <1>3, <2>1, <2>2 DEF PInv
<1>5. ASSUME NEW w \in Writers, Add(w), UNCHANGED client PROVE PInv'
  <2>1. Waiting' /\ Stored'
    BY <1>1, <1>5, AddKeepsOrder
  <2> DEFINE l == Head(todo[w])
  <2>2. /\ todo[w] # <<>> /\ UNCHANGED cleared
        /\ \/ UNCHANGED <<cache, accepted>>
           \/ Accept(l) /\ KeyOf[l] \notin index
    BY <1>5 DEF Add
  <2>3. l \in Logs /\ l \notin Delivered
    BY <1>1, <2>2, NextLogIsNew
  <2> HIDE DEF l
  <2>4. CASE UNCHANGED <<cache, accepted>>
    BY <1>2, <1>3, <1>5, <2>1, <2>4 DEF PInv
  <2>5. CASE Accept(l) /\ KeyOf[l] \notin index
    <3>1. ASSUME NEW k \in Clients PROVE (client[k] = Unused \/ Served(client[k]))'
      <4>1. CASE client[k] = Unused
        BY <4>1, <1>5
      <4>2. CASE Served(client[k])
        BY <4>2, <1>1, <1>5, <2>2, <2>3, <2>5, AcceptKeepsServed
      <4> QED
        BY <4>1, <4>2, <1>1
    <3> QED
      BY <3>1, <1>1, <1>2, <1>5, <2>1 DEF PInv
  <2> QED
    BY <2>2, <2>4, <2>5
<1>6. CASE Clear /\ UNCHANGED client
  <2>1. cache' = <<>> /\ UNCHANGED <<todo, accepted, client>>
    BY <1>6 DEF Clear
  <2>2. DOMAIN cache' = {} /\ Cached' = {} /\ Delivered' = Delivered
    BY <2>1 DEF Cached, Delivered
  <2>3. Waiting' /\ Stored'
    BY <2>1, <2>2, <1>1 DEF Waiting, Stored
  <2>4. ASSUME NEW k \in Clients, Served(client[k]) PROVE Served(client[k])'
    <3>1. client'[k] = client[k] /\ Reading(client[k])'
      BY <2>1, <2>2, <2>4 DEF Served, Reading
    <3>2. Wanted(client[k])' = {}
      BY <2>2 DEF Wanted
    <3> QED
      BY <3>1, <3>2, <2>2 DEF Served
  <2> QED
    BY <1>1, <1>2, <2>1, <2>3, <2>4 DEF PInv
<1>7. ASSUME NEW k \in Clients, NEW c, NEW n, NEW t, Begin(k, c, n, t) PROVE PInv'
  <2> DEFINE r == [phase |-> "paging", chain |-> c, size |-> n, topic |-> t, left |-> Lifetime,
                   page |-> 1, seen |-> {}, had |-> {}]
  <2>1. client' = [client EXCEPT ![k] = r] /\ UNCHANGED vars /\ n \in 1..PageLimit
    BY <1>7 DEF Begin
  <2>2. Reading(r)
    BY <2>1 DEF Reading
  <2>3. Wanted(r) = {} /\ r.had = {}
    BY DEF Wanted
  <2> HIDE DEF r
  <2>4. Served(r)
    BY <2>2, <2>3 DEF Served
  <2>5. client'[k] = r
    BY <2>1, <1>1
  <2>6. Served(client[k])'
    BY <2>1, <2>4, <2>5, QuietKeepsServed DEF vars
  <2> QED
    BY <2>1, <2>6, OwnStepKeepsPInv
<1>8. ASSUME NEW k \in Clients, GetPage(k) PROVE PInv'
  <2>1. client[k].phase = "paging" /\ UNCHANGED vars
    BY <1>8 DEF GetPage
  <2>2. Served(client[k])
    BY <2>1, <1>1 DEF Unused
  <2>3. Cached \subseteq Delivered
    <3> SUFFICES ASSUME NEW i \in DOMAIN cache PROVE cache[i] \in Delivered
      BY DEF Cached
    <3>1. /\ DOMAIN cache = 1..Len(cache) /\ Len(cache) \in Nat
          /\ DOMAIN accepted = 1..Len(accepted)
      BY <1>1, LenProperties DEF Shape
    <3>2. cache[i] = accepted[total_dropped + cleared + i]
      BY <1>1, <3>1 DEF Window
    <3>3. total_dropped + cleared + i \in DOMAIN accepted
      BY <1>1, <3>1 DEF Window, Shape
    <3> QED
      BY <3>2, <3>3 DEF Delivered
  <2>4. Served(client[k])'
    BY <1>1, <1>8, <2>2, <2>3, GetPageKeepsServed
  <2>5. \E r : client' = [client EXCEPT ![k] = r]
    BY <1>8 DEF GetPage
  <2> QED
    BY <2>1, <2>4, <2>5, OwnStepKeepsPInv
<1>9. ASSUME NEW k \in Clients, Expire(k) \/ Renew(k) PROVE PInv'
  <2>1. PICK e : client' = [client EXCEPT ![k] = [client[k] EXCEPT !.left = e]]
    BY <1>9 DEF Expire, Renew
  <2>2. client[k].phase = "paging" /\ UNCHANGED vars
    BY <1>9 DEF Expire, Renew
  <2>3. Served(client[k])
    BY <2>2, <1>1 DEF Unused
  <2> DEFINE old == client[k]
             new == [old EXCEPT !.left = e]
  <2>4. old = [phase |-> old.phase, chain |-> old.chain, size |-> old.size,
               topic |-> old.topic, left |-> old.left, page |-> old.page,
               seen |-> old.seen, had |-> old.had]
    BY <2>3 DEF Served, Reading
  <2>5. Served(old) /\ client' = [client EXCEPT ![k] = new]
    BY <2>1, <2>3
  <2> HIDE DEF old
  <2>6. /\ new = [phase |-> new.phase, chain |-> new.chain, size |-> new.size,
                  topic |-> new.topic, left |-> new.left, page |-> new.page,
                  seen |-> new.seen, had |-> new.had]
        /\ new.phase = old.phase /\ new.chain = old.chain /\ new.size = old.size
        /\ new.topic = old.topic /\ new.page = old.page /\ new.seen = old.seen
        /\ new.had = old.had
    BY <2>4
  <2> HIDE DEF new
  <2>7. Served(new)
    <3>1. Reading(new)
      BY <2>5, <2>6 DEF Served, Reading
    <3>2. Wanted(new) = Wanted(old)
      BY <2>6 DEF Wanted
    <3>3. ASSUME NEW l \in Wanted(old) PROVE Excused(new, l) \/ ToCome(new, l)
      BY <3>3, <2>5, <2>6 DEF Served, Excused, ToCome
    <3> QED
      BY <3>1, <3>2, <3>3, <2>5, <2>6 DEF Served
  <2>8. Served(client[k])'
    <3>1. client'[k] = new
      BY <2>5, <1>1
    <3> QED
      BY <3>1, <2>2, <2>7, QuietKeepsServed DEF vars
  <2> QED
    BY <2>2, <2>5, <2>8, OwnStepKeepsPInv
<1>10. CASE UNCHANGED pvars
  <2>1. UNCHANGED <<cache, accepted, client, todo>>
    BY <1>10 DEF pvars, vars
  <2>2. Waiting'
    BY <2>1, <1>1 DEF Waiting, Delivered
  <2> QED
    BY <2>1, <2>2, <1>2, <1>3 DEF PInv
<1> QED
  BY <1>4, <1>5, <1>6, <1>7, <1>8, <1>9, <1>10 DEF PNext, CacheStep

(* log_cache.py, query(), between adds and evictions: a client that pages  *)
(* a chain through sees every log of its topic that stayed cached; one     *)
(* that pages all chains through may miss such a log only below an evicted *)
(* one of another chain.                                                   *)
THEOREM PagingLosesNothing == PSpec => []PagingMissesNothing
<1>1. PInv => PagingMissesNothing
  <2> SUFFICES ASSUME PInv, NEW k \in Clients, client[k].phase = "done",
                      NEW l \in (client[k].had \cap Cached) \ client[k].seen,
                      OfChain(l, client[k].chain), Matches(l, client[k].topic)
               PROVE  /\ client[k].chain = AnyChain
                      /\ \E m \in client[k].had \ Cached :
                           ChainOf[m] # ChainOf[l] /\ RankOf[m] >= RankOf[l]
    BY DEF PagingMissesNothing
  <2>1. Served(client[k]) /\ l \in Wanted(client[k])
    BY DEF PInv, Unused, Wanted
  <2>2. ~ToCome(client[k], l)
    BY DEF ToCome
  <2> QED
    BY <2>1, <2>2 DEF Served, Excused
<1> QED
  BY <1>1, PagingInitEstablishes, PagingStepPreserves, PTL DEF PSpec

=============================================================================
