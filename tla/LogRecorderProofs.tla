-------------------------- MODULE LogRecorderProofs --------------------------
(***************************************************************************)
(* What holds of the recorders, and of the migration script that writes to *)
(* the same database, for chains, logs and numbers of processes of any     *)
(* size.                                                                   *)
(*                                                                         *)
(* Core is what a step of a recorder keeps whoever else writes: it holds   *)
(* beside the script, whose sessions may be of no configured chain and     *)
(* need not show every row it imports.  IInv adds what the recorders keep  *)
(* among themselves.                                                       *)
(***************************************************************************)
EXTENDS LogMigration, FiniteSetTheorems, TLAPS

-----------------------------------------------------------------------------
(* Least and greatest block of a batch.                                    *)

LEMMA LeastExists ==
  ASSUME NEW S \in SUBSET Nat, S # {}
  PROVE  \E x \in S : \A y \in S : x <= y
<1>1. IsWellFoundedOn(OpToRel(<, Nat), Nat)
  BY NatLessThanWellFounded
<1>2. PICK x \in S : \A y \in S : ~ (<<y, x>> \in OpToRel(<, Nat))
  BY <1>1, WFMin
<1>3. \A y \in S : ~ (y < x)
  BY <1>2 DEF OpToRel
<1> QED
  BY <1>3

(* Of a finite set, the greatest element is one with the fewest above it.  *)
LEMMA GreatestExists ==
  ASSUME NEW S \in SUBSET Int, S # {}, IsFiniteSet(S)
  PROVE  \E x \in S : \A y \in S : y <= x
<1> DEFINE Above(x) == {y \in S : y > x}
           Counts == {Cardinality(Above(x)) : x \in S}
<1>1. \A x \in S : IsFiniteSet(Above(x)) /\ Cardinality(Above(x)) \in Nat
  BY FS_Subset, FS_CardinalityType
<1>2. Counts \in SUBSET Nat /\ Counts # {}
  BY <1>1
<1>3. PICK n \in Counts : \A m \in Counts : n <= m
  <2> HIDE DEF Counts
  <2> QED
    BY <1>2, LeastExists
<1>4. PICK x \in S : n = Cardinality(Above(x))
  BY <1>3
<1>5. ASSUME NEW y \in S, y > x
      PROVE  FALSE
  <2>1. Above(y) \in SUBSET Above(x) /\ y \in Above(x) /\ y \notin Above(y)
    <3>1. \A z \in S : z > y => z > x
      BY <1>5
    <3>2. Above(y) \subseteq Above(x)
      BY <3>1
    <3>3. ~ (y > y)
      OBVIOUS
    <3> QED
      BY <1>5, <3>2, <3>3
  <2>2. Cardinality(Above(y)) <= Cardinality(Above(x)) /\ Cardinality(Above(y)) # Cardinality(Above(x))
    <3> HIDE DEF Above
    <3> QED
      BY <1>1, <2>1, FS_Subset
  <2>3. n <= Cardinality(Above(y))
    BY <1>3
  <2> QED
    BY <1>1, <1>4, <2>2, <2>3
<1> QED
  BY <1>5

LEMMA MinBounds ==
  ASSUME NEW S \in SUBSET Nat, S # {}
  PROVE  Min(S) \in S /\ \A y \in S : Min(S) <= y
BY LeastExists DEF Min

LEMMA MaxBounds ==
  ASSUME NEW S \in SUBSET Int, S # {}, IsFiniteSet(S)
  PROVE  Max(S) \in S /\ \A y \in S : Max(S) >= y
BY GreatestExists DEF Max

LEMMA BlocksAreFinite ==
  ASSUME NEW batch \in SUBSET Logs
  PROVE  BlocksOf(batch) \in SUBSET Nat /\ IsFiniteSet(BlocksOf(batch))
<1>1. IsFiniteSet(batch)
  BY RecorderAssumption, FS_Subset
<1>2. [l \in batch |-> l.block] \in Surjection(batch, BlocksOf(batch))
  BY DEF Surjection, BlocksOf
<1>3. IsFiniteSet(BlocksOf(batch))
  BY <1>1, <1>2, FS_Surjection
<1> QED
  BY <1>3, RecorderAssumption DEF BlocksOf

-----------------------------------------------------------------------------
(* One write.                                                              *)

Recorders ==
  [session : Nat, from : Nat \cup {NoBlock}, to : Nat \cup {NoBlock}, total : Nat]

(* A range is only widened, and covers the batch.                          *)
LEMMA WideningCovers ==
  ASSUME NEW r \in Recorders, NEW batch \in SUBSET Logs, batch # {}
  PROVE  /\ Widened(r, batch) \in Recorders
         /\ Widened(r, batch).session = r.session
         /\ Widened(r, batch).total = r.total
         /\ Widened(r, batch).from \in Nat
         /\ Widened(r, batch).to \in Nat
         /\ r.from # NoBlock => Widened(r, batch).from <= r.from
         /\ r.to <= Widened(r, batch).to
         /\ \A l \in batch : /\ Widened(r, batch).from <= l.block
                            /\ l.block <= Widened(r, batch).to
<1> DEFINE low  == BlocksOf(batch) \cup ({r.from} \ {NoBlock})
           high == BlocksOf(batch) \cup {r.to}
<1>1. /\ BlocksOf(batch) \in SUBSET Nat
      /\ IsFiniteSet(BlocksOf(batch))
      /\ BlocksOf(batch) # {}
  BY BlocksAreFinite DEF BlocksOf
<1>2. low \in SUBSET Nat /\ low # {}
  BY <1>1 DEF Recorders
<1>3. high \in SUBSET Int /\ high # {} /\ IsFiniteSet(high)
  BY <1>1, FS_AddElement DEF Recorders, NoBlock
<1>4. Min(low) \in Nat /\ \A y \in low : Min(low) <= y
  <2> HIDE DEF low
  <2> QED
    BY <1>2, MinBounds
<1>5. Max(high) \in high /\ \A y \in high : Max(high) >= y
  <2> HIDE DEF high
  <2> QED
    BY <1>3, MaxBounds
<1>6. Max(high) \in Nat
  <2>1. PICK b \in BlocksOf(batch) : b \in Nat
    BY <1>1
  <2>2. Max(high) >= b
    BY <1>5, <2>1
  <2> QED
    BY <1>3, <1>5, <2>1, <2>2
<1>7. \A l \in batch : Min(low) <= l.block /\ l.block <= Max(high)
  <2>1. \A l \in batch : l.block \in low /\ l.block \in high /\ l.block \in Nat
    BY RecorderAssumption DEF BlocksOf
  <2> HIDE DEF low, high
  <2> QED
    BY <1>4, <1>5, <1>6, <2>1
<1>8. r.from # NoBlock => Min(low) <= r.from
  BY <1>4
<1>9. r.to <= Max(high)
  <2>1. r.to \in high /\ r.to \in Int
    BY DEF Recorders, NoBlock
  <2> HIDE DEF high
  <2> QED
    BY <1>5, <1>6, <2>1
<1>10. Widened(r, batch) = [r EXCEPT !.from = Min(low), !.to = Max(high)]
  BY DEF Widened
<1> HIDE DEF low, high
<1> QED
  BY <1>4, <1>6, <1>7, <1>8, <1>9, <1>10 DEF Recorders

LEMMA CountingAdds ==
  ASSUME NEW r \in Recorders, NEW batch \in SUBSET Logs, batch # {}
  PROVE  /\ Counted(r, batch) \in Recorders
         /\ Counted(r, batch).session = r.session
         /\ Counted(r, batch).from = Widened(r, batch).from
         /\ Counted(r, batch).to = Widened(r, batch).to
         /\ r.total <= Counted(r, batch).total
         /\ Counted(r, batch).total = r.total + Cardinality(batch)
<1>1. Cardinality(batch) \in Nat
  BY RecorderAssumption, FS_Subset, FS_CardinalityType
<1>2. Widened(r, batch) \in Recorders /\ Widened(r, batch).total = r.total
      /\ Widened(r, batch).session = r.session
  BY WideningCovers
<1>3. Counted(r, batch) = [Widened(r, batch) EXCEPT !.total = r.total + Cardinality(batch)]
  BY <1>2 DEF Counted
<1> QED
  BY <1>1, <1>2, <1>3 DEF Recorders

-----------------------------------------------------------------------------
(* The inductive invariant.                                                *)

(* A session or a recorder shows either no range or a whole one.           *)
Whole(r) == r.from = NoBlock <=> r.to = NoBlock

(* Session s is the open one of c's recorder r, which does not forget the  *)
(* range its session shows.                                                *)
Matches(c, r, s) ==
  /\ s.chain = c
  /\ ~s.closed
  /\ s.total = r.total
  /\ s.from # NoBlock => r.from # NoBlock /\ r.from <= s.from /\ s.to <= r.to

Paired(c) == Opened(c) => Matches(c, recs[c], sessions[recs[c].session])

WholeRanges ==
  /\ \A i \in DOMAIN sessions : Whole(sessions[i])
  /\ \A c \in Chains : Whole(recs[c])

(* A session row as a recorder or the script may write it.                 *)
AnyRows ==
  [chain : Chains \cup {UnknownChain}, from : Nat \cup {NoBlock}, to : Nat \cup {NoBlock},
   total : Nat, closed : BOOLEAN]

CoreType ==
  /\ rows \subseteq Logs
  /\ sessions \in Seq(AnyRows)
  /\ recs \in [Chains -> [session : 0..Len(sessions), from : Nat \cup {NoBlock},
                          to : Nat \cup {NoBlock}, total : Nat]]

Core == CoreType /\ WholeRanges /\ \A c \in Chains : Paired(c)

IInv == RTypeOK /\ WholeRanges /\ RowsInRange /\ \A c \in Chains : Paired(c)

(* What a step may do to session s.                                        *)
RowGrows(s, t) ==
  /\ s.closed => t = s
  /\ t.chain = s.chain
  /\ s.total <= t.total
  /\ s.to <= t.to
  /\ s.from # NoBlock => t.from <= s.from

Grows == \A i \in DOMAIN sessions : i \in DOMAIN sessions' /\ RowGrows(sessions[i], sessions'[i])

LEMMA SameRowGrows ==
  ASSUME NEW s \in AnyRows
  PROVE  RowGrows(s, s)
BY DEF RowGrows, AnyRows, NoBlock

(* Rows stay covered when the sessions grow.                               *)
LEMMA RowsStayInRange ==
  ASSUME Core, RowsInRange, Grows, CoreType'
  PROVE  \A l \in rows : \E i \in DOMAIN sessions' :
           /\ sessions'[i].chain = l.chain
           /\ sessions'[i].from <= l.block
           /\ l.block <= sessions'[i].to
<1> TAKE l \in rows
<1>1. PICK i \in DOMAIN sessions : /\ sessions[i].chain = l.chain
                                  /\ sessions[i].from <= l.block
                                  /\ l.block <= sessions[i].to
  BY DEF RowsInRange
<1>2. l.block \in Nat
  BY RecorderAssumption DEF Core, CoreType
<1>3. sessions[i] \in AnyRows /\ i \in DOMAIN sessions' /\ sessions'[i] \in AnyRows
  BY <1>1 DEF Core, CoreType, Grows
<1>4. sessions[i].to # NoBlock /\ sessions[i].from # NoBlock
  BY <1>1, <1>2, <1>3 DEF Core, WholeRanges, Whole, AnyRows, NoBlock
<1>5. sessions'[i].from <= sessions[i].from /\ sessions[i].to <= sessions'[i].to
      /\ sessions'[i].chain = sessions[i].chain
  BY <1>4 DEF Grows, RowGrows
<1>6. sessions'[i].from <= l.block /\ l.block <= sessions'[i].to
  BY <1>1, <1>2, <1>3, <1>5 DEF AnyRows, NoBlock
<1> QED
  BY <1>1, <1>3, <1>5, <1>6

LEMMA StutterKeepsCore ==
  ASSUME Core, UNCHANGED rvars
  PROVE  Core' /\ Grows
<1>1. UNCHANGED <<rows, sessions, recs>>
  BY DEF rvars
<1>2. Grows
  BY <1>1, SameRowGrows DEF Grows, Core, CoreType
<1>3. Core'
  BY <1>1 DEF Core, CoreType, WholeRanges, Paired, Opened
<1> QED
  BY <1>2, <1>3

LEMMA OpenKeepsCore ==
  ASSUME Core, NEW c \in Chains, Open(c)
  PROVE  Core' /\ Grows
<1> DEFINE n   == Len(sessions) + 1
           row == [chain |-> c, from |-> NoBlock, to |-> NoBlock, total |-> 0, closed |-> FALSE]
           rec == [session |-> n, from |-> NoBlock, to |-> NoBlock, total |-> 0]
<1>1. /\ sessions \in Seq(AnyRows)
      /\ sessions' = Append(sessions, row)
      /\ recs' = [recs EXCEPT ![c] = rec]
      /\ rows' = rows
  <2>1. [NoRecorder EXCEPT !.session = n] = rec
    BY DEF NoRecorder
  <2>2. SessionRow(c, NoRecorder, FALSE) = row
    BY DEF NoRecorder, SessionRow
  <2> HIDE DEF row, rec
  <2> QED
    BY <2>1, <2>2 DEF Open, Core, CoreType
<1>2. row \in AnyRows
  BY DEF AnyRows
<1>3. /\ sessions' \in Seq(AnyRows) /\ Len(sessions') = n
      /\ n \in Nat /\ n # 0
      /\ DOMAIN sessions' = 1..n /\ DOMAIN sessions = 1..Len(sessions)
      /\ sessions'[n] = row
      /\ \A i \in DOMAIN sessions : i \in DOMAIN sessions' /\ sessions'[i] = sessions[i]
  <2> HIDE DEF row
  <2> QED
    BY <1>1, <1>2
<1>4. CoreType'
  BY <1>1, <1>3 DEF Core, CoreType
<1>5. Grows
  BY <1>3, SameRowGrows DEF Grows, Core, CoreType
<1>7. /\ \A d \in Chains \ {c} : recs'[d] = recs[d]
      /\ recs'[c] = rec
      /\ \A d \in Chains : recs[d].session # 0 => recs[d].session \in DOMAIN sessions
  BY <1>1, <1>3 DEF Core, CoreType
<1>8. Whole(row) /\ Whole(rec) /\ Matches(c, rec, row) /\ rec.session = n
  BY DEF Whole, Matches
<1> HIDE DEF row, rec, n
<1>9. \A d \in Chains : Paired(d)'
  <2> TAKE d \in Chains
  <2>1. CASE d = c
    BY <1>3, <1>7, <1>8, <2>1 DEF Paired
  <2>2. CASE d # c
    BY <1>3, <1>7, <2>2 DEF Core, Paired, Opened
  <2> QED
    BY <2>1, <2>2
<1>10. WholeRanges'
  <2>1. \A i \in DOMAIN sessions' : i = n \/ i \in DOMAIN sessions
    BY <1>3 DEF n
  <2> QED
    BY <1>3, <1>7, <1>8, <2>1 DEF Core, WholeRanges
<1> QED
  BY <1>4, <1>5, <1>9, <1>10 DEF Core

(* What the rest of a write needs to know of the recorder it goes to.      *)
LEMMA RecorderAtWrite ==
  ASSUME Core, NEW c \in Chains, Opened(c)
  PROVE  /\ recs[c] \in Recorders
         /\ recs[c].session \in DOMAIN sessions
         /\ sessions[recs[c].session] \in AnyRows
         /\ Matches(c, recs[c], sessions[recs[c].session])
         /\ Whole(recs[c]) /\ Whole(sessions[recs[c].session])
<1>1. /\ recs[c] \in [session : 0..Len(sessions), from : Nat \cup {NoBlock},
                      to : Nat \cup {NoBlock}, total : Nat]
      /\ sessions \in Seq(AnyRows)
  BY DEF Core, CoreType
<1>2. Len(sessions) \in Nat /\ DOMAIN sessions = 1..Len(sessions)
  BY <1>1
<1>3. recs[c].session \in DOMAIN sessions
  BY <1>1, <1>2 DEF Opened
<1>4. recs[c] \in Recorders
  BY <1>1, <1>2 DEF Recorders
<1> QED
  BY <1>1, <1>3, <1>4 DEF Core, WholeRanges, Paired

(* No two recorders write to one session.                                  *)
LEMMA SessionsAreOwn ==
  ASSUME Core, NEW c \in Chains, NEW d \in Chains, Opened(c), Opened(d),
         recs[c].session = recs[d].session
  PROVE  c = d
BY DEF Core, Paired, Matches

LEMMA CommitKeepsCore ==
  ASSUME Core, NEW c \in Chains, NEW batch \in SUBSET LogsOf(c), batch # {},
         Opened(c), Commit(c, batch)
  PROVE  Core' /\ Grows
<1> DEFINE i   == recs[c].session
           r   == Counted(recs[c], batch)
           row == SessionRow(c, r, FALSE)
<1>1. batch \in SUBSET Logs /\ \A l \in batch : l.chain = c
  BY DEF LogsOf
<1>2. /\ recs[c] \in Recorders /\ i \in DOMAIN sessions /\ sessions[i] \in AnyRows
      /\ Matches(c, recs[c], sessions[i]) /\ Whole(sessions[i]) /\ Whole(recs[c])
  BY RecorderAtWrite
<1>3. /\ r \in Recorders /\ r.session = i
      /\ r.from \in Nat /\ r.to \in Nat
      /\ recs[c].from # NoBlock => r.from <= recs[c].from
      /\ recs[c].to <= r.to
      /\ recs[c].total <= r.total
      /\ \A l \in batch : r.from <= l.block /\ l.block <= r.to
  BY <1>1, <1>2, WideningCovers, CountingAdds
<1>4. row = [chain |-> c, from |-> r.from, to |-> r.to, total |-> r.total, closed |-> FALSE]
  BY DEF SessionRow
<1>5. /\ row \in AnyRows
      /\ row.chain = c /\ row.from = r.from /\ row.to = r.to /\ row.total = r.total
      /\ ~row.closed
  <2> HIDE DEF row, r
  <2> QED
    BY <1>3, <1>4 DEF AnyRows, Recorders
<1>6. /\ rows' = rows \cup batch
      /\ recs' = [recs EXCEPT ![c] = r]
      /\ recs \in [Chains -> [session : 0..Len(sessions), from : Nat \cup {NoBlock},
                              to : Nat \cup {NoBlock}, total : Nat]]
      /\ sessions \in Seq(AnyRows)
      /\ rows \subseteq Logs
  BY DEF Commit, Core, CoreType
<1>7. recs'[c] = r /\ \A d \in Chains \ {c} : recs'[d] = recs[d]
  <2> HIDE DEF r
  <2> QED
    BY <1>6
<1>8. sessions' = [sessions EXCEPT ![i] = row]
  BY <1>7 DEF Commit
<1> HIDE DEF r, row
<1>9. Whole(row) /\ Whole(r) /\ Matches(c, r, row)
  BY <1>3, <1>5 DEF Whole, Matches, NoBlock, Recorders
<1>10. RowGrows(sessions[i], row)
  <2>1. ~sessions[i].closed /\ row.chain = sessions[i].chain /\ sessions[i].total <= row.total
    BY <1>2, <1>3, <1>5 DEF Matches
  <2>2. CASE sessions[i].from = NoBlock
    <3>1. sessions[i].to = NoBlock
      BY <1>2, <2>2 DEF Whole
    <3>2. sessions[i].to <= row.to
      BY <1>3, <1>5, <3>1 DEF NoBlock
    <3> QED
      BY <2>1, <2>2, <3>2 DEF RowGrows
  <2>3. CASE sessions[i].from # NoBlock
    BY <1>2, <1>3, <1>5, <2>1, <2>3 DEF RowGrows, Matches, AnyRows, Recorders, NoBlock
  <2> QED
    BY <2>2, <2>3
<1>11. /\ sessions' \in Seq(AnyRows) /\ Len(sessions') = Len(sessions)
       /\ DOMAIN sessions' = DOMAIN sessions
       /\ sessions'[i] = row
       /\ \A j \in DOMAIN sessions \ {i} : sessions'[j] = sessions[j]
  BY <1>2, <1>5, <1>6, <1>8
<1>12. CoreType'
  <2>1. r \in [session : 0..Len(sessions'), from : Nat \cup {NoBlock},
               to : Nat \cup {NoBlock}, total : Nat]
    BY <1>2, <1>3, <1>6, <1>11 DEF Recorders
  <2> QED
    BY <1>1, <1>6, <1>11, <2>1 DEF CoreType
<1>13. Grows
  BY <1>6, <1>10, <1>11, SameRowGrows DEF Grows
<1>15. \A d \in Chains : Paired(d)'
  <2> TAKE d \in Chains
  <2>1. CASE d = c
    BY <1>3, <1>7, <1>9, <1>11, <2>1 DEF Paired
  <2>2. CASE d # c /\ Opened(d)
    <3>1. recs[d].session \in DOMAIN sessions /\ recs[d].session # i
      BY <2>2, RecorderAtWrite, SessionsAreOwn
    <3> QED
      BY <1>7, <1>11, <2>2, <3>1 DEF Core, Paired, Opened
  <2>3. CASE d # c /\ ~Opened(d)
    BY <1>7, <2>3 DEF Paired, Opened
  <2> QED
    BY <2>1, <2>2, <2>3
<1>16. WholeRanges'
  BY <1>7, <1>9, <1>11 DEF Core, WholeRanges
<1> QED
  BY <1>12, <1>13, <1>15, <1>16 DEF Core

(* A write that fails changes no more than the range in memory.            *)
LEMMA RollbackKeepsCore ==
  ASSUME Core, NEW c \in Chains, NEW batch \in SUBSET LogsOf(c), batch # {},
         Opened(c), Rollback(c, batch)
  PROVE  Core' /\ Grows
<1> DEFINE i == recs[c].session
           r == Widened(recs[c], batch)
<1>1. batch \in SUBSET Logs
  BY DEF LogsOf
<1>2. /\ recs[c] \in Recorders /\ i \in DOMAIN sessions /\ sessions[i] \in AnyRows
      /\ Matches(c, recs[c], sessions[i])
  BY RecorderAtWrite
<1>3. /\ r \in Recorders /\ r.session = i /\ r.total = recs[c].total
      /\ r.from \in Nat /\ r.to \in Nat
      /\ recs[c].from # NoBlock => r.from <= recs[c].from
      /\ recs[c].to <= r.to
  BY <1>1, <1>2, WideningCovers
<1>4. /\ recs' = [recs EXCEPT ![c] = r]
      /\ UNCHANGED <<rows, sessions>>
      /\ recs \in [Chains -> [session : 0..Len(sessions), from : Nat \cup {NoBlock},
                              to : Nat \cup {NoBlock}, total : Nat]]
      /\ sessions \in Seq(AnyRows)
      /\ rows \subseteq Logs
  BY DEF Rollback, Core, CoreType
<1> HIDE DEF r
<1>5. recs'[c] = r /\ \A d \in Chains \ {c} : recs'[d] = recs[d]
  BY <1>4
<1>6. Whole(r) /\ Matches(c, r, sessions[i])
  BY <1>2, <1>3 DEF Whole, Matches, Recorders, AnyRows, NoBlock
<1>7. CoreType'
  <2>1. r \in [session : 0..Len(sessions), from : Nat \cup {NoBlock},
               to : Nat \cup {NoBlock}, total : Nat]
    BY <1>2, <1>3, <1>4 DEF Recorders
  <2> QED
    BY <1>4, <2>1 DEF CoreType
<1>8. Grows
  BY <1>4, SameRowGrows DEF Grows
<1>10. \A d \in Chains : Paired(d)'
  BY <1>3, <1>4, <1>5, <1>6 DEF Core, Paired, Opened
<1>11. WholeRanges'
  BY <1>4, <1>5, <1>6 DEF Core, WholeRanges
<1> QED
  BY <1>7, <1>8, <1>10, <1>11 DEF Core

(* Closing a session leaves its range at least as wide.                    *)
LEMMA ClosingGrows ==
  ASSUME Core, NEW c \in Chains, Opened(c)
  PROVE  /\ SessionRow(c, recs[c], TRUE) \in AnyRows
         /\ Whole(SessionRow(c, recs[c], TRUE))
         /\ RowGrows(sessions[recs[c].session], SessionRow(c, recs[c], TRUE))
<1> DEFINE s == sessions[recs[c].session]
           r == recs[c]
           t == SessionRow(c, recs[c], TRUE)
<1>1. /\ r \in Recorders /\ s \in AnyRows
      /\ Matches(c, r, s) /\ Whole(r) /\ Whole(s)
  BY RecorderAtWrite
<1>2. t = [chain |-> c, from |-> r.from, to |-> r.to, total |-> r.total, closed |-> TRUE]
  BY DEF SessionRow
<1> HIDE DEF r, s, t
<1>3. /\ t \in AnyRows
      /\ t.chain = c /\ t.from = r.from /\ t.to = r.to /\ t.total = r.total
  BY <1>1, <1>2 DEF AnyRows, Recorders
<1>4. Whole(t)
  BY <1>1, <1>3 DEF Whole
<1>5. ~s.closed /\ t.chain = s.chain /\ s.total <= t.total
  BY <1>1, <1>3 DEF Matches, AnyRows
<1>6. s.to <= t.to
  <2>1. CASE s.from = NoBlock
    <3>1. s.to = NoBlock
      BY <1>1, <2>1 DEF Whole
    <3> QED
      BY <1>1, <1>3, <3>1 DEF Recorders, NoBlock
  <2>2. CASE s.from # NoBlock
    BY <1>1, <1>3, <2>2 DEF Matches
  <2> QED
    BY <2>1, <2>2
<1>7. s.from # NoBlock => t.from <= s.from
  BY <1>1, <1>3 DEF Matches
<1>8. RowGrows(s, t)
  BY <1>5, <1>6, <1>7 DEF RowGrows
<1> QED
  BY <1>3, <1>4, <1>8 DEF r, s, t

LEMMA ShutdownKeepsCore ==
  ASSUME Core, Shutdown
  PROVE  Core' /\ Grows
<1> DEFINE Closes(saved, i) == \E c \in saved : recs[c].session = i
           closed(i) == SessionRow(sessions[i].chain, recs[sessions[i].chain], TRUE)
<1>1. PICK saved \in SUBSET Chains :
        sessions' = [i \in DOMAIN sessions |-> IF Closes(saved, i) THEN closed(i) ELSE sessions[i]]
  BY DEF Shutdown
<1>2. /\ \A c \in Chains : Opened(c)
      /\ recs' = [c \in Chains |-> NoRecorder]
      /\ rows' = rows
      /\ sessions \in Seq(AnyRows)
  BY DEF Shutdown, Serving, Core, CoreType
<1>3. \A i \in DOMAIN sessions : Closes(saved, i) =>
        /\ closed(i) \in AnyRows /\ Whole(closed(i)) /\ RowGrows(sessions[i], closed(i))
  <2> SUFFICES ASSUME NEW i \in DOMAIN sessions, NEW c \in saved, recs[c].session = i
               PROVE  closed(i) \in AnyRows /\ Whole(closed(i)) /\ RowGrows(sessions[i], closed(i))
    OBVIOUS
  <2>1. c \in Chains /\ Opened(c)
    BY <1>2
  <2>2. sessions[i].chain = c
    BY <2>1, RecorderAtWrite DEF Matches
  <2> QED
    BY <2>1, <2>2, ClosingGrows
<1>4. \A i \in DOMAIN sessions : sessions[i] \in AnyRows /\ Whole(sessions[i])
  BY <1>2 DEF Core, WholeRanges
<1> HIDE DEF Closes, closed
<1>5. \A i \in DOMAIN sessions :
        /\ i \in DOMAIN sessions' /\ sessions'[i] \in AnyRows
        /\ Whole(sessions'[i]) /\ RowGrows(sessions[i], sessions'[i])
  <2> TAKE i \in DOMAIN sessions
  <2>1. sessions'[i] = IF Closes(saved, i) THEN closed(i) ELSE sessions[i]
    BY <1>1
  <2>2. i \in DOMAIN sessions'
    BY <1>1
  <2>3. CASE Closes(saved, i)
    BY <1>3, <2>1, <2>2, <2>3
  <2>4. CASE ~Closes(saved, i)
    BY <1>4, <2>1, <2>2, <2>4, SameRowGrows
  <2> QED
    BY <2>3, <2>4
<1>6. sessions' \in Seq(AnyRows) /\ DOMAIN sessions' = DOMAIN sessions
  <2>1. DOMAIN sessions' = 1..Len(sessions) /\ DOMAIN sessions = 1..Len(sessions)
        /\ Len(sessions) \in Nat
    BY <1>1, <1>2
  <2>2. sessions' \in [1..Len(sessions) -> AnyRows]
    BY <1>1, <1>5, <2>1
  <2> QED
    BY <2>1, <2>2
<1>7. NoRecorder.session = 0 /\ Whole(NoRecorder)
      /\ NoRecorder \in [session : 0..Len(sessions'), from : Nat \cup {NoBlock},
                         to : Nat \cup {NoBlock}, total : Nat]
  BY <1>6 DEF NoRecorder, Whole
<1>8. CoreType'
  BY <1>2, <1>6, <1>7 DEF Core, CoreType
<1>9. Grows
  BY <1>5 DEF Grows
<1>11. WholeRanges' /\ \A c \in Chains : Paired(c)'
  BY <1>2, <1>5, <1>6, <1>7 DEF WholeRanges, Paired, Opened
<1> QED
  BY <1>8, <1>9, <1>11 DEF Core

LEMMA CrashKeepsCore ==
  ASSUME Core, Crash
  PROVE  Core' /\ Grows
<1>1. recs' = [c \in Chains |-> NoRecorder] /\ UNCHANGED <<rows, sessions>>
  BY DEF Crash
<1>2. NoRecorder.session = 0 /\ Whole(NoRecorder)
  BY DEF NoRecorder, Whole
<1>3. CoreType'
  BY <1>1 DEF Core, CoreType, NoRecorder
<1>4. Grows
  BY <1>1, SameRowGrows DEF Grows, Core, CoreType
<1>6. WholeRanges' /\ \A c \in Chains : Paired(c)'
  BY <1>1, <1>2 DEF Core, WholeRanges, Paired, Opened
<1> QED
  BY <1>3, <1>4, <1>6 DEF Core

(* A step of one recorder, wherever it stands among the others.            *)
RecorderMoves ==
  \/ \E c \in Chains : Open(c)
  \/ \E c \in Chains : \E batch \in SUBSET LogsOf(c) : Write(c, batch)
  \/ Shutdown
  \/ Crash

LEMMA MoveKeepsCore ==
  ASSUME Core, [RecorderMoves]_rvars
  PROVE  Core' /\ Grows /\ rows \subseteq rows'
<1>1. rows \subseteq rows'
  BY DEF RecorderMoves, rvars, Open, Write, Commit, Rollback, Shutdown, Crash
<1>2. CASE \E c \in Chains : Open(c)
  BY <1>1, <1>2, OpenKeepsCore
<1>3. ASSUME NEW c \in Chains, NEW batch \in SUBSET LogsOf(c), Write(c, batch)
      PROVE  Core' /\ Grows
  <2>1. Opened(c) /\ batch # {} /\ (Commit(c, batch) \/ Rollback(c, batch))
    BY <1>3 DEF Write
  <2> QED
    BY <2>1, CommitKeepsCore, RollbackKeepsCore
<1>4. CASE Shutdown
  BY <1>1, <1>4, ShutdownKeepsCore
<1>5. CASE Crash
  BY <1>1, <1>5, CrashKeepsCore
<1>6. CASE UNCHANGED rvars
  BY <1>1, <1>6, StutterKeepsCore
<1> QED
  BY <1>1, <1>2, <1>3, <1>4, <1>5, <1>6 DEF RecorderMoves

-----------------------------------------------------------------------------
(* Among the recorders.                                                    *)

LEMMA TypesAgree ==
  ASSUME CoreType
  PROVE  RTypeOK <=> \A i \in DOMAIN sessions : sessions[i].chain \in Chains
<1>1. sessions \in [1..Len(sessions) -> AnyRows] /\ Len(sessions) \in Nat
  BY DEF CoreType
<1>2. ASSUME \A i \in DOMAIN sessions : sessions[i].chain \in Chains PROVE sessions \in Seq(SessionRows)
  <2>1. \A i \in 1..Len(sessions) : sessions[i] \in SessionRows
    BY <1>1, <1>2 DEF AnyRows, SessionRows
  <2>2. sessions \in [1..Len(sessions) -> SessionRows]
    BY <1>1, <2>1
  <2> QED
    BY <1>1, <2>2
<1>3. ASSUME RTypeOK PROVE \A i \in DOMAIN sessions : sessions[i].chain \in Chains
  <2>1. sessions \in [1..Len(sessions) -> SessionRows]
    BY <1>3 DEF RTypeOK
  <2> QED
    BY <1>1, <2>1 DEF SessionRows
<1> QED
  BY <1>2, <1>3 DEF CoreType, RTypeOK

LEMMA TypesInclude ==
  ASSUME RTypeOK
  PROVE  CoreType
<1>1. SessionRows \subseteq AnyRows
  BY DEF SessionRows, AnyRows
<1> QED
  BY <1>1 DEF RTypeOK, CoreType

LEMMA InitEstablishes == RInit => IInv
<1> SUFFICES ASSUME RInit PROVE IInv
  OBVIOUS
<1>1. RTypeOK
  BY DEF RInit, RTypeOK, NoRecorder
<1>2. WholeRanges
  BY DEF RInit, WholeRanges, NoRecorder, Whole
<1>3. RowsInRange /\ \A c \in Chains : Paired(c)
  BY DEF RInit, RowsInRange, NoRecorder, Opened, Paired
<1> QED
  BY <1>1, <1>2, <1>3 DEF IInv

LEMMA IInvIsCore ==
  ASSUME IInv
  PROVE  Core /\ \A i \in DOMAIN sessions : sessions[i].chain \in Chains
BY TypesInclude, TypesAgree DEF IInv, Core

(* The session a write goes to shows what it commits.                      *)
LEMMA CommitShows ==
  ASSUME Core, NEW c \in Chains, NEW batch \in SUBSET LogsOf(c), batch # {},
         Opened(c), Commit(c, batch)
  PROVE  LET i == recs[c].session
         IN  /\ i \in DOMAIN sessions /\ DOMAIN sessions' = DOMAIN sessions
             /\ \A j \in DOMAIN sessions \ {i} : sessions'[j] = sessions[j]
             /\ sessions'[i].chain = c
             /\ sessions'[i].from \in Nat
             /\ sessions'[i].total = sessions[i].total + Cardinality(batch)
             /\ \A l \in batch : sessions'[i].from <= l.block /\ l.block <= sessions'[i].to
<1> DEFINE i   == recs[c].session
           r   == Counted(recs[c], batch)
           row == SessionRow(c, r, FALSE)
<1>1. batch \in SUBSET Logs
  BY DEF LogsOf
<1>2. /\ recs[c] \in Recorders /\ i \in DOMAIN sessions
      /\ Matches(c, recs[c], sessions[i])
  BY RecorderAtWrite
<1>3. /\ r \in Recorders /\ r.from = Widened(recs[c], batch).from /\ r.to = Widened(recs[c], batch).to
      /\ r.total = recs[c].total + Cardinality(batch)
      /\ r.from \in Nat
      /\ \A l \in batch : r.from <= l.block /\ l.block <= r.to
  BY <1>1, <1>2, WideningCovers, CountingAdds
<1>4. row.chain = c /\ row.from = r.from /\ row.to = r.to /\ row.total = r.total
  BY DEF SessionRow
<1>5. recs' = [recs EXCEPT ![c] = r] /\ recs \in [Chains -> [session : 0..Len(sessions), from : Nat \cup {NoBlock},
                                                        to : Nat \cup {NoBlock}, total : Nat]]
  BY DEF Commit, Core, CoreType
<1>6. recs'[c] = r
  <2> HIDE DEF r
  <2> QED
    BY <1>5
<1>7. sessions' = [sessions EXCEPT ![i] = row]
  BY <1>6 DEF Commit
<1> HIDE DEF r, row
<1>8. sessions'[i] = row
  BY <1>2, <1>7
<1>9. sessions[i].total = recs[c].total
  BY <1>2 DEF Matches
<1> QED
  BY <1>2, <1>3, <1>4, <1>7, <1>8, <1>9

LEMMA MovePreserves ==
  ASSUME IInv, [RecorderMoves]_rvars
  PROVE  IInv' /\ Grows /\ rows \subseteq rows'
<1>1. Core /\ Core' /\ Grows /\ rows \subseteq rows'
  BY IInvIsCore, MoveKeepsCore
<1>2. \A i \in DOMAIN sessions' : i \in DOMAIN sessions \/ sessions'[i].chain \in Chains
  <2>1. ASSUME NEW c \in Chains, Open(c), NEW i \in DOMAIN sessions', i \notin DOMAIN sessions
        PROVE  sessions'[i].chain \in Chains
    <3> DEFINE row == SessionRow(c, NoRecorder, FALSE)
    <3>1. row \in AnyRows /\ row.chain = c
      BY DEF SessionRow, NoRecorder, AnyRows
    <3>2. sessions' = Append(sessions, row) /\ sessions \in Seq(AnyRows)
      BY <1>1, <2>1 DEF Open, Core, CoreType
    <3> HIDE DEF row
    <3>3. sessions'[i] = row
      BY <2>1, <3>1, <3>2
    <3> QED
      BY <3>1, <3>3
  <2>2. ASSUME NEW c \in Chains, NEW batch \in SUBSET LogsOf(c), Write(c, batch)
        PROVE  DOMAIN sessions' = DOMAIN sessions
    BY <2>2 DEF Write, Commit, Rollback
  <2>3. CASE Shutdown \/ Crash \/ UNCHANGED rvars
    BY <2>3 DEF Shutdown, Crash, rvars
  <2> QED
    BY <2>1, <2>2, <2>3 DEF RecorderMoves
<1>3. \A i \in DOMAIN sessions' : sessions'[i].chain \in Chains
  BY <1>1, <1>2, IInvIsCore DEF Grows, RowGrows
<1>4. CoreType'
  BY <1>1 DEF Core
<1>5. RTypeOK'
  <2>1. sessions' \in Seq(SessionRows)
    <3>1. sessions' \in [1..Len(sessions') -> AnyRows] /\ Len(sessions') \in Nat
      BY <1>4 DEF CoreType
    <3>2. \A i \in 1..Len(sessions') : sessions'[i] \in SessionRows
      BY <1>3, <3>1 DEF AnyRows, SessionRows
    <3>3. sessions' \in [1..Len(sessions') -> SessionRows]
      BY <3>1, <3>2
    <3> QED
      BY <3>1, <3>3
  <2> QED
    BY <1>4, <2>1 DEF CoreType, RTypeOK
<1>6. \A l \in rows : \E i \in DOMAIN sessions' :
        /\ sessions'[i].chain = l.chain /\ sessions'[i].from <= l.block /\ l.block <= sessions'[i].to
  BY <1>1, <1>4, RowsStayInRange DEF IInv
<1>7. ASSUME NEW c \in Chains, NEW batch \in SUBSET LogsOf(c), batch # {}, Opened(c), Commit(c, batch)
      PROVE  RowsInRange'
  <2>1. rows' = rows \cup batch
    BY <1>7 DEF Commit
  <2>2. ASSUME NEW l \in batch
        PROVE  \E i \in DOMAIN sessions' :
                 /\ sessions'[i].chain = l.chain /\ sessions'[i].from <= l.block /\ l.block <= sessions'[i].to
    <3>1. l.chain = c
      BY DEF LogsOf
    <3> QED
      BY <1>1, <1>7, <3>1, CommitShows
  <2> QED
    BY <1>6, <2>1, <2>2 DEF RowsInRange
<1>8. ASSUME rows' = rows PROVE RowsInRange'
  BY <1>6, <1>8 DEF RowsInRange
<1>9. RowsInRange'
  BY <1>7, <1>8 DEF RecorderMoves, Open, Write, Rollback, Shutdown, Crash, rvars
<1> QED
  BY <1>1, <1>5, <1>9 DEF IInv, Core

LEMMA NextPreserves ==
  ASSUME IInv, [RNext]_rvars
  PROVE  IInv' /\ Grows
BY MovePreserves DEF RNext, RecorderMoves

LEMMA Invariance == RSpec => []IInv
<1>1. IInv /\ [RNext]_rvars => IInv'
  BY NextPreserves
<1> QED
  BY <1>1, InitEstablishes, PTL DEF RSpec

-----------------------------------------------------------------------------
(* What the sessions count.  The totals cover the rows because each commit *)
(* makes room for as many as it inserts, in a session of the same chain,   *)
(* and no other step changes a total.                                      *)

TInv == TotalsCover /\ \A c \in Chains : IsFiniteSet(CountedBy(c))

(* Steps that change no total, a new session beginning with none.          *)
LEMMA SameTotalsSameCount ==
  ASSUME NEW c,
         \A i \in DOMAIN sessions :
           /\ i \in DOMAIN sessions'
           /\ sessions'[i].chain = sessions[i].chain
           /\ sessions'[i].chain = c => sessions'[i].total = sessions[i].total,
         \A i \in DOMAIN sessions' \ DOMAIN sessions : sessions'[i].total = 0
  PROVE  CountedBy(c)' = CountedBy(c)
<1> DEFINE Of(i)  == {i} \X (1..sessions[i].total)
           New(i) == {i} \X (1..sessions'[i].total)
<1>1. \A x : x \in CountedBy(c) <=> \E i \in DOMAIN sessions : sessions[i].chain = c /\ x \in Of(i)
  BY DEF CountedBy
<1>2. \A x : x \in CountedBy(c)' <=> \E i \in DOMAIN sessions' : sessions'[i].chain = c /\ x \in New(i)
  BY DEF CountedBy
<1>3. \A i \in DOMAIN sessions : sessions'[i].chain = c => New(i) = Of(i)
  OBVIOUS
<1>4. \A i \in DOMAIN sessions' \ DOMAIN sessions : New(i) = {}
  <2> TAKE i \in DOMAIN sessions' \ DOMAIN sessions
  <2>1. 1..sessions'[i].total = {}
    OBVIOUS
  <2> QED
    BY <2>1
<1> HIDE DEF Of, New
<1>5. \A x : x \in CountedBy(c)' <=> x \in CountedBy(c)
  BY <1>1, <1>2, <1>3, <1>4
<1> QED
  BY <1>5

(* A commit.                                                               *)
LEMMA CommitCounts ==
  ASSUME Core, TInv, NEW c \in Chains, NEW batch \in SUBSET LogsOf(c), batch # {},
         Opened(c), Commit(c, batch)
  PROVE  TInv'
<1> DEFINE i == recs[c].session
           n == Cardinality(batch)
           t == sessions[i].total
           room == {i} \X ((t + 1)..(t + n))
<1>1. /\ i \in DOMAIN sessions /\ DOMAIN sessions' = DOMAIN sessions
      /\ \A j \in DOMAIN sessions \ {i} : sessions'[j] = sessions[j]
      /\ sessions'[i].chain = c /\ sessions'[i].from \in Nat
      /\ sessions'[i].total = t + n
  BY CommitShows
<1>2. /\ batch \in SUBSET Logs /\ IsFiniteSet(batch) /\ n \in Nat /\ n # 0
      /\ batch \subseteq LogsOf(c)
  <2>1. batch \in SUBSET Logs
    BY DEF LogsOf
  <2>2. IsFiniteSet(batch)
    BY <2>1, RecorderAssumption, FS_Subset
  <2> QED
    BY <2>1, <2>2, FS_EmptySet, FS_CardinalityType
<1>3. sessions[i] \in AnyRows /\ sessions[i].chain = c
  BY RecorderAtWrite DEF Matches
<1>4. t \in Nat
  BY <1>3 DEF AnyRows
<1>5. rows \subseteq Logs /\ rows' = rows \cup batch
  BY DEF Core, CoreType, Commit
<1> HIDE DEF i, n, t
<1>6. IsFiniteSet(room) /\ Cardinality(room) = n
  <2>1. IsFiniteSet({i}) /\ Cardinality({i}) = 1
    BY FS_Singleton
  <2>2. IsFiniteSet((t + 1)..(t + n)) /\ Cardinality((t + 1)..(t + n)) = n
    BY <1>2, <1>4, FS_Interval
  <2> DEFINE T == (t + 1)..(t + n)
  <2>3. IsFiniteSet(T) /\ Cardinality(T) = n /\ room = {i} \X T
    BY <2>2
  <2> HIDE DEF T, room
  <2>4. IsFiniteSet({i} \X T) /\ Cardinality({i} \X T) = Cardinality({i}) * Cardinality(T)
    BY <2>1, <2>3, FS_Product
  <2>5. 1 * n = n
    BY <1>2
  <2> QED
    BY <2>1, <2>3, <2>4, <2>5
<1>7. CountedBy(c)' = CountedBy(c) \cup room /\ CountedBy(c) \cap room = {}
  <2> DEFINE Of(j)  == {j} \X (1..sessions[j].total)
             New(j) == {j} \X (1..sessions'[j].total)
  <2>1. \A x : x \in CountedBy(c) <=> \E j \in DOMAIN sessions : sessions[j].chain = c /\ x \in Of(j)
    BY DEF CountedBy
  <2>2. \A x : x \in CountedBy(c)' <=> \E j \in DOMAIN sessions' : sessions'[j].chain = c /\ x \in New(j)
    BY DEF CountedBy
  <2>3. \A j \in DOMAIN sessions \ {i} : New(j) = Of(j) /\ sessions'[j].chain = sessions[j].chain
    BY <1>1
  <2>4. New(i) = Of(i) \cup room
    <3>1. 1..(t + n) = (1..t) \cup ((t + 1)..(t + n))
      BY <1>2, <1>4
    <3>2. Of(i) = {i} \X (1..t) /\ New(i) = {i} \X (1..(t + n))
      BY <1>1 DEF t
    <3> QED
      BY <3>1, <3>2
  <2>5. \A j : Of(j) \cap room = {}
    <3> SUFFICES ASSUME NEW j, NEW k, k \in 1..sessions[j].total, k \in (t + 1)..(t + n), j = i
                 PROVE  FALSE
      OBVIOUS
    <3> QED
      BY <1>2, <1>4 DEF t
  <2> HIDE DEF Of, New, room
  <2>6. \A x : x \in CountedBy(c)' <=> x \in CountedBy(c) \/ x \in room
    BY <1>1, <1>3, <2>1, <2>2, <2>3, <2>4
  <2>7. \A x : ~(x \in CountedBy(c) /\ x \in room)
    BY <2>1, <2>5
  <2> QED
    BY <2>6, <2>7
<1>8. \A d \in Chains \ {c} : CountedBy(d)' = CountedBy(d)
  <2> TAKE d \in Chains \ {c}
  <2>1. \A j \in DOMAIN sessions :
          /\ j \in DOMAIN sessions'
          /\ sessions'[j].chain = sessions[j].chain
          /\ sessions'[j].chain = d => sessions'[j].total = sessions[j].total
    BY <1>1, <1>3
  <2> QED
    BY <1>1, <2>1, SameTotalsSameCount
<1>9. \A d \in Chains : IsFiniteSet(CountedBy(d)')
  <2> TAKE d \in Chains
  <2> HIDE DEF room
  <2>1. IsFiniteSet(CountedBy(c)) /\ IsFiniteSet(CountedBy(d))
    BY DEF TInv
  <2>2. IsFiniteSet(CountedBy(c) \cup room)
    BY <1>6, <2>1, FS_Union
  <2> QED
    BY <1>7, <1>8, <2>1, <2>2
<1>10. Cardinality(rows' \cap LogsOf(c)) <= Cardinality(CountedBy(c)')
  <2> DEFINE old == rows \cap LogsOf(c)
  <2>1. rows' \cap LogsOf(c) = old \cup batch
    BY <1>2, <1>5
  <2>2. IsFiniteSet(old) /\ Cardinality(old) <= Cardinality(CountedBy(c))
    BY <1>5, RecorderAssumption, FS_Subset DEF TInv, TotalsCover
  <2> HIDE DEF old, room
  <2>3. Cardinality(CountedBy(c) \cup room) = Cardinality(CountedBy(c)) + n
    <3>1. IsFiniteSet(CountedBy(c))
      BY DEF TInv
    <3>2. Cardinality(CountedBy(c)) \in Nat /\ Cardinality(CountedBy(c) \cap room) = 0
      BY <1>7, <3>1, FS_CardinalityType, FS_EmptySet
    <3>3. Cardinality(CountedBy(c) \cup room)
            = Cardinality(CountedBy(c)) + Cardinality(room) - Cardinality(CountedBy(c) \cap room)
      BY <1>6, <3>1, FS_Union
    <3> QED
      BY <1>2, <1>6, <3>2, <3>3
  <2>4. Cardinality(old \cup batch) <= Cardinality(old) + n
    <3>1. Cardinality(old \cup batch) = Cardinality(old) + Cardinality(batch) - Cardinality(old \cap batch)
      BY <1>2, <2>2, FS_Union
    <3>2. Cardinality(old) \in Nat /\ Cardinality(old \cap batch) \in Nat /\ Cardinality(batch) = n
      BY <1>2, <2>2, FS_Subset, FS_CardinalityType DEF n
    <3> QED
      BY <1>2, <3>1, <3>2
  <2>5. /\ Cardinality(old) \in Nat /\ Cardinality(CountedBy(c)) \in Nat
        /\ Cardinality(old \cup batch) \in Nat
    BY <1>2, <2>2, FS_Union, FS_CardinalityType DEF TInv
  <2> QED
    BY <1>2, <1>7, <2>1, <2>2, <2>3, <2>4, <2>5
<1>11. \A d \in Chains : Cardinality(rows' \cap LogsOf(d)) <= Cardinality(CountedBy(d)')
  <2> TAKE d \in Chains
  <2>1. CASE d # c
    <3>1. rows' \cap LogsOf(d) = rows \cap LogsOf(d)
      BY <1>2, <1>5, <2>1 DEF LogsOf
    <3> QED
      BY <1>8, <2>1, <3>1 DEF TInv, TotalsCover
  <2> QED
    BY <1>10, <2>1
<1>12. \A j \in DOMAIN sessions' : ~sessions'[j].closed =>
         (sessions'[j].total = 0 <=> sessions'[j].from = NoBlock)
  <2> TAKE j \in DOMAIN sessions'
  <2>1. CASE j = i
    BY <1>1, <1>2, <1>4, <2>1 DEF NoBlock
  <2>2. CASE j # i
    BY <1>1, <2>2 DEF TInv, TotalsCover
  <2> QED
    BY <2>1, <2>2
<1> QED
  BY <1>9, <1>11, <1>12 DEF TInv, TotalsCover

(* Any other step of a recorder.                                           *)
LEMMA QuietStepCounts ==
  ASSUME TInv, rows' = rows,
         \A i \in DOMAIN sessions :
           /\ i \in DOMAIN sessions'
           /\ sessions'[i].chain = sessions[i].chain
           /\ sessions'[i].total = sessions[i].total
           /\ sessions'[i].closed \/ sessions'[i] = sessions[i],
         \A i \in DOMAIN sessions' \ DOMAIN sessions :
           sessions'[i].total = 0 /\ sessions'[i].from = NoBlock
  PROVE  TInv'
<1>1. \A c \in Chains : CountedBy(c)' = CountedBy(c)
  BY SameTotalsSameCount
<1>2. \A j \in DOMAIN sessions' : ~sessions'[j].closed =>
         (sessions'[j].total = 0 <=> sessions'[j].from = NoBlock)
  BY DEF TInv, TotalsCover
<1> QED
  BY <1>1, <1>2 DEF TInv, TotalsCover

LEMMA MoveCounts ==
  ASSUME Core, TInv, [RecorderMoves]_rvars
  PROVE  TInv'
<1>1. ASSUME NEW c \in Chains, Open(c) PROVE TInv'
  <2> DEFINE row == SessionRow(c, NoRecorder, FALSE)
  <2>1. row \in AnyRows /\ row.total = 0 /\ row.from = NoBlock
    BY DEF SessionRow, NoRecorder, AnyRows
  <2>2. sessions' = Append(sessions, row) /\ sessions \in Seq(AnyRows) /\ rows' = rows
    BY <1>1 DEF Open, Core, CoreType
  <2> HIDE DEF row
  <2>3. /\ \A i \in DOMAIN sessions : i \in DOMAIN sessions' /\ sessions'[i] = sessions[i]
        /\ \A i \in DOMAIN sessions' \ DOMAIN sessions : sessions'[i] = row
    BY <2>1, <2>2
  <2> QED
    BY <2>1, <2>2, <2>3, QuietStepCounts
<1>2. ASSUME NEW c \in Chains, NEW batch \in SUBSET LogsOf(c), Write(c, batch) PROVE TInv'
  <2>1. CASE Commit(c, batch)
    BY <1>2, <2>1, CommitCounts DEF Write
  <2>2. CASE Rollback(c, batch)
    BY <2>2, QuietStepCounts DEF Rollback
  <2> QED
    BY <1>2, <2>1, <2>2 DEF Write
<1>3. ASSUME Shutdown PROVE TInv'
  <2> DEFINE closed(i) == SessionRow(sessions[i].chain, recs[sessions[i].chain], TRUE)
             Closes(saved, i) == \E c \in saved : recs[c].session = i
  <2>1. PICK saved \in SUBSET Chains :
          sessions' = [i \in DOMAIN sessions |-> IF Closes(saved, i) THEN closed(i) ELSE sessions[i]]
    BY <1>3 DEF Shutdown
  <2>2. \A i \in DOMAIN sessions : Closes(saved, i) =>
          closed(i).chain = sessions[i].chain /\ closed(i).total = sessions[i].total /\ closed(i).closed
    <3> SUFFICES ASSUME NEW i \in DOMAIN sessions, NEW c \in saved, recs[c].session = i
                 PROVE  closed(i).chain = sessions[i].chain /\ closed(i).total = sessions[i].total
                        /\ closed(i).closed
      OBVIOUS
    <3>1. c \in Chains /\ Opened(c)
      BY <1>3 DEF Shutdown, Serving
    <3>2. sessions[i].chain = c /\ sessions[i].total = recs[c].total
      BY <3>1, RecorderAtWrite DEF Matches
    <3> QED
      BY <3>2 DEF SessionRow
  <2>3. rows' = rows
    BY <1>3 DEF Shutdown
  <2> HIDE DEF closed, Closes
  <2>4. DOMAIN sessions' = DOMAIN sessions
    BY <2>1
  <2>5. \A i \in DOMAIN sessions : sessions'[i] = sessions[i] \/ (Closes(saved, i) /\ sessions'[i] = closed(i))
    BY <2>1
  <2> QED
    BY <2>2, <2>3, <2>4, <2>5, QuietStepCounts
<1>4. CASE Crash \/ UNCHANGED rvars
  BY <1>4, QuietStepCounts DEF Crash, rvars
<1> QED
  BY <1>1, <1>2, <1>3, <1>4 DEF RecorderMoves

LEMMA InitCounts == RInit => TInv
<1> SUFFICES ASSUME RInit PROVE TInv
  OBVIOUS
<1>1. rows = {} /\ DOMAIN sessions = {}
  BY DEF RInit
<1>2. \A c \in Chains : CountedBy(c) = {} /\ rows \cap LogsOf(c) = {}
  BY <1>1 DEF CountedBy
<1> QED
  BY <1>1, <1>2, FS_EmptySet DEF TInv, TotalsCover

-----------------------------------------------------------------------------
(* Every reachable state of the database and of the recorders is of the    *)
(* expected type; the session of a live recorder exists.                   *)
THEOREM TypeCorrect == RSpec => []RTypeOK
<1>1. IInv => RTypeOK
  BY DEF IInv
<1> QED
  BY <1>1, Invariance, PTL

(* Whatever fails, crashes or is written again, each recorded log lies in  *)
(* the range that some session of its chain shows.                         *)
THEOREM RowsAreInRange == RSpec => []RowsInRange
<1>1. IInv => RowsInRange
  BY DEF IInv
<1> QED
  BY <1>1, Invariance, PTL

(* The totals of a chain's sessions account for all its rows, and an open  *)
(* session has a range exactly if it has counted something.                *)
THEOREM TotalsAccountForRows == RSpec => []TotalsCover
<1>1. TInv /\ IInv /\ [RNext]_rvars => TInv'
  BY MoveCounts, IInvIsCore DEF RNext, RecorderMoves
<1>2. TInv => TotalsCover
  BY DEF TInv
<1> QED
  BY <1>1, <1>2, InitCounts, Invariance, PTL DEF RSpec

(* A live recorder has an open session of its own, the total of which it   *)
(* agrees with and the range of which it covers, also after failed writes. *)
THEOREM MemoryAgreesWithDatabase == RSpec => []MemoryAgrees
<1>1. IInv => MemoryAgrees
  BY DEF IInv, Paired, Matches, MemoryAgrees
<1> QED
  BY <1>1, Invariance, PTL

(* No step takes back what a session shows, and a closed one stays as it   *)
(* is.                                                                     *)
THEOREM SessionsAreNeverTakenBack == RSpec => SessionsOnlyGrow
<1> DEFINE Kept ==
      \A i \in DOMAIN sessions :
        /\ i \in DOMAIN sessions'
        /\ sessions[i].closed => sessions'[i] = sessions[i]
        /\ sessions[i].total <= sessions'[i].total
        /\ sessions[i].to <= sessions'[i].to
        /\ sessions[i].from # NoBlock => sessions'[i].from <= sessions[i].from
<1>1. IInv /\ [RNext]_rvars => [Kept]_rvars
  BY NextPreserves DEF Grows, RowGrows
<1> HIDE DEF Kept
<1>2. RSpec => [][Kept]_rvars
  BY <1>1, Invariance, PTL DEF RSpec
<1> QED
  BY <1>2 DEF SessionsOnlyGrow, Kept

-----------------------------------------------------------------------------
(* The migration script beside the recorders.                              *)

ScriptType ==
  [phase : {"idle", "waiting", "importing", "ended", "failed"},
   dir : Seq(Seq(Lines)), file : Nat, flushed : Nat]

(* File f is in the database, and so is its session.                       *)
Done(f) ==
  /\ Inserted(f, 0, Len(f)) \subseteq rows
  /\ \E i \in DOMAIN sessions : sessions[i] = SessionOf(f)

Busy == script.phase \in {"waiting", "importing"}

(* What a run has committed so far: all earlier files, and of its file the *)
(* lines it has flushed.                                                   *)
Imported ==
  /\ Busy => /\ script.file \in DOMAIN script.dir
             /\ script.flushed \in 0..Len(File)
             /\ Inserted(File, 0, script.flushed) \subseteq rows
             /\ \A i \in DOMAIN script.dir : i < script.file => Done(script.dir[i])
  /\ script.phase = "ended" => \A i \in DOMAIN script.dir : Done(script.dir[i])

MInv == Core /\ script \in ScriptType /\ Imported

(* The session of a file, and what a reader finds by it.                   *)
LEMMA SessionOfIsARow ==
  ASSUME NEW f \in Seq(Lines)
  PROVE  /\ SessionOf(f) \in AnyRows
         /\ SessionOf(f).closed
         /\ Whole(SessionOf(f))
         /\ \A l \in Inserted(f, 0, Len(f)) :
              SessionOf(f).from <= l.block /\ l.block <= SessionOf(f).to
<1> DEFINE parsed == Parsed(f, 0, Len(f))
           logs   == {f[i].log : i \in parsed}
           blocks == BlocksOf(logs)
<1>1. /\ f \in [1..Len(f) -> Lines] /\ Len(f) \in Nat
      /\ parsed \in SUBSET (1..Len(f))
      /\ logs \in SUBSET Logs
      /\ \A i \in parsed : f[i].log \in logs /\ f[i].log.chain \in Chains
  <2>1. f \in [1..Len(f) -> Lines] /\ Len(f) \in Nat
    OBVIOUS
  <2>2. parsed \in SUBSET (1..Len(f))
    BY DEF Parsed
  <2>3. \A i \in 1..Len(f) : f[i].log \in Logs /\ f[i].log.chain \in Chains
    BY <2>1, RecorderAssumption DEF Lines
  <2> HIDE DEF parsed
  <2> QED
    BY <2>1, <2>2, <2>3
<1>2. IsFiniteSet(parsed) /\ Cardinality(parsed) \in Nat
  <2>1. IsFiniteSet(1..Len(f))
    <3>1. Len(f) \in Int
      OBVIOUS
    <3> QED
      BY <3>1, FS_Interval
  <2> HIDE DEF parsed
  <2> QED
    BY <1>1, <2>1, FS_Subset, FS_CardinalityType
<1>3. blocks \in SUBSET Nat /\ IsFiniteSet(blocks)
  <2> HIDE DEF logs
  <2> QED
    BY <1>1, BlocksAreFinite
<1>4. \A l \in Inserted(f, 0, Len(f)) : l \in logs /\ parsed # {}
  <2> SUFFICES ASSUME NEW k \in (0 + 1)..Len(f), f[k].kind = "log"
               PROVE  f[k].log \in logs /\ parsed # {}
    BY DEF Inserted
  <2>1. k \in parsed
    BY DEF Parsed
  <2> HIDE DEF parsed
  <2> QED
    BY <2>1
<1>5. CASE parsed = {}
  <2>1. SessionOf(f) = SessionRow(UnknownChain, NoRecorder, TRUE)
    BY <1>5 DEF SessionOf
  <2>2. SessionOf(f) =
          [chain |-> UnknownChain, from |-> NoBlock, to |-> NoBlock, total |-> 0, closed |-> TRUE]
    BY <2>1 DEF SessionRow, NoRecorder
  <2>4. SessionOf(f) \in AnyRows /\ SessionOf(f).closed /\ Whole(SessionOf(f))
    BY <2>2 DEF AnyRows, Whole
  <2> QED
    BY <1>4, <1>5, <2>4
<1>6. CASE parsed # {}
  <2> DEFINE first == Min(parsed)
             row == [chain |-> f[first].log.chain, from |-> Min(blocks), to |-> Max(blocks),
                     total |-> Cardinality(parsed), closed |-> TRUE]
  <2>1. SessionOf(f) = row
    BY <1>6 DEF SessionOf
  <2>2. first \in parsed
    <3> HIDE DEF parsed
    <3> QED
      BY <1>1, <1>6, MinBounds
  <2>3. blocks # {}
    <3> HIDE DEF parsed
    <3> QED
      BY <1>6 DEF BlocksOf
  <2>4. \A l \in logs : l.block \in blocks
    BY DEF BlocksOf
  <2> HIDE DEF parsed, logs, blocks, first
  <2>5. /\ Min(blocks) \in blocks /\ \A y \in blocks : Min(blocks) <= y
        /\ Max(blocks) \in blocks /\ \A y \in blocks : Max(blocks) >= y
    BY <1>3, <2>3, MinBounds, MaxBounds
  <2>6. row \in AnyRows /\ row.closed /\ Whole(row)
    <3>1. f[first].log.chain \in Chains /\ Min(blocks) \in Nat /\ Max(blocks) \in Nat
      BY <1>1, <1>3, <2>2, <2>5
    <3>2. Min(blocks) # NoBlock /\ Max(blocks) # NoBlock
      BY <3>1 DEF NoBlock
    <3> QED
      BY <1>2, <3>1, <3>2 DEF AnyRows, Whole
  <2>7. \A l \in Inserted(f, 0, Len(f)) : row.from <= l.block /\ l.block <= row.to
    <3> TAKE l \in Inserted(f, 0, Len(f))
    <3>1. l.block \in blocks
      BY <1>4, <2>4
    <3> QED
      BY <1>3, <2>5, <3>1
  <2> HIDE DEF row
  <2> QED
    BY <2>1, <2>6, <2>7
<1> QED
  BY <1>5, <1>6

(* What one stretch of lines and the next insert.                          *)
LEMMA StretchesJoin ==
  ASSUME NEW f, NEW a \in Nat, NEW b \in Nat, a <= b
  PROVE  Inserted(f, 0, b) \subseteq Inserted(f, 0, a) \cup Inserted(f, a, b)
BY DEF Inserted

LEMMA InsertedAreLogs ==
  ASSUME NEW f \in Seq(Lines), NEW a \in Nat, NEW b \in 0..Len(f)
  PROVE  Inserted(f, a, b) \subseteq Logs
<1> SUFFICES ASSUME NEW k \in (a + 1)..b
             PROVE  f[k].log \in Logs
  BY DEF Inserted
<1>1. k \in 1..Len(f) /\ f \in [1..Len(f) -> Lines]
  OBVIOUS
<1> QED
  BY <1>1 DEF Lines

(* What is in the database stays there.                                    *)
LEMMA DoneStays ==
  ASSUME Grows, rows \subseteq rows', NEW f \in Seq(Lines), Done(f)
  PROVE  Done(f)'
<1>1. PICK i \in DOMAIN sessions : sessions[i] = SessionOf(f)
  BY DEF Done
<1>2. sessions'[i] = SessionOf(f) /\ i \in DOMAIN sessions'
  BY <1>1, SessionOfIsARow DEF Grows, RowGrows
<1>3. SessionOf(f)' = SessionOf(f)
  BY DEF SessionOf, Parsed, SessionRow, NoRecorder, BlocksOf
<1> QED
  BY <1>2, <1>3 DEF Done, Inserted

(* The file a busy script is at.                                           *)
LEMMA FileIsLines ==
  ASSUME MInv, Busy
  PROVE  /\ script.dir \in Seq(Seq(Lines)) /\ script.file \in DOMAIN script.dir
         /\ File \in Seq(Lines) /\ Len(File) \in Nat /\ script.flushed \in 0..Len(File)
BY DEF MInv, Imported, ScriptType, File

-----------------------------------------------------------------------------
(* Steps of the script.                                                    *)

(* Rows that are added, and a session that is, leave the recorders' alone. *)
LEMMA ScriptKeepsCore ==
  ASSUME Core, recs' = recs, NEW new \in SUBSET Logs, rows' = rows \cup new,
         sessions' = sessions \/ \E f \in Seq(Lines) : sessions' = Append(sessions, SessionOf(f))
  PROVE  Core' /\ Grows /\ rows \subseteq rows'
<1>1. /\ sessions \in Seq(AnyRows) /\ rows \subseteq Logs
      /\ recs \in [Chains -> [session : 0..Len(sessions), from : Nat \cup {NoBlock},
                              to : Nat \cup {NoBlock}, total : Nat]]
  BY DEF Core, CoreType
<1>2. CASE sessions' = sessions
  <2>1. Core'
    BY <1>1, <1>2 DEF Core, CoreType, WholeRanges, Paired, Opened
  <2>2. Grows
    BY <1>1, <1>2, SameRowGrows DEF Grows
  <2> QED
    BY <2>1, <2>2
<1>3. ASSUME NEW f \in Seq(Lines), sessions' = Append(sessions, SessionOf(f))
      PROVE  Core' /\ Grows /\ rows \subseteq rows'
  <2> DEFINE row == SessionOf(f)
             n   == Len(sessions) + 1
  <2>1. row \in AnyRows /\ Whole(row)
    BY SessionOfIsARow
  <2>2. sessions' = Append(sessions, row)
    BY <1>3
  <2> HIDE DEF row
  <2>3. /\ sessions' \in Seq(AnyRows) /\ Len(sessions') = n /\ n \in Nat
        /\ DOMAIN sessions' = 1..n /\ DOMAIN sessions = 1..Len(sessions)
        /\ sessions'[n] = row
        /\ \A i \in DOMAIN sessions : i \in DOMAIN sessions' /\ sessions'[i] = sessions[i]
    BY <1>1, <2>1, <2>2
  <2>4. CoreType'
    BY <1>1, <2>3 DEF CoreType
  <2>5. Grows
    BY <1>1, <2>3, SameRowGrows DEF Grows
  <2>6. \A c \in Chains : Paired(c)'
    <3> TAKE c \in Chains
    <3>1. Opened(c) => recs[c].session \in DOMAIN sessions
      BY RecorderAtWrite
    <3> QED
      BY <2>3, <3>1 DEF Core, Paired, Opened
  <2>7. WholeRanges'
    <3>1. \A i \in DOMAIN sessions' : i = n \/ i \in DOMAIN sessions
      BY <2>3
    <3> QED
      BY <2>1, <2>3, <3>1 DEF Core, WholeRanges
  <2> QED
    BY <2>4, <2>5, <2>6, <2>7 DEF Core
<1> QED
  BY <1>2, <1>3

LEMMA StartKeepsMInv ==
  ASSUME MInv, NEW dir \in Directories, StartScript(dir)
  PROVE  MInv' /\ Grows
<1> DEFINE s == [phase |-> "waiting", dir |-> dir, file |-> 1, flushed |-> 0]
<1>1. /\ dir \in Seq(Seq(Lines)) /\ dir # <<>>
      /\ UNCHANGED rvars /\ script' = s
  BY MigrationAssumption DEF StartScript, rvars
<1>2. Core' /\ Grows
  BY <1>1, StutterKeepsCore DEF MInv
<1>3. 1 \in DOMAIN dir /\ \A i \in DOMAIN dir : ~(i < 1)
  BY <1>1
<1>4. /\ script'.phase = "waiting" /\ script'.dir = dir /\ script'.file = 1 /\ script'.flushed = 0
      /\ script' \in ScriptType
  BY <1>1 DEF ScriptType
<1>5. File' = dir[1] /\ dir[1] \in Seq(Lines)
  BY <1>1, <1>3, <1>4 DEF File
<1>6. (Inserted(File, 0, script.flushed))' = {}
  BY <1>4 DEF Inserted
<1>7. 0 \in 0..Len(dir[1])
  BY <1>5
<1>8. Imported'
  BY <1>3, <1>4, <1>5, <1>6, <1>7 DEF Imported
<1> QED
  BY <1>2, <1>4, <1>8 DEF MInv

(* The script waits no more, or gives up: the database is as it was.       *)
LEMMA PhaseKeepsMInv ==
  ASSUME MInv, TakeLock \/ GiveUp
  PROVE  MInv' /\ Grows
<1>1. UNCHANGED rvars /\ rows' = rows /\ sessions' = sessions
      /\ \/ Busy /\ script' = [script EXCEPT !.phase = "importing"]
         \/ script' = [script EXCEPT !.phase = "failed"]
  BY DEF TakeLock, GiveUp, Busy, rvars
<1>2. Core' /\ Grows
  BY <1>1, StutterKeepsCore DEF MInv
<1>3. /\ script' \in ScriptType
      /\ script'.dir = script.dir /\ script'.file = script.file /\ script'.flushed = script.flushed
      /\ (Busy /\ script'.phase = "importing") \/ script'.phase = "failed"
  BY <1>1 DEF MInv, ScriptType
<1>4. File' = File
  BY <1>3 DEF File
<1>5. (Inserted(File, 0, script.flushed))' = Inserted(File, 0, script.flushed)
  BY <1>3, <1>4 DEF Inserted
<1>6. \A i \in DOMAIN script.dir : Done(script.dir[i]) => (Done(script.dir[i]))'
  <2> TAKE i \in DOMAIN script.dir
  <2>1. script.dir[i] \in Seq(Lines)
    BY DEF MInv, ScriptType
  <2>2. rows \subseteq rows'
    BY <1>1
  <2>3. \A f : Done(f) /\ f \in Seq(Lines) => Done(f)'
    BY <1>2, <2>2, DoneStays
  <2> QED
    BY <1>3, <2>1, <2>3 DEF Done, Inserted
<1>7. Imported'
  BY <1>1, <1>3, <1>4, <1>5, <1>6 DEF MInv, Imported, Busy
<1> QED
  BY <1>2, <1>3, <1>7 DEF MInv

LEMMA FullBatchKeepsMInv ==
  ASSUME MInv, FullBatch
  PROVE  MInv' /\ Grows
<1> DEFINE a == script.flushed
           b == FullAt
           full == {e \in Parsed(File, a, Len(File)) : Cardinality(Parsed(File, a, e)) >= BatchSize}
<1>1. Busy
  BY DEF FullBatch, Locked, Busy
<1>2. /\ script.dir \in Seq(Seq(Lines)) /\ script.file \in DOMAIN script.dir
      /\ File \in Seq(Lines) /\ Len(File) \in Nat /\ a \in 0..Len(File)
  BY <1>1, FileIsLines
<1>3. b \in (a + 1)..Len(File)
  <2>1. full \in SUBSET ((a + 1)..Len(File)) /\ (a + 1)..Len(File) \in SUBSET Nat
    BY <1>2 DEF Parsed
  <2>2. b = IF full = {} THEN Len(File) + 1 ELSE Min(full)
    BY DEF FullAt
  <2>3. b <= Len(File)
    BY DEF FullBatch
  <2> HIDE DEF full, a, b
  <2>4. full # {}
    BY <1>2, <2>2, <2>3
  <2>5. b \in full
    BY <2>1, <2>2, <2>4, MinBounds
  <2> QED
    BY <2>1, <2>5
<1>4. /\ rows' = rows \cup Inserted(File, a, b)
      /\ script' = [script EXCEPT !.phase = "waiting", !.flushed = b]
      /\ UNCHANGED <<sessions, recs>>
  BY DEF FullBatch
<1> HIDE DEF a, b, full
<1>5. Inserted(File, a, b) \in SUBSET Logs
  BY <1>2, <1>3, InsertedAreLogs
<1>6. Core' /\ Grows /\ rows \subseteq rows'
  <2> DEFINE new == Inserted(File, a, b)
  <2>1. new \in SUBSET Logs /\ rows' = rows \cup new
    BY <1>4, <1>5
  <2> HIDE DEF new
  <2> QED
    BY <1>4, <2>1, ScriptKeepsCore DEF MInv
<1>7. /\ script' \in ScriptType
      /\ script'.phase = "waiting" /\ script'.flushed = b
      /\ script'.dir = script.dir /\ script'.file = script.file
  <2>1. b \in Nat /\ script \in ScriptType
    BY <1>2, <1>3 DEF MInv
  <2> QED
    BY <1>4, <2>1 DEF ScriptType
<1>8. File' = File
  BY <1>7 DEF File
<1>9. (Inserted(File, 0, script.flushed))' \subseteq rows'
  <2>1. (Inserted(File, 0, script.flushed))' = Inserted(File, 0, b)
    BY <1>7, <1>8 DEF Inserted
  <2>2. Inserted(File, 0, a) \subseteq rows
    BY <1>1 DEF MInv, Imported, a
  <2>3. Inserted(File, 0, b) \subseteq Inserted(File, 0, a) \cup Inserted(File, a, b)
    BY <1>2, <1>3, StretchesJoin
  <2> QED
    BY <1>4, <2>1, <2>2, <2>3
<1>10. \A f : f \in Seq(Lines) /\ Done(f) => Done(f)'
  BY <1>6, DoneStays
<1>11. \A i \in DOMAIN script.dir : i < script.file => (Done(script.dir[i]))'
  <2> SUFFICES ASSUME NEW i \in DOMAIN script.dir, i < script.file
               PROVE  (Done(script.dir[i]))'
    OBVIOUS
  <2>1. script.dir[i] \in Seq(Lines) /\ Done(script.dir[i])
    BY <1>1, <1>2 DEF MInv, Imported
  <2> QED
    BY <1>7, <1>10, <2>1 DEF Done, Inserted
<1>12. Imported'
  BY <1>2, <1>3, <1>7, <1>8, <1>9, <1>11 DEF Imported
<1> QED
  BY <1>6, <1>7, <1>12 DEF MInv

LEMMA FinishFileKeepsMInv ==
  ASSUME MInv, FinishFile
  PROVE  MInv' /\ Grows
<1> DEFINE a == script.flushed
           n == Len(File)
           new == Inserted(File, a, n)
<1>1. Busy
  BY DEF FinishFile, Locked, Busy
<1>2. /\ script.dir \in Seq(Seq(Lines)) /\ script.file \in DOMAIN script.dir
      /\ File \in Seq(Lines) /\ n \in Nat /\ a \in 0..n
  BY <1>1, FileIsLines
<1>3. /\ rows' = rows \cup new
      /\ sessions' = Append(sessions, SessionOf(File))
      /\ recs' = recs
      /\ script' = IF script.file < Len(script.dir)
                   THEN [script EXCEPT !.phase = "waiting", !.file = @ + 1, !.flushed = 0]
                   ELSE [script EXCEPT !.phase = "ended"]
  BY DEF FinishFile
<1>4. new \in SUBSET Logs
  BY <1>2, InsertedAreLogs
<1>5. Core' /\ Grows /\ rows \subseteq rows'
  <2> HIDE DEF new
  <2> QED
    BY <1>2, <1>3, <1>4, ScriptKeepsCore DEF MInv
<1>6. \A f : f \in Seq(Lines) /\ Done(f) => Done(f)'
  BY <1>5, DoneStays
<1>7. File = script.dir[script.file] /\ script.dir[script.file] \in Seq(Lines)
  BY <1>2 DEF File
<1>8. ASSUME NEW f, f = File PROVE Done(f)'
  <2>1. Inserted(f, 0, n) \subseteq rows'
    <3>1. Inserted(File, 0, a) \subseteq rows
      BY <1>1 DEF MInv, Imported
    <3>2. Inserted(File, 0, n) \subseteq Inserted(File, 0, a) \cup new
      BY <1>2, StretchesJoin
    <3> HIDE DEF new
    <3> QED
      BY <1>3, <1>8, <3>1, <3>2
  <2>2. Inserted(f, 0, Len(f))' \subseteq rows'
    BY <1>8, <2>1 DEF Inserted
  <2>3. Len(sessions) + 1 \in DOMAIN sessions' /\ sessions'[Len(sessions) + 1] = SessionOf(File)
    <3>1. sessions \in Seq(AnyRows) /\ SessionOf(File) \in AnyRows
      BY <1>2, SessionOfIsARow DEF MInv, Core, CoreType
    <3> DEFINE row == SessionOf(File)
    <3>2. sessions' = Append(sessions, row) /\ row \in AnyRows
      BY <1>3, <3>1
    <3> HIDE DEF row
    <3>3. Len(sessions) + 1 \in DOMAIN sessions' /\ sessions'[Len(sessions) + 1] = row
      BY <3>1, <3>2
    <3> QED
      BY <3>3 DEF row
  <2>4. SessionOf(f)' = SessionOf(File)
    BY <1>8 DEF SessionOf, Parsed, SessionRow, NoRecorder, BlocksOf
  <2> QED
    BY <2>2, <2>3, <2>4 DEF Done
<1>9. \A i \in DOMAIN script.dir : i <= script.file => (Done(script.dir[i]))'
  <2>0. script'.dir = script.dir
    BY <1>3 DEF MInv, ScriptType
  <2> SUFFICES ASSUME NEW i \in DOMAIN script.dir, i <= script.file, NEW f, f = script.dir[i]
               PROVE  Done(f)'
    BY <2>0 DEF Done, Inserted
  <2>1. CASE i = script.file
    BY <1>7, <1>8, <2>1
  <2>2. CASE i # script.file
    <3>1. i < script.file /\ f \in Seq(Lines)
      BY <1>2, <2>2
    <3>2. Done(f)
      BY <1>1, <3>1 DEF MInv, Imported
    <3> QED
      BY <1>6, <3>1, <3>2
  <2> QED
    BY <2>1, <2>2
<1> HIDE DEF a, n, new
<1>10. CASE script.file < Len(script.dir)
  <2>1. /\ script' \in ScriptType
        /\ script'.phase = "waiting" /\ script'.flushed = 0
        /\ script'.dir = script.dir /\ script'.file = script.file + 1
    <3>1. script' = [script EXCEPT !.phase = "waiting", !.file = @ + 1, !.flushed = 0]
      BY <1>3, <1>10
    <3>2. script \in ScriptType
      BY DEF MInv
    <3> DEFINE k == script.file + 1
    <3>3. script' = [script EXCEPT !.phase = "waiting", !.file = k, !.flushed = 0]
      BY <3>1
    <3>4. k \in Nat
      BY <3>2 DEF ScriptType
    <3> HIDE DEF k
    <3>5. /\ script' \in ScriptType
          /\ script'.phase = "waiting" /\ script'.flushed = 0
          /\ script'.dir = script.dir /\ script'.file = k
      BY <3>2, <3>3, <3>4 DEF ScriptType
    <3> QED
      BY <3>5 DEF k
  <2>2. script'.file \in DOMAIN script'.dir /\ script.dir[script.file + 1] \in Seq(Lines)
    BY <1>2, <1>10, <2>1
  <2>3. File' = script.dir[script.file + 1] /\ 0 \in 0..Len(File')
    BY <2>1, <2>2 DEF File
  <2>4. (Inserted(File, 0, script.flushed))' = {}
    BY <2>1 DEF Inserted
  <2>5. \A i \in DOMAIN script.dir : i < script.file + 1 => i <= script.file
    BY <1>2
  <2>6. \A i \in DOMAIN script'.dir : i < script'.file => (Done(script.dir[i]))'
    BY <1>9, <2>1, <2>5 DEF Done, Inserted
  <2>7. Imported'
    BY <2>1, <2>2, <2>3, <2>4, <2>6 DEF Imported
  <2> QED
    BY <1>5, <2>1, <2>7 DEF MInv
<1>11. CASE ~(script.file < Len(script.dir))
  <2>1. script' \in ScriptType /\ script'.phase = "ended" /\ script'.dir = script.dir
    BY <1>2, <1>3, <1>11 DEF MInv, ScriptType
  <2>2. \A i \in DOMAIN script.dir : i <= script.file
    BY <1>2, <1>11
  <2>3. \A i \in DOMAIN script'.dir : (Done(script.dir[i]))'
    BY <1>9, <2>1, <2>2 DEF Done, Inserted
  <2>4. Imported'
    BY <2>1, <2>3 DEF Imported, Busy
  <2> QED
    BY <1>5, <2>1, <2>4 DEF MInv
<1> QED
  BY <1>10, <1>11

(* A recorder writes, or nobody does.                                      *)
LEMMA OthersKeepMInv ==
  ASSUME MInv, script' = script, [RecorderMoves]_rvars
  PROVE  MInv' /\ Grows
<1>1. Core' /\ Grows /\ rows \subseteq rows'
  BY MoveKeepsCore DEF MInv
<1>2. File' = File /\ \A f, x, y : Inserted(f, x, y)' = Inserted(f, x, y)
  BY DEF File, Inserted
<1>3. \A i \in DOMAIN script.dir : Done(script.dir[i]) => (Done(script.dir[i]))'
  <2> TAKE i \in DOMAIN script.dir
  <2>1. script.dir[i] \in Seq(Lines)
    BY DEF MInv, ScriptType
  <2>2. \A f : Done(f) /\ f \in Seq(Lines) => Done(f)'
    BY <1>1, DoneStays
  <2> QED
    BY <2>1, <2>2 DEF Done, Inserted
<1>4. (Inserted(File, 0, script.flushed))' = Inserted(File, 0, script.flushed)
  BY <1>2 DEF Inserted
<1>5. Imported'
  BY <1>1, <1>2, <1>3, <1>4 DEF MInv, Imported, Busy
<1> QED
  BY <1>1, <1>5 DEF MInv

LEMMA MigrationStep ==
  ASSUME MInv, [MNext]_mvars
  PROVE  MInv' /\ Grows
<1>1. CASE RecorderStep
  BY <1>1, OthersKeepMInv DEF RecorderStep, RecorderMoves
<1>2. CASE UNCHANGED mvars
  BY <1>2, OthersKeepMInv DEF mvars, rvars
<1>3. CASE Proceed \/ GiveUp
  BY <1>3, PhaseKeepsMInv, FullBatchKeepsMInv, FinishFileKeepsMInv DEF Proceed
<1> QED
  BY <1>1, <1>2, <1>3, StartKeepsMInv DEF MNext

LEMMA MigrationInvariance == MSpec => []MInv
<1>1. MInit => MInv
  <2> SUFFICES ASSUME MInit PROVE MInv
    OBVIOUS
  <2>1. Core
    BY InitEstablishes, IInvIsCore DEF MInit
  <2>2. script \in ScriptType /\ script.phase = "idle"
    BY DEF MInit, NoRun, ScriptType
  <2> QED
    BY <2>1, <2>2 DEF MInv, Imported, Busy
<1>2. MInv /\ [MNext]_mvars => MInv'
  BY MigrationStep
<1> QED
  BY <1>1, <1>2, PTL DEF MSpec

-----------------------------------------------------------------------------
(* A script that says it is complete has the logs of all its files in the  *)
(* database, each where a reader of the sessions finds it if its file's    *)
(* session can show it; however often it failed before, and whatever the   *)
(* recorders wrote or lost meanwhile.                                      *)
THEOREM CompleteMeansComplete == MSpec => []MigrationIsComplete
<1>1. MInv => MigrationIsComplete
  <2> SUFFICES ASSUME MInv, script.phase = "ended"
               PROVE  /\ LogsIn(script.dir) \subseteq rows
                      /\ \A l \in LogsIn(script.dir) \ Strays(script.dir) : \E i \in DOMAIN sessions :
                           /\ sessions[i].chain = l.chain
                           /\ sessions[i].from <= l.block
                           /\ l.block <= sessions[i].to
    BY DEF MigrationIsComplete
  <2>1. \A k \in DOMAIN script.dir : Done(script.dir[k]) /\ script.dir[k] \in Seq(Lines)
    BY DEF MInv, Imported, ScriptType
  <2>2. LogsIn(script.dir) \subseteq rows
    BY <2>1 DEF LogsIn, Done
  <2>3. ASSUME NEW l \in LogsIn(script.dir), l \notin Strays(script.dir)
        PROVE  \E i \in DOMAIN sessions :
                 /\ sessions[i].chain = l.chain
                 /\ sessions[i].from <= l.block
                 /\ l.block <= sessions[i].to
    <3>1. PICK k \in DOMAIN script.dir : l \in Inserted(script.dir[k], 0, Len(script.dir[k]))
      BY DEF LogsIn
    <3>2. l.chain = SessionOf(script.dir[k]).chain
      BY <2>3, <3>1 DEF Strays
    <3>3. PICK i \in DOMAIN sessions : sessions[i] = SessionOf(script.dir[k])
      BY <2>1 DEF Done
    <3> QED
      BY <2>1, <3>1, <3>2, <3>3, SessionOfIsARow
  <2> QED
    BY <2>2, <2>3
<1> QED
  BY <1>1, MigrationInvariance, PTL

(* A migration leaves the recorders of a running process alone: their      *)
(* memory stays in step with their sessions, and no session is taken back. *)
THEOREM MigrationLeavesRecordersAlone == MSpec => []MemoryAgrees /\ SessionsOnlyGrow
<1> DEFINE Kept ==
      \A i \in DOMAIN sessions :
        /\ i \in DOMAIN sessions'
        /\ sessions[i].closed => sessions'[i] = sessions[i]
        /\ sessions[i].total <= sessions'[i].total
        /\ sessions[i].to <= sessions'[i].to
        /\ sessions[i].from # NoBlock => sessions'[i].from <= sessions[i].from
<1>1. MInv => MemoryAgrees
  BY DEF MInv, Core, Paired, Matches, MemoryAgrees
<1>2. MInv /\ [MNext]_mvars => [Kept]_rvars
  BY MigrationStep DEF Grows, RowGrows
<1> HIDE DEF Kept
<1>3. MSpec => [][Kept]_rvars
  BY <1>2, MigrationInvariance, PTL DEF MSpec
<1>4. MSpec => []MemoryAgrees
  BY <1>1, MigrationInvariance, PTL
<1> QED
  BY <1>3, <1>4 DEF SessionsOnlyGrow, Kept
=============================================================================
