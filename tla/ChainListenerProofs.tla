------------------------- MODULE ChainListenerProofs -------------------------
(***************************************************************************)
(* What holds of ChainListener for chains, lags and numbers of restarts of *)
(* any size.                                                               *)
(***************************************************************************)
EXTENDS ChainListener, TLAPS

(* CoveredOnce needs to know that base and _last_block are set together    *)
(* and in order, and that the window under way starts after _last_block.   *)
Anchored ==
  /\ base = NoBlock <=> last_block = NoBlock
  /\ base <= last_block

(* ErrorStays needs to know that start() finds no error to clear. *)
FreshIsClean == task = "new" => ~error

IInv == TypeOK /\ Anchored /\ FreshIsClean /\ NeverAhead /\ CoveredOnce

LEMMA InitEstablishes == Init => IInv
<1> SUFFICES ASSUME Init PROVE IInv
  OBVIOUS
<1>1. head \in Nat
  BY ListenerAssumption DEF Init, Blocks
<1>2. TypeOK
  BY <1>1 DEF Init, TypeOK, NoBlock
<1>3. Anchored /\ FreshIsClean /\ NeverAhead
  BY <1>1 DEF Init, Anchored, FreshIsClean, NeverAhead, NoBlock
<1>4. CoveredOnce
  BY ListenerAssumption DEF Init, CoveredOnce, NoBlock, Blocks
<1> QED
  BY <1>2, <1>3, <1>4 DEF IInv

(* The one step that covers blocks: they are exactly those above           *)
(* _last_block up to what was asked for.                                   *)
LEMMA LogsKnownPreserves ==
  ASSUME IInv, NEW raises \in BOOLEAN, LogsKnown(raises)
  PROVE  IInv' /\ last_block' >= last_block
<1> USE DEF NoBlock
<1>1. /\ task = "logs"
      /\ last_block' = asked
      /\ handed' = [b \in Blocks |-> handed[b] + (IF b \in Window THEN 1 ELSE 0)]
      /\ error' = raises
      /\ task' \in {"sleep", "head"}
      /\ UNCHANGED <<asked, head, lives, base>>
  BY DEF LogsKnown
<1>2. /\ head \in Nat /\ head <= MaxHead
      /\ last_block \in Int /\ asked \in Int /\ base \in Int
      /\ 0 <= last_block /\ last_block < asked /\ asked <= head
      /\ base # NoBlock /\ base <= last_block
  BY <1>1, ListenerAssumption DEF IInv, TypeOK, NeverAhead, Anchored, Blocks
<1>3. Window \subseteq Blocks /\ asked \in Blocks
  BY <1>2, ListenerAssumption DEF Window, Blocks
<1>4. TypeOK'
  <2>1. handed' \in [Blocks -> Nat]
    BY <1>1 DEF IInv, TypeOK
  <2> QED
    BY <1>1, <1>3, <2>1 DEF IInv, TypeOK, Polling
<1>5. Anchored' /\ FreshIsClean' /\ NeverAhead'
  BY <1>1, <1>2 DEF Anchored, FreshIsClean, NeverAhead
<1>6. CoveredOnce'
  <2> SUFFICES ASSUME NEW b \in Blocks
               PROVE  handed'[b] = IF base' < b /\ b <= last_block' THEN 1 ELSE 0
    BY DEF CoveredOnce
  <2>1. b \in Nat /\ handed[b] = IF base < b /\ b <= last_block THEN 1 ELSE 0
    BY ListenerAssumption DEF IInv, CoveredOnce, Blocks
  <2>2. handed'[b] = handed[b] + (IF b \in Window THEN 1 ELSE 0)
    BY <1>1
  <2>3. b \in Window <=> last_block < b /\ b <= asked
    BY <2>1, <1>2 DEF Window
  <2> QED
    BY <2>1, <2>2, <2>3, <1>1, <1>2
<1> QED
  BY <1>1, <1>2, <1>4, <1>5, <1>6 DEF IInv

LEMMA HeadKnownPreserves ==
  ASSUME IInv, NEW b \in Blocks, HeadKnown(b)
  PROVE  IInv' /\ last_block' >= last_block
<1> USE DEF NoBlock
<1>1. /\ b \in Nat /\ b <= head /\ head \in Blocks /\ last_block \in Int /\ base \in Int
      /\ asked \in Blocks \cup {-1} /\ last_block \in Blocks \cup {-1}
      /\ base \in Blocks \cup {-1}
      /\ UNCHANGED <<error, head, lives, handed>>
      /\ task = "head"
  BY ListenerAssumption DEF HeadKnown, Heights, Blocks, IInv, TypeOK
<1>2. CASE FirstPoll(b)
  <2>1. /\ last_block = -1 /\ base = -1
        /\ last_block' = b /\ base' = b
        /\ UNCHANGED <<task, asked>>
    BY <1>1, <1>2 DEF FirstPoll, IInv, Anchored
  <2>2. TypeOK'
    BY <1>1, <2>1 DEF IInv, TypeOK
  <2>3. Anchored' /\ FreshIsClean' /\ NeverAhead'
    BY <1>1, <2>1 DEF Anchored, FreshIsClean, NeverAhead
  <2>4. CoveredOnce'
    <3> SUFFICES ASSUME NEW c \in Blocks
                 PROVE  handed'[c] = IF base' < c /\ c <= last_block' THEN 1 ELSE 0
      BY DEF CoveredOnce
    <3>1. c \in Nat /\ handed[c] = IF base < c /\ c <= last_block THEN 1 ELSE 0
      BY ListenerAssumption DEF IInv, CoveredOnce, Blocks
    <3> QED
      BY <3>1, <2>1, <1>1
  <2> QED
    BY <2>1, <2>2, <2>3, <2>4, <1>1 DEF IInv
<1>3. CASE LaterPoll(b)
  <2>1. /\ last_block # -1
        /\ UNCHANGED <<last_block, base>>
        /\ \/ task' = "sleep" /\ asked' = asked
           \/ task' = "logs" /\ asked' = b /\ last_block < b
    BY <1>1, <1>3 DEF LaterPoll, NothingNew
  <2>2. TypeOK'
    BY <1>1, <2>1 DEF IInv, TypeOK, Polling
  <2>3. Anchored' /\ FreshIsClean' /\ NeverAhead' /\ CoveredOnce'
    BY <1>1, <2>1 DEF IInv, Anchored, FreshIsClean, NeverAhead, CoveredOnce
  <2> QED
    BY <1>1, <2>1, <2>2, <2>3 DEF IInv
<1> QED
  BY <1>2, <1>3 DEF HeadKnown

(* The steps that leave the blocks alone and end outside a query. *)
LEMMA QuietPreserves ==
  ASSUME IInv, UNCHANGED <<last_block, asked, head, lives, base, handed>>,
         task' \in {"init", "stopped", "dead", "head", "sleep"},
         error' \in BOOLEAN
  PROVE  IInv' /\ last_block' >= last_block
<1>1. last_block \in Int
  BY ListenerAssumption DEF IInv, TypeOK, Blocks, NoBlock
<1>2. TypeOK'
  BY DEF IInv, TypeOK, Polling
<1>3. Anchored' /\ FreshIsClean' /\ NeverAhead' /\ CoveredOnce'
  BY DEF IInv, Anchored, FreshIsClean, NeverAhead, CoveredOnce
<1> QED
  BY <1>1, <1>2, <1>3 DEF IInv

LEMMA StepPreserves ==
  IInv /\ [Next]_vars => IInv' /\ (lives' = lives => last_block' >= last_block)
<1> SUFFICES ASSUME IInv, [Next]_vars
             PROVE  IInv' /\ (lives' = lives => last_block' >= last_block)
  OBVIOUS
<1>0. error \in BOOLEAN /\ last_block \in Int /\ head \in Int
  BY ListenerAssumption DEF IInv, TypeOK, Blocks, NoBlock
<1>1. ASSUME NEW b \in Blocks, HeadKnown(b)
      PROVE  IInv' /\ last_block' >= last_block
  BY <1>1, HeadKnownPreserves
<1>2. ASSUME NEW raises \in BOOLEAN, LogsKnown(raises)
      PROVE  IInv' /\ last_block' >= last_block
  BY <1>2, LogsKnownPreserves
<1>3. CASE PollFails \/ Wake \/ Start \/ PoolReady \/ PoolFails \/ Stop \/ Crash
  <2>1. /\ UNCHANGED <<last_block, asked, head, lives, base, handed>>
        /\ task' \in {"init", "stopped", "dead", "head", "sleep"}
        /\ error' \in BOOLEAN
    BY <1>0, <1>3 DEF PollFails, Wake, Start, PoolReady, PoolFails, Stop, Crash
  <2> QED
    BY <2>1, QuietPreserves
<1>4. CASE Restart
  <2>1. /\ lives \in Nat /\ lives' = lives + 1
        /\ task' = "new" /\ last_block' = -1 /\ asked' = -1 /\ base' = -1
        /\ error' = FALSE /\ handed' = [b \in Blocks |-> 0]
        /\ UNCHANGED head
    BY <1>4 DEF Restart, IInv, TypeOK, NoBlock
  <2>2. TypeOK'
    <3>1. handed' \in [Blocks -> Nat]
      BY <2>1
    <3>2. {last_block', asked', base'} \subseteq Blocks \cup {-1}
      BY <2>1 DEF IInv, TypeOK, NoBlock
    <3>3. /\ task' \in {"new", "init", "stopped", "dead"} \cup Polling
          /\ head' \in Blocks
      BY <2>1 DEF IInv, TypeOK
    <3>4. error' \in BOOLEAN
      BY <2>1
    <3>5. lives' \in Nat
      BY <2>1
    <3> QED
      BY <3>1, <3>2, <3>3, <3>4, <3>5 DEF TypeOK, NoBlock
  <2>3. Anchored' /\ FreshIsClean' /\ NeverAhead'
    <3>1. head \in Nat
      BY ListenerAssumption DEF IInv, TypeOK, Blocks
    <3> QED
      BY <2>1, <3>1 DEF Anchored, FreshIsClean, NeverAhead, NoBlock
  <2>4. CoveredOnce'
    BY <2>1, ListenerAssumption DEF CoveredOnce, Blocks
  <2> QED
    BY <2>1, <2>2, <2>3, <2>4 DEF IInv
<1>5. CASE Mine
  <2>1. /\ head' = head + 1 /\ head' \in Blocks
        /\ UNCHANGED <<task, last_block, asked, error, lives, base, handed>>
    BY <1>5, ListenerAssumption DEF Mine, IInv, TypeOK, Blocks
  <2>2. TypeOK'
    BY <2>1 DEF IInv, TypeOK
  <2>3. NeverAhead'
    BY <2>1, <1>0, ListenerAssumption DEF IInv, TypeOK, NeverAhead, Blocks, NoBlock
  <2>4. Anchored' /\ FreshIsClean' /\ CoveredOnce'
    BY <2>1 DEF IInv, Anchored, FreshIsClean, CoveredOnce
  <2> QED
    BY <2>1, <2>2, <2>3, <2>4, <1>0 DEF IInv
<1>6. CASE UNCHANGED vars
  BY <1>0, <1>6 DEF vars, IInv, TypeOK, Anchored, FreshIsClean, NeverAhead, CoveredOnce
<1> QED
  BY <1>1, <1>2, <1>3, <1>4, <1>5, <1>6 DEF Next

LEMMA Inductive == Spec => []IInv
<1>1. IInv /\ [Next]_vars => IInv'
  BY StepPreserves
<1> QED
  BY InitEstablishes, <1>1, PTL DEF Spec

-----------------------------------------------------------------------------
(* base.py, ChainListener: the state stays of its type. *)
THEOREM TypeCorrect == Spec => []TypeOK
<1>1. IInv => TypeOK
  BY DEF IInv
<1> QED
  BY <1>1, Inductive, PTL

(* base.py, _poll: a process covers each block after its first poll once,  *)
(* and no block beyond _last_block.                                        *)
THEOREM BlocksAreCoveredOnce == Spec => []CoveredOnce
<1>1. IInv => CoveredOnce
  BY DEF IInv
<1> QED
  BY <1>1, Inductive, PTL

(* base.py, _poll: _last_block is a block of the chain and a query that is *)
(* under way asks for existing blocks above it.                            *)
THEOREM ListenerIsNeverAhead == Spec => []NeverAhead
<1>1. IInv => NeverAhead
  BY DEF IInv
<1> QED
  BY <1>1, Inductive, PTL

(* base.py, _poll: a lagging node never moves _last_block back. *)
THEOREM ListenerNeverGoesBack == Spec => NeverBack
<1>1. IInv /\ [Next]_vars => [lives' = lives => last_block' >= last_block]_vars
  BY StepPreserves
<1> QED
  BY <1>1, Inductive, PTL DEF Spec, NeverBack

(* base.py, _poll_loop: only progress or a new process clears an error. *)
THEOREM ErrorsStay == Spec => ErrorStays
<1>1. ASSUME IInv, [Next]_vars, error, ~error'
      PROVE  last_block' > last_block \/ lives' # lives
  <2>0. lives \in Nat /\ lives + 1 # lives
    BY <1>1 DEF IInv, TypeOK
  <2>1. (\E raises \in BOOLEAN : LogsKnown(raises)) \/ Restart
    BY <1>1 DEF Next, HeadKnown, PollFails, Wake, Start, PoolReady, PoolFails, Stop, Crash, Mine, vars,
                IInv, FreshIsClean
  <2>2. CASE \E raises \in BOOLEAN : LogsKnown(raises)
    <3>1. last_block' = asked /\ task = "logs"
      BY <2>2 DEF LogsKnown
    <3>2. last_block \in Int /\ asked \in Int /\ last_block < asked
      BY <3>1, <1>1, ListenerAssumption DEF IInv, NeverAhead, TypeOK, Blocks, NoBlock
    <3> QED
      BY <3>1, <3>2
  <2>3. CASE Restart
    BY <2>0, <2>3 DEF Restart
  <2> QED
    BY <2>1, <2>2, <2>3
<1>2. IInv /\ [Next]_vars =>
        [error /\ ~error' => last_block' > last_block \/ lives' # lives]_vars
  BY <1>1
<1> QED
  BY <1>2, Inductive, PTL DEF Spec, ErrorStays
=============================================================================
