----------------------------- MODULE MCLogReplay -----------------------------
(* Constants of the recording and replay run. *)
EXTENDS LogReplay, TLC

CONSTANTS c1, c2

MCLogs == {[chain |-> c1, block |-> 1, index |-> 0],
           [chain |-> c1, block |-> 3, index |-> 0],
           [chain |-> c2, block |-> 2, index |-> 0]}

MCChainOrder == <<c1, c2>>
MCAskedFrom  == {NoBlock}
MCAskedTo    == {3}
=============================================================================
