---------------------------- MODULE MCLogPusher ----------------------------
(* Constants of the LogPusher runs. *)
EXTENDS LogPusher, TLC

(* Log n is of chain n \div 10 and of block n % 10. *)
MCChainOf == [l \in Logs |-> l \div 10]
MCBlockOf == [l \in Logs |-> l % 10]

Symmetry == Permutations(Handlers)
=============================================================================
