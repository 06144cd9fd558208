----------------------------- MODULE MCLogPaging -----------------------------
(* Log n is of chain n \div 10 and has the rank n % 10; 11 and 31 have the  *)
(* same unique_key.                                                         *)
EXTENDS LogPaging

MCKeyOf   == [l \in Logs |-> IF l = 31 THEN 11 ELSE l]
MCChainOf == [l \in Logs |-> l \div 10]
MCRankOf  == [l \in Logs |-> l % 10]
MCTopicOf == [l \in Logs |-> IF l \in {11, 13, 22} THEN "transfer" ELSE "swap"]
MCBatches == {<<11, 12>>, <<13, 14>>, <<22>>, <<31>>}
=============================================================================
