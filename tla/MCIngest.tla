------------------------------- MODULE MCIngest -------------------------------
(* Constants of the ingest runs: log n is of chain n \div 10 and of block    *)
(* n % 10; 12 and 22, of two chains, have the same unique_key; the           *)
(* AlertProcessor has consumed chain 1 up to block 1 and nothing of chain 2. *)
EXTENDS Ingest

MCChainOf    == [l \in Logs |-> l \div 10]
MCBlockOf    == [l \in Logs |-> l % 10]
MCChainOrder == <<1, 2>>
MCKeyOf      == [l \in Logs |-> IF l = 22 THEN 12 ELSE l]
MCKnown      == [c \in ChainIds |-> IF c = 1 THEN 1 ELSE 0]
=============================================================================
