--------------------------- MODULE MCChainListener ---------------------------
(* The answers and the openings of the listener run. *)
EXTENDS ChainListener

Answer(kind, code) ==
  [kind |-> kind, code |-> code, says |-> {}, large |-> FALSE, height |-> 0]

MCAnswers ==
  {Answer("list", 0), Answer("null", 0), Answer("error", Limit), Answer("status", 429),
   Answer("timeout", 0), Answer("exhausted", 0)}

Opening(login, config) ==
  [server |-> TRUE, nodes |-> FALSE, login |-> login, keys |-> "done", config |-> config,
   refresh |-> "done"]

(* An apipool-server that lets the listener in or not, and with or without *)
(* a configuration of the pool.                                            *)
MCSetups == {Opening(l, c) : l \in {"done", "raised"}, c \in {"done", "404", "status"}}
=============================================================================
