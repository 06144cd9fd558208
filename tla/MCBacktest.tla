------------------------------ MODULE MCBacktest ------------------------------
(* The openings and the configuration of the backtest run. *)
EXTENDS Backtest

(* An apipool-server that hands out its nodes now and then. *)
MCSetups ==
  {[server |-> TRUE, nodes |-> TRUE, login |-> "done", keys |-> k, config |-> "raised",
    refresh |-> "done"] : k \in {"done", "raised"}}

(* Two chains that were given one name: the second has it to itself, and   *)
(* the first is found by its id only.                                      *)
MCKeys       == {"main", "Main", "1", "2", "other"}
MCLower      == [k \in MCKeys |-> IF k = "Main" THEN "main" ELSE k]
MCConfigured == <<[name |-> "Main", id |-> "1"], [name |-> "Main", id |-> "2"]>>
=============================================================================
