---------------------------- MODULE MCBinarySearch ----------------------------
(* The answers of the query runs. *)
EXTENDS BinarySearch

Plain(kind) == [kind |-> kind, code |-> 0, says |-> {}, large |-> FALSE, height |-> 0]

ListTo(height)    == [Plain("list") EXCEPT !.height = height]
Status(code)      == [Plain("status") EXCEPT !.code = code]
RpcError(code, w) == [Plain("error") EXCEPT !.code = code, !.says = w]
Large(a)          == [a EXCEPT !.large = TRUE]

(* Errors that speak of a limit only when there are too many logs, and a   *)
(* node that has not seen the last block yet.                              *)
MCAnswers ==
  {ListTo(Last), ListTo(Last - 1), Large(Plain("many")),
   Large(RpcError(Limit, {})), Large(RpcError(0, {"limit", "query"})),
   Large(RpcError(0, {"query"})), RpcError(-32603, {}), RpcError(0, {}),
   Status(429), Status(503)}
  \cup {Plain(kind) : kind \in {"unreadable", "broken", "timeout", "other", "exhausted"}}

(* Nodes that have all blocks, list them, and limit the rate of requests. *)
MCMissedAnswers == {ListTo(Last), Large(RpcError(Limit, {})), RpcError(Limit, {"limit"})}
===============================================================================
