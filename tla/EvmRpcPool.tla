------------------------------ MODULE EvmRpcPool ------------------------------
(***************************************************************************)
(* rpc/apipool_client.py: what becomes of one request, from what comes     *)
(* back over HTTP to what get_logs or get_block_number returns or raises,  *)
(* and whether a pool can be opened.                                       *)
(*                                                                         *)
(* Which node is asked, and when apipool gives up on all of them, is the   *)
(* apipool library's affair.  An exception is its class, and those of the  *)
(* words "limit" and "query" that its text has.                            *)
(***************************************************************************)
EXTENDS Integers

Words == {"limit", "query"}

(* list, null: a result, the logs up to the node's height (or that height) *)
(* or None;  unreadable: a result that cannot be converted;                *)
(* many: a list of 10000 logs or more;  error: a JSON-RPC error object;    *)
(* status: an HTTP status;  broken: aiohttp.ClientError;  timeout:         *)
(* aiohttp.ServerTimeoutError;  other: any other exception, the            *)
(* asyncio.TimeoutError of the total timeout among them;                   *)
(* exhausted: PoolExhaustedError of apipool.                               *)
Kinds == {"list", "null", "unreadable", "many", "error", "status", "broken",
          "timeout", "other", "exhausted"}

(* large: the range is the reason, it has too many logs for the node.      *)
AnswerType == [kind : Kinds, code : Int, says : SUBSET Words, large : BOOLEAN, height : Nat]

Limit == -32005

-----------------------------------------------------------------------------
NoError == [class |-> "none", says |-> {}]

Exception(class, says) == [class |-> class, says |-> says]

parse_rpc_error(a) ==
  Exception(CASE a.code = Limit \/ "limit" \in a.says -> "LogLimitExceededError"
              [] a.code \in {-32603, -32700} /\ "limit" \notin a.says -> "InvalidResponseError"
              [] OTHER -> "Exception", a.says)

(* _JsonRpcMethod.__call__; the texts of a rate limit and of a timeout are *)
(* lost, because they are passed by keyword.                               *)
Called(a) ==
  CASE a.kind = "status" /\ a.code = 429  -> Exception("RpcRateLimitError", {})
    [] a.kind = "status" /\ a.code # 429  -> Exception("InvalidResponseError", a.says)
    [] a.kind = "timeout"                 -> Exception("RpcTimeoutError", {})
    [] a.kind = "broken"                  -> Exception("InvalidResponseError", a.says)
    [] a.kind = "error"                   -> parse_rpc_error(a)
    [] a.kind = "other"                   -> Exception("Exception", a.says)
    [] a.kind = "exhausted"               -> Exception("PoolExhaustedError", {})
    [] OTHER                              -> NoError

(* How get_logs ends: it returns, or raises an exception of a class.       *)
(* Whatever says "limit" or "query" counts as a result that is too large.  *)
get_logs(a) ==
  LET e == Called(a)
  IN  CASE a.kind = "many"                   -> "LogLimitExceededError"
        [] e = NoError /\ a.kind # "many"    -> "returned"
        [] e.class = "PoolExhaustedError"    -> "AllNodesFailedError"
        [] e.class \in {"LogLimitExceededError", "RpcRateLimitError", "RpcTimeoutError"} -> e.class
        [] e.class \in {"InvalidResponseError", "Exception"} ->
             IF e.says # {} THEN "LogLimitExceededError" ELSE "InvalidResponseError"

(* Log.from_rpc_response takes all items of the result. *)
Convertible(a) == a.kind # "unreadable"

(* How get_block_number ends.  No limit is meant here: what parse_rpc_error *)
(* takes for one is an invalid response.                                   *)
get_block_number(a) ==
  LET e == Called(a)
  IN  CASE e.class = "PoolExhaustedError"                          -> "AllNodesFailedError"
        [] e.class \in {"RpcRateLimitError", "RpcTimeoutError"}    -> e.class
        [] e = NoError /\ a.kind = "list"                          -> "returned"
        [] OTHER                                                   -> "InvalidResponseError"

-----------------------------------------------------------------------------
(* Opening a pool: server, nodes: apipool_server and rpc_nodes of the      *)
(* chain's configuration;  login, keys, config, refresh: how alogin, the   *)
(* first aget_keys, aget_config and astart end;  404: such an HTTP status, *)
(* status: another one.                                                    *)
SetupType ==
  [server : BOOLEAN, nodes : BOOLEAN, login : {"done", "raised"}, keys : {"done", "raised"},
   config : {"done", "404", "status", "raised"}, refresh : {"done", "raised"}]

(* _config_fetcher puts up with all errors but one. *)
ConfigFetched(s) == s.config # "status"

from_server(s) ==
  /\ s.login = "done"
  /\ s.keys = "done"
  /\ ConfigFetched(s)

(* EvmRpcPool.start: only a pool of a server has something to start. *)
Started(s) == s.server => s.refresh = "done"

(* _init_rpc_pool of a listener or a backtest runner returns a pool. *)
PoolOpened(s) ==
  /\ IF s.server THEN from_server(s) ELSE s.nodes
  /\ Started(s)
=============================================================================
