---------------------------- MODULE RpcChannelMC ----------------------------
(* A server with one service of one method, as testcases/test_rpc_server.cc. *)
EXTENDS RpcChannel

TestServices == [s \in {"Order"} |-> {"makeOrder"}]

\* "parse service name error", "method name not found", "deserilize error" and
\* "serilize error"; "Order.makeOrder" and the result of a short order.
Texts ==
  [t \in ServerErrors \cup {"method", "result"} |->
     CASE t = "ERROR_PARSE_SERVICE_NAME" -> 24
       [] t = "ERROR_METHOD_NOT_FOUND" -> 21
       [] t = "ERROR_FAILED_DESERIALIZE" -> 16
       [] t = "ERROR_FAILED_SERIALIZE" -> 14
       [] t = "method" -> 15
       [] t = "result" -> 6]
=============================================================================
