---------------------------- MODULE RpcDispatcher ----------------------------
(***************************************************************************)
(* rocket/net/rpc/rpc_dispatcher.cc: from a request to its answer, on the  *)
(* server.                                                                 *)
(***************************************************************************)
CONSTANTS
  m_service_map,  \* the registered services, each with the set of its methods
  NoDot           \* a full method name without a dot

\* What matters of a request: its full method name, split at the first dot,
\* and whether its data parse as the method's request type.
Requests == [service : DOMAIN m_service_map \cup {"unregistered", NoDot},
             method : UNION {m_service_map[s] : s \in DOMAIN m_service_map}
                        \cup {"unknown"},
             data : {"good", "bad"}]

\* What matters of an answer: its m_err_code and its m_pb_data.
ServerErrors == {"ERROR_PARSE_SERVICE_NAME", "ERROR_METHOD_NOT_FOUND",
                 "ERROR_FAILED_DESERIALIZE", "ERROR_FAILED_SERIALIZE"}
Answers == [err : {"none"} \cup ServerErrors, data : {"empty", "result", "garbled"}]

\* An answer whose data dispatch did not give.
Garbled == [err |-> "none", data |-> "garbled"]

Error(code) == [err |-> code, data |-> "empty"]

\* The answers dispatch can give.  An unregistered service sets its error on
\* the request, so the answer is an empty one with no error; a method's result
\* that lacks a required field does not serialize.
dispatch(req) ==
  IF req.service = NoDot THEN {Error("ERROR_PARSE_SERVICE_NAME")}
  ELSE IF req.service \notin DOMAIN m_service_map THEN {Error("none")}
  ELSE IF req.method \notin m_service_map[req.service]
       THEN {Error("ERROR_METHOD_NOT_FOUND")}
  ELSE IF req.data = "bad" THEN {Error("ERROR_FAILED_DESERIALIZE")}
  ELSE {Error("ERROR_FAILED_SERIALIZE"), [err |-> "none", data |-> "result"]}
=============================================================================
