------------------------------- MODULE RpcCall -------------------------------
(***************************************************************************)
(* What a caller may rely on of one RPC: its closure runs at most once,    *)
(* for an answer or for the timeout, and what it reads in the controller   *)
(* and the response of an answered call is final.                          *)
(***************************************************************************)
CONSTANTS Codes, Contents   \* error codes and contents of a response

VARIABLES
  status,     \* "idle", "called", then "answered" or "timedOut" with the closure
  errCode, content

vars == <<status, errCode, content>>

Init == status = "idle" /\ errCode = "none" /\ content = "unset"

Call ==
  /\ status = "idle"
  /\ status' = "called"
  /\ errCode' \in Codes
  /\ UNCHANGED content

\* A failure is noted and the closure does not run, or not yet.
Note ==
  /\ status = "called"
  /\ errCode' \in Codes
  /\ content' \in Contents
  /\ UNCHANGED status

TimeOut ==
  /\ status = "called"
  /\ status' = "timedOut"
  /\ errCode' = "ERROR_RPC_CALL_TIMEOUT"
  /\ UNCHANGED content

Answer ==
  /\ status = "called"
  /\ status' = "answered"
  /\ content' \in Contents \ {"unset"}
  /\ UNCHANGED errCode

\* An answer that comes after the timeout still writes its result.
Late ==
  /\ status = "timedOut"
  /\ errCode' \in Codes
  /\ content' \in Contents
  /\ UNCHANGED status

Next == Call \/ Note \/ TimeOut \/ Answer \/ Late

Spec == Init /\ [][Next]_vars
=============================================================================
