------------------------------- MODULE MsgId --------------------------------
(***************************************************************************)
(* rocket/common/msg_util.cc: the message ids of one thread.  Of an id     *)
(* only its length matters, and whether all of its digits are nines; of    *)
(* t_max_msg_id_no, how many times it was appended to.                     *)
(***************************************************************************)
EXTENDS Naturals

g_msg_id_length == 20

\* t_msg_id_no, and how many times g_msg_id_length nines have been appended to
\* t_max_msg_id_no; 2 stands for more than once.
MsgIds == [no : {"empty", "digits", "nines"}, max : 0..2]
NoMsgId == [no |-> "empty", max |-> 0]

\* Once it has been appended to twice, t_max_msg_id_no is longer than any id.
Exhausted(id) == id.no = "empty" \/ (id.no = "nines" /\ id.max = 1)

\* A random id, when there is none or the last one was reached.
RandomMsgIds(id) ==
  [no : {"digits", "nines"}, max : {IF id.max = 2 THEN 2 ELSE id.max + 1}]

\* Defect: a random id is drawn only when there has been one.
NeverReturnsFirst(id) == id.no = "empty"

\* The increment never returns: the loop that clears the digits behind the one
\* it has raised asks for that digit's place, not for its own, and runs out of
\* the string until the process dies.
NeverReturns(id) == id.no = "digits"

\* What GenMsgId leaves behind and the length of the id it returns, if it
\* returns: a random id, none if /dev/urandom cannot be read, or the nines again.
GenMsgId(id) ==
  IF Exhausted(id)
  THEN [id : RandomMsgIds(id), length : {g_msg_id_length}] \cup {[id |-> id, length |-> 0]}
  ELSE {[id |-> id, length |-> g_msg_id_length]}
=============================================================================
