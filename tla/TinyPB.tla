------------------------------- MODULE TinyPB -------------------------------
(***************************************************************************)
(* rocket/net/coder/tinypb_coder.cc: where encodeTinyPB puts the parts of  *)
(* a message, and what decode takes from these places.                     *)
(*                                                                         *)
(* A message is the lengths of its id, method, err (the error's text) and  *)
(* data; the texts hold no NUL.  A byte of a frame is named by the part it *)
(* belongs to and its number in it; what malloc left there is a part of    *)
(* its own.                                                                *)
(***************************************************************************)
EXTENDS Integers, Sequences

\* encodeTinyPB replaces an empty id by "123456789".
IdLength(length) == IF length = 0 THEN 9 ELSE length

\* pk_len as encodeTinyPB computes it: two marks, six numbers, four texts.
PkLen(m) == 2 + 24 + m.id + m.method + m.err + m.data

\* Where the text of the error begins, for both.
ErrInfoIndex(m) == 1 + 4 + 4 + m.id + 4 + m.method + 4 + 4

Part(what, at, len) == [what |-> what, at |-> at, len |-> len]

\* What encodeTinyPB writes, in this order.  It goes on behind the error's text
\* as if that were as long as the id.
Parts(m) ==
  LET err  == ErrInfoIndex(m)
      data == IF m.err = 0 THEN err ELSE err + m.id
  IN  << Part("start", 0, 1), Part("pk_len", 1, 4),
         Part("id_len", 5, 4), Part("id", 9, m.id),
         Part("method_len", 9 + m.id, 4), Part("method", 13 + m.id, m.method),
         Part("err_code", err - 8, 4), Part("err_len", err - 4, 4),
         Part("err", err, m.err), Part("data", data, m.data),
         Part("check_sum", data + m.data, 4), Part("end", data + m.data + 4, 1) >>

\* The frame that is sent; what is written behind its end is not.
encodeTinyPB(m) ==
  [at \in 0..PkLen(m) - 1 |->
     LET over == {k \in DOMAIN Parts(m) :
                    at \in Parts(m)[k].at .. Parts(m)[k].at + Parts(m)[k].len - 1}
         last == CHOOSE k \in over : \A j \in over : j <= k
     IN  IF over = {} THEN [what |-> "malloc", no |-> 0]
         ELSE [what |-> Parts(m)[last].what, no |-> at - Parts(m)[last].at]]

\* Defect: decode forgets the error code's four bytes.
DataIndexWithoutCode(m) == ErrInfoIndex(m) - 4 + m.err

\* Where decode takes the data from.
DataIndex(m) == ErrInfoIndex(m) + m.err

\* The part can be read from here, all of it.
Holds(frame, what, at, len) ==
  \A no \in 0..len - 1 : frame[at + no] = [what |-> what, no |-> no]

\* decode finds the frame if its last byte is PB_END.  A byte that nobody wrote
\* may have any value; the check sum is 1, and none of its bytes PB_END.
MayBeFound(frame, m) == frame[PkLen(m) - 1].what \in {"end", "malloc"}
MayBeMissed(frame, m) == frame[PkLen(m) - 1].what # "end"

\* decode copies the texts into arrays of these lengths and reads them up to a NUL:
\* a text as long as its array or longer is undefined behaviour.
ArrayLength == [id |-> 100, method |-> 512, err |-> 512]
TooLong(text, length) == length >= ArrayLength[text]
Fits(m) == \A text \in DOMAIN ArrayLength : ~TooLong(text, m[text])

\* The id, the error code and the data are those that were encoded.
Intact(frame, m) ==
  /\ Fits(m)
  /\ Holds(frame, "id", 9, m.id)
  /\ Holds(frame, "err_code", ErrInfoIndex(m) - 8, 4)
  /\ Holds(frame, "data", DataIndex(m), m.data)
=============================================================================
