--------------------------- MODULE MCEventStream ---------------------------
(* A queue of one message already makes the stream wait for the runner; two  *)
(* events are enough for one to overtake a capture while another is queued.  *)
(* A plain event is recorded as one about cash is, and moves no fence.       *)
EXTENDS EventStream

CashAndAuth  == {"cash", "auth"}
=============================================================================
