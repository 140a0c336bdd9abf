--------------------------- MODULE MCErrorCapture ---------------------------
(* Bodies of up to five bytes in chunks of one to three, so that each limit  *)
(* and the budget of max + 1 is met inside, at the end of, and between       *)
(* chunks; the clock goes well beyond the deadline.                          *)
EXTENDS ErrorCapture
=============================================================================
