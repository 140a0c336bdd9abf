--------------------------- MODULE MCResponseBody ---------------------------
(***************************************************************************)
(* A body of at most four bytes in chunks of one or two, against a limit   *)
(* of two: bodies below, at and above the limit, advertised or not, split  *)
(* so that the limit is met inside, at the end of, and between chunks.     *)
(***************************************************************************)
EXTENDS ResponseBody
=============================================================================
