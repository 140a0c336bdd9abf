------------------------------ MODULE ReadOnce ------------------------------
(***************************************************************************)
(* What a response body promises, whatever readers, chunks and timers do:  *)
(* it is read at most once.  It is unread, being read, cached, given away  *)
(* or failed; a cached body keeps its bytes and a failed one its cause.    *)
(* A body larger than the limit that was put in memory by the caller may   *)
(* still fail when it is aggregated.                                       *)
(***************************************************************************)
EXTENDS Naturals

CONSTANTS Limit, Causes, NoCause

VARIABLES
  phase,  \* "unread", "reading", "cached", "consumed" or "failed"
  cache,  \* length of the cached bytes
  cause   \* why the body failed

vars == <<phase, cache, cause>>

Init ==
  /\ \/ phase = "unread" /\ cache = 0
     \/ phase = "cached" /\ cache \in Nat
  /\ cause = NoCause

Take ==
  /\ phase = "unread" /\ phase' = "reading"
  /\ UNCHANGED <<cache, cause>>

Fill ==
  /\ phase = "reading" /\ phase' = "cached"
  /\ cache' \in 0..Limit
  /\ UNCHANGED cause

GiveAway ==
  /\ phase = "reading" /\ phase' = "consumed"
  /\ UNCHANGED <<cache, cause>>

Fail ==
  /\ phase \in {"unread", "reading"} \/ (phase = "cached" /\ cache > Limit)
  /\ phase' = "failed" /\ cache' = 0
  /\ cause' \in Causes

Next == Take \/ Fill \/ GiveAway \/ Fail

Spec == Init /\ [][Next]_vars
=============================================================================
