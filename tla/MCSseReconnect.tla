--------------------------- MODULE MCSseReconnect ---------------------------
(* Five frames: an event with an identifier, one without, a control-only    *)
(* identifier, an event that resets it and one no header can carry.  When   *)
(* cut, the first identifier may read as the third, the fifth as the first  *)
(* or the third, and every identifier as an empty one.                      *)
EXTENDS SseReconnect

Entry(id, data) == [id |-> id, data |-> data]

MCLog == <<Entry("own", TRUE), Entry("none", TRUE), Entry("own", FALSE),
           Entry("empty", TRUE), Entry("unsendable", TRUE)>>
MCCut == [k \in 1..5 |-> CASE k = 1 -> {0, 3} [] k = 5 -> {0, 1, 3} [] OTHER -> {0}]
=============================================================================
