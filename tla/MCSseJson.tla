------------------------------ MODULE MCSseJson ------------------------------
(* Every body of three records under every combination of policies.           *)
EXTENDS SseJson
=============================================================================
