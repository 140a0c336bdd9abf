------------------------------- MODULE SseJson -------------------------------
(***************************************************************************)
(* The JSON chunks of an SSE stream: what json_decoder.rs makes of the      *)
(* records of a response body, under a done-marker policy, a JSON mode and  *)
(* a completion policy (src/sse/json_decoder.rs, message_decoder.rs,        *)
(* sse_message.rs, done_marker_policy.rs).                                 *)
(*                                                                         *)
(* The records are those of module SseDecoder.  A payload is the class the  *)
(* decoder tells apart: a text without visible characters, one of two       *)
(* marker texts, JSON, JSON that lenient normalization repairs, no JSON at  *)
(* all, and JSON over the configured limits.  Markers are no JSON.         *)
(***************************************************************************)
EXTENDS Integers, Sequences, SequencesExt

CONSTANT MaxRecords   \* records of a body

Payloads == {"blank", "[DONE]", "END", "json", "repairable", "malformed", "oversized"}

\* What a body holds: messages and control records, and how it ends.  A message
\* whose blank line never came, a marker too, is no record.
Records == [kind : {"control"}, payload : {"none"}] \union [kind : {"message"}, payload : Payloads]
Endings == {"eof", "failure"}

\* DoneMarkerPolicy: no marker, "[DONE]", or a text of the caller's.
Markers == [policy : {"disabled"}, text : {"none"}] \union [policy : {"default"}, text : {"[DONE]"}]
             \union [policy : {"custom"}, text : {"END", "blank"}]

ASSUME BoundAssumption == MaxRecords \in Nat

VARIABLES
  records, ending,              \* the body
  marker, mode, completion,     \* the policies
  pos,                          \* records taken
  phase,                        \* "open", "reading", "ended"
  chunks                        \* history: chunks yielded, [kind, at], at being a record

input == <<records, ending, marker, mode, completion>>
vars == <<input, pos, phase, chunks>>

Chunk(kind, at) == [kind |-> kind, at |-> at]

Init ==
  /\ records \in UNION {[1..n -> Records] : n \in 0..MaxRecords} /\ ending \in Endings
  /\ marker \in Markers /\ mode \in {"strict", "lenient"}
  /\ completion \in {"AllowEof", "RequireDoneMarker"}
  /\ pos = 0 /\ phase = "open" /\ chunks = <<>>

-----------------------------------------------------------------------------
(* The decoder.                                                            *)

\* has_usable_done_marker
Usable == marker.policy # "disabled" /\ marker.text # "blank"

\* is_done
IsDone(payload) == marker.policy # "disabled" /\ payload = marker.text

\* decode_json_with_mode_and_limits: lenient decoding repairs what it can and
\* skips what it cannot, but for a payload over the limits.
Decoded(payload) ==
  CASE payload \in IF mode = "lenient" THEN {"json", "repairable"} ELSE {"json"} -> "data"
    [] mode = "lenient" /\ payload \notin {"json", "repairable", "oversized"} -> "skip"
    [] OTHER -> "error"

Continue == phase' = "reading" /\ UNCHANGED chunks
Yield(kind) == phase' = "reading" /\ chunks' = Append(chunks, Chunk(kind, pos'))
End(kind) == phase' = "ended" /\ chunks' = Append(chunks, Chunk(kind, pos'))
EndSilently == phase' = "ended" /\ UNCHANGED chunks

\* A stream that must end at a marker needs one that can occur.
Open ==
  /\ phase = "open" /\ UNCHANGED <<input, pos>>
  /\ IF completion = "RequireDoneMarker" /\ ~Usable THEN End("error") ELSE Continue

Reading == phase = "reading" /\ pos < Len(records) /\ pos' = pos + 1 /\ UNCHANGED input
Payload == records[pos'].payload

\* decode_messages: control records are passed over.
SkipControl == Reading /\ records[pos'].kind = "control" /\ Continue

SkipBlank == Reading /\ Payload = "blank" /\ Continue

ReadMarker ==
  /\ Reading /\ records[pos'].kind = "message" /\ Payload # "blank" /\ IsDone(Payload)
  /\ End("done")

\* Fault: an error does not end the stream.
ReadOnAfterError ==
  /\ Reading /\ records[pos'].kind = "message" /\ Payload # "blank" /\ ~IsDone(Payload)
  /\ CASE Decoded(Payload) = "data" -> Yield("data")
       [] Decoded(Payload) = "skip" -> Continue
       [] Decoded(Payload) = "error" -> Yield("error")

ReadChunk ==
  /\ Reading /\ records[pos'].kind = "message" /\ Payload # "blank" /\ ~IsDone(Payload)
  /\ CASE Decoded(Payload) = "data" -> Yield("data")
       [] Decoded(Payload) = "skip" -> Continue
       [] Decoded(Payload) = "error" -> End("error")

BodyEnds ==
  /\ phase = "reading" /\ pos = Len(records) /\ UNCHANGED <<input, pos>>
  /\ IF ending = "failure" \/ completion = "RequireDoneMarker" THEN End("error") ELSE EndSilently

Next == Open \/ SkipControl \/ SkipBlank \/ ReadMarker \/ ReadChunk \/ BodyEnds

\* The consumer may stop polling at any time.
Spec == Init /\ [][Next]_vars

-----------------------------------------------------------------------------
(* The property: what a stream means, read off the whole body at once.     *)

Visible == {i \in DOMAIN records : records[i].kind = "message" /\ records[i].payload # "blank"}
Marked == {i \in Visible : marker.policy # "disabled" /\ records[i].payload = marker.text}
Readable == {i \in Visible \ Marked : records[i].payload \in
               {"json"} \union (IF mode = "lenient" THEN {"repairable"} ELSE {})}
Fatal == {i \in Visible \ (Marked \union Readable) :
            mode = "strict" \/ records[i].payload = "oversized"}

\* Records the stream gets to: none behind a marker or a fatal payload.
Impossible == completion = "RequireDoneMarker" /\ marker.text \notin Payloads \ {"blank"}
Reached == IF Impossible THEN {}
           ELSE {i \in DOMAIN records : \A j \in Marked \union Fatal : j >= i}

Expected(i) == CASE i \in Readable -> "data" [] i \in Marked -> "done" [] i \in Fatal -> "error"
Yielding(upTo) == {i \in Reached : i <= upTo /\ i \in Readable \union Marked \union Fatal}

\* The chunks of these records, in their order.
Lists(sequence, at) ==
  /\ \A k \in DOMAIN sequence : sequence[k].at \in at /\ sequence[k] = Chunk(Expected(sequence[k].at), sequence[k].at)
  /\ \A i \in at : \E k \in DOMAIN sequence : sequence[k].at = i
  /\ \A k, l \in DOMAIN sequence : k < l => sequence[k].at < sequence[l].at

CutShort == Reached \intersect (Marked \union Fatal) = {}
FailsAtEnd == CutShort /\ (Impossible \/ ending = "failure" \/ completion = "RequireDoneMarker")

\* A stream yields exactly the readable payloads up to its marker or first fatal
\* payload, never one behind it, whatever was skipped in between, and ends well
\* without a marker only where its completion policy allows it and the body did
\* not fail: a caller that saw no error has seen the whole answer
\* (decode_json_chunks_from_stream_with_limits).
StreamMeansItsPolicies ==
  IF phase = "ended" /\ FailsAtEnd
    THEN /\ chunks # <<>> /\ Last(chunks) = Chunk("error", pos)
         /\ Lists(Front(chunks), Yielding(Len(records)))
    ELSE Lists(chunks, Yielding(IF phase = "ended" THEN Len(records) ELSE pos))
=============================================================================
