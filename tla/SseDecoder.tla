----------------------------- MODULE SseDecoder -----------------------------
(***************************************************************************)
(* The SSE line and frame decoders, fed chunk by chunk                     *)
(* (src/sse/line_decoder.rs, src/sse/frame_decoder.rs).                    *)
(*                                                                         *)
(* A byte is one of a few kinds: the two terminators, one third of a byte  *)
(* order mark, a byte that is not UTF-8, or an ordinary byte, which at the *)
(* start of a line says what field the line is.  An identifier's value is  *)
(* the number of its line.                                                 *)
(* DecodePollBudget only decides when the task yields and is left out.     *)
(***************************************************************************)
EXTENDS Integers, Sequences, SequencesExt, FiniteSetsExt

CONSTANTS
  Wires,     \* byte sequences a server may send
  MaxLine,   \* max_line_bytes
  MaxFrame,  \* max_frame_bytes
  Window     \* MAX_BYTES_SCANNED_BEFORE_YIELD

\* "d"ata, "i"d, "e"vent, "r"etry, "c"omment, and "o"thers, which stand for
\* unknown fields and for identifiers with a NUL.
Ordinary == {"d", "i", "e", "r", "c", "o"}
Terminators == {"cr", "lf"}
Bytes == Ordinary \union Terminators \union {"bom", "bad"}
Bom == <<"bom", "bom", "bom">>

\* A byte order mark is never sent in part: "bad" stands for one that is.
ASSUME WireAssumption ==
  \A w \in Wires :
    /\ w \in Seq(Bytes)
    /\ \A i \in 1..Len(w) : w[i] = "bom" =>
         \E j \in {i - 2, i - 1, i} : j >= 1 /\ j + 2 <= Len(w) /\ SubSeq(w, j, j + 2) = Bom
ASSUME LimitAssumption == {MaxLine, MaxFrame, Window} \subseteq Nat \ {0}

VARIABLES
  wire,       \* what the server sends until the body ends
  fed,        \* bytes received so far
  scanned,    \* bytes the line decoder has looked at
  buffer,     \* the line collected so far
  pendingCr,  \* the last line ended in a CR
  lineNo,     \* lines taken so far; the first line is the one while it is 0
  frame,      \* the frame decoder's fields of the pending frame
  lastId,     \* last_event_id, 0 when none
  records,    \* what came out
  status      \* "running", "ended", "protocol" or "failed", the body's error

lineVars == <<buffer, pendingCr, lineNo>>
frameVars == <<frame, lastId, records>>
vars == <<wire, fed, scanned, lineVars, frameVars, status>>

NoId == 0
EmptyFrame == [id |-> NoId, data |-> 0, event |-> FALSE, fields |-> FALSE, bytes |-> 0]

\* Records, each with the line that made it come out.
Retry(line) == [kind |-> "retry", line |-> line]
Control(line, id) == [kind |-> "id", line |-> line, id |-> id]
Message(line, data, event, id) ==
  [kind |-> "message", line |-> line, data |-> data, event |-> event, id |-> id]
Outputs ==
  [kind : {"retry"}, line : Nat] \union [kind : {"id"}, line : Nat, id : Nat]
    \union [kind : {"message"}, line : Nat, data : Nat, event : BOOLEAN, id : Nat]

TypeOK ==
  /\ wire \in Wires /\ fed \in 0..Len(wire) /\ scanned \in 0..fed
  /\ buffer \in Seq(Bytes \ Terminators) /\ Len(buffer) <= MaxLine + Len(Bom)
  /\ pendingCr \in BOOLEAN /\ lineNo \in Nat
  /\ frame \in [id : Nat, data : Nat, event : BOOLEAN, fields : BOOLEAN, bytes : 0..MaxFrame]
  /\ lastId \in Nat /\ records \in Seq(Outputs)
  /\ status \in {"running", "ended", "protocol", "failed"}

Init ==
  /\ wire \in Wires /\ fed = 0 /\ scanned = 0
  /\ buffer = <<>> /\ pendingCr = FALSE /\ lineNo = 0
  /\ frame = EmptyFrame /\ lastId = NoId /\ records = <<>>
  /\ status = "running"

-----------------------------------------------------------------------------
(* The frame decoder: what one line does.                                  *)

IsBlank(line) == line = <<>>
IsComment(line) == line # <<>> /\ line[1] = "c"

\* Comments and blank lines do not count towards the frame limit.
Counted(line) == IF IsBlank(line) \/ IsComment(line) THEN 0 ELSE Len(line)

\* The fields of the pending frame after one more line.
WithField(line) ==
  [frame EXCEPT
     !.id = IF line[1] = "i" THEN lineNo' ELSE @,
     !.data = IF line[1] = "d" THEN @ + 1 ELSE @,
     !.event = @ \/ line[1] = "e",
     !.fields = @ \/ line[1] \in {"d", "i", "e", "r"},
     !.bytes = @ + Len(line)]

\* Fault: the message is dispatched before the identifier is committed.
EndFrameUncommitted ==
  /\ frame' = IF frame.fields THEN EmptyFrame ELSE [frame EXCEPT !.bytes = 0]
  /\ lastId' = IF frame.id # NoId THEN frame.id ELSE lastId
  /\ records' = records \o
       (IF frame.data > 0 THEN <<Message(lineNo', frame.data, frame.event, lastId)>>
        ELSE IF frame.id # NoId THEN <<Control(lineNo', frame.id)>> ELSE <<>>)

\* The blank line commits the identifier and dispatches the data, if any.
EndFrame ==
  /\ frame' = IF frame.fields THEN EmptyFrame ELSE [frame EXCEPT !.bytes = 0]
  /\ lastId' = IF frame.id # NoId THEN frame.id ELSE lastId
  /\ records' = records \o
       (IF frame.data > 0 THEN <<Message(lineNo', frame.data, frame.event, lastId')>>
        ELSE IF frame.id # NoId THEN <<Control(lineNo', frame.id)>> ELSE <<>>)

FrameLine(line) ==
  CASE IsBlank(line) -> EndFrame
    [] IsComment(line) -> UNCHANGED frameVars
    [] OTHER -> /\ frame' = WithField(line)
                /\ records' = records \o (IF line[1] = "r" THEN <<Retry(lineNo')>> ELSE <<>>)
                /\ UNCHANGED lastId

-----------------------------------------------------------------------------
(* The line decoder.                                                       *)

LineLimit == IF lineNo = 0 THEN MaxLine + Len(Bom) ELSE MaxLine

\* The collected line without the byte order mark, which only the first line
\* may have.
TakenLine(bytes) ==
  IF lineNo = 0 /\ IsPrefix(Bom, bytes) THEN SubSeq(bytes, Len(Bom) + 1, Len(bytes)) ELSE bytes

\* Fault: nothing bounds a frame of many short lines.
RefusedWithoutFrame(line) == Len(line) > MaxLine \/ "bad" \in ToSet(line)

\* Too long for a line, not UTF-8, or too long for the frame.
Refused(line) ==
  Len(line) > MaxLine \/ "bad" \in ToSet(line) \/ frame.bytes + Counted(line) > MaxFrame

ProtocolError == status' = "protocol" /\ UNCHANGED <<lineVars, frameVars>>

\* take_buffered_line, and the frame decoder's turn with the line.
TakeLine(bytes, cr) ==
  /\ lineNo' = lineNo + 1 /\ buffer' = <<>> /\ pendingCr' = cr
  /\ FrameLine(TakenLine(bytes))

Feed(n) ==
  /\ status = "running" /\ scanned = fed /\ fed + n <= Len(wire)
  /\ fed' = fed + n
  /\ UNCHANGED <<wire, scanned, lineVars, frameVars, status>>

\* What the next scan looks at, and the first terminator in it.
Scan == SubSeq(wire, scanned + 1, IF fed < scanned + Window THEN fed ELSE scanned + Window)
Ends == {i \in 1..Len(Scan) : Scan[i] \in Terminators}

\* Fault: a CR is remembered over a window without a terminator.
ScanRunKeepingCr ==
  /\ status = "running" /\ scanned < fed /\ Ends = {}
  /\ scanned' = scanned + Len(Scan)
  /\ IF Len(buffer) + Len(Scan) > LineLimit
       THEN ProtocolError
       ELSE buffer' = buffer \o Scan /\ UNCHANGED <<pendingCr, lineNo, frameVars, status>>
  /\ UNCHANGED <<wire, fed>>

\* A window without a terminator joins the line.
ScanRun ==
  /\ status = "running" /\ scanned < fed /\ Ends = {}
  /\ scanned' = scanned + Len(Scan)
  /\ IF Len(buffer) + Len(Scan) > LineLimit
       THEN ProtocolError
       ELSE /\ buffer' = buffer \o Scan /\ pendingCr' = FALSE
            /\ UNCHANGED <<lineNo, frameVars, status>>
  /\ UNCHANGED <<wire, fed>>

\* The LF of a CRLF, wherever the chunk and the window ended between the two.
SkipLf ==
  /\ status = "running" /\ scanned < fed /\ pendingCr /\ Scan[1] = "lf"
  /\ scanned' = scanned + 1 /\ pendingCr' = FALSE
  /\ UNCHANGED <<wire, fed, buffer, lineNo, frameVars, status>>

ScanLine ==
  /\ status = "running" /\ scanned < fed /\ Ends # {}
  /\ ~(pendingCr /\ Scan[1] = "lf")
  /\ LET end == Min(Ends)
         bytes == buffer \o SubSeq(Scan, 1, end - 1)
     IN /\ scanned' = scanned + end
        /\ IF Len(bytes) > LineLimit \/ Refused(TakenLine(bytes))
             THEN ProtocolError
             ELSE TakeLine(bytes, Scan[end] = "cr") /\ UNCHANGED status
  /\ UNCHANGED <<wire, fed>>

-----------------------------------------------------------------------------
(* The end of the body.                                                    *)

AtEnd == status = "running" /\ scanned = Len(wire)

\* Fault: an identifier counts at the end of the stream even behind data.
KeptIdWithData(f) == IF f.id # NoId THEN <<Control(lineNo' + 1, f.id)>> ELSE <<>>

\* A pending identifier counts at the end of the stream, data does not.
KeptId(f) == IF f.id # NoId /\ f.data = 0 THEN <<Control(lineNo' + 1, f.id)>> ELSE <<>>

\* The last line may lack its terminator; it is decoded as a line all the same.
Eof ==
  /\ AtEnd
  /\ LET line == TakenLine(buffer) IN
     IF Refused(line)
       THEN ProtocolError
       ELSE /\ lineNo' = lineNo + 1 /\ status' = "ended"
            /\ frame' = IF IsBlank(line) \/ IsComment(line) THEN frame ELSE WithField(line)
            /\ records' = records
                 \o (IF line # <<>> /\ line[1] = "r" THEN <<Retry(lineNo')>> ELSE <<>>) \o KeptId(frame')
            /\ UNCHANGED <<buffer, pendingCr, lastId>>
  /\ UNCHANGED <<wire, fed, scanned>>

\* The body fails between two chunks.
Fail ==
  /\ status = "running" /\ scanned = fed
  /\ status' = "failed"
  /\ UNCHANGED <<wire, fed, scanned, lineVars, frameVars>>

Next == (\E n \in 1..(Len(wire) - fed) : Feed(n))
          \/ ScanRun \/ SkipLf \/ ScanLine \/ Eof \/ Fail

Spec == Init /\ [][Next]_vars

-----------------------------------------------------------------------------
(* What bytes mean, read off the whole wire w at once: no chunks, no        *)
(* windows, no state.                                                      *)

LineEnds(w) == {i \in 1..Len(w) :
  w[i] \in Terminators /\ ~(w[i] = "lf" /\ i > 1 /\ w[i - 1] = "cr")}
EndsBefore(w, i) == Cardinality({e \in LineEnds(w) : e < i})

\* The last line has no end, and may be empty.
LastLine(w) == Cardinality(LineEnds(w)) + 1

\* Where line k is among the first n bytes.  Its bytes lie side by side.
LineBytes(w, k, n) == {i \in 1..n : w[i] \notin Terminators /\ EndsBefore(w, i) = k - 1}
Text(w, at) == IF at = {} THEN <<>> ELSE SubSeq(w, Min(at), Max(at))

\* The byte order mark the wire begins with, if any, is in no line.
Mark(w) == IF IsPrefix(Bom, w) THEN 1..Len(Bom) ELSE {}
Held(w, k) == LineBytes(w, k, Len(w)) \ Mark(w)
LineText(w, k) == Text(w, Held(w, k))
Says(w, k, field) == LineText(w, k) # <<>> /\ LineText(w, k)[1] = field

\* The lines of line k's frame up to k.
FrameLines(w, k) == {j \in 1..k : \A b \in j..(k - 1) : LineText(w, b) # <<>>}
Of(w, k, field) == {j \in FrameLines(w, k) : Says(w, j, field)}
LastOf(lines) == IF lines = {} THEN NoId ELSE Max(lines)

\* What counts towards the frame limit: no comment, no terminator, no mark.
FrameBytes(w, k) == UNION {Held(w, j) : j \in FrameLines(w, k) \ Of(w, k, "c")}

Offends(w, k) ==
  \/ Len(LineText(w, k)) > MaxLine \/ "bad" \in ToSet(LineText(w, k))
  \/ Cardinality(FrameBytes(w, k)) > MaxFrame

\* Lines before the first that is refused.
GoodLines(w) == {k \in 1..LastLine(w) : \A j \in 1..k : ~Offends(w, j)}

\* The identifier in force after line k.
IdAfter(w, k) ==
  LastOf({j \in 1..k : Says(w, j, "i") /\ \E b \in j..k : b < LastLine(w) /\ LineText(w, b) = <<>>})

\* The lines up to n that make a record come out: a delay, or the blank line of a
\* frame with data or an identifier.
Speaking(w, n) ==
  {k \in 1..n : \/ Says(w, k, "r")
                \/ /\ LineText(w, k) = <<>> /\ k < LastLine(w)
                   /\ Of(w, k, "d") \union Of(w, k, "i") # {}}
Emitted(w, k) ==
  IF Says(w, k, "r") THEN Retry(k)
  ELSE IF Of(w, k, "d") # {}
    THEN Message(k, Cardinality(Of(w, k, "d")), Of(w, k, "e") # {}, IdAfter(w, k))
  ELSE Control(k, LastOf(Of(w, k, "i")))

\* A sequence of what these lines emit, in their order.
Lists(w, sequence, lines) ==
  /\ \A i \in DOMAIN sequence :
       sequence[i].line \in lines /\ sequence[i] = Emitted(w, sequence[i].line)
  /\ \A k \in lines : \E i \in DOMAIN sequence : sequence[i].line = k
  /\ \A i, j \in DOMAIN sequence : i < j => sequence[i].line < sequence[j].line

\* However the bytes are cut into chunks and windows, the decoder has taken
\* exactly the lines that ended among the bytes it looked at, CRLF being one
\* end wherever it is cut, and holds exactly the beginning of the next
\* (decode_lines, pending_cr).
LinesAreExact ==
  status = "running" =>
    /\ lineNo = EndsBefore(wire, scanned + 1)
    /\ buffer = Text(wire, LineBytes(wire, lineNo + 1, scanned))

\* What came out is what the lines taken so far mean: each message with the
\* data and event of its own frame and with the last identifier committed up
\* to it, a control record for a frame with an identifier and no data
\* (decode_records).
RecordsFollowLines == status = "running" => Lists(wire, records, Speaking(wire, lineNo))

\* At a clean end every line was acceptable and nothing is missing; data
\* without its blank line is not dispatched, an identifier without data is
\* kept.  At a protocol error some line offends, and everything before it
\* came out and nothing after it did (decode_records, end of the stream).
EndMatches ==
  /\ status = "ended" =>
       /\ LastLine(wire) \in GoodLines(wire)
       /\ LET last == LastLine(wire)  ids == Of(wire, last, "i") IN
          IF Of(wire, last, "d") = {} /\ ids # {}
            THEN /\ records # <<>> /\ Last(records) = Control(last + 1, LastOf(ids))
                 /\ Lists(wire, Front(records), Speaking(wire, last))
            ELSE Lists(wire, records, Speaking(wire, last))
  /\ status = "protocol" =>
       /\ LastLine(wire) \notin GoodLines(wire)
       /\ Lists(wire, records, Speaking(wire, Cardinality(GoodLines(wire))))
=============================================================================
