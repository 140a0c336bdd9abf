---------------------------- MODULE ErrorCapture ----------------------------
(***************************************************************************)
(* The capture of an unsuccessful status' body                             *)
(* (HttpResponse::into_error_body_capture and read_error_body_preview in   *)
(* src/response/http_response.rs).                                         *)
(*                                                                         *)
(* One loop fills two prefixes of the body, a preview and the raw bytes,   *)
(* each with a limit of its own, under one budget, one token and one       *)
(* deadline for all chunks together.  execute hands over a body nobody has *)
(* read, so the branches for a buffered and for a taken body are never     *)
(* taken.  Bytes are counted and time goes in ticks.                       *)
(***************************************************************************)
EXTENDS Naturals

CONSTANTS
  PreviewLimit,  \* error_response_preview_limit
  RawLimit,      \* error_response_body_limit
  ReadTimeout,   \* read_timeout, in ticks
  MaxChunk,      \* bound: largest chunk the backend hands over at once
  MaxBody,       \* bound: bytes in a server's body
  MaxClock,      \* bound: how long a capture is watched
  NoHint         \* no Content-Length

ASSUME LimitAssumption == PreviewLimit \in Nat /\ RawLimit \in Nat
ASSUME TimeAssumption == ReadTimeout \in Nat \ {0} /\ MaxClock \in Nat
ASSUME BoundAssumption == MaxChunk \in Nat \ {0} /\ MaxBody \in Nat
ASSUME NoHintAssumption == NoHint \notin Nat

VARIABLES
  total,      \* the server's whole body
  hint,       \* its Content-Length, if it says
  delivered,  \* bytes the backend has handed over
  ready,      \* what the connection holds for the next poll
  token,      \* the response's cancellation token
  clock,      \* ticks since capture_started_at
  timer,      \* when the pending poll times out
  phase,      \* "check", the head of the loop; "await"; "done"
  preview, raw,            \* lengths of the two prefixes
  previewCut, rawCut,      \* preview_truncated, raw_truncated
  used,       \* what capture_budget has admitted
  lateChunks, \* history: chunks accepted once the deadline had passed
  end         \* HttpBodyCaptureEnd, or "Cancelled" for the error

serverVars == <<total, hint>>
prefixVars == <<preview, raw, previewCut, rawCut, used>>
vars == <<serverVars, delivered, ready, token, clock, timer, phase, prefixVars,
          lateChunks, end>>

AtLeastOne(n) == IF n = 0 THEN 1 ELSE n
Lesser(m, n) == IF m <= n THEN m ELSE n
Greater(m, n) == IF m >= n THEN m ELSE n

Shown == AtLeastOne(PreviewLimit)
\* Fault: no byte to spare beyond the larger limit.
CaptureLimitWithoutSpare == Greater(Shown, AtLeastOne(RawLimit))

CaptureLimit == Greater(Shown, AtLeastOne(RawLimit)) + 1

Nothing == [item |-> "nothing", len |-> 0]
Chunk(n) == [item |-> "chunk", len |-> n]
Signal(s) == [item |-> s, len |-> 0]

TypeOK ==
  /\ total \in Nat /\ hint \in Nat \union {NoHint} /\ delivered \in 0..total
  /\ ready \in [item : {"nothing", "chunk", "eof", "error"}, len : Nat]
  /\ token \in {"absent", "live", "cancelled"}
  /\ clock \in Nat /\ timer \in Nat
  /\ phase \in {"check", "await", "done"}
  /\ preview \in 0..Shown /\ raw \in 0..RawLimit
  /\ previewCut \in BOOLEAN /\ rawCut \in BOOLEAN
  /\ used \in 0..CaptureLimit
  /\ lateChunks \in Nat
  /\ end \in {"none", "Complete", "SizeLimit", "ReadTimeout", "ReadFailure", "Cancelled"}

Init ==
  /\ total \in 0..MaxBody /\ hint \in {NoHint, total} /\ delivered = 0
  /\ ready = Nothing /\ token \in {"absent", "live", "cancelled"}
  /\ clock = 0 /\ timer = ReadTimeout /\ phase = "check"
  /\ preview = 0 /\ raw = 0 /\ previewCut = FALSE /\ rawCut = FALSE /\ used = 0
  /\ lateChunks = 0 /\ end = "none"

-----------------------------------------------------------------------------
(* The server, the token holder and the clock.                             *)

ServerActs ==
  /\ phase # "done" /\ ready = Nothing
  /\ \/ \E n \in 1..MaxChunk : delivered + n <= total /\ ready' = Chunk(n)
     \/ delivered = total /\ ready' = Signal("eof")
     \/ ready' = Signal("error")
  /\ UNCHANGED <<serverVars, delivered, token, clock, timer, phase, prefixVars,
                 lateChunks, end>>

Cancel ==
  /\ phase # "done" /\ token = "live" /\ token' = "cancelled"
  /\ UNCHANGED <<serverVars, delivered, ready, clock, timer, phase, prefixVars,
                 lateChunks, end>>

Tick ==
  /\ phase # "done" /\ clock < MaxClock /\ clock' = clock + 1
  /\ UNCHANGED <<serverVars, delivered, ready, token, timer, phase, prefixVars,
                 lateChunks, end>>

-----------------------------------------------------------------------------
(* The loop.                                                               *)

Stop(reason) == phase' = "done" /\ end' = reason
frame == <<serverVars, token, clock>>

\* Fault: every read has the whole timeout for itself.
NextReadFreshTimer ==
  /\ phase = "check"
  /\ IF token = "cancelled" THEN Stop("Cancelled") /\ UNCHANGED timer
     ELSE phase' = "await" /\ timer' = clock + ReadTimeout /\ UNCHANGED end
  /\ UNCHANGED <<frame, delivered, ready, prefixVars, lateChunks>>

\* The head of the loop: the token, then what is left until the deadline.
NextRead ==
  /\ phase = "check"
  /\ IF token = "cancelled" THEN Stop("Cancelled") /\ UNCHANGED timer
     ELSE IF clock >= ReadTimeout THEN Stop("ReadTimeout") /\ UNCHANGED timer
     ELSE phase' = "await" /\ timer' = ReadTimeout /\ UNCHANGED end
  /\ UNCHANGED <<frame, delivered, ready, prefixVars, lateChunks>>

AwaitCancelled ==
  /\ phase = "await" /\ token = "cancelled"
  /\ Stop("Cancelled")
  /\ UNCHANGED <<frame, delivered, ready, timer, prefixVars, lateChunks>>

\* tokio::time::timeout polls the chunk before the timer.
TimesOut ==
  /\ phase = "await" /\ ready = Nothing /\ clock >= timer
  /\ Stop("ReadTimeout")
  /\ UNCHANGED <<frame, delivered, ready, timer, prefixVars, lateChunks>>

\* What follows the loop: the advertised length also tells what was left out.
Finish(preview1, raw1) ==
  /\ previewCut' = (preview1 \/ (hint # NoHint /\ hint > Shown))
  /\ rawCut' = (raw1 \/ (hint # NoHint /\ hint > RawLimit))
  /\ Stop(IF rawCut' THEN "SizeLimit" ELSE "Complete")

\* Fault: an error ends the capture as an end of the body does.
TakeErrorAsEof ==
  /\ phase = "await" /\ ready.item = "error"
  /\ Finish(previewCut, rawCut)
  /\ ready' = Nothing
  /\ UNCHANGED <<frame, delivered, timer, preview, raw, used, lateChunks>>

TakeError ==
  /\ phase = "await" /\ ready.item = "error"
  /\ Stop("ReadFailure") /\ ready' = Nothing
  /\ UNCHANGED <<frame, delivered, timer, prefixVars, lateChunks>>

TakeEof ==
  /\ phase = "await" /\ ready.item = "eof"
  /\ Finish(previewCut, rawCut)
  /\ ready' = Nothing
  /\ UNCHANGED <<frame, delivered, timer, preview, raw, used, lateChunks>>

\* Fault: the raw prefix has no limit.
RawBytesUnbounded(n, room) == n

\* Fault: a chunk that does not fit is dropped whole.
RawBytesWhole(n, room) == IF n <= room THEN n ELSE 0

\* What a chunk of n bytes adds to the raw prefix.
RawBytes(n, room) == Lesser(n, room)

\* A chunk goes to both prefixes.  The loop stops once the budget did not
\* admit all of it, or is spent with something left out.
TakeChunk ==
  /\ phase = "await" /\ ready.item = "chunk"
  /\ LET n == ready.len
         captured == Lesser(n, CaptureLimit - used)
         room == Shown - preview
         previewCut1 == previewCut \/ room < captured \/ (captured < n /\ room < n)
         rawCut1 == rawCut \/ RawLimit - raw < n
     IN /\ delivered' = delivered + n
        /\ preview' = preview + Lesser(captured, room)
        /\ raw' = raw + RawBytes(n, RawLimit - raw)
        /\ used' = used + captured
        /\ IF captured < n \/ (used' = CaptureLimit /\ (previewCut1 \/ rawCut1))
             THEN Finish(previewCut1, rawCut1)
             ELSE /\ previewCut' = previewCut1 /\ rawCut' = rawCut1
                  /\ phase' = "check" /\ UNCHANGED end
  /\ ready' = Nothing
  /\ lateChunks' = IF clock > ReadTimeout THEN lateChunks + 1 ELSE lateChunks
  /\ UNCHANGED <<frame, timer>>

Capture == \/ NextRead \/ AwaitCancelled \/ TimesOut
           \/ TakeError \/ TakeEof \/ TakeChunk

Next == ServerActs \/ Cancel \/ Tick \/ Capture

Spec == Init /\ [][Next]_vars

-----------------------------------------------------------------------------
(* Properties.                                                             *)

\* A caller may parse a body that is called complete: it is the whole body,
\* whatever the chunks and even if the length was not advertised.
CompleteIsWhole == end = "Complete" => raw = total

\* However the capture ends, the raw bytes are the longest prefix of what
\* arrived that the limit allows; called cut, it is full and something is
\* missing; and nothing is called complete that is cut.
RawIsLongestPrefix ==
  /\ raw = Lesser(delivered, RawLimit)
  /\ end = "SizeLimit" => raw = RawLimit /\ total > RawLimit

\* The preview says that it was cut exactly when the body is longer than it,
\* although the loop stops before it has seen the whole body.
PreviewCutIsTrue ==
  end \in {"Complete", "SizeLimit"} => (previewCut <=> total > Shown)

\* The deadline bounds the whole capture: a server that trickles bytes gets
\* at most one chunk in after it.
DeadlineIsCumulative == lateChunks <= 1
=============================================================================
