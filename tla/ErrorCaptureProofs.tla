------------------------- MODULE ErrorCaptureProofs -------------------------
(***************************************************************************)
(* Proofs about ErrorCapture for all limits, chunk sizes, bodies and       *)
(* clocks.  The loop's four counters all measure one thing, the bytes the  *)
(* backend has handed over; IInv says how, and that a loop that stopped    *)
(* before the end of the body had seen more than either limit.             *)
(***************************************************************************)
EXTENDS ErrorCapture, TLAPS

\* Every counter is a function of the bytes that arrived.
CountersAgree ==
  /\ raw = Lesser(delivered, RawLimit)
  /\ preview = Lesser(delivered, Shown)
  /\ phase # "done" =>
       /\ used = delivered
       /\ previewCut <=> delivered > Shown
       /\ rawCut <=> delivered > RawLimit

\* The server tells the truth about its body, and sends no more than it.
ServerIsHonest ==
  /\ hint \in {NoHint, total}
  /\ ready.item = "eof" => delivered = total
  /\ ready.item = "chunk" => delivered + ready.len <= total

\* A successful capture knows of both prefixes whether they are whole.
EndIsTrue ==
  /\ end \in {"Complete", "SizeLimit"} =>
       /\ previewCut <=> total > Shown
       /\ rawCut <=> total > RawLimit
       /\ end = "SizeLimit" <=> rawCut
       /\ delivered < total => delivered > RawLimit
  /\ phase # "done" <=> end = "none"

\* After a late chunk the loop gets no further than its head.
LateStops ==
  /\ phase = "await" => timer = ReadTimeout /\ lateChunks = 0
  /\ phase = "check" => lateChunks = 0 \/ (lateChunks = 1 /\ clock > ReadTimeout)
  /\ lateChunks <= 1

IInv == TypeOK /\ CountersAgree /\ ServerIsHonest /\ EndIsTrue /\ LateStops

USE LimitAssumption

\* The two helpers on numbers are what their names say.
LEMMA Arithmetic ==
  /\ Shown \in Nat \ {0} /\ CaptureLimit \in Nat
  /\ CaptureLimit > Shown /\ CaptureLimit > RawLimit
BY DEF Shown, CaptureLimit, AtLeastOne, Greater

\* Before the first read the capture holds nothing.
LEMMA InitHolds == Init => IInv
<1> SUFFICES ASSUME Init PROVE IInv
  OBVIOUS
<1>1. TypeOK
  <2>1. ready \in [item : {"nothing", "chunk", "eof", "error"}, len : Nat]
    BY DEF Init, Nothing
  <2>2. /\ total \in Nat /\ hint \in Nat \union {NoHint} /\ delivered \in 0..total
        /\ timer \in Nat
    BY TimeAssumption, BoundAssumption DEF Init
  <2>3. /\ preview \in 0..Shown /\ raw \in 0..RawLimit /\ used \in 0..CaptureLimit
    BY Arithmetic, LimitAssumption DEF Init
  <2>4. QED
    BY <2>1, <2>2, <2>3 DEF Init, TypeOK
<1>2. CountersAgree
  BY Arithmetic DEF Init, CountersAgree, Lesser
<1>3. ServerIsHonest /\ EndIsTrue /\ LateStops
  BY DEF Init, ServerIsHonest, EndIsTrue, LateStops, Nothing
<1>4. QED
  BY <1>1, <1>2, <1>3 DEF IInv

\* What follows the loop is right about both prefixes, given that the loop saw
\* the whole body or more of it than either limit.
LEMMA FinishIsRight ==
  ASSUME TypeOK, ServerIsHonest, UNCHANGED serverVars,
         NEW preview1 \in BOOLEAN, NEW raw1 \in BOOLEAN, NEW seen \in 0..total,
         seen = total \/ seen >= CaptureLimit,
         preview1 <=> seen > Shown, raw1 <=> seen > RawLimit,
         Finish(preview1, raw1)
  PROVE  /\ previewCut' \in BOOLEAN /\ rawCut' \in BOOLEAN
         /\ previewCut' <=> total > Shown
         /\ rawCut' <=> total > RawLimit
         /\ phase' = "done"
         /\ end' = IF rawCut' THEN "SizeLimit" ELSE "Complete"
BY Arithmetic DEF Finish, Stop, TypeOK, ServerIsHonest, serverVars

\* Time, the token and the server take nothing back from the capture.
LEMMA EnvironmentKeeps ==
  ASSUME IInv, ServerActs \/ Cancel \/ Tick PROVE IInv'
<1> USE Arithmetic DEF IInv, TypeOK, CountersAgree, ServerIsHonest, EndIsTrue, LateStops,
        serverVars, prefixVars
<1>1. CASE ServerActs
  BY <1>1, BoundAssumption DEF ServerActs, Nothing, Chunk, Signal
<1>2. CASE Cancel
  BY <1>2 DEF Cancel
<1>3. CASE Tick
  BY <1>3, TimeAssumption DEF Tick
<1>4. QED
  BY <1>1, <1>2, <1>3

\* A chunk keeps both prefixes the longest possible, and if the loop stops
\* with it, more than either limit has arrived.
LEMMA TakeChunkKeeps == ASSUME IInv, TakeChunk PROVE IInv'
<1> DEFINE n == ready.len
           captured == Lesser(n, CaptureLimit - used)
           room == Shown - preview
           previewCut1 == previewCut \/ room < captured \/ (captured < n /\ room < n)
           rawCut1 == rawCut \/ RawLimit - raw < n
           stops == captured < n \/ (used + captured = CaptureLimit /\ (previewCut1 \/ rawCut1))
<1>1. /\ n \in Nat /\ delivered' = delivered + n /\ delivered' \in 0..total
      /\ used = delivered /\ used' = used + captured
      /\ captured \in Nat /\ used' \in 0..CaptureLimit
  BY Arithmetic DEF IInv, TypeOK, CountersAgree, ServerIsHonest, TakeChunk, Lesser
<1>2. raw' = Lesser(delivered', RawLimit)
  BY <1>1 DEF IInv, TypeOK, CountersAgree, TakeChunk, RawBytes, Lesser
<1>3. preview' = Lesser(delivered', Shown)
  BY <1>1, Arithmetic DEF IInv, TypeOK, CountersAgree, TakeChunk, Lesser
<1>4. /\ previewCut1 \in BOOLEAN /\ rawCut1 \in BOOLEAN
      /\ previewCut1 <=> delivered' > Shown
      /\ rawCut1 <=> delivered' > RawLimit
  BY <1>1, Arithmetic DEF IInv, TypeOK, CountersAgree, TakeChunk, Lesser
<1>5. /\ UNCHANGED <<total, hint, token, clock, timer>> /\ ready' = Nothing
      /\ phase = "await" /\ end = "none" /\ timer = ReadTimeout
      /\ lateChunks = 0
      /\ lateChunks' = IF clock > ReadTimeout THEN 1 ELSE 0
  BY DEF IInv, TypeOK, EndIsTrue, LateStops, TakeChunk, frame, serverVars
<1>6. CASE stops
  <2>1. delivered' >= CaptureLimit
    BY <1>6, <1>1, <1>4, Arithmetic DEF IInv, TypeOK, Lesser
  <2>2. Finish(previewCut1, rawCut1)
    BY <1>6, <1>1 DEF TakeChunk
  <2>3. /\ previewCut' \in BOOLEAN /\ rawCut' \in BOOLEAN
        /\ previewCut' <=> total > Shown
        /\ rawCut' <=> total > RawLimit
        /\ phase' = "done"
        /\ end' = IF rawCut' THEN "SizeLimit" ELSE "Complete"
    BY <2>1, <2>2, <1>1, <1>4, <1>5, FinishIsRight DEF IInv, serverVars
  <2>4. TypeOK'
    BY <1>1, <1>2, <1>3, <1>5, <2>3, Arithmetic DEF IInv, TypeOK, Nothing, Lesser
  <2>5. CountersAgree' /\ ServerIsHonest'
    BY <1>2, <1>3, <1>5, <2>3 DEF IInv, CountersAgree, ServerIsHonest, Nothing
  <2>6. EndIsTrue' /\ LateStops'
    BY <1>1, <1>5, <2>1, <2>3, Arithmetic DEF IInv, TypeOK, EndIsTrue, LateStops
  <2>7. QED
    BY <2>4, <2>5, <2>6 DEF IInv
<1>7. CASE ~stops
  <2>1. /\ previewCut' = previewCut1 /\ rawCut' = rawCut1
        /\ phase' = "check" /\ end' = "none"
    BY <1>7, <1>1, <1>5 DEF TakeChunk
  <2>2. used' = delivered'
    BY <1>7, <1>1 DEF IInv, TypeOK, Lesser
  <2>3. TypeOK'
    BY <1>1, <1>2, <1>3, <1>4, <1>5, <2>1, Arithmetic DEF IInv, TypeOK, Nothing, Lesser
  <2>4. CountersAgree' /\ ServerIsHonest'
    BY <1>2, <1>3, <1>4, <1>5, <2>1, <2>2 DEF IInv, CountersAgree, ServerIsHonest, Nothing
  <2>5. EndIsTrue' /\ LateStops'
    BY <1>1, <1>5, <2>1 DEF IInv, TypeOK, EndIsTrue, LateStops
  <2>6. QED
    BY <2>3, <2>4, <2>5 DEF IInv
<1>8. QED
  BY <1>6, <1>7

\* No turn of the capture's loop, nor its end, breaks the invariant.
LEMMA CaptureKeeps == ASSUME IInv, Capture PROVE IInv'
<1> USE Arithmetic DEF IInv, TypeOK, CountersAgree, ServerIsHonest, EndIsTrue, LateStops,
        frame, serverVars, prefixVars, Nothing
<1>1. CASE NextRead
  BY <1>1, TimeAssumption DEF NextRead, Stop
<1>2. CASE AwaitCancelled
  BY <1>2 DEF AwaitCancelled, Stop
<1>3. CASE TimesOut
  BY <1>3 DEF TimesOut, Stop
<1>4. CASE TakeError
  BY <1>4 DEF TakeError, Stop
<1>5. CASE TakeEof
  <2>1. /\ previewCut' \in BOOLEAN /\ rawCut' \in BOOLEAN
        /\ previewCut' <=> total > Shown
        /\ rawCut' <=> total > RawLimit
        /\ phase' = "done"
        /\ end' = IF rawCut' THEN "SizeLimit" ELSE "Complete"
    BY <1>5, FinishIsRight DEF TakeEof
  <2>2. QED
    BY <1>5, <2>1 DEF TakeEof
<1>6. CASE TakeChunk
  BY <1>6, TakeChunkKeeps
<1>7. QED
  BY <1>1, <1>2, <1>3, <1>4, <1>5, <1>6 DEF Capture

-----------------------------------------------------------------------------
(* The strengthened invariant holds in every state of a capture.           *)
THEOREM Inductive == Spec => []IInv
<1>1. IInv /\ [Next]_vars => IInv'
  <2> SUFFICES ASSUME IInv, [Next]_vars PROVE IInv'
    OBVIOUS
  <2>1. CASE ServerActs \/ Cancel \/ Tick
    BY <2>1, EnvironmentKeeps
  <2>2. CASE Capture
    BY <2>2, CaptureKeeps
  <2>3. CASE UNCHANGED vars
    BY <2>3 DEF IInv, TypeOK, CountersAgree, ServerIsHonest, EndIsTrue, LateStops, vars,
                serverVars, prefixVars
  <2>4. QED
    BY <2>1, <2>2, <2>3 DEF Next
<1>2. QED
  BY <1>1, InitHolds, PTL DEF Spec

(* Every state of a capture has the types TypeOK gives it.                 *)
THEOREM TypeCorrect == Spec => []TypeOK
<1>1. IInv => TypeOK
  BY DEF IInv
<1>2. QED
  BY <1>1, Inductive, PTL

(* Whatever the chunking, a capture called complete holds the whole body.  *)
THEOREM Complete == Spec => []CompleteIsWhole
<1>1. IInv => CompleteIsWhole
  BY Arithmetic DEF IInv, TypeOK, CountersAgree, EndIsTrue, CompleteIsWhole, Lesser
<1>2. QED
  BY <1>1, Inductive, PTL

(* The raw bytes are the longest prefix the limit allows, and a body called  *)
(* cut is longer than the limit.                                             *)
THEOREM RawPrefix == Spec => []RawIsLongestPrefix
<1>1. IInv => RawIsLongestPrefix
  BY Arithmetic DEF IInv, TypeOK, CountersAgree, EndIsTrue, RawIsLongestPrefix, Lesser
<1>2. QED
  BY <1>1, Inductive, PTL

(* The preview is marked as cut exactly when the body is longer than it.   *)
THEOREM PreviewCut == Spec => []PreviewCutIsTrue
<1>1. IInv => PreviewCutIsTrue
  BY DEF IInv, EndIsTrue, PreviewCutIsTrue
<1>2. QED
  BY <1>1, Inductive, PTL

(* No server gets more than one chunk in behind the deadline.              *)
THEOREM OneDeadline == Spec => []DeadlineIsCumulative
<1>1. IInv => DeadlineIsCumulative
  BY DEF IInv, LateStops, DeadlineIsCumulative
<1>2. QED
  BY <1>1, Inductive, PTL
=============================================================================
