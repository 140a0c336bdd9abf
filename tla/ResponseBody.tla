---------------------------- MODULE ResponseBody ----------------------------
(***************************************************************************)
(* The lazily consumed body of one HttpResponse                            *)
(* (src/response/http_response.rs, src/response/internal/).                *)
(*                                                                         *)
(* A response starts with a backend body nobody has read, or with bytes    *)
(* already in memory.  Its owner reads it through `bytes` (and `text` and  *)
(* `json`, which decode what `bytes` returns), hands it over with `stream` *)
(* or gives the whole response away with the `sse_*` decoders.  Three      *)
(* other actors run between two polls of such a read: the server, whose    *)
(* chunks arrive in the connection's buffer, the holder of the             *)
(* cancellation token, and the caller who may drop a read or a stream.     *)
(*                                                                         *)
(* Bytes are counted, never spelled out: a body is its length.             *)
(***************************************************************************)
EXTENDS Naturals

CONSTANTS
  Limit,      \* response_body_size_limit
  MaxChunk,   \* bound: largest chunk the backend hands over at once
  MaxBody,    \* bound: bytes a server sends in one body
  NoHint,     \* the response advertises no Content-Length
  NoFailure   \* the shared failure slot is empty

ASSUME LimitAssumption == Limit \in Nat
ASSUME BoundAssumption == MaxChunk \in Nat \ {0} /\ MaxBody \in Nat
ASSUME NoHintAssumption == NoHint \notin Nat

ReadOps == {"bytes", "text", "json"}
BackendErrors == {"Transport", "ReadTimeout"}
ReadFailures == BackendErrors \union {"Cancelled", "ResponseBodyTooLarge"}

ASSUME NoFailureAssumption == NoFailure \notin ReadFailures

VARIABLES
  body,      \* HttpResponseBodyState
  size,      \* length of the buffered bytes, 0 unless body = "Buffered"
  failure,   \* HttpResponseRuntime.body_read_failure, shared with the stream
  hint,      \* original_content_length
  origin,    \* history: which constructor made the response
  handle,    \* whether the caller still owns the HttpResponse
  reader,    \* the polled `bytes` future: "idle", or the operation awaiting it
  used,      \* bytes that future has aggregated (its body_budget)
  stream,    \* the HttpByteStream that took the backend body
  token,     \* the response's cancellation token
  ready,     \* what the connection holds for the next backend poll
  delivered, \* history: bytes handed to this crate, by the backend or the caller
  decodable, \* which decoders accept the bytes of this body
  result     \* the outcome of the latest finished call or stream poll

vars == <<body, size, failure, hint, origin, handle, reader, used, stream, token,
          ready, delivered, decodable, result>>
callVars == <<failure, hint, origin, token, ready, delivered, decodable>>

Nothing == [item |-> "nothing", len |-> 0]
Chunk(n) == [item |-> "chunk", len |-> n]
Signal(s) == [item |-> s, len |-> 0]
Ok(n) == [kind |-> "ok", len |-> n]
Outcome(k) == [kind |-> k, len |-> 0]

OutcomeKinds == ReadFailures \union {"none", "opened", "chunk", "end", "Decode",
                                     "ResponseBodyAlreadyConsumed"}

TypeOK ==
  /\ body \in {"Backend", "Buffered", "StreamingTaken"}
  /\ size \in Nat
  /\ failure \in ReadFailures \union {NoFailure}
  /\ hint \in Nat \union {NoHint}
  /\ origin \in {"memory", "backend"}
  /\ handle \in {"held", "consumed"}
  /\ reader \in ReadOps \union {"idle"}
  /\ used \in Nat
  /\ stream \in {"none", "live", "ended"}
  /\ token \in {"absent", "live", "cancelled"}
  /\ ready \in [item : {"nothing", "chunk", "eof"} \union BackendErrors, len : Nat]
  /\ delivered \in Nat
  /\ decodable \in SUBSET {"text", "json"}
  /\ result \in [kind : OutcomeKinds \union {"ok"}, len : Nat]

-----------------------------------------------------------------------------
(* HttpResponse::new, a body in memory, and HttpResponse::from_backend.    *)

\* parse_content_length_hint: nothing for HEAD and 304, else what the headers
\* say.  A caller's headers need not tell the length of the caller's body.
ContentLengthHints == (0..MaxBody) \union {NoHint}

InitBuffered ==
  /\ origin = "memory" /\ token = "absent"
  /\ body = "Buffered" /\ size \in 0..MaxBody /\ delivered = size
  /\ hint \in ContentLengthHints

InitBackend ==
  /\ origin = "backend" /\ token \in {"absent", "live", "cancelled"}
  /\ body = "Backend" /\ size = 0 /\ delivered = 0
  /\ hint \in ContentLengthHints

Init ==
  /\ InitBuffered \/ InitBackend
  /\ failure = NoFailure /\ handle = "held"
  /\ reader = "idle" /\ used = 0 /\ stream = "none"
  /\ ready = Nothing
  /\ decodable \in SUBSET {"text", "json"}
  /\ result = Outcome("none")

-----------------------------------------------------------------------------
(* What the server, the connection and the token holder do.                *)

BackendOwned == body = "Backend" \/ reader # "idle" \/ stream = "live"

\* The server's next bytes reach the connection.  With a Content-Length the
\* HTTP stack delivers exactly that many, then the end of the body.
ServerSends(n) ==
  /\ BackendOwned /\ ready = Nothing
  /\ delivered + n <= (IF hint = NoHint THEN MaxBody ELSE hint)
  /\ ready' = Chunk(n)
  /\ UNCHANGED <<body, size, failure, hint, origin, handle, reader, used, stream, token,
                 delivered, decodable, result>>

ServerEnds ==
  /\ BackendOwned /\ ready = Nothing
  /\ hint \in {NoHint, delivered}
  /\ ready' = Signal("eof")
  /\ UNCHANGED <<body, size, failure, hint, origin, handle, reader, used, stream, token,
                 delivered, decodable, result>>

\* The connection breaks, or the request deadline of the backend passes.
ServerFails(error) ==
  /\ BackendOwned /\ ready = Nothing
  /\ ready' = Signal(error)
  /\ UNCHANGED <<body, size, failure, hint, origin, handle, reader, used, stream, token,
                 delivered, decodable, result>>

Cancel ==
  /\ token = "live"
  /\ token' = "cancelled"
  /\ UNCHANGED <<body, size, failure, hint, origin, handle, reader, used, stream,
                 ready, delivered, decodable, result>>

-----------------------------------------------------------------------------
(* bytes, text, json: what they return before they have to wait.           *)

CanCall == handle = "held" /\ reader = "idle"

AdvertisedOverLimit == hint # NoHint /\ hint > Limit

\* text and json decode what bytes returned; a decoding error is no body-read
\* failure and leaves the cache alone.
Decoded(op, n) ==
  IF op = "bytes" \/ op \in decodable THEN Ok(n) ELSE Outcome("Decode")

\* Fault: the retained failure is not consulted, only the taken body is seen.
ForgetFailure ==
  /\ CanCall /\ failure # NoFailure
  /\ result' = Outcome("ResponseBodyAlreadyConsumed")
  /\ UNCHANGED <<callVars, body, size, handle, reader, used, stream>>

\* previous_body_read_error: an earlier failure answers every later read.
ReadAfterFailure ==
  /\ CanCall /\ failure # NoFailure
  /\ result' = Outcome(failure)
  /\ UNCHANGED <<callVars, body, size, handle, reader, used, stream>>

\* Fault: mem::replace takes the cache and nothing puts it back.
TakeCache(op) ==
  /\ CanCall /\ failure = NoFailure /\ body = "Buffered" /\ size <= Limit
  /\ body' = "StreamingTaken" /\ size' = 0
  /\ result' = Decoded(op, size)
  /\ UNCHANGED <<callVars, handle, reader, used, stream>>

ReadCache(op) ==
  /\ CanCall /\ failure = NoFailure /\ body = "Buffered" /\ size <= Limit
  /\ result' = Decoded(op, size)
  /\ UNCHANGED <<callVars, body, size, handle, reader, used, stream>>

ReadOversizedCache ==
  /\ CanCall /\ failure = NoFailure /\ body = "Buffered" /\ size > Limit
  /\ body' = "StreamingTaken" /\ size' = 0
  /\ failure' = "ResponseBodyTooLarge"
  /\ result' = Outcome("ResponseBodyTooLarge")
  /\ UNCHANGED <<hint, origin, handle, reader, used, stream, token, ready,
                 delivered, decodable>>

\* Fault: a second reader's error is remembered as a body-read failure.
RememberConsumed ==
  /\ CanCall /\ failure = NoFailure /\ body = "StreamingTaken"
  /\ failure' = "ResponseBodyAlreadyConsumed"
  /\ result' = Outcome("ResponseBodyAlreadyConsumed")
  /\ UNCHANGED <<body, size, hint, origin, handle, reader, used, stream, token, ready,
                 delivered, decodable>>

ReadConsumed ==
  /\ CanCall /\ failure = NoFailure /\ body = "StreamingTaken"
  /\ result' = Outcome("ResponseBodyAlreadyConsumed")
  /\ UNCHANGED <<callVars, body, size, handle, reader, used, stream>>

\* The advertised length alone exceeds the limit: nothing is read.
RefuseOversizedHint ==
  /\ CanCall /\ failure = NoFailure /\ body = "Backend"
  /\ AdvertisedOverLimit
  /\ body' = "StreamingTaken" /\ ready' = Nothing
  /\ failure' = "ResponseBodyTooLarge"
  /\ result' = Outcome("ResponseBodyTooLarge")
  /\ UNCHANGED <<size, hint, origin, handle, reader, used, stream, token,
                 delivered, decodable>>

\* The first poll takes the backend; the token is not consulted here.
ReadTakesBackend(op) ==
  /\ CanCall /\ failure = NoFailure /\ body = "Backend"
  /\ ~AdvertisedOverLimit
  /\ body' = "StreamingTaken" /\ reader' = op /\ used' = 0
  /\ UNCHANGED <<callVars, size, handle, stream, result>>

-----------------------------------------------------------------------------
(* The aggregation loop of bytes.  tokio::select! without `biased` polls   *)
(* its branches in random order, so a fired token and a waiting chunk are  *)
(* both possible outcomes; tokio::time::timeout polls the chunk first, so  *)
(* a timeout needs an empty connection.                                    *)

FailRead(kind) ==
  /\ reader' = "idle" /\ used' = 0 /\ ready' = Nothing
  /\ failure' = IF failure = NoFailure THEN kind ELSE failure
  /\ result' = Outcome(kind)

\* Fault: the budget is consulted only when it is already used up.
ReadChunkUnchecked ==
  /\ reader # "idle" /\ ready.item = "chunk"
  /\ used <= Limit
  /\ used' = used + ready.len
  /\ delivered' = delivered + ready.len /\ ready' = Nothing
  /\ UNCHANGED <<body, size, failure, hint, origin, handle, reader, stream,
                 token, decodable, result>>

ReadChunk ==
  /\ reader # "idle" /\ ready.item = "chunk"
  /\ used + ready.len <= Limit
  /\ used' = used + ready.len
  /\ delivered' = delivered + ready.len /\ ready' = Nothing
  /\ UNCHANGED <<body, size, failure, hint, origin, handle, reader, stream,
                 token, decodable, result>>

ReadOverBudget ==
  /\ reader # "idle" /\ ready.item = "chunk"
  /\ used + ready.len > Limit
  /\ FailRead("ResponseBodyTooLarge")
  /\ delivered' = delivered + ready.len
  /\ UNCHANGED <<body, size, hint, origin, handle, stream, token, decodable>>

ReadEof ==
  /\ reader # "idle" /\ ready.item = "eof"
  /\ body' = "Buffered" /\ size' = used
  /\ result' = Decoded(reader, used)
  /\ reader' = "idle" /\ used' = 0 /\ ready' = Nothing
  /\ UNCHANGED <<failure, hint, origin, handle, stream, token, delivered, decodable>>

ReadError ==
  /\ reader # "idle" /\ ready.item \in BackendErrors
  /\ FailRead(ready.item)
  /\ UNCHANGED <<body, size, hint, origin, handle, stream, token, delivered, decodable>>

\* Fault: a silent server leaves the bytes read so far as the cached body.
CachePartialBody ==
  /\ reader # "idle" /\ ready = Nothing
  /\ body' = "Buffered" /\ size' = used
  /\ result' = Decoded(reader, used)
  /\ reader' = "idle" /\ used' = 0 /\ ready' = Nothing
  /\ UNCHANGED <<failure, hint, origin, handle, stream, token, delivered, decodable>>

\* Fault: the timer is armed only once the first chunk has arrived.
TimeoutAfterFirstChunk ==
  /\ reader # "idle" /\ ready = Nothing /\ used > 0
  /\ FailRead("ReadTimeout")
  /\ UNCHANGED <<body, size, hint, origin, handle, stream, token, delivered, decodable>>

ReadTimesOut ==
  /\ reader # "idle" /\ ready = Nothing
  /\ FailRead("ReadTimeout")
  /\ UNCHANGED <<body, size, hint, origin, handle, stream, token, delivered, decodable>>

ReadCancelled ==
  /\ reader # "idle" /\ token = "cancelled"
  /\ FailRead("Cancelled")
  /\ UNCHANGED <<body, size, hint, origin, handle, stream, token, delivered, decodable>>

\* Fault: a dropped read hands the half-read backend back to the response.
ReturnBackend ==
  /\ reader # "idle"
  /\ body' = "Backend" /\ reader' = "idle" /\ used' = 0 /\ ready' = Nothing
  /\ UNCHANGED <<size, failure, hint, origin, handle, stream, token, delivered,
                 decodable, result>>

\* An outer timeout or a losing select! branch drops the polled future: the
\* backend and the partial bytes go with it and no failure is recorded.
DropReader ==
  /\ reader # "idle"
  /\ reader' = "idle" /\ used' = 0 /\ ready' = Nothing
  /\ UNCHANGED <<body, size, failure, hint, origin, handle, stream, token,
                 delivered, decodable, result>>

ReadStep == ReadChunk \/ ReadOverBudget \/ ReadEof \/ ReadError \/ ReadTimesOut
              \/ ReadCancelled

-----------------------------------------------------------------------------
(* stream, and the sse_* decoders, which consume the response by calling   *)
(* it: `after` is what remains of the caller's handle.                     *)

StreamAfterFailure(after) ==
  /\ CanCall /\ failure # NoFailure
  /\ handle' = after /\ result' = Outcome(failure)
  /\ UNCHANGED <<callVars, body, size, reader, used, stream>>

StreamCache(after) ==
  /\ CanCall /\ failure = NoFailure /\ body = "Buffered"
  /\ handle' = after /\ result' = Ok(size)
  /\ UNCHANGED <<callVars, body, size, reader, used, stream>>

StreamRefused(after) ==
  /\ CanCall /\ failure = NoFailure /\ body # "Buffered" /\ token = "cancelled"
  /\ handle' = after /\ result' = Outcome("Cancelled")
  /\ UNCHANGED <<callVars, body, size, reader, used, stream>>

StreamConsumed(after) ==
  /\ CanCall /\ failure = NoFailure /\ body = "StreamingTaken" /\ token # "cancelled"
  /\ handle' = after /\ result' = Outcome("ResponseBodyAlreadyConsumed")
  /\ UNCHANGED <<callVars, body, size, reader, used, stream>>

\* Fault: the stream shares the backend instead of taking it.
ShareBackend(after) ==
  /\ CanCall /\ failure = NoFailure /\ body = "Backend" /\ token # "cancelled"
  /\ stream' = "live"
  /\ handle' = after /\ result' = Outcome("opened")
  /\ UNCHANGED <<callVars, body, size, reader, used>>

StreamTakesBackend(after) ==
  /\ CanCall /\ failure = NoFailure /\ body = "Backend" /\ token # "cancelled"
  /\ body' = "StreamingTaken" /\ stream' = "live"
  /\ handle' = after /\ result' = Outcome("opened")
  /\ UNCHANGED <<callVars, size, reader, used>>

OpenStream(after) ==
  \/ StreamAfterFailure(after)
  \/ StreamCache(after)
  \/ StreamRefused(after)
  \/ StreamConsumed(after)
  \/ StreamTakesBackend(after)

-----------------------------------------------------------------------------
(* Polls of the stream that took the backend.  No size limit applies.      *)

EndStream(kind) ==
  /\ stream' = "ended" /\ ready' = Nothing
  /\ failure' = IF failure = NoFailure THEN kind ELSE failure
  /\ result' = Outcome(kind)

StreamChunk ==
  /\ stream = "live" /\ ready.item = "chunk"
  /\ delivered' = delivered + ready.len /\ ready' = Nothing
  /\ result' = [kind |-> "chunk", len |-> ready.len]
  /\ UNCHANGED <<body, size, failure, hint, origin, handle, reader, used, stream,
                 token, decodable>>

StreamEof ==
  /\ stream = "live" /\ ready.item = "eof"
  /\ stream' = "ended" /\ ready' = Nothing
  /\ result' = Outcome("end")
  /\ UNCHANGED <<body, size, failure, hint, origin, handle, reader, used, token,
                 delivered, decodable>>

StreamError ==
  /\ stream = "live" /\ ready.item \in BackendErrors
  /\ EndStream(ready.item)
  /\ UNCHANGED <<body, size, hint, origin, handle, reader, used, token,
                 delivered, decodable>>

StreamTimesOut ==
  /\ stream = "live" /\ ready = Nothing
  /\ EndStream("ReadTimeout")
  /\ UNCHANGED <<body, size, hint, origin, handle, reader, used, token,
                 delivered, decodable>>

StreamCancelled ==
  /\ stream = "live" /\ token = "cancelled"
  /\ EndStream("Cancelled")
  /\ UNCHANGED <<body, size, hint, origin, handle, reader, used, token,
                 delivered, decodable>>

DropStream ==
  /\ stream = "live"
  /\ stream' = "ended" /\ ready' = Nothing
  /\ UNCHANGED <<body, size, failure, hint, origin, handle, reader, used, token,
                 delivered, decodable, result>>

-----------------------------------------------------------------------------
ServerStep ==
  \/ \E n \in 1..MaxChunk : ServerSends(n)
  \/ ServerEnds
  \/ \E error \in BackendErrors : ServerFails(error)

StartRead ==
  \/ ReadAfterFailure
  \/ ReadOversizedCache
  \/ ReadConsumed
  \/ RefuseOversizedHint
  \/ \E op \in ReadOps : ReadCache(op) \/ ReadTakesBackend(op)

StreamStep == StreamChunk \/ StreamEof \/ StreamError \/ StreamTimesOut \/ StreamCancelled

Next ==
  \/ ServerStep
  \/ Cancel
  \/ StartRead
  \/ ReadStep
  \/ DropReader
  \/ \E after \in {"held", "consumed"} : OpenStream(after)
  \/ StreamStep
  \/ DropStream

\* Only a polled read is scheduled: the executor wakes it when its chunk, its
\* timer or its token fires.  Nothing obliges the server or the caller.
Spec == Init /\ [][Next]_vars /\ WF_vars(ReadStep)

-----------------------------------------------------------------------------
(* Properties.                                                             *)

\* The backend body has at most one owner - the response, the polled read or
\* the stream - and none once a failure is recorded: mem::replace in bytes and
\* stream moves it, and nothing moves it back.
SingleOwner ==
  /\ ~(body = "Backend" /\ (reader # "idle" \/ stream = "live"))
  /\ ~(reader # "idle" /\ stream = "live")
  /\ failure # NoFailure => ~BackendOwned /\ body = "StreamingTaken"

\* A recorded cancellation or body-read failure is the answer of every later
\* read, whichever reader asks: the call that recorded it and all calls since
\* reported exactly that category.
FailureAnswersEveryRead == failure # NoFailure => result.kind = failure

\* A cached body is the whole body: every byte there is of it, and those of a
\* body read from the backend are as many as its head advertised.
CachedBodyIsComplete ==
  body = "Buffered" => /\ size = delivered
                       /\ origin = "backend" => hint \in {NoHint, size}

\* An aggregate read never holds more than the limit, whatever the chunk sizes.
AggregationIsBounded == used <= Limit

\* No read, cancellation, timeout, drop or decoding error takes a readable
\* cache away again.
CacheIsPermanent ==
  [][body = "Buffered" /\ size <= Limit => UNCHANGED <<body, size, failure>>]_vars

\* A polled aggregate read returns (or is dropped) even if the server goes
\* silent: every wait is bounded by the read timeout and the limit bounds the
\* number of waits.
ReadReturns == (reader # "idle") ~> (reader = "idle")

(***************************************************************************)
(* What the documentation says of cancellation; the runs show the code     *)
(* does not do it.                                                         *)
(***************************************************************************)

\* "Cancellation prevents reads that still need backend I/O": no byte leaves
\* the backend once the token has fired.
CancellationPreventsReads == [][token = "cancelled" => delivered' = delivered]_vars

\* "A cancellation or body-read failure is retained and cannot be bypassed by
\* another reader": after a read reported Cancelled none returns bytes.
CancelledResultIsRetained ==
  [][result.kind = "Cancelled" => result'.kind # "ok"]_result

-----------------------------------------------------------------------------
(***************************************************************************)
(* The body as a value that is read once: the abstract promise.            *)
(***************************************************************************)
phase ==
  IF failure # NoFailure THEN "failed"
  ELSE IF body = "Buffered" THEN "cached"
  ELSE IF body = "Backend" THEN "unread"
  ELSE IF reader # "idle" \/ stream = "live" THEN "reading"
  ELSE "consumed"

Once == INSTANCE ReadOnce WITH cache <- IF phase = "cached" THEN size ELSE 0,
                               cause <- failure, NoCause <- NoFailure,
                               Causes <- ReadFailures
ImplementsReadOnce == Once!Spec
=============================================================================
