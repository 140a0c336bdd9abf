# Formal models of rs-http

`rs-http` is an asynchronous HTTP client library built on reqwest and tokio:
requests with interceptors and injectors, retries, lazily read responses,
cancellation tokens, Server-Sent Events and a merged SSE stream that reconnects.
This directory holds TLA+ models of its stateful parts, TLC configurations that
check them on small instances, and TLAPS proofs for every size.

All state lives in one process. There is no persistence and no shared service;
what makes the code hard is that every `.await` is a point at which a token may
fire, a timer may expire, a chunk may arrive or the caller may drop the future.
The models are interleavings of exactly these actors.

## 1. Inventory

| Component (source) | State | Operations | Hard behaviour |
|---|---|---|---|
| Response body (`response/http_response.rs`, `response/internal/`) | body state, cache, shared failure slot, token | `bytes`, `text`, `json`, `stream`, `sse_*` | readers take the body once; unbiased `select!`; dropped futures; a detached stream shares the failure slot |
| Error-body capture (`read_error_body_preview`) | preview and raw prefixes, budget, one deadline | a status error's body is captured | several limits, a deadline over many chunks, four ways to end |
| `HttpClient::execute` (`client/http_client.rs`, `client/internal/`) | attempts, the attempt's request, retry eligibility | `execute`, one attempt, retry flow, error mapping | interceptors change method, override, token and body between reads of them; who owns the token |
| Retry options and override (`options/http_retry_*`, `request/http_request_retry_override.rs`) | settings | `resolve`, `should_retry`, `allows_method` | precedence of client and request settings |
| Request and send pipeline (`request/http_request.rs`) | header cache, URL cache, body, execution options | setters, `send_impl` | caches cloned with the request; one deadline over preparation and send |
| Request builder (`request/http_request_builder.rs`) | fields, automatic content type | setters, `build` | which of several content types survives |
| Interceptors, injectors (`request/*interceptor*`, `*injector*`, `response/*interceptor*`) | registered lists | `apply` | a failure half way leaves a half-edited request |
| Client builder, redirects (`client/http_client_builder.rs`, `client/internal/`) | backend settings | `configure_backend`, the redirect policy | a chain of hops against origin, IPv4 and limit rules; a request built by another client |
| SSE line, frame, message, JSON decoders (`sse/*_decoder.rs`) | line buffer, pending frame, identifiers | decoding of arbitrary chunks | terminators split over chunks, limits, end of stream in the middle |
| SSE reconnect loop (`sse/sse_reconnect_runner.rs`, `.../internal/`) | cursor, budget, retry delay | `run` | exactly what a lost connection does to the cursor; cancellation at every stage |
| Cancellation token (`request/http_cancellation_token.rs`) | one flag | `cancel`, `is_cancelled`, `cancelled` | fires between any two steps |
| Options and configuration (`options/`) | settings | parsing and validation, section by section and as a whole | settings valid one by one that fail together; options no reader has seen |
| Errors (`error/`), logging and redaction (`client/http_logger.rs`, `redact/`) | none | mapping and formatting | none in the concurrency sense |

How they interact. `execute` clones the request for each attempt, runs the
request interceptors on the clone, prepares and sends it, checks the status
(capturing an error body), runs the response interceptors and returns a response
that owns the backend body. A retry flow is driven by `qubit_retry::TokioRetry`,
which watches the caller's token; the attempts watch only a token that an
interceptor put there. The reconnect loop calls one attempt at a time through
the same path with inner retries disabled, and decodes the response's body
through `stream`, the line decoder and the frame decoder. The response and the
stream taken from it share one thing, the failure slot.

What makes each correct:
- *Response body*: read once; a failure answers every later read; a cache is the
  whole body and stays; aggregation is bounded; polled reads return.
- *Error capture*: what is called complete is complete; the prefix is full when
  called cut; one deadline bounds it.
- *execute*: a retry is allowed by the request that failed and its error; each
  attempt sends its own body; the right token guards the response; the error is
  the last failure; the call returns.
- *Request pipeline*: an attempt never sends stale headers or a stale URL; the
  cursor a reconnect suppressed stays suppressed; the media type fits the body or is
  the caller's; one deadline bounds preparation and send together.
- *Options and client*: a client that exists can do what its operations take for
  granted, however its options came about.
- *Redirects*: no hop leaves the rules, whatever the chain and whichever client
  built the request.
- *Decoders*: the lines and frames do not depend on how bytes are chunked; limits
  hold; a JSON stream ends well only as its policy says.
- *Reconnect loop*: no replay, no loss but the documented one, the identifier in
  effect, bounded attempts and waits, cancellation stops it.

## 2. Modules

| Module | Models | Kind |
|---|---|---|
| `ReadOnce` | what a response body promises | abstract specification |
| `ResponseBody` | one `HttpResponse`, its readers and its stream | component, implements `ReadOnce` |
| `ResponseBodyProofs` | theorems about `ResponseBody` | proofs |
| `ErrorCapture` | the capture of an error status' body | component |
| `ErrorCaptureProofs` | theorems about `ErrorCapture` | proofs |
| `SseDecoder` | line and frame decoder over a chunked body, with a reference definition of what the bytes mean | component and reference |
| `SseDecoderProofs` | theorems about `SseDecoder` | proofs |
| `SseJson` | the JSON chunks of an SSE stream and how it ends, with a reference definition | component and reference |
| `SseJsonProofs` | theorems about `SseJson` | proofs |
| `HttpExecute` | one call of `HttpClient::execute` | component |
| `HttpExecuteProofs` | theorems about `HttpExecute` | proofs |
| `HttpRequest` | client snapshot, request builder, built request, attempts' clones and `send_impl` | composition |
| `HttpRequestProofs` | theorems about `HttpRequest` | proofs |
| `ClientSetup` | options from configuration or by hand, client builder, redirects | component |
| `ClientSetupProofs` | theorems about `ClientSetup` | proofs |
| `SseReconnect` | the reconnect loop with the frame decoder's identifier rules and a server | composition |
| `SseReconnectProofs` | theorems about `SseReconnect` | proofs |
| `MC*` | constants for TLC | instances |

Correspondence, in short (PROJECT.json names the lines of every definition):

**ResponseBody.** `body` is `HttpResponseBodyState`, `failure` the shared slot
`body_read_failure`, `hint` the original `Content-Length`, `token` the
response's cancellation token. A pending `bytes` future is `reader` (with the
operation that awaits it) and `used`, its budget; the stream that took the
backend is `stream`. `ready` is what the connection holds for the next poll.
Every early return of `bytes` and `stream` is an action, and so is each way one
turn of their loops can end. Since both `select!`s are unbiased, `ReadCancelled`
and `ReadChunk` may both be enabled; since `tokio::time::timeout` polls its
inner future first, `ReadTimesOut` needs an empty connection. `DropReader` and
`DropStream` are the caller dropping a future or a stream. Bytes are counts.
Both constructors take the hint from the method, the status and the headers
(`ContentLengthHints`). For a body in memory these are the caller's, so its hint may
differ from its size (another `Content-Length`, or zero for HEAD and 304); the history
`origin` records the constructor, since only a backend is held to what it advertises.

**ErrorCapture.** `preview` and `raw` are the lengths of the two prefixes that
`read_error_body_preview` fills, `used` what its `capture_budget` has admitted,
`clock` the time since `capture_started_at`. `NextRead` is the head of the loop, the
other actions are the ways one `select!` can end; `Finish` is what follows the
loop. The branches for a body that was buffered or taken before are not modelled:
`execute` captures a body it has just received.

**SseDecoder.** `buffer`, `pendingCr` and `lineNo = 0` are `buffer`, `pending_cr` and
`first_line` of `decode_lines`; `frame` holds the locals `current_*` and `has_*` of
`decode_records`, `lastId` its `last_event_id`. `Feed` is a chunk; `ScanRun`, `SkipLf`
and `ScanLine` are the three ways one turn of the inner loop ends. The frame decoder
pulls each line as it is yielded, so a line and its fields are one step. A record carries
the number of the line that made it come out, which the code's does not: a history the
properties read. The second half of the module reads lines, frames and records off the
whole wire at once, without chunks or state; the properties compare the two. `DecodePollBudget` only
yields to the executor and is left out.

**HttpExecute.** `request` is the attempt's clone, `template` the caller's
request, `allowed` the variable `retry_allowed`. `Fail` is
`HttpRetryRule::decide` together with the executor's admission: the executor of
`qubit_retry` is external, and its time budget, where configured, may run out at
any admission. `Edits` is what an interceptor may do that the rest of the code
reads: another method, another override (setting or method policy, also back to unset),
no token, one of its own or the caller's again, another body. `sent` and `failures` are histories the properties read.

**SseReconnect.** The server keeps a log of frames and resumes behind the
`Last-Event-ID` it is sent; `pos` and `line` say what is on the wire. `cursor` is
the runner's `last_event_id`, `frameId` and `decoderId` the frame decoder's
`current_id` and `last_event_id`. A connection may end cleanly or with an error
between any two lines, and cleanly inside an `id:` line, whose value then is a prefix
of the sent one: `Cut[k]` says what event k's may read as, nothing or the identifier of
an earlier or later event. `history` records the dispatched events in order, with a
`Rewind` where the cursor moved back; `eofIds` are the events whose identifier was
committed by the end of a stream, without their data being dispatched.

**SseJson.** `records` and `ending` are what `decode_messages_from_stream_with_limits`
delivers; each action is one way a turn of the loop in
`decode_json_chunks_from_stream_with_limits` ends. A payload is one of the classes the
loop tells apart: without visible characters, one of two marker texts, JSON, JSON that
lenient normalization repairs, no JSON, JSON over the limits. The frame decoder's own
end, a message never closed by a blank line, is no record (`SseDecoder`). The second
half of the module reads the chunks off the whole body at once.

**HttpRequest.** `client` is what the owner of an `HttpClient` may change, `template`
the builder's fields and, from `Build` on, the built request, `request` an attempt's
clone. `url` in both is the cache `resolved_url`, `context` the snapshot
`HttpRequestContext` keeps of the client, `cursor` the `sse_last_event_id_override`. A
header value says where it comes from, so that stale and fresh output of an injector
differ: `Value("injected", 2)` is what the second attempt's run produced. `draft` and
`next` are the locals of `compute_effective_headers`; the actions from `BeginSend` on are
the stages of `send_impl`, each timed by `due`, which `StageTimeout` derives from the one
`send_deadline`. `log` is a history of what the builder was given, which
`ContentTypeFitsBody` reads. Not in the module: query parameters (appended to the URL,
never cached), `request_timeout` and `read_timeout`, logging, and the cache of effective
headers, which `send_impl` clears first and only the logger reads afterwards; nor several
values of one header, which `headers(map)` may append (a header is the last value given); `send_impl`
never meets an unresolvable URL, since `prepare_and_send_once` resolves it before.

**ClientSetup.** `section` is how far `from_config_impl` has read; a section overrides
the options it names (`Override`) after its own validation, and `ReadAll` is the final
`validate`. `SetOptions` is a caller who fills the public fields instead, so that only
`configure_backend` validates. A client is the options it was built with;
`builder` and `executor` are the client that built the request and the one that
executes it, which need not be the same: the first URL is checked by the snapshot of the
first (`Admits`), the hops by the redirect policy of the second (`RedirectPolicy`).
`chain` is reqwest's list of visited URLs. How values are spelled and which path an
error names are left out; a section that does not parse is a flaw.

## 3. Runs

| Run | Instance | Shows |
|---|---|---|
| `response_body` | bodies to 4 bytes, chunks to 2, limit 2 | the eight properties of `ResponseBody`, refinement included |
| `sse_reconnect` | log of 5 frames, 3 attempts, server delays 0 and 5 under a cap of 3, `Retry-After` 0 and 4 | the eight properties of `SseReconnect` |
| `http_execute` | 3 attempts, 2 interceptors, 2 client settings, 3 requests | the seven properties of `HttpExecute` |
| `error_capture` | bodies to 5 bytes, chunks to 3, preview 1, raw 3, deadline 2 | the five properties of `ErrorCapture` |
| `sse_decoder` | all wires to 5 bytes over four kinds, 15 longer ones; line 2, frame 3, window 2 | the decoder agrees with the reference |
| `sse_json` | all bodies to 3 records, 7 payload classes, 4 markers, 2 modes, 2 completion policies | the decoder agrees with the reference |
| `request_pipeline` | 2 edits and 3 builder helpers, 2 attempts, 3 injectors, 4 paths, 2 clients' options | the five properties of `HttpRequest` |
| `client_setup` | 241 configurations, 6 option sets by hand, 2 clients, 2 redirects, 5 URLs | the two properties of `ClientSetup` |
| `body_cancel_io` | as `response_body` | finding: a chunk may be read after cancellation |
| `body_cancel_retained` | as `response_body` | finding: `stream()` reports a cancellation that nothing retains |
| `sse_cut_id` | as `sse_reconnect` | finding: an `id:` line cut by the end of stream becomes the cursor |
| `execute_cancel` | as `http_execute` | finding: a retry flow's attempt does not check the token before it prepares the send |

Why the bounds are enough. *ResponseBody*: a limit of two with chunks of one and
two meets the limit inside, at the end of and between chunks; four bytes leave
room to be over it by more than one chunk; the control does not depend on sizes
beyond the comparison, and the proofs cover all sizes. *ErrorCapture*: chunks
larger than the preview and as large as the raw limit meet both limits inside, at
the end of and between chunks, bodies exceed the budget of four by a byte, the clock
runs to twice the deadline; the proofs cover all sizes. *SseDecoder*: a
scan window of two ends before, inside and behind a CRLF, also without a chunk ending
there; five bytes hold two frames; what five bytes over four kinds do not reach (the
byte order mark, comments, events, delays, bytes that are not UTF-8, both limits) is
in the longer wires, one or two for each, and each in every division into chunks. *HttpExecute*: three
attempts allow a middle attempt that is neither first nor last; two interceptors
allow one to undo or fail after the edit of the other; the kinds are one that is
retried and can be produced by a timer, one that is not retried, and cancellation,
which the options are made to retry so that a cancelled attempt can be followed
by another. *SseReconnect*: delays are zero or beyond the cap, so that both corrections
(`AtLeastOne`, `Capped`) matter; three attempts allow a second reconnect whose cursor
depends on both sessions before it; the log has one frame of each kind of
identifier, an event without identifier behind one with, and a control-only one; a cut
identifier may be empty everywhere, and the first may read as the third, the fifth as
the first or third, so that a cut moves the cursor back as well as forward.

*SseJson*: three records allow one that is skipped between two that matter, in any
order; longer bodies repeat these. *HttpRequest*: two attempts tell stale from fresh
injector output; `MaxEdits` = 2 lets one edit undo or combine with another, of the
client, the builder, the request or a clone; `MaxHelpers` = 3 reaches every order of an
explicit media type, a first body and a second body, and a builder that has used more
than `MaxEdits` is built but not sent, which keeps the two products apart; timeouts of
one and two ticks let a stage use none, part or all of what is left. *ClientSetup*: every
rule of `validate` relates at most two settings, so configurations change two;
`MaxHops` = 2 allows a hop that comes back and one that is compared with the first URL
and not the last; `MaxClients` = 2 allows a request to change hands.

Deadlock checking is off in every run because each modelled call ends and the
caller need not start another.

Fairness. `ResponseBody` asks weak fairness of `ReadStep` only: a polled future is
woken by its chunk, its timer or its token, and the read timeout is always
configured. Nothing is asked of the server or of the caller. `HttpExecute` asks it
of `Local`, what the client does without the server: every wait in it has a timer
(`response_header_timeout` has no "off" value and bounds preparation and send, and
the executor's waits are sleeps). `SseReconnect` asks it of `Running`, the loop
outside a session, for the same reason, and of `SessionCancelled`, the
`token.cancelled()` branch of the stream; a server may talk for ever, so a session
itself has none. (An unbiased `select!` is fair to a branch that stays ready.)

## 4. Proofs

`ResponseBodyProofs` proves, for every limit, chunk size and body length, from the
assumptions on the constants named in `ResponseBody`:
type correctness, the four safety invariants, the permanence of the cache
and that `ResponseBody` implements `ReadOnce`. The invariants are not inductive.
That a cached body is complete, and as long as the backend advertised where one
delivered it, needs that the polled read has aggregated everything delivered (`ReaderOwnsDelivered`), which needs that nobody
read from the backend before (`BackendUnread`) and that the end of a body comes
after the advertised length (`EofIsHonest`, a fact about hyper). `IInv` is
their conjunction; `Inductive` proves it, one step per action, and the theorems
follow from it.

`ErrorCaptureProofs` proves all five properties of `ErrorCapture` for every limit,
timeout, chunk size and body length. What `Complete` means cannot be read off one
step: the loop may stop with one byte to spare beyond the larger limit, and `Complete`
is decided afterwards from the two truncation marks. `IInv` therefore states all
counters as functions of the bytes delivered (`CountersAgree`: each prefix is as long as
its limit allows, each mark says whether more was delivered, and the loop only goes
on while the budget does), that the server is honest about its length
(`ServerIsHonest`), what each end says (`EndIsTrue`) and that a chunk behind the
deadline is the last (`LateStops`). It rests on `Arithmetic`: the budget is larger than
either limit.

`ClientSetupProofs` proves, for all configurations, options, URLs and numbers of clients
and hops, that every client is usable and that redirects stay inside. The first rests on
`ClientsAreBuildable`, that every client passed `Buildable`, which is inductive by itself
(reading sections adds nothing to what the final validation demands: options set by hand
never meet a reader). The second needs, beside it, where an execution stands
(`ChainIsAdmitted`: the builder and the executor are clients, the first URL was admitted by
the builder, every later one followed the executor's rules).

`HttpExecuteProofs` proves all six safety properties of `HttpExecute`, for any set of kinds,
options, requests and interceptor edits and any number of attempts and interceptors.
`KindAssumption` says that the client can itself produce a timeout and a cancellation and
that "ok" is no kind of error. That a retry is justified depends on a flag read before
the step that uses it, so `IInv` holds that `allowed` is what the attempt's request says
whenever no interceptor is at work (`AllowedIsTrue`); that an attempt sends its own
body, that until it sends nobody has sent in its name (`BodyInv`); that the last
failure is reported, that there are as many failures as finished attempts
(`FailuresInv`); and which flow drives the call and what it has left (`FlowInv`).

`SseReconnectProofs` proves all seven safety properties of `SseReconnect`, for every
log, every set of cut identifiers, every budget, delay and cap. `CutAssumption` says that
a cut identifier is empty or names an event that has one: a prefix that names
no event of the server is, to the server, no identifier. The loop's half (`ControlInv`) is
inductive without the data: an attempt connects once and is admitted before the
cancellation that makes it late. For the data, `CursorInv` ties the cursor to the place of the
connection in the log and to the identifier in effect there, `LineInv` the decoder's
fields to the line on the wire, `DeliveredInv` says that everything with data behind that
line was dispatched or cut, and `OwnBehindCursor` that no dispatched identifier
is ahead of the cursor unless the cursor was rewound since. `NoReplay` follows
because an event about to be dispatched is ahead of the cursor.

`HttpRequestProofs` proves all five properties of `HttpRequest`, for any paths, header
names, injectors, timeouts and number of edits and attempts. `PathAssumption` gives
an absolute URL a host, `TypedAssumption` says that a caller's body kind with a media type is
neither no body nor multipart, which have rules of their own. `UrlInv` says that the cached URL is the one
the request computes, in the template and in the clone, whatever was edited in between;
`DraftInv` that the headers under computation are, after any number of injectors, those
of the last one that touched each (`InjectedOf`); `ContextInv` that request and
clone keep the client they were built from. For the media type, `BuilderInv` splits the
history of a builder into three: nothing given, bodies only (`AutomaticType`: the
last body's), and an explicit header (`ExplicitType`: the last header's, but for
multipart, whose boundary is that of the first multipart body behind it).

`SseJsonProofs` proves, for bodies of any length under every combination of policies, that
the decoder, which sees one record at a time, agrees with the reference, which reads
the whole body at once. The reference is stated without recursion: `Lists` says that the
chunks are those of a set of records, in order. `IInv` adds that while the
stream goes on no record taken so far ends it and a marker can still come
(`ProgressInv`); `ListGrows` is the step of the induction, over the records taken.

`SseDecoderProofs` proves all four properties of `SseDecoder`, for every wire, both limits,
every window and every division into chunks. `WireAssumption` gives byte order marks
whole (a mark sent in part is a byte that is not UTF-8), `LimitAssumption` says that
limits and window are positive. The reference has no recursion: a line is the set of
positions that hold its bytes, a frame a set of lines, and `Lists` says that the records are
those of a set of lines, in order. Two ideas carry the proof. The bytes of a line lie side
by side, so what the decoder has collected is one interval of the wire (`Collects`), which
a window without terminator lengthens (`CollectsRun`), the LF of a CRLF leaves empty
(`CollectsSkip`), and a terminator closes (`CollectsLine`); this is `LineInv`. And the
frame decoder's fields are what the lines since the last blank one say (`IsFrame`), its
identifier the last committed one (`Committed`), and no line taken offends; this is
`FrameInv`. That a line too long is refused before its end has been seen needs that it goes
on to an end, which only makes it longer (`LineGoesOn`); that nothing is missing before a
refused line, that the good lines are exactly those taken (`FirstOffence`).

Only model-checked: `ReadReturns`, `Returns` and `CancellationStops`, since liveness under
fairness and ENABLED are out of the prover's reach. Every safety invariant, action
property and refinement that a run checks is a theorem.

## 5. Plan

Done: every component module with its run, and a theorem for every safety property of
every one of them. Next: lemmas that say of the helpers of `HttpExecute` and `HttpRequest`
what a caller relies on (precedence of settings, layering of headers), and the safety half
of the three liveness properties (how far a call can get without the step that fairness
gives it).

Not modelled, and why:
- logging, redaction and the text of errors (`client/http_logger.rs`, `redact/`,
  `error/http_error.rs`): they read state, change none and return text;
- the spelling of configuration values and media types (`content_type.rs`, the `parse_*`
  functions of `options/`): pure functions of one string, whose results `ClientSetup` and
  `HttpRequest` take as classes;
- the delays between retries (`BackoffPolicy`, `qubit_retry`) and TLS, pool and DNS
  settings (`Ipv4OnlyResolver`): outside the repository, or handed over unchanged;
- response interceptors' edits of a response's head, and copying of hooks by
  `rebuild_with_options`: single assignments that nothing else reads concurrently.

## 6. What the models take from outside

The repository's code is the reference. Assumed of libraries: hyper delivers
exactly the advertised length before it reports the end of a body, and no chunk of zero bytes (the
read timeout bounds the wait for a chunk, so without end of such chunks `ReadReturns`
would not hold); `tokio::select!`
without `biased` picks any ready branch; `tokio::time::timeout` polls its future before
its timer; `qubit_retry` counts attempts exactly, checks its budgets on admission
and drops a pending attempt when its token fires; reqwest asks the redirect policy before
every hop, with all URLs visited so far, and follows at most `max_redirects` hops, ten by
default; the SSE server resumes after the
identifier it is sent.
