---------------------------- MODULE SseReconnect ----------------------------
(***************************************************************************)
(* HttpClient::execute_sse_with_reconnect: the loop that keeps one merged  *)
(* message stream alive over several connections                           *)
(* (src/sse/sse_reconnect_runner.rs, .../internal/reconnect_state.rs),     *)
(* with the frame decoder's identifier rules (src/sse/frame_decoder.rs).   *)
(*                                                                         *)
(* The server keeps a log of frames and resumes after the Last-Event-ID it *)
(* is sent.  A connection may end between any two lines of a frame.  The   *)
(* caller's token, the token an interceptor puts on one attempt, the       *)
(* server and the retry clock act between any two steps of the loop.       *)
(* Event k's identifier is the number k; texts are left out.               *)
(***************************************************************************)
EXTENDS Integers, Sequences

CONSTANTS
  Log,           \* frames: [id : {"none", "own", "empty", "unsendable"}, data : BOOLEAN]
  MaxAttempts,   \* retry.max_attempts
  TimeBudgets,   \* configured time budgets, a subset of {"operation", "total"}
  RetryValues,   \* bound: milliseconds a server puts in `retry:`
  HintValues,    \* bound: delays of honoured Retry-After headers
  PolicyDelays,  \* bound: delays the backoff policy produces
  ServerCap,     \* server_retry_max_delay
  Cut            \* Cut[k]: what event k's identifier may read as when its line is cut

Events == 1..Len(Log)

ASSUME LogAssumption ==
  Log \in Seq([id : {"none", "own", "empty", "unsendable"}, data : BOOLEAN])
ASSUME AttemptsAssumption == MaxAttempts \in Nat \ {0}
ASSUME BudgetAssumption == TimeBudgets \subseteq {"operation", "total"}
ASSUME DelayAssumption == /\ ServerCap \in Nat \ {0}
                          /\ RetryValues \subseteq Nat
                          /\ HintValues \subseteq Nat
                          /\ PolicyDelays \subseteq Nat

NoCursor == -1   \* last_event_id = None
EmptyId == 0     \* Some(""): the server reset the identifier
Cursors == Events \union {NoCursor, EmptyId}
NoHint == -1     \* http_retry_after = None
Rewind == 0      \* in history: the cursor moved to another place than forward

\* A cut identifier may name no event (EmptyId) or one that has an identifier.
Identified == {k \in Events : Log[k].id \in {"own", "unsendable"}}
ASSUME CutAssumption == Cut \in [Events -> SUBSET (Identified \union {EmptyId})]

VARIABLES
  options,        \* the SseReconnectOptions switches, fixed for the stream
  phase,          \* where the loop is
  attempts,       \* attempts the retry budget has admitted
  connections,    \* history: requests handed to the backend
  late,           \* history: those handed over after the caller cancelled
  cursor,         \* last_event_id of the runner
  header,         \* the Last-Event-ID this attempt carries
  retryDelay,     \* server_retry_delay, 0 when none
  wait,           \* the delay being slept
  flowCancelled,  \* the caller's token has fired
  attemptToken,   \* which token guards the attempt: "flow", "own" or "none"
  ownCancelled,   \* the interceptor's token has fired
  pos, line,      \* the server: frame and the last line of it on the wire
  frameId,        \* the frame decoder's current_id
  decoderId,      \* the frame decoder's last_event_id, per connection
  history,        \* dispatched events in order, with a Rewind at a reset
  messageId,      \* last_event_id of the latest message
  eofIds,         \* history: events with data the cursor passed at an end of stream
  outcome         \* how the merged stream ended

tokenVars == <<flowCancelled, attemptToken, ownCancelled>>
serverVars == <<pos, line, frameId, decoderId>>
outputVars == <<history, messageId>>
vars == <<options, phase, attempts, connections, late, cursor, header, retryDelay, wait,
          tokenVars, serverVars, outputVars, eofIds, outcome>>

NoWait == [source |-> "none", delay |-> 0]

TypeOK ==
  /\ options \in [reconnectOnEof : BOOLEAN, honorServerRetry : BOOLEAN, jitter : BOOLEAN]
  /\ phase \in {"begin", "intercepted", "sending", "streaming", "waiting", "done"}
  /\ attempts \in 0..MaxAttempts
  /\ connections \in 0..MaxAttempts /\ late \in 0..MaxAttempts
  /\ {cursor, header, messageId, frameId, decoderId} \subseteq Cursors
  /\ retryDelay \in 0..ServerCap
  /\ wait \in [source : {"none", "sse", "http", "policy"}, delay : Nat]
  /\ flowCancelled \in BOOLEAN /\ ownCancelled \in BOOLEAN
  /\ attemptToken \in {"flow", "own", "none"}
  /\ pos \in 1..(Len(Log) + 1) /\ line \in {"start", "id", "data"}
  /\ history \in Seq(Events \union {Rewind})
  /\ eofIds \subseteq Events
  /\ outcome \in {"none", "end", "Retryable", "Fatal", "Cancelled", "SseProtocol",
                  "InvalidCursor", "RetryBudgetExceeded"}

Init ==
  /\ options \in [reconnectOnEof : BOOLEAN, honorServerRetry : BOOLEAN, jitter : BOOLEAN]
  /\ phase = "begin" /\ attempts = 0 /\ connections = 0 /\ late = 0
  /\ cursor = NoCursor /\ header = NoCursor
  /\ retryDelay = 0 /\ wait = NoWait
  /\ flowCancelled = FALSE /\ attemptToken = "flow" /\ ownCancelled = FALSE
  /\ pos = 1 /\ line = "start" /\ frameId = NoCursor /\ decoderId = NoCursor
  /\ history = <<>> /\ messageId = NoCursor /\ eofIds = {}
  /\ outcome = "none"

End(result) == phase' = "done" /\ outcome' = result

AttemptCancelled ==
  (attemptToken = "flow" /\ flowCancelled) \/ (attemptToken = "own" /\ ownCancelled)

-----------------------------------------------------------------------------
(* The retry budget (external) and the reconnect delay.                    *)

\* Fault: attempts are not part of the admission check.
UncountedVerdicts == {"ok"} \union TimeBudgets

\* check_retry_after: attempts are counted exactly; a configured time budget
\* may be spent at any check.
Verdicts ==
  (IF attempts < MaxAttempts THEN {"ok"} ELSE {"attempts"}) \union TimeBudgets

AtLeastOne(d) == IF d < 1 THEN 1 ELSE d
Capped(d) == IF d > ServerCap THEN ServerCap ELSE d

\* Fault: the server's value is stored as it came.
UncappedStoredDelay(ms) == AtLeastOne(ms)

\* server_retry_delay
StoredDelay(ms) == Capped(AtLeastOne(ms))

\* Fault: the cap is not applied again after the jitter.
SleepDelaysJitteredLast(hint) ==
  IF hint # NoHint THEN {[source |-> "http", delay |-> AtLeastOne(hint)]}
  ELSE IF retryDelay # 0
    THEN {[source |-> "sse", delay |-> AtLeastOne(d)] :
            d \in IF options.jitter THEN retryDelay..(retryDelay + 1) ELSE {retryDelay}}
    ELSE {[source |-> "policy", delay |-> AtLeastOne(d)] : d \in PolicyDelays}

\* sleep_delay: an HTTP hint goes before the stored server delay, which goes
\* before the backoff policy.  A hint of no delay is a hint, and no sleep is empty.
\* Jitter may lengthen a server delay; the cap is applied again afterwards.
SleepDelays(hint) ==
  IF hint # NoHint THEN {[source |-> "http", delay |-> AtLeastOne(hint)]}
  ELSE IF retryDelay # 0
    THEN {[source |-> "sse", delay |-> Capped(AtLeastOne(d))] :
            d \in IF options.jitter THEN retryDelay..(retryDelay + 1) ELSE {retryDelay}}
    ELSE {[source |-> "policy", delay |-> AtLeastOne(d)] : d \in PolicyDelays}

\* sleep_and_advance
StartWait(hint) ==
  phase' = "waiting" /\ wait' \in SleepDelays(hint) /\ UNCHANGED outcome

\* after_error for a reconnectable error.
AfterError(hint) ==
  \E verdict \in Verdicts :
    \/ verdict = "ok" /\ StartWait(hint)
    \/ verdict = "attempts" /\ End("Retryable") /\ UNCHANGED wait
    \/ verdict \in TimeBudgets /\ End("RetryBudgetExceeded") /\ UNCHANGED wait

\* after_eof: running out of attempts ends the stream normally.
AfterEof ==
  \E verdict \in Verdicts :
    \/ verdict = "ok" /\ StartWait(NoHint)
    \/ verdict = "attempts" /\ End("end") /\ UNCHANGED wait
    \/ verdict \in TimeBudgets /\ End("RetryBudgetExceeded") /\ UNCHANGED wait

-----------------------------------------------------------------------------
(* One attempt: the head of the loop and execute_once_for_sse.             *)

budgetVars == <<attempts, connections, late>>
cursorVars == <<cursor, eofIds>>
streamVars == <<serverVars, outputVars, cursorVars, retryDelay>>

Sendable(id) == id \in Events => Log[id].id # "unsendable"

\* Fault: the first cancellation check of the attempt is missing.
BeginUnchecked ==
  /\ phase = "begin" /\ attempts < MaxAttempts
  /\ attempts' = attempts + 1 /\ header' = cursor
  /\ phase' = "intercepted" /\ attemptToken' \in {"flow", "own", "none"}
  /\ ownCancelled' = FALSE /\ UNCHANGED outcome
  /\ UNCHANGED <<options, connections, late, wait, flowCancelled, streamVars>>

\* begin_attempt: a time budget may have been spent during the sleep.
BeginTooLate ==
  /\ phase = "begin" /\ TimeBudgets # {}
  /\ End("RetryBudgetExceeded")
  /\ UNCHANGED <<options, budgetVars, header, wait, tokenVars, streamVars>>

\* A clone of the template gets the cursor as its Last-Event-ID (an empty
\* identifier removes the header), the attempt's first check reads the
\* template's token, and the interceptors may replace or remove that token.
Begin ==
  /\ phase = "begin" /\ attempts < MaxAttempts
  /\ attempts' = attempts + 1 /\ header' = cursor
  /\ \/ /\ ~Sendable(cursor)
        /\ End("InvalidCursor") /\ UNCHANGED <<attemptToken, ownCancelled>>
     \/ /\ Sendable(cursor) /\ flowCancelled
        /\ End("Cancelled") /\ UNCHANGED <<attemptToken, ownCancelled>>
     \/ /\ Sendable(cursor) /\ ~flowCancelled
        /\ phase' = "intercepted" /\ attemptToken' \in {"flow", "own", "none"}
        /\ ownCancelled' = FALSE /\ UNCHANGED outcome
  /\ UNCHANGED <<options, connections, late, wait, flowCancelled, streamVars>>

\* prepare_and_send_once: the token left by the interceptors is checked again.
Send ==
  /\ phase = "intercepted"
  /\ \/ AttemptCancelled /\ End("Cancelled") /\ UNCHANGED <<connections, late>>
     \/ /\ ~AttemptCancelled
        /\ phase' = "sending" /\ connections' = connections + 1
        /\ late' = IF flowCancelled THEN late + 1 ELSE late
        /\ UNCHANGED outcome
  /\ UNCHANGED <<options, attempts, header, wait, tokenVars, streamVars>>

\* The attempt fails: a reconnectable error (timeout, transport, 429 or 5xx,
\* the last two possibly with an honoured Retry-After), or any other.
OpenFails ==
  /\ phase = "sending"
  /\ \/ \E hint \in HintValues \union {NoHint} : AfterError(hint)
     \/ End("Fatal") /\ UNCHANGED wait
     \/ AttemptCancelled /\ End("Cancelled") /\ UNCHANGED wait
  /\ UNCHANGED <<options, budgetVars, header, tokenVars, streamVars>>

\* 204 ends the stream before, and a wrong media type after, that branch.
OpenRejected ==
  /\ phase = "sending"
  /\ \E result \in {"end", "SseProtocol"} : End(result)
  /\ UNCHANGED <<options, budgetVars, header, wait, tokenVars, streamVars>>

\* The records of the response: opening its body checks the attempt's token
\* once more.  The server resumes after the identifier it was sent.
Open ==
  /\ phase = "sending"
  /\ \/ AttemptCancelled /\ End("Cancelled") /\ UNCHANGED serverVars
     \/ /\ ~AttemptCancelled
        /\ phase' = "streaming" /\ UNCHANGED outcome
        /\ pos' = (IF header \in Events THEN header + 1 ELSE 1) /\ line' = "start"
        /\ frameId' = NoCursor /\ decoderId' = NoCursor
  /\ UNCHANGED <<options, budgetVars, header, wait, tokenVars,
                 outputVars, cursorVars, retryDelay>>

-----------------------------------------------------------------------------
(* One session: the lines of the server's log and what is made of them.    *)

sessionFrame == <<options, budgetVars, header, wait, tokenVars>>
Streaming == phase = "streaming"
Frame == Log[pos]
FrameIdOf(k) == IF Log[k].id = "empty" THEN EmptyId ELSE k

IdLine ==
  /\ Streaming /\ pos \in Events /\ line = "start" /\ Frame.id # "none"
  /\ line' = "id" /\ frameId' = FrameIdOf(pos)
  /\ UNCHANGED <<sessionFrame, phase, outcome, pos, decoderId,
                 outputVars, cursorVars, retryDelay>>

DataLine ==
  /\ Streaming /\ pos \in Events /\ Frame.data
  /\ line = (IF Frame.id = "none" THEN "start" ELSE "id")
  /\ line' = "data"
  /\ UNCHANGED <<sessionFrame, phase, outcome, pos, frameId, decoderId,
                 outputVars, cursorVars, retryDelay>>

\* A `retry:` field takes effect at its line, wherever the line stands.
RetryLine(ms) ==
  /\ Streaming
  /\ retryDelay' = IF options.honorServerRetry THEN StoredDelay(ms) ELSE retryDelay
  /\ UNCHANGED <<sessionFrame, phase, outcome, serverVars, outputVars, cursorVars>>

FrameSent == /\ Streaming /\ pos \in Events
             /\ line = (IF Frame.data THEN "data"
                        ELSE IF Frame.id # "none" THEN "id" ELSE "start")

Resets(id) == IF id = EmptyId THEN <<Rewind>> ELSE <<>>

\* Fault: a message keeps only the identifier its own connection has seen.
BlankWithoutInheritance ==
  /\ FrameSent
  /\ pos' = pos + 1 /\ line' = "start" /\ frameId' = NoCursor
  /\ decoderId' = (IF frameId # NoCursor THEN frameId ELSE decoderId)
  /\ cursor' = IF decoderId' # NoCursor THEN decoderId' ELSE cursor
  /\ history' = history \o Resets(frameId) \o (IF Frame.data THEN <<pos>> ELSE <<>>)
  /\ messageId' = IF Frame.data THEN decoderId' ELSE messageId
  /\ UNCHANGED <<sessionFrame, phase, outcome, eofIds, retryDelay>>

\* Fault: a dispatched message does not move the reconnect cursor.
BlankKeepingCursor ==
  /\ FrameSent
  /\ pos' = pos + 1 /\ line' = "start" /\ frameId' = NoCursor
  /\ decoderId' = (IF frameId # NoCursor THEN frameId ELSE decoderId)
  /\ cursor' = IF ~Frame.data /\ frameId # NoCursor THEN frameId ELSE cursor
  /\ history' = history \o Resets(frameId) \o (IF Frame.data THEN <<pos>> ELSE <<>>)
  /\ messageId' = IF Frame.data THEN decoderId' ELSE messageId
  /\ UNCHANGED <<sessionFrame, phase, outcome, eofIds, retryDelay>>

\* The blank line commits the frame's identifier and dispatches its data.  A
\* frame with an identifier and no data only moves the cursor.  A message
\* without an identifier on this connection takes the runner's cursor.
Blank ==
  /\ FrameSent
  /\ pos' = pos + 1 /\ line' = "start" /\ frameId' = NoCursor
  /\ decoderId' = (IF frameId # NoCursor THEN frameId ELSE decoderId)
  /\ cursor' = IF frameId # NoCursor \/ (Frame.data /\ decoderId # NoCursor)
               THEN decoderId' ELSE cursor
  /\ history' = history \o Resets(frameId) \o (IF Frame.data THEN <<pos>> ELSE <<>>)
  /\ messageId' = IF Frame.data THEN cursor' ELSE messageId
  /\ UNCHANGED <<sessionFrame, phase, outcome, eofIds, retryDelay>>

SessionOver(next) == /\ next
                     /\ UNCHANGED <<options, budgetVars, header, tokenVars, serverVars,
                                    retryDelay, messageId>>

EndsCleanly == IF options.reconnectOnEof THEN AfterEof ELSE End("end") /\ UNCHANGED wait

\* A clean end of stream between two lines: a pending identifier counts when
\* no data line of its frame has arrived, even if one was to follow.
SessionEof ==
  /\ Streaming
  /\ IF line = "id"
       THEN /\ cursor' = frameId /\ history' = history \o Resets(frameId)
            /\ eofIds' = eofIds \union (IF Frame.data THEN {pos} ELSE {})
       ELSE UNCHANGED <<cursorVars, history>>
  /\ SessionOver(EndsCleanly)

\* A clean end of stream inside an `id:` line: the line decoder hands over
\* the fragment, and what is there of the identifier counts.  It may name an
\* earlier event, or a later one, which skips what is in between.
SessionEofInIdLine ==
  /\ Streaming /\ pos \in Events /\ line = "start" /\ Frame.id \in {"own", "unsendable"}
  /\ cursor' \in Cut[pos]
  /\ history' = IF cursor' < pos THEN Append(history, Rewind) ELSE history
  /\ eofIds' = eofIds \union {k \in pos..cursor' : Log[k].data}
  /\ SessionOver(EndsCleanly)

\* Fault: an error commits the pending identifier as an end of stream does.
SessionErrorKeepingId ==
  /\ Streaming
  /\ cursor' = (IF frameId # NoCursor THEN frameId ELSE cursor)
  /\ UNCHANGED <<eofIds, history>>
  /\ SessionOver(AfterError(NoHint) \/ (End("SseProtocol") /\ UNCHANGED wait))

\* A timeout, transport or unexpected-EOF error may reconnect; a protocol
\* error ends the stream.  The pending frame is lost with its identifier.
SessionError ==
  /\ Streaming
  /\ UNCHANGED <<cursorVars, history>>
  /\ SessionOver(AfterError(NoHint) \/ (End("SseProtocol") /\ UNCHANGED wait))

\* Fault: only an interceptor's token reaches the body reads.
SessionCancelledByOwnOnly ==
  /\ Streaming /\ attemptToken = "own" /\ ownCancelled
  /\ UNCHANGED <<cursorVars, history>>
  /\ SessionOver(End("Cancelled") /\ UNCHANGED wait)

SessionCancelled ==
  /\ Streaming /\ AttemptCancelled
  /\ UNCHANGED <<cursorVars, history>>
  /\ SessionOver(End("Cancelled") /\ UNCHANGED wait)

-----------------------------------------------------------------------------
(* The wait, the tokens and the specification.                             *)

\* sleep_reconnect_delay watches the token of the original request.
WaitCancelled ==
  /\ phase = "waiting" /\ flowCancelled
  /\ End("Cancelled") /\ wait' = NoWait
  /\ UNCHANGED <<options, budgetVars, header, tokenVars, streamVars>>

WaitElapses ==
  /\ phase = "waiting"
  /\ phase' = "begin" /\ wait' = NoWait
  /\ UNCHANGED <<options, budgetVars, header, tokenVars, streamVars, outcome>>

CancelFlow ==
  /\ ~flowCancelled /\ flowCancelled' = TRUE
  /\ UNCHANGED <<options, phase, budgetVars, header, wait, attemptToken, ownCancelled,
                 streamVars, outcome>>

CancelOwn ==
  /\ attemptToken = "own" /\ ~ownCancelled /\ ownCancelled' = TRUE
  /\ UNCHANGED <<options, phase, budgetVars, header, wait, attemptToken, flowCancelled,
                 streamVars, outcome>>

Running ==
  \/ BeginTooLate \/ Begin \/ Send \/ OpenFails \/ OpenRejected \/ Open
  \/ WaitCancelled \/ WaitElapses
Session ==
  \/ IdLine \/ DataLine \/ Blank \/ (\E ms \in RetryValues : RetryLine(ms))
  \/ SessionEof \/ SessionEofInIdLine \/ SessionError \/ SessionCancelled

Next == Running \/ Session \/ CancelFlow \/ CancelOwn

\* The loop outside a session runs on timers and bounded sends; inside one,
\* only the attempt's token is sure to be noticed: a server may go on for
\* ever, and nothing makes it say anything.
Spec == Init /\ [][Next]_vars /\ WF_vars(Running) /\ WF_vars(SessionCancelled)

-----------------------------------------------------------------------------
(* Properties.                                                             *)

\* An event with an identifier of its own is handed to the caller twice only
\* when the cursor was rewound in between, by the server's empty identifier
\* or by an `id:` line cut at the end of a stream.
NoReplay ==
  \A i, j \in 1..Len(history) :
    (i < j /\ history[i] = history[j] /\ history[i] # Rewind /\ Log[history[i]].id = "own")
      => \E m \in i..j : history[m] = Rewind

Delivered == {history[i] : i \in 1..Len(history)} \ {Rewind}

\* The cursor never skips an event that was not handed to the caller, unless a
\* clean end of stream fell between that event's `id:` and `data:` lines, or cut
\* an `id:` line so that its rest names this or a later event.
UndeliveredOnlyByEof ==
  \A k \in Events : (k <= cursor /\ Log[k].data) => k \in Delivered \union eofIds

EffectiveId(k) ==
  LET marked == {j \in 1..k : Log[j].id # "none"}
      latest == CHOOSE j \in marked : \A i \in marked : i <= j
  IN IF marked = {} THEN EmptyId ELSE FrameIdOf(latest)

\* Whatever sequence of connections brought it, the latest message carries
\* the identifier in effect at its place in the server's log.
EffectiveIdMatchesLog ==
  (history # <<>> /\ history[Len(history)] # Rewind) =>
    (IF messageId = NoCursor THEN EmptyId ELSE messageId)
       = EffectiveId(history[Len(history)])

\* Every connection is paid for by an admitted attempt, and the loop never
\* returns to its head without an attempt left: the silent return on
\* exhausted attempts there cannot swallow an error.
AttemptsBounded ==
  /\ connections <= attempts
  /\ phase = "begin" => attempts < MaxAttempts

\* After the caller cancels, at most one more request reaches the backend:
\* that of an attempt whose interceptors had already detached it.
AtMostOneLateConnection ==
  /\ late <= 1
  /\ late = 1 => attemptToken # "flow"

\* The server chooses the wait up to the cap, jitter included, and no wait is
\* empty.
WaitIsBounded ==
  phase = "waiting" => /\ wait.delay >= 1
                       /\ wait.source = "sse" => wait.delay <= ServerCap

\* A cancelled stream ends, whatever it was doing, except while it reads a
\* session that an interceptor detached from the caller's token.
CancellationStops ==
  flowCancelled ~> (phase = "done" \/ (phase = "streaming" /\ attemptToken # "flow"))

\* Stated by doc/user_guide.en.md: only complete identifier records count at
\* the end of a stream, so each value the cursor takes is one the server wrote.
CursorIsAWrittenId ==
  [][cursor' # cursor => pos \in Events /\ cursor' = FrameIdOf(pos)]_vars
=============================================================================
