------------------------- MODULE SseReconnectProofs -------------------------
(***************************************************************************)
(* Proofs about SseReconnect for all logs, cuts, attempt limits, budgets    *)
(* and delays.  What a session makes of the log is tied to the cursor it    *)
(* started from; IInv says how, while it lasts and behind it.              *)
(***************************************************************************)
EXTENDS SseReconnect, SequenceTheorems, TLAPS

\* The budget is consulted before every wait, and an attempt connects once.
LoopInv ==
  /\ connections <= attempts
  /\ phase \in {"begin", "waiting"} => attempts < MaxAttempts
  /\ phase = "intercepted" => connections < attempts

\* A late connection is that of an attempt admitted before the cancellation, and
\* no attempt is admitted after it.
LateInv ==
  /\ late <= 1
  /\ late = 1 => flowCancelled /\ attemptToken # "flow" /\ phase # "intercepted"

\* What the frame decoder holds of the frame on the wire.
LineInv ==
  phase = "streaming" =>
    /\ line = "start" => frameId = NoCursor
    /\ line # "start" => pos \in Events
    /\ line = "id" => Log[pos].id # "none" /\ frameId = FrameIdOf(pos)
    /\ line = "data" => /\ Log[pos].data
                        /\ frameId = IF Log[pos].id = "none" THEN NoCursor ELSE FrameIdOf(pos)

InEffect(id) == IF id = NoCursor THEN EmptyId ELSE id

\* The cursor names an identified event.  In a session it is behind the frame on
\* the wire, and the identifier in effect there.
CursorInv ==
  /\ cursor \in Events => cursor \in Identified
  /\ phase \in {"intercepted", "sending"} => header = cursor
  /\ phase = "streaming" =>
       /\ cursor < pos /\ decoderId \in {NoCursor, cursor}
       /\ InEffect(cursor) = EffectiveId(pos - 1)

\* Whatever has data behind the frame on the wire was dispatched, by this session
\* or by the ones the cursor comes from.
DeliveredInv ==
  phase = "streaming" =>
    \A k \in Events : (k < pos /\ Log[k].data) => k \in Delivered \union eofIds

\* An event with an identifier of its own is not ahead of the cursor, unless the
\* cursor was rewound since it was dispatched.
OwnBehindCursor ==
  \A i \in 1..Len(history) :
    (/\ history[i] # Rewind /\ Log[history[i]].id = "own"
     /\ \A m \in i..Len(history) : history[m] # Rewind)
      => history[i] <= cursor

ControlInv == LoopInv /\ LateInv /\ WaitIsBounded
DataInv ==
  /\ LineInv /\ CursorInv /\ DeliveredInv /\ UndeliveredOnlyByEof
  /\ OwnBehindCursor /\ NoReplay /\ EffectiveIdMatchesLog
IInv == TypeOK /\ ControlInv /\ DataInv


-----------------------------------------------------------------------------
(* Delays, identifiers and histories.                                      *)

\* The log has finitely many frames of the four kinds.
LEMMA LogTyped ==
  /\ Len(Log) \in Nat
  /\ \A k \in Events : /\ k \in Nat \ {0} /\ Log[k].data \in BOOLEAN
                        /\ Log[k].id \in {"none", "own", "empty", "unsendable"}
<1>. DEFINE Frames == [id : {"none", "own", "empty", "unsendable"}, data : BOOLEAN]
<1>1. Log \in Seq(Frames) BY LogAssumption
<1>2. \A k \in Events : Log[k] \in Frames
  <2>. HIDE DEF Frames
  <2>. QED BY <1>1, ElementOfSeq DEF Events
<1>. QED BY <1>1, <1>2 DEF Events

\* No sleep is empty, and one the server asked for stays under the cap, jitter
\* included (sleep_delay).
LEMMA DelaysAreBounded ==
  ASSUME TypeOK, NEW hint \in HintValues \union {NoHint}, NEW w \in SleepDelays(hint)
  PROVE /\ w \in [source : {"none", "sse", "http", "policy"}, delay : Nat]
        /\ w.delay >= 1
        /\ w.source = "sse" => w.delay <= ServerCap
<1>1. (hint # NoHint => hint \in Nat) /\ retryDelay \in Nat /\ ServerCap \in Nat /\ ServerCap >= 1
  BY DelayAssumption DEF TypeOK
<1>2. CASE hint # NoHint
  BY <1>1, <1>2 DEF SleepDelays, AtLeastOne
<1>3. CASE hint = NoHint /\ retryDelay # 0
  BY <1>1, <1>3 DEF SleepDelays, AtLeastOne, Capped
<1>4. CASE hint = NoHint /\ retryDelay = 0
  BY <1>1, <1>4, DelayAssumption DEF SleepDelays, AtLeastOne
<1>. QED BY <1>2, <1>3, <1>4

\* What happens behind a connection: the stream ends, or it waits for an attempt
\* that the budget has left (after_error, after_eof).
LEMMA AfterConnection ==
  ASSUME TypeOK, AfterEof \/ \E hint \in HintValues \union {NoHint} : AfterError(hint)
  PROVE /\ phase' \in {"waiting", "done"}
        /\ wait' \in [source : {"none", "sse", "http", "policy"}, delay : Nat]
        /\ phase' = "waiting" => /\ attempts < MaxAttempts /\ wait'.delay >= 1
                                 /\ wait'.source = "sse" => wait'.delay <= ServerCap
        /\ outcome' \in {"none", "end", "Retryable", "Fatal", "Cancelled", "SseProtocol",
                          "InvalidCursor", "RetryBudgetExceeded"}
<1>1. \A verdict \in Verdicts : verdict = "ok" => attempts < MaxAttempts
  BY BudgetAssumption DEF Verdicts
<1>2. ASSUME NEW hint \in HintValues \union {NoHint}, NEW verdict \in Verdicts, verdict = "ok", StartWait(hint)
      PROVE /\ phase' = "waiting" /\ attempts < MaxAttempts /\ outcome' = outcome
            /\ wait' \in [source : {"none", "sse", "http", "policy"}, delay : Nat]
            /\ wait'.delay >= 1 /\ (wait'.source = "sse" => wait'.delay <= ServerCap)
  BY <1>1, <1>2, DelaysAreBounded DEF StartWait
<1>3. ASSUME NEW result \in {"end", "Retryable", "RetryBudgetExceeded"}, End(result), UNCHANGED wait
      PROVE phase' = "done" /\ outcome' = result /\ wait' = wait
  BY <1>3 DEF End
<1>. QED BY <1>2, <1>3 DEF AfterEof, AfterError, TypeOK

\* The identifier in effect behind frame k is its own or the one before it.
LEMMA EffectiveIdStep ==
  /\ EffectiveId(0) = EmptyId
  /\ \A k \in Events : EffectiveId(k) = IF Log[k].id = "none" THEN EffectiveId(k - 1) ELSE FrameIdOf(k)
<1>. DEFINE Marked(k) == {j \in 1..k : Log[j].id # "none"}
            Latest(k) == CHOOSE j \in Marked(k) : \A i \in Marked(k) : i <= j
<1>1. Marked(0) = {} OBVIOUS
<1>2. ASSUME NEW k \in Events, Log[k].id = "none" PROVE Marked(k) = Marked(k - 1)
  BY <1>2, LogTyped
<1>3. ASSUME NEW k \in Events, Log[k].id # "none" PROVE Marked(k) # {} /\ Latest(k) = k
  <2>1. k \in Marked(k) /\ \A i \in Marked(k) : i <= k /\ i \in Nat BY <1>3, LogTyped
  <2>. QED BY <2>1
<1>4. \A k : EffectiveId(k) = IF Marked(k) = {} THEN EmptyId ELSE FrameIdOf(Latest(k))
  BY DEF EffectiveId
<1>. HIDE DEF Marked, Latest
<1>5. ASSUME NEW k \in Events, Log[k].id = "none" PROVE EffectiveId(k) = EffectiveId(k - 1)
  <2>1. Latest(k) = Latest(k - 1) BY <1>2, <1>5 DEF Latest
  <2>. QED BY <1>2, <1>4, <1>5, <2>1
<1>6. ASSUME NEW k \in Events, Log[k].id # "none" PROVE EffectiveId(k) = FrameIdOf(k)
  BY <1>3, <1>4, <1>6
<1>. QED BY <1>1, <1>4, <1>5, <1>6

Entries == Events \union {Rewind}

\* NoReplay and OwnBehindCursor of any history and cursor.
FreeOfReplays(h) ==
  \A i, j \in 1..Len(h) :
    (i < j /\ h[i] = h[j] /\ h[i] # Rewind /\ Log[h[i]].id = "own") => \E m \in i..j : h[m] = Rewind
Behind(h, c) ==
  \A i \in 1..Len(h) :
    (h[i] # Rewind /\ Log[h[i]].id = "own" /\ \A m \in i..Len(h) : h[m] # Rewind) => h[i] <= c

\* A rewind forgets where the cursor was.
LEMMA AppendRewind ==
  ASSUME NEW h \in Seq(Entries), FreeOfReplays(h), NEW c
  PROVE FreeOfReplays(Append(h, Rewind)) /\ Behind(Append(h, Rewind), c)
<1>. DEFINE g == Append(h, Rewind)
<1>1. /\ Len(g) = Len(h) + 1 /\ Len(h) \in Nat /\ g[Len(h) + 1] = Rewind
      /\ \A i \in 1..Len(h) : g[i] = h[i]
  OBVIOUS
<1>. HIDE DEF g
<1>2. \A i \in 1..Len(g) : Len(g) \in i..Len(g) /\ g[Len(g)] = Rewind BY <1>1
<1>3. Behind(g, c) BY <1>2 DEF Behind
<1>4. FreeOfReplays(g)
  <2>. SUFFICES ASSUME NEW i \in 1..Len(g), NEW j \in 1..Len(g), i < j, g[i] = g[j], g[i] # Rewind,
                       Log[g[i]].id = "own"
                PROVE \E m \in i..j : g[m] = Rewind
    BY DEF FreeOfReplays
  <2>1. i \in 1..Len(h) /\ j \in 1..Len(h) BY <1>1
  <2>2. PICK m \in i..j : h[m] = Rewind BY <1>1, <2>1 DEF FreeOfReplays
  <2>. QED BY <1>1, <2>1, <2>2
<1>. QED BY <1>3, <1>4 DEF g

\* An event ahead of the cursor was not dispatched since the last rewind.
LEMMA AppendEvent ==
  ASSUME NEW h \in Seq(Entries), FreeOfReplays(h), NEW c \in Int, NEW c2 \in Int, Behind(h, c),
         NEW k \in Events, c < k, c <= c2, Log[k].id = "own" => k <= c2
  PROVE FreeOfReplays(Append(h, k)) /\ Behind(Append(h, k), c2)
<1>. DEFINE g == Append(h, k)
<1>1. /\ Len(g) = Len(h) + 1 /\ Len(h) \in Nat /\ g[Len(h) + 1] = k
      /\ \A i \in 1..Len(h) : g[i] = h[i]
  BY DEF Entries
<1>2. \A i \in 1..Len(h) : h[i] \in Int BY LogTyped, ElementOfSeq DEF Entries, Rewind
<1>3. k \in Int BY LogTyped
<1>. HIDE DEF g
<1>4. Behind(g, c2)
  <2>. SUFFICES ASSUME NEW i \in 1..Len(g), g[i] # Rewind, Log[g[i]].id = "own",
                       \A m \in i..Len(g) : g[m] # Rewind
                PROVE g[i] <= c2
    BY DEF Behind
  <2>1. CASE i = Len(h) + 1 BY <1>1, <2>1
  <2>2. CASE i \in 1..Len(h)
    <3>1. \A m \in i..Len(h) : h[m] # Rewind BY <1>1, <2>2
    <3>2. h[i] <= c BY <1>1, <2>2, <3>1 DEF Behind
    <3>. QED BY <1>1, <1>2, <2>2, <3>2
  <2>. QED BY <1>1, <2>1, <2>2
<1>5. FreeOfReplays(g)
  <2>. SUFFICES ASSUME NEW i \in 1..Len(g), NEW j \in 1..Len(g), i < j, g[i] = g[j], g[i] # Rewind,
                       Log[g[i]].id = "own"
                PROVE \E m \in i..j : g[m] = Rewind
    BY DEF FreeOfReplays
  <2>1. i \in 1..Len(h) BY <1>1
  <2>2. CASE j \in 1..Len(h)
    <3>1. PICK m \in i..j : h[m] = Rewind BY <1>1, <2>1, <2>2 DEF FreeOfReplays
    <3>. QED BY <1>1, <2>1, <2>2, <3>1
  <2>3. CASE j = Len(h) + 1
    <3>1. h[i] = k /\ Log[h[i]].id = "own" /\ h[i] # Rewind BY <1>1, <2>1, <2>3
    <3>2. ~(h[i] <= c) BY <1>3, <3>1
    <3>3. PICK m \in i..Len(h) : h[m] = Rewind BY <2>1, <3>1, <3>2 DEF Behind
    <3>. QED BY <1>1, <2>1, <2>3, <3>3
  <2>. QED BY <1>1, <2>2, <2>3
<1>. QED BY <1>4, <1>5 DEF g

\* What is behind a cursor is behind a later one.
LEMMA BehindLater ==
  ASSUME NEW h \in Seq(Entries), NEW c \in Int, NEW c2 \in Int, c <= c2, Behind(h, c)
  PROVE Behind(h, c2)
<1>1. \A i \in 1..Len(h) : h[i] \in Int BY LogTyped, ElementOfSeq DEF Entries, Rewind
<1>. QED BY <1>1 DEF Behind

-----------------------------------------------------------------------------
(* The loop.                                                               *)

\* A step that leaves the log, the history and the cursor alone keeps what is
\* known of them, if no session begins with it and a new attempt carries the cursor.
LEMMA DataFrame ==
  ASSUME DataInv, UNCHANGED <<serverVars, outputVars, cursorVars>>,
         phase' = "streaming" => phase = "streaming",
         phase' \in {"intercepted", "sending"} => header' = cursor
  PROVE DataInv'
<1>1. /\ UNCHANGED <<pos, line, frameId, decoderId, history, messageId, cursor, eofIds>>
      /\ LineInv /\ CursorInv /\ DeliveredInv /\ UndeliveredOnlyByEof
      /\ OwnBehindCursor /\ NoReplay /\ EffectiveIdMatchesLog
  BY DEF DataInv, serverVars, outputVars, cursorVars
<1>2. LineInv' BY <1>1 DEF LineInv
<1>3. CursorInv' BY <1>1 DEF CursorInv
<1>4. DeliveredInv' /\ UndeliveredOnlyByEof' BY <1>1 DEF DeliveredInv, UndeliveredOnlyByEof, Delivered
<1>5. OwnBehindCursor' /\ NoReplay' BY <1>1 DEF OwnBehindCursor, NoReplay
<1>6. EffectiveIdMatchesLog' BY <1>1 DEF EffectiveIdMatchesLog
<1>. QED BY <1>2, <1>3, <1>4, <1>5, <1>6 DEF DataInv

\* The loop outside a session: the budget, the checks of the token, the send and
\* the sleep (execute_once_for_sse, sleep_and_advance).
LEMMA RunningKeeps ==
  ASSUME IInv, Running, ~Open
  PROVE IInv'
<1>. USE DEF budgetVars, tokenVars, streamVars, serverVars, outputVars, cursorVars
<1>0. /\ TypeOK /\ LoopInv /\ LateInv /\ WaitIsBounded /\ DataInv
      /\ {attempts, connections, late} \subseteq Nat /\ MaxAttempts \in Nat \ {0}
  BY AttemptsAssumption DEF IInv, ControlInv, TypeOK
<1>1. CASE BeginTooLate
  <2>1. TypeOK' BY <1>0, <1>1 DEF BeginTooLate, End, TypeOK
  <2>2. ControlInv' BY <1>0, <1>1 DEF BeginTooLate, End, ControlInv, LoopInv, LateInv, WaitIsBounded
  <2>3. DataInv' BY <1>0, <1>1, DataFrame DEF BeginTooLate, End
  <2>. QED BY <2>1, <2>2, <2>3 DEF IInv
<1>2. CASE Begin
  <2>0. /\ attempts' \in 0..MaxAttempts /\ header' = cursor
        /\ UNCHANGED <<options, connections, late, wait, flowCancelled, streamVars>>
        /\ phase' \in {"intercepted", "done"} /\ attemptToken' \in {"flow", "own", "none"}
        /\ ownCancelled' \in BOOLEAN /\ outcome' \in {outcome, "InvalidCursor", "Cancelled"}
    <3>1. attempts' \in 0..MaxAttempts BY <1>0, <1>2 DEF Begin, TypeOK
    <3>2. ownCancelled \in BOOLEAN /\ attemptToken \in {"flow", "own", "none"} BY <1>0 DEF TypeOK
    <3>. QED BY <1>2, <3>1, <3>2 DEF Begin, End
  <2>1. TypeOK' BY <1>0, <2>0 DEF TypeOK
  <2>2. ControlInv' BY <1>0, <1>2 DEF Begin, End, ControlInv, LoopInv, LateInv, WaitIsBounded
  <2>3. DataInv' BY <1>0, <1>2, DataFrame DEF Begin, End
  <2>. QED BY <2>1, <2>2, <2>3 DEF IInv
<1>3. CASE Send
  <2>1. TypeOK' /\ ControlInv'
    BY <1>0, <1>3 DEF Send, End, TypeOK, ControlInv, LoopInv, LateInv, WaitIsBounded, AttemptCancelled
  <2>2. phase = "intercepted" /\ header' = cursor
    BY <1>0, <1>3 DEF Send, DataInv, CursorInv
  <2>3. DataInv' BY <1>0, <1>3, <2>2, DataFrame DEF Send, End
  <2>. QED BY <2>1, <2>3 DEF IInv
<1>4. CASE OpenFails \/ OpenRejected
  <2>1. /\ phase' \in {"waiting", "done"}
        /\ wait' \in [source : {"none", "sse", "http", "policy"}, delay : Nat]
        /\ phase' = "waiting" => /\ attempts < MaxAttempts /\ wait'.delay >= 1
                                 /\ wait'.source = "sse" => wait'.delay <= ServerCap
        /\ outcome' \in {"none", "end", "Retryable", "Fatal", "Cancelled", "SseProtocol",
                          "InvalidCursor", "RetryBudgetExceeded"}
    <3>1. CASE \E hint \in HintValues \union {NoHint} : AfterError(hint) BY <1>0, <3>1, AfterConnection
    <3>2. CASE UNCHANGED wait /\ \E result \in {"Fatal", "Cancelled", "end", "SseProtocol"} : End(result)
      BY <1>0, <3>2 DEF End, TypeOK
    <3>. QED BY <1>4, <3>1, <3>2 DEF OpenFails, OpenRejected
  <2>2. UNCHANGED <<options, budgetVars, header, tokenVars, streamVars>>
    BY <1>4 DEF OpenFails, OpenRejected
  <2>3. TypeOK' BY <1>0, <2>1, <2>2 DEF TypeOK
  <2>4. LoopInv' /\ LateInv'
    <3>1. UNCHANGED <<attempts, connections, late, flowCancelled, attemptToken>> BY <2>2
    <3>. QED BY <1>0, <2>1, <3>1 DEF LoopInv, LateInv
  <2>5. WaitIsBounded' BY <2>1 DEF WaitIsBounded
  <2>6. DataInv' BY <1>0, <2>1, <2>2, DataFrame
  <2>. QED BY <2>3, <2>4, <2>5, <2>6 DEF IInv, ControlInv
<1>5. CASE WaitCancelled \/ WaitElapses
  <2>1. TypeOK' BY <1>0, <1>5 DEF WaitCancelled, WaitElapses, End, NoWait, TypeOK
  <2>2. ControlInv'
    BY <1>0, <1>5 DEF WaitCancelled, WaitElapses, End, ControlInv, LoopInv, LateInv, WaitIsBounded
  <2>3. DataInv' BY <1>0, <1>5, DataFrame DEF WaitCancelled, WaitElapses, End
  <2>. QED BY <2>1, <2>2, <2>3 DEF IInv
<1>. QED BY <1>1, <1>2, <1>3, <1>4, <1>5 DEF Running

\* A session begins behind the event its attempt resumes from.
LEMMA OpenKeeps == ASSUME IInv, Open PROVE IInv'
<1>. USE DEF budgetVars, tokenVars, serverVars, outputVars, cursorVars
<1>0. /\ TypeOK /\ LoopInv /\ LateInv /\ WaitIsBounded /\ DataInv
      /\ phase = "sending" /\ header = cursor
  BY DEF IInv, ControlInv, DataInv, CursorInv, Open
<1>1. CASE AttemptCancelled
  <2>1. TypeOK' BY <1>0, <1>1 DEF Open, End, TypeOK
  <2>2. ControlInv' BY <1>0, <1>1 DEF Open, End, ControlInv, LoopInv, LateInv, WaitIsBounded
  <2>3. DataInv' BY <1>0, <1>1, DataFrame DEF Open, End
  <2>. QED BY <2>1, <2>2, <2>3 DEF IInv
<1>2. CASE ~AttemptCancelled
  <2>1. /\ phase' = "streaming" /\ line' = "start" /\ frameId' = NoCursor /\ decoderId' = NoCursor
        /\ pos' = (IF cursor \in Events THEN cursor + 1 ELSE 1)
        /\ UNCHANGED <<options, attempts, connections, late, header, wait, flowCancelled, attemptToken,
                       ownCancelled, history, messageId, cursor, eofIds, retryDelay, outcome>>
    BY <1>0, <1>2 DEF Open
  <2>2. /\ cursor \in Cursors /\ (cursor \in Events => cursor \in Nat \ {0})
        /\ pos' \in 1..(Len(Log) + 1) /\ pos' - 1 = (IF cursor \in Events THEN cursor ELSE 0)
    <3>1. cursor \in Cursors BY <1>0 DEF TypeOK
    <3>2. Len(Log) \in Nat /\ Events = 1..Len(Log) BY LogTyped DEF Events
    <3>. QED BY <2>1, <3>1, <3>2
  <2>3. TypeOK' BY <1>0, <2>1, <2>2 DEF TypeOK, Cursors
  <2>4. ControlInv' BY <1>0, <2>1 DEF ControlInv, LoopInv, LateInv, WaitIsBounded
  <2>5. InEffect(cursor) = EffectiveId(pos' - 1)
    <3>1. CASE cursor \in Events
      <4>1. Log[cursor].id \in {"own", "unsendable"}
        BY <1>0, <3>1 DEF DataInv, CursorInv, Identified
      <4>2. EffectiveId(cursor) = cursor BY <3>1, <4>1, EffectiveIdStep DEF FrameIdOf
      <4>. QED BY <2>2, <3>1, <4>2 DEF InEffect, NoCursor
    <3>2. CASE cursor \notin Events
      BY <2>2, <3>2, EffectiveIdStep DEF InEffect, Cursors
    <3>. QED BY <3>1, <3>2
  <2>6. cursor < pos' BY <2>1, <2>2 DEF Cursors, NoCursor, EmptyId
  <2>7. LineInv' BY <2>1 DEF LineInv
  <2>8. CursorInv' BY <1>0, <2>1, <2>5, <2>6 DEF DataInv, CursorInv
  <2>9. DeliveredInv'
    <3>1. \A k \in Events : k < pos' => k <= cursor BY <2>1, <2>2, LogTyped
    <3>. QED BY <1>0, <2>1, <3>1 DEF DataInv, DeliveredInv, UndeliveredOnlyByEof, Delivered
  <2>10. UndeliveredOnlyByEof' BY <1>0, <2>1 DEF DataInv, UndeliveredOnlyByEof, Delivered
  <2>11. OwnBehindCursor' /\ NoReplay' /\ EffectiveIdMatchesLog'
    BY <1>0, <2>1 DEF DataInv, OwnBehindCursor, NoReplay, EffectiveIdMatchesLog
  <2>. QED BY <2>3, <2>4, <2>7, <2>8, <2>9, <2>10, <2>11 DEF IInv, DataInv
<1>. QED BY <1>1, <1>2

-----------------------------------------------------------------------------
(* A session.                                                              *)

\* The two properties of the history, in terms of the operators above.
LEMMA HistoryProperties ==
  /\ NoReplay <=> FreeOfReplays(history)
  /\ OwnBehindCursor <=> Behind(history, cursor)
  /\ NoReplay' <=> FreeOfReplays(history')
  /\ OwnBehindCursor' <=> Behind(history', cursor')
BY DEF NoReplay, FreeOfReplays, OwnBehindCursor, Behind

Dispatched(h) == {h[i] : i \in 1..Len(h)} \ {Rewind}

\* A history that grows has dispatched what it had before, and the event it grew by.
LEMMA DispatchedGrows ==
  ASSUME NEW h \in Seq(Entries), NEW e \in Entries
  PROVE Dispatched(h) \subseteq Dispatched(Append(h, e)) /\ (e # Rewind => e \in Dispatched(Append(h, e)))
<1>1. /\ Len(Append(h, e)) = Len(h) + 1 /\ Len(h) \in Nat /\ Append(h, e)[Len(h) + 1] = e
      /\ \A i \in 1..Len(h) : Append(h, e)[i] = h[i]
  OBVIOUS
<1>. QED BY <1>1 DEF Dispatched

\* The cursor and the identifier in effect behind a frame.
LEMMA FrameIdTyped ==
  ASSUME NEW k \in Events, Log[k].id # "none"
  PROVE /\ FrameIdOf(k) \in {k, EmptyId} /\ FrameIdOf(k) # NoCursor
        /\ FrameIdOf(k) = EmptyId <=> Log[k].id = "empty"
        /\ FrameIdOf(k) \in Events => FrameIdOf(k) \in Identified
BY LogTyped DEF FrameIdOf, EmptyId, NoCursor, Identified, Events

\* What holds while a session lasts.
LEMMA StreamingFacts ==
  ASSUME IInv, phase = "streaming"
  PROVE /\ cursor \in Cursors /\ cursor \in Int /\ pos \in 1..(Len(Log) + 1) /\ cursor < pos
        /\ history \in Seq(Entries) /\ FreeOfReplays(history) /\ Behind(history, cursor)
        /\ eofIds \subseteq Events /\ attempts <= MaxAttempts
<1>1. cursor \in Cursors /\ pos \in 1..(Len(Log) + 1) /\ history \in Seq(Entries) /\ eofIds \subseteq Events
  BY DEF IInv, TypeOK, Entries
<1>2. cursor < pos BY DEF IInv, DataInv, CursorInv
<1>3. cursor \in Int BY <1>1, LogTyped DEF Cursors, NoCursor, EmptyId
<1>4. FreeOfReplays(history) /\ Behind(history, cursor) BY HistoryProperties DEF IInv, DataInv
<1>. QED BY <1>1, <1>2, <1>3, <1>4, AttemptsAssumption DEF IInv, TypeOK

\* Lines within a frame.
LEMMA LineKeeps ==
  ASSUME IInv, IdLine \/ DataLine \/ \E ms \in RetryValues : RetryLine(ms)
  PROVE IInv'
<1>. USE DEF budgetVars, tokenVars, serverVars, outputVars, cursorVars, sessionFrame
<1>0. TypeOK /\ LoopInv /\ LateInv /\ WaitIsBounded /\ DataInv
  BY DEF IInv, ControlInv
<1>1. CASE IdLine \/ DataLine
  <2>1. /\ UNCHANGED <<options, phase, attempts, connections, late, header, wait, flowCancelled, attemptToken,
                       ownCancelled, history, messageId, cursor, eofIds, retryDelay, outcome, pos, decoderId>>
        /\ phase = "streaming" /\ pos \in Events
    BY <1>1 DEF IdLine, DataLine, Streaming
  <2>2. /\ line' \in {"id", "data"} /\ frameId' \in {frameId, FrameIdOf(pos)}
        /\ line' = "id" => Log[pos].id # "none" /\ frameId' = FrameIdOf(pos)
        /\ line' = "data" => /\ Log[pos].data
                             /\ frameId' = IF Log[pos].id = "none" THEN NoCursor ELSE FrameIdOf(pos)
    <3>1. CASE IdLine BY <3>1 DEF IdLine, Frame
    <3>2. CASE DataLine
      BY <1>0, <2>1, <3>2 DEF DataLine, Frame, DataInv, LineInv
    <3>. QED BY <1>1, <3>1, <3>2
  <2>3. FrameIdOf(pos) \in Cursors BY <2>1 DEF FrameIdOf, Cursors
  <2>4. TypeOK' BY <1>0, <2>1, <2>2, <2>3 DEF TypeOK
  <2>5. ControlInv' BY <1>0, <2>1 DEF ControlInv, LoopInv, LateInv, WaitIsBounded
  <2>6. LineInv' BY <2>1, <2>2 DEF LineInv
  <2>7. CursorInv' /\ DeliveredInv' /\ UndeliveredOnlyByEof'
    BY <1>0, <2>1 DEF DataInv, CursorInv, DeliveredInv, UndeliveredOnlyByEof, Delivered
  <2>8. OwnBehindCursor' /\ NoReplay' /\ EffectiveIdMatchesLog'
    BY <1>0, <2>1 DEF DataInv, OwnBehindCursor, NoReplay, EffectiveIdMatchesLog
  <2>. QED BY <2>4, <2>5, <2>6, <2>7, <2>8 DEF IInv, DataInv
<1>2. CASE \E ms \in RetryValues : RetryLine(ms)
  <2>1. PICK ms \in RetryValues : RetryLine(ms) BY <1>2
  <2>2. /\ UNCHANGED <<options, phase, attempts, connections, late, header, wait, flowCancelled, attemptToken,
                       ownCancelled, outcome>>
        /\ UNCHANGED <<serverVars, outputVars, cursorVars>>
        /\ retryDelay' \in {retryDelay, StoredDelay(ms)} /\ phase = "streaming"
    BY <2>1 DEF RetryLine, Streaming
  <2>3. StoredDelay(ms) \in 0..ServerCap
    <3>1. ms \in Nat /\ ServerCap \in Nat BY DelayAssumption
    <3>. QED BY <3>1 DEF StoredDelay, Capped, AtLeastOne
  <2>4. TypeOK' BY <1>0, <2>2, <2>3 DEF TypeOK
  <2>5. ControlInv' BY <1>0, <2>2 DEF ControlInv, LoopInv, LateInv, WaitIsBounded
  <2>6. DataInv' BY <1>0, <2>2, DataFrame
  <2>. QED BY <2>4, <2>5, <2>6 DEF IInv
<1>. QED BY <1>1, <1>2

\* The blank line takes the cursor and the history past the frame.
LEMMA BlankKeeps == ASSUME IInv, Blank PROVE IInv'
<1>. USE DEF budgetVars, tokenVars, sessionFrame
<1>0. /\ TypeOK /\ LoopInv /\ LateInv /\ WaitIsBounded /\ DataInv
      /\ phase = "streaming" /\ pos \in Events
      /\ UNCHANGED <<options, phase, attempts, connections, late, header, wait, flowCancelled, attemptToken,
                     ownCancelled, retryDelay, outcome, eofIds>>
      /\ pos' = pos + 1 /\ line' = "start" /\ frameId' = NoCursor
  BY DEF IInv, ControlInv, Blank, FrameSent, Streaming
<1>1. /\ cursor \in Cursors /\ cursor \in Int /\ cursor < pos /\ pos \in Nat
      /\ history \in Seq(Entries) /\ FreeOfReplays(history) /\ Behind(history, cursor)
  BY <1>0, StreamingFacts, LogTyped
<1>. DEFINE marked == Log[pos].id # "none"
            dispatched == Log[pos].data
<1>2. frameId = IF marked THEN FrameIdOf(pos) ELSE NoCursor
  <2>1. line = (IF dispatched THEN "data" ELSE IF marked THEN "id" ELSE "start")
    BY DEF Blank, FrameSent, Frame
  <2>. QED BY <1>0, <2>1 DEF DataInv, LineInv
<1>3. /\ decoderId \in {NoCursor, cursor}
      /\ InEffect(cursor) = EffectiveId(pos - 1)
      /\ cursor \in Events => cursor \in Identified
  BY <1>0 DEF DataInv, CursorInv
<1>4. /\ cursor' = (IF marked THEN FrameIdOf(pos) ELSE cursor)
      /\ decoderId' \in {NoCursor, cursor'}
      /\ messageId' = IF dispatched THEN cursor' ELSE messageId
  <2>1. CASE marked
    <3>1. frameId = FrameIdOf(pos) /\ frameId # NoCursor BY <1>0, <1>2, <2>1, FrameIdTyped
    <3>. QED BY <2>1, <3>1 DEF Blank, Frame
  <2>2. CASE ~marked
    <3>1. frameId = NoCursor BY <1>2, <2>2
    <3>2. decoderId' = decoderId BY <3>1 DEF Blank
    <3>3. cursor' = cursor BY <1>3, <3>1, <3>2 DEF Blank
    <3>. QED BY <1>3, <2>2, <3>2, <3>3 DEF Blank, Frame
  <2>. QED BY <2>1, <2>2
<1>5. /\ cursor' \in Cursors /\ cursor' \in Int /\ cursor' < pos + 1
      /\ cursor' \in Events => cursor' \in Identified
      /\ InEffect(cursor') = EffectiveId(pos)
  <2>1. CASE marked
    <3>1. FrameIdOf(pos) \in {pos, EmptyId} /\ FrameIdOf(pos) # NoCursor
          /\ (FrameIdOf(pos) \in Events => FrameIdOf(pos) \in Identified)
      BY <1>0, <2>1, FrameIdTyped
    <3>2. EffectiveId(pos) = FrameIdOf(pos) BY <1>0, <2>1, EffectiveIdStep
    <3>. QED BY <1>0, <1>1, <1>4, <2>1, <3>1, <3>2 DEF InEffect, Cursors, EmptyId
  <2>2. CASE ~marked
    <3>1. EffectiveId(pos) = EffectiveId(pos - 1) BY <1>0, <2>2, EffectiveIdStep
    <3>. QED BY <1>1, <1>3, <1>4, <2>2, <3>1
  <2>. QED BY <2>1, <2>2
\* The history by the kind of the frame.
<1>. DEFINE resets == Log[pos].id = "empty"
            reset == IF resets THEN Append(history, Rewind) ELSE history
<1>6. history' = IF dispatched THEN Append(reset, pos) ELSE reset
  <2>1. frameId = EmptyId <=> resets
    BY <1>0, <1>2, FrameIdTyped DEF NoCursor, EmptyId
  <2>2. history \o Resets(frameId) = reset
    <3>1. CASE resets BY <1>1, <2>1, <3>1, AppendIsConcat DEF Resets, Entries
    <3>2. CASE ~resets BY <1>1, <2>1, <3>2, ConcatEmptySeq DEF Resets
    <3>. QED BY <3>1, <3>2
  <2>3. reset \in Seq(Entries) /\ pos \in Entries BY <1>0, <1>1 DEF Entries
  <2>4. reset \o <<pos>> = Append(reset, pos) /\ reset \o <<>> = reset
    <3>. HIDE DEF reset
    <3>. QED BY <2>3, AppendIsConcat, ConcatEmptySeq
  <2>5. history' = history \o Resets(frameId) \o (IF dispatched THEN <<pos>> ELSE <<>>)
    BY DEF Blank, Frame
  <2>. HIDE DEF reset
  <2>. QED BY <2>2, <2>4, <2>5
<1>7. /\ reset \in Seq(Entries) /\ FreeOfReplays(reset)
      /\ \E c \in Int : c < pos /\ c <= cursor' /\ Behind(reset, c)
  <2>1. CASE resets
    <3>1. cursor' = EmptyId BY <1>0, <1>4, <2>1, FrameIdTyped
    <3>2. FreeOfReplays(reset) /\ Behind(reset, EmptyId) BY <1>1, <2>1, AppendRewind
    <3>. QED BY <1>1, <1>0, <2>1, <3>1, <3>2, LogTyped DEF EmptyId, Entries
  <2>2. CASE ~resets
    <3>1. cursor <= cursor'
      BY <1>0, <1>1, <1>4, <2>2, FrameIdTyped
    <3>. QED BY <1>1, <2>2, <3>1
  <2>. QED BY <2>1, <2>2
<1>. HIDE DEF reset
<1>8. PICK c \in Int : c < pos /\ c <= cursor' /\ Behind(reset, c) BY <1>7
<1>9. Log[pos].id = "own" => pos <= cursor'
  BY <1>0, <1>1, <1>4 DEF FrameIdOf
<1>10. /\ history' \in Seq(Entries) /\ FreeOfReplays(history') /\ Behind(history', cursor')
  <2>1. CASE dispatched
    <3>1. FreeOfReplays(Append(reset, pos)) /\ Behind(Append(reset, pos), cursor')
      BY <1>0, <1>5, <1>7, <1>8, <1>9, AppendEvent
    <3>. QED BY <1>0, <1>6, <1>7, <2>1, <3>1 DEF Entries
  <2>2. CASE ~dispatched
    BY <1>5, <1>6, <1>7, <1>8, <2>2, BehindLater
  <2>. QED BY <2>1, <2>2
<1>11. Delivered \subseteq Delivered' /\ (dispatched => pos \in Delivered')
  <2>1. Delivered = Dispatched(history) /\ Delivered' = Dispatched(history') BY DEF Delivered, Dispatched
  <2>2. pos \in Entries /\ pos # Rewind /\ Rewind \in Entries BY <1>0, LogTyped DEF Entries, Rewind
  <2>3. Dispatched(history) \subseteq Dispatched(reset) BY <1>1, <2>2, DispatchedGrows DEF reset
  <2>. QED BY <1>6, <1>7, <2>1, <2>2, <2>3, DispatchedGrows
<1>12. TypeOK'
  <2>1. pos' \in 1..(Len(Log) + 1) BY <1>0, LogTyped DEF Events
  <2>2. {cursor', messageId', decoderId', frameId'} \subseteq Cursors
    BY <1>0, <1>4, <1>5 DEF TypeOK, Cursors
  <2>. QED BY <1>0, <1>10, <2>1, <2>2 DEF TypeOK, Entries
<1>13. ControlInv' BY <1>0 DEF ControlInv, LoopInv, LateInv, WaitIsBounded
<1>14. LineInv' BY <1>0 DEF LineInv
<1>15. CursorInv'
  <2>1. pos' - 1 = pos /\ cursor' < pos' BY <1>0, <1>1, <1>5
  <2>. QED BY <1>0, <1>4, <1>5, <2>1 DEF CursorInv
<1>16. DeliveredInv' /\ UndeliveredOnlyByEof'
  <2>1. \A k \in Events : (k < pos /\ Log[k].data) => k \in Delivered \union eofIds
    BY <1>0 DEF DataInv, DeliveredInv
  <2>2. \A k \in Events : k < pos' => k < pos \/ k = pos BY <1>0, <1>1, LogTyped
  <2>3. \A k \in Events : (k < pos' /\ Log[k].data) => k \in Delivered' \union eofIds'
    BY <1>0, <1>11, <2>1, <2>2
  <2>4. \A k \in Events : k <= cursor' => k < pos' BY <1>0, <1>1, <1>5, LogTyped
  <2>. QED BY <2>3, <2>4 DEF DeliveredInv, UndeliveredOnlyByEof
<1>17. EffectiveIdMatchesLog'
  <2>1. CASE dispatched
    <3>1. history'[Len(history')] = pos BY <1>6, <1>7, <1>0, <2>1 DEF Entries
    <3>2. messageId' = cursor' BY <1>4, <2>1
    <3>. QED BY <1>5, <3>1, <3>2 DEF EffectiveIdMatchesLog, InEffect
  <2>2. CASE ~dispatched /\ resets
    <3>1. history'[Len(history')] = Rewind BY <1>1, <1>6, <2>2 DEF reset, Entries
    <3>. QED BY <3>1 DEF EffectiveIdMatchesLog
  <2>3. CASE ~dispatched /\ ~resets
    <3>1. history' = history /\ messageId' = messageId BY <1>4, <1>6, <2>3 DEF reset
    <3>. QED BY <1>0, <3>1 DEF DataInv, EffectiveIdMatchesLog
  <2>. QED BY <2>1, <2>2, <2>3
<1>. QED BY <1>10, <1>12, <1>13, <1>14, <1>15, <1>16, <1>17, HistoryProperties DEF IInv, DataInv

\* A session closes: the identifiers it leaves the cursor at, and the events that
\* the cursor passes with them.
LEMMA SessionCloses ==
  ASSUME IInv, phase = "streaming",
         \/ EndsCleanly \/ AfterError(NoHint)
         \/ \E result \in {"SseProtocol", "Cancelled"} : End(result) /\ UNCHANGED wait,
         UNCHANGED <<options, budgetVars, header, tokenVars, serverVars, retryDelay, messageId>>,
         cursor' \in Cursors, cursor' \in Events => cursor' \in Identified,
         \/ history' = history /\ cursor <= cursor'
         \/ history' = Append(history, Rewind),
         eofIds \subseteq eofIds', eofIds' \subseteq Events,
         \A k \in Events : (pos <= k /\ k <= cursor' /\ Log[k].data) => k \in eofIds'
  PROVE IInv'
<1>. USE DEF budgetVars, tokenVars, serverVars
<1>0. TypeOK /\ LoopInv /\ LateInv /\ WaitIsBounded /\ DataInv
  BY DEF IInv, ControlInv
<1>1. /\ cursor \in Int /\ pos \in Nat
      /\ history \in Seq(Entries) /\ FreeOfReplays(history) /\ Behind(history, cursor)
  BY StreamingFacts, LogTyped
<1>2. cursor' \in Int BY LogTyped DEF Cursors, NoCursor, EmptyId
<1>3. /\ phase' \in {"waiting", "done"}
      /\ wait' \in [source : {"none", "sse", "http", "policy"}, delay : Nat]
      /\ phase' = "waiting" => /\ attempts < MaxAttempts /\ wait'.delay >= 1
                               /\ wait'.source = "sse" => wait'.delay <= ServerCap
      /\ outcome' \in {"none", "end", "Retryable", "Fatal", "Cancelled", "SseProtocol",
                        "InvalidCursor", "RetryBudgetExceeded"}
  <2>1. CASE AfterEof \/ AfterError(NoHint) BY <1>0, <2>1, AfterConnection
  <2>2. CASE UNCHANGED wait /\ \E result \in {"SseProtocol", "Cancelled", "end"} : End(result)
    BY <1>0, <2>2 DEF End, TypeOK
  <2>. QED BY <2>1, <2>2 DEF EndsCleanly
<1>4. /\ history' \in Seq(Entries) /\ FreeOfReplays(history') /\ Behind(history', cursor')
      /\ Delivered \subseteq Delivered'
  <2>1. CASE history' = history /\ cursor <= cursor'
    <3>1. Behind(history, cursor') BY <1>1, <1>2, <2>1, BehindLater
    <3>. QED BY <1>1, <2>1, <3>1 DEF Delivered
  <2>2. CASE history' = Append(history, Rewind)
    <3>1. Delivered = Dispatched(history) /\ Delivered' = Dispatched(history') BY DEF Delivered, Dispatched
    <3>2. Rewind \in Entries BY DEF Entries
    <3>3. Delivered \subseteq Delivered' BY <1>1, <2>2, <3>1, <3>2, DispatchedGrows
    <3>4. history' \in Seq(Entries) BY <1>1, <2>2, <3>2
    <3>. QED BY <1>1, <2>2, <3>3, <3>4, AppendRewind
  <2>. QED BY <2>1, <2>2
<1>5. TypeOK' BY <1>0, <1>3, <1>4 DEF TypeOK, Entries
<1>6. LoopInv' /\ LateInv'
  <2>1. UNCHANGED <<attempts, connections, late, flowCancelled, attemptToken>> OBVIOUS
  <2>. QED BY <1>0, <1>3, <2>1 DEF LoopInv, LateInv
<1>7. WaitIsBounded' BY <1>3 DEF WaitIsBounded
<1>8. LineInv' /\ CursorInv' /\ DeliveredInv' BY <1>3 DEF LineInv, CursorInv, DeliveredInv
<1>9. UndeliveredOnlyByEof'
  <2>. SUFFICES ASSUME NEW k \in Events, k <= cursor', Log[k].data PROVE k \in Delivered' \union eofIds'
    BY DEF UndeliveredOnlyByEof
  <2>1. CASE k < pos BY <1>0, <1>4, <2>1 DEF DataInv, DeliveredInv
  <2>2. CASE pos <= k BY <2>2
  <2>. QED BY <1>1, <2>1, <2>2, LogTyped
<1>10. EffectiveIdMatchesLog'
  <2>1. CASE history' = history BY <1>0, <2>1 DEF DataInv, EffectiveIdMatchesLog
  <2>2. CASE history' = Append(history, Rewind)
    <3>1. history'[Len(history')] = Rewind BY <1>1, <2>2 DEF Entries
    <3>. QED BY <3>1 DEF EffectiveIdMatchesLog
  <2>. QED BY <2>1, <2>2
<1>. QED BY <1>4, <1>5, <1>6, <1>7, <1>8, <1>9, <1>10, HistoryProperties DEF IInv, ControlInv, DataInv

\* The ends of a session: between two lines, in an `id:` line, by an error or by
\* the token of the attempt.
LEMMA SessionEndKeeps ==
  ASSUME IInv, SessionEof \/ SessionEofInIdLine \/ SessionError \/ SessionCancelled
  PROVE IInv'
<1>. USE DEF cursorVars, Streaming
<1>0. /\ phase = "streaming"
      /\ UNCHANGED <<options, budgetVars, header, tokenVars, serverVars, retryDelay, messageId>>
      /\ \/ EndsCleanly \/ AfterError(NoHint)
         \/ \E result \in {"SseProtocol", "Cancelled"} : End(result) /\ UNCHANGED wait
  BY DEF SessionEof, SessionEofInIdLine, SessionError, SessionCancelled, SessionOver
<1>1. /\ cursor \in Cursors /\ cursor \in Int /\ pos \in Nat /\ cursor < pos
      /\ history \in Seq(Entries) /\ eofIds \subseteq Events
      /\ LineInv /\ (cursor \in Events => cursor \in Identified)
  BY <1>0, StreamingFacts, LogTyped DEF IInv, DataInv, CursorInv
<1>2. CASE UNCHANGED <<cursor, history, eofIds>>
  <2>1. \A k \in Events : ~(pos <= k /\ k <= cursor) BY <1>1, LogTyped
  <2>. QED BY <1>0, <1>1, <1>2, <2>1, SessionCloses
<1>3. CASE SessionEof /\ line = "id"
  <2>1. pos \in Events /\ Log[pos].id # "none" /\ frameId = FrameIdOf(pos)
    BY <1>0, <1>1, <1>3 DEF LineInv
  <2>2. /\ cursor' \in {pos, EmptyId} /\ (cursor' \in Events => cursor' \in Identified)
        /\ cursor' = FrameIdOf(pos)
    BY <1>3, <2>1, FrameIdTyped DEF SessionEof
  <2>3. eofIds' = eofIds \union (IF Log[pos].data THEN {pos} ELSE {}) BY <1>3 DEF SessionEof, Frame
  <2>4. \/ history' = history /\ cursor <= cursor'
        \/ history' = Append(history, Rewind)
    <3>1. CASE cursor' = EmptyId
      <4>1. history' = history \o <<Rewind>> BY <1>3, <2>1, <2>2, <3>1 DEF SessionEof, Resets
      <4>2. Rewind \in Entries BY DEF Entries
      <4>. QED BY <1>1, <4>1, <4>2, AppendIsConcat
    <3>2. CASE cursor' # EmptyId
      <4>1. history' = history \o <<>> BY <1>3, <2>1, <2>2, <3>2 DEF SessionEof, Resets
      <4>. QED BY <1>1, <2>2, <3>2, <4>1, ConcatEmptySeq
    <3>. QED BY <3>1, <3>2
  <2>5. \A k \in Events : (pos <= k /\ k <= cursor' /\ Log[k].data) => k \in eofIds'
    <3>1. \A k \in Events : (pos <= k /\ k <= cursor') => k = pos
      BY <1>1, <2>1, <2>2, LogTyped DEF EmptyId
    <3>. QED BY <2>3, <3>1
  <2>. QED BY <1>0, <1>1, <2>1, <2>2, <2>3, <2>4, <2>5, SessionCloses DEF Cursors
<1>4. CASE SessionEofInIdLine
  <2>1. /\ pos \in Events /\ cursor' \in Cut[pos]
        /\ history' = IF cursor' < pos THEN Append(history, Rewind) ELSE history
        /\ eofIds' = eofIds \union {k \in pos..cursor' : Log[k].data}
    BY <1>4 DEF SessionEofInIdLine
  <2>2. cursor' \in Identified \union {EmptyId} BY <2>1, CutAssumption
  <2>3. cursor' \in Cursors /\ cursor' \in Int /\ (cursor' \in Events => cursor' \in Identified)
    BY <2>2, LogTyped DEF Cursors, Identified, EmptyId, Events
  <2>4. pos..cursor' \subseteq Events
    <3>. SUFFICES ASSUME NEW k \in pos..cursor' PROVE k \in Events OBVIOUS
    <3>1. CASE cursor' \in Events BY <2>1, <3>1, LogTyped DEF Events
    <3>2. CASE cursor' = EmptyId BY <2>1, <3>2, LogTyped DEF EmptyId
    <3>. QED BY <2>2, <3>1, <3>2 DEF Identified
  <2>5. \A k \in Events : (pos <= k /\ k <= cursor') => k \in pos..cursor' BY <1>1, <2>3, LogTyped
  <2>6. \/ history' = history /\ cursor <= cursor'
        \/ history' = Append(history, Rewind)
    BY <1>1, <2>1, <2>3
  <2>. QED BY <1>0, <1>1, <2>1, <2>3, <2>4, <2>5, <2>6, SessionCloses
<1>. QED BY <1>2, <1>3, <1>4 DEF SessionEof, SessionError, SessionCancelled

-----------------------------------------------------------------------------
(* The tokens, and the theorems.                                           *)

\* A token that fires between two steps of the loop.
LEMMA TokensKeep == ASSUME IInv, CancelFlow \/ CancelOwn PROVE IInv'
<1>. USE DEF budgetVars, streamVars
<1>0. TypeOK /\ LoopInv /\ LateInv /\ WaitIsBounded /\ DataInv
  BY DEF IInv, ControlInv
<1>1. /\ UNCHANGED <<options, phase, attempts, connections, late, header, wait, attemptToken,
                     serverVars, outputVars, cursorVars, retryDelay, outcome>>
      /\ flowCancelled => flowCancelled'
      /\ flowCancelled' \in BOOLEAN /\ ownCancelled' \in BOOLEAN
  <2>1. flowCancelled \in BOOLEAN /\ ownCancelled \in BOOLEAN BY <1>0 DEF TypeOK
  <2>. QED BY <2>1 DEF CancelFlow, CancelOwn
<1>2. UNCHANGED <<pos, line, frameId, decoderId, history, messageId, cursor, eofIds>>
  BY <1>1 DEF serverVars, outputVars, cursorVars
<1>3. TypeOK' BY <1>0, <1>1, <1>2 DEF TypeOK
<1>4. ControlInv' BY <1>0, <1>1 DEF ControlInv, LoopInv, LateInv, WaitIsBounded
<1>5. DataInv'
  <2>1. phase' \in {"intercepted", "sending"} => header' = cursor
    BY <1>0, <1>1 DEF DataInv, CursorInv
  <2>. QED BY <1>0, <1>1, <2>1, DataFrame
<1>. QED BY <1>3, <1>4, <1>5 DEF IInv

\* The invariant holds before the first attempt.
LEMMA InitIInv == Init => IInv
<1>. SUFFICES ASSUME Init PROVE IInv OBVIOUS
<1>1. /\ MaxAttempts \in Nat \ {0} /\ ServerCap \in Nat \ {0} /\ Len(Log) \in Nat
      /\ 0..MaxAttempts \subseteq Nat
  BY AttemptsAssumption, DelayAssumption, LogTyped
<1>2. NoCursor \in Cursors /\ NoCursor \notin Events /\ \A k \in Events : ~(k <= NoCursor)
  BY LogTyped DEF Cursors, NoCursor
<1>3. TypeOK
  <2>1. NoWait \in [source : {"none", "sse", "http", "policy"}, delay : Nat] BY DEF NoWait
  <2>2. /\ 1 \in 1..(Len(Log) + 1) /\ 0 \in 0..MaxAttempts /\ 0 \in 0..ServerCap
        /\ <<>> \in Seq(Events \union {Rewind})
    BY <1>1
  <2>. QED BY <1>2, <2>1, <2>2 DEF Init, TypeOK
<1>4. ControlInv BY <1>1 DEF Init, ControlInv, LoopInv, LateInv, WaitIsBounded
<1>5. DataInv
  BY <1>2 DEF Init, DataInv, LineInv, CursorInv, DeliveredInv, UndeliveredOnlyByEof, OwnBehindCursor,
              NoReplay, EffectiveIdMatchesLog
<1>. QED BY <1>3, <1>4, <1>5 DEF IInv

\* Every step keeps it.
LEMMA StepIInv == IInv /\ [Next]_vars => IInv'
<1>. SUFFICES ASSUME IInv, [Next]_vars PROVE IInv' OBVIOUS
<1>1. CASE Running BY <1>1, RunningKeeps, OpenKeeps
<1>2. CASE Session BY <1>2, LineKeeps, BlankKeeps, SessionEndKeeps DEF Session
<1>3. CASE CancelFlow \/ CancelOwn BY <1>3, TokensKeep
<1>4. CASE UNCHANGED vars
  <2>1. UNCHANGED <<options, phase, attempts, connections, late, cursor, header, retryDelay, wait,
                    flowCancelled, attemptToken, ownCancelled, pos, line, frameId, decoderId,
                    history, messageId, eofIds, outcome>>
    BY <1>4 DEF vars, tokenVars, serverVars, outputVars
  <2>2. TypeOK' /\ ControlInv'
    BY <2>1 DEF IInv, TypeOK, ControlInv, LoopInv, LateInv, WaitIsBounded
  <2>3. DataInv'
    BY <2>1, DataFrame DEF IInv, DataInv, CursorInv, serverVars, outputVars, cursorVars
  <2>. QED BY <2>2, <2>3 DEF IInv
<1>. QED BY <1>1, <1>2, <1>3, <1>4 DEF Next

\* The invariant of the loop and its sessions (run_reconnect_loop).
THEOREM Inductive == Spec => []IInv
BY InitIInv, StepIInv, PTL DEF Spec

\* Every variable of the runner keeps its type; the stored server delay never
\* exceeds the cap.
THEOREM TypeCorrect == Spec => []TypeOK
<1>1. IInv => TypeOK BY DEF IInv
<1>. QED BY Inductive, <1>1, PTL

\* No event with an identifier of its own is handed over twice while the cursor
\* only moves forward, whatever connections it takes.
THEOREM NothingTwice == Spec => []NoReplay
<1>1. IInv => NoReplay BY DEF IInv, DataInv
<1>. QED BY Inductive, <1>1, PTL

\* The cursor passes an event with data only when it was handed over or a clean
\* end of stream cut its frame (commit_pending_id).
THEOREM NothingSkipped == Spec => []UndeliveredOnlyByEof
<1>1. IInv => UndeliveredOnlyByEof BY DEF IInv, DataInv
<1>. QED BY Inductive, <1>1, PTL

\* A message carries the identifier in effect at its place in the log, over any
\* number of reconnects (the runner's inheritance of the cursor).
THEOREM IdentifiersMatch == Spec => []EffectiveIdMatchesLog
<1>1. IInv => EffectiveIdMatchesLog BY DEF IInv, DataInv
<1>. QED BY Inductive, <1>1, PTL

\* Connections are paid for by attempts, and the head of the loop has one left.
THEOREM AttemptsArePaid == Spec => []AttemptsBounded
<1>1. IInv => AttemptsBounded BY DEF IInv, ControlInv, LoopInv, AttemptsBounded
<1>. QED BY Inductive, <1>1, PTL

\* At most one request reaches the backend after the caller's cancellation.
THEOREM OneLateConnection == Spec => []AtMostOneLateConnection
<1>1. IInv => AtMostOneLateConnection BY DEF IInv, ControlInv, LateInv, AtMostOneLateConnection
<1>. QED BY Inductive, <1>1, PTL

\* No wait is empty, and none the server asked for exceeds the cap (sleep_delay).
THEOREM WaitsAreBounded == Spec => []WaitIsBounded
<1>1. IInv => WaitIsBounded BY DEF IInv, ControlInv
<1>. QED BY Inductive, <1>1, PTL
=============================================================================
