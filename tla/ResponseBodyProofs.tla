------------------------- MODULE ResponseBodyProofs -------------------------
(***************************************************************************)
(* Proofs about ResponseBody for every limit, chunk size and body length.  *)
(*                                                                         *)
(* The safety invariants are not inductive: that a cached body is complete *)
(* needs that the bytes a polled read has aggregated are all the backend   *)
(* has delivered, which needs that nobody read from the backend before the *)
(* read took it.  IInv adds these facts.                                   *)
(***************************************************************************)
EXTENDS ResponseBody, TLAPS

\* A polled read owns every byte delivered so far; its buffer dies with it.
ReaderOwnsDelivered ==
  /\ reader # "idle" => /\ body = "StreamingTaken"
                        /\ used = delivered
                        /\ used <= Limit
  /\ reader = "idle" => used = 0

\* Nobody has read from a backend that is still in the response, and the
\* end of the body comes after exactly the advertised bytes.
BackendUnread == body = "Backend" => delivered = 0
EofIsHonest == ready.item = "eof" => hint \in {NoHint, delivered}

\* Bytes are buffered only in the Buffered state; its owner is the response.
BufferedOwnsBytes ==
  /\ body # "Buffered" => size = 0
  /\ body = "Buffered" => reader = "idle" /\ stream # "live"

IInv ==
  /\ SingleOwner
  /\ FailureAnswersEveryRead
  /\ CachedBodyIsComplete
  /\ ReaderOwnsDelivered
  /\ BackendUnread
  /\ EofIsHonest
  /\ BufferedOwnsBytes

-----------------------------------------------------------------------------
(* Every state of the response body has the types TypeOK gives it.         *)
THEOREM TypeCorrect == Spec => []TypeOK
<1> USE LimitAssumption, BoundAssumption
<1>1. Init => TypeOK
  BY DEF Init, InitBuffered, InitBackend, ContentLengthHints, TypeOK, ReadOps, Nothing,
         Outcome, OutcomeKinds, ReadFailures, BackendErrors
<1>2. TypeOK /\ [Next]_vars => TypeOK'
  <2> SUFFICES ASSUME TypeOK, [Next]_vars PROVE TypeOK'
    OBVIOUS
  <2> USE DEF TypeOK, ReadOps, Nothing, Outcome, OutcomeKinds, ReadFailures, BackendErrors
  <2>1. CASE ServerStep
    <3>1. ASSUME NEW n \in 1..MaxChunk, ServerSends(n) PROVE TypeOK'
      BY <3>1 DEF ServerSends, Chunk
    <3>2. CASE ServerEnds
      BY <3>2 DEF ServerEnds, Signal
    <3>3. ASSUME NEW error \in BackendErrors, ServerFails(error) PROVE TypeOK'
      BY <3>3 DEF ServerFails, Signal
    <3>4. QED
      BY <2>1, <3>1, <3>2, <3>3 DEF ServerStep
  <2>2. CASE Cancel
    BY <2>2 DEF Cancel
  <2>3. CASE StartRead
    <3>1. CASE ReadAfterFailure
      BY <3>1 DEF ReadAfterFailure, callVars
    <3>2. CASE ReadOversizedCache
      BY <3>2 DEF ReadOversizedCache
    <3>3. CASE ReadConsumed
      BY <3>3 DEF ReadConsumed, callVars
    <3>4. CASE RefuseOversizedHint
      BY <3>4 DEF RefuseOversizedHint
    <3>5. ASSUME NEW op \in ReadOps, ReadCache(op) PROVE TypeOK'
      BY <3>5 DEF ReadCache, callVars, Decoded, Ok
    <3>6. ASSUME NEW op \in ReadOps, ReadTakesBackend(op) PROVE TypeOK'
      BY <3>6 DEF ReadTakesBackend, callVars
    <3>7. QED
      BY <2>3, <3>1, <3>2, <3>3, <3>4, <3>5, <3>6 DEF StartRead
  <2>4. CASE ReadStep
    <3>1. CASE ReadChunk
      BY <3>1 DEF ReadChunk
    <3>2. CASE ReadOverBudget
      BY <3>2 DEF ReadOverBudget, FailRead
    <3>3. CASE ReadEof
      BY <3>3 DEF ReadEof, Decoded, Ok
    <3>4. CASE ReadError
      BY <3>4 DEF ReadError, FailRead
    <3>5. CASE ReadTimesOut
      BY <3>5 DEF ReadTimesOut, FailRead
    <3>6. CASE ReadCancelled
      BY <3>6 DEF ReadCancelled, FailRead
    <3>7. QED
      BY <2>4, <3>1, <3>2, <3>3, <3>4, <3>5, <3>6 DEF ReadStep
  <2>5. CASE DropReader
    BY <2>5 DEF DropReader
  <2>6. ASSUME NEW after \in {"held", "consumed"}, OpenStream(after) PROVE TypeOK'
    <3>1. CASE StreamAfterFailure(after)
      BY <3>1 DEF StreamAfterFailure, callVars
    <3>2. CASE StreamCache(after)
      BY <3>2 DEF StreamCache, callVars, Ok
    <3>3. CASE StreamRefused(after)
      BY <3>3 DEF StreamRefused, callVars
    <3>4. CASE StreamConsumed(after)
      BY <3>4 DEF StreamConsumed, callVars
    <3>5. CASE StreamTakesBackend(after)
      BY <3>5 DEF StreamTakesBackend, callVars
    <3>6. QED
      BY <2>6, <3>1, <3>2, <3>3, <3>4, <3>5 DEF OpenStream
  <2>7. CASE StreamStep
    <3>1. CASE StreamChunk
      BY <3>1 DEF StreamChunk
    <3>2. CASE StreamEof
      BY <3>2 DEF StreamEof
    <3>3. CASE StreamError
      BY <3>3 DEF StreamError, EndStream
    <3>4. CASE StreamTimesOut
      BY <3>4 DEF StreamTimesOut, EndStream
    <3>5. CASE StreamCancelled
      BY <3>5 DEF StreamCancelled, EndStream
    <3>6. QED
      BY <2>7, <3>1, <3>2, <3>3, <3>4, <3>5 DEF StreamStep
  <2>8. CASE DropStream
    BY <2>8 DEF DropStream
  <2>9. CASE UNCHANGED vars
    BY <2>9 DEF vars
  <2>10. QED
    BY <2>1, <2>2, <2>3, <2>4, <2>5, <2>6, <2>7, <2>8, <2>9 DEF Next
<1>3. QED
  BY <1>1, <1>2, PTL DEF Spec

-----------------------------------------------------------------------------
(* The inductive invariant holds: no order of reads, streams, drops,       *)
(* cancellations and server events breaks ownership, completeness or the   *)
(* retention of the first failure.                                         *)
THEOREM Inductive == Spec => []IInv
<1> USE LimitAssumption, BoundAssumption, NoFailureAssumption, NoHintAssumption
<1>1. Init => IInv
  BY DEF Init, InitBuffered, InitBackend, ContentLengthHints, IInv, SingleOwner,
         FailureAnswersEveryRead, CachedBodyIsComplete, ReaderOwnsDelivered, BackendUnread,
         EofIsHonest, BufferedOwnsBytes, Nothing, Outcome, BackendOwned
<1>2. TypeOK /\ IInv /\ [Next]_vars => IInv'
  <2> SUFFICES ASSUME TypeOK, IInv, [Next]_vars PROVE IInv'
    OBVIOUS
  <2> USE DEF TypeOK, IInv, SingleOwner, FailureAnswersEveryRead, CachedBodyIsComplete,
              ReaderOwnsDelivered, BackendUnread, EofIsHonest, BufferedOwnsBytes,
              BackendOwned, Nothing, Outcome, ReadOps, ReadFailures, BackendErrors
  <2>1. CASE ServerStep
    <3>1. ASSUME NEW n \in 1..MaxChunk, ServerSends(n) PROVE IInv'
      BY <3>1 DEF ServerSends, Chunk
    <3>2. CASE ServerEnds
      BY <3>2 DEF ServerEnds, Signal
    <3>3. ASSUME NEW error \in BackendErrors, ServerFails(error) PROVE IInv'
      BY <3>3 DEF ServerFails, Signal
    <3>4. QED
      BY <2>1, <3>1, <3>2, <3>3 DEF ServerStep
  <2>2. CASE Cancel
    BY <2>2 DEF Cancel
  <2>3. CASE StartRead
    <3>1. CASE ReadAfterFailure
      BY <3>1 DEF ReadAfterFailure, CanCall, callVars
    <3>2. CASE ReadOversizedCache
      BY <3>2 DEF ReadOversizedCache, CanCall
    <3>3. CASE ReadConsumed
      BY <3>3 DEF ReadConsumed, CanCall, callVars
    <3>4. CASE RefuseOversizedHint
      BY <3>4 DEF RefuseOversizedHint, CanCall
    <3>5. ASSUME NEW op \in ReadOps, ReadCache(op) PROVE IInv'
      BY <3>5 DEF ReadCache, CanCall, callVars
    <3>6. ASSUME NEW op \in ReadOps, ReadTakesBackend(op) PROVE IInv'
      BY <3>6 DEF ReadTakesBackend, CanCall, callVars
    <3>7. QED
      BY <2>3, <3>1, <3>2, <3>3, <3>4, <3>5, <3>6 DEF StartRead
  <2>4. CASE ReadStep
    <3>1. CASE ReadChunk
      BY <3>1 DEF ReadChunk
    <3>2. CASE ReadOverBudget
      BY <3>2 DEF ReadOverBudget, FailRead
    <3>3. CASE ReadEof
      BY <3>3 DEF ReadEof
    <3>4. CASE ReadError
      BY <3>4 DEF ReadError, FailRead
    <3>5. CASE ReadTimesOut
      BY <3>5 DEF ReadTimesOut, FailRead
    <3>6. CASE ReadCancelled
      BY <3>6 DEF ReadCancelled, FailRead
    <3>7. QED
      BY <2>4, <3>1, <3>2, <3>3, <3>4, <3>5, <3>6 DEF ReadStep
  <2>5. CASE DropReader
    BY <2>5 DEF DropReader
  <2>6. ASSUME NEW after \in {"held", "consumed"}, OpenStream(after) PROVE IInv'
    <3>1. CASE StreamAfterFailure(after)
      BY <3>1 DEF StreamAfterFailure, CanCall, callVars
    <3>2. CASE StreamCache(after)
      BY <3>2 DEF StreamCache, CanCall, callVars
    <3>3. CASE StreamRefused(after)
      BY <3>3 DEF StreamRefused, CanCall, callVars
    <3>4. CASE StreamConsumed(after)
      BY <3>4 DEF StreamConsumed, CanCall, callVars
    <3>5. CASE StreamTakesBackend(after)
      BY <3>5 DEF StreamTakesBackend, CanCall, callVars
    <3>6. QED
      BY <2>6, <3>1, <3>2, <3>3, <3>4, <3>5 DEF OpenStream
  <2>7. CASE StreamStep
    <3>1. CASE StreamChunk
      BY <3>1 DEF StreamChunk
    <3>2. CASE StreamEof
      BY <3>2 DEF StreamEof
    <3>3. CASE StreamError
      BY <3>3 DEF StreamError, EndStream
    <3>4. CASE StreamTimesOut
      BY <3>4 DEF StreamTimesOut, EndStream
    <3>5. CASE StreamCancelled
      BY <3>5 DEF StreamCancelled, EndStream
    <3>6. QED
      BY <2>7, <3>1, <3>2, <3>3, <3>4, <3>5 DEF StreamStep
  <2>8. CASE DropStream
    BY <2>8 DEF DropStream
  <2>9. CASE UNCHANGED vars
    BY <2>9 DEF vars
  <2>10. QED
    BY <2>1, <2>2, <2>3, <2>4, <2>5, <2>6, <2>7, <2>8, <2>9 DEF Next
<1>3. QED
  BY <1>1, <1>2, TypeCorrect, PTL DEF Spec

-----------------------------------------------------------------------------
(* The backend body never has two owners, and none after a failure.        *)
THEOREM OneOwner == Spec => []SingleOwner
BY Inductive, PTL DEF IInv

(* A recorded failure is what every later read of any kind reports.        *)
THEOREM FailureRetained == Spec => []FailureAnswersEveryRead
BY Inductive, PTL DEF IInv

(* Cached bytes are all the bytes of the body, and as many as the backend  *)
(* advertised if it delivered them.                                        *)
THEOREM CacheComplete == Spec => []CachedBodyIsComplete
BY Inductive, PTL DEF IInv

(* Aggregation stays within response_body_size_limit.                      *)
THEOREM BoundedAggregation == Spec => []AggregationIsBounded
<1>1. TypeOK /\ IInv => AggregationIsBounded
  BY LimitAssumption DEF TypeOK, IInv, ReaderOwnsDelivered, AggregationIsBounded
<1>2. QED
  BY <1>1, TypeCorrect, Inductive, PTL

(* No step of any actor takes a readable cache away: a response that has   *)
(* been aggregated once can be read for ever.                              *)
THEOREM CachePermanent == Spec => CacheIsPermanent
<1> DEFINE Keeps == body = "Buffered" /\ size <= Limit => UNCHANGED <<body, size, failure>>
<1>1. TypeOK /\ IInv /\ [Next]_vars => [Keeps]_vars
  <2> SUFFICES ASSUME TypeOK, IInv, Next, body = "Buffered", size <= Limit
               PROVE  UNCHANGED <<body, size, failure>>
    OBVIOUS
  <2>1. reader = "idle" /\ stream # "live" /\ failure = NoFailure
    BY DEF IInv, BufferedOwnsBytes, SingleOwner
  <2>2. ServerStep => UNCHANGED <<body, size, failure>>
    BY DEF ServerStep, ServerSends, ServerEnds, ServerFails
  <2>3. Cancel => UNCHANGED <<body, size, failure>>
    BY DEF Cancel
  <2>4. StartRead => UNCHANGED <<body, size, failure>>
    BY LimitAssumption DEF StartRead, ReadAfterFailure, ReadOversizedCache, ReadConsumed,
       RefuseOversizedHint, ReadCache, ReadTakesBackend, callVars, TypeOK
  <2>5. ~ReadStep /\ ~DropReader
    BY <2>1 DEF ReadStep, ReadChunk, ReadOverBudget, ReadEof, ReadError, ReadTimesOut,
                ReadCancelled, DropReader
  <2>6. ASSUME NEW after \in {"held", "consumed"}, OpenStream(after)
        PROVE  UNCHANGED <<body, size, failure>>
    BY <2>6 DEF OpenStream, StreamAfterFailure, StreamCache, StreamRefused, StreamConsumed,
                StreamTakesBackend, callVars
  <2>7. ~StreamStep /\ ~DropStream
    BY <2>1 DEF StreamStep, StreamChunk, StreamEof, StreamError, StreamTimesOut,
                StreamCancelled, DropStream
  <2>8. QED
    BY <2>2, <2>3, <2>4, <2>5, <2>6, <2>7 DEF Next
<1>2. QED
  BY <1>1, TypeCorrect, Inductive, PTL DEF Spec, CacheIsPermanent

-----------------------------------------------------------------------------
(* The response body implements the read-once cell: every step of every    *)
(* actor is one of its four steps or leaves it alone.                      *)
THEOREM Refinement == Spec => ImplementsReadOnce
<1> USE LimitAssumption, NoFailureAssumption
<1>1. Init => Once!Init
  BY DEF Init, InitBuffered, InitBackend, Once!Init, phase
<1>2. TypeOK /\ IInv /\ TypeOK' /\ IInv' /\ [Next]_vars => [Once!Next]_Once!vars
  <2> SUFFICES ASSUME TypeOK, IInv, TypeOK', IInv', [Next]_vars
               PROVE  [Once!Next]_Once!vars
    OBVIOUS
  <2> USE DEF TypeOK, IInv, SingleOwner, BufferedOwnsBytes, ReaderOwnsDelivered, BackendOwned,
              phase, Once!vars, ReadOps, ReadFailures, BackendErrors
  <2>1. CASE ServerStep
    BY <2>1 DEF ServerStep, ServerSends, ServerEnds, ServerFails
  <2>2. CASE Cancel
    BY <2>2 DEF Cancel
  <2>3. CASE StartRead
    <3>1. CASE ReadAfterFailure
      BY <3>1 DEF ReadAfterFailure, callVars
    <3>2. CASE ReadOversizedCache
      BY <3>2 DEF ReadOversizedCache, CanCall, Once!Next, Once!Fail
    <3>3. CASE ReadConsumed
      BY <3>3 DEF ReadConsumed, callVars
    <3>4. CASE RefuseOversizedHint
      BY <3>4 DEF RefuseOversizedHint, CanCall, Once!Next, Once!Fail
    <3>5. ASSUME NEW op \in ReadOps, ReadCache(op) PROVE [Once!Next]_Once!vars
      BY <3>5 DEF ReadCache, callVars
    <3>6. ASSUME NEW op \in ReadOps, ReadTakesBackend(op) PROVE [Once!Next]_Once!vars
      BY <3>6 DEF ReadTakesBackend, callVars, Once!Next, Once!Take
    <3>7. QED
      BY <2>3, <3>1, <3>2, <3>3, <3>4, <3>5, <3>6 DEF StartRead
  <2>4. CASE ReadStep
    <3>1. CASE ReadChunk
      BY <3>1 DEF ReadChunk
    <3>2. CASE ReadOverBudget
      BY <3>2 DEF ReadOverBudget, FailRead, Once!Next, Once!Fail
    <3>3. CASE ReadEof
      BY <3>3 DEF ReadEof, Once!Next, Once!Fill
    <3>4. CASE ReadError
      BY <3>4 DEF ReadError, FailRead, Once!Next, Once!Fail
    <3>5. CASE ReadTimesOut
      BY <3>5 DEF ReadTimesOut, FailRead, Once!Next, Once!Fail
    <3>6. CASE ReadCancelled
      BY <3>6 DEF ReadCancelled, FailRead, Once!Next, Once!Fail
    <3>7. QED
      BY <2>4, <3>1, <3>2, <3>3, <3>4, <3>5, <3>6 DEF ReadStep
  <2>5. CASE DropReader
    BY <2>5 DEF DropReader, Once!Next, Once!GiveAway
  <2>6. ASSUME NEW after \in {"held", "consumed"}, OpenStream(after)
        PROVE  [Once!Next]_Once!vars
    <3>1. CASE StreamTakesBackend(after)
      BY <3>1 DEF StreamTakesBackend, CanCall, callVars, Once!Next, Once!Take
    <3>2. QED
      BY <2>6, <3>1 DEF OpenStream, StreamAfterFailure, StreamCache, StreamRefused,
                        StreamConsumed, callVars
  <2>7. CASE StreamStep
    <3>1. CASE StreamChunk
      BY <3>1 DEF StreamChunk
    <3>2. CASE StreamEof
      BY <3>2 DEF StreamEof, Once!Next, Once!GiveAway
    <3>3. CASE StreamError
      BY <3>3 DEF StreamError, EndStream, Once!Next, Once!Fail
    <3>4. CASE StreamTimesOut
      BY <3>4 DEF StreamTimesOut, EndStream, Once!Next, Once!Fail
    <3>5. CASE StreamCancelled
      BY <3>5 DEF StreamCancelled, EndStream, Once!Next, Once!Fail
    <3>6. QED
      BY <2>7, <3>1, <3>2, <3>3, <3>4, <3>5 DEF StreamStep
  <2>8. CASE DropStream
    BY <2>8 DEF DropStream, Once!Next, Once!GiveAway
  <2>9. CASE UNCHANGED vars
    BY <2>9 DEF vars
  <2>10. QED
    BY <2>1, <2>2, <2>3, <2>4, <2>5, <2>6, <2>7, <2>8, <2>9 DEF Next
<1>3. QED
  BY <1>1, <1>2, TypeCorrect, Inductive, PTL DEF Spec, ImplementsReadOnce, Once!Spec

=============================================================================
