---------------------------- MODULE SseJsonProofs ----------------------------
(***************************************************************************)
(* Proofs about SseJson for bodies of any length under every policy: the    *)
(* decoder, which sees one record at a time, yields what is read off the    *)
(* whole body at once.                                                     *)
(***************************************************************************)
EXTENDS SseJson, SequenceTheorems, TLAPS

Chunks == [kind : {"data", "done", "error"}, at : Nat]

\* The body and its policies.
InputInv ==
  /\ records \in Seq(Records) /\ ending \in Endings /\ marker \in Markers
  /\ mode \in {"strict", "lenient"} /\ completion \in {"AllowEof", "RequireDoneMarker"}

\* While the stream goes on, a marker can still come where one must, and no record
\* that ends the stream was taken.
ProgressInv ==
  /\ pos \in 0..Len(records) /\ phase \in {"open", "reading", "ended"} /\ chunks \in Seq(Chunks)
  /\ phase = "open" => pos = 0 /\ chunks = <<>>
  /\ phase = "reading" => ~Impossible /\ \A j \in Marked \union Fatal : j > pos

IInv == InputInv /\ ProgressInv /\ StreamMeansItsPolicies

-----------------------------------------------------------------------------
(* What the body means.                                                    *)

\* The classes of records do not overlap, and lie in the body.
LEMMA ClassesTyped ==
  ASSUME InputInv
  PROVE /\ Len(records) \in Nat /\ DOMAIN records = 1..Len(records)
        /\ Readable \union Marked \union Fatal \subseteq Visible /\ Visible \subseteq 1..Len(records)
        /\ \A i \in 1..Len(records) :
             /\ i \in Readable => Expected(i) = "data"
             /\ i \in Marked => Expected(i) = "done"
             /\ i \in Fatal => Expected(i) = "error"
<1>1. Len(records) \in Nat /\ DOMAIN records = 1..Len(records) BY DEF InputInv
<1>2. /\ Readable \intersect Marked = {} /\ Fatal \intersect (Marked \union Readable) = {}
      /\ Readable \union Marked \union Fatal \subseteq Visible /\ Visible \subseteq 1..Len(records)
  BY <1>1 DEF Readable, Marked, Fatal, Visible
<1>. QED BY <1>1, <1>2 DEF Expected

\* The requirement of a marker is impossible exactly where no marker can be used.
LEMMA UsableMarkers ==
  ASSUME InputInv
  PROVE Impossible <=> completion = "RequireDoneMarker" /\ ~Usable
BY DEF InputInv, Impossible, Usable, Markers, Payloads

\* A record further on extends the list by one.
LEMMA ListGrows ==
  ASSUME NEW sequence \in Seq(Chunks), NEW at, Lists(sequence, at), NEW i \in Nat, \A j \in at : j < i,
         Expected(i) \in {"data", "done", "error"}
  PROVE /\ Append(sequence, Chunk(Expected(i), i)) \in Seq(Chunks)
        /\ Lists(Append(sequence, Chunk(Expected(i), i)), at \union {i})
<1>. DEFINE chunk == Chunk(Expected(i), i)
            longer == Append(sequence, chunk)
            last == Len(sequence) + 1
<1>1. chunk \in Chunks /\ chunk.at = i BY DEF Chunk, Chunks
<1>2. chunk = Chunk(Expected(chunk.at), chunk.at) BY <1>1
<1>. HIDE DEF chunk
<1>3. /\ longer \in Seq(Chunks) /\ last \in Nat /\ DOMAIN sequence = 1..(last - 1)
      /\ DOMAIN longer = 1..last /\ longer[last] = chunk /\ \A k \in 1..(last - 1) : longer[k] = sequence[k]
  <2>. HIDE DEF Chunks
  <2>. QED BY <1>1
<1>4. \A k \in 1..last : k \in 1..(last - 1) \/ k = last BY <1>3
<1>. HIDE DEF longer, last
<1>5. \A k \in DOMAIN longer : longer[k].at \in at \union {i} /\ longer[k] = Chunk(Expected(longer[k].at), longer[k].at)
  BY <1>1, <1>2, <1>3, <1>4 DEF Lists
<1>6. \A j \in at \union {i} : \E k \in DOMAIN longer : longer[k].at = j
  <2>1. last \in 1..last /\ \A k \in 1..(last - 1) : k \in 1..last BY <1>3, <1>4 DEF last
  <2>. QED BY <1>1, <1>3, <2>1 DEF Lists
<1>7. ASSUME NEW k \in DOMAIN longer, NEW l \in DOMAIN longer, k < l PROVE longer[k].at < longer[l].at
  <2>1. k \in 1..(last - 1) BY <1>3, <1>7
  <2>2. longer[k].at \in at /\ longer[k] = sequence[k] BY <1>3, <2>1 DEF Lists
  <2>3. CASE l = last BY <1>1, <1>3, <2>2, <2>3
  <2>4. CASE l \in 1..(last - 1) BY <1>3, <1>7, <2>1, <2>4 DEF Lists
  <2>. QED BY <1>3, <1>4, <2>3, <2>4
<1>. QED BY <1>3, <1>5, <1>6, <1>7 DEF Lists, longer, chunk

-----------------------------------------------------------------------------
(* The decoder.                                                            *)

\* The next record of a stream that goes on is reached, and yields by its class.
LEMMA NextRecord ==
  ASSUME IInv, Reading
  PROVE /\ UNCHANGED input /\ pos' = pos + 1 /\ pos' \in 1..Len(records) /\ pos' \in Nat /\ pos \in Nat
        /\ chunks \in Seq(Chunks) /\ Lists(chunks, Yielding(pos)) /\ \A j \in Yielding(pos) : j < pos'
        /\ pos' \in Reached /\ ~Impossible
        /\ Yielding(pos') = Yielding(pos) \union ({pos'} \intersect (Readable \union Marked \union Fatal))
        /\ \A j \in (Marked \union Fatal) : j >= pos'
<1>1. /\ InputInv /\ phase = "reading" /\ pos < Len(records) /\ pos' = pos + 1 /\ UNCHANGED input
      /\ pos \in 0..Len(records) /\ chunks \in Seq(Chunks) /\ ~Impossible /\ \A j \in Marked \union Fatal : j > pos
      /\ Lists(chunks, Yielding(pos))
  BY DEF IInv, ProgressInv, Reading, StreamMeansItsPolicies
<1>2. /\ Len(records) \in Nat /\ DOMAIN records = 1..Len(records)
      /\ Marked \union Fatal \subseteq 1..Len(records)
  BY <1>1, ClassesTyped
<1>3. \A j \in Marked \union Fatal : j \in Nat /\ j >= pos' BY <1>1, <1>2
<1>4. /\ pos' \in 1..Len(records) /\ pos' \in Nat /\ pos \in Nat BY <1>1, <1>2
<1>5. \A i \in 1..pos' : i \in Reached BY <1>1, <1>2, <1>3, <1>4 DEF Reached
<1>6. Reached \subseteq 1..Len(records) BY <1>1, <1>2 DEF Reached
<1>7. \A i \in Reached : i \in Nat /\ i >= 1 /\ (i <= pos' <=> (i <= pos \/ i = pos')) /\ (i <= pos => i < pos')
  BY <1>1, <1>4, <1>6
<1>8. pos' \in Reached BY <1>4, <1>5
<1>. QED BY <1>1, <1>3, <1>4, <1>7, <1>8 DEF Yielding

\* The body keeps its meaning while the stream goes on.
LEMMA InputKept ==
  ASSUME UNCHANGED input
  PROVE /\ Marked' = Marked /\ Fatal' = Fatal /\ Impossible' = Impossible
        /\ StreamMeansItsPolicies' <=>
             IF phase' = "ended" /\ FailsAtEnd
               THEN /\ chunks' # <<>> /\ Last(chunks') = Chunk("error", pos')
                    /\ Lists(Front(chunks'), Yielding(Len(records)))
               ELSE Lists(chunks', Yielding(IF phase' = "ended" THEN Len(records) ELSE pos'))
<1>1. /\ records' = records /\ ending' = ending /\ marker' = marker /\ mode' = mode
      /\ completion' = completion
  BY DEF input
<1>2. Visible' = Visible BY <1>1 DEF Visible
<1>3. Marked' = Marked BY <1>1, <1>2 DEF Marked
<1>4. Readable' = Readable BY <1>1, <1>2, <1>3 DEF Readable
<1>5. Fatal' = Fatal BY <1>1, <1>2, <1>3, <1>4 DEF Fatal
<1>6. Impossible' = Impossible BY <1>1 DEF Impossible
<1>7. Reached' = Reached BY <1>1, <1>3, <1>5, <1>6 DEF Reached
<1>8. FailsAtEnd' = FailsAtEnd BY <1>1, <1>3, <1>5, <1>6, <1>7 DEF FailsAtEnd, CutShort
<1>. QED
  BY <1>1, <1>3, <1>4, <1>5, <1>6, <1>7, <1>8
  DEF StreamMeansItsPolicies, Lists, Yielding, Expected, Chunk

\* A record that does not end the stream leaves it as the body says.
LEMMA GoesOn ==
  ASSUME IInv, Reading, phase' = "reading", pos' \notin Marked \union Fatal,
         chunks' \in Seq(Chunks), Lists(chunks', Yielding(pos'))
  PROVE IInv'
<1>1. /\ UNCHANGED input /\ pos' \in 1..Len(records) /\ pos' \in Nat /\ ~Impossible
      /\ \A j \in (Marked \union Fatal) : j >= pos'
  BY NextRecord
<1>2. InputInv /\ Len(records) \in Nat /\ Marked \union Fatal \subseteq 1..Len(records)
  BY ClassesTyped DEF IInv
<1>3. InputInv' BY <1>1, <1>2 DEF InputInv, input
<1>4. StreamMeansItsPolicies'
  <2>. HIDE DEF StreamMeansItsPolicies
  <2>. QED BY <1>1, InputKept
<1>5. \A j \in Marked \union Fatal : j > pos' BY <1>1, <1>2
<1>6. Marked' = Marked /\ Fatal' = Fatal /\ Impossible' = Impossible BY <1>1, InputKept
<1>7. ProgressInv'
  <2>1. (\A j \in Marked \union Fatal : j > pos)' BY <1>5, <1>6
  <2>2. pos' \in 0..Len(records') BY <1>1, <1>2 DEF input
  <2>. QED BY <1>1, <1>6, <2>1, <2>2 DEF ProgressInv
<1>. QED BY <1>3, <1>4, <1>7 DEF IInv

\* A record that ends the stream with its chunk leaves nothing to come.
LEMMA EndsHere ==
  ASSUME IInv, Reading, phase' = "ended", pos' \in Marked \union Fatal,
         chunks' = Append(chunks, Chunk(Expected(pos'), pos'))
  PROVE IInv'
<1>1. /\ UNCHANGED input /\ pos' \in 1..Len(records) /\ pos' \in Nat /\ pos' \in Reached /\ ~Impossible
      /\ chunks \in Seq(Chunks) /\ Lists(chunks, Yielding(pos)) /\ \A j \in Yielding(pos) : j < pos'
      /\ Yielding(pos') = Yielding(pos) \union {pos'}
  BY NextRecord
<1>2. /\ InputInv /\ Len(records) \in Nat /\ DOMAIN records = 1..Len(records)
      /\ Expected(pos') \in {"done", "error"}
  BY <1>1, ClassesTyped DEF IInv
<1>3. chunks' \in Seq(Chunks) /\ Lists(chunks', Yielding(pos'))
  BY <1>1, <1>2, ListGrows
<1>4. ~FailsAtEnd BY <1>1 DEF FailsAtEnd, CutShort
<1>5. Yielding(Len(records)) = Yielding(pos')
  <2>1. \A i \in Reached : i \in 1..Len(records) /\ i <= pos' BY <1>1, <1>2 DEF Reached
  <2>2. \A i \in Reached : i <= Len(records) BY <1>2, <2>1
  <2>. QED BY <2>1, <2>2 DEF Yielding
<1>6. StreamMeansItsPolicies' BY <1>1, <1>3, <1>4, <1>5, InputKept
<1>7. InputInv' BY <1>1, <1>2 DEF InputInv, input
<1>8. ProgressInv' BY <1>1, <1>2, <1>3 DEF ProgressInv, input
<1>. QED BY <1>6, <1>7, <1>8 DEF IInv

\* The decoder's verdict on a payload that is no marker is its class.
LEMMA DecodedIsClass ==
  ASSUME InputInv, NEW i \in Visible \ Marked
  PROVE /\ Decoded(records[i].payload) = "data" <=> i \in Readable
        /\ Decoded(records[i].payload) = "error" <=> i \in Fatal
        /\ Decoded(records[i].payload) \in {"data", "skip", "error"}
<1>1. records[i] \in Records /\ records[i].kind = "message" BY DEF InputInv, Visible
<1>2. records[i].payload \in Payloads BY <1>1 DEF Records
<1>3. mode \in {"strict", "lenient"} BY DEF InputInv
<1>. QED BY <1>2, <1>3 DEF Decoded, Readable, Fatal, Payloads

\* Reading a record keeps the invariant, by its class.
LEMMA RecordStep ==
  ASSUME IInv, SkipControl \/ SkipBlank \/ ReadMarker \/ ReadChunk
  PROVE IInv'
<1>1. Reading BY DEF SkipControl, SkipBlank, ReadMarker, ReadChunk
<1>2. /\ pos' \in 1..Len(records) /\ pos' \in Nat /\ chunks \in Seq(Chunks) /\ Lists(chunks, Yielding(pos))
      /\ \A j \in Yielding(pos) : j < pos'
      /\ Yielding(pos') = Yielding(pos) \union ({pos'} \intersect (Readable \union Marked \union Fatal))
  BY <1>1, NextRecord
<1>3. /\ InputInv /\ DOMAIN records = 1..Len(records) /\ Readable \union Marked \union Fatal \subseteq Visible
      /\ pos' \in Readable => Expected(pos') = "data"
      /\ pos' \in Marked => Expected(pos') = "done"
      /\ pos' \in Fatal => Expected(pos') = "error"
  BY <1>2, ClassesTyped DEF IInv
<1>4. pos' \in Visible <=> records[pos'].kind = "message" /\ Payload # "blank"
  BY <1>2, <1>3 DEF Visible, Payload
<1>5. pos' \in Marked <=> pos' \in Visible /\ IsDone(Payload)
  BY DEF Marked, IsDone, Payload
<1>6. ASSUME pos' \notin Readable \union Marked \union Fatal, Continue PROVE IInv'
  <2>1. Yielding(pos') = Yielding(pos) BY <1>2, <1>6
  <2>. QED BY <1>1, <1>2, <1>6, <2>1, GoesOn DEF Continue
<1>7. CASE SkipControl
  <2>1. pos' \notin Visible /\ Continue BY <1>4, <1>7 DEF SkipControl
  <2>. QED BY <1>3, <1>6, <2>1
<1>8. CASE SkipBlank
  <2>1. pos' \notin Visible /\ Continue BY <1>4, <1>8 DEF SkipBlank
  <2>. QED BY <1>3, <1>6, <2>1
<1>9. CASE ReadMarker
  <2>1. pos' \in Marked /\ End("done") BY <1>4, <1>5, <1>9 DEF ReadMarker
  <2>. QED BY <1>1, <1>3, <2>1, EndsHere DEF End
<1>10. CASE ReadChunk
  <2>1. pos' \in Visible \ Marked BY <1>4, <1>5, <1>10 DEF ReadChunk
  <2>2. /\ Decoded(Payload) = "data" <=> pos' \in Readable
        /\ Decoded(Payload) = "error" <=> pos' \in Fatal
        /\ Decoded(Payload) \in {"data", "skip", "error"}
    BY <1>3, <2>1, DecodedIsClass DEF Payload
  <2>3. CASE Decoded(Payload) = "data"
    <3>1. Yield("data") BY <1>10, <2>3 DEF ReadChunk
    <3>2. pos' \in Readable /\ pos' \notin Marked \union Fatal /\ Expected(pos') = "data"
      BY <1>3, <2>1, <2>2, <2>3
    <3>3. Yielding(pos') = Yielding(pos) \union {pos'} BY <1>2, <3>2
    <3>4. chunks' = Append(chunks, Chunk(Expected(pos'), pos')) BY <3>1, <3>2 DEF Yield
    <3>5. chunks' \in Seq(Chunks) /\ Lists(chunks', Yielding(pos')) BY <1>2, <3>2, <3>3, <3>4, ListGrows
    <3>. QED BY <1>1, <3>1, <3>2, <3>5, GoesOn DEF Yield
  <2>4. CASE Decoded(Payload) = "skip"
    <3>1. Continue BY <1>10, <2>4 DEF ReadChunk
    <3>2. pos' \notin Readable \union Marked \union Fatal BY <2>1, <2>2, <2>4
    <3>. QED BY <1>6, <3>1, <3>2
  <2>5. CASE Decoded(Payload) = "error"
    <3>1. End("error") BY <1>10, <2>5 DEF ReadChunk
    <3>2. pos' \in Fatal /\ Expected(pos') = "error" BY <1>3, <2>2, <2>5
    <3>. QED BY <1>1, <3>1, <3>2, EndsHere DEF End
  <2>. QED BY <2>2, <2>3, <2>4, <2>5
<1>. QED BY <1>7, <1>8, <1>9, <1>10

\* What is appended last comes off last.
LEMMA AppendedLast ==
  ASSUME NEW sequence \in Seq(Chunks), NEW chunk \in Chunks
  PROVE /\ Append(sequence, chunk) \in Seq(Chunks) /\ Append(sequence, chunk) # <<>>
        /\ Last(Append(sequence, chunk)) = chunk /\ Front(Append(sequence, chunk)) = sequence
<1>. DEFINE longer == Append(sequence, chunk)
<1>1. /\ longer \in Seq(Chunks) /\ longer # <<>> /\ Len(longer) = Len(sequence) + 1 /\ Len(sequence) \in Nat
      /\ \A i \in 1..Len(sequence) : longer[i] = sequence[i]
      /\ longer[Len(sequence) + 1] = chunk
  BY AppendProperties, LenProperties
<1>. HIDE DEF longer, Chunks
<1>2. Len(longer) - 1 = Len(sequence) BY <1>1
<1>3. SubSeq(longer, 1, Len(sequence)) = sequence
  <2>1. \A i \in 1..Len(sequence) : longer[i] \in Chunks BY <1>1, ElementOfSeq
  <2>2. /\ SubSeq(longer, 1, Len(sequence)) \in Seq(Chunks)
        /\ Len(SubSeq(longer, 1, Len(sequence))) = Len(sequence)
        /\ \A i \in 1..Len(sequence) : SubSeq(longer, 1, Len(sequence))[i] = longer[i]
    BY <1>1, <2>1
  <2>. QED BY <1>1, <2>2, SeqEqual
<1>. QED BY <1>1, <1>2, <1>3 DEF Last, Front, longer

\* A stream that ends in an error of its own, or in none, has yielded what the body
\* says before it.
LEMMA EndsOutside ==
  ASSUME IInv, UNCHANGED <<input, pos>>, phase' = "ended", CutShort,
         Lists(chunks, Yielding(Len(records))),
         IF FailsAtEnd THEN chunks' = Append(chunks, Chunk("error", pos')) ELSE chunks' = chunks
  PROVE IInv'
<1>1. InputInv /\ pos \in Nat /\ chunks \in Seq(Chunks) /\ UNCHANGED input /\ pos' = pos
  BY ClassesTyped DEF IInv, ProgressInv
<1>2. Chunk("error", pos') \in Chunks BY <1>1 DEF Chunk, Chunks
<1>3. /\ chunks' \in Seq(Chunks)
      /\ FailsAtEnd => chunks' # <<>> /\ Last(chunks') = Chunk("error", pos') /\ Front(chunks') = chunks
  <2>. HIDE DEF Chunks, Last, Front, Chunk, FailsAtEnd
  <2>. QED BY <1>1, <1>2, AppendedLast
<1>4. StreamMeansItsPolicies'
  <2>. HIDE DEF StreamMeansItsPolicies
  <2>. QED BY <1>1, <1>3, InputKept
<1>5. InputInv' BY <1>1 DEF InputInv, input
<1>6. ProgressInv' BY <1>1, <1>3 DEF IInv, ProgressInv, input
<1>. QED BY <1>4, <1>5, <1>6 DEF IInv

\* The first poll keeps the invariant: a stream that must end at a marker that
\* cannot occur ends at once.
LEMMA OpenStep == ASSUME IInv, Open PROVE IInv'
<1>1. /\ InputInv /\ phase = "open" /\ pos = 0 /\ chunks = <<>> /\ UNCHANGED <<input, pos>>
      /\ UNCHANGED input /\ pos' = pos /\ Len(records) \in Nat
      /\ Readable \union Marked \union Fatal \subseteq 1..Len(records)
      /\ Impossible <=> completion = "RequireDoneMarker" /\ ~Usable
      /\ Lists(chunks, Yielding(0))
  <2>1. InputInv /\ phase = "open" /\ pos = 0 /\ chunks = <<>> BY DEF IInv, ProgressInv, Open
  <2>2. Lists(chunks, Yielding(0)) BY <2>1 DEF IInv, StreamMeansItsPolicies
  <2>. QED BY <2>1, <2>2, ClassesTyped, UsableMarkers DEF Open
<1>2. CASE Impossible
  <2>1. phase' = "ended" /\ chunks' = Append(chunks, Chunk("error", pos')) BY <1>1, <1>2 DEF Open, End
  <2>2. Reached = {} BY <1>2 DEF Reached
  <2>3. CutShort /\ FailsAtEnd BY <1>2, <2>2 DEF CutShort, FailsAtEnd
  <2>4. Yielding(Len(records)) = Yielding(0) BY <2>2 DEF Yielding
  <2>. QED BY <1>1, <2>1, <2>3, <2>4, EndsOutside
<1>3. CASE ~Impossible
  <2>1. phase' = "reading" /\ chunks' = chunks BY <1>1, <1>3 DEF Open, Continue
  <2>2. StreamMeansItsPolicies' BY <1>1, <2>1, InputKept
  <2>3. Marked' = Marked /\ Fatal' = Fatal /\ Impossible' = Impossible BY <1>1, InputKept
  <2>4. (\A j \in Marked \union Fatal : j > pos)' BY <1>1, <2>3
  <2>5. InputInv' BY <1>1 DEF InputInv, input
  <2>6. ProgressInv' BY <1>1, <1>3, <2>1, <2>3, <2>4 DEF IInv, ProgressInv, input
  <2>. QED BY <2>2, <2>5, <2>6 DEF IInv
<1>. QED BY <1>2, <1>3

\* The end of the body keeps the invariant: nothing in it ended the stream.
LEMMA EndStep == ASSUME IInv, BodyEnds PROVE IInv'
<1>1. /\ InputInv /\ phase = "reading" /\ pos = Len(records) /\ UNCHANGED <<input, pos>> /\ ~Impossible
      /\ \A j \in Marked \union Fatal : j > pos
      /\ Lists(chunks, Yielding(Len(records)))
  BY DEF IInv, ProgressInv, BodyEnds, StreamMeansItsPolicies
<1>2. Marked \union Fatal = {} BY <1>1, ClassesTyped
<1>3. CutShort BY <1>2 DEF CutShort
<1>4. FailsAtEnd <=> ending = "failure" \/ completion = "RequireDoneMarker" BY <1>1, <1>3 DEF FailsAtEnd
<1>. QED BY <1>1, <1>3, <1>4, EndsOutside DEF BodyEnds, End, EndSilently

-----------------------------------------------------------------------------
(* The theorems.                                                           *)

\* Every body is a sequence of records; the stream has not begun.
LEMMA InitIInv == ASSUME Init PROVE IInv
<1>1. PICK n \in 0..MaxRecords : records \in [1..n -> Records] BY DEF Init
<1>2. InputInv
  <2>1. n \in Nat BY BoundAssumption
  <2>2. records \in Seq(Records) BY <1>1, <2>1
  <2>. QED BY <2>2 DEF Init, InputInv
<1>3. Len(records) \in Nat /\ Readable \union Marked \union Fatal \subseteq 1..Len(records)
  BY <1>2, ClassesTyped
<1>4. Yielding(0) = {}
  <2>1. \A i \in 1..Len(records) : ~(i <= 0) BY <1>3
  <2>. QED BY <1>3, <2>1 DEF Yielding
<1>5. chunks = <<>> /\ phase = "open" /\ pos = 0 BY DEF Init
<1>6. Lists(chunks, Yielding(0)) BY <1>4, <1>5 DEF Lists
<1>7. StreamMeansItsPolicies BY <1>5, <1>6 DEF StreamMeansItsPolicies
<1>8. ProgressInv BY <1>3, <1>5 DEF ProgressInv
<1>. QED BY <1>2, <1>7, <1>8 DEF IInv

\* Polling keeps the invariant.
LEMMA StepIInv == ASSUME IInv, [Next]_vars PROVE IInv'
<1>1. CASE Open BY <1>1, OpenStep
<1>2. CASE SkipControl \/ SkipBlank \/ ReadMarker \/ ReadChunk BY <1>2, RecordStep
<1>3. CASE BodyEnds BY <1>3, EndStep
<1>4. CASE UNCHANGED vars
  <2>1. UNCHANGED input /\ UNCHANGED <<pos, phase, chunks>> BY <1>4 DEF vars
  <2>2. StreamMeansItsPolicies' BY <2>1, InputKept DEF IInv, StreamMeansItsPolicies
  <2>3. Marked' = Marked /\ Fatal' = Fatal /\ Impossible' = Impossible BY <2>1, InputKept
  <2>4. (\A j \in Marked \union Fatal : j > pos)' <=> \A j \in Marked \union Fatal : j > pos
    BY <2>1, <2>3
  <2>5. InputInv' BY <2>1 DEF IInv, InputInv, input
  <2>6. ProgressInv' BY <2>1, <2>3, <2>4 DEF IInv, ProgressInv, input
  <2>. QED BY <2>2, <2>5, <2>6 DEF IInv
<1>. QED BY <1>1, <1>2, <1>3, <1>4 DEF Next

\* The decoder never takes a record behind one that ends the stream, and has
\* yielded what the body says up to where it is.
THEOREM Inductive == Spec => []IInv
<1>1. Init => IInv BY InitIInv
<1>2. IInv /\ [Next]_vars => IInv' BY StepIInv
<1>. QED BY <1>1, <1>2, PTL DEF Spec

\* Under every marker policy, JSON mode and completion policy, a stream yields the
\* readable payloads up to its marker or first fatal payload and nothing behind it,
\* and ends without an error only where its completion policy allows it
\* (decode_json_chunks_from_stream_with_limits).
THEOREM MeansItsPolicies == Spec => []StreamMeansItsPolicies
<1>1. IInv => StreamMeansItsPolicies BY DEF IInv
<1>. QED BY Inductive, <1>1, PTL
=============================================================================
