-------------------------- MODULE SseDecoderProofs --------------------------
(***************************************************************************)
(* Proofs about SseDecoder for every wire, limit and scan window, however   *)
(* the wire is cut into chunks.                                            *)
(***************************************************************************)
EXTENDS SseDecoder, FiniteSetTheorems, SequenceTheorems, WellFoundedInduction, TLAPS

\* A pending line is one of the first n behind the last blank one among them.
Pending(w, n) == {j \in 1..n : \A b \in j..n : LineText(w, b) # <<>>}
PendingOf(w, n, field) == {j \in Pending(w, n) : Says(w, j, field)}
PendingBytes(w, n) == UNION {Held(w, j) : j \in Pending(w, n) \ PendingOf(w, n, "c")}

IsLastOf(last, lines) == IF lines = {} THEN last = NoId ELSE last \in lines /\ \A j \in lines : j <= last

\* f is the frame decoder's view of the pending lines among the first n.
IsFrame(w, n, f) ==
  /\ f.data = Cardinality(PendingOf(w, n, "d")) /\ IsLastOf(f.id, PendingOf(w, n, "i"))
  /\ f.event = (PendingOf(w, n, "e") # {})
  /\ f.fields = (\E field \in {"d", "i", "e", "r"} : PendingOf(w, n, field) # {})
  /\ f.bytes = Cardinality(PendingBytes(w, n))

\* Lines whose identifier is in force after line n.
Committed(w, n) ==
  {j \in 1..n : Says(w, j, "i") /\ \E b \in j..n : b < LastLine(w) /\ LineText(w, b) = <<>>}

\* The collected line is what the bytes looked at hold behind the last line.
Collects(w, from, at) ==
  /\ from \in 1..(at + 1)
  /\ LineBytes(w, EndsBefore(w, at + 1) + 1, at) = from..at

LineInv ==
  /\ lineNo = EndsBefore(wire, scanned + 1)
  /\ pendingCr = (scanned > 0 /\ wire[scanned] = "cr")
  /\ \E from \in 1..(scanned + 1) :
       Collects(wire, from, scanned) /\ buffer = SubSeq(wire, from, scanned)

FrameInv ==
  /\ IsFrame(wire, lineNo, frame)
  /\ IsLastOf(lastId, Committed(wire, lineNo))
  /\ \A k \in 1..lineNo : ~Offends(wire, k)

IInv ==
  /\ TypeOK /\ (status = "running" => LineInv /\ FrameInv)
  /\ RecordsFollowLines /\ EndMatches

-----------------------------------------------------------------------------
(* Line ends.                                                              *)

\* Sets of positions or lines are finite.
LEMMA FinitePart ==
  ASSUME NEW n \in Nat, NEW S \in SUBSET (1..n)
  PROVE IsFiniteSet(S) /\ Cardinality(S) \in Nat
<1>1. IsFiniteSet(1..n) BY FS_Interval
<1>. QED BY <1>1, FS_Subset, FS_CardinalityType

\* Line ends are positions of the wire; how many there are before a position.
LEMMA EndsCount ==
  ASSUME NEW w \in Seq(Bytes), NEW i \in Nat
  PROVE /\ Len(w) \in Nat /\ LineEnds(w) \subseteq 1..Len(w)
        /\ EndsBefore(w, i) \in Nat /\ EndsBefore(w, i) < LastLine(w)
        /\ EndsBefore(w, i + 1) = IF i \in LineEnds(w) THEN EndsBefore(w, i) + 1 ELSE EndsBefore(w, i)
<1>. DEFINE before(n) == {e \in LineEnds(w) : e < n}
<1>1. Len(w) \in Nat /\ LineEnds(w) \subseteq 1..Len(w) BY DEF LineEnds
<1>2. IsFiniteSet(LineEnds(w)) /\ Cardinality(LineEnds(w)) \in Nat
  BY <1>1, FinitePart
<1>3. /\ IsFiniteSet(before(i)) /\ Cardinality(before(i)) \in Nat
      /\ Cardinality(before(i)) <= Cardinality(LineEnds(w))
  <2>1. before(i) \in SUBSET LineEnds(w) OBVIOUS
  <2>. QED BY <1>2, <2>1, FS_Subset, FS_CardinalityType
<1>4. before(i + 1) = IF i \in LineEnds(w) THEN before(i) \union {i} ELSE before(i)
  <2>1. \A e \in LineEnds(w) : e < i + 1 <=> e < i \/ e = i BY <1>1
  <2>. QED BY <2>1
<1>5. i \notin before(i) OBVIOUS
<1>6. Cardinality(before(i) \union {i}) = Cardinality(before(i)) + 1 BY <1>3, <1>5, FS_AddElement
<1>7. /\ EndsBefore(w, i) = Cardinality(before(i)) /\ EndsBefore(w, i + 1) = Cardinality(before(i + 1))
      /\ LastLine(w) = Cardinality(LineEnds(w)) + 1
  BY DEF EndsBefore, LastLine
<1>. HIDE DEF before
<1>. QED BY <1>1, <1>2, <1>3, <1>4, <1>6, <1>7

\* The count grows along the wire.
LEMMA EndsGrow ==
  ASSUME NEW w \in Seq(Bytes), NEW i \in Nat, NEW j \in Nat, i <= j
  PROVE /\ EndsBefore(w, i) <= EndsBefore(w, j)
        /\ (\A e \in i..(j - 1) : e \notin LineEnds(w)) => EndsBefore(w, j) = EndsBefore(w, i)
<1>. DEFINE before(n) == {e \in LineEnds(w) : e < n}
<1>1. LineEnds(w) \subseteq 1..Len(w) /\ Len(w) \in Nat BY EndsCount
<1>2. IsFiniteSet(before(j))
  <2>1. IsFiniteSet(LineEnds(w)) BY <1>1, FinitePart
  <2>2. before(j) \in SUBSET LineEnds(w) OBVIOUS
  <2>. QED BY <2>1, <2>2, FS_Subset
<1>3. before(i) \in SUBSET before(j) BY <1>1
<1>4. (\A e \in i..(j - 1) : e \notin LineEnds(w)) => before(j) = before(i) BY <1>1
<1>5. EndsBefore(w, i) = Cardinality(before(i)) /\ EndsBefore(w, j) = Cardinality(before(j)) BY DEF EndsBefore
<1>. QED BY <1>2, <1>3, <1>4, <1>5, FS_Subset

\* All ends are in the wire.
LEMMA EndsInWire ==
  ASSUME NEW w \in Seq(Bytes)
  PROVE EndsBefore(w, Len(w) + 1) + 1 = LastLine(w)
<1>1. Len(w) \in Nat /\ LineEnds(w) \subseteq 1..Len(w) BY EndsCount
<1>2. {e \in LineEnds(w) : e < Len(w) + 1} = LineEnds(w) BY <1>1
<1>. QED BY <1>2 DEF EndsBefore, LastLine

-----------------------------------------------------------------------------
(* Collecting a line.                                                      *)

\* Nothing but line bytes goes on with the line.
LEMMA CollectsRun ==
  ASSUME NEW w \in Seq(Bytes), NEW at \in Nat, NEW to \in Nat, at <= to, to <= Len(w),
         NEW from, Collects(w, from, at), \A i \in (at + 1)..to : w[i] \notin Terminators
  PROVE /\ EndsBefore(w, to + 1) = EndsBefore(w, at + 1)
        /\ Collects(w, from, to)
<1>1. \A i \in (at + 1)..to : i \notin LineEnds(w) BY DEF LineEnds
<1>2. \A i \in (at + 1)..(to + 1) : EndsBefore(w, i) = EndsBefore(w, at + 1)
  <2>. SUFFICES ASSUME NEW i \in (at + 1)..(to + 1) PROVE EndsBefore(w, i) = EndsBefore(w, at + 1)
    OBVIOUS
  <2>1. \A e \in (at + 1)..(i - 1) : e \notin LineEnds(w) BY <1>1
  <2>. QED BY <2>1, EndsGrow
<1>3. EndsBefore(w, at + 1) \in Nat /\ EndsBefore(w, to + 1) = EndsBefore(w, at + 1) BY <1>2, EndsCount
<1>. DEFINE k == EndsBefore(w, at + 1) + 1
<1>4. LineBytes(w, k, to) = LineBytes(w, k, at) \union (at + 1)..to
  <2>1. \A i \in 1..to : i \in 1..at \/ i \in (at + 1)..to OBVIOUS
  <2>2. \A i \in (at + 1)..to : i \in 1..to /\ w[i] \notin Terminators /\ EndsBefore(w, i) = k - 1 BY <1>2, <1>3
  <2>3. \A i \in 1..at : i \in 1..to OBVIOUS
  <2>. QED BY <2>1, <2>2, <2>3 DEF LineBytes
<1>5. from \in 1..(at + 1) /\ LineBytes(w, k, at) = from..at BY DEF Collects
<1>6. (from..at) \union (at + 1)..to = from..to BY <1>5
<1>7. LineBytes(w, EndsBefore(w, to + 1) + 1, to) = from..to BY <1>3, <1>4, <1>5, <1>6
<1>8. from \in 1..(to + 1) BY <1>5
<1>. QED BY <1>3, <1>7, <1>8 DEF Collects

\* The LF of a CRLF is in no line.
LEMMA CollectsSkip ==
  ASSUME NEW w \in Seq(Bytes), NEW at \in Nat, at > 0, at + 1 <= Len(w), w[at] = "cr", w[at + 1] = "lf",
         NEW from, Collects(w, from, at)
  PROVE /\ from = at + 1
        /\ EndsBefore(w, at + 2) = EndsBefore(w, at + 1)
        /\ Collects(w, at + 2, at + 1)
<1>. DEFINE k == EndsBefore(w, at + 1) + 1
<1>1. from \in 1..(at + 1) /\ LineBytes(w, k, at) = from..at BY DEF Collects
<1>2. at \notin LineBytes(w, k, at) /\ at + 1 \notin LineBytes(w, k, at + 1)
  BY DEF LineBytes, Terminators
<1>3. from = at + 1 BY <1>1, <1>2
<1>4. at + 1 \notin LineEnds(w) BY DEF LineEnds
<1>5. EndsBefore(w, at + 2) = EndsBefore(w, at + 1) BY <1>4, EndsCount, (at + 1) + 1 = at + 2
<1>6. \A i \in LineBytes(w, k, at + 1) : i \in LineBytes(w, k, at) BY <1>2 DEF LineBytes
<1>7. LineBytes(w, k, at) = {} BY <1>1, <1>3
<1>8. LineBytes(w, k, at + 1) = {} BY <1>6, <1>7
<1>9. (at + 2)..(at + 1) = {} /\ at + 2 \in 1..((at + 1) + 1) /\ (at + 1) + 1 = at + 2 OBVIOUS
<1>10. LineBytes(w, EndsBefore(w, (at + 1) + 1) + 1, at + 1) = {} BY <1>5, <1>8, <1>9
<1>. QED BY <1>3, <1>5, <1>9, <1>10 DEF Collects

\* A terminator that is not the LF of a CRLF ends the line, which is then whole.
LEMMA CollectsLine ==
  ASSUME NEW w \in Seq(Bytes), NEW at \in Nat, NEW p \in (at + 1)..Len(w), NEW from, Collects(w, from, at),
         \A i \in (at + 1)..(p - 1) : w[i] \notin Terminators, w[p] \in Terminators,
         ~(w[p] = "lf" /\ p = at + 1 /\ at > 0 /\ w[at] = "cr")
  PROVE /\ EndsBefore(w, p + 1) = EndsBefore(w, at + 1) + 1
        /\ Collects(w, p + 1, p)
        /\ EndsBefore(w, at + 1) + 1 < LastLine(w)
        /\ LineBytes(w, EndsBefore(w, at + 1) + 1, Len(w)) = from..(p - 1)
<1>. DEFINE k == EndsBefore(w, at + 1) + 1
<1>1. p \in Nat /\ p - 1 \in Nat /\ at <= p - 1 /\ p - 1 <= Len(w) /\ Len(w) \in Nat BY EndsCount
<1>2. EndsBefore(w, p) = k - 1 /\ Collects(w, from, p - 1) /\ k \in Nat
  <2>1. EndsBefore(w, (p - 1) + 1) = EndsBefore(w, at + 1) /\ Collects(w, from, p - 1)
    BY <1>1, CollectsRun
  <2>2. (p - 1) + 1 = p BY <1>1
  <2>3. EndsBefore(w, at + 1) \in Nat BY EndsCount
  <2>. QED BY <2>1, <2>2, <2>3
<1>3. p \in LineEnds(w)
  <2>1. ~(w[p] = "lf" /\ p > 1 /\ w[p - 1] = "cr")
    <3>1. CASE p = at + 1 BY <3>1
    <3>2. CASE p # at + 1
      <4>1. p - 1 \in (at + 1)..(p - 1) BY <1>1, <3>2
      <4>. QED BY <4>1 DEF Terminators
    <3>. QED BY <3>1, <3>2
  <2>. QED BY <1>1, <2>1 DEF LineEnds
<1>4. EndsBefore(w, p + 1) = k BY <1>1, <1>2, <1>3, EndsCount
<1>5. k < LastLine(w)
  <2>1. EndsBefore(w, p + 1) < LastLine(w) BY <1>1, EndsCount
  <2>. QED BY <1>4, <2>1
<1>6. \A i \in Nat : /\ i <= p => EndsBefore(w, i) <= k - 1
                     /\ i > p => EndsBefore(w, i) >= k
                     /\ EndsBefore(w, i) \in Nat
  <2>. SUFFICES ASSUME NEW i \in Nat
                PROVE /\ i <= p => EndsBefore(w, i) <= k - 1
                      /\ i > p => EndsBefore(w, i) >= k
                      /\ EndsBefore(w, i) \in Nat
    OBVIOUS
  <2>1. i <= p => EndsBefore(w, i) <= k - 1 BY <1>1, <1>2, EndsGrow
  <2>2. ASSUME i > p PROVE EndsBefore(w, i) >= k
    <3>1. p + 1 \in Nat /\ p + 1 <= i BY <1>1, <2>2
    <3>2. EndsBefore(w, p + 1) <= EndsBefore(w, i) BY <3>1, EndsGrow
    <3>3. EndsBefore(w, i) \in Nat BY EndsCount
    <3>. QED BY <1>2, <1>4, <3>2, <3>3
  <2>3. EndsBefore(w, i) \in Nat BY EndsCount
  <2>. QED BY <2>1, <2>2, <2>3
<1>7. LineBytes(w, k, Len(w)) = LineBytes(w, k, p - 1)
  <2>1. \A i \in 1..Len(w) : i \in 1..(p - 1) \/ i = p \/ i > p BY <1>1
  <2>2. \A i \in 1..Len(w) : i > p => EndsBefore(w, i) # k - 1 BY <1>1, <1>2, <1>6
  <2>3. \A i \in 1..(p - 1) : i \in 1..Len(w) BY <1>1
  <2>. QED BY <2>1, <2>2, <2>3 DEF LineBytes
<1>8. LineBytes(w, k, p - 1) = from..(p - 1)
  <2>1. (p - 1) + 1 = p BY <1>1
  <2>. QED BY <1>2, <2>1 DEF Collects
<1>9. LineBytes(w, k + 1, p) = (p + 1)..p
  <2>1. ASSUME NEW i \in 1..p PROVE EndsBefore(w, i) # (k + 1) - 1
    <3>1. i \in Nat /\ i <= p BY <1>1
    <3>2. EndsBefore(w, i) \in Nat /\ EndsBefore(w, i) <= k - 1 BY <1>6, <3>1
    <3>. HIDE DEF k
    <3>. QED BY <1>2, <3>2
  <2>2. LineBytes(w, k + 1, p) = {} BY <2>1 DEF LineBytes
  <2>3. (p + 1)..p = {} BY <1>1
  <2>. QED BY <2>2, <2>3
<1>. QED BY <1>1, <1>4, <1>5, <1>7, <1>8, <1>9 DEF Collects

\* At the end of the wire the line collected is the last one.
LEMMA CollectsLast ==
  ASSUME NEW w \in Seq(Bytes), NEW from, Collects(w, from, Len(w))
  PROVE /\ EndsBefore(w, Len(w) + 1) + 1 = LastLine(w)
        /\ LineBytes(w, LastLine(w), Len(w)) = from..Len(w)
BY EndsInWire DEF Collects

-----------------------------------------------------------------------------
(* The text of a line.                                                     *)

\* The byte order mark has three bytes, and is at the front of what it is a prefix of.
LEMMA BomTyped ==
  /\ Bom \in Seq(Bytes) /\ Len(Bom) = 3 /\ \A i \in 1..3 : Bom[i] = "bom"
  /\ \A w \in Seq(Bytes) : IsPrefix(Bom, w) <=> Len(w) >= 3 /\ SubSeq(w, 1, 3) = Bom
<1>1. Bom \in Seq(Bytes) /\ Len(Bom) = 3 /\ \A i \in 1..3 : Bom[i] = "bom" BY DEF Bom, Bytes
<1>2. SubSeq(Bom, 1, 3) = Bom
  <2>. HIDE DEF Bom
  <2>. QED BY <1>1, SubSeqFull
<1>3. \A w \in Seq(Bytes) : IsPrefix(Bom, w) <=> Len(w) >= 3 /\ SubSeq(w, 1, 3) = Bom
  <2>. HIDE DEF Bom
  <2>. QED BY <1>1, <1>2 DEF IsPrefix
<1>. QED BY <1>1, <1>3

\* The mark is in the bytes of the first line, and these begin the wire.
LEMMA FirstLine ==
  ASSUME NEW w \in Seq(Bytes)
  PROVE /\ EndsBefore(w, 1) = 0
        /\ Mark(w) \subseteq LineBytes(w, 1, Len(w))
        /\ \A i \in LineBytes(w, 1, Len(w)) : 1 \in LineBytes(w, 1, Len(w))
<1>1. Len(w) \in Nat /\ LineEnds(w) \subseteq 1..Len(w) BY EndsCount
<1>2. EndsBefore(w, 1) = 0
  <2>1. {e \in LineEnds(w) : e < 1} = {} BY <1>1
  <2>. QED BY <2>1, FS_EmptySet DEF EndsBefore
<1>3. ASSUME NEW i \in LineBytes(w, 1, Len(w)) PROVE 1 \in LineBytes(w, 1, Len(w))
  <2>1. i \in 1..Len(w) /\ EndsBefore(w, i) = 0 BY DEF LineBytes
  <2>2. CASE i = 1 BY <1>3, <2>2
  <2>3. CASE i # 1
    <3>1. 2 \in Nat /\ i \in Nat /\ 2 <= i /\ 1 \in 1..Len(w) BY <1>1, <2>1, <2>3
    <3>2. EndsBefore(w, 2) <= 0 BY <2>1, <3>1, EndsGrow
    <3>3. EndsBefore(w, 1 + 1) = IF 1 \in LineEnds(w) THEN EndsBefore(w, 1) + 1 ELSE EndsBefore(w, 1)
      BY EndsCount
    <3>4. 1 \notin LineEnds(w)
      <4>. SUFFICES ASSUME 1 \in LineEnds(w) PROVE FALSE OBVIOUS
      <4>1. EndsBefore(w, 2) = 1 BY <1>2, <3>3
      <4>. QED BY <3>2, <4>1
    <3>5. w[1] \notin Terminators BY <3>1, <3>4 DEF LineEnds
    <3>. QED BY <1>2, <3>1, <3>5 DEF LineBytes
  <2>. QED BY <2>2, <2>3
<1>4. ASSUME NEW i \in Mark(w) PROVE i \in LineBytes(w, 1, Len(w))
  <2>1. IsPrefix(Bom, w) /\ i \in 1..3 BY BomTyped DEF Mark
  <2>2. Len(w) >= 3 /\ SubSeq(w, 1, 3) = Bom BY <2>1, BomTyped
  <2>3. \A j \in 1..3 : w[j] = "bom"
    <3>1. \A j \in 1..3 : w[j] \in Bytes BY <1>1, <2>2, ElementOfSeq
    <3>2. \A j \in 1..3 : SubSeq(w, 1, 3)[j] = w[j] BY <3>1
    <3>. QED BY <2>2, <3>2, BomTyped
  <2>4. \A j \in 1..3 : w[j] \notin Terminators /\ j \notin LineEnds(w) BY <2>3 DEF Terminators, LineEnds
  <2>5. \A e \in 1..(i - 1) : e \notin LineEnds(w) BY <2>1, <2>4
  <2>6. EndsBefore(w, i) = 0 BY <1>2, <2>1, <2>5, EndsGrow
  <2>. QED BY <1>1, <2>1, <2>2, <2>4, <2>6 DEF LineBytes
<1>. QED BY <1>2, <1>3, <1>4

\* The text of an interval of positions.
LEMMA TextOf ==
  ASSUME NEW w \in Seq(Bytes), NEW to \in 0..Len(w), NEW from \in 1..(to + 1)
  PROVE /\ Text(w, from..to) = SubSeq(w, from, to)
        /\ IsFiniteSet(from..to) /\ Cardinality(from..to) = to - from + 1
        /\ SubSeq(w, from, to) \in Seq(Bytes) /\ Len(SubSeq(w, from, to)) = to - from + 1
<1>1. Len(w) \in Nat /\ to \in Nat /\ from \in Nat BY EndsCount
<1>2. CASE from > to
  <2>1. from..to = {} BY <1>1, <1>2
  <2>2. SubSeq(w, from, to) = <<>> BY <1>1, <1>2, SubSeqEmpty
  <2>. QED BY <1>1, <1>2, <2>1, <2>2, FS_EmptySet DEF Text
<1>3. CASE from <= to
  <2>1. Min(from..to) = from
    <3>1. from \in from..to /\ \A y \in from..to : from <= y BY <1>1, <1>3
    <3>2. \A x \in from..to : (\A y \in from..to : x <= y) => x = from BY <1>1, <3>1
    <3>. QED BY <3>1, <3>2 DEF Min
  <2>2. Max(from..to) = to
    <3>1. to \in from..to /\ \A y \in from..to : to >= y BY <1>1, <1>3
    <3>2. \A x \in from..to : (\A y \in from..to : x >= y) => x = to BY <1>1, <3>1
    <3>. QED BY <3>1, <3>2 DEF Max
  <2>3. from \in from..to BY <1>1, <1>3
  <2>4. \A i \in from..to : w[i] \in Bytes BY <1>1, ElementOfSeq
  <2>5. SubSeq(w, from, to) \in Seq(Bytes) /\ Len(SubSeq(w, from, to)) = to - from + 1
    BY <1>1, <1>3, <2>4, SubSeqProperties
  <2>6. IsFiniteSet(from..to) /\ Cardinality(from..to) = to - from + 1
    <3>1. from \in Int /\ to \in Int /\ ~(from > to) BY <1>1, <1>3
    <3>. QED BY <3>1, FS_Interval
  <2>. QED BY <2>1, <2>2, <2>3, <2>5, <2>6 DEF Text
<1>. QED BY <1>1, <1>2, <1>3

Stripped(k, bytes) == IF k = 1 /\ IsPrefix(Bom, bytes) THEN SubSeq(bytes, Len(Bom) + 1, Len(bytes)) ELSE bytes

\* A line whose bytes are from..to reads as these bytes without the mark.
LEMMA WholeLine ==
  ASSUME NEW w \in Seq(Bytes), NEW k \in Nat, NEW to \in 0..Len(w), NEW from \in 1..(to + 1),
         LineBytes(w, k, Len(w)) = from..to
  PROVE /\ LineText(w, k) = Stripped(k, SubSeq(w, from, to))
        /\ LineText(w, k) \in Seq(Bytes)
        /\ IsFiniteSet(Held(w, k)) /\ Cardinality(Held(w, k)) = Len(LineText(w, k))
        /\ to - from + 1 <= Len(LineText(w, k)) + IF k = 1 THEN Len(Bom) ELSE 0
<1>. DEFINE raw == SubSeq(w, from, to)
<1>1. Len(w) \in Nat /\ to \in Nat /\ from \in Nat /\ to <= Len(w) BY EndsCount
<1>2. raw \in Seq(Bytes) /\ Len(raw) = to - from + 1 /\ \A i \in 1..Len(raw) : raw[i] = w[from + i - 1]
  <2>1. \A i \in from..to : w[i] \in Bytes BY <1>1, ElementOfSeq
  <2>. QED BY <1>1, <2>1, TextOf, SubSeqProperties
<1>3. CASE k = 1 /\ IsPrefix(Bom, raw)
  <2>1. Len(raw) >= 3 /\ SubSeq(raw, 1, 3) = Bom BY <1>2, <1>3, BomTyped
  <2>2. from = 1 /\ to >= 3 /\ Len(raw) = to
    <3>1. from <= to BY <1>1, <1>2, <2>1
    <3>2. from \in LineBytes(w, 1, Len(w)) BY <1>1, <1>3, <3>1
    <3>3. 1 \in from..to BY <1>3, <3>2, FirstLine
    <3>. QED BY <1>1, <1>2, <2>1, <3>3
  <2>3. SubSeq(w, 1, 3) = Bom BY <1>1, <2>1, <2>2, SubSeqOfSubSeq
  <2>4. Mark(w) = 1..3 BY <1>1, <2>2, <2>3, BomTyped DEF Mark
  <2>5. Held(w, k) = 4..to
    <3>1. Held(w, k) = (1..to) \ 1..3 BY <2>2, <2>4 DEF Held
    <3>. QED BY <1>1, <2>2, <3>1
  <2>6. SubSeq(raw, 4, Len(raw)) = SubSeq(w, 4, to)
    <3>1. CASE to = 3
      <4>1. SubSeq(raw, 4, 3) = <<>> /\ SubSeq(w, 4, 3) = <<>> BY SubSeqEmpty
      <4>. QED BY <2>2, <3>1, <4>1
    <3>2. CASE to > 3 BY <1>1, <2>2, <3>2, SubSeqOfSubSeq
    <3>. QED BY <1>1, <2>2, <3>1, <3>2
  <2>7. 4 \in 1..(to + 1) BY <1>1, <2>2
  <2>8. /\ Text(w, 4..to) = SubSeq(w, 4, to) /\ SubSeq(w, 4, to) \in Seq(Bytes)
        /\ IsFiniteSet(4..to) /\ Cardinality(4..to) = to - 3 /\ Len(SubSeq(w, 4, to)) = to - 3
    <3>1. to - 4 + 1 = to - 3 BY <1>1
    <3>. QED BY <2>7, <3>1, TextOf
  <2>9. Stripped(k, raw) = SubSeq(raw, 4, Len(raw)) BY <1>3, BomTyped DEF Stripped
  <2>10. LineText(w, k) = SubSeq(w, 4, to) BY <2>5, <2>8 DEF LineText
  <2>11. LineText(w, k) = Stripped(k, raw) BY <2>6, <2>9, <2>10
  <2>12. to - from + 1 <= (to - 3) + IF k = 1 THEN Len(Bom) ELSE 0 BY <1>1, <1>3, <2>2, BomTyped
  <2>. QED BY <2>5, <2>8, <2>10, <2>11, <2>12
<1>4. CASE ~(k = 1 /\ IsPrefix(Bom, raw))
  <2>1. \A i \in Mark(w) : i \notin from..to
    <3>. SUFFICES ASSUME NEW i \in Mark(w), i \in from..to PROVE FALSE OBVIOUS
    <3>1. i \in LineBytes(w, 1, Len(w)) /\ i \in LineBytes(w, k, Len(w)) BY FirstLine
    <3>2. k = 1 BY <3>1 DEF LineBytes
    <3>3. Mark(w) = 1..3 /\ Len(w) >= 3 /\ SubSeq(w, 1, 3) = Bom BY BomTyped DEF Mark
    <3>4. 1..3 \subseteq from..to BY <3>2, <3>3, FirstLine
    <3>5. from = 1 /\ to >= 3 BY <1>1, <3>4
    <3>6. SubSeq(raw, 1, 3) = SubSeq(w, 1, 3) BY <1>1, <3>5, SubSeqOfSubSeq
    <3>7. IsPrefix(Bom, raw)
      <4>1. Len(raw) >= 3 BY <1>1, <1>2, <3>5
      <4>2. SubSeq(raw, 1, 3) = Bom BY <3>3, <3>6
      <4>. HIDE DEF raw
      <4>. QED BY <1>2, <4>1, <4>2, BomTyped
    <3>. QED BY <1>4, <3>2, <3>7
  <2>2. Held(w, k) = from..to BY <2>1 DEF Held
  <2>3. Stripped(k, raw) = raw BY <1>4 DEF Stripped
  <2>4. /\ Text(w, from..to) = raw
        /\ IsFiniteSet(from..to) /\ Cardinality(from..to) = to - from + 1
    BY TextOf
  <2>5. LineText(w, k) = raw BY <2>2, <2>4 DEF LineText
  <2>6. to - from + 1 <= (to - from + 1) + IF k = 1 THEN Len(Bom) ELSE 0 BY <1>1, BomTyped
  <2>. HIDE DEF raw
  <2>7. LineText(w, k) = Stripped(k, raw) /\ LineText(w, k) \in Seq(Bytes) BY <1>2, <2>3, <2>5
  <2>8. Len(LineText(w, k)) = to - from + 1 BY <1>2, <2>5
  <2>9. IsFiniteSet(Held(w, k)) /\ Cardinality(Held(w, k)) = Len(LineText(w, k)) BY <2>2, <2>4, <2>8
  <2>. QED BY <2>6, <2>7, <2>8, <2>9 DEF raw
<1>. QED BY <1>3, <1>4

\* A set of numbers has a least one.
LEMMA LeastExists ==
  ASSUME NEW S \in SUBSET Nat, S # {}
  PROVE \E m \in S : \A y \in S : m <= y
<1>1. PICK m \in S : \A y \in S : ~(<<y, m>> \in OpToRel(<, Nat))
  BY NatLessThanWellFounded, WFMin
<1>2. \A y \in S : ~(y < m) BY <1>1 DEF OpToRel
<1>. QED BY <1>2

\* A line under way goes on to its end, which the wire or a terminator makes.
LEMMA LineGoesOn ==
  ASSUME NEW w \in Seq(Bytes), NEW to \in 1..Len(w), w[to] \notin Terminators, NEW from, Collects(w, from, to)
  PROVE /\ EndsBefore(w, to + 1) + 1 \in 1..LastLine(w)
        /\ \E last \in to..Len(w) : LineBytes(w, EndsBefore(w, to + 1) + 1, Len(w)) = from..last
<1>. DEFINE later == {i \in (to + 1)..Len(w) : w[i] \in Terminators}
            k == EndsBefore(w, to + 1) + 1
<1>1. to \in Nat /\ Len(w) \in Nat /\ to <= Len(w) BY EndsCount
<1>2. k \in 1..LastLine(w)
  <2>1. EndsBefore(w, to + 1) \in Nat /\ EndsBefore(w, to + 1) < LastLine(w) BY <1>1, EndsCount
  <2>2. LastLine(w) \in Nat
    <3>1. LineEnds(w) \in SUBSET (1..Len(w)) BY EndsCount
    <3>2. Cardinality(LineEnds(w)) \in Nat BY <1>1, <3>1, FinitePart
    <3>. QED BY <3>2 DEF LastLine
  <2>. QED BY <2>1, <2>2
<1>3. CASE later = {}
  <2>1. \A i \in (to + 1)..Len(w) : w[i] \notin Terminators BY <1>3
  <2>2. EndsBefore(w, Len(w) + 1) = EndsBefore(w, to + 1) /\ Collects(w, from, Len(w))
    BY <1>1, <2>1, CollectsRun
  <2>3. LineBytes(w, k, Len(w)) = from..Len(w) BY <2>2 DEF Collects
  <2>4. Len(w) \in to..Len(w) BY <1>1
  <2>. QED BY <1>2, <2>3, <2>4
<1>4. CASE later # {}
  <2>1. PICK p \in later : \A y \in later : p <= y
    <3>1. later \in SUBSET Nat BY <1>1
    <3>. QED BY <1>4, <3>1, LeastExists
  <2>2. p \in (to + 1)..Len(w) /\ w[p] \in Terminators /\ to # p - 1 + 1 BY <1>1, <2>1
  <2>3. \A i \in (to + 1)..(p - 1) : w[i] \notin Terminators BY <1>1, <2>1
  <2>4. w[to] # "cr" BY DEF Terminators
  <2>5. LineBytes(w, k, Len(w)) = from..(p - 1) BY <1>1, <2>2, <2>3, <2>4, CollectsLine
  <2>6. p - 1 \in to..Len(w) BY <1>1, <2>2
  <2>. QED BY <1>2, <2>5, <2>6
<1>. QED BY <1>3, <1>4

-----------------------------------------------------------------------------
(* Frames.                                                                 *)

\* A line joins the frame of the lines pending before it.
LEMMA FrameGrows ==
  ASSUME NEW w, NEW n \in Nat
  PROVE /\ FrameLines(w, n + 1) = Pending(w, n) \union {n + 1}
        /\ Pending(w, n + 1) = IF LineText(w, n + 1) = <<>> THEN {} ELSE FrameLines(w, n + 1)
        /\ Pending(w, n) \subseteq 1..n
        /\ \A field : Of(w, n + 1, field) = PendingOf(w, n, field) \union IF Says(w, n + 1, field) THEN {n + 1} ELSE {}
        /\ \A field : PendingOf(w, n + 1, field) = IF LineText(w, n + 1) = <<>> THEN {} ELSE Of(w, n + 1, field)
        /\ FrameBytes(w, n + 1) = PendingBytes(w, n) \union IF Says(w, n + 1, "c") THEN {} ELSE Held(w, n + 1)
        /\ PendingBytes(w, n + 1) = IF LineText(w, n + 1) = <<>> THEN {} ELSE FrameBytes(w, n + 1)
<1>0. (n + 1) - 1 = n /\ n + 1 \in 1..(n + 1) /\ 1..(n + 1) = 1..n \union {n + 1} /\ n + 1 \notin 1..n OBVIOUS
<1>1. FrameLines(w, n + 1) = Pending(w, n) \union {n + 1}
  <2>1. \A b \in (n + 1)..n : FALSE OBVIOUS
  <2>. QED BY <1>0, <2>1 DEF FrameLines, Pending
<1>2. Pending(w, n + 1) = IF LineText(w, n + 1) = <<>> THEN {} ELSE FrameLines(w, n + 1)
  <2>1. \A j \in 1..(n + 1) : j..(n + 1) = j..n \union {n + 1} OBVIOUS
  <2>2. CASE LineText(w, n + 1) = <<>>
    <3>1. \A j \in 1..(n + 1) : n + 1 \in j..(n + 1) OBVIOUS
    <3>. QED BY <2>2, <3>1 DEF Pending
  <2>3. CASE LineText(w, n + 1) # <<>> BY <1>0, <2>1, <2>3 DEF Pending, FrameLines
  <2>. QED BY <2>2, <2>3
<1>3. Pending(w, n) \subseteq 1..n BY DEF Pending
<1>4. \A field : Of(w, n + 1, field) = PendingOf(w, n, field) \union IF Says(w, n + 1, field) THEN {n + 1} ELSE {}
  BY <1>1 DEF Of, PendingOf
<1>5. \A field : PendingOf(w, n + 1, field) = IF LineText(w, n + 1) = <<>> THEN {} ELSE Of(w, n + 1, field)
  BY <1>2 DEF Of, PendingOf
<1>6. FrameBytes(w, n + 1) = PendingBytes(w, n) \union IF Says(w, n + 1, "c") THEN {} ELSE Held(w, n + 1)
  <2>1. FrameLines(w, n + 1) \ Of(w, n + 1, "c") =
          (Pending(w, n) \ PendingOf(w, n, "c")) \union IF Says(w, n + 1, "c") THEN {} ELSE {n + 1}
    BY <1>0, <1>1, <1>3, <1>4 DEF PendingOf
  <2>. QED BY <2>1 DEF FrameBytes, PendingBytes
<1>7. PendingBytes(w, n + 1) = IF LineText(w, n + 1) = <<>> THEN {} ELSE FrameBytes(w, n + 1)
  BY <1>2, <1>5 DEF PendingBytes, FrameBytes
<1>. QED BY <1>1, <1>2, <1>3, <1>4, <1>5, <1>6, <1>7

\* The latest line of a set is its maximum.
LEMMA LastOfIs ==
  ASSUME NEW S \in SUBSET Nat, NEW last, IsLastOf(last, S)
  PROVE LastOf(S) = last
<1>1. CASE S = {} BY <1>1 DEF IsLastOf, LastOf
<1>2. CASE S # {}
  <2>1. last \in S /\ \A j \in S : last >= j BY <1>2 DEF IsLastOf
  <2>2. \A x \in S : (\A y \in S : x >= y) => x = last BY <2>1
  <2>3. Max(S) = last BY <2>1, <2>2 DEF Max
  <2>. QED BY <1>2, <2>3 DEF LastOf
<1>. QED BY <1>1, <1>2

\* What a frame holds with one line more.
LEMMA FrameWithLine ==
  ASSUME NEW w \in Seq(Bytes), NEW n \in Nat, NEW f, IsFrame(w, n, f),
         LineText(w, n + 1) \in Seq(Bytes),
         IsFiniteSet(Held(w, n + 1)), Cardinality(Held(w, n + 1)) = Len(LineText(w, n + 1))
  PROVE /\ f.data \in Nat /\ f.bytes \in Nat /\ f.id \in Nat /\ (f.id = NoId <=> PendingOf(w, n, "i") = {})
        /\ Cardinality(Of(w, n + 1, "d")) = IF Says(w, n + 1, "d") THEN f.data + 1 ELSE f.data
        /\ IsLastOf(IF Says(w, n + 1, "i") THEN n + 1 ELSE f.id, Of(w, n + 1, "i"))
        /\ (Of(w, n + 1, "e") # {}) = (f.event \/ Says(w, n + 1, "e"))
        /\ (\E field \in {"d", "i", "e", "r"} : Of(w, n + 1, field) # {})
             = (f.fields \/ \E field \in {"d", "i", "e", "r"} : Says(w, n + 1, field))
        /\ Cardinality(FrameBytes(w, n + 1)) = f.bytes + Counted(LineText(w, n + 1))
<1>1. /\ \A field : Of(w, n + 1, field) = PendingOf(w, n, field) \union IF Says(w, n + 1, field) THEN {n + 1} ELSE {}
      /\ \A field : PendingOf(w, n, field) \subseteq 1..n
      /\ FrameBytes(w, n + 1) = PendingBytes(w, n) \union IF Says(w, n + 1, "c") THEN {} ELSE Held(w, n + 1)
  BY FrameGrows DEF PendingOf
<1>2. Len(w) \in Nat BY EndsCount
<1>3. f.data \in Nat /\ Cardinality(Of(w, n + 1, "d")) = IF Says(w, n + 1, "d") THEN f.data + 1 ELSE f.data
  <2>. DEFINE pending == PendingOf(w, n, "d")
  <2>1. IsFiniteSet(pending) /\ Cardinality(pending) \in Nat /\ n + 1 \notin pending
    <3>1. pending \in SUBSET (1..n) BY <1>1
    <3>2. IsFiniteSet(pending) /\ Cardinality(pending) \in Nat
      <4>. HIDE DEF pending
      <4>. QED BY <3>1, FinitePart
    <3>. QED BY <3>1, <3>2
  <2>2. Cardinality(pending \union {n + 1}) = Cardinality(pending) + 1 BY <2>1, FS_AddElement
  <2>3. f.data = Cardinality(pending) BY DEF IsFrame
  <2>4. Of(w, n + 1, "d") = IF Says(w, n + 1, "d") THEN pending \union {n + 1} ELSE pending BY <1>1
  <2>. HIDE DEF pending
  <2>. QED BY <2>1, <2>2, <2>3, <2>4
<1>4. /\ f.id \in Nat /\ (f.id = NoId <=> PendingOf(w, n, "i") = {})
      /\ IsLastOf(IF Says(w, n + 1, "i") THEN n + 1 ELSE f.id, Of(w, n + 1, "i"))
  <2>1. IsLastOf(f.id, PendingOf(w, n, "i")) BY DEF IsFrame
  <2>2. PendingOf(w, n, "i") \subseteq 1..n BY <1>1
  <2>3. Of(w, n + 1, "i") = PendingOf(w, n, "i") \union IF Says(w, n + 1, "i") THEN {n + 1} ELSE {} BY <1>1
  <2>. QED BY <2>1, <2>2, <2>3 DEF IsLastOf, NoId
<1>5. /\ (Of(w, n + 1, "e") # {}) = (f.event \/ Says(w, n + 1, "e"))
      /\ (\E field \in {"d", "i", "e", "r"} : Of(w, n + 1, field) # {})
             = (f.fields \/ \E field \in {"d", "i", "e", "r"} : Says(w, n + 1, field))
  <2>1. /\ f.event = (PendingOf(w, n, "e") # {})
        /\ f.fields = (\E field \in {"d", "i", "e", "r"} : PendingOf(w, n, field) # {})
    BY DEF IsFrame
  <2>2. \A field : Of(w, n + 1, field) # {} <=> PendingOf(w, n, field) # {} \/ Says(w, n + 1, field) BY <1>1
  <2>. QED BY <2>1, <2>2
<1>6. f.bytes \in Nat /\ Cardinality(FrameBytes(w, n + 1)) = f.bytes + Counted(LineText(w, n + 1))
  <2>. DEFINE pending == PendingBytes(w, n)
              held == Held(w, n + 1)
              text == LineText(w, n + 1)
  <2>1. IsFiniteSet(pending) /\ Cardinality(pending) \in Nat
    <3>1. pending \in SUBSET (1..Len(w)) BY DEF PendingBytes, Held, LineBytes
    <3>. QED BY <1>2, <3>1, FinitePart
  <2>2. pending \intersect held = {}
    <3>. SUFFICES ASSUME NEW i \in pending, i \in held PROVE FALSE OBVIOUS
    <3>1. PICK j \in Pending(w, n) : i \in Held(w, j) BY DEF PendingBytes
    <3>2. j \in 1..n BY <3>1 DEF Pending
    <3>3. EndsBefore(w, i) = j - 1 /\ EndsBefore(w, i) = (n + 1) - 1 BY <3>1 DEF Held, LineBytes
    <3>. QED BY <3>2, <3>3
  <2>3. f.bytes = Cardinality(pending) BY DEF IsFrame
  <2>4. FrameBytes(w, n + 1) = IF Says(w, n + 1, "c") THEN pending ELSE pending \union held BY <1>1
  <2>5. Says(w, n + 1, "c") <=> IsComment(text) BY DEF Says, IsComment
  <2>6. Counted(text) = (IF Says(w, n + 1, "c") THEN 0 ELSE Len(text)) /\ Len(text) \in Nat
    <3>1. text = <<>> => Len(text) = 0 OBVIOUS
    <3>2. Len(text) \in Nat OBVIOUS
    <3>. QED BY <2>5, <3>1, <3>2 DEF Counted, IsBlank, IsComment
  <2>7. Cardinality(pending \union held) = Cardinality(pending) + Cardinality(held)
    <3>1. Cardinality({}) = 0 BY FS_EmptySet
    <3>2. IsFiniteSet(held) /\ Cardinality(held) \in Nat BY FS_CardinalityType
    <3>. HIDE DEF pending, held
    <3>3. Cardinality(pending \union held) = Cardinality(pending) + Cardinality(held) - Cardinality(pending \intersect held)
      BY <2>1, <3>2, FS_Union
    <3>4. Cardinality(pending \intersect held) = 0 BY <2>2, <3>1
    <3>. QED BY <2>1, <3>2, <3>3, <3>4
  <2>. HIDE DEF pending, held, text
  <2>. QED BY <2>1, <2>3, <2>4, <2>6, <2>7 DEF held, text
<1>. QED BY <1>3, <1>4, <1>5, <1>6

Fields(f, line, number) ==
  [f EXCEPT
     !.id = IF line[1] = "i" THEN number ELSE @,
     !.data = IF line[1] = "d" THEN @ + 1 ELSE @,
     !.event = @ \/ line[1] = "e",
     !.fields = @ \/ line[1] \in {"d", "i", "e", "r"},
     !.bytes = @ + Len(line)]

Frames == [id : Nat, data : Nat, event : BOOLEAN, fields : BOOLEAN, bytes : Nat]

\* A field adds to the frame what it says.
LEMMA FieldJoins ==
  ASSUME NEW w \in Seq(Bytes), NEW n \in Nat, NEW f \in Frames, IsFrame(w, n, f),
         NEW line, line = LineText(w, n + 1), line \in Seq(Bytes), line # <<>>, line[1] # "c",
         IsFiniteSet(Held(w, n + 1)), Cardinality(Held(w, n + 1)) = Len(line)
  PROVE IsFrame(w, n + 1, Fields(f, line, n + 1)) /\ Fields(f, line, n + 1) \in Frames
<1>. DEFINE g == Fields(f, line, n + 1)
<1>1. Len(line) \in Nat OBVIOUS
<1>2. /\ g.id = (IF line[1] = "i" THEN n + 1 ELSE f.id) /\ g.data = (IF line[1] = "d" THEN f.data + 1 ELSE f.data)
      /\ g.event = (f.event \/ line[1] = "e") /\ g.fields = (f.fields \/ line[1] \in {"d", "i", "e", "r"})
      /\ g.bytes = f.bytes + Len(line) /\ g \in Frames
  <2>1. DOMAIN f = {"id", "data", "event", "fields", "bytes"} /\ f.event \in BOOLEAN /\ f.fields \in BOOLEAN BY DEF Frames
  <2>2. g.id = (IF line[1] = "i" THEN n + 1 ELSE f.id) BY <2>1 DEF Fields
  <2>3. g.data = (IF line[1] = "d" THEN f.data + 1 ELSE f.data) BY <2>1 DEF Fields
  <2>4. g.event = (f.event \/ line[1] = "e") BY <2>1, Zenon DEF Fields
  <2>5. g.fields = (f.fields \/ line[1] \in {"d", "i", "e", "r"}) BY <2>1, Zenon DEF Fields
  <2>6. g.bytes = f.bytes + Len(line) BY <2>1 DEF Fields
  <2>7. g \in Frames
    <3>. DEFINE id == IF line[1] = "i" THEN n + 1 ELSE f.id
                data == IF line[1] = "d" THEN f.data + 1 ELSE f.data
                event == f.event \/ line[1] = "e"
                fields == f.fields \/ line[1] \in {"d", "i", "e", "r"}
                bytes == f.bytes + Len(line)
    <3>1. id \in Nat /\ data \in Nat /\ bytes \in Nat BY <1>1 DEF Frames
    <3>2. event \in BOOLEAN /\ fields \in BOOLEAN OBVIOUS
    <3>3. g = [f EXCEPT !.id = id, !.data = data, !.event = event, !.fields = fields, !.bytes = bytes]
      BY DEF Fields
    <3>. HIDE DEF g, id, data, event, fields, bytes
    <3>. QED BY <3>1, <3>2, <3>3 DEF Frames
  <2>. QED BY <2>2, <2>3, <2>4, <2>5, <2>6, <2>7
<1>3. \A field : Says(w, n + 1, field) <=> line[1] = field BY DEF Says
<1>4. Counted(line) = Len(line) BY DEF Counted, IsBlank, IsComment
<1>5. \A field : PendingOf(w, n + 1, field) = Of(w, n + 1, field) BY FrameGrows
<1>6. PendingBytes(w, n + 1) = FrameBytes(w, n + 1) BY FrameGrows
<1>7. /\ Cardinality(Of(w, n + 1, "d")) = IF Says(w, n + 1, "d") THEN f.data + 1 ELSE f.data
      /\ IsLastOf(IF Says(w, n + 1, "i") THEN n + 1 ELSE f.id, Of(w, n + 1, "i"))
      /\ (Of(w, n + 1, "e") # {}) = (f.event \/ Says(w, n + 1, "e"))
      /\ (\E field \in {"d", "i", "e", "r"} : Of(w, n + 1, field) # {})
           = (f.fields \/ \E field \in {"d", "i", "e", "r"} : Says(w, n + 1, field))
      /\ Cardinality(FrameBytes(w, n + 1)) = f.bytes + Counted(LineText(w, n + 1))
  BY FrameWithLine
<1>. HIDE DEF g
<1>8. g.data = Cardinality(PendingOf(w, n + 1, "d")) BY <1>2, <1>3, <1>5, <1>7
<1>9. IsLastOf(g.id, PendingOf(w, n + 1, "i")) BY <1>2, <1>3, <1>5, <1>7
<1>10. g.event = (PendingOf(w, n + 1, "e") # {}) BY <1>2, <1>3, <1>5, <1>7
<1>11. g.fields = (\E field \in {"d", "i", "e", "r"} : PendingOf(w, n + 1, field) # {})
  BY <1>2, <1>3, <1>5, <1>7
<1>12. g.bytes = Cardinality(PendingBytes(w, n + 1)) BY <1>2, <1>4, <1>6, <1>7
<1>. QED BY <1>2, <1>8, <1>9, <1>10, <1>11, <1>12 DEF IsFrame, g

\* A comment adds nothing.
LEMMA CommentJoins ==
  ASSUME NEW w \in Seq(Bytes), NEW n \in Nat, NEW f, IsFrame(w, n, f), Says(w, n + 1, "c")
  PROVE IsFrame(w, n + 1, f)
<1>1. LineText(w, n + 1) # <<>> BY DEF Says
<1>2. \A field \in {"d", "i", "e", "r"} : ~Says(w, n + 1, field) BY DEF Says
<1>3. \A field \in {"d", "i", "e", "r"} : PendingOf(w, n + 1, field) = PendingOf(w, n, field)
  <2>. SUFFICES ASSUME NEW field \in {"d", "i", "e", "r"}
                PROVE PendingOf(w, n + 1, field) = PendingOf(w, n, field)
    OBVIOUS
  <2>1. PendingOf(w, n + 1, field) = Of(w, n + 1, field) BY <1>1, FrameGrows
  <2>2. Of(w, n + 1, field) = PendingOf(w, n, field) \union {} BY <1>2, FrameGrows
  <2>. QED BY <2>1, <2>2
<1>4. PendingBytes(w, n + 1) = PendingBytes(w, n)
  <2>1. PendingBytes(w, n + 1) = FrameBytes(w, n + 1) BY <1>1, FrameGrows
  <2>2. FrameBytes(w, n + 1) = PendingBytes(w, n) \union {} BY FrameGrows
  <2>. QED BY <2>1, <2>2
<1>. QED BY <1>3, <1>4 DEF IsFrame

\* A blank line leaves an empty frame.
LEMMA BlankEmpties ==
  ASSUME NEW w \in Seq(Bytes), NEW n \in Nat, NEW f \in Frames, IsFrame(w, n, f), LineText(w, n + 1) = <<>>
  PROVE IsFrame(w, n + 1, IF f.fields THEN EmptyFrame ELSE [f EXCEPT !.bytes = 0])
<1>. DEFINE g == IF f.fields THEN EmptyFrame ELSE [f EXCEPT !.bytes = 0]
<1>1. (\A field : PendingOf(w, n + 1, field) = {}) /\ PendingBytes(w, n + 1) = {} BY FrameGrows
<1>2. Cardinality({}) = 0 BY FS_EmptySet
<1>3. ~f.fields => f.id = 0 /\ f.data = 0 /\ f.event = FALSE
  <2>. SUFFICES ASSUME ~f.fields PROVE f.id = 0 /\ f.data = 0 /\ f.event = FALSE OBVIOUS
  <2>1. PendingOf(w, n, "i") = {} /\ PendingOf(w, n, "d") = {} /\ PendingOf(w, n, "e") = {} BY DEF IsFrame
  <2>. QED BY <1>2, <2>1 DEF IsFrame, IsLastOf, NoId
<1>4. g.id = 0 /\ g.data = 0 /\ g.event = FALSE /\ g.fields = FALSE /\ g.bytes = 0
  BY <1>3 DEF EmptyFrame, Frames, NoId
<1>. HIDE DEF g
<1>5. IsFrame(w, n + 1, g) BY <1>1, <1>2, <1>4 DEF IsFrame, IsLastOf, NoId
<1>. QED BY <1>5 DEF g

\* A blank line commits the identifier of its frame, if it has one; other lines
\* commit none.
LEMMA Commits ==
  ASSUME NEW w \in Seq(Bytes), NEW n \in Nat, NEW f, IsFrame(w, n, f), f.id \in Nat,
         NEW last, IsLastOf(last, Committed(w, n)), n + 1 < LastLine(w), LastLine(w) \in Nat
  PROVE /\ LineText(w, n + 1) # <<>> => IsLastOf(last, Committed(w, n + 1))
        /\ LineText(w, n + 1) = <<>> => IsLastOf(IF f.id # NoId THEN f.id ELSE last, Committed(w, n + 1))
<1>. DEFINE pending == PendingOf(w, n, "i")
<1>0. 1..(n + 1) = 1..n \union {n + 1} /\ n + 1 \notin 1..n OBVIOUS
<1>1. ASSUME LineText(w, n + 1) # <<>> PROVE Committed(w, n + 1) = Committed(w, n)
  <2>1. \A j \in 1..n : j..(n + 1) = j..n \union {n + 1} OBVIOUS
  <2>2. (n + 1)..(n + 1) = {n + 1} OBVIOUS
  <2>. QED BY <1>0, <1>1, <2>1, <2>2 DEF Committed
<1>2. ASSUME LineText(w, n + 1) = <<>> PROVE Committed(w, n + 1) = Committed(w, n) \union pending
  <2>1. \A j \in 1..(n + 1) : n + 1 \in j..(n + 1) OBVIOUS
  <2>2. Committed(w, n + 1) = {j \in 1..n : Says(w, j, "i")} BY <1>0, <1>2, <2>1 DEF Committed, Says
  <2>3. ASSUME NEW j \in 1..n, Says(w, j, "i") PROVE j \in Committed(w, n) \/ j \in pending
    <3>1. CASE \A b \in j..n : LineText(w, b) # <<>> BY <2>3, <3>1 DEF PendingOf, Pending
    <3>2. CASE \E b \in j..n : LineText(w, b) = <<>>
      <4>1. \A b \in j..n : b < LastLine(w) OBVIOUS
      <4>. QED BY <2>3, <3>2, <4>1 DEF Committed
    <3>. QED BY <3>1, <3>2
  <2>4. \A j \in Committed(w, n) \union pending : j \in 1..n /\ Says(w, j, "i")
    BY DEF Committed, PendingOf, Pending
  <2>. QED BY <2>2, <2>3, <2>4
<1>3. \A j \in Committed(w, n), p \in pending : j < p
  <2>. SUFFICES ASSUME NEW j \in Committed(w, n), NEW p \in pending PROVE j < p OBVIOUS
  <2>1. PICK b \in j..n : LineText(w, b) = <<>> BY DEF Committed
  <2>2. j \in 1..n /\ p \in 1..n /\ \A c \in p..n : LineText(w, c) # <<>> BY DEF Committed, PendingOf, Pending
  <2>3. b \notin p..n BY <2>1, <2>2
  <2>. QED BY <2>1, <2>2, <2>3
<1>4. IsLastOf(f.id, pending) /\ pending \subseteq 1..n /\ Committed(w, n) \subseteq 1..n
  BY DEF IsFrame, PendingOf, Pending, Committed
<1>5. CASE LineText(w, n + 1) # <<>> BY <1>1, <1>5
<1>6. CASE LineText(w, n + 1) = <<>>
  <2>1. CASE pending = {} BY <1>2, <1>4, <1>6, <2>1 DEF IsLastOf
  <2>2. CASE pending # {}
    <3>1. f.id \in pending /\ (\A j \in pending : j <= f.id) /\ f.id # NoId BY <1>4, <2>2 DEF IsLastOf, NoId
    <3>2. \A j \in Committed(w, n) : j <= f.id BY <1>3, <1>4, <3>1
    <3>. QED BY <1>2, <1>6, <3>1, <3>2 DEF IsLastOf
  <2>. QED BY <2>1, <2>2
<1>. QED BY <1>5, <1>6

-----------------------------------------------------------------------------
(* Records.                                                                *)

\* The records of the decoder are typed and know their line.
LEMMA RecordsTyped ==
  ASSUME NEW k \in Nat, NEW data \in Nat, NEW event \in BOOLEAN, NEW id \in Nat
  PROVE /\ Retry(k) \in Outputs /\ Retry(k).line = k
        /\ Control(k, id) \in Outputs /\ Control(k, id).line = k
        /\ Message(k, data, event, id) \in Outputs /\ Message(k, data, event, id).line = k
BY DEF Retry, Control, Message, Outputs

\* The records of one line more.
LEMMA ListsMore ==
  ASSUME NEW w, NEW n \in Nat, NEW sequence \in Seq(Outputs), Lists(w, sequence, Speaking(w, n))
  PROVE /\ n + 1 \notin Speaking(w, n + 1) => Lists(w, sequence, Speaking(w, n + 1))
        /\ \A record \in Outputs :
             (n + 1 \in Speaking(w, n + 1) /\ record = Emitted(w, n + 1) /\ record.line = n + 1)
                => Lists(w, sequence \o <<record>>, Speaking(w, n + 1))
<1>0. 1..(n + 1) = 1..n \union {n + 1} /\ n + 1 \notin 1..n OBVIOUS
<1>1. Speaking(w, n) \subseteq 1..n
      /\ Speaking(w, n + 1) = Speaking(w, n) \union (Speaking(w, n + 1) \intersect {n + 1})
  BY <1>0 DEF Speaking
<1>2. n + 1 \notin Speaking(w, n + 1) => Speaking(w, n + 1) = Speaking(w, n) BY <1>1
<1>3. ASSUME NEW record \in Outputs, n + 1 \in Speaking(w, n + 1), record = Emitted(w, n + 1), record.line = n + 1
      PROVE Lists(w, sequence \o <<record>>, Speaking(w, n + 1))
  <2>. DEFINE longer == sequence \o <<record>>
              last == Len(sequence) + 1
  <2>1. /\ last \in Nat /\ DOMAIN sequence = 1..(last - 1) /\ DOMAIN longer = 1..last
        /\ longer[last] = record /\ \A i \in 1..(last - 1) : longer[i] = sequence[i]
    <3>. HIDE DEF Outputs
    <3>. QED OBVIOUS
  <2>2. \A i \in 1..last : i \in 1..(last - 1) \/ i = last BY <2>1
  <2>3. last \in 1..last /\ \A i \in 1..(last - 1) : i \in 1..last BY <2>1 DEF last
  <2>4. Speaking(w, n + 1) = Speaking(w, n) \union {n + 1} BY <1>1, <1>3
  <2>. HIDE DEF longer, last
  <2>5. \A i \in 1..(last - 1) : longer[i].line \in 1..n BY <1>1, <2>1 DEF Lists
  <2>6. \A i \in DOMAIN longer : longer[i].line \in Speaking(w, n + 1) /\ longer[i] = Emitted(w, longer[i].line)
    BY <1>3, <2>1, <2>2, <2>4 DEF Lists
  <2>7. \A k \in Speaking(w, n + 1) : \E i \in DOMAIN longer : longer[i].line = k
    BY <1>3, <2>1, <2>3, <2>4 DEF Lists
  <2>8. ASSUME NEW i \in DOMAIN longer, NEW j \in DOMAIN longer, i < j PROVE longer[i].line < longer[j].line
    <3>1. i \in 1..(last - 1) BY <2>1, <2>8
    <3>2. CASE j = last BY <1>3, <2>1, <2>5, <3>1, <3>2
    <3>3. CASE j \in 1..(last - 1) BY <2>1, <2>8, <3>1, <3>3 DEF Lists
    <3>. QED BY <2>1, <2>2, <3>2, <3>3
  <2>. QED BY <2>6, <2>7, <2>8 DEF Lists, longer
<1>. QED BY <1>2, <1>3

\* What a blank line with a terminator makes come out.
LEMMA BlankSpeaks ==
  ASSUME NEW w \in Seq(Bytes), NEW n \in Nat, NEW f, IsFrame(w, n, f), f.id \in Nat,
         LineText(w, n + 1) = <<>>, n + 1 < LastLine(w),
         NEW last, IsLastOf(last, Committed(w, n + 1))
  PROVE /\ f.data \in Nat
        /\ f.data > 0 => /\ n + 1 \in Speaking(w, n + 1)
                         /\ Emitted(w, n + 1) = Message(n + 1, f.data, f.event, last)
        /\ (f.data = 0 /\ f.id # NoId) => /\ n + 1 \in Speaking(w, n + 1)
                                          /\ Emitted(w, n + 1) = Control(n + 1, f.id)
        /\ (f.data = 0 /\ f.id = NoId) => n + 1 \notin Speaking(w, n + 1)
<1>1. \A field : ~Says(w, n + 1, field) BY DEF Says
<1>2. \A field : Of(w, n + 1, field) = PendingOf(w, n, field)
  <2>. SUFFICES ASSUME NEW field PROVE Of(w, n + 1, field) = PendingOf(w, n, field) OBVIOUS
  <2>1. Of(w, n + 1, field) = PendingOf(w, n, field) \union {} BY <1>1, FrameGrows
  <2>. QED BY <2>1
<1>3. \A field : PendingOf(w, n, field) \in SUBSET (1..n) BY DEF PendingOf, Pending
<1>4. f.data \in Nat /\ (f.data = 0 <=> Of(w, n + 1, "d") = {}) /\ f.data = Cardinality(Of(w, n + 1, "d"))
  <2>1. IsFiniteSet(PendingOf(w, n, "d")) /\ Cardinality(PendingOf(w, n, "d")) \in Nat BY <1>3, FinitePart
  <2>2. f.data = Cardinality(PendingOf(w, n, "d")) BY DEF IsFrame
  <2>. QED BY <1>2, <2>1, <2>2, FS_EmptySet
<1>5. /\ f.id = NoId <=> Of(w, n + 1, "i") = {}
      /\ LastOf(Of(w, n + 1, "i")) = f.id
  <2>1. IsLastOf(f.id, PendingOf(w, n, "i")) BY DEF IsFrame
  <2>2. PendingOf(w, n, "i") \in SUBSET Nat BY <1>3
  <2>3. LastOf(PendingOf(w, n, "i")) = f.id BY <2>1, <2>2, LastOfIs
  <2>. QED BY <1>2, <1>3, <2>1, <2>3 DEF IsLastOf, NoId
<1>6. f.event = (Of(w, n + 1, "e") # {}) BY <1>2 DEF IsFrame
<1>7. IdAfter(w, n + 1) = last
  <2>1. Committed(w, n + 1) \in SUBSET Nat BY DEF Committed
  <2>2. LastOf(Committed(w, n + 1)) = last BY <2>1, LastOfIs
  <2>. QED BY <2>2 DEF IdAfter, Committed
<1>8. n + 1 \in Speaking(w, n + 1) <=> Of(w, n + 1, "d") \union Of(w, n + 1, "i") # {}
  <2>1. n + 1 \in 1..(n + 1) OBVIOUS
  <2>. QED BY <1>1, <2>1 DEF Speaking
<1>9. Emitted(w, n + 1) = IF Of(w, n + 1, "d") # {} THEN Message(n + 1, f.data, f.event, last) ELSE Control(n + 1, f.id)
  BY <1>1, <1>4, <1>5, <1>6, <1>7 DEF Emitted
<1>. QED BY <1>4, <1>5, <1>8, <1>9

\* A line with text makes a record come out if it is a delay.
LEMMA TextSpeaks ==
  ASSUME NEW w, NEW n \in Nat, LineText(w, n + 1) # <<>>
  PROVE /\ n + 1 \in Speaking(w, n + 1) <=> LineText(w, n + 1)[1] = "r"
        /\ LineText(w, n + 1)[1] = "r" => Emitted(w, n + 1) = Retry(n + 1)
<1>1. n + 1 \in 1..(n + 1) OBVIOUS
<1>. QED BY <1>1 DEF Speaking, Emitted, Says

\* Nor does a last line without a terminator make more come out by itself.
LEMMA LastBlankIsSilent ==
  ASSUME NEW w, NEW n \in Nat, LineText(w, n + 1) = <<>>, n + 1 = LastLine(w)
  PROVE n + 1 \notin Speaking(w, n + 1)
BY DEF Speaking, Says

-----------------------------------------------------------------------------
(* Limits.                                                                 *)

\* The first line that offends is behind all the good ones.
LEMMA FirstOffence ==
  ASSUME NEW w, NEW n \in Nat, \A k \in 1..n : ~Offends(w, k), n + 1 \in 1..LastLine(w), LastLine(w) \in Nat
  PROVE /\ Offends(w, n + 1) => LastLine(w) \notin GoodLines(w) /\ Cardinality(GoodLines(w)) = n
        /\ ~Offends(w, n + 1) => \A k \in 1..(n + 1) : ~Offends(w, k)
        /\ (~Offends(w, n + 1) /\ n + 1 = LastLine(w)) => LastLine(w) \in GoodLines(w)
<1>0. 1..(n + 1) = 1..n \union {n + 1} OBVIOUS
<1>1. ASSUME Offends(w, n + 1) PROVE LastLine(w) \notin GoodLines(w) /\ Cardinality(GoodLines(w)) = n
  <2>1. \A k \in 1..LastLine(w) : k \in GoodLines(w) <=> k \in 1..n
    <3>. SUFFICES ASSUME NEW k \in 1..LastLine(w) PROVE k \in GoodLines(w) <=> k \in 1..n OBVIOUS
    <3>1. k \in 1..n => \A j \in 1..k : j \in 1..n OBVIOUS
    <3>2. k \notin 1..n => n + 1 \in 1..k OBVIOUS
    <3>. QED BY <1>1, <3>1, <3>2 DEF GoodLines
  <2>2. GoodLines(w) = 1..n
    <3>1. GoodLines(w) \subseteq 1..LastLine(w) BY DEF GoodLines
    <3>2. 1..n \subseteq 1..LastLine(w) OBVIOUS
    <3>. QED BY <2>1, <3>1, <3>2
  <2>3. Cardinality(1..n) = n
    <3>1. ~(1 > n) => n - 1 + 1 = n OBVIOUS
    <3>2. 1 > n => n = 0 OBVIOUS
    <3>3. Cardinality(1..n) = IF 1 > n THEN 0 ELSE n - 1 + 1 BY FS_Interval
    <3>. QED BY <3>1, <3>2, <3>3
  <2>4. LastLine(w) \notin 1..n OBVIOUS
  <2>. QED BY <2>2, <2>3, <2>4
<1>2. ~Offends(w, n + 1) => \A k \in 1..(n + 1) : ~Offends(w, k) BY <1>0
<1>3. (~Offends(w, n + 1) /\ n + 1 = LastLine(w)) => LastLine(w) \in GoodLines(w) BY <1>2 DEF GoodLines
<1>. QED BY <1>1, <1>2, <1>3

-----------------------------------------------------------------------------
(* The decoder's steps.                                                    *)

\* The wire and how much of it has come.
LEMMA WireTyped ==
  ASSUME TypeOK
  PROVE /\ wire \in Seq(Bytes) /\ Len(wire) \in Nat /\ LastLine(wire) \in Nat
        /\ scanned \in Nat /\ fed \in Nat /\ scanned <= fed /\ fed <= Len(wire)
        /\ MaxLine \in Nat /\ MaxFrame \in Nat /\ Window \in Nat \ {0} /\ lineNo \in Nat
        /\ frame \in Frames /\ lastId \in Nat /\ records \in Seq(Outputs)
<1>1. wire \in Seq(Bytes) BY WireAssumption DEF TypeOK
<1>2. Len(wire) \in Nat /\ LastLine(wire) \in Nat
  <2>1. Len(wire) \in Nat /\ LineEnds(wire) \in SUBSET (1..Len(wire)) BY <1>1, EndsCount
  <2>2. Cardinality(LineEnds(wire)) \in Nat BY <2>1, FinitePart
  <2>. QED BY <2>1, <2>2 DEF LastLine
<1>3. MaxLine \in Nat /\ MaxFrame \in Nat /\ Window \in Nat \ {0} BY LimitAssumption
<1>4. frame \in Frames BY <1>3 DEF TypeOK, Frames
<1>5. scanned \in Nat /\ fed \in Nat /\ scanned <= fed /\ fed <= Len(wire) BY <1>2 DEF TypeOK
<1>. QED BY <1>1, <1>2, <1>3, <1>4, <1>5 DEF TypeOK

\* A scan looks at some of the bytes that have come, and at one at least.
LEMMA ScanTyped ==
  ASSUME TypeOK, scanned < fed
  PROVE \E to \in (scanned + 1)..fed :
          /\ Scan = SubSeq(wire, scanned + 1, to) /\ Len(Scan) = to - scanned
          /\ \A i \in 1..Len(Scan) : Scan[i] = wire[scanned + i]
          /\ Scan \in Seq(Bytes)
<1>. DEFINE to == IF fed < scanned + Window THEN fed ELSE scanned + Window
<1>1. /\ wire \in Seq(Bytes) /\ Len(wire) \in Nat /\ scanned \in Nat /\ fed \in Nat /\ fed <= Len(wire)
      /\ Window \in Nat \ {0}
  BY WireTyped
<1>2. to \in (scanned + 1)..fed BY <1>1
<1>3. Scan = SubSeq(wire, scanned + 1, to) BY DEF Scan
<1>. HIDE DEF to
<1>4. \A i \in (scanned + 1)..to : wire[i] \in Bytes BY <1>1, <1>2, ElementOfSeq
<1>5. /\ Scan \in Seq(Bytes) /\ Len(Scan) = to - scanned
      /\ \A i \in 1..Len(Scan) : Scan[i] = wire[scanned + i]
  <2>1. /\ scanned + 1 \in Int /\ to \in Int /\ scanned + 1 <= to /\ to - (scanned + 1) + 1 = to - scanned
        /\ \A i \in 1..(to - scanned) : scanned + 1 + i - 1 = scanned + i
    BY <1>1, <1>2
  <2>2. /\ SubSeq(wire, scanned + 1, to) \in Seq(Bytes)
        /\ Len(SubSeq(wire, scanned + 1, to)) = to - (scanned + 1) + 1
        /\ \A i \in 1..(to - (scanned + 1) + 1) : SubSeq(wire, scanned + 1, to)[i] = wire[scanned + 1 + i - 1]
    BY <1>4, <2>1, SubSeqProperties
  <2>. QED BY <1>3, <2>1, <2>2
<1>. QED BY <1>2, <1>3, <1>5

\* The line the decoder takes off what it collected is the text of the line.
LEMMA Taken ==
  ASSUME TypeOK, NEW bytes
  PROVE TakenLine(bytes) = Stripped(lineNo + 1, bytes)
BY WireTyped DEF TakenLine, Stripped

\* A line is refused exactly when it offends.
LEMMA RefusedOffends ==
  ASSUME TypeOK, IsFrame(wire, lineNo, frame), NEW line, line = LineText(wire, lineNo + 1),
         line \in Seq(Bytes),
         IsFiniteSet(Held(wire, lineNo + 1)), Cardinality(Held(wire, lineNo + 1)) = Len(line)
  PROVE Refused(line) <=> Offends(wire, lineNo + 1)
<1>1. Cardinality(FrameBytes(wire, lineNo + 1)) = frame.bytes + Counted(line) BY WireTyped, FrameWithLine
<1>. QED BY <1>1 DEF Refused, Offends

\* The frame decoder does with a line what the line means.
LEMMA LineTaken ==
  ASSUME TypeOK, IsFrame(wire, lineNo, frame), IsLastOf(lastId, Committed(wire, lineNo)),
         Lists(wire, records, Speaking(wire, lineNo)),
         NEW line, line = LineText(wire, lineNo + 1), line \in Seq(Bytes),
         IsFiniteSet(Held(wire, lineNo + 1)), Cardinality(Held(wire, lineNo + 1)) = Len(line),
         ~Refused(line), lineNo + 1 < LastLine(wire), lineNo' = lineNo + 1, FrameLine(line)
  PROVE /\ IsFrame(wire, lineNo + 1, frame')
        /\ frame' \in [id : Nat, data : Nat, event : BOOLEAN, fields : BOOLEAN, bytes : 0..MaxFrame]
        /\ lastId' \in Nat /\ IsLastOf(lastId', Committed(wire, lineNo + 1))
        /\ records' \in Seq(Outputs) /\ Lists(wire, records', Speaking(wire, lineNo + 1))
<1>1. /\ wire \in Seq(Bytes) /\ lineNo \in Nat /\ LastLine(wire) \in Nat /\ MaxFrame \in Nat
      /\ frame \in Frames /\ lastId \in Nat /\ records \in Seq(Outputs) /\ frame.id \in Nat
      /\ frame \in [id : Nat, data : Nat, event : BOOLEAN, fields : BOOLEAN, bytes : 0..MaxFrame]
  BY WireTyped DEF TypeOK, Frames
<1>2. records \o <<>> = records
  <2>. HIDE DEF Outputs
  <2>. QED BY <1>1, ConcatEmptySeq
<1>3. \A record \in Outputs : records \o <<record>> \in Seq(Outputs)
  <2>. HIDE DEF Outputs
  <2>. QED BY <1>1
<1>4. CASE IsBlank(line)
  <2>0. line = <<>> /\ EndFrame BY <1>4 DEF FrameLine, IsBlank, IsComment
  <2>1. /\ frame' = (IF frame.fields THEN EmptyFrame ELSE [frame EXCEPT !.bytes = 0])
        /\ lastId' = IF frame.id # NoId THEN frame.id ELSE lastId
        /\ records' = records \o
             (IF frame.data > 0 THEN <<Message(lineNo + 1, frame.data, frame.event, lastId')>>
              ELSE IF frame.id # NoId THEN <<Control(lineNo + 1, frame.id)>> ELSE <<>>)
    BY <2>0 DEF EndFrame
  <2>2. IsFrame(wire, lineNo + 1, frame') BY <1>1, <2>0, <2>1, BlankEmpties
  <2>3. frame' \in [id : Nat, data : Nat, event : BOOLEAN, fields : BOOLEAN, bytes : 0..MaxFrame]
    <3>1. 0 \in 0..MaxFrame BY <1>1
    <3>2. EmptyFrame \in [id : Nat, data : Nat, event : BOOLEAN, fields : BOOLEAN, bytes : 0..MaxFrame]
      BY <3>1 DEF EmptyFrame, NoId
    <3>3. [frame EXCEPT !.bytes = 0] \in [id : Nat, data : Nat, event : BOOLEAN, fields : BOOLEAN, bytes : 0..MaxFrame]
      BY <1>1, <3>1
    <3>. QED BY <2>1, <3>2, <3>3
  <2>4. lastId' \in Nat /\ IsLastOf(lastId', Committed(wire, lineNo + 1)) BY <1>1, <2>0, <2>1, Commits
  <2>5. PICK last \in Nat : last = lastId' BY <2>4
  <2>6. /\ frame.data \in Nat
        /\ frame.data > 0 => /\ lineNo + 1 \in Speaking(wire, lineNo + 1)
                             /\ Emitted(wire, lineNo + 1) = Message(lineNo + 1, frame.data, frame.event, last)
        /\ (frame.data = 0 /\ frame.id # NoId) => /\ lineNo + 1 \in Speaking(wire, lineNo + 1)
                                                  /\ Emitted(wire, lineNo + 1) = Control(lineNo + 1, frame.id)
        /\ (frame.data = 0 /\ frame.id = NoId) => lineNo + 1 \notin Speaking(wire, lineNo + 1)
    BY <1>1, <2>0, <2>4, <2>5, BlankSpeaks
  <2>7. CASE frame.data > 0
    <3>. DEFINE record == Message(lineNo + 1, frame.data, frame.event, last)
    <3>1. record \in Outputs /\ record.line = lineNo + 1
      <4>1. frame.event \in BOOLEAN /\ lineNo + 1 \in Nat /\ frame.data \in Nat /\ last \in Nat BY <1>1, <2>6
      <4>. QED BY <4>1, RecordsTyped
    <3>2. records' = records \o <<record>> BY <2>1, <2>5, <2>7
    <3>3. lineNo + 1 \in Speaking(wire, lineNo + 1) /\ Emitted(wire, lineNo + 1) = record BY <2>6, <2>7
    <3>. HIDE DEF record
    <3>4. Lists(wire, records', Speaking(wire, lineNo + 1)) BY <1>1, <3>1, <3>2, <3>3, ListsMore
    <3>. QED BY <1>3, <2>2, <2>3, <2>4, <3>1, <3>2, <3>4
  <2>8. CASE frame.data = 0 /\ frame.id # NoId
    <3>. DEFINE record == Control(lineNo + 1, frame.id)
    <3>1. record \in Outputs /\ record.line = lineNo + 1
      <4>1. lineNo + 1 \in Nat BY <1>1
      <4>. QED BY <1>1, <4>1, RecordsTyped
    <3>2. records' = records \o <<record>> BY <2>1, <2>8
    <3>3. lineNo + 1 \in Speaking(wire, lineNo + 1) /\ Emitted(wire, lineNo + 1) = record BY <2>6, <2>8
    <3>. HIDE DEF record
    <3>4. Lists(wire, records', Speaking(wire, lineNo + 1)) BY <1>1, <3>1, <3>2, <3>3, ListsMore
    <3>. QED BY <1>3, <2>2, <2>3, <2>4, <3>1, <3>2, <3>4
  <2>9. CASE frame.data = 0 /\ frame.id = NoId
    <3>1. records' = records BY <1>2, <2>1, <2>9
    <3>2. Lists(wire, records', Speaking(wire, lineNo + 1)) BY <1>1, <2>6, <2>9, <3>1, ListsMore
    <3>. QED BY <1>1, <2>2, <2>3, <2>4, <3>1, <3>2
  <2>. QED BY <2>6, <2>7, <2>8, <2>9
<1>5. CASE ~IsBlank(line)
  <2>1. line # <<>> BY <1>5 DEF IsBlank
  <2>2. /\ lineNo + 1 \in Speaking(wire, lineNo + 1) <=> line[1] = "r"
        /\ line[1] = "r" => Emitted(wire, lineNo + 1) = Retry(lineNo + 1)
    BY <1>1, <2>1, TextSpeaks
  <2>3. IsLastOf(lastId, Committed(wire, lineNo + 1)) BY <1>1, <2>1, Commits
  <2>4. CASE IsComment(line)
    <3>1. UNCHANGED frameVars BY <1>5, <2>4 DEF FrameLine
    <3>2. frame' = frame /\ lastId' = lastId /\ records' = records BY <3>1 DEF frameVars
    <3>3. line[1] = "c" BY <2>4 DEF IsComment
    <3>4. IsFrame(wire, lineNo + 1, frame) BY <1>1, <2>1, <3>3, CommentJoins DEF Says
    <3>5. Lists(wire, records, Speaking(wire, lineNo + 1)) BY <1>1, <2>2, <3>3, ListsMore
    <3>. QED BY <1>1, <2>3, <3>2, <3>4, <3>5
  <2>5. CASE ~IsComment(line)
    <3>1. /\ frame' = WithField(line) /\ lastId' = lastId
          /\ records' = records \o (IF line[1] = "r" THEN <<Retry(lineNo + 1)>> ELSE <<>>)
      BY <1>5, <2>5 DEF FrameLine
    <3>2. line[1] # "c" BY <2>1, <2>5 DEF IsComment
    <3>3. frame' = Fields(frame, line, lineNo + 1) BY <3>1 DEF WithField, Fields
    <3>4. IsFrame(wire, lineNo + 1, frame') /\ frame' \in Frames
      BY <1>1, <2>1, <3>2, <3>3, FieldJoins
    <3>5. frame'.bytes = frame.bytes + Len(line) BY <1>1, <3>3 DEF Fields, Frames
    <3>6. frame'.bytes <= MaxFrame
      <4>1. Counted(line) = Len(line) BY <2>1, <2>5 DEF Counted, IsBlank
      <4>2. ~(frame.bytes + Len(line) > MaxFrame) BY <4>1 DEF Refused
      <4>3. frame.bytes \in Nat /\ Len(line) \in Nat BY <1>1 DEF Frames
      <4>. QED BY <1>1, <3>5, <4>2, <4>3
    <3>7. frame' \in [id : Nat, data : Nat, event : BOOLEAN, fields : BOOLEAN, bytes : 0..MaxFrame]
      <4>1. PICK f \in Frames : f = frame' BY <3>4
      <4>2. f.bytes <= MaxFrame BY <3>6, <4>1
      <4>3. f \in [id : Nat, data : Nat, event : BOOLEAN, fields : BOOLEAN, bytes : 0..MaxFrame]
        BY <1>1, <4>2 DEF Frames
      <4>. QED BY <4>1, <4>3
    <3>8. CASE line[1] = "r"
      <4>1. records' = records \o <<Retry(lineNo + 1)>> BY <3>1, <3>8
      <4>2. Retry(lineNo + 1) \in Outputs /\ Retry(lineNo + 1).line = lineNo + 1
        <5>1. lineNo + 1 \in Nat BY <1>1
        <5>. QED BY <5>1, RecordsTyped
      <4>3. Lists(wire, records', Speaking(wire, lineNo + 1)) BY <1>1, <2>2, <3>8, <4>1, <4>2, ListsMore
      <4>. QED BY <1>1, <1>3, <2>3, <3>1, <3>4, <3>7, <4>1, <4>2, <4>3
    <3>9. CASE line[1] # "r"
      <4>1. records' = records BY <1>2, <3>1, <3>9
      <4>2. Lists(wire, records', Speaking(wire, lineNo + 1)) BY <1>1, <2>2, <3>9, <4>1, ListsMore
      <4>. QED BY <1>1, <2>3, <3>1, <3>4, <3>7, <4>1, <4>2
    <3>. QED BY <3>8, <3>9
  <2>. QED BY <2>4, <2>5
<1>. QED BY <1>4, <1>5

\* What is collected is line bytes.
LEMMA CollectedTyped ==
  ASSUME NEW w \in Seq(Bytes), NEW at \in 0..Len(w), NEW from, Collects(w, from, at)
  PROVE SubSeq(w, from, at) \in Seq(Bytes \ Terminators) /\ Len(SubSeq(w, from, at)) = at - from + 1
<1>1. Len(w) \in Nat /\ at \in Nat /\ from \in 1..(at + 1) BY EndsCount DEF Collects
<1>2. \A i \in from..at : w[i] \in Bytes \ Terminators
  <2>1. \A i \in from..at : w[i] \notin Terminators BY DEF Collects, LineBytes
  <2>2. \A i \in from..at : w[i] \in Bytes BY <1>1, ElementOfSeq
  <2>. QED BY <2>1, <2>2
<1>3. from \in Int /\ at \in Int /\ (~(from <= at) => at - from + 1 = 0) BY <1>1
<1>. QED BY <1>2, <1>3, SubSeqProperties

\* While it runs, the decoder knows where its line began.
LEMMA Collected ==
  ASSUME TypeOK, LineInv
  PROVE \E from \in 1..(scanned + 1) :
          /\ Collects(wire, from, scanned) /\ buffer = SubSeq(wire, from, scanned)
          /\ lineNo = EndsBefore(wire, scanned + 1) /\ lineNo + 1 \in 1..LastLine(wire)
          /\ pendingCr = (scanned > 0 /\ wire[scanned] = "cr")
<1>1. EndsBefore(wire, scanned + 1) < LastLine(wire) /\ EndsBefore(wire, scanned + 1) \in Nat
  <2>1. wire \in Seq(Bytes) /\ scanned + 1 \in Nat BY WireTyped
  <2>. QED BY <2>1, EndsCount
<1>2. lineNo = EndsBefore(wire, scanned + 1) /\ pendingCr = (scanned > 0 /\ wire[scanned] = "cr") BY DEF LineInv
<1>3. lineNo + 1 \in 1..LastLine(wire)
  <2>1. LastLine(wire) \in Nat /\ lineNo \in Nat BY WireTyped
  <2>. QED BY <1>1, <1>2, <2>1
<1>4. PICK from \in 1..(scanned + 1) : Collects(wire, from, scanned) /\ buffer = SubSeq(wire, from, scanned)
  BY DEF LineInv
<1>. QED BY <1>2, <1>3, <1>4

\* An offending line ends the stream; what came out is what is before it.
LEMMA ProtocolStep ==
  ASSUME TypeOK, FrameInv, Lists(wire, records, Speaking(wire, lineNo)),
         Offends(wire, lineNo + 1), lineNo + 1 \in 1..LastLine(wire),
         ProtocolError, UNCHANGED <<wire, fed>>, scanned' \in 0..fed
  PROVE IInv'
<1>1. /\ status' = "protocol" /\ wire' = wire /\ fed' = fed /\ records' = records /\ frame' = frame
      /\ lastId' = lastId /\ lineNo' = lineNo /\ buffer' = buffer /\ pendingCr' = pendingCr
  BY DEF ProtocolError, lineVars, frameVars
<1>2. TypeOK' BY <1>1 DEF TypeOK
<1>3. LastLine(wire) \notin GoodLines(wire) /\ Cardinality(GoodLines(wire)) = lineNo
  BY WireTyped, FirstOffence DEF FrameInv
<1>. QED BY <1>1, <1>2, <1>3 DEF IInv, RecordsFollowLines, EndMatches

\* A step that neither takes a line nor ends the stream.
LEMMA ReadingStep ==
  ASSUME IInv, status = "running", TypeOK', LineInv', wire' = wire, lineNo' = lineNo,
         UNCHANGED frameVars, UNCHANGED status
  PROVE IInv'
<1>1. records' = records /\ frame' = frame /\ lastId' = lastId /\ status' = "running" BY DEF frameVars
<1>2. FrameInv' BY <1>1 DEF IInv, FrameInv
<1>3. Lists(wire, records, Speaking(wire, lineNo)) BY DEF IInv, RecordsFollowLines
<1>. QED BY <1>1, <1>2, <1>3 DEF IInv, RecordsFollowLines, EndMatches

\* A chunk arrives.
LEMMA FeedStep == ASSUME IInv, NEW n \in 1..(Len(wire) - fed), Feed(n) PROVE IInv'
<1>1. /\ status = "running" /\ wire' = wire /\ scanned' = scanned /\ fed' = fed + n
      /\ buffer' = buffer /\ pendingCr' = pendingCr /\ lineNo' = lineNo
      /\ UNCHANGED frameVars /\ UNCHANGED status
      /\ frame' = frame /\ lastId' = lastId /\ records' = records
  BY DEF Feed, lineVars, frameVars
<1>2. TypeOK /\ LineInv BY <1>1 DEF IInv
<1>3. fed' \in 0..Len(wire) /\ scanned \in 0..fed' BY <1>1, <1>2, WireTyped DEF Feed
<1>4. TypeOK' BY <1>1, <1>2, <1>3 DEF TypeOK
<1>5. LineInv' BY <1>1, <1>2 DEF LineInv
<1>. QED BY <1>1, <1>4, <1>5, ReadingStep

\* The body fails; nothing is promised then.
LEMMA FailStep == ASSUME IInv, Fail PROVE IInv'
<1>1. /\ status' = "failed" /\ wire' = wire /\ scanned' = scanned /\ fed' = fed
      /\ buffer' = buffer /\ pendingCr' = pendingCr /\ lineNo' = lineNo
      /\ frame' = frame /\ lastId' = lastId /\ records' = records
  BY DEF Fail, lineVars, frameVars
<1>2. TypeOK' BY <1>1 DEF IInv, TypeOK
<1>. QED BY <1>1, <1>2 DEF IInv, RecordsFollowLines, EndMatches

\* A window without a terminator goes on with the line, or overflows it.
LEMMA ScanRunStep == ASSUME IInv, ScanRun PROVE IInv'
<1>1. /\ status = "running" /\ scanned < fed /\ Ends = {} /\ wire' = wire /\ fed' = fed
      /\ scanned' = scanned + Len(Scan) /\ UNCHANGED <<wire, fed>>
  BY DEF ScanRun
<1>2. /\ TypeOK /\ LineInv /\ FrameInv /\ Lists(wire, records, Speaking(wire, lineNo))
      /\ wire \in Seq(Bytes) /\ Len(wire) \in Nat /\ scanned \in Nat /\ fed \in Nat /\ fed <= Len(wire)
      /\ MaxLine \in Nat /\ lineNo \in Nat
  BY <1>1, WireTyped DEF IInv, RecordsFollowLines
<1>3. PICK to \in (scanned + 1)..fed :
        /\ Scan = SubSeq(wire, scanned + 1, to) /\ Len(Scan) = to - scanned
        /\ \A i \in 1..Len(Scan) : Scan[i] = wire[scanned + i]
        /\ Scan \in Seq(Bytes)
  BY <1>1, <1>2, ScanTyped
<1>4. to \in Nat /\ scanned' = to /\ scanned <= to /\ to <= Len(wire) /\ to \in 1..Len(wire) /\ to \in 0..fed
  BY <1>1, <1>2, <1>3
<1>5. \A i \in (scanned + 1)..to : wire[i] \notin Terminators
  <2>. SUFFICES ASSUME NEW i \in (scanned + 1)..to PROVE wire[i] \notin Terminators OBVIOUS
  <2>1. i - scanned \in 1..Len(Scan) /\ scanned + (i - scanned) = i BY <1>2, <1>3, <1>4
  <2>. QED BY <1>1, <1>3, <2>1 DEF Ends
<1>6. PICK from \in 1..(scanned + 1) :
        /\ Collects(wire, from, scanned) /\ buffer = SubSeq(wire, from, scanned)
        /\ lineNo = EndsBefore(wire, scanned + 1) /\ lineNo + 1 \in 1..LastLine(wire)
  BY <1>2, Collected
<1>7. EndsBefore(wire, to + 1) = lineNo /\ Collects(wire, from, to) BY <1>2, <1>4, <1>5, <1>6, CollectsRun
<1>8. wire[to] \notin Terminators BY <1>3, <1>4, <1>5
<1>9. buffer \o Scan = SubSeq(wire, from, to)
  <2>1. from \in 1..(Len(wire) + 1) /\ scanned \in (from - 1)..Len(wire) /\ to \in scanned..Len(wire)
    BY <1>2, <1>4, <1>6
  <2>. QED BY <1>2, <1>3, <1>6, <2>1, ConcatAdjacentSubSeq
<1>10. /\ Len(buffer) + Len(Scan) = to - from + 1
       /\ SubSeq(wire, from, to) \in Seq(Bytes \ Terminators) /\ Len(SubSeq(wire, from, to)) = to - from + 1
  <2>1. Len(buffer) = scanned - from + 1
    <3>1. scanned \in 0..Len(wire) BY <1>2, <1>4
    <3>. QED BY <1>2, <1>6, <3>1, CollectedTyped
  <2>2. to \in 0..Len(wire) BY <1>4
  <2>3. Len(buffer) + Len(Scan) = to - from + 1 BY <1>2, <1>3, <1>4, <1>6, <2>1
  <2>4. SubSeq(wire, from, to) \in Seq(Bytes \ Terminators) /\ Len(SubSeq(wire, from, to)) = to - from + 1
    BY <1>2, <1>7, <2>2, CollectedTyped
  <2>. QED BY <2>3, <2>4
<1>11. CASE Len(buffer) + Len(Scan) > LineLimit
  <2>1. ProtocolError BY <1>11 DEF ScanRun
  <2>2. PICK last \in to..Len(wire) : LineBytes(wire, lineNo + 1, Len(wire)) = from..last
    BY <1>2, <1>4, <1>7, <1>8, LineGoesOn
  <2>3. last \in 0..Len(wire) /\ from \in 1..(last + 1) /\ lineNo + 1 \in Nat BY <1>2, <1>4, <1>6, <2>2
  <2>. DEFINE slack == IF lineNo + 1 = 1 THEN Len(Bom) ELSE 0
              text == LineText(wire, lineNo + 1)
  <2>4. last - from + 1 <= Len(text) + slack /\ text \in Seq(Bytes) BY <1>2, <2>2, <2>3, WholeLine
  <2>5. Len(text) > MaxLine
    <3>1. last - from + 1 >= to - from + 1 BY <1>4, <1>6, <2>3
    <3>2. LineLimit = MaxLine + slack /\ slack \in Nat BY <1>2, BomTyped DEF LineLimit
    <3>3. Len(text) \in Nat BY <2>4
    <3>4. to - from + 1 \in Int /\ last - from + 1 \in Int BY <1>4, <1>6, <2>3
    <3>5. to - from + 1 > LineLimit BY <1>10, <1>11
    <3>. HIDE DEF slack, text
    <3>. QED BY <1>2, <2>4, <3>1, <3>2, <3>3, <3>4, <3>5
  <2>6. Offends(wire, lineNo + 1) BY <2>5 DEF Offends
  <2>7. scanned' \in 0..fed BY <1>4
  <2>. QED BY <1>1, <1>2, <1>6, <2>1, <2>6, <2>7, ProtocolStep
<1>12. CASE ~(Len(buffer) + Len(Scan) > LineLimit)
  <2>1. /\ buffer' = SubSeq(wire, from, to) /\ pendingCr' = FALSE
        /\ lineNo' = lineNo /\ UNCHANGED frameVars /\ UNCHANGED status
        /\ frame' = frame /\ lastId' = lastId /\ records' = records
    BY <1>9, <1>12 DEF ScanRun, frameVars
  <2>2. Len(buffer') <= MaxLine + Len(Bom)
    <3>1. Len(buffer') = to - from + 1 /\ to - from + 1 \in Int BY <1>4, <1>6, <1>10, <2>1
    <3>2. LineLimit <= MaxLine + 3 /\ LineLimit \in Nat BY <1>2, BomTyped DEF LineLimit
    <3>3. ~(to - from + 1 > LineLimit) BY <1>10, <1>12
    <3>. QED BY <1>2, <3>1, <3>2, <3>3, BomTyped
  <2>3. TypeOK' BY <1>1, <1>2, <1>4, <1>10, <2>1, <2>2 DEF TypeOK
  <2>4. LineInv'
    <3>1. pendingCr' = (scanned' > 0 /\ wire'[scanned'] = "cr") BY <1>1, <1>4, <1>8, <2>1 DEF Terminators
    <3>2. from \in 1..(to + 1) BY <1>2, <1>4, <1>6
    <3>. QED BY <1>1, <1>4, <1>7, <2>1, <3>1, <3>2 DEF LineInv
  <2>. QED BY <1>1, <2>1, <2>3, <2>4, ReadingStep
<1>. QED BY <1>11, <1>12

\* The LF of a CRLF belongs to no line.
LEMMA SkipLfStep == ASSUME IInv, SkipLf PROVE IInv'
<1>1. /\ status = "running" /\ scanned < fed /\ pendingCr /\ Scan[1] = "lf" /\ wire' = wire /\ fed' = fed
      /\ scanned' = scanned + 1 /\ pendingCr' = FALSE /\ buffer' = buffer /\ lineNo' = lineNo
      /\ UNCHANGED frameVars /\ UNCHANGED status
      /\ frame' = frame /\ lastId' = lastId /\ records' = records
  BY DEF SkipLf, frameVars
<1>2. /\ TypeOK /\ LineInv /\ wire \in Seq(Bytes) /\ Len(wire) \in Nat /\ scanned \in Nat /\ fed \in Nat
      /\ fed <= Len(wire)
  BY <1>1, WireTyped DEF IInv
<1>3. wire[scanned + 1] = "lf"
  <2>1. PICK to \in (scanned + 1)..fed :
          Len(Scan) = to - scanned /\ \A i \in 1..Len(Scan) : Scan[i] = wire[scanned + i]
    BY <1>1, <1>2, ScanTyped
  <2>2. 1 \in 1..Len(Scan) BY <1>2, <2>1
  <2>. QED BY <1>1, <2>1, <2>2
<1>4. PICK from \in 1..(scanned + 1) :
        /\ Collects(wire, from, scanned) /\ buffer = SubSeq(wire, from, scanned)
        /\ lineNo = EndsBefore(wire, scanned + 1)
        /\ pendingCr = (scanned > 0 /\ wire[scanned] = "cr")
  BY <1>2, Collected
<1>5. scanned > 0 /\ wire[scanned] = "cr" BY <1>1, <1>4
<1>6. /\ from = scanned + 1 /\ EndsBefore(wire, scanned + 2) = lineNo
      /\ Collects(wire, scanned + 2, scanned + 1)
  <2>1. scanned + 1 <= Len(wire) BY <1>1, <1>2
  <2>. QED BY <1>2, <1>3, <1>4, <1>5, <2>1, CollectsSkip
<1>7. buffer = SubSeq(wire, scanned + 2, scanned + 1)
  <2>1. SubSeq(wire, scanned + 1, scanned) = <<>> /\ SubSeq(wire, scanned + 2, scanned + 1) = <<>>
    BY <1>2, SubSeqEmpty
  <2>. QED BY <1>4, <1>6, <2>1
<1>8. TypeOK'
  <2>1. scanned' \in 0..fed BY <1>1, <1>2
  <2>. QED BY <1>1, <1>2, <2>1 DEF TypeOK
<1>9. LineInv'
  <2>1. pendingCr' = (scanned' > 0 /\ wire'[scanned'] = "cr") BY <1>1, <1>3
  <2>2. scanned + 2 \in 1..(scanned' + 1) /\ scanned' + 1 = scanned + 2 BY <1>1, <1>2
  <2>3. Collects(wire', scanned + 2, scanned') /\ buffer' = SubSeq(wire', scanned + 2, scanned')
    BY <1>1, <1>6, <1>7
  <2>4. lineNo' = EndsBefore(wire', scanned' + 1) BY <1>1, <1>6, <2>2
  <2>. QED BY <2>1, <2>2, <2>3, <2>4 DEF LineInv
<1>. QED BY <1>1, <1>8, <1>9, ReadingStep

\* A terminator ends the line, which the frame decoder then takes or refuses.
LEMMA ScanLineStep == ASSUME IInv, ScanLine PROVE IInv'
<1>1. /\ status = "running" /\ scanned < fed /\ Ends # {} /\ ~(pendingCr /\ Scan[1] = "lf")
      /\ wire' = wire /\ fed' = fed /\ UNCHANGED <<wire, fed>>
  BY DEF ScanLine
<1>2. /\ TypeOK /\ LineInv /\ FrameInv /\ Lists(wire, records, Speaking(wire, lineNo))
      /\ wire \in Seq(Bytes) /\ Len(wire) \in Nat /\ scanned \in Nat /\ fed \in Nat /\ fed <= Len(wire)
      /\ MaxLine \in Nat /\ lineNo \in Nat /\ LastLine(wire) \in Nat
  BY <1>1, WireTyped DEF IInv, RecordsFollowLines
<1>3. PICK to \in (scanned + 1)..fed :
        /\ Scan = SubSeq(wire, scanned + 1, to) /\ Len(Scan) = to - scanned
        /\ \A i \in 1..Len(Scan) : Scan[i] = wire[scanned + i]
        /\ Scan \in Seq(Bytes)
  BY <1>1, <1>2, ScanTyped
<1>4. PICK end \in Ends : \A y \in Ends : end <= y
  <2>1. Ends \in SUBSET Nat BY <1>2, <1>3 DEF Ends
  <2>. QED BY <1>1, <2>1, LeastExists
<1>5. Min(Ends) = end
  <2>1. \A x \in Ends : (\A y \in Ends : x <= y) => x = end BY <1>2, <1>3, <1>4 DEF Ends
  <2>. QED BY <1>4, <2>1 DEF Min
<1>. DEFINE p == scanned + end
            bytes == buffer \o SubSeq(Scan, 1, end - 1)
            line == LineText(wire, lineNo + 1)
<1>6. /\ end \in 1..Len(Scan) /\ end \in Nat /\ p \in (scanned + 1)..Len(wire) /\ p \in 0..fed /\ p \in Nat
      /\ p \in 1..Len(wire) /\ Scan[end] = wire[p] /\ wire[p] \in Terminators
  BY <1>2, <1>3, <1>4 DEF Ends
<1>7. /\ scanned' = p
      /\ Len(bytes) > LineLimit \/ Refused(TakenLine(bytes)) => ProtocolError
      /\ ~(Len(bytes) > LineLimit \/ Refused(TakenLine(bytes))) => TakeLine(bytes, Scan[end] = "cr") /\ UNCHANGED status
  BY <1>5 DEF ScanLine
<1>8. PICK from \in 1..(scanned + 1) :
        /\ Collects(wire, from, scanned) /\ buffer = SubSeq(wire, from, scanned)
        /\ lineNo = EndsBefore(wire, scanned + 1) /\ lineNo + 1 \in 1..LastLine(wire)
        /\ pendingCr = (scanned > 0 /\ wire[scanned] = "cr")
  BY <1>2, Collected
<1>9. \A i \in (scanned + 1)..(p - 1) : wire[i] \notin Terminators
  <2>. SUFFICES ASSUME NEW i \in (scanned + 1)..(p - 1), wire[i] \in Terminators PROVE FALSE OBVIOUS
  <2>1. i - scanned \in 1..Len(Scan) /\ scanned + (i - scanned) = i /\ i - scanned < end
    BY <1>2, <1>3, <1>6
  <2>2. i - scanned \in Ends BY <1>3, <2>1 DEF Ends
  <2>. QED BY <1>4, <1>6, <2>1, <2>2
<1>10. ~(wire[p] = "lf" /\ p = scanned + 1 /\ scanned > 0 /\ wire[scanned] = "cr")
  <2>. SUFFICES ASSUME wire[p] = "lf", p = scanned + 1, scanned > 0, wire[scanned] = "cr" PROVE FALSE OBVIOUS
  <2>1. end = 1 BY <1>2, <1>6
  <2>2. Scan[1] = "lf" BY <1>6, <2>1
  <2>. QED BY <1>1, <1>8, <2>2
<1>11. /\ EndsBefore(wire, p + 1) = lineNo + 1 /\ Collects(wire, p + 1, p) /\ lineNo + 1 < LastLine(wire)
       /\ LineBytes(wire, lineNo + 1, Len(wire)) = from..(p - 1)
  <2>. HIDE DEF p
  <2>. QED BY <1>2, <1>6, <1>8, <1>9, <1>10, CollectsLine
<1>12. bytes = SubSeq(wire, from, p - 1)
  <2>1. SubSeq(Scan, 1, end - 1) = SubSeq(wire, scanned + 1, p - 1)
    <3>1. CASE end = 1
      <4>1. SubSeq(Scan, 1, 0) = <<>> /\ SubSeq(wire, scanned + 1, scanned) = <<>> BY <1>2, SubSeqEmpty
      <4>2. end - 1 = 0 /\ p - 1 = scanned BY <1>2, <3>1
      <4>. QED BY <4>1, <4>2
    <3>2. CASE end # 1
      <4>0. to \in Nat /\ to <= fed /\ scanned + 1 <= to /\ end <= to - scanned BY <1>2, <1>3, <1>6
      <4>1. /\ scanned + 1 \in 1..Len(wire) /\ to \in 1..Len(wire)
            /\ 1 \in 1..(to - (scanned + 1) + 1) /\ end - 1 \in 1..(to - (scanned + 1) + 1)
            /\ scanned + 1 + 1 - 1 = scanned + 1 /\ scanned + 1 + (end - 1) - 1 = p - 1
        BY <1>2, <1>6, <3>2, <4>0
      <4>2. SubSeq(SubSeq(wire, scanned + 1, to), 1, end - 1) = SubSeq(wire, scanned + 1 + 1 - 1, scanned + 1 + (end - 1) - 1)
        BY <1>2, <4>1, SubSeqOfSubSeq
      <4>. QED BY <1>3, <4>1, <4>2
    <3>. QED BY <3>1, <3>2
  <2>2. from \in 1..(Len(wire) + 1) /\ scanned \in (from - 1)..Len(wire) /\ p - 1 \in scanned..Len(wire)
    BY <1>2, <1>6, <1>8
  <2>. HIDE DEF p
  <2>. QED BY <1>2, <1>8, <2>1, <2>2, ConcatAdjacentSubSeq
<1>13. p - 1 \in 0..Len(wire) /\ from \in 1..((p - 1) + 1) /\ (p - 1) - from + 1 = p - from /\ p - from \in Int
  BY <1>2, <1>6, <1>8
<1>14. /\ line = Stripped(lineNo + 1, SubSeq(wire, from, p - 1)) /\ line \in Seq(Bytes)
       /\ IsFiniteSet(Held(wire, lineNo + 1)) /\ Cardinality(Held(wire, lineNo + 1)) = Len(line)
       /\ p - from <= Len(line) + IF lineNo + 1 = 1 THEN Len(Bom) ELSE 0
       /\ Len(SubSeq(wire, from, p - 1)) = p - from
  <2>. DEFINE last == p - 1
  <2>1. LineBytes(wire, lineNo + 1, Len(wire)) = from..last /\ last \in 0..Len(wire) /\ from \in 1..(last + 1)
    BY <1>11, <1>13
  <2>2. last - from + 1 = p - from /\ lineNo + 1 \in Nat BY <1>2, <1>13
  <2>. HIDE DEF p, last, line
  <2>3. /\ LineText(wire, lineNo + 1) = Stripped(lineNo + 1, SubSeq(wire, from, last))
        /\ LineText(wire, lineNo + 1) \in Seq(Bytes) /\ IsFiniteSet(Held(wire, lineNo + 1))
        /\ Cardinality(Held(wire, lineNo + 1)) = Len(LineText(wire, lineNo + 1))
        /\ last - from + 1 <= Len(LineText(wire, lineNo + 1)) + IF lineNo + 1 = 1 THEN Len(Bom) ELSE 0
    BY <1>2, <2>1, <2>2, WholeLine
  <2>4. Len(SubSeq(wire, from, last)) = last - from + 1 BY <1>2, <2>1, TextOf
  <2>. QED BY <2>2, <2>3, <2>4 DEF last, line
<1>15. TakenLine(bytes) = line BY <1>2, <1>12, <1>14, Taken
<1>. HIDE DEF p, bytes, line
<1>16. Refused(line) <=> Offends(wire, lineNo + 1)
  BY <1>2, <1>14, RefusedOffends DEF line, FrameInv
<1>17. CASE Len(bytes) > LineLimit \/ Refused(TakenLine(bytes))
  <2>1. Offends(wire, lineNo + 1)
    <3>1. CASE Refused(TakenLine(bytes)) BY <1>15, <1>16, <3>1
    <3>2. CASE Len(bytes) > LineLimit
      <4>. DEFINE slack == IF lineNo + 1 = 1 THEN Len(Bom) ELSE 0
      <4>1. LineLimit = MaxLine + slack /\ slack \in Nat BY <1>2, BomTyped DEF LineLimit
      <4>2. p - from > LineLimit BY <1>12, <1>14, <3>2
      <4>3. p - from <= Len(line) + slack /\ Len(line) \in Nat
        <5>1. p - from <= Len(line) + slack BY <1>14
        <5>2. line \in Seq(Bytes) BY <1>14
        <5>. QED BY <5>1, <5>2
      <4>. HIDE DEF slack
      <4>4. Len(line) > MaxLine BY <1>2, <1>13, <4>1, <4>2, <4>3
      <4>. QED BY <4>4 DEF Offends, line
    <3>. QED BY <1>17, <3>1, <3>2
  <2>2. scanned' \in 0..fed BY <1>6, <1>7
  <2>. QED BY <1>1, <1>2, <1>7, <1>8, <1>17, <2>1, <2>2, ProtocolStep
<1>18. CASE ~(Len(bytes) > LineLimit \/ Refused(TakenLine(bytes)))
  <2>1. /\ lineNo' = lineNo + 1 /\ buffer' = <<>> /\ pendingCr' = (wire[p] = "cr") /\ status' = "running"
        /\ FrameLine(line) /\ ~Refused(line)
    BY <1>1, <1>6, <1>7, <1>15, <1>18 DEF TakeLine
  <2>2. /\ IsFrame(wire, lineNo + 1, frame')
        /\ frame' \in [id : Nat, data : Nat, event : BOOLEAN, fields : BOOLEAN, bytes : 0..MaxFrame]
        /\ lastId' \in Nat /\ IsLastOf(lastId', Committed(wire, lineNo + 1))
        /\ records' \in Seq(Outputs) /\ Lists(wire, records', Speaking(wire, lineNo + 1))
    BY <1>2, <1>11, <1>14, <2>1, LineTaken DEF line, FrameInv
  <2>3. \A k \in 1..(lineNo + 1) : ~Offends(wire, k)
    BY <1>2, <1>8, <1>16, <2>1, FirstOffence DEF FrameInv
  <2>4. FrameInv' BY <1>1, <2>1, <2>2, <2>3 DEF FrameInv
  <2>5. LineInv'
    <3>1. buffer' = SubSeq(wire, p + 1, p) BY <1>6, <2>1, SubSeqEmpty
    <3>2. pendingCr' = (scanned' > 0 /\ wire'[scanned'] = "cr") BY <1>1, <1>6, <1>7, <2>1
    <3>3. p + 1 \in 1..(p + 1) BY <1>6
    <3>. QED BY <1>1, <1>7, <1>11, <2>1, <3>1, <3>2, <3>3 DEF LineInv
  <2>6. TypeOK'
    <3>1. <<>> \in Seq(Bytes \ Terminators) /\ Len(<<>>) <= MaxLine + Len(Bom) BY <1>2, BomTyped
    <3>. QED BY <1>1, <1>2, <1>6, <1>7, <2>1, <2>2, <3>1 DEF TypeOK
  <2>. QED BY <1>1, <2>1, <2>2, <2>4, <2>5, <2>6 DEF IInv, RecordsFollowLines, EndMatches
<1>. QED BY <1>17, <1>18

\* What the frame of the last line holds, which no blank line ends.
LEMMA LastFrame ==
  ASSUME NEW w \in Seq(Bytes), NEW n \in Nat, NEW f \in Frames, IsFrame(w, n, f),
         NEW line, line = LineText(w, n + 1), line \in Seq(Bytes),
         IsFiniteSet(Held(w, n + 1)), Cardinality(Held(w, n + 1)) = Len(line),
         NEW g, g = IF IsBlank(line) \/ IsComment(line) THEN f ELSE Fields(f, line, n + 1)
  PROVE /\ g \in Frames /\ (g.data = 0 <=> Of(w, n + 1, "d") = {})
        /\ (g.id = NoId <=> Of(w, n + 1, "i") = {}) /\ LastOf(Of(w, n + 1, "i")) = g.id
        /\ g.bytes = f.bytes + Counted(line)
<1>1. /\ f.data \in Nat /\ f.bytes \in Nat
      /\ Cardinality(Of(w, n + 1, "d")) = IF Says(w, n + 1, "d") THEN f.data + 1 ELSE f.data
      /\ IsLastOf(IF Says(w, n + 1, "i") THEN n + 1 ELSE f.id, Of(w, n + 1, "i"))
  BY FrameWithLine
<1>2. \A field : Of(w, n + 1, field) \in SUBSET (1..(n + 1)) BY DEF Of, FrameLines
<1>3. g \in Frames /\ g.data = Cardinality(Of(w, n + 1, "d")) /\ IsLastOf(g.id, Of(w, n + 1, "i"))
      /\ g.bytes = f.bytes + Counted(line)
  <2>1. CASE IsBlank(line) \/ IsComment(line)
    <3>1. ~Says(w, n + 1, "d") /\ ~Says(w, n + 1, "i") BY <2>1 DEF Says, IsBlank, IsComment
    <3>2. Counted(line) = 0 BY <2>1 DEF Counted
    <3>. QED BY <1>1, <2>1, <3>1, <3>2
  <2>2. CASE ~(IsBlank(line) \/ IsComment(line))
    <3>1. line # <<>> /\ line[1] # "c" /\ g = Fields(f, line, n + 1) BY <2>2 DEF IsBlank, IsComment
    <3>2. IsFrame(w, n + 1, g) /\ g \in Frames BY <3>1, FieldJoins
    <3>3. \A field : PendingOf(w, n + 1, field) = Of(w, n + 1, field) BY <3>1, FrameGrows
    <3>4. g.bytes = f.bytes + Counted(line)
      <4>1. Counted(line) = Len(line) BY <2>2 DEF Counted
      <4>. QED BY <3>1, <4>1 DEF Fields, Frames
    <3>. QED BY <3>2, <3>3, <3>4 DEF IsFrame
  <2>. QED BY <2>1, <2>2
<1>4. g.data = 0 <=> Of(w, n + 1, "d") = {}
  <2>1. Of(w, n + 1, "d") \in SUBSET (1..(n + 1)) /\ n + 1 \in Nat BY <1>2
  <2>2. IsFiniteSet(Of(w, n + 1, "d")) BY <2>1, FinitePart
  <2>. QED BY <1>3, <2>2, FS_EmptySet
<1>5. (g.id = NoId <=> Of(w, n + 1, "i") = {}) /\ LastOf(Of(w, n + 1, "i")) = g.id
  <2>1. Of(w, n + 1, "i") \in SUBSET Nat BY <1>2
  <2>2. LastOf(Of(w, n + 1, "i")) = g.id BY <1>3, <2>1, LastOfIs
  <2>3. Of(w, n + 1, "i") \in SUBSET (1..(n + 1)) BY <1>2
  <2>. QED BY <1>3, <2>2, <2>3 DEF IsLastOf, NoId
<1>. QED BY <1>3, <1>4, <1>5

\* What comes out last is the last of what came out.
LEMMA OutLast ==
  ASSUME NEW sequence \in Seq(Outputs), NEW record \in Outputs
  PROVE /\ sequence \o <<record>> \in Seq(Outputs) /\ sequence \o <<record>> # <<>>
        /\ Last(sequence \o <<record>>) = record /\ Front(sequence \o <<record>>) = sequence
<1>. HIDE DEF Outputs
<1>. DEFINE longer == sequence \o <<record>>
<1>1. /\ longer \in Seq(Outputs) /\ longer # <<>> /\ Len(longer) = Len(sequence) + 1 /\ Len(sequence) \in Nat
      /\ \A i \in 1..Len(sequence) : longer[i] = sequence[i]
      /\ longer[Len(sequence) + 1] = record
  OBVIOUS
<1>. HIDE DEF longer
<1>2. Len(longer) - 1 = Len(sequence) BY <1>1
<1>3. SubSeq(longer, 1, Len(sequence)) = sequence
  <2>1. \A i \in 1..Len(sequence) : longer[i] \in Outputs BY <1>1, ElementOfSeq
  <2>2. /\ SubSeq(longer, 1, Len(sequence)) \in Seq(Outputs)
        /\ Len(SubSeq(longer, 1, Len(sequence))) = Len(sequence)
        /\ \A i \in 1..Len(sequence) : SubSeq(longer, 1, Len(sequence))[i] = longer[i]
    BY <1>1, <2>1
  <2>. QED BY <1>1, <2>2, SeqEqual
<1>. QED BY <1>1, <1>2, <1>3 DEF Last, Front, longer

\* At the end of the body the last line is taken as a line, or refused as one; data
\* waiting for a blank line is dropped, an identifier without data comes out.
LEMMA EofStep == ASSUME IInv, Eof PROVE IInv'
<1>. DEFINE line == TakenLine(buffer)
            last == LastLine(wire)
            out == records \o (IF line # <<>> /\ line[1] = "r" THEN <<Retry(last)>> ELSE <<>>)
<1>1. /\ status = "running" /\ scanned = Len(wire) /\ wire' = wire /\ fed' = fed /\ scanned' = scanned
      /\ UNCHANGED <<wire, fed>>
      /\ Refused(line) => ProtocolError
      /\ ~Refused(line) =>
           /\ lineNo' = lineNo + 1 /\ status' = "ended"
           /\ frame' = IF IsBlank(line) \/ IsComment(line) THEN frame ELSE WithField(line)
           /\ records' = records
                \o (IF line # <<>> /\ line[1] = "r" THEN <<Retry(lineNo')>> ELSE <<>>) \o KeptId(frame')
           /\ buffer' = buffer /\ pendingCr' = pendingCr /\ lastId' = lastId
  BY DEF Eof, AtEnd
<1>2. /\ TypeOK /\ LineInv /\ FrameInv /\ Lists(wire, records, Speaking(wire, lineNo))
      /\ wire \in Seq(Bytes) /\ Len(wire) \in Nat /\ scanned \in Nat /\ fed \in Nat /\ scanned <= fed /\ fed <= Len(wire)
      /\ MaxFrame \in Nat /\ lineNo \in Nat /\ last \in Nat /\ frame \in Frames /\ lastId \in Nat
      /\ records \in Seq(Outputs)
  BY <1>1, WireTyped DEF IInv, RecordsFollowLines
<1>3. PICK from \in 1..(scanned + 1) :
        /\ Collects(wire, from, scanned) /\ buffer = SubSeq(wire, from, scanned)
        /\ lineNo = EndsBefore(wire, scanned + 1) /\ lineNo + 1 \in 1..LastLine(wire)
  BY <1>2, Collected
<1>4. lineNo + 1 = last /\ LineBytes(wire, lineNo + 1, Len(wire)) = from..Len(wire)
  BY <1>1, <1>2, <1>3, CollectsLast
<1>5. /\ line = LineText(wire, lineNo + 1) /\ line \in Seq(Bytes)
      /\ IsFiniteSet(Held(wire, lineNo + 1)) /\ Cardinality(Held(wire, lineNo + 1)) = Len(line)
  <2>1. Len(wire) \in 0..Len(wire) /\ from \in 1..(Len(wire) + 1) /\ lineNo + 1 \in Nat BY <1>1, <1>2, <1>3
  <2>2. /\ LineText(wire, lineNo + 1) = Stripped(lineNo + 1, SubSeq(wire, from, Len(wire)))
        /\ LineText(wire, lineNo + 1) \in Seq(Bytes) /\ IsFiniteSet(Held(wire, lineNo + 1))
        /\ Cardinality(Held(wire, lineNo + 1)) = Len(LineText(wire, lineNo + 1))
    BY <1>2, <1>4, <2>1, WholeLine
  <2>3. line = Stripped(lineNo + 1, SubSeq(wire, from, Len(wire))) BY <1>1, <1>2, <1>3, Taken
  <2>. HIDE DEF line
  <2>. QED BY <2>2, <2>3
<1>. HIDE DEF line, last
<1>6. Refused(line) <=> Offends(wire, lineNo + 1)
  BY <1>2, <1>5, RefusedOffends DEF FrameInv
<1>7. CASE Refused(line)
  <2>1. scanned' \in 0..fed BY <1>1, <1>2
  <2>. QED BY <1>1, <1>2, <1>3, <1>6, <1>7, <2>1, ProtocolStep
<1>8. CASE ~Refused(line)
  <2>1. last \in GoodLines(wire) BY <1>2, <1>3, <1>4, <1>6, <1>8, FirstOffence DEF FrameInv, last
  <2>2. out \in Seq(Outputs) /\ Lists(wire, out, Speaking(wire, last))
    <3>0. records \o <<>> = records
      <4>. HIDE DEF Outputs
      <4>. QED BY <1>2, ConcatEmptySeq
    <3>1. CASE line # <<>> /\ line[1] = "r"
      <4>1. Retry(last) \in Outputs /\ Retry(last).line = last BY <1>2, RecordsTyped
      <4>2. last \in Speaking(wire, last) /\ Emitted(wire, last) = Retry(last) BY <1>2, <1>4, <1>5, <3>1, TextSpeaks
      <4>3. out = records \o <<Retry(last)>> BY <3>1
      <4>4. out \in Seq(Outputs)
        <5>. HIDE DEF Outputs, out
        <5>. QED BY <1>2, <4>1, <4>3
      <4>. HIDE DEF out
      <4>. QED BY <1>2, <1>4, <4>1, <4>2, <4>3, <4>4, ListsMore
    <3>2. CASE ~(line # <<>> /\ line[1] = "r")
      <4>1. last \notin Speaking(wire, last)
        <5>1. CASE line = <<>> BY <1>2, <1>4, <1>5, <5>1, LastBlankIsSilent DEF last
        <5>2. CASE line # <<>> BY <1>2, <1>4, <1>5, <3>2, <5>2, TextSpeaks
        <5>. QED BY <5>1, <5>2
      <4>2. out = records BY <3>0, <3>2
      <4>. HIDE DEF out
      <4>. QED BY <1>2, <1>4, <4>1, <4>2, ListsMore
    <3>. QED BY <3>1, <3>2
  <2>3. frame' = IF IsBlank(line) \/ IsComment(line) THEN frame ELSE Fields(frame, line, lineNo + 1)
    BY <1>1, <1>8 DEF WithField, Fields
  <2>4. /\ frame' \in Frames /\ (frame'.data = 0 <=> Of(wire, last, "d") = {})
        /\ (frame'.id = NoId <=> Of(wire, last, "i") = {}) /\ LastOf(Of(wire, last, "i")) = frame'.id
        /\ frame'.bytes = frame.bytes + Counted(line)
    BY <1>2, <1>4, <1>5, <2>3, LastFrame DEF FrameInv
  <2>5. records' = out \o KeptId(frame')
    <3>1. lineNo' = last BY <1>1, <1>4, <1>8
    <3>. QED BY <1>1, <1>8, <3>1
  <2>6. KeptId(frame') = IF frame'.id # NoId /\ frame'.data = 0 THEN <<Control(last + 1, frame'.id)>> ELSE <<>>
    BY <1>1, <1>4, <1>8 DEF KeptId
  <2>. HIDE DEF out
  <2>7. /\ records' \in Seq(Outputs)
        /\ IF Of(wire, last, "d") = {} /\ Of(wire, last, "i") # {}
             THEN /\ records' # <<>> /\ Last(records') = Control(last + 1, LastOf(Of(wire, last, "i")))
                  /\ Lists(wire, Front(records'), Speaking(wire, last))
             ELSE Lists(wire, records', Speaking(wire, last))
    <3>1. CASE frame'.id # NoId /\ frame'.data = 0
      <4>. DEFINE record == Control(last + 1, frame'.id)
      <4>1. record \in Outputs
        <5>1. last + 1 \in Nat /\ frame'.id \in Nat BY <1>2, <2>4 DEF Frames
        <5>. QED BY <5>1, RecordsTyped
      <4>2. records' = out \o <<record>> BY <2>5, <2>6, <3>1
      <4>. HIDE DEF record
      <4>3. records' \in Seq(Outputs) /\ records' # <<>> /\ Last(records') = record /\ Front(records') = out
        BY <2>2, <4>1, <4>2, OutLast
      <4>. QED BY <2>2, <2>4, <3>1, <4>3 DEF record
    <3>2. CASE ~(frame'.id # NoId /\ frame'.data = 0)
      <4>1. records' = out
        <5>1. records' = out \o <<>> BY <2>5, <2>6, <3>2
        <5>. HIDE DEF Outputs
        <5>. QED BY <2>2, <5>1, ConcatEmptySeq
      <4>. QED BY <2>2, <2>4, <3>2, <4>1
    <3>. QED BY <3>1, <3>2
  <2>8. frame' \in [id : Nat, data : Nat, event : BOOLEAN, fields : BOOLEAN, bytes : 0..MaxFrame]
    <3>1. PICK f \in Frames : f = frame' BY <2>4
    <3>2. ~(frame.bytes + Counted(line) > MaxFrame) BY <1>8 DEF Refused
    <3>3. f.bytes \in 0..MaxFrame BY <1>2, <2>4, <3>1, <3>2 DEF Frames
    <3>4. f \in [id : Nat, data : Nat, event : BOOLEAN, fields : BOOLEAN, bytes : 0..MaxFrame]
      BY <3>3 DEF Frames
    <3>. QED BY <3>1, <3>4
  <2>9. TypeOK' BY <1>1, <1>2, <1>8, <2>7, <2>8 DEF TypeOK
  <2>10. status' = "ended" BY <1>1, <1>8
  <2>11. EndMatches' BY <1>1, <2>1, <2>7, <2>10 DEF EndMatches, last
  <2>. QED BY <2>9, <2>10, <2>11 DEF IInv, RecordsFollowLines
<1>. QED BY <1>7, <1>8

\* Before the first byte nothing is collected and nothing has come out.
LEMMA InitIInv == ASSUME Init PROVE IInv
<1>1. /\ wire \in Wires /\ wire \in Seq(Bytes) /\ fed = 0 /\ scanned = 0 /\ buffer = <<>> /\ pendingCr = FALSE
      /\ lineNo = 0 /\ frame = EmptyFrame /\ lastId = NoId /\ records = <<>> /\ status = "running"
  BY WireAssumption DEF Init
<1>2. Len(wire) \in Nat /\ EndsBefore(wire, 1) = 0 BY <1>1, EndsCount, FirstLine
<1>3. TypeOK
  <2>1. 0 \in 0..Len(wire) /\ 0 \in 0..0 /\ 0 \in 0..MaxFrame /\ Len(<<>>) <= MaxLine + Len(Bom)
    BY <1>2, LimitAssumption, BomTyped
  <2>2. EmptyFrame \in [id : Nat, data : Nat, event : BOOLEAN, fields : BOOLEAN, bytes : 0..MaxFrame]
    BY <2>1 DEF EmptyFrame, NoId
  <2>3. <<>> \in Seq(Bytes \ Terminators) /\ <<>> \in Seq(Outputs) OBVIOUS
  <2>. QED BY <1>1, <2>1, <2>2, <2>3 DEF TypeOK, NoId
<1>4. LineInv
  <2>1. Collects(wire, 1, 0)
    <3>1. LineBytes(wire, 1, 0) = {} /\ 1..0 = {} BY DEF LineBytes
    <3>. QED BY <1>2, <3>1 DEF Collects
  <2>2. SubSeq(wire, 1, 0) = <<>> BY SubSeqEmpty
  <2>3. 1 \in 1..(scanned + 1) /\ scanned + 1 = 1 /\ ~(scanned > 0) BY <1>1
  <2>. QED BY <1>1, <1>2, <2>1, <2>2, <2>3 DEF LineInv
<1>5. FrameInv
  <2>1. Pending(wire, 0) = {} /\ Committed(wire, 0) = {} BY DEF Pending, Committed
  <2>2. (\A field : PendingOf(wire, 0, field) = {}) /\ PendingBytes(wire, 0) = {} BY <2>1 DEF PendingOf, PendingBytes
  <2>3. Cardinality({}) = 0 BY FS_EmptySet
  <2>4. frame.id = 0 /\ frame.data = 0 /\ frame.event = FALSE /\ frame.fields = FALSE /\ frame.bytes = 0
    BY <1>1 DEF EmptyFrame, NoId
  <2>5. IsFrame(wire, 0, frame) BY <2>2, <2>3, <2>4 DEF IsFrame, IsLastOf, NoId
  <2>. QED BY <1>1, <2>1, <2>5 DEF FrameInv, IsLastOf, NoId
<1>6. Lists(wire, records, Speaking(wire, 0)) BY <1>1 DEF Lists, Speaking
<1>. QED BY <1>1, <1>3, <1>4, <1>5, <1>6 DEF IInv, RecordsFollowLines, EndMatches

\* No step breaks the invariant.
LEMMA StepIInv == ASSUME IInv, [Next]_vars PROVE IInv'
<1>1. CASE \E n \in 1..(Len(wire) - fed) : Feed(n) BY <1>1, FeedStep
<1>2. CASE ScanRun BY <1>2, ScanRunStep
<1>3. CASE SkipLf BY <1>3, SkipLfStep
<1>4. CASE ScanLine BY <1>4, ScanLineStep
<1>5. CASE Eof BY <1>5, EofStep
<1>6. CASE Fail BY <1>6, FailStep
<1>7. CASE UNCHANGED vars
  <2>1. /\ wire' = wire /\ fed' = fed /\ scanned' = scanned /\ buffer' = buffer /\ pendingCr' = pendingCr
        /\ lineNo' = lineNo /\ frame' = frame /\ lastId' = lastId /\ records' = records /\ status' = status
    BY <1>7 DEF vars, lineVars, frameVars
  <2>. QED BY <2>1 DEF IInv, TypeOK, LineInv, FrameInv, RecordsFollowLines, EndMatches
<1>. QED BY <1>1, <1>2, <1>3, <1>4, <1>5, <1>6, <1>7 DEF Next

\* The collected line is the text of the bytes looked at behind the last line end.
LEMMA LineInvIsExact == ASSUME TypeOK, LineInv PROVE LinesAreExact
<1>1. PICK from \in 1..(scanned + 1) : Collects(wire, from, scanned) /\ buffer = SubSeq(wire, from, scanned)
  BY DEF LineInv
<1>2. wire \in Seq(Bytes) /\ scanned \in 0..Len(wire) BY WireTyped
<1>3. Text(wire, from..scanned) = buffer BY <1>1, <1>2, TextOf
<1>4. lineNo = EndsBefore(wire, scanned + 1) BY DEF LineInv
<1>. QED BY <1>1, <1>3, <1>4 DEF LinesAreExact, Collects

-----------------------------------------------------------------------------
(* What holds of every run of the decoder.                                 *)

\* The inductive invariant: the decoder's fields are what the wire says of the
\* lines it has taken (decode_lines, decode_records).
THEOREM Inductive == Spec => []IInv
<1>1. Init => IInv BY InitIInv
<1>2. IInv /\ [Next]_vars => IInv' BY StepIInv
<1>. QED BY <1>1, <1>2, PTL DEF Spec

\* The collected line never exceeds its limit by more than the byte order mark, nor a
\* pending frame its own (max_line_bytes, max_frame_bytes).
THEOREM TypeCorrect == Spec => []TypeOK
<1>1. IInv => TypeOK BY DEF IInv
<1>. QED BY <1>1, Inductive, PTL

\* However the bytes are cut, the decoder has taken exactly the lines that ended and
\* holds the beginning of the next (decode_lines, pending_cr).
THEOREM LinesExact == Spec => []LinesAreExact
<1>1. IInv => LinesAreExact BY LineInvIsExact DEF IInv, LinesAreExact
<1>. QED BY <1>1, Inductive, PTL

\* What came out is what the lines taken so far mean (decode_records).
THEOREM RecordsFollow == Spec => []RecordsFollowLines
<1>1. IInv => RecordsFollowLines BY DEF IInv
<1>. QED BY <1>1, Inductive, PTL

\* At a clean end nothing is missing, and a protocol error comes at the first line
\* that offends, after everything before it (decode_records, end of the stream).
THEOREM EndsMatch == Spec => []EndMatches
<1>1. IInv => EndMatches BY DEF IInv
<1>. QED BY <1>1, Inductive, PTL
=============================================================================
