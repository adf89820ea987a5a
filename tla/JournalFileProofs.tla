--------------------------- MODULE JournalFileProofs ---------------------------
(***************************************************************************)
(* Proofs about JournalFile: writers know their file, whatever the records *)
(* and however many processes, and the file is a durable log.              *)
(***************************************************************************)
EXTENDS JournalFile, NaturalLemmas, SequenceTheorems

(***************************************************************************)
(* Sequences of anything: cells and records have no common type.           *)
(***************************************************************************)
IsSequence(s) == \E S : s \in Seq(S)

LEMMA CommonElements ==
  ASSUME NEW s, NEW t, IsSequence(s), IsSequence(t)
  PROVE  \E S : s \in Seq(S) /\ t \in Seq(S)
  <1>1. PICK S : s \in Seq(S)
    BY DEF IsSequence
  <1>2. PICK T : t \in Seq(T)
    BY DEF IsSequence
  <1>3. s \in Seq(S \cup T) /\ t \in Seq(S \cup T)
    BY <1>1, <1>2
  <1> QED BY <1>3

LEMMA LengthOfSequence ==
  ASSUME NEW s, IsSequence(s)
  PROVE  Len(s) \in Nat /\ DOMAIN s = 1..Len(s)
  BY DEF IsSequence

LEMMA AppendIsSequence ==
  ASSUME NEW s, NEW x, IsSequence(s)
  PROVE  /\ IsSequence(Append(s, x)) /\ Len(Append(s, x)) = Len(s) + 1
         /\ \A i \in 1..Len(s) : Append(s, x)[i] = s[i]
         /\ Append(s, x)[Len(s) + 1] = x
  <1>1. PICK S : s \in Seq(S)
    BY DEF IsSequence
  <1>2. s \in Seq(S \cup {x})
    BY <1>1
  <1>3. Append(s, x) \in Seq(S \cup {x})
    BY <1>2
  <1> QED BY <1>2, <1>3 DEF IsSequence

LEMMA ConcatIsSequence ==
  ASSUME NEW s, NEW t, IsSequence(s), IsSequence(t)
  PROVE  /\ IsSequence(s \o t) /\ Len(s \o t) = Len(s) + Len(t)
         /\ \A i \in 1..Len(s) : (s \o t)[i] = s[i]
         /\ \A i \in 1..Len(t) : (s \o t)[Len(s) + i] = t[i]
  <1>1. PICK S : s \in Seq(S) /\ t \in Seq(S)
    BY CommonElements
  <1>2. s \o t \in Seq(S)
    BY <1>1
  <1> QED BY <1>1, <1>2 DEF IsSequence

LEMMA PrefixIsSequence ==
  ASSUME NEW s, IsSequence(s), NEW k \in 0..Len(s)
  PROVE  /\ IsSequence(SubSeq(s, 1, k)) /\ Len(SubSeq(s, 1, k)) = k
         /\ \A i \in 1..k : SubSeq(s, 1, k)[i] = s[i]
  <1>1. PICK S : s \in Seq(S)
    BY DEF IsSequence
  <1>2. SubSeq(s, 1, k) \in Seq(S)
    BY <1>1
  <1> QED BY <1>1, <1>2 DEF IsSequence

-----------------------------------------------------------------------------
(***************************************************************************)
(* The loop that reads frames is a recursive function; there is one with   *)
(* the values its definition gives.                                        *)
(***************************************************************************)
ReadsUpTo(g, m, bytes) ==
  g = [k \in 0..m |-> IF k = 0 THEN {NoFrames} ELSE {NextFrame(bytes, r) : r \in g[k - 1]}]

LEMMA FramesAreDefined ==
  ASSUME NEW bytes, Len(bytes) \in Nat
  PROVE  /\ InspectFrames(bytes)[0] = {NoFrames}
         /\ \A k \in 1..Len(bytes) :
              InspectFrames(bytes)[k] = {NextFrame(bytes, r) : r \in InspectFrames(bytes)[k - 1]}
  <1> DEFINE n == Len(bytes)
             K == {m \in 0..n : \E g : ReadsUpTo(g, m, bytes)}
  <1>1. 0 \in K
    <2>1. ReadsUpTo([k \in 0..0 |-> {NoFrames}], 0, bytes)
      BY DEF ReadsUpTo
    <2> QED BY <2>1
  <1>2. ASSUME NEW m \in 0..(n - 1), m \in K
        PROVE  m + 1 \in K
    <2>1. PICK g : ReadsUpTo(g, m, bytes)
      BY <1>2
    <2> DEFINE last == {NextFrame(bytes, r) : r \in g[m]}
               h == [k \in 0..(m + 1) |-> IF k = m + 1 THEN last ELSE g[k]]
    <2>2. ASSUME NEW k \in 0..(m + 1)
          PROVE  h[k] = IF k = 0 THEN {NoFrames} ELSE {NextFrame(bytes, r) : r \in h[k - 1]}
      <3>1. CASE k = m + 1
        <4>1. h[k] = last /\ h[k - 1] = g[m] /\ k # 0
          BY <3>1
        <4> QED BY <4>1
      <3>2. CASE k # m + 1 /\ k # 0
        <4>1. k \in 0..m /\ k - 1 \in 0..m /\ h[k] = g[k] /\ h[k - 1] = g[k - 1]
          BY <3>2
        <4> QED BY <2>1, <3>2, <4>1 DEF ReadsUpTo
      <3>3. CASE k = 0
        <4>1. k \in 0..m /\ h[k] = g[k]
          BY <3>3
        <4> QED BY <2>1, <3>3, <4>1 DEF ReadsUpTo
      <3> QED BY <3>1, <3>2, <3>3
    <2>3. h = [k \in 0..(m + 1) |-> h[k]]
      OBVIOUS
    <2> HIDE DEF h
    <2>4. ReadsUpTo(h, m + 1, bytes)
      BY <2>2, <2>3 DEF ReadsUpTo
    <2> QED BY <2>4
  <1>3. n \in K
    <2>1. n \in Nat
      OBVIOUS
    <2> HIDE DEF K, n
    <2>2. \A m \in 0..n : m \in K
      BY <1>1, <1>2, <2>1, BoundedInduction
    <2> QED BY <2>1, <2>2
  <1>4. \E g : ReadsUpTo(g, n, bytes)
    BY <1>3
  <1>5. InspectFrames(bytes) = CHOOSE g : ReadsUpTo(g, n, bytes)
    BY Zenon DEF InspectFrames, ReadsUpTo
  <1>6. ReadsUpTo(InspectFrames(bytes), n, bytes)
    BY <1>4, <1>5, Zenon
  <1> QED BY <1>6 DEF ReadsUpTo

\* What has been read after k rounds.
ReadAfter(bytes, k) == CHOOSE r \in InspectFrames(bytes)[k] : TRUE

LEMMA ReadAfterIs ==
  ASSUME NEW bytes, Len(bytes) \in Nat
  PROVE  /\ ReadAfter(bytes, 0) = NoFrames
         /\ \A k \in 0..(Len(bytes) - 1) :
              ReadAfter(bytes, k + 1) = NextFrame(bytes, ReadAfter(bytes, k))
         /\ InspectJournal(bytes) = ReadAfter(bytes, Len(bytes))
  <1> DEFINE f == InspectFrames(bytes)
             n == Len(bytes)
             T == {k \in 0..n : f[k] = {ReadAfter(bytes, k)}}
  <1>1. f[0] = {NoFrames} /\ \A k \in 1..n : f[k] = {NextFrame(bytes, r) : r \in f[k - 1]}
    BY FramesAreDefined
  <1>2. ASSUME NEW k, NEW x, f[k] = {x}
        PROVE  ReadAfter(bytes, k) = x
    <2>1. (CHOOSE r \in {x} : TRUE) \in {x}
      OBVIOUS
    <2> QED BY <1>2, <2>1 DEF ReadAfter
  <1>3. ASSUME NEW k \in 0..(n - 1), k \in T
        PROVE  ReadAfter(bytes, k + 1) = NextFrame(bytes, ReadAfter(bytes, k)) /\ k + 1 \in T
    <2>1. f[k + 1] = {NextFrame(bytes, r) : r \in f[k]} /\ f[k] = {ReadAfter(bytes, k)}
      BY <1>1, <1>3
    <2>2. f[k + 1] = {NextFrame(bytes, ReadAfter(bytes, k))}
      BY <2>1
    <2>3. ReadAfter(bytes, k + 1) = NextFrame(bytes, ReadAfter(bytes, k))
      BY <1>2, <2>2
    <2> QED BY <2>2, <2>3
  <1>4. ReadAfter(bytes, 0) = NoFrames /\ 0 \in T
    <2>1. f[0] = {NoFrames}
      BY <1>1
    <2>2. ReadAfter(bytes, 0) = NoFrames
      BY <1>2, <2>1
    <2>3. 0 \in 0..n
      OBVIOUS
    <2> QED BY <2>1, <2>2, <2>3
  <1>5. \A k \in 0..n : k \in T
    <2>1. n \in Nat
      OBVIOUS
    <2> HIDE DEF T, n
    <2> QED BY <1>3, <1>4, <2>1, BoundedInduction
  <1>6. \A k \in 0..(n - 1) : ReadAfter(bytes, k + 1) = NextFrame(bytes, ReadAfter(bytes, k))
    BY <1>3, <1>5
  <1> QED BY <1>4, <1>6, Zenon DEF InspectJournal, ReadAfter

-----------------------------------------------------------------------------
(***************************************************************************)
(* What a round reads.                                                     *)
(***************************************************************************)
SoundCells(bytes) ==
  /\ IsSequence(bytes)
  /\ \A i \in 1..Len(bytes) : bytes[i].cell = "tail" => bytes[i].length \in {0, 1}

\* A whole frame at offset o, which decode_journal accepts.
FrameAt(bytes, o, version, count) ==
  /\ o + 1 <= Len(bytes) /\ bytes[o].cell = "head" /\ bytes[o + 1].cell = "tail"
  /\ bytes[o].version \in Supported
  /\ count > 0 => bytes[o].version = version
  /\ bytes[o + 1].sequence = count /\ o + 1 + bytes[o + 1].length <= Len(bytes)
  /\ bytes[o + 1].length = 1 => bytes[o + 2].cell = "payload"
  /\ bytes[o + 1].checksum = <<bytes[o].version, count, RecordAt(bytes, o)>>

LEMMA IssueIsNone ==
  ASSUME NEW bytes, SoundCells(bytes), NEW o \in 1..Len(bytes), NEW version, NEW count
  PROVE  FrameIssue(bytes, o, version, count) = "none" <=> FrameAt(bytes, o, version, count)
  <1>1. Len(bytes) \in Nat
    BY LengthOfSequence DEF SoundCells
  <1>2. o + 1 <= Len(bytes) /\ bytes[o + 1].cell = "tail" => bytes[o + 1].length \in {0, 1}
    BY <1>1 DEF SoundCells
  <1> DEFINE tuple == <<bytes[o].version, count, RecordAt(bytes, o)>>
             sum == bytes[o + 1].checksum
             supported == bytes[o].version \in Supported
             payload == bytes[o + 2].cell
  <1>3. FrameIssue(bytes, o, version, count) =
          LET remaining == Len(bytes) - o + 1
              head == bytes[o]
              tail == bytes[o + 1]
          IN  IF remaining < 2 THEN "TruncatedHeader"
              ELSE IF head.cell # "head" THEN "InvalidMagic"
              ELSE IF ~supported THEN "UnsupportedVersion"
              ELSE IF count > 0 /\ head.version # version THEN "MixedVersion"
              ELSE IF tail.cell # "tail" \/ tail.sequence # count THEN "SequenceMismatch"
              ELSE IF remaining < 2 + tail.length THEN "TruncatedPayload"
              ELSE IF tail.length = 1 /\ payload # "payload" THEN "ChecksumMismatch"
              ELSE IF sum # tuple THEN "ChecksumMismatch"
              ELSE "none"
    BY DEF FrameIssue
  <1>4. FrameAt(bytes, o, version, count) <=>
          /\ o + 1 <= Len(bytes) /\ bytes[o].cell = "head" /\ bytes[o + 1].cell = "tail"
          /\ supported
          /\ count > 0 => bytes[o].version = version
          /\ bytes[o + 1].sequence = count /\ o + 1 + bytes[o + 1].length <= Len(bytes)
          /\ bytes[o + 1].length = 1 => payload = "payload"
          /\ sum = tuple
    BY DEF FrameAt
  <1> HIDE DEF tuple, sum, supported, payload
  <1> QED BY <1>1, <1>2, <1>3, <1>4

\* What has been read by now is a record of sequences, and every round
\* without an issue moves on.
ReadOK(bytes, k, r) ==
  /\ r = [offset |-> r.offset, version |-> r.version, records |-> r.records, issue |-> r.issue]
  /\ r.offset \in 1..(Len(bytes) + 1) /\ IsSequence(r.records)
  /\ r.issue = "none" => r.offset > Len(bytes) \/ r.offset > k
  /\ Len(r.records) > 0 => r.version \in Supported

AfterFrame(bytes, r) ==
  [offset  |-> r.offset + 2 + bytes[r.offset + 1].length,
   version |-> bytes[r.offset].version,
   records |-> Append(r.records, RecordAt(bytes, r.offset)),
   issue   |-> "none"]

Issue(bytes, r) == FrameIssue(bytes, r.offset, r.version, Len(r.records))

LEMMA NextFrameIs ==
  ASSUME NEW bytes, NEW r
  PROVE  /\ r.issue # "none" \/ r.offset > Len(bytes) => NextFrame(bytes, r) = r
         /\ r.issue = "none" /\ ~(r.offset > Len(bytes)) =>
              /\ Issue(bytes, r) = "none" => NextFrame(bytes, r) = AfterFrame(bytes, r)
              /\ Issue(bytes, r) # "none" =>
                   NextFrame(bytes, r) = [r EXCEPT !.issue = Issue(bytes, r)]
  BY Zenon DEF NextFrame, AfterFrame, Issue

LEMMA NextFrameIsOK ==
  ASSUME NEW bytes, SoundCells(bytes), NEW k \in Nat, NEW r, ReadOK(bytes, k, r)
  PROVE  ReadOK(bytes, k + 1, NextFrame(bytes, r))
  <1>1. Len(bytes) \in Nat /\ Len(r.records) \in Nat
    BY LengthOfSequence DEF SoundCells, ReadOK
  <1>2. CASE r.issue # "none" \/ r.offset > Len(bytes)
    BY <1>1, <1>2, NextFrameIs DEF ReadOK
  <1>3. CASE r.issue = "none" /\ r.offset <= Len(bytes) /\ Issue(bytes, r) = "none"
    <2>1. r.offset \in 1..Len(bytes)
      BY <1>1, <1>3 DEF ReadOK
    <2>2. FrameAt(bytes, r.offset, r.version, Len(r.records))
      BY <1>3, <2>1, IssueIsNone DEF Issue
    <2>3. bytes[r.offset + 1].length \in {0, 1}
      BY <2>1, <2>2, <1>1 DEF FrameAt, SoundCells
    <2>4. NextFrame(bytes, r) = AfterFrame(bytes, r)
      BY <1>1, <1>3, <2>1, NextFrameIs
    <2>5. IsSequence(Append(r.records, RecordAt(bytes, r.offset)))
      BY AppendIsSequence DEF ReadOK
    <2>6. ReadOK(bytes, k + 1, AfterFrame(bytes, r))
      <3>1. r.offset > k
        BY <1>3, <2>1, <1>1 DEF ReadOK
      <3> DEFINE next == AfterFrame(bytes, r)
                 length == bytes[r.offset + 1].length
      <3>2. next = [offset |-> next.offset, version |-> next.version, records |-> next.records, issue |-> next.issue]
        BY DEF AfterFrame
      <3>3. /\ next.offset = r.offset + 2 + length /\ next.version = bytes[r.offset].version
            /\ next.records = Append(r.records, RecordAt(bytes, r.offset)) /\ next.issue = "none"
        BY DEF AfterFrame
      <3>4. r.offset + 1 + length <= Len(bytes) /\ next.version \in Supported
        BY <2>2, <3>3 DEF FrameAt
      <3> HIDE DEF next, length
      <3>5. next.offset \in 1..(Len(bytes) + 1) /\ next.offset > k + 1
        <4>1. length \in {0, 1}
          BY <2>3 DEF length
        <4> QED BY <1>1, <2>1, <3>1, <3>3, <3>4, <4>1
      <3> QED BY <2>5, <3>2, <3>3, <3>4, <3>5 DEF ReadOK, next
    <2> QED BY <2>4, <2>6
  <1>4. CASE r.issue = "none" /\ r.offset <= Len(bytes) /\ Issue(bytes, r) # "none"
    <2>1. NextFrame(bytes, r) = [r EXCEPT !.issue = Issue(bytes, r)]
      BY <1>1, <1>4, NextFrameIs DEF ReadOK
    <2> DEFINE i == Issue(bytes, r)
    <2>2. i # "none"
      BY <1>4
    <2> HIDE DEF i
    <2>3. ReadOK(bytes, k + 1, [r EXCEPT !.issue = i])
      BY <2>2, <1>1 DEF ReadOK
    <2> QED BY <2>1, <2>3 DEF i
  <1> QED
    <2>1. r.offset > Len(bytes) \/ r.offset <= Len(bytes)
      BY <1>1 DEF ReadOK
    <2> QED BY <1>2, <1>3, <1>4, <2>1

LEMMA ReadingIsOK ==
  ASSUME NEW bytes, SoundCells(bytes)
  PROVE  \A k \in 0..Len(bytes) : ReadOK(bytes, k, ReadAfter(bytes, k))
  <1> DEFINE n == Len(bytes)
             T == {k \in 0..n : ReadOK(bytes, k, ReadAfter(bytes, k))}
  <1>1. n \in Nat
    BY LengthOfSequence DEF SoundCells
  <1>2. 0 \in T
    <2>1. IsSequence(<< >>) /\ Len(<< >>) = 0
      BY DEF IsSequence
    <2>2. ReadOK(bytes, 0, NoFrames)
      BY <1>1, <2>1 DEF ReadOK, NoFrames
    <2> QED BY <1>1, <2>2, ReadAfterIs
  <1>3. ASSUME NEW k \in 0..(n - 1), k \in T
        PROVE  k + 1 \in T
    BY <1>1, <1>3, NextFrameIsOK, ReadAfterIs
  <1> HIDE DEF T, n
  <1>4. \A k \in 0..n : k \in T
    BY <1>1, <1>2, <1>3, BoundedInduction
  <1> QED BY <1>4 DEF T, n


-----------------------------------------------------------------------------
(***************************************************************************)
(* Readings of a file and of its beginnings.                               *)
(***************************************************************************)
Reads(bytes, version, records) ==
  LET read == InspectJournal(bytes)
  IN  read.issue = "none" /\ read.records = records /\ read.version = version

\* The loop ends at an issue or at the end of the file.
Ended(bytes, r) == r.issue # "none" \/ r.offset > Len(bytes)

LEMMA LoopEnds ==
  ASSUME NEW bytes, SoundCells(bytes)
  PROVE  /\ ReadOK(bytes, Len(bytes), InspectJournal(bytes))
         /\ InspectJournal(bytes).issue = "none" => InspectJournal(bytes).offset = Len(bytes) + 1
  <1>1. Len(bytes) \in Nat
    BY LengthOfSequence DEF SoundCells
  <1>2. ReadOK(bytes, Len(bytes), InspectJournal(bytes))
    BY <1>1, ReadingIsOK, ReadAfterIs
  <1> QED BY <1>1, <1>2 DEF ReadOK

LEMMA EndedStays ==
  ASSUME NEW bytes, SoundCells(bytes), NEW j \in 0..Len(bytes), Ended(bytes, ReadAfter(bytes, j))
  PROVE  InspectJournal(bytes) = ReadAfter(bytes, j)
  <1> DEFINE n == Len(bytes)
             r == ReadAfter(bytes, j)
             T == {k \in 0..n : k >= j => ReadAfter(bytes, k) = r}
  <1>1. n \in Nat /\ j \in 0..n
    BY LengthOfSequence DEF SoundCells
  <1>2. 0 \in T
    BY <1>1
  <1>3. ASSUME NEW k \in 0..(n - 1), k \in T
        PROVE  k + 1 \in T
    <2>1. NextFrame(bytes, r) = r
      BY NextFrameIs DEF Ended
    <2>2. ReadAfter(bytes, k + 1) = NextFrame(bytes, ReadAfter(bytes, k))
      BY <1>1, ReadAfterIs
    <2>3. CASE k >= j
      BY <1>3, <2>1, <2>2, <2>3
    <2>4. CASE ~(k >= j)
      <3>1. k + 1 >= j => k + 1 = j
        BY <1>1, <2>4
      <3> QED BY <3>1
    <2> QED BY <2>3, <2>4
  <1>4. \A k \in 0..n : k \in T
    <2> HIDE DEF T, n
    <2> QED BY <1>1, <1>2, <1>3, BoundedInduction
  <1>5. ReadAfter(bytes, n) = r
    <2>1. n \in T
      BY <1>1, <1>4
    <2> QED BY <1>1, <2>1
  <1> QED BY <1>1, <1>5, ReadAfterIs

Begins(base, bytes) ==
  /\ SoundCells(base) /\ SoundCells(bytes) /\ Len(base) <= Len(bytes)
  /\ \A i \in 1..Len(base) : bytes[i] = base[i]

LEMMA SameFrame ==
  ASSUME NEW base, NEW bytes, Begins(base, bytes), NEW o \in 1..Len(base), NEW version, NEW count,
         FrameAt(base, o, version, count)
  PROVE  /\ FrameAt(bytes, o, version, count) /\ RecordAt(bytes, o) = RecordAt(base, o)
         /\ bytes[o] = base[o] /\ bytes[o + 1] = base[o + 1]
  <1>1. Len(base) \in Nat /\ Len(bytes) \in Nat
    BY LengthOfSequence DEF SoundCells, Begins
  <1>2. o + 1 <= Len(base) /\ bytes[o] = base[o] /\ bytes[o + 1] = base[o + 1]
    BY <1>1 DEF Begins, FrameAt
  <1>3. base[o + 1].length \in {0, 1}
    BY <1>1, <1>2 DEF FrameAt, Begins, SoundCells
  <1>4. base[o + 1].length = 1 => bytes[o + 2] = base[o + 2]
    BY <1>1, <1>2 DEF FrameAt, Begins
  <1>5. RecordAt(bytes, o) = RecordAt(base, o)
    BY <1>2, <1>3, <1>4 DEF RecordAt
  <1>6. o + 1 + bytes[o + 1].length <= Len(bytes)
    BY <1>1, <1>2, <1>3 DEF FrameAt, Begins
  <1> QED BY <1>1, <1>2, <1>3, <1>4, <1>5, <1>6 DEF FrameAt, Begins

LEMMA SameReading ==
  ASSUME NEW base, NEW bytes, Begins(base, bytes)
  PROVE  \A k \in 0..Len(base) : ReadAfter(base, k).issue = "none" =>
           \E j \in 0..k : ReadAfter(bytes, j) = ReadAfter(base, k)
  <1> DEFINE n == Len(base)
             T == {k \in 0..n : ReadAfter(base, k).issue = "none" =>
                                  \E j \in 0..k : ReadAfter(bytes, j) = ReadAfter(base, k)}
  <1>1. n \in Nat /\ Len(bytes) \in Nat /\ n <= Len(bytes) /\ SoundCells(base) /\ SoundCells(bytes)
    BY LengthOfSequence DEF SoundCells, Begins
  <1>2. 0 \in T
    BY <1>1, ReadAfterIs
  <1>3. ASSUME NEW k \in 0..(n - 1), k \in T
        PROVE  k + 1 \in T
    <2> DEFINE r == ReadAfter(base, k)
    <2> SUFFICES ASSUME ReadAfter(base, k + 1).issue = "none"
                 PROVE  \E j \in 0..(k + 1) : ReadAfter(bytes, j) = ReadAfter(base, k + 1)
      BY <1>1
    <2>1. ReadAfter(base, k + 1) = NextFrame(base, r) /\ ReadOK(base, k, r)
      BY <1>1, ReadAfterIs, ReadingIsOK
    <2> HIDE DEF r
    <2>2. CASE Ended(base, r)
      <3>1. ReadAfter(base, k + 1) = r
        BY <2>1, <2>2, NextFrameIs DEF Ended
      <3>2. \E j \in 0..k : ReadAfter(bytes, j) = r
        BY <1>3, <3>1 DEF r
      <3> QED BY <1>1, <3>1, <3>2
    <2>3. CASE ~Ended(base, r)
      <3>1. r.issue = "none" /\ r.offset \in 1..n /\ ~(r.offset > n)
        BY <1>1, <2>1, <2>3 DEF ReadOK, Ended
      <3>2. Issue(base, r) = "none" /\ ReadAfter(base, k + 1) = AfterFrame(base, r)
        <4>1. CASE Issue(base, r) # "none"
          <5>1. ReadAfter(base, k + 1) = [r EXCEPT !.issue = Issue(base, r)]
            BY <2>1, <3>1, <4>1, NextFrameIs
          <5> DEFINE i == Issue(base, r)
          <5>2. i # "none"
            BY <4>1
          <5> HIDE DEF i
          <5>3. [r EXCEPT !.issue = i].issue = i
            BY <2>1 DEF ReadOK
          <5> QED BY <5>1, <5>2, <5>3 DEF i
        <4>2. CASE Issue(base, r) = "none"
          BY <2>1, <3>1, <4>2, NextFrameIs
        <4> QED BY <4>1, <4>2
      <3>3. FrameAt(base, r.offset, r.version, Len(r.records))
        BY <1>1, <3>1, <3>2, IssueIsNone DEF Issue
      <3>4. /\ FrameAt(bytes, r.offset, r.version, Len(r.records))
            /\ RecordAt(bytes, r.offset) = RecordAt(base, r.offset)
            /\ bytes[r.offset] = base[r.offset] /\ bytes[r.offset + 1] = base[r.offset + 1]
        BY <3>1, <3>3, SameFrame
      <3>5. Issue(bytes, r) = "none" /\ ~(r.offset > Len(bytes))
        <4>1. r.offset \in 1..Len(bytes)
          BY <1>1, <3>1
        <4> QED BY <1>1, <3>4, <4>1, IssueIsNone DEF Issue
      <3>6. NextFrame(bytes, r) = AfterFrame(base, r)
        <4>1. NextFrame(bytes, r) = AfterFrame(bytes, r)
          BY <3>1, <3>5, NextFrameIs
        <4> QED BY <3>4, <4>1 DEF AfterFrame
      <3>7. PICK j \in 0..k : ReadAfter(bytes, j) = r
        BY <1>3, <3>1 DEF r
      <3>8. ReadAfter(bytes, j + 1) = NextFrame(bytes, r)
        <4>1. j \in 0..(Len(bytes) - 1)
          BY <1>1
        <4> QED BY <1>1, <3>7, <4>1, ReadAfterIs
      <3>9. j + 1 \in 0..(k + 1)
        OBVIOUS
      <3> QED BY <3>2, <3>6, <3>8, <3>9
    <2> QED BY <2>2, <2>3
  <1>4. \A k \in 0..n : k \in T
    <2> HIDE DEF T, n
    <2> QED BY <1>1, <1>2, <1>3, BoundedInduction
  <1> QED BY <1>4


-----------------------------------------------------------------------------
(***************************************************************************)
(* A file that ends with a frame, with a part of one, or with junk.        *)
(***************************************************************************)
\* A record that its frame tells: one without a payload is its kind.
Writable(r) == PayloadCells(r) = 0 => r = Rec(r.type, 0, 0)

LEMMA FrameCells ==
  ASSUME NEW v, NEW q, NEW r
  PROVE  LET f == EncodeFrame(v, q, r)
         IN  /\ SoundCells(f) /\ Len(f) = 2 + PayloadCells(r) /\ PayloadCells(r) \in {0, 1}
             /\ f[1] = HeadCell(v, r) /\ f[2] = TailCell(v, q, r)
             /\ PayloadCells(r) = 1 => f[3] = PayloadCell(r)
  <1> DEFINE h == HeadCell(v, r)
             t == TailCell(v, q, r)
             b == PayloadCell(r)
  <1>1. PayloadCells(r) \in {0, 1}
    BY DEF PayloadCells
  <1>2. h.cell # "tail" /\ b.cell # "tail" /\ t.length = PayloadCells(r)
    BY DEF HeadCell, TailCell, PayloadCell
  <1>3. EncodeFrame(v, q, r) = IF PayloadCells(r) = 0 THEN <<h, t>> ELSE <<h, t, b>>
    <2> HIDE DEF h, t, b
    <2>1. /\ <<h, t>> \in Seq({h, t, b}) /\ <<b>> \in Seq({h, t, b})
          /\ Len(<<h, t>>) = 2 /\ Len(<<b>>) = 1
      OBVIOUS
    <2>2. <<h, t>> \o << >> = <<h, t>>
      BY <2>1, ConcatEmptySeq
    <2>3. <<h, t>> \o <<b>> = <<h, t, b>>
      <3> DEFINE l == <<h, t>> \o <<b>>
      <3>1. l \in Seq({h, t, b}) /\ Len(l) = 3
        BY <2>1, ConcatProperties
      <3>2. l[1] = h /\ l[2] = t /\ l[3] = b
        BY <2>1, ConcatProperties
      <3>3. <<h, t, b>> \in Seq({h, t, b}) /\ Len(<<h, t, b>>) = 3
        OBVIOUS
      <3>4. \A i \in 1..3 : l[i] = <<h, t, b>>[i]
        BY <3>2
      <3> HIDE DEF l
      <3>5. l = <<h, t, b>>
        BY <3>1, <3>3, <3>4, SeqEqual
      <3> QED BY <3>5 DEF l
    <2> QED BY <2>2, <2>3 DEF EncodeFrame, h, t, b
  <1> HIDE DEF h, t, b
  <1>4. /\ <<h, t>> \in Seq({h, t, b}) /\ <<h, t, b>> \in Seq({h, t, b})
        /\ Len(<<h, t>>) = 2 /\ Len(<<h, t, b>>) = 3
    OBVIOUS
  <1>5. IsSequence(<<h, t>>) /\ IsSequence(<<h, t, b>>)
    BY <1>4 DEF IsSequence
  <1>6. SoundCells(<<h, t>>) /\ SoundCells(<<h, t, b>>)
    <2>1. \A i \in 1..2 : i = 1 \/ i = 2
      OBVIOUS
    <2>2. \A i \in 1..3 : i = 1 \/ i = 2 \/ i = 3
      OBVIOUS
    <2> QED BY <1>1, <1>2, <1>4, <1>5, <2>1, <2>2 DEF SoundCells
  <1> QED BY <1>1, <1>3, <1>4, <1>6 DEF h, t, b

LEMMA ConcatIsSound ==
  ASSUME NEW s, NEW t, SoundCells(s), SoundCells(t)
  PROVE  SoundCells(s \o t) /\ Begins(s, s \o t)
  <1>1. /\ Len(s) \in Nat /\ Len(t) \in Nat /\ Len(s \o t) = Len(s) + Len(t) /\ IsSequence(s \o t)
        /\ \A i \in 1..Len(s) : (s \o t)[i] = s[i]
        /\ \A i \in 1..Len(t) : (s \o t)[Len(s) + i] = t[i]
    BY LengthOfSequence, ConcatIsSequence DEF SoundCells
  <1>2. SoundCells(s \o t)
    <2> SUFFICES ASSUME NEW i \in 1..Len(s \o t), (s \o t)[i].cell = "tail"
                 PROVE  (s \o t)[i].length \in {0, 1}
      BY <1>1 DEF SoundCells
    <2>1. CASE i <= Len(s)
      BY <1>1, <2>1 DEF SoundCells
    <2>2. CASE ~(i <= Len(s))
      <3>1. i - Len(s) \in 1..Len(t) /\ i = Len(s) + (i - Len(s))
        BY <1>1, <2>2
      <3>2. (s \o t)[i] = t[i - Len(s)]
        BY <1>1, <3>1
      <3> QED BY <3>1, <3>2 DEF SoundCells
    <2> QED BY <2>1, <2>2
  <1> QED BY <1>1, <1>2 DEF Begins

LEMMA PrefixIsSound ==
  ASSUME NEW s, SoundCells(s), NEW k \in 0..Len(s)
  PROVE  SoundCells(SubSeq(s, 1, k)) /\ Begins(SubSeq(s, 1, k), s)
  <1>1. /\ Len(s) \in Nat /\ IsSequence(SubSeq(s, 1, k)) /\ Len(SubSeq(s, 1, k)) = k
        /\ \A i \in 1..k : SubSeq(s, 1, k)[i] = s[i]
    BY LengthOfSequence, PrefixIsSequence DEF SoundCells
  <1>2. SoundCells(SubSeq(s, 1, k))
    BY <1>1 DEF SoundCells
  <1> QED BY <1>1, <1>2 DEF Begins

\* What follows a whole journal is read next.
LEMMA ReadingGoesOn ==
  ASSUME NEW base, NEW bytes, Begins(base, bytes), InspectJournal(base).issue = "none"
  PROVE  LET r == InspectJournal(base)
         IN  /\ r.offset = Len(base) + 1 /\ ReadOK(base, Len(base), r)
             /\ \E j \in 0..Len(base) : ReadAfter(bytes, j) = r
             /\ Len(bytes) = Len(base) => InspectJournal(bytes) = r
             /\ Len(bytes) > Len(base) =>
                  \E j \in 1..Len(bytes) : ReadAfter(bytes, j) = NextFrame(bytes, r)
  <1> DEFINE r == InspectJournal(base)
  <1>1. Len(base) \in Nat /\ Len(bytes) \in Nat /\ SoundCells(base) /\ SoundCells(bytes)
    BY LengthOfSequence DEF SoundCells, Begins
  <1>2. r = ReadAfter(base, Len(base)) /\ r.offset = Len(base) + 1 /\ ReadOK(base, Len(base), r)
    BY <1>1, ReadAfterIs, LoopEnds
  <1> HIDE DEF r
  <1>3. r.issue = "none"
    BY DEF r
  <1>4. PICK j \in 0..Len(base) : ReadAfter(bytes, j) = r
    <2>1. Len(base) \in 0..Len(base)
      BY <1>1
    <2> QED BY <1>2, <1>3, <2>1, SameReading
  <1>5. ASSUME Len(bytes) = Len(base)
        PROVE  InspectJournal(bytes) = r
    <2>1. Ended(bytes, ReadAfter(bytes, j)) /\ j \in 0..Len(bytes)
      BY <1>1, <1>2, <1>4, <1>5 DEF Ended
    <2> QED BY <1>1, <1>4, <2>1, EndedStays
  <1>6. ASSUME Len(bytes) > Len(base)
        PROVE  \E i \in 1..Len(bytes) : ReadAfter(bytes, i) = NextFrame(bytes, r)
    <2>1. j \in 0..(Len(bytes) - 1) /\ j + 1 \in 1..Len(bytes)
      BY <1>1, <1>6
    <2>2. ReadAfter(bytes, j + 1) = NextFrame(bytes, r)
      BY <1>1, <1>4, <2>1, ReadAfterIs
    <2> QED BY <2>1, <2>2
  <1> QED BY <1>2, <1>4, <1>5, <1>6 DEF r

\* A reader takes the frame that was appended for the record it is of.
LEMMA AppendedFrameIsRead ==
  ASSUME NEW base, SoundCells(base), NEW m, NEW w, Reads(base, w, m),
         NEW v \in Supported, Len(m) > 0 => v = w, NEW r, Writable(r)
  PROVE  Reads(base \o EncodeFrame(v, Len(m), r), v, Append(m, r))
  <1> DEFINE f == EncodeFrame(v, Len(m), r)
             bytes == base \o f
             n == Len(base)
             last == InspectJournal(base)
  <1>1. /\ SoundCells(f) /\ Len(f) = 2 + PayloadCells(r) /\ PayloadCells(r) \in {0, 1}
        /\ f[1] = HeadCell(v, r) /\ f[2] = TailCell(v, Len(m), r)
        /\ PayloadCells(r) = 1 => f[3] = PayloadCell(r)
    BY FrameCells
  <1> HIDE DEF f
  <1>2. /\ n \in Nat /\ Len(f) \in Nat /\ Len(bytes) = n + Len(f) /\ SoundCells(bytes) /\ Begins(base, bytes)
        /\ \A i \in 1..Len(f) : bytes[n + i] = f[i]
    BY <1>1, LengthOfSequence, ConcatIsSequence, ConcatIsSound DEF SoundCells
  <1> HIDE DEF bytes, n
  <1>3. /\ bytes[n + 1] = HeadCell(v, r) /\ bytes[n + 2] = TailCell(v, Len(m), r)
        /\ PayloadCells(r) = 1 => bytes[n + 3] = PayloadCell(r)
    <2>1. 1 \in 1..Len(f) /\ 2 \in 1..Len(f) /\ (PayloadCells(r) = 1 => 3 \in 1..Len(f))
      BY <1>1
    <2> QED BY <1>1, <1>2, <2>1
  <1>4. /\ last.issue = "none" /\ last.records = m /\ last.version = w
        /\ last.offset = n + 1
        /\ \E j \in 1..Len(bytes) : ReadAfter(bytes, j) = NextFrame(bytes, last)
    <2>1. Len(bytes) > Len(base)
      BY <1>1, <1>2 DEF n
    <2>2. last.issue = "none" /\ last.records = m /\ last.version = w
      BY DEF Reads
    <2> QED BY <1>2, <2>1, <2>2, ReadingGoesOn DEF n
  <1> HIDE DEF last
  <1>5. /\ bytes[n + 1].cell = "head" /\ bytes[n + 1].version = v /\ bytes[n + 1].type = r.type
        /\ bytes[n + 2].cell = "tail" /\ bytes[n + 2].sequence = Len(m)
        /\ bytes[n + 2].length = PayloadCells(r) /\ bytes[n + 2].checksum = <<v, Len(m), r>>
        /\ PayloadCells(r) = 1 => bytes[n + 3].cell = "payload" /\ bytes[n + 3].record = r
    BY <1>3 DEF HeadCell, TailCell, PayloadCell
  <1>6. RecordAt(bytes, n + 1) = r
    <2>1. (n + 1) + 1 = n + 2 /\ (n + 1) + 2 = n + 3
      BY <1>2
    <2> QED BY <1>1, <1>5, <2>1 DEF RecordAt, Writable
  <1>7. FrameAt(bytes, n + 1, w, Len(m))
    <2>1. (n + 1) + 1 = n + 2 /\ (n + 1) + 2 = n + 3
      BY <1>2
    <2> QED BY <1>1, <1>2, <1>5, <1>6, <2>1 DEF FrameAt
  <1>8. Issue(bytes, last) = "none"
    <2>1. n + 1 \in 1..Len(bytes)
      BY <1>1, <1>2
    <2> QED BY <1>2, <1>4, <1>7, <2>1, IssueIsNone DEF Issue
  <1>9. NextFrame(bytes, last) = AfterFrame(bytes, last)
    BY <1>1, <1>2, <1>4, <1>8, NextFrameIs
  <1>10. /\ NextFrame(bytes, last).issue = "none" /\ NextFrame(bytes, last).version = v
         /\ NextFrame(bytes, last).records = Append(m, r)
         /\ NextFrame(bytes, last).offset = Len(bytes) + 1
    <2>1. (n + 1) + 1 = n + 2
      BY <1>2
    <2> QED BY <1>1, <1>2, <1>4, <1>5, <1>6, <1>9, <2>1 DEF AfterFrame
  <1>11. InspectJournal(bytes) = NextFrame(bytes, last)
    <2>1. PICK j \in 1..Len(bytes) : ReadAfter(bytes, j) = NextFrame(bytes, last)
      BY <1>4
    <2>2. Ended(bytes, ReadAfter(bytes, j))
      BY <1>1, <1>2, <1>10, <2>1 DEF Ended
    <2>3. j \in 0..Len(bytes)
      OBVIOUS
    <2> QED BY <1>2, <2>1, <2>2, <2>3, EndedStays
  <1> QED BY <1>10, <1>11 DEF Reads, bytes, f


-----------------------------------------------------------------------------
(***************************************************************************)
(* The inductive invariant.                                                *)
(***************************************************************************)
States == {"idle", "created", "locked", "authorized", "writer", "reconcile", "writing", "done"}
Locking == States \ {"idle", "created"}

OfProcesses(f) == f = [p \in Processes |-> f[p]]
ControlOK ==
  /\ OfProcesses(memory) /\ OfProcesses(schema) /\ OfProcesses(shown) /\ OfProcesses(inspected)
  /\ OfProcesses(poisoned) /\ OfProcesses(unwritten) /\ OfProcesses(pending)
  /\ OfProcesses(changed) /\ OfProcesses(since) /\ pc \in [Processes -> States]

\* A process that has opened the file and gone on holds its lock.
LockOK == \A p \in Processes : pc[p] \in Locking <=> lock = p

\* Cells and unwritten cells are those of frames or junk.
CellsOK == SoundCells(content) /\ \A p \in Processes : SoundCells(unwritten[p])

\* A file that its creator has not locked is empty, and nobody can do
\* anything with it but lock it.
CreatedOK ==
  /\ ~exists => content = << >> /\ \A p \in Processes : pc[p] = "idle"
  /\ \A p \in Processes : pc[p] = "created" =>
       content = << >> /\ \A q \in Processes \ {p} : pc[q] \in {"idle", "locked"}

\* The file ends with the first i cells of the frame that is being written.
MidFrame(p, base, w, i) ==
  LET f == EncodeFrame(schema[p], Len(memory[p]), pending[p].record)
  IN  /\ SoundCells(base) /\ Reads(base, w, memory[p])
      /\ Len(memory[p]) > 0 => schema[p] = w
      /\ Writable(pending[p].record) /\ i \in 0..Len(f)
      /\ content = base \o SubSeq(f, 1, i) /\ unwritten[p] = SubSeq(f, i + 1, Len(f))

\* What a process believes of the file is so unless another program wrote.
Knows(p) ==
  /\ pc[p] = "authorized" => schema[p] \in Supported /\ Reads(shown[p], schema[p], memory[p])
  /\ pc[p] \in {"writer", "reconcile"} /\ ~poisoned[p] /\ ~changed[p] =>
       schema[p] \in Supported /\ Reads(content, schema[p], memory[p])
  /\ pc[p] = "writing" /\ ~changed[p] =>
       schema[p] \in Supported /\ \E base, w, i : MidFrame(p, base, w, i)

Known == \A p \in Processes : Knows(p)

\* A reconciliation knows where the source is now.
Seen == \A p \in Processes : pc[p] = "reconcile" => place \in since[p]

SyncedOK == synced \in Nat

IInv == SyncedOK /\ ControlOK /\ LockOK /\ CellsOK /\ CreatedOK /\ Known /\ Seen

-----------------------------------------------------------------------------
(***************************************************************************)
(* Every process moves alone.                                              *)
(***************************************************************************)
Same(q) ==
  /\ pc'[q] = pc[q] /\ memory'[q] = memory[q] /\ schema'[q] = schema[q] /\ shown'[q] = shown[q]
  /\ inspected'[q] = inspected[q] /\ poisoned'[q] = poisoned[q]
  /\ unwritten'[q] = unwritten[q] /\ pending'[q] = pending[q] /\ changed'[q] = changed[q]
  /\ since'[q] = since[q]

\* The steps of a process that leave the cells of the file as they are.
QuietStep(p) ==
  \/ CreateNew(p) \/ LockCreated(p) \/ LockCreatedFails(p)
  \/ LockExisting(p) \/ OpenAuthorized(p) \/ IntoWriter(p) \/ Resume(p)
  \/ AppendExecuted(p) \/ ReconcileStep(p)
  \/ Buffer(p) \/ Synchronize(p) \/ AppendFails(p) \/ Drop(p)

LEMMA StepsOfAProcess == ASSUME NEW p, Process(p) PROVE QuietStep(p) \/ WriteCell(p)
  BY Zenon DEF Process, QuietStep

LEMMA QuietStepsKeepTheFile ==
  ASSUME NEW p, QuietStep(p)
  PROVE  content' = content
  BY DEF QuietStep, CreateNew, LockCreated, LockCreatedFails, LockExisting, OpenAuthorized,
         IntoWriter, Resume, AppendExecuted, ReconcileStep, AppendRecord, Buffer, Synchronize,
         AppendFails, Drop, file


LEMMA OneProcessMoves ==
  ASSUME ControlOK, NEW p \in Processes, Process(p)
  PROVE  ControlOK' /\ \A q \in Processes \ {p} : Same(q)
  <1> DEFINE Kept == ControlOK' /\ \A q \in Processes \ {p} : Same(q)
  <1> USE DEF ControlOK, OfProcesses, Same, States, Goto, file, writer, snapshot, names, history,
              counters
  <1>1. ASSUME CreateNew(p) \/ LockExisting(p)
        PROVE  Kept
    BY <1>1 DEF CreateNew, LockExisting
  <1>2. ASSUME LockCreated(p)
        PROVE  Kept
    BY <1>2 DEF LockCreated, BecomeWriter, StartFrame
  <1>3. ASSUME LockCreatedFails(p) \/ Drop(p)
        PROVE  Kept
    BY <1>3 DEF LockCreatedFails, Drop, Close
  <1>4. ASSUME OpenAuthorized(p)
        PROVE  Kept
    BY <1>4 DEF OpenAuthorized
  <1>5. ASSUME IntoWriter(p) \/ Resume(p)
        PROVE  Kept
    BY <1>5 DEF IntoWriter, Resume, BecomeWriter, WriterStep
  <1>6. ASSUME AppendExecuted(p) \/ ReconcileStep(p)
        PROVE  Kept
    <2>1. PICK r, s : AppendRecord(p, r, s)
      BY <1>6 DEF AppendExecuted, ReconcileStep
    <2> QED BY <2>1 DEF AppendRecord, StartFrame
  <1>7. ASSUME WriteCell(p) \/ AppendFails(p)
        PROVE  Kept
    BY <1>7 DEF WriteCell, AppendFails
  <1>8. ASSUME Buffer(p) \/ Synchronize(p)
        PROVE  Kept
    BY <1>8 DEF Buffer, Synchronize, Appended
  <1> QED BY <1>1, <1>2, <1>3, <1>4, <1>5, <1>6, <1>7, <1>8 DEF Process

LEMMA LocksKeep ==
  ASSUME IInv, NEW p \in Processes, Process(p)
  PROVE  LockOK'
  <1> USE NobodyAssumption DEF IInv, LockOK, Locking, States, Goto, file, TryLock
  <1>0. ControlOK /\ ControlOK' /\ \A q \in Processes \ {p} : Same(q)
    BY OneProcessMoves
  <1>1. \A q \in Processes \ {p} : pc'[q] = pc[q]
    BY <1>0 DEF Same
  <1>2. pc \in [Processes -> States]
    BY <1>0 DEF ControlOK
  <1>3. CASE CreateNew(p)
    BY <1>1, <1>2, <1>3 DEF CreateNew
  <1>4. CASE LockCreated(p) \/ LockExisting(p)
    BY <1>1, <1>2, <1>4 DEF LockCreated, LockExisting, StartFrame
  <1>5. CASE LockCreatedFails(p) \/ Drop(p)
    BY <1>1, <1>2, <1>5 DEF LockCreatedFails, Drop, Close
  <1>6. CASE OpenAuthorized(p) \/ IntoWriter(p) \/ Resume(p)
    BY <1>1, <1>2, <1>6 DEF OpenAuthorized, IntoWriter, Resume, WriterStep
  <1>7. CASE AppendExecuted(p) \/ ReconcileStep(p)
    <2>1. PICK r, s : AppendRecord(p, r, s)
      BY <1>7 DEF AppendExecuted, ReconcileStep
    <2> QED BY <1>1, <1>2, <1>7, <2>1 DEF AppendRecord, StartFrame, AppendExecuted, ReconcileStep
  <1>8. CASE WriteCell(p) \/ AppendFails(p)
    BY <1>1, <1>2, <1>8 DEF WriteCell, AppendFails
  <1>9. CASE Buffer(p) \/ Synchronize(p)
    BY <1>1, <1>2, <1>9 DEF Buffer, Synchronize, Appended
  <1> QED BY <1>3, <1>4, <1>5, <1>6, <1>7, <1>8, <1>9 DEF Process

\* A process that creates the file does it alone.
LEMMA CreationKeeps ==
  ASSUME IInv, NEW p \in Processes, Process(p)
  PROVE  CreatedOK'
  <1> USE NobodyAssumption DEF IInv, CreatedOK, LockOK, Locking, States, Goto, file, TryLock
  <1>0. ControlOK /\ ControlOK' /\ \A q \in Processes \ {p} : Same(q)
    BY OneProcessMoves
  <1>1. \A q \in Processes \ {p} : pc'[q] = pc[q]
    BY <1>0 DEF Same
  <1>2. pc \in [Processes -> States]
    BY <1>0 DEF ControlOK
  <1>3. CASE CreateNew(p)
    BY <1>1, <1>2, <1>3 DEF CreateNew
  <1>4. CASE LockCreated(p) \/ LockExisting(p)
    BY <1>1, <1>2, <1>4 DEF LockCreated, LockExisting, StartFrame
  <1>5. CASE LockCreatedFails(p) \/ Drop(p)
    BY <1>1, <1>2, <1>5 DEF LockCreatedFails, Drop, Close
  <1>6. CASE OpenAuthorized(p) \/ IntoWriter(p) \/ Resume(p)
    <2>1. content = << >> => InspectJournal(content).records = << >>
      <3>1. Len(content) = 0 => InspectJournal(content) = NoFrames
        BY ReadAfterIs
      <3> QED BY <3>1 DEF NoFrames
    <2>2. pc[p] = "locked" => \A q \in Processes : pc[q] # "created"
      BY <1>6, <2>1 DEF OpenAuthorized, IntoWriter, Resume, Accepted
    <2> QED BY <1>1, <1>2, <1>6, <2>2 DEF OpenAuthorized, IntoWriter, Resume, WriterStep
  <1>7. CASE AppendExecuted(p) \/ ReconcileStep(p)
    <2>1. PICK r, s : AppendRecord(p, r, s)
      BY <1>7 DEF AppendExecuted, ReconcileStep
    <2> QED BY <1>1, <1>2, <1>7, <2>1 DEF AppendRecord, StartFrame, AppendExecuted, ReconcileStep
  <1>8. CASE WriteCell(p) \/ AppendFails(p)
    BY <1>1, <1>2, <1>8 DEF WriteCell, AppendFails
  <1>9. CASE Buffer(p) \/ Synchronize(p)
    BY <1>1, <1>2, <1>9 DEF Buffer, Synchronize, Appended
  <1> QED BY <1>3, <1>4, <1>5, <1>6, <1>7, <1>8, <1>9 DEF Process


LEMMA NothingIsSound == SoundCells(<< >>)
  <1>1. << >> \in Seq({}) /\ Len(<< >>) = 0
    OBVIOUS
  <1> QED BY <1>1 DEF SoundCells, IsSequence

LEMMA TailIsSound ==
  ASSUME NEW s, SoundCells(s), s # << >>
  PROVE  /\ SoundCells(Tail(s)) /\ Len(Tail(s)) = Len(s) - 1 /\ Len(s) \in Nat \ {0}
         /\ \A i \in 1..(Len(s) - 1) : Tail(s)[i] = s[i + 1]
         /\ Head(s) = s[1]
  <1>1. PICK S : s \in Seq(S)
    BY DEF SoundCells, IsSequence
  <1>2. /\ Tail(s) \in Seq(S) /\ Len(Tail(s)) = Len(s) - 1 /\ Len(s) \in Nat \ {0} /\ Head(s) = s[1]
        /\ \A i \in 1..(Len(s) - 1) : Tail(s)[i] = s[i + 1]
    BY <1>1
  <1>3. IsSequence(Tail(s))
    BY <1>2 DEF IsSequence
  <1>4. \A i \in 1..Len(Tail(s)) : i + 1 \in 1..Len(s)
    BY <1>2
  <1> QED BY <1>2, <1>3, <1>4 DEF SoundCells

LEMMA AppendedIsSound ==
  ASSUME NEW s, SoundCells(s), NEW c, c.cell = "tail" => c.length \in {0, 1}
  PROVE  SoundCells(Append(s, c))
  <1>1. /\ IsSequence(Append(s, c)) /\ Len(Append(s, c)) = Len(s) + 1 /\ Len(s) \in Nat
        /\ \A i \in 1..Len(s) : Append(s, c)[i] = s[i]
        /\ Append(s, c)[Len(s) + 1] = c
    BY AppendIsSequence, LengthOfSequence DEF SoundCells
  <1>2. \A i \in 1..(Len(s) + 1) : i \in 1..Len(s) \/ i = Len(s) + 1
    BY <1>1
  <1> QED BY <1>1, <1>2 DEF SoundCells

LEMMA CellsKeep ==
  ASSUME IInv, NEW p \in Processes, Process(p)
  PROVE  CellsOK'
  <1>0. ControlOK /\ ControlOK' /\ CellsOK /\ \A q \in Processes \ {p} : unwritten'[q] = unwritten[q]
    BY OneProcessMoves DEF IInv, Same
  <1>1. CASE QuietStep(p)
    <2>1. content' = content
      BY <1>1, QuietStepsKeepTheFile
    <2>2. SoundCells(unwritten'[p])
      <3>1. CASE LockCreated(p) \/ AppendExecuted(p) \/ ReconcileStep(p)
        <4>1. PICK r, s, v, m : StartFrame(p, r, s, v, m)
          BY <3>1 DEF LockCreated, AppendExecuted, ReconcileStep, AppendRecord
        <4>2. unwritten'[p] = EncodeFrame(v, Len(m), r)
          BY <1>0, <4>1 DEF StartFrame, ControlOK, OfProcesses
        <4> QED BY <4>2, FrameCells
      <3>2. CASE LockCreatedFails(p) \/ Drop(p) \/ AppendFails(p)
        <4>1. unwritten'[p] = << >>
          BY <1>0, <3>2 DEF LockCreatedFails, Drop, Close, AppendFails, ControlOK, OfProcesses
        <4> QED BY <4>1, NothingIsSound
      <3>3. CASE \/ CreateNew(p) \/ LockExisting(p) \/ OpenAuthorized(p) \/ IntoWriter(p) \/ Resume(p)
                 \/ Buffer(p) \/ Synchronize(p)
        <4>1. unwritten' = unwritten
          BY <3>3 DEF CreateNew, LockExisting, OpenAuthorized, IntoWriter, Resume, Buffer,
                      Synchronize, Appended, writer
        <4> QED BY <1>0, <4>1 DEF CellsOK
      <3> QED BY <1>1, <3>1, <3>2, <3>3 DEF QuietStep
    <2> QED BY <1>0, <2>1, <2>2 DEF CellsOK
  <1>2. CASE WriteCell(p)
    <2>1. SoundCells(unwritten[p]) /\ unwritten[p] # << >> /\ SoundCells(content)
      BY <1>0, <1>2 DEF CellsOK, WriteCell
    <2>2. content' = Append(content, Head(unwritten[p])) /\ unwritten'[p] = Tail(unwritten[p])
      BY <1>0, <1>2 DEF WriteCell, ControlOK, OfProcesses
    <2> DEFINE c == Head(unwritten[p])
    <2>3. c.cell = "tail" => c.length \in {0, 1}
      <3>1. c = unwritten[p][1] /\ 1 \in 1..Len(unwritten[p])
        BY <2>1, TailIsSound
      <3> QED BY <2>1, <3>1 DEF SoundCells
    <2> HIDE DEF c
    <2>4. SoundCells(Append(content, c))
      BY <2>1, <2>3, AppendedIsSound
    <2>5. SoundCells(Tail(unwritten[p]))
      BY <2>1, TailIsSound
    <2> QED BY <1>0, <2>2, <2>4, <2>5 DEF CellsOK, c
  <1> QED BY <1>1, <1>2, StepsOfAProcess

\* What a process is that has not moved, it still knows if the file has not
\* changed, or if another process holds the lock.
LEMMA OthersKnow ==
  ASSUME IInv, NEW p \in Processes, Process(p), NEW q \in Processes \ {p}
  PROVE  Knows(q)'
  <1>0. Same(q) /\ Knows(q)
    BY OneProcessMoves DEF IInv, Known
  <1>1. CASE QuietStep(p)
    <2>1. content' = content
      BY <1>1, QuietStepsKeepTheFile
    <2>2. ASSUME NEW base, NEW w, NEW i, MidFrame(q, base, w, i)
          PROVE  MidFrame(q, base, w, i)'
      BY <1>0, <2>1, <2>2 DEF MidFrame, Same
    <2> QED BY <1>0, <2>1, <2>2 DEF Knows, Same
  <1>2. CASE WriteCell(p)
    <2>1. pc[q] \notin Locking
      BY <1>2 DEF WriteCell, IInv, LockOK, Locking, States
    <2> QED BY <1>0, <2>1 DEF Knows, Same, Locking, States
  <1> QED BY <1>1, <1>2, StepsOfAProcess


LEMMA ReadRecordsAreASequence ==
  ASSUME NEW bytes, SoundCells(bytes), NEW v, NEW m, Reads(bytes, v, m)
  PROVE  /\ IsSequence(m) /\ Len(m) \in Nat
         /\ Len(m) > 0 => v \in Supported
  <1>1. ReadOK(bytes, Len(bytes), InspectJournal(bytes))
    BY LoopEnds
  <1>2. IsSequence(m) /\ (Len(m) > 0 => v \in Supported)
    BY <1>1 DEF ReadOK, Reads
  <1> QED BY <1>2, LengthOfSequence

LEMMA EmptyFileReads == Reads(<< >>, 0, << >>)
  <1>1. Len(<< >>) = 0
    OBVIOUS
  <1>2. InspectJournal(<< >>) = NoFrames
    BY <1>1, ReadAfterIs
  <1> QED BY <1>2 DEF Reads, NoFrames

\* Nothing of a frame has been written when its append begins.
LEMMA FrameBegins ==
  ASSUME NEW p, SoundCells(content), NEW w, NEW m, Reads(content, w, m), NEW v \in Supported,
         Len(m) > 0 => v = w, NEW r, Writable(r), content' = content, memory'[p] = m,
         schema'[p] = v, pending'[p].record = r, unwritten'[p] = EncodeFrame(v, Len(m), r)
  PROVE  MidFrame(p, content, w, 0)'
  <1> DEFINE f == EncodeFrame(v, Len(m), r)
  <1>1. SoundCells(f) /\ Len(f) \in Nat
    BY FrameCells, LengthOfSequence DEF SoundCells
  <1>2. SubSeq(f, 1, 0) = << >> /\ content \o << >> = content /\ SubSeq(f, 1, Len(f)) = f
    <2> HIDE DEF f
    <2>1. PICK S : f \in Seq(S) /\ content \in Seq(S)
      BY <1>1, CommonElements DEF SoundCells
    <2>2. SubSeq(f, 1, 0) = << >>
      BY <2>1, SubSeqEmpty
    <2> QED BY <2>1, <2>2, ConcatEmptySeq, SubSeqFull
  <1>3. 0 \in 0..Len(f) /\ 0 + 1 = 1
    BY <1>1
  <1> HIDE DEF f
  <1> QED BY <1>2, <1>3 DEF MidFrame, f

\* One more cell of it is.
LEMMA FrameGoesOn ==
  ASSUME CellsOK, ControlOK, NEW p \in Processes, WriteCell(p), NEW base, NEW w, NEW i, MidFrame(p, base, w, i)
  PROVE  MidFrame(p, base, w, i + 1)'
  <1> DEFINE f == EncodeFrame(schema[p], Len(memory[p]), pending[p].record)
  <1>1. /\ SoundCells(f) /\ Len(f) \in Nat /\ i \in 0..Len(f) /\ SoundCells(base)
        /\ content = base \o SubSeq(f, 1, i) /\ unwritten[p] = SubSeq(f, i + 1, Len(f))
    BY FrameCells, LengthOfSequence DEF SoundCells, MidFrame
  <1>2. /\ content' = Append(content, Head(unwritten[p])) /\ unwritten'[p] = Tail(unwritten[p])
        /\ unwritten[p] # << >> /\ schema' = schema /\ memory' = memory /\ pending' = pending
    BY DEF WriteCell, ControlOK, OfProcesses
  <1> HIDE DEF f
  <1>3. PICK S : f \in Seq(S) /\ base \in Seq(S)
    BY <1>1, CommonElements DEF SoundCells
  <1>4. i + 1 \in 1..Len(f)
    <2>1. i + 1 > Len(f) => SubSeq(f, i + 1, Len(f)) = << >>
      BY <1>1, <1>3
    <2> QED BY <1>1, <1>2, <2>1
  <1>5. Tail(unwritten[p]) = SubSeq(f, (i + 1) + 1, Len(f)) /\ Head(unwritten[p]) = f[i + 1]
    BY <1>1, <1>3, <1>4
  <1>6. Append(SubSeq(f, 1, i), f[i + 1]) = SubSeq(f, 1, i + 1)
    BY <1>1, <1>3, <1>4
  <1>7. Append(base \o SubSeq(f, 1, i), f[i + 1]) = base \o SubSeq(f, 1, i + 1)
    <2> DEFINE g == SubSeq(f, 1, i)
               x == f[i + 1]
    <2>1. g \in Seq(S) /\ x \in S
      BY <1>1, <1>3, <1>4
    <2> HIDE DEF g, x
    <2>2. Append(base \o g, x) = base \o Append(g, x)
      <3>1. Append(g, x) = g \o <<x>> /\ <<x>> \in Seq(S) /\ base \o g \in Seq(S)
        BY <1>3, <2>1, AppendIsConcat, ConcatProperties
      <3>2. Append(base \o g, x) = (base \o g) \o <<x>>
        BY <2>1, <3>1, AppendIsConcat
      <3> QED BY <1>3, <2>1, <3>1, <3>2, ConcatAssociative
    <2> QED BY <1>6, <2>2 DEF g, x
  <1>8. i + 1 \in 0..Len(f)
    BY <1>1, <1>4
  <1> QED BY <1>1, <1>2, <1>5, <1>7, <1>8 DEF MidFrame, f

\* A file with all of it has the record.
LEMMA FrameIsWhole ==
  ASSUME NEW p \in Processes, schema[p] \in Supported, unwritten[p] = << >>,
         NEW base, NEW w, NEW i, MidFrame(p, base, w, i)
  PROVE  Reads(content, schema[p], Append(memory[p], pending[p].record))
  <1> DEFINE f == EncodeFrame(schema[p], Len(memory[p]), pending[p].record)
  <1>1. /\ SoundCells(f) /\ Len(f) \in Nat /\ i \in 0..Len(f) /\ SoundCells(base)
        /\ content = base \o SubSeq(f, 1, i) /\ SubSeq(f, i + 1, Len(f)) = << >>
    BY FrameCells, LengthOfSequence DEF SoundCells, MidFrame
  <1> HIDE DEF f
  <1>2. PICK S : f \in Seq(S)
    BY <1>1 DEF SoundCells, IsSequence
  <1>3. i = Len(f)
    <2>1. i < Len(f) => Len(SubSeq(f, i + 1, Len(f))) = Len(f) - i
      <3>1. \A j \in (i + 1)..Len(f) : f[j] \in S
        BY <1>1, <1>2
      <3>2. /\ Len(SubSeq(f, i + 1, Len(f))) =
                  IF i + 1 <= Len(f) THEN Len(f) - (i + 1) + 1 ELSE 0
            /\ i + 1 \in Int /\ Len(f) \in Int
        BY <1>1, <3>1, SubSeqProperties
      <3> QED BY <1>1, <3>2
    <2>2. Len(SubSeq(f, i + 1, Len(f))) = 0
      <3>1. Len(<< >>) = 0
        OBVIOUS
      <3> QED BY <1>1, <3>1, Zenon
    <2> HIDE DEF f
    <2> DEFINE l == Len(SubSeq(f, i + 1, Len(f)))
               n == Len(f)
    <2>3. n \in Nat /\ i \in 0..n /\ (i < n => l = n - i) /\ l = 0
      BY <1>1, <2>1, <2>2
    <2> HIDE DEF l, n
    <2>4. i = n
      BY <2>3
    <2> QED BY <2>4 DEF n
  <1>4. content = base \o f
    BY <1>1, <1>2, <1>3, SubSeqFull
  <1> QED BY <1>4, AppendedFrameIsRead DEF MidFrame, f


LEMMA WritableRecords ==
  /\ Writable(Header) /\ (\A r \in Records : Writable(r))
  /\ \A m, d : Writable(ReconcileRecord(m, d))
  <1>1. Writable(Header)
    BY DEF Writable, Header, Rec, PayloadCells
  <1>2. \A r \in Records : Writable(r)
    BY RecordsAssumption DEF Writable
  <1>3. ASSUME NEW m, NEW d
        PROVE  Writable(ReconcileRecord(m, d))
    <2>1. ReconcileRecord(m, d).type \in {"ForwardStepCompleted", "ForwardStepNotApplied",
                                          "RollbackStepCompleted", "RollbackStepNotApplied"}
      BY DEF ReconcileRecord, Rec
    <2> QED BY <2>1 DEF Writable, PayloadCells
  <1> QED BY <1>1, <1>2, <1>3

LEMMA MoverKnows ==
  ASSUME IInv, NEW p \in Processes, Process(p)
  PROVE  Knows(p)'
  <1> USE DEF Goto
  <1>0. ControlOK /\ ControlOK' /\ CellsOK /\ CreatedOK /\ Knows(p)
    BY OneProcessMoves DEF IInv, Known
  <1>1. CASE CreateNew(p) \/ LockExisting(p) \/ LockCreatedFails(p) \/ Drop(p)
    <2>1. pc'[p] \in {"idle", "created", "locked"}
      BY <1>0, <1>1 DEF CreateNew, LockExisting, LockCreatedFails, Drop, Close, ControlOK
    <2> QED BY <2>1 DEF Knows
  <1>2. CASE LockCreated(p)
    <2>1. /\ pc'[p] = "writing" /\ memory'[p] = << >> /\ schema'[p] = SchemaVersion
          /\ pending'[p].record = Header
          /\ unwritten'[p] = EncodeFrame(SchemaVersion, Len(<< >>), Header)
          /\ content' = content /\ content = << >>
      BY <1>0, <1>2 DEF LockCreated, BecomeWriter, StartFrame, file, ControlOK, OfProcesses, CreatedOK
    <2>2. SchemaVersion \in Supported /\ ~(Len(<< >>) > 0)
      BY DEF SchemaVersion, Supported
    <2>3. Reads(content, 0, << >>) /\ SoundCells(content)
      BY <2>1, EmptyFileReads, NothingIsSound
    <2>4. MidFrame(p, content, 0, 0)'
      BY <2>1, <2>2, <2>3, WritableRecords, FrameBegins
    <2>5. \E base, w, i : MidFrame(p, base, w, i)'
      <3>1. PICK b : b = content
        OBVIOUS
      <3>2. MidFrame(p, b, 0, 0)'
        BY <2>1, <2>4, <3>1
      <3> QED BY <3>2
    <2> QED BY <2>1, <2>2, <2>5 DEF Knows
  <1>3. CASE OpenAuthorized(p) \/ Resume(p)
    <2> DEFINE read == InspectJournal(content)
    <2>1. read.issue = "none" /\ read.version \in Supported
      BY <1>3 DEF OpenAuthorized, Resume, Accepted, Supported, Resumable, SchemaVersion
    <2>2. Reads(content, read.version, read.records)
      BY <2>1 DEF Reads
    <2>3. memory'[p] = read.records /\ schema'[p] = read.version /\ content' = content
      BY <1>0, <1>3 DEF OpenAuthorized, Resume, BecomeWriter, file, ControlOK, OfProcesses
    <2>4. \/ pc'[p] = "authorized" /\ shown'[p] = content
          \/ pc'[p] = "writer"
      BY <1>0, <1>3 DEF OpenAuthorized, Resume, ControlOK, OfProcesses
    <2> HIDE DEF read
    <2> QED BY <2>1, <2>2, <2>3, <2>4 DEF Knows
  <1>4. CASE IntoWriter(p)
    <2>1. /\ pc'[p] \in {"writer", "reconcile"} /\ memory'[p] = memory[p] /\ schema'[p] = schema[p]
          /\ content' = content /\ content = shown[p] /\ pc[p] = "authorized"
      BY <1>0, <1>4 DEF IntoWriter, WriterStep, BecomeWriter, file, ControlOK, OfProcesses
    <2> QED BY <1>0, <2>1 DEF Knows
  <1>5. CASE AppendExecuted(p) \/ ReconcileStep(p)
    <2>1. PICK r, s : AppendRecord(p, r, s) /\ Writable(r)
      <3>1. CASE AppendExecuted(p)
        BY <3>1, WritableRecords DEF AppendExecuted
      <3>2. CASE ReconcileStep(p)
        BY <3>2, WritableRecords DEF ReconcileStep
      <3> QED BY <1>5, <3>1, <3>2
    <2>2. pc[p] \in {"writer", "reconcile"} /\ ~poisoned[p]
      BY <1>5, <2>1 DEF AppendExecuted, ReconcileStep, AppendRecord, ValidateAppend
    <2>3. /\ pc'[p] = "writing" /\ memory'[p] = memory[p] /\ schema'[p] = schema[p]
          /\ pending'[p].record = r /\ content' = content /\ changed'[p] = changed[p]
          /\ unwritten'[p] = EncodeFrame(schema[p], Len(memory[p]), r)
      BY <1>0, <2>1 DEF AppendRecord, StartFrame, file, history, ControlOK, OfProcesses
    <2>4. ASSUME ~changed[p]
          PROVE  schema[p] \in Supported /\ \E base, w, i : MidFrame(p, base, w, i)'
      <3>1. schema[p] \in Supported /\ Reads(content, schema[p], memory[p]) /\ SoundCells(content)
        BY <1>0, <2>2, <2>4 DEF Knows, CellsOK
      <3>2. MidFrame(p, content, schema[p], 0)'
        <4> DEFINE v == schema[p]
                   m == memory[p]
        <4>1. v \in Supported /\ Reads(content, v, m) /\ (Len(m) > 0 => v = v)
          BY <3>1
        <4>2. /\ content' = content /\ memory'[p] = m /\ schema'[p] = v /\ pending'[p].record = r
              /\ unwritten'[p] = EncodeFrame(v, Len(m), r)
          BY <2>3
        <4>3. PICK w : w = v
          OBVIOUS
        <4> HIDE DEF v, m
        <4>4. MidFrame(p, content, w, 0)'
          BY <2>1, <3>1, <4>1, <4>2, <4>3, FrameBegins
        <4> QED BY <2>3, <4>3, <4>4 DEF v
      <3>3. PICK b, w : b = content /\ w = schema[p]
        OBVIOUS
      <3>4. MidFrame(p, b, w, 0)'
        BY <2>3, <3>2, <3>3
      <3> QED BY <3>1, <3>4
    <2> QED BY <2>3, <2>4 DEF Knows
  <1>6. CASE WriteCell(p)
    <2>1. /\ pc[p] = "writing" /\ pc' = pc /\ changed' = changed /\ schema' = schema
      BY <1>6 DEF WriteCell, history
    <2>2. ASSUME ~changed[p]
          PROVE  schema[p] \in Supported /\ \E base, w, i : MidFrame(p, base, w, i)'
      <3>1. schema[p] \in Supported
        BY <1>0, <2>1, <2>2 DEF Knows
      <3>2. PICK base, w, i : MidFrame(p, base, w, i)
        BY <1>0, <2>1, <2>2 DEF Knows
      <3>3. MidFrame(p, base, w, i + 1)'
        BY <1>0, <1>6, <3>2, FrameGoesOn
      <3>4. PICK j : j = i + 1
        OBVIOUS
      <3>5. MidFrame(p, base, w, j)'
        BY <3>3, <3>4
      <3> QED BY <3>1, <3>5
    <2> QED BY <2>1, <2>2 DEF Knows
  <1>7. CASE Buffer(p) \/ Synchronize(p)
    <2>1. /\ pc[p] = "writing" /\ unwritten[p] = << >> /\ pc'[p] \in {"writer", "done"}
          /\ memory'[p] = Append(memory[p], pending[p].record)
          /\ schema' = schema /\ changed' = changed /\ content' = content
      BY <1>0, <1>7 DEF Buffer, Synchronize, Appended, file, history, ControlOK, OfProcesses
    <2>2. ~changed[p] =>
            schema[p] \in Supported /\ Reads(content, schema[p], Append(memory[p], pending[p].record))
      BY <1>0, <2>1, FrameIsWhole DEF Knows
    <2> QED BY <2>1, <2>2 DEF Knows
  <1>8. CASE AppendFails(p)
    <2>1. pc'[p] = "writer" /\ poisoned'[p]
      BY <1>0, <1>8 DEF AppendFails, ControlOK, OfProcesses
    <2> QED BY <2>1 DEF Knows
  <1> QED BY <1>1, <1>2, <1>3, <1>4, <1>5, <1>6, <1>7, <1>8 DEF Process

LEMMA SeenKeeps ==
  ASSUME IInv, NEW p \in Processes, Process(p)
  PROVE  Seen'
  <1> USE DEF Goto
  <1>0. /\ ControlOK /\ ControlOK' /\ LockOK /\ Seen
        /\ \A q \in Processes \ {p} : pc'[q] = pc[q] /\ since'[q] = since[q]
    BY OneProcessMoves DEF IInv, Same
  <1>1. CASE Buffer(p) \/ Synchronize(p)
    <2>1. pc[p] = "writing" /\ pc'[p] \in {"writer", "done"}
      BY <1>0, <1>1 DEF Buffer, Synchronize, Appended, ControlOK, OfProcesses
    <2>2. \A q \in Processes \ {p} : pc[q] \notin Locking
      BY <1>0, <2>1 DEF LockOK, Locking, States
    <2> QED BY <1>0, <2>1, <2>2 DEF Seen, Locking, States
  <1>2. CASE IntoWriter(p) \/ Resume(p)
    <2>1. since'[p] = {place} /\ place' = place
      BY <1>0, <1>2 DEF IntoWriter, Resume, BecomeWriter, names, ControlOK, OfProcesses
    <2> QED BY <1>0, <2>1 DEF Seen
  <1>3. CASE /\ QuietStep(p) \/ WriteCell(p)
             /\ ~(Buffer(p) \/ Synchronize(p) \/ IntoWriter(p) \/ Resume(p))
    <2>1. place' = place
      BY <1>3 DEF QuietStep, CreateNew, LockCreated, LockCreatedFails, LockExisting, OpenAuthorized,
                  AppendExecuted, ReconcileStep, AppendRecord, WriteCell, AppendFails, Drop, names
    <2>2. pc'[p] # "reconcile"
      BY <1>0, <1>3 DEF QuietStep, CreateNew, LockCreated, LockCreatedFails, LockExisting,
                  OpenAuthorized, AppendExecuted, ReconcileStep, AppendRecord, StartFrame,
                  WriteCell, AppendFails, Drop, Close, ControlOK
    <2> QED BY <1>0, <2>1, <2>2 DEF Seen
  <1> QED BY <1>1, <1>2, <1>3, StepsOfAProcess


-----------------------------------------------------------------------------
(***************************************************************************)
(* What an earlier run left: FlattenSeq is a recursive function too.       *)
(***************************************************************************)
FlattensUpTo(g, m, seqs) ==
  g = [i \in 1..m |-> IF i = 1 THEN seqs[i] ELSE g[i - 1] \o seqs[i]]

LEMMA FlattenIsDefined ==
  ASSUME NEW seqs, Len(seqs) \in Nat \ {0}
  PROVE  \E g : FlattenSeq(seqs) = g[Len(seqs)] /\ FlattensUpTo(g, Len(seqs), seqs)
  <1> DEFINE n == Len(seqs)
             K == {m \in 0..n : \E g : FlattensUpTo(g, m, seqs)}
  <1>1. 0 \in K
    <2>1. FlattensUpTo([i \in 1..0 |-> seqs[i]], 0, seqs)
      BY DEF FlattensUpTo
    <2> QED BY <2>1
  <1>2. ASSUME NEW m \in 0..(n - 1), m \in K
        PROVE  m + 1 \in K
    <2>1. PICK g : FlattensUpTo(g, m, seqs)
      BY <1>2
    <2> DEFINE last == IF m = 0 THEN seqs[1] ELSE g[m] \o seqs[m + 1]
               h == [i \in 1..(m + 1) |-> IF i = m + 1 THEN last ELSE g[i]]
    <2>2. ASSUME NEW i \in 1..(m + 1)
          PROVE  h[i] = IF i = 1 THEN seqs[i] ELSE h[i - 1] \o seqs[i]
      <3>1. CASE i = m + 1 /\ m = 0
        <4>1. h[i] = seqs[1] /\ i = 1
          BY <3>1
        <4> QED BY <4>1
      <3>2. CASE i = m + 1 /\ m # 0
        <4>1. i - 1 = m /\ m \in 1..(m + 1) /\ i # 1
          BY <3>2
        <4>2. h[m] = g[m]
          BY <4>1
        <4>3. last = g[m] \o seqs[i]
          BY <3>2
        <4>4. h[i] = g[m] \o seqs[i] /\ h[i - 1] = g[m] /\ i # 1
          BY <3>2, <4>1, <4>2, <4>3
        <4> QED BY <4>4
      <3>3. CASE i # m + 1 /\ i # 1
        <4>1. i \in 1..m /\ i - 1 \in 1..m /\ h[i] = g[i] /\ h[i - 1] = g[i - 1]
          BY <3>3
        <4> QED BY <2>1, <3>3, <4>1 DEF FlattensUpTo
      <3>4. CASE i # m + 1 /\ i = 1
        <4>1. i \in 1..m /\ h[i] = g[i]
          BY <3>4
        <4> QED BY <2>1, <3>4, <4>1 DEF FlattensUpTo
      <3> QED BY <3>1, <3>2, <3>3, <3>4
    <2>3. h = [i \in 1..(m + 1) |-> h[i]]
      OBVIOUS
    <2> HIDE DEF h
    <2>4. FlattensUpTo(h, m + 1, seqs)
      BY <2>2, <2>3 DEF FlattensUpTo
    <2> QED BY <2>4
  <1>3. n \in K
    <2>1. n \in Nat
      OBVIOUS
    <2> HIDE DEF K, n
    <2>2. \A m \in 0..n : m \in K
      BY <1>1, <1>2, <2>1, BoundedInduction
    <2> QED BY <2>1, <2>2
  <1>4. \E g : FlattensUpTo(g, n, seqs)
    BY <1>3
  <1> DEFINE f == CHOOSE g : FlattensUpTo(g, n, seqs)
  <1>5. FlattensUpTo(f, n, seqs)
    BY <1>4, Zenon
  <1>6. FlattenSeq(seqs) = f[n]
    <2>1. n # 0
      OBVIOUS
    <2> QED BY <2>1, Zenon DEF FlattenSeq, FlattensUpTo
  <1> QED BY <1>5, <1>6

\* A journal that was written whole reads as the records it is of.
LEMMA EncodedJournalReads ==
  ASSUME NEW v \in Supported, NEW S, NEW recs \in Seq(S), \A r \in S : Writable(r)
  PROVE  /\ SoundCells(EncodeJournal(v, recs))
         /\ InspectJournal(EncodeJournal(v, recs)).issue = "none"
         /\ InspectJournal(EncodeJournal(v, recs)).records = recs
  <1> DEFINE n == Len(recs)
             seqs == [i \in 1..n |-> EncodeFrame(v, i - 1, recs[i])]
  <1>1. n \in Nat /\ Len(seqs) = n
    <2>1. n \in Nat
      OBVIOUS
    <2>2. seqs \in Seq({EncodeFrame(v, i - 1, recs[i]) : i \in 1..n})
      BY <2>1
    <2> QED BY <2>1, <2>2
  <1>2. EncodeJournal(v, recs) = FlattenSeq(seqs)
    BY DEF EncodeJournal
  <1>3. CASE n = 0
    <2>1. recs = << >>
      BY <1>3
    <2>2. seqs = << >>
      BY <1>3
    <2>3. FlattenSeq(seqs) = seqs
      BY <1>1, <1>3, Zenon DEF FlattenSeq
    <2>4. EncodeJournal(v, recs) = << >>
      BY <1>2, <2>2, <2>3
    <2> QED BY <2>1, <2>4, NothingIsSound, EmptyFileReads DEF Reads
  <1>4. CASE n # 0
    <2>1. PICK g : FlattenSeq(seqs) = g[n] /\ FlattensUpTo(g, n, seqs)
      BY <1>1, <1>4, FlattenIsDefined
    <2>2. \A i \in 1..n : g[i] = IF i = 1 THEN seqs[i] ELSE g[i - 1] \o seqs[i]
      BY <2>1 DEF FlattensUpTo
    <2>3. \A i \in 1..n : seqs[i] = EncodeFrame(v, i - 1, recs[i])
      OBVIOUS
    <2> DEFINE T == {k \in 0..n : k # 0 => SoundCells(g[k]) /\ Reads(g[k], v, SubSeq(recs, 1, k))}
    <2>4. 0 \in T
      BY <1>1
    <2>5. ASSUME NEW k \in 0..(n - 1), k \in T
          PROVE  k + 1 \in T
      <3> DEFINE r == recs[k + 1]
                 m == SubSeq(recs, 1, k)
                 f == EncodeFrame(v, k, r)
                 base == IF k = 0 THEN << >> ELSE g[k]
      <3>1. k + 1 \in 1..n /\ (k + 1) - 1 = k
        BY <1>1
      <3>2. r \in S /\ Writable(r)
        BY <3>1
      <3>3. m \in Seq(S) /\ Len(m) = k /\ Append(m, r) = SubSeq(recs, 1, k + 1)
        BY <1>1, <3>1
      <3>4. seqs[k + 1] = f /\ SoundCells(f)
        BY <2>3, <3>1, FrameCells
      <3>5. g[k + 1] = base \o f
        <4>1. CASE k = 0
          <5>1. g[k + 1] = f
            BY <2>2, <3>1, <3>4, <4>1
          <5>2. PICK U : f \in Seq(U)
            BY <3>4 DEF SoundCells, IsSequence
          <5>3. << >> \o f = f
            BY <5>2, ConcatEmptySeq
          <5> QED BY <4>1, <5>1, <5>3
        <4>2. CASE k # 0
          <5> HIDE DEF f, seqs
          <5>1. g[k + 1] = g[(k + 1) - 1] \o seqs[k + 1]
            <6>1. k + 1 \in 1..n /\ k + 1 # 1
              BY <3>1, <4>2
            <6> QED BY <2>2, <6>1, Zenon
          <5>2. g[k + 1] = g[k] \o f
            BY <3>1, <3>4, <5>1
          <5> QED BY <4>2, <5>2
        <4> QED BY <4>1, <4>2
      <3>6. SoundCells(base) /\ \E w : Reads(base, w, m) /\ (Len(m) > 0 => v = w)
        <4>1. CASE k = 0
          <5>1. m = << >> /\ base = << >> /\ ~(Len(m) > 0)
            BY <3>3, <4>1
          <5> QED BY <5>1, EmptyFileReads, NothingIsSound
        <4>2. CASE k # 0
          BY <2>5, <4>2
        <4> QED BY <4>1, <4>2
      <3> HIDE DEF base, m, r
      <3>7. PICK w : Reads(base, w, m) /\ (Len(m) > 0 => v = w)
        BY <3>6
      <3>8. Reads(base \o EncodeFrame(v, Len(m), r), v, Append(m, r))
        BY <3>2, <3>6, <3>7, AppendedFrameIsRead
      <3>9. SoundCells(base \o f)
        BY <3>4, <3>6, ConcatIsSound
      <3>10. SoundCells(g[k + 1]) /\ Reads(g[k + 1], v, SubSeq(recs, 1, k + 1))
        BY <3>3, <3>5, <3>8, <3>9
      <3>11. k + 1 \in 0..n
        BY <1>1
      <3> QED BY <3>10, <3>11
    <2>6. n \in T
      <3> HIDE DEF T, n
      <3>1. \A k \in 0..n : k \in T
        BY <1>1, <2>4, <2>5, BoundedInduction
      <3> QED BY <1>1, <3>1
    <2>7. SubSeq(recs, 1, n) = recs
      BY SubSeqFull
    <2>8. SoundCells(g[n]) /\ Reads(g[n], v, recs)
      BY <1>4, <2>6, <2>7
    <2> QED BY <1>2, <2>1, <2>8 DEF Reads
  <1> QED BY <1>3, <1>4


-----------------------------------------------------------------------------
(***************************************************************************)
(* The invariant holds.                                                    *)
(***************************************************************************)
LEMMA InitialFile ==
  ASSUME Init
  PROVE  /\ SoundCells(content) /\ InspectJournal(content).issue = "none"
         /\ content # << >> => \E f \in EarlierFiles :
              content = EncodeJournal(f.version, f.records)
                /\ InspectJournal(content).records = f.records
  <1>1. CASE content = << >>
    BY <1>1, NothingIsSound, EmptyFileReads DEF Reads
  <1>2. CASE content # << >>
    <2>1. PICK f \in EarlierFiles : content = EncodeJournal(f.version, f.records)
      BY <1>2 DEF Init
    <2>2. f.version \in Supported /\ f.records \in Seq(Records)
      BY EarlierFilesAssumption
    <2> DEFINE v == f.version
               m == f.records
    <2> HIDE DEF v, m
    <2>3. /\ SoundCells(EncodeJournal(v, m)) /\ InspectJournal(EncodeJournal(v, m)).issue = "none"
          /\ InspectJournal(EncodeJournal(v, m)).records = m
      <3>1. v \in Supported /\ m \in Seq(Records)
        BY <2>2 DEF v, m
      <3> QED BY <3>1, WritableRecords, EncodedJournalReads
    <2> QED BY <2>1, <2>3 DEF v, m
  <1> QED BY <1>1, <1>2

LEMMA InitEstablishes == Init => IInv
  <1> SUFFICES ASSUME Init PROVE IInv
    OBVIOUS
  <1>1. ControlOK
    BY DEF Init, ControlOK, OfProcesses, States
  <1>2. LockOK
    BY NobodyAssumption DEF Init, LockOK, Locking, States
  <1>3. \A p \in Processes : unwritten[p] = << >> /\ pc[p] = "idle"
    BY DEF Init
  <1>4. CellsOK
    BY <1>3, InitialFile, NothingIsSound DEF CellsOK
  <1>5. CreatedOK
    BY <1>3 DEF Init, CreatedOK
  <1>6. Known /\ Seen
    BY <1>3 DEF Known, Knows, Seen
  <1>7. SyncedOK
    BY InitialFile, LengthOfSequence DEF Init, SoundCells, SyncedOK
  <1> QED BY <1>1, <1>2, <1>4, <1>5, <1>6, <1>7 DEF IInv

LEMMA ProcessKeeps == ASSUME IInv, NEW p \in Processes, Process(p) PROVE IInv'
  <1>1. ControlOK'
    BY OneProcessMoves DEF IInv
  <1>2. Known'
    BY OthersKnow, MoverKnows DEF Known
  <1>3. SyncedOK'
    <2>1. SoundCells(content) /\ SyncedOK
      BY DEF IInv, CellsOK
    <2>2. Len(content) \in Nat
      BY <2>1, LengthOfSequence DEF SoundCells
    <2>3. synced' \in {synced, Len(content)}
      BY DEF Process, CreateNew, LockCreated, LockCreatedFails, LockExisting, OpenAuthorized,
             IntoWriter, Resume, AppendExecuted, ReconcileStep, AppendRecord, WriteCell, Buffer,
             Synchronize, AppendFails, Drop, file
    <2> QED BY <2>1, <2>2, <2>3 DEF SyncedOK
  <1> QED BY <1>1, <1>2, <1>3, LocksKeep, CellsKeep, CreationKeeps, SeenKeeps DEF IInv

LEMMA JunkIsSound == SoundCells(<<Junk>>)
  <1>1. <<Junk>> \in Seq({Junk}) /\ Len(<<Junk>>) = 1 /\ <<Junk>>[1] = Junk
    OBVIOUS
  <1>2. \A i \in 1..1 : i = 1
    OBVIOUS
  <1>3. Junk.cell # "tail"
    BY DEF Junk
  <1> QED BY <1>1, <1>2, <1>3 DEF SoundCells, IsSequence

LEMMA PowerLossKeeps == IInv /\ PowerLoss => IInv'
  <1> SUFFICES ASSUME IInv, PowerLoss PROVE IInv'
    OBVIOUS
  <1>1. \A p \in Processes : pc'[p] = "idle" /\ unwritten'[p] = << >>
    BY DEF PowerLoss
  <1>2. ControlOK'
    BY DEF PowerLoss, ControlOK, OfProcesses, States
  <1>3. LockOK'
    BY <1>1, NobodyAssumption DEF PowerLoss, LockOK, Locking, States
  <1>4. SoundCells(content')
    <2>0. synced \in Nat
      BY DEF IInv, SyncedOK
    <2>1. PICK k \in synced..Len(content), junk \in BOOLEAN :
            content' = SubSeq(content, 1, k) \o (IF junk THEN <<Junk>> ELSE << >>)
      BY DEF PowerLoss
    <2>2. SoundCells(content) /\ k \in 0..Len(content)
      BY <2>0, LengthOfSequence DEF IInv, CellsOK, SoundCells
    <2>3. SoundCells(SubSeq(content, 1, k)) /\ SoundCells(IF junk THEN <<Junk>> ELSE << >>)
      BY <2>2, PrefixIsSound, JunkIsSound, NothingIsSound
    <2> DEFINE rest == IF junk THEN <<Junk>> ELSE << >>
    <2> HIDE DEF rest
    <2>4. SoundCells(SubSeq(content, 1, k) \o rest)
      BY <2>3, ConcatIsSound DEF rest
    <2> QED BY <2>1, <2>4 DEF rest
  <1>5. CellsOK'
    BY <1>1, <1>4, NothingIsSound DEF CellsOK
  <1>6. CreatedOK'
    <2>1. ~exists' => content' = << >>
      <3>1. CASE exists
        BY <3>1 DEF PowerLoss
      <3>2. CASE ~exists
        <4>1. content = << >> /\ Len(content) = 0
          BY <3>2 DEF IInv, CreatedOK
        <4>2. PICK k \in synced..0, junk \in BOOLEAN :
                /\ junk => k < 0
                /\ content' = SubSeq(<< >>, 1, k) \o (IF junk THEN <<Junk>> ELSE << >>)
          BY <4>1 DEF PowerLoss
        <4>3. k = 0 /\ ~junk
          BY <4>2 DEF IInv, SyncedOK
        <4>4. SubSeq(<< >>, 1, 0) = << >> /\ << >> \o << >> = << >>
          BY SubSeqEmpty
        <4> QED BY <4>2, <4>3, <4>4
      <3> QED BY <3>1, <3>2
    <2> QED BY <1>1, <2>1 DEF CreatedOK
  <1>7. Known' /\ Seen'
    BY <1>1 DEF Known, Knows, Seen
  <1>8. SyncedOK'
    BY <1>4, LengthOfSequence DEF PowerLoss, SoundCells, SyncedOK
  <1> QED BY <1>2, <1>3, <1>5, <1>6, <1>7, <1>8 DEF IInv

LEMMA RewriteKeeps == IInv /\ Rewrite => IInv'
  <1> SUFFICES ASSUME IInv, Rewrite PROVE IInv'
    OBVIOUS
  <1>1. /\ pc' = pc /\ memory' = memory /\ schema' = schema /\ shown' = shown /\ inspected' = inspected
        /\ poisoned' = poisoned /\ unwritten' = unwritten /\ pending' = pending /\ since' = since
        /\ lock' = lock /\ place' = place /\ exists' = exists
        /\ \A p \in Processes : changed'[p] = TRUE
    BY DEF Rewrite, writer, snapshot, names
  <1>2. ControlOK' /\ LockOK' /\ Seen'
    BY <1>1 DEF Rewrite, IInv, ControlOK, OfProcesses, LockOK, Seen
  <1>3. SoundCells(content) /\ Len(content) \in Nat /\ DOMAIN content = 1..Len(content)
    BY LengthOfSequence DEF IInv, CellsOK, SoundCells
  <1>4. SoundCells(content') /\ content # << >>
    <2>1. CASE content' \in {SubSeq(content, 1, k) : k \in 0..Len(content) - 1}
      <3>1. PICK k \in 0..Len(content) - 1 : content' = SubSeq(content, 1, k)
        BY <2>1
      <3>2. k \in 0..Len(content) /\ content # << >>
        BY <1>3
      <3> QED BY <1>3, <3>1, <3>2, PrefixIsSound
    <2>2. CASE content' \in {[content EXCEPT ![k] = Junk] : k \in DOMAIN content}
      <3>1. PICK k \in 1..Len(content) : content' = [content EXCEPT ![k] = Junk]
        BY <1>3, <2>2
      <3>2. content # << >>
        BY <1>3
      <3>3. PICK S : content \in Seq(S)
        BY <1>3 DEF SoundCells, IsSequence
      <3> DEFINE c == [content EXCEPT ![k] = Junk]
      <3>4. /\ c \in Seq(S \cup {Junk}) /\ Len(c) = Len(content)
            /\ \A i \in 1..Len(content) : c[i] = IF i = k THEN Junk ELSE content[i]
        BY <1>3, <3>3
      <3>5. Junk.cell # "tail"
        BY DEF Junk
      <3> HIDE DEF c
      <3>6. SoundCells(c)
        BY <1>3, <3>4, <3>5 DEF SoundCells, IsSequence
      <3> QED BY <3>1, <3>2, <3>6 DEF c
    <2> QED BY <2>1, <2>2 DEF Rewrite
  <1>5. CellsOK'
    BY <1>1, <1>4 DEF CellsOK, IInv
  <1>6. CreatedOK'
    BY <1>1, <1>4 DEF CreatedOK, IInv
  <1>7. Known'
    BY <1>1 DEF Known, Knows, IInv
  <1>8. SyncedOK'
    BY <1>4, LengthOfSequence DEF Rewrite, SoundCells, SyncedOK
  <1> QED BY <1>2, <1>5, <1>6, <1>7, <1>8 DEF IInv

LEMMA MoveKeeps == IInv /\ Move => IInv'
  <1> SUFFICES ASSUME IInv, Move PROVE IInv'
    OBVIOUS
  <1>1. /\ pc' = pc /\ memory' = memory /\ schema' = schema /\ shown' = shown /\ inspected' = inspected
        /\ poisoned' = poisoned /\ unwritten' = unwritten /\ pending' = pending /\ changed' = changed
        /\ lock' = lock /\ exists' = exists /\ content' = content
        /\ \A p \in Processes : since'[p] = since[p] \cup {place'}
    BY DEF Move, writer, snapshot, file
  <1>2. ControlOK' /\ LockOK' /\ CellsOK' /\ CreatedOK' /\ SyncedOK'
    BY <1>1 DEF Move, file, IInv, ControlOK, OfProcesses, LockOK, CellsOK, CreatedOK, SyncedOK
  <1>3. Known'
    <2>1. ASSUME NEW p \in Processes, NEW base, NEW w, NEW i, MidFrame(p, base, w, i)
          PROVE  MidFrame(p, base, w, i)'
      BY <1>1, <2>1 DEF MidFrame
    <2>2. ASSUME NEW p \in Processes
          PROVE  Knows(p)'
      <3>1. Knows(p)
        BY DEF IInv, Known
      <3> QED BY <1>1, <2>1, <3>1 DEF Knows
    <2> QED BY <2>2 DEF Known
  <1>4. Seen'
    BY <1>1 DEF Seen
  <1> QED BY <1>2, <1>3, <1>4 DEF IInv

LEMMA StutterKeeps == IInv /\ UNCHANGED vars => IInv'
  <1> SUFFICES ASSUME IInv, UNCHANGED vars PROVE IInv'
    OBVIOUS
  <1>1. /\ pc' = pc /\ memory' = memory /\ schema' = schema /\ shown' = shown /\ inspected' = inspected
        /\ poisoned' = poisoned /\ unwritten' = unwritten /\ pending' = pending /\ changed' = changed
        /\ lock' = lock /\ exists' = exists /\ content' = content /\ since' = since /\ place' = place
    BY DEF vars, file, writer, snapshot, names, history
  <1>2. ControlOK' /\ LockOK' /\ CellsOK' /\ CreatedOK' /\ Seen' /\ SyncedOK'
    BY <1>1 DEF IInv, ControlOK, OfProcesses, LockOK, CellsOK, CreatedOK, Seen, SyncedOK, vars, file
  <1>3. Known'
    <2>1. ASSUME NEW p \in Processes, NEW base, NEW w, NEW i, MidFrame(p, base, w, i)
          PROVE  MidFrame(p, base, w, i)'
      BY <1>1, <2>1 DEF MidFrame
    <2>2. ASSUME NEW p \in Processes
          PROVE  Knows(p)'
      <3>1. Knows(p)
        BY DEF IInv, Known
      <3> QED BY <1>1, <2>1, <3>1 DEF Knows
    <2> QED BY <2>2 DEF Known
  <1> QED BY <1>2, <1>3 DEF IInv

LEMMA NextKeeps == IInv /\ [Next]_vars => IInv'
  <1> SUFFICES ASSUME IInv, [Next]_vars PROVE IInv'
    OBVIOUS
  <1> QED BY ProcessKeeps, PowerLossKeeps, RewriteKeeps, MoveKeeps, StutterKeeps DEF Next

\* The inductive invariant: writers, readers and the frame that is being
\* written agree with the file (journal.rs:299, 329).
THEOREM Invariant == Spec => []IInv
  BY InitEstablishes, NextKeeps, PTL DEF Spec

\* A writer appends to the journal it believes in, and two processes never
\* write the same one, for any processes, records and journals of earlier
\* versions (journal.rs:299, 329).
THEOREM WritersKnow == Spec => []WritersKnowTheirFile
  <1>1. IInv => WritersKnowTheirFile
    <2> SUFFICES ASSUME IInv PROVE WritersKnowTheirFile
      OBVIOUS
    <2>1. ASSUME NEW p \in Processes, pc[p] \in {"writer", "reconcile"}, ~poisoned[p], ~changed[p]
          PROVE  Reads(content, schema[p], memory[p])
      BY <2>1 DEF IInv, Known, Knows
    <2>2. ASSUME NEW p \in Processes, NEW q \in Processes,
                 pc[p] \in {"writer", "reconcile", "writing"},
                 pc[q] \in {"writer", "reconcile", "writing"}
          PROVE  p = q
      <3>1. lock = p /\ lock = q
        BY <2>2 DEF IInv, LockOK, Locking, States
      <3> QED BY <3>1
    <2> QED BY <2>1, <2>2 DEF WritersKnowTheirFile, Reads
  <1> QED BY <1>1, Invariant, PTL

\* What a reconciliation records of the prepared step was true after the file
\* was checked (recovery.rs:473).
THEOREM ReconciliationsAreAsSeen == Spec => ReconciledAsSeen
  <1> DEFINE Ok(p) == pc[p] = "reconcile" /\ pc'[p] = "writing" =>
                        (IF IsCompletion(pending'[p].record) THEN "after" ELSE "before") \in since[p]
  <1>1. IInv /\ [Next]_vars => [\A p \in Processes : Ok(p)]_vars
    <2> SUFFICES ASSUME IInv, Next, NEW p \in Processes, pc[p] = "reconcile", pc'[p] = "writing"
                 PROVE  (IF IsCompletion(pending'[p].record) THEN "after" ELSE "before") \in since[p]
      OBVIOUS
    <2>1. ControlOK /\ place \in since[p]
      BY DEF IInv, Seen
    <2>2. PICK q \in Processes : Process(q)
      BY DEF Next, PowerLoss, Rewrite, Move
    <2>3. q = p
      BY <2>1, <2>2, OneProcessMoves DEF Same
    <2>4. ReconcileStep(p)
      BY <2>1, <2>2, <2>3 DEF Process, CreateNew, LockCreated, LockCreatedFails, LockExisting,
         OpenAuthorized, IntoWriter, Resume, AppendExecuted, WriteCell, Buffer, Synchronize,
         AppendFails, Drop, Close, Goto, ControlOK
    <2>5. /\ pending'[p].record = ReconcileRecord(Replayed(memory[p]), place)
          /\ place \in {"before", "after"}
      BY <2>1, <2>4 DEF ReconcileStep, AppendRecord, StartFrame, ControlOK, OfProcesses
    <2>6. IsCompletion(pending'[p].record) <=> place = "after"
      BY <2>5 DEF IsCompletion, ReconcileRecord, Rec
    <2> QED BY <2>1, <2>5, <2>6
  <1> QED BY <1>1, Invariant, PTL DEF Spec, ReconciledAsSeen


-----------------------------------------------------------------------------
(***************************************************************************)
(* Replay, record by record.                                               *)
(***************************************************************************)
ReplaysUpTo(g, m, records) ==
  g = [k \in 0..m |-> IF k = 0 THEN NoJournal ELSE ApplyRecord(g[k - 1], records[k])]

LEMMA ReplayIsDefined ==
  ASSUME NEW records, Len(records) \in Nat
  PROVE  /\ ReplayedUpTo(records)[0] = NoJournal
         /\ \A k \in 1..Len(records) :
              ReplayedUpTo(records)[k] = ApplyRecord(ReplayedUpTo(records)[k - 1], records[k])
  <1> DEFINE n == Len(records)
             K == {m \in 0..n : \E g : ReplaysUpTo(g, m, records)}
  <1>1. 0 \in K
    <2>1. ReplaysUpTo([k \in 0..0 |-> NoJournal], 0, records)
      BY DEF ReplaysUpTo
    <2> QED BY <2>1
  <1>2. ASSUME NEW m \in 0..(n - 1), m \in K
        PROVE  m + 1 \in K
    <2>1. PICK g : ReplaysUpTo(g, m, records)
      BY <1>2
    <2> DEFINE last == ApplyRecord(g[m], records[m + 1])
               h == [k \in 0..(m + 1) |-> IF k = m + 1 THEN last ELSE g[k]]
    <2>2. ASSUME NEW k \in 0..(m + 1)
          PROVE  h[k] = IF k = 0 THEN NoJournal ELSE ApplyRecord(h[k - 1], records[k])
      <3>1. CASE k = m + 1
        <4>1. h[k] = last /\ h[k - 1] = g[m] /\ k # 0
          BY <3>1
        <4> QED BY <3>1, <4>1
      <3>2. CASE k # m + 1 /\ k # 0
        <4>1. k \in 0..m /\ k - 1 \in 0..m /\ h[k] = g[k] /\ h[k - 1] = g[k - 1]
          BY <3>2
        <4> QED BY <2>1, <3>2, <4>1 DEF ReplaysUpTo
      <3>3. CASE k = 0
        <4>1. k \in 0..m /\ h[k] = g[k]
          BY <3>3
        <4> QED BY <2>1, <3>3, <4>1 DEF ReplaysUpTo
      <3> QED BY <3>1, <3>2, <3>3
    <2>3. h = [k \in 0..(m + 1) |-> h[k]]
      OBVIOUS
    <2> HIDE DEF h
    <2>4. ReplaysUpTo(h, m + 1, records)
      BY <2>2, <2>3 DEF ReplaysUpTo
    <2> QED BY <2>4
  <1>3. n \in K
    <2>1. n \in Nat
      OBVIOUS
    <2> HIDE DEF K, n
    <2>2. \A m \in 0..n : m \in K
      BY <1>1, <1>2, <2>1, BoundedInduction
    <2> QED BY <2>1, <2>2
  <1>4. \E g : ReplaysUpTo(g, n, records)
    BY <1>3
  <1>5. ReplayedUpTo(records) = CHOOSE g : ReplaysUpTo(g, n, records)
    BY Zenon DEF ReplayedUpTo, ReplaysUpTo
  <1>6. ReplaysUpTo(ReplayedUpTo(records), n, records)
    BY <1>4, <1>5, Zenon
  <1> QED BY <1>6 DEF ReplaysUpTo

\* The state after k records depends on these only.
LEMMA ReplayOfPrefix ==
  ASSUME NEW s, NEW t, Len(s) \in Nat, Len(t) \in Nat, Len(s) <= Len(t),
         \A i \in 1..Len(s) : t[i] = s[i]
  PROVE  /\ \A k \in 0..Len(s) : ReplayedUpTo(t)[k] = ReplayedUpTo(s)[k]
         /\ Replayed(s) = ReplayedUpTo(t)[Len(s)]
  <1> DEFINE n == Len(s)
             f == ReplayedUpTo(s)
             g == ReplayedUpTo(t)
             T == {k \in 0..n : g[k] = f[k]}
  <1>1. /\ f[0] = NoJournal /\ g[0] = NoJournal
        /\ \A k \in 1..n : f[k] = ApplyRecord(f[k - 1], s[k])
        /\ \A k \in 1..n : g[k] = ApplyRecord(g[k - 1], t[k])
    BY ReplayIsDefined
  <1>2. 0 \in T
    BY <1>1
  <1>3. ASSUME NEW k \in 0..(n - 1), k \in T
        PROVE  k + 1 \in T
    <2>1. k + 1 \in 1..n /\ (k + 1) - 1 = k
      OBVIOUS
    <2>2. f[k + 1] = ApplyRecord(f[k], s[k + 1]) /\ g[k + 1] = ApplyRecord(g[k], t[k + 1])
      BY <1>1, <2>1
    <2>3. g[k] = f[k] /\ t[k + 1] = s[k + 1]
      BY <1>3, <2>1
    <2>4. g[k + 1] = f[k + 1]
      BY <2>2, <2>3
    <2> QED BY <2>1, <2>4
  <1>4. \A k \in 0..n : k \in T
    <2>1. n \in Nat
      OBVIOUS
    <2> HIDE DEF T, n
    <2> QED BY <1>2, <1>3, <2>1, BoundedInduction
  <1>5. n \in 0..n
    OBVIOUS
  <1> QED BY <1>4, <1>5 DEF Replayed

LEMMA ReplayOfAppended ==
  ASSUME NEW s, IsSequence(s), NEW r
  PROVE  Replayed(Append(s, r)) = ApplyRecord(Replayed(s), r)
  <1> DEFINE t == Append(s, r)
  <1>1. /\ Len(s) \in Nat /\ Len(t) = Len(s) + 1 /\ t[Len(s) + 1] = r
        /\ \A i \in 1..Len(s) : t[i] = s[i]
    BY AppendIsSequence, LengthOfSequence
  <1> HIDE DEF t
  <1>2. Replayed(s) = ReplayedUpTo(t)[Len(s)]
    BY <1>1, ReplayOfPrefix
  <1>3. Len(t) \in 1..Len(t) /\ Len(t) - 1 = Len(s) /\ Len(t) \in Nat
    BY <1>1
  <1>4. ReplayedUpTo(t)[Len(t)] = ApplyRecord(ReplayedUpTo(t)[Len(t) - 1], t[Len(t)])
    BY <1>3, ReplayIsDefined
  <1> QED BY <1>1, <1>2, <1>3, <1>4 DEF Replayed, t

\* Records of the protocol have steps and counts that are numbers, and replay
\* of them has a state.
LEMMA RecordsKeepModes ==
  ASSUME NEW m \in Modes, NEW r \in Records
  PROVE  ApplyRecord(m, r) \in Modes
  <1>1. r.step \in Nat /\ r.count \in Nat /\ StepCount \in Nat
    BY RecordsAssumption, NAssumption DEF StepCount
  <1>2. /\ m.phase \in Phases /\ m.next \in 0..StepCount /\ m.prepared \in 0..StepCount
        /\ m.next + m.prepared <= StepCount \/ m.phase = "rollback"
        /\ m.phase # "forward" => m.prepared <= (IF m.phase = "rollback" THEN 1 ELSE 0)
        /\ m.phase = "rollback" => m.prepared <= m.next
        /\ m.phase = "failed" => m.next > 0
    BY DEF Modes
  <1>3. Rejected \in Modes
    BY <1>1 DEF Rejected, Mode, Modes, Phases
  <1>4. CASE m.phase = "forward"
    <2>1. ApplyForward(m, r) \in Modes
      BY <1>1, <1>2, <1>3, <1>4 DEF ApplyForward, Mode, Modes, Phases
    <2> QED BY <1>4, <2>1 DEF ApplyRecord
  <1>5. CASE m.phase = "rollback"
    <2>1. ApplyRollback(m, r) \in Modes
      BY <1>1, <1>2, <1>3, <1>5 DEF ApplyRollback, Mode, Modes, Phases
    <2> QED BY <1>5, <2>1 DEF ApplyRecord
  <1>6. CASE m.phase \notin {"forward", "rollback"}
    BY <1>1, <1>2, <1>3, <1>6 DEF ApplyRecord, Mode, Modes, Phases
  <1> QED BY <1>4, <1>5, <1>6

LEMMA ReplayHasAMode ==
  ASSUME NEW s \in Seq(Records)
  PROVE  Replayed(s) \in Modes
  <1> DEFINE n == Len(s)
             f == ReplayedUpTo(s)
             T == {k \in 0..n : f[k] \in Modes}
  <1>1. /\ n \in Nat /\ f[0] = NoJournal
        /\ \A k \in 1..n : f[k] = ApplyRecord(f[k - 1], s[k])
    BY ReplayIsDefined
  <1>2. NoJournal \in Modes
    <2>1. StepCount \in Nat
      BY NAssumption DEF StepCount
    <2> QED BY <2>1 DEF NoJournal, Mode, Modes, Phases
  <1>3. 0 \in T
    BY <1>1, <1>2
  <1>4. ASSUME NEW k \in 0..(n - 1), k \in T
        PROVE  k + 1 \in T
    <2>1. k + 1 \in 1..n /\ (k + 1) - 1 = k /\ s[k + 1] \in Records
      BY <1>1
    <2>2. f[k + 1] = ApplyRecord(f[k], s[k + 1])
      BY <1>1, <2>1
    <2> QED BY <1>4, <2>1, <2>2, RecordsKeepModes
  <1>5. \A k \in 0..n : k \in T
    <2> HIDE DEF T, n
    <2> QED BY <1>1, <1>3, <1>4, BoundedInduction
  <1>6. n \in 0..n
    BY <1>1
  <1> QED BY <1>5, <1>6 DEF Replayed

LEMMA RejectedStays ==
  ASSUME NEW m, NEW r, m.phase = "rejected"
  PROVE  ApplyRecord(m, r).phase = "rejected"
  <1>1. ApplyRecord(m, r) = Rejected
    BY DEF ApplyRecord
  <1> QED BY <1>1 DEF Rejected, Mode

\* What begins legal records is legal.
LEMMA LegalPrefix ==
  ASSUME NEW s, NEW t, Len(s) \in Nat, Len(t) \in Nat, Len(s) <= Len(t),
         \A i \in 1..Len(s) : t[i] = s[i], Legal(t)
  PROVE  Legal(s)
  <1> DEFINE n == Len(t)
             j == Len(s)
             g == ReplayedUpTo(t)
             T == {k \in 0..n : k >= j => g[k].phase = "rejected"}
  <1> SUFFICES ASSUME ~Legal(s) PROVE FALSE
    OBVIOUS
  <1>1. /\ n \in Nat /\ j \in 0..n /\ \A k \in 1..n : g[k] = ApplyRecord(g[k - 1], t[k])
    BY ReplayIsDefined
  <1>2. g[j].phase = "rejected"
    BY ReplayOfPrefix DEF Legal
  <1>3. 0 \in T
    BY <1>1, <1>2
  <1>4. ASSUME NEW k \in 0..(n - 1), k \in T
        PROVE  k + 1 \in T
    <2>1. k + 1 \in 1..n /\ (k + 1) - 1 = k
      BY <1>1
    <2>2. g[k + 1] = ApplyRecord(g[k], t[k + 1])
      BY <1>1, <2>1
    <2>3. CASE k >= j
      BY <1>4, <2>1, <2>2, <2>3, RejectedStays
    <2>4. CASE ~(k >= j)
      <3>1. k + 1 >= j => k + 1 = j
        BY <1>1, <2>4
      <3> QED BY <1>2, <2>1, <3>1
    <2> QED BY <2>3, <2>4
  <1>5. \A k \in 0..n : k \in T
    <2> HIDE DEF T, n
    <2> QED BY <1>1, <1>3, <1>4, BoundedInduction
  <1>6. g[n].phase = "rejected"
    BY <1>1, <1>5
  <1> QED BY <1>6 DEF Legal, Replayed

\* A record that replay accepts next makes legal records of legal ones.
LEMMA LegalAppend ==
  ASSUME NEW s \in Seq(Records), NEW r \in Records, ApplyRecord(Replayed(s), r) # Rejected
  PROVE  Legal(Append(s, r))
  <1>1. Replayed(Append(s, r)) = ApplyRecord(Replayed(s), r)
    BY ReplayOfAppended DEF IsSequence
  <1>2. ApplyRecord(Replayed(s), r) \in Modes
    BY ReplayHasAMode, RecordsKeepModes
  <1>3. \A m \in Modes : m.phase = "rejected" => m = Rejected
    BY DEF Modes, Rejected, Mode
  <1> QED BY <1>1, <1>2, <1>3 DEF Legal

\* What reconciles a prepared step is a record that replay accepts.
LEMMA ReconciliationIsLegal ==
  ASSUME NEW m \in Modes, ReconciliationRequired(m), NEW d \in {"before", "after"}
  PROVE  ReconcileRecord(m, d) \in Records /\ ApplyRecord(m, ReconcileRecord(m, d)) # Rejected
  <1>1. ReconcileRecord(m, d) \in Records
    BY RecordsAssumption
  <1>2. m.next \in Nat /\ m.prepared \in Nat /\ m.prepared > 0 /\ m.phase \in {"forward", "rollback"}
        /\ (m.phase = "rollback" => m.prepared <= 1)
    BY NAssumption DEF Modes, ReconciliationRequired, StepCount
  <1> DEFINE r == ReconcileRecord(m, d)
  <1>3. ApplyRecord(m, r).phase = m.phase
    <2>1. CASE m.phase = "forward"
      <3>1. /\ r.type \in {"ForwardStepCompleted", "ForwardStepNotApplied"}
            /\ r.step = m.next
        BY <2>1 DEF ReconcileRecord, Rec, PreparedStep
      <3> HIDE DEF r
      <3>2. ApplyForward(m, r).phase = "forward"
        BY <1>2, <3>1 DEF ApplyForward, Mode
      <3> QED BY <2>1, <3>2 DEF ApplyRecord
    <2>2. CASE m.phase = "rollback"
      <3>1. /\ r.type \in {"RollbackStepCompleted", "RollbackStepNotApplied"}
            /\ r.step = m.next - 1
        BY <2>2 DEF ReconcileRecord, Rec, PreparedStep
      <3> HIDE DEF r
      <3>2. m.prepared = 1
        BY <1>2, <2>2
      <3>3. ApplyRollback(m, r).phase = "rollback"
        BY <1>2, <3>1, <3>2 DEF ApplyRollback, Mode
      <3> QED BY <2>2, <3>3 DEF ApplyRecord
    <2> QED BY <1>2, <2>1, <2>2
  <1>4. Rejected.phase = "rejected"
    BY DEF Rejected, Mode
  <1> QED BY <1>1, <1>2, <1>3, <1>4


-----------------------------------------------------------------------------
(***************************************************************************)
(* What is left of a reading when the end of a file is lost or damaged.    *)
(***************************************************************************)
BeginsWith(t, s) == Len(s) <= Len(t) /\ \A i \in 1..Len(s) : t[i] = s[i]

LEMMA RecordsGrow ==
  ASSUME NEW bytes, SoundCells(bytes), NEW j \in 0..Len(bytes)
  PROVE  BeginsWith(InspectJournal(bytes).records, ReadAfter(bytes, j).records)
  <1> DEFINE n == Len(bytes)
             first == ReadAfter(bytes, j).records
             T == {k \in 0..n : k >= j => BeginsWith(ReadAfter(bytes, k).records, first)}
  <1>1. n \in Nat /\ j \in 0..n /\ n \in 0..n
    BY LengthOfSequence DEF SoundCells
  <1>2. \A k \in 0..n : ReadOK(bytes, k, ReadAfter(bytes, k))
    BY ReadingIsOK
  <1>3. Len(first) \in Nat
    BY <1>1, <1>2, LengthOfSequence DEF ReadOK
  <1>4. ASSUME NEW k \in 0..n, k = j
        PROVE  k \in T
    BY <1>3, <1>4 DEF BeginsWith
  <1>5. 0 \in T
    <2>1. CASE j = 0
      BY <1>1, <1>4, <2>1
    <2>2. CASE j # 0
      BY <1>1, <2>2
    <2> QED BY <2>1, <2>2
  <1>6. ASSUME NEW k \in 0..(n - 1), k \in T
        PROVE  k + 1 \in T
    <2> DEFINE r == ReadAfter(bytes, k)
               t == ReadAfter(bytes, k + 1)
    <2>1. t = NextFrame(bytes, r) /\ ReadOK(bytes, k, r) /\ k + 1 \in 0..n
      BY <1>1, <1>2, ReadAfterIs
    <2>2. CASE k >= j
      <3>1. BeginsWith(r.records, first)
        BY <1>6, <2>2
      <3> HIDE DEF r, t, first
      <3>2. IsSequence(r.records) /\ Len(r.records) \in Nat
        BY <2>1, LengthOfSequence DEF ReadOK
      <3>3. t.records = r.records \/ \E x : t.records = Append(r.records, x)
        <4>1. CASE Ended(bytes, r)
          <5>1. t = r
            BY <2>1, <4>1, NextFrameIs DEF Ended
          <5> QED BY <5>1
        <4>2. CASE ~Ended(bytes, r) /\ Issue(bytes, r) = "none"
          <5>1. t = AfterFrame(bytes, r)
            BY <2>1, <4>2, NextFrameIs DEF Ended
          <5> QED BY <5>1 DEF AfterFrame
        <4>3. CASE ~Ended(bytes, r) /\ Issue(bytes, r) # "none"
          <5>1. t = [r EXCEPT !.issue = Issue(bytes, r)]
            BY <2>1, <4>3, NextFrameIs DEF Ended
          <5>2. t.records = r.records
            BY <2>1, <5>1 DEF ReadOK
          <5> QED BY <5>2
        <4> QED BY <4>1, <4>2, <4>3
      <3>4. BeginsWith(t.records, first)
        <4>1. CASE t.records = r.records
          BY <3>1, <4>1
        <4>2. ASSUME NEW x, t.records = Append(r.records, x)
              PROVE  BeginsWith(t.records, first)
          <5>1. /\ Len(t.records) = Len(r.records) + 1
                /\ \A i \in 1..Len(r.records) : t.records[i] = r.records[i]
            BY <3>2, <4>2, AppendIsSequence
          <5> QED BY <1>3, <3>1, <3>2, <5>1 DEF BeginsWith, first
        <4> QED BY <3>3, <4>1, <4>2
      <3> QED BY <2>1, <3>4 DEF t, first
    <2>3. CASE ~(k >= j)
      <3>1. k + 1 >= j => k + 1 = j
        BY <1>1, <2>3
      <3> QED BY <1>4, <2>1, <3>1
    <2> QED BY <2>2, <2>3
  <1>7. n \in T
    <2> HIDE DEF T, n
    <2>1. \A k \in 0..n : k \in T
      BY <1>1, <1>5, <1>6, BoundedInduction
    <2> QED BY <1>1, <2>1
  <1> QED BY <1>1, <1>7, ReadAfterIs

\* The last round without an issue has read all records.
LEMMA LastGoodRound ==
  ASSUME NEW bytes, SoundCells(bytes)
  PROVE  \E k \in 0..Len(bytes) :
           LET r == ReadAfter(bytes, k)
           IN  /\ r.issue = "none" /\ r.records = InspectJournal(bytes).records
               /\ \/ r = InspectJournal(bytes) /\ r.offset = Len(bytes) + 1
                  \/ /\ r.offset \in 1..Len(bytes)
                     /\ ~FrameAt(bytes, r.offset, r.version, Len(r.records))
  <1> DEFINE n == Len(bytes)
             Good(k, l) == LET r == ReadAfter(bytes, k)
                           IN  /\ r.issue = "none" /\ r.records = ReadAfter(bytes, l).records
                               /\ r.offset \in 1..Len(bytes)
                               /\ ~FrameAt(bytes, r.offset, r.version, Len(r.records))
             T == {l \in 0..n : ReadAfter(bytes, l).issue # "none" => \E k \in 0..n : Good(k, l)}
  <1>1. n \in Nat /\ n \in 0..n
    BY LengthOfSequence DEF SoundCells
  <1>2. \A k \in 0..n : ReadOK(bytes, k, ReadAfter(bytes, k))
    BY ReadingIsOK
  <1>3. 0 \in T
    BY <1>1, ReadAfterIs DEF NoFrames
  <1>4. ASSUME NEW l \in 0..(n - 1), l \in T
        PROVE  l + 1 \in T
    <2> DEFINE r == ReadAfter(bytes, l)
               t == ReadAfter(bytes, l + 1)
    <2>1. t = NextFrame(bytes, r) /\ ReadOK(bytes, l, r) /\ l + 1 \in 0..n /\ l \in 0..n
      BY <1>1, <1>2, ReadAfterIs
    <2>2. CASE Ended(bytes, r)
      <3>1. t = r
        <4> HIDE DEF r, t
        <4> QED BY <2>1, <2>2, NextFrameIs DEF Ended
      <3> QED BY <1>4, <2>1, <3>1
    <2>3. CASE ~Ended(bytes, r) /\ Issue(bytes, r) = "none"
      <3> HIDE DEF r, t
      <3>1. t = AfterFrame(bytes, r)
        BY <2>1, <2>3, NextFrameIs DEF Ended
      <3>2. t.issue = "none"
        BY <3>1 DEF AfterFrame
      <3> QED BY <2>1, <3>2 DEF t
    <2>4. CASE ~Ended(bytes, r) /\ Issue(bytes, r) # "none"
      <3>1. r.issue = "none" /\ r.offset \in 1..n
        <4> HIDE DEF r, t
        <4> QED BY <1>1, <2>1, <2>4 DEF Ended, ReadOK
      <3>2. t.records = r.records
        <4> HIDE DEF r, t
        <4>1. t = [r EXCEPT !.issue = Issue(bytes, r)]
          BY <2>1, <2>4, NextFrameIs DEF Ended
        <4> QED BY <2>1, <4>1 DEF ReadOK
      <3>3. ~FrameAt(bytes, r.offset, r.version, Len(r.records))
        <4> HIDE DEF r, t
        <4> QED BY <2>4, <3>1, IssueIsNone DEF Issue
      <3>4. Good(l, l + 1)
        BY <3>1, <3>2, <3>3
      <3> HIDE DEF Good
      <3> QED BY <2>1, <3>4
    <2> QED BY <2>2, <2>3, <2>4
  <1>5. n \in T
    <2> HIDE DEF T, n
    <2>1. \A k \in 0..n : k \in T
      BY <1>1, <1>3, <1>4, BoundedInduction
    <2> QED BY <1>1, <2>1
  <1>6. InspectJournal(bytes) = ReadAfter(bytes, n)
    BY <1>1, ReadAfterIs
  <1>7. CASE InspectJournal(bytes).issue = "none"
    BY <1>1, <1>6, <1>7, LoopEnds
  <1>8. CASE InspectJournal(bytes).issue # "none"
    <2>1. PICK k \in 0..n : Good(k, n)
      BY <1>5, <1>6, <1>8
    <2> QED BY <1>6, <2>1
  <1> QED BY <1>7, <1>8

\* The beginning of a file reads as a beginning of its records.
LEMMA PrefixReadsPrefix ==
  ASSUME NEW base, NEW bytes, Begins(base, bytes)
  PROVE  BeginsWith(InspectJournal(bytes).records, InspectJournal(base).records)
  <1>1. SoundCells(base) /\ SoundCells(bytes) /\ Len(base) \in Nat /\ Len(bytes) \in Nat
        /\ Len(base) <= Len(bytes)
    BY LengthOfSequence DEF Begins, SoundCells
  <1>2. PICK k \in 0..Len(base) : /\ ReadAfter(base, k).issue = "none"
                                  /\ ReadAfter(base, k).records = InspectJournal(base).records
    BY <1>1, LastGoodRound
  <1>3. PICK j \in 0..k : ReadAfter(bytes, j) = ReadAfter(base, k)
    BY <1>2, SameReading
  <1>4. j \in 0..Len(bytes)
    BY <1>1
  <1> QED BY <1>1, <1>2, <1>3, <1>4, RecordsGrow

\* Where no frame is, the reading ends with an issue.
LEMMA NoFrameFollows ==
  ASSUME NEW bytes, SoundCells(bytes), NEW j \in 0..Len(bytes), NEW r, r = ReadAfter(bytes, j),
         r.issue = "none", r.offset \in 1..Len(bytes),
         ~FrameAt(bytes, r.offset, r.version, Len(r.records))
  PROVE  InspectJournal(bytes).issue # "none" /\ InspectJournal(bytes).records = r.records
  <1>1. Len(bytes) \in Nat
    BY LengthOfSequence DEF SoundCells
  <1>2. ReadOK(bytes, j, r)
    BY ReadingIsOK
  <1>3. j # Len(bytes)
    BY <1>1, <1>2 DEF ReadOK
  <1>4. j \in 0..(Len(bytes) - 1) /\ j + 1 \in 0..Len(bytes) /\ ~(r.offset > Len(bytes))
    BY <1>1, <1>3
  <1>5. Issue(bytes, r) # "none"
    BY IssueIsNone DEF Issue
  <1> DEFINE i == Issue(bytes, r)
             t == [r EXCEPT !.issue = i]
  <1>6. ReadAfter(bytes, j + 1) = t
    <2>1. ReadAfter(bytes, j + 1) = NextFrame(bytes, r)
      BY <1>1, <1>4, ReadAfterIs
    <2> QED BY <1>4, <1>5, <2>1, NextFrameIs
  <1> HIDE DEF i
  <1>7. t.issue = i /\ t.records = r.records
    BY <1>2 DEF ReadOK
  <1> HIDE DEF t
  <1>8. InspectJournal(bytes) = t
    BY <1>4, <1>5, <1>6, <1>7, EndedStays DEF Ended, i
  <1> QED BY <1>5, <1>7, <1>8 DEF i

\* A block that was never written is not read, and what it follows is read as
\* before.
LEMMA JunkIsNotRead ==
  ASSUME NEW base, SoundCells(base)
  PROVE  InspectJournal(base \o <<Junk>>).records = InspectJournal(base).records
  <1> DEFINE bytes == base \o <<Junk>>
             n == Len(base)
  <1>1. /\ n \in Nat /\ SoundCells(bytes) /\ Begins(base, bytes) /\ Len(bytes) = n + 1
        /\ bytes[n + 1] = Junk
    <2>1. SoundCells(<<Junk>>) /\ Len(<<Junk>>) = 1 /\ <<Junk>>[1] = Junk /\ 1 \in 1..1
      BY JunkIsSound
    <2> QED BY <2>1, ConcatIsSound, ConcatIsSequence, LengthOfSequence DEF SoundCells
  <1>2. bytes[n + 1].cell = "junk"
    BY <1>1 DEF Junk
  <1> HIDE DEF bytes
  <1>3. PICK k \in 0..n :
           LET r == ReadAfter(base, k)
           IN  /\ r.issue = "none" /\ r.records = InspectJournal(base).records
               /\ \/ r.offset = n + 1
                  \/ r.offset \in 1..n /\ ~FrameAt(base, r.offset, r.version, Len(r.records))
    BY LastGoodRound
  <1> DEFINE r == ReadAfter(base, k)
  <1>4. /\ r.issue = "none" /\ r.records = InspectJournal(base).records
        /\ \/ r.offset = n + 1
           \/ r.offset \in 1..n /\ ~FrameAt(base, r.offset, r.version, Len(r.records))
    BY <1>3
  <1>5. PICK j \in 0..k : ReadAfter(bytes, j) = r
    BY <1>1, <1>4, SameReading
  <1> HIDE DEF r, n
  <1> DEFINE o == r.offset
             v == r.version
             c == Len(r.records)
  <1>6. o \in 1..Len(bytes)
    BY <1>1, <1>4
  <1>7. ~FrameAt(bytes, o, v, c)
    <2> SUFFICES ASSUME FrameAt(bytes, o, v, c) PROVE FALSE
      OBVIOUS
    <2>1. /\ o + 1 <= n + 1 /\ bytes[o + 1].cell = "tail" /\ bytes[o + 1].length \in {0, 1}
          /\ o + 1 + bytes[o + 1].length <= n + 1
          /\ bytes[o + 1].length = 1 => bytes[o + 2].cell = "payload"
      BY <1>1, <1>6 DEF FrameAt, SoundCells
    <2>2. o + 1 # n + 1
      BY <1>2, <2>1
    <2>3. o \in 1..n /\ o + 1 \in 1..n
      BY <1>1, <1>6, <2>1, <2>2
    <2>4. bytes[o + 1].length = 1 => o + 2 # n + 1
      BY <1>2, <2>1
    <2>5. o + 1 + bytes[o + 1].length <= n
      BY <1>1, <1>6, <2>1, <2>2, <2>4
    <2>6. /\ bytes[o] = base[o] /\ bytes[o + 1] = base[o + 1]
          /\ bytes[o + 1].length = 1 => bytes[o + 2] = base[o + 2]
      BY <1>1, <2>1, <2>3, <2>5 DEF Begins, n
    <2>7. RecordAt(bytes, o) = RecordAt(base, o)
      BY <2>1, <2>6 DEF RecordAt
    <2>8. FrameAt(base, o, v, c)
      BY <2>1, <2>3, <2>5, <2>6, <2>7 DEF FrameAt, n
    <2> QED BY <1>1, <1>4, <2>3, <2>8
  <1>8. j \in 0..Len(bytes)
    BY <1>1 DEF n
  <1> QED BY <1>1, <1>4, <1>5, <1>6, <1>7, <1>8, NoFrameFollows DEF bytes

\* A part of a frame is not read either, and shows.
LEMMA PartOfAFrame ==
  ASSUME NEW base, SoundCells(base), NEW m, NEW w, Reads(base, w, m), NEW v, NEW q, NEW r,
         NEW i \in 1..(Len(EncodeFrame(v, q, r)) - 1)
  PROVE  LET bytes == base \o SubSeq(EncodeFrame(v, q, r), 1, i)
         IN  InspectJournal(bytes).issue # "none" /\ InspectJournal(bytes).records = m
  <1> DEFINE f == EncodeFrame(v, q, r)
             g == SubSeq(f, 1, i)
             bytes == base \o g
             n == Len(base)
             last == InspectJournal(base)
  <1>1. /\ SoundCells(f) /\ Len(f) = 2 + PayloadCells(r) /\ PayloadCells(r) \in {0, 1}
        /\ f[1] = HeadCell(v, r) /\ f[2] = TailCell(v, q, r)
    BY FrameCells
  <1> HIDE DEF f
  <1>2. i \in 0..Len(f) /\ i \in 1..(Len(f) - 1) /\ (i # 1 => i = 2 /\ PayloadCells(r) = 1)
    BY <1>1 DEF f
  <1>3. SoundCells(g) /\ Len(g) = i /\ \A k \in 1..i : g[k] = f[k]
    BY <1>1, <1>2, PrefixIsSound, PrefixIsSequence DEF SoundCells
  <1> HIDE DEF g
  <1>4. /\ n \in Nat /\ Len(bytes) = n + i /\ SoundCells(bytes) /\ Begins(base, bytes)
        /\ \A k \in 1..i : bytes[n + k] = g[k]
    <2>1. n \in Nat /\ IsSequence(base) /\ IsSequence(g)
      BY <1>3, LengthOfSequence DEF SoundCells
    <2>2. Len(bytes) = n + Len(g) /\ \A k \in 1..Len(g) : bytes[n + k] = g[k]
      BY <2>1, ConcatIsSequence
    <2>3. SoundCells(bytes) /\ Begins(base, bytes)
      BY <1>3, ConcatIsSound
    <2> QED BY <1>3, <2>1, <2>2, <2>3
  <1> HIDE DEF bytes
  <1>5. /\ last.issue = "none" /\ last.records = m /\ last.offset = n + 1
        /\ \E j \in 0..n : ReadAfter(bytes, j) = last
    BY <1>4, ReadingGoesOn DEF Reads
  <1> HIDE DEF last, n
  <1>6. ~FrameAt(bytes, n + 1, last.version, Len(last.records))
    <2> SUFFICES ASSUME FrameAt(bytes, n + 1, last.version, Len(last.records)) PROVE FALSE
      OBVIOUS
    <2>1. n + 1 + 1 <= n + i /\ (n + 1) + 1 + bytes[(n + 1) + 1].length <= n + i
      BY <1>4 DEF FrameAt
    <2>2. i = 2 /\ PayloadCells(r) = 1
      BY <1>2, <1>4, <2>1
    <2>3. (n + 1) + 1 = n + 2 /\ 2 \in 1..i
      BY <1>4, <2>2
    <2>4. bytes[n + 2] = TailCell(v, q, r)
      BY <1>1, <1>3, <1>4, <2>3
    <2>5. bytes[n + 2].length = 1
      BY <2>2, <2>4 DEF TailCell
    <2> QED BY <1>4, <2>1, <2>2, <2>3, <2>5
  <1>7. PICK j \in 0..n : ReadAfter(bytes, j) = last
    BY <1>5
  <1>8. j \in 0..Len(bytes) /\ n + 1 \in 1..Len(bytes)
    BY <1>2, <1>4
  <1> QED BY <1>4, <1>5, <1>6, <1>7, <1>8, NoFrameFollows DEF bytes, g, f


-----------------------------------------------------------------------------
(***************************************************************************)
(* The file is a durable log.  Until another program rewrites the file,    *)
(* its records are legal, what is acknowledged is in its synchronized      *)
(* part, and the frame that is being written is of a record that replay    *)
(* accepts next.                                                           *)
(***************************************************************************)
Found == InspectJournal(content).records

AcknowledgedIsSynced ==
  /\ acknowledged \in Nat /\ synced <= Len(content)
  /\ acknowledged <= Len(InspectJournal(SubSeq(content, 1, synced)).records)

Intends(p) ==
  /\ pc[p] = "authorized" /\ inspected[p] # "none" => ReconciliationRequired(Replayed(memory[p]))
  /\ pc[p] = "reconcile" => ReconciliationRequired(Replayed(memory[p]))
  /\ pc[p] = "writing" =>
       pending[p].record \in Records /\ Legal(Append(memory[p], pending[p].record))

Untouched ==
  /\ \A p \in Processes : ~changed[p] /\ Intends(p)
  /\ Found \in Seq(Records) /\ Legal(Found)
  /\ AcknowledgedIsSynced

LogInv == rewrites \in Nat /\ (rewrites = 0 => Untouched)

LEMMA EmptyIsLegal ==
  /\ << >> \in Seq(Records) /\ Legal(<< >>) /\ Legal(Append(<< >>, Header)) /\ Header \in Records
  <1>1. Len(<< >>) = 0
    OBVIOUS
  <1>2. Replayed(<< >>) = NoJournal
    BY <1>1, ReplayIsDefined DEF Replayed
  <1>3. ApplyRecord(NoJournal, Header) # Rejected
    BY DEF ApplyRecord, NoJournal, Header, Rec, Mode, Rejected
  <1>4. Header \in Records
    BY RecordsAssumption
  <1>5. Legal(<< >>)
    BY <1>2 DEF Legal, NoJournal, Mode
  <1>6. << >> \in Seq(Records)
    OBVIOUS
  <1> QED BY <1>2, <1>3, <1>4, <1>5, <1>6, LegalAppend

LEMMA MoverIntends ==
  ASSUME IInv, Untouched, NEW p \in Processes, Process(p)
  PROVE  Intends(p)'
  <1> USE DEF Goto
  <1>0. /\ ControlOK /\ ControlOK' /\ Knows(p) /\ Intends(p) /\ ~changed[p]
        /\ Found \in Seq(Records)
    BY OneProcessMoves DEF IInv, Known, Untouched
  <1>1. CASE \/ CreateNew(p) \/ LockExisting(p) \/ LockCreatedFails(p) \/ Resume(p)
             \/ Buffer(p) \/ Synchronize(p) \/ AppendFails(p) \/ Drop(p)
    <2>1. pc'[p] \in {"idle", "created", "locked", "writer", "done"}
      BY <1>0, <1>1 DEF CreateNew, LockExisting, LockCreatedFails, Resume, Buffer, Synchronize,
                        Appended, AppendFails, Drop, Close, ControlOK
    <2> QED BY <2>1 DEF Intends
  <1>2. CASE LockCreated(p)
    <2>1. pc'[p] = "writing" /\ memory'[p] = << >> /\ pending'[p].record = Header
      BY <1>0, <1>2 DEF LockCreated, BecomeWriter, StartFrame, ControlOK, OfProcesses
    <2> QED BY <2>1, EmptyIsLegal DEF Intends
  <1>3. CASE OpenAuthorized(p)
    <2> DEFINE m == InspectJournal(content).records
    <2>1. /\ pc'[p] = "authorized" /\ memory'[p] = m
          /\ inspected'[p] # "none" => ReconciliationRequired(Replayed(m))
      BY <1>0, <1>3 DEF OpenAuthorized, ControlOK, OfProcesses
    <2> HIDE DEF m
    <2> QED BY <2>1 DEF Intends
  <1>4. CASE IntoWriter(p)
    <2>1. /\ pc[p] = "authorized" /\ pc'[p] = WriterStep(p) /\ memory'[p] = memory[p]
      BY <1>0, <1>4 DEF IntoWriter, BecomeWriter, ControlOK, OfProcesses
    <2>2. pc'[p] \in {"writer", "reconcile"} /\ (pc'[p] = "reconcile" => inspected[p] # "none")
      BY <2>1 DEF WriterStep
    <2> QED BY <1>0, <2>1, <2>2 DEF Intends
  <1>5. CASE AppendExecuted(p) \/ ReconcileStep(p)
    <2>1. PICK r, s : /\ AppendRecord(p, r, s)
                      /\ \/ r \in Records /\ ApplyRecord(Replayed(memory[p]), r) # Rejected
                         \/ /\ pc[p] = "reconcile" /\ place \in {"before", "after"}
                            /\ r = ReconcileRecord(Replayed(memory[p]), place)
      <3>1. CASE AppendExecuted(p)
        BY <3>1 DEF AppendExecuted
      <3>2. CASE ReconcileStep(p)
        BY <3>2 DEF ReconcileStep
      <3> QED BY <1>5, <3>1, <3>2
    <2>2. pc[p] \in {"writer", "reconcile"} /\ ~poisoned[p]
      BY <1>5, <2>1 DEF AppendExecuted, ReconcileStep, AppendRecord, ValidateAppend
    <2>3. pc'[p] = "writing" /\ memory'[p] = memory[p] /\ pending'[p].record = r
      BY <1>0, <2>1 DEF AppendRecord, StartFrame, ControlOK, OfProcesses
    <2>4. memory[p] \in Seq(Records)
      BY <1>0, <2>2 DEF Knows, Reads, Found
    <2>5. r \in Records /\ ApplyRecord(Replayed(memory[p]), r) # Rejected
      <3>1. ASSUME pc[p] = "reconcile", place \in {"before", "after"}
            PROVE  LET m == Replayed(memory[p])
                   IN  /\ ReconcileRecord(m, place) \in Records
                       /\ ApplyRecord(m, ReconcileRecord(m, place)) # Rejected
        <4>1. ReconciliationRequired(Replayed(memory[p])) /\ Replayed(memory[p]) \in Modes
          BY <1>0, <2>4, <3>1, ReplayHasAMode DEF Intends
        <4> QED BY <3>1, <4>1, ReconciliationIsLegal
      <3> QED BY <2>1, <3>1
    <2>6. Legal(Append(memory[p], r))
      BY <2>4, <2>5, LegalAppend
    <2> QED BY <2>3, <2>5, <2>6 DEF Intends
  <1>6. CASE WriteCell(p)
    <2>1. pc' = pc /\ memory' = memory /\ pending' = pending /\ inspected' = inspected
      BY <1>6 DEF WriteCell, snapshot
    <2> QED BY <1>0, <2>1 DEF Intends
  <1> QED BY <1>1, <1>2, <1>3, <1>4, <1>5, <1>6 DEF Process

LEMMA ProcessesIntend ==
  ASSUME IInv, Untouched, NEW p \in Processes, Process(p)
  PROVE  \A q \in Processes : ~changed'[q] /\ Intends(q)'
  <1>1. ASSUME NEW q \in Processes \ {p}
        PROVE  ~changed'[q] /\ Intends(q)'
    <2>1. Same(q) /\ ~changed[q] /\ Intends(q)
      BY OneProcessMoves DEF IInv, Untouched
    <2> QED BY <2>1 DEF Same, Intends
  <1>2. ~changed'[p]
    <2>1. ControlOK /\ ~changed[p]
      BY DEF IInv, Untouched
    <2>2. \/ changed' = changed \/ changed' = [changed EXCEPT ![p] = FALSE]
      BY DEF Process, CreateNew, LockCreated, LockCreatedFails, LockExisting, OpenAuthorized,
             IntoWriter, Resume, AppendExecuted, ReconcileStep, AppendRecord, WriteCell, Buffer,
             Synchronize, AppendFails, Drop, Close, BecomeWriter, history
    <2> QED BY <2>1, <2>2 DEF ControlOK, OfProcesses
  <1> QED BY <1>1, <1>2, MoverIntends

\* The cells that are synchronized are what begins the file.
LEMMA SyncedStays ==
  ASSUME SoundCells(content), SoundCells(content'), NEW k \in Nat, k <= Len(content),
         k <= Len(content'), \A i \in 1..k : content'[i] = content[i]
  PROVE  SubSeq(content', 1, k) = SubSeq(content, 1, k)
  <1>1. PICK S : content \in Seq(S) /\ content' \in Seq(S)
    BY CommonElements DEF SoundCells
  <1>2. /\ SubSeq(content, 1, k) \in Seq(S) /\ SubSeq(content', 1, k) \in Seq(S)
        /\ Len(SubSeq(content, 1, k)) = k /\ Len(SubSeq(content', 1, k)) = k
        /\ \A i \in 1..k : SubSeq(content, 1, k)[i] = content[i]
        /\ \A i \in 1..k : SubSeq(content', 1, k)[i] = content'[i]
    <2>1. k \in 0..Len(content) /\ k \in 0..Len(content')
      BY <1>1
    <2> QED BY <1>1, <2>1, PrefixIsSequence DEF SoundCells
  <1> DEFINE s == SubSeq(content, 1, k)
             t == SubSeq(content', 1, k)
  <1>3. s \in Seq(S) /\ t \in Seq(S) /\ Len(t) = Len(s) /\ \A i \in 1..Len(t) : t[i] = s[i]
    BY <1>2
  <1> HIDE DEF s, t
  <1>4. t = s
    BY <1>3, SeqEqual
  <1> QED BY <1>4 DEF s, t

Torn == InspectJournal(content).issue # "none"

\* ... and no writer is about to make it whole.
Left == Torn /\ \A p \in Processes : unwritten[p] = << >>

\* Nobody starts a frame behind a torn end.
LEMMA NobodyWritesBehindATornEnd ==
  ASSUME IInv, Untouched, NEW p \in Processes, QuietStep(p), Left
  PROVE  Left'
  <1>1. Process(p)
    BY Zenon DEF Process, QuietStep
  <1>2. ControlOK /\ ControlOK' /\ \A q \in Processes \ {p} : unwritten'[q] = unwritten[q]
    BY <1>1, OneProcessMoves DEF IInv, Same
  <1>3. Torn' /\ Torn
    BY QuietStepsKeepTheFile DEF Torn, Left
  <1>4. ~LockCreated(p)
    <2> SUFFICES ASSUME LockCreated(p) PROVE FALSE
      OBVIOUS
    <2>1. content = << >>
      BY DEF LockCreated, IInv, CreatedOK
    <2> QED BY <1>3, <2>1, EmptyFileReads DEF Torn, Reads
  <1>5. ~(AppendExecuted(p) \/ ReconcileStep(p))
    <2> SUFFICES ASSUME AppendExecuted(p) \/ ReconcileStep(p) PROVE FALSE
      OBVIOUS
    <2>1. pc[p] \in {"writer", "reconcile"} /\ ~poisoned[p]
      BY DEF AppendExecuted, ReconcileStep, AppendRecord, ValidateAppend
    <2> QED BY <1>3, <2>1 DEF Untouched, IInv, Known, Knows, Torn, Reads
  <1>6. unwritten'[p] = unwritten[p] \/ unwritten'[p] = << >>
    BY <1>2, <1>4, <1>5 DEF QuietStep, CreateNew, LockCreatedFails, LockExisting, OpenAuthorized,
       IntoWriter, Resume, BecomeWriter, Buffer, Synchronize, AppendFails, Drop, Close, ControlOK,
       OfProcesses, writer
  <1> QED BY <1>2, <1>3, <1>6 DEF Left

\* Steps of a process that neither write nor synchronize.
LEMMA QuietStepsOfTheLog ==
  ASSUME IInv, Untouched, NEW p \in Processes, QuietStep(p), ~Synchronize(p)
  PROVE  /\ Untouched' /\ content' = content
         /\ acknowledged' = acknowledged /\ rewrites' = rewrites
  <1>1. content' = content
    BY QuietStepsKeepTheFile
  <1>2. acknowledged' = acknowledged /\ rewrites' = rewrites /\ synced' = synced
    BY DEF QuietStep, CreateNew, LockCreated, LockCreatedFails, LockExisting, OpenAuthorized,
           IntoWriter, Resume, AppendExecuted, ReconcileStep, AppendRecord, Buffer, AppendFails,
           Drop, file, history, counters
  <1>3. Process(p)
    BY Zenon DEF Process, QuietStep
  <1>4. \A q \in Processes : ~changed'[q] /\ Intends(q)'
    BY <1>3, ProcessesIntend
  <1>5. (Found \in Seq(Records) /\ Legal(Found) /\ AcknowledgedIsSynced)'
    BY <1>1, <1>2 DEF Untouched, Found, AcknowledgedIsSynced
  <1> QED BY <1>1, <1>2, <1>4, <1>5 DEF Untouched

\* What is synchronized is whole, with the record that is acknowledged.
LEMMA SynchronizedLog ==
  ASSUME IInv, Untouched, NEW p \in Processes, Synchronize(p)
  PROVE  /\ Untouched' /\ content' = content
         /\ ~Torn /\ acknowledged' = Len(Found) /\ rewrites' = rewrites
  <1>1. /\ content' = content /\ rewrites' = rewrites /\ synced' = Len(content)
        /\ acknowledged' = Len(memory[p]) + 1 /\ pc[p] = "writing" /\ unwritten[p] = << >>
    BY DEF Synchronize, counters
  <1>2. schema[p] \in Supported /\ \E base, w, i : MidFrame(p, base, w, i)
    BY <1>1 DEF IInv, Known, Knows, Untouched
  <1>3. PICK base, w, i : MidFrame(p, base, w, i)
    BY <1>2
  <1>4. Reads(content, schema[p], Append(memory[p], pending[p].record))
    BY <1>1, <1>2, <1>3, FrameIsWhole
  <1>5. ~Torn /\ Len(Found) = Len(memory[p]) + 1 /\ Len(Found) \in Nat
    <2>1. IsSequence(memory[p]) /\ Len(memory[p]) \in Nat
      BY <1>3, ReadRecordsAreASequence DEF MidFrame
    <2>2. Found = Append(memory[p], pending[p].record) /\ ~Torn
      BY <1>4 DEF Reads, Found, Torn
    <2> QED BY <2>1, <2>2, AppendIsSequence
  <1>6. Process(p)
    BY DEF Process
  <1>7. \A q \in Processes : ~changed'[q] /\ Intends(q)'
    BY <1>6, ProcessesIntend
  <1>8. (Found \in Seq(Records) /\ Legal(Found))'
    BY <1>1 DEF Untouched, Found
  <1>9. AcknowledgedIsSynced'
    <2>1. PICK S : content \in Seq(S)
      BY DEF IInv, CellsOK, SoundCells, IsSequence
    <2>2. Len(content) \in Nat /\ SubSeq(content, 1, Len(content)) = content
      BY <2>1, SubSeqFull
    <2>3. InspectJournal(SubSeq(content, 1, Len(content))).records = Found
      BY <2>2 DEF Found
    <2> QED BY <1>1, <1>5, <2>2, <2>3 DEF AcknowledgedIsSynced
  <1> QED BY <1>1, <1>5, <1>7, <1>8, <1>9 DEF Untouched


\* A cell more: the end is torn, or the last cell makes the record whole.
LEMMA CellOfTheLog ==
  ASSUME IInv, Untouched, NEW p \in Processes, WriteCell(p)
  PROVE  /\ Untouched' /\ acknowledged' = acknowledged /\ rewrites' = rewrites
         /\ \/ Torn' /\ Found' = Found /\ unwritten'[p] # << >>
            \/ /\ Torn /\ ~Torn'
               /\ \E r \in Records : Legal(Append(Found, r)) /\ Found' = Append(Found, r)
  <1> DEFINE f == EncodeFrame(schema[p], Len(memory[p]), pending[p].record)
             r == pending[p].record
             m == memory[p]
             v == schema[p]
  <1>1. /\ content' = Append(content, Head(unwritten[p])) /\ pc[p] = "writing"
        /\ acknowledged' = acknowledged /\ rewrites' = rewrites /\ synced' = synced
        /\ unwritten[p] # << >> /\ schema' = schema /\ memory' = memory /\ pending' = pending
        /\ unwritten'[p] = Tail(unwritten[p])
    BY DEF WriteCell, history, counters, IInv, ControlOK, OfProcesses
  <1>2. v \in Supported /\ \E base, w, i : MidFrame(p, base, w, i)
    BY <1>1 DEF IInv, Known, Knows, Untouched
  <1>3. PICK base, w, i : MidFrame(p, base, w, i)
    BY <1>2
  <1>4. MidFrame(p, base, w, i + 1)'
    BY <1>3, FrameGoesOn DEF IInv
  <1>5. /\ SoundCells(base) /\ Reads(base, w, m) /\ (Len(m) > 0 => v = w) /\ Writable(r)
        /\ i \in 0..Len(f) /\ i + 1 \in 0..Len(f) /\ content = base \o SubSeq(f, 1, i)
        /\ content' = base \o SubSeq(f, 1, i + 1)
    BY <1>1, <1>3, <1>4 DEF MidFrame
  <1>6. Len(f) \in {2, 3} /\ SoundCells(f)
    <2>1. SoundCells(f) /\ Len(f) = 2 + PayloadCells(r) /\ PayloadCells(r) \in {0, 1}
      BY FrameCells
    <2>2. \A k \in {0, 1} : 2 + k \in {2, 3}
      OBVIOUS
    <2> QED BY <2>1, <2>2
  <1>7. r \in Records /\ Legal(Append(m, r))
    BY <1>1 DEF Untouched, Intends
  <1>8. PICK b : b = content'
    OBVIOUS
  <1>9. /\ Found' = InspectJournal(b).records
        /\ Torn' <=> InspectJournal(b).issue # "none"
    BY <1>8 DEF Found, Torn
  <1>10. i + 1 < Len(f) => InspectJournal(b).issue # "none" /\ InspectJournal(b).records = m
    <2> SUFFICES ASSUME i + 1 < Len(f)
                 PROVE  InspectJournal(b).issue # "none" /\ InspectJournal(b).records = m
      OBVIOUS
    <2>1. i + 1 \in 1..(Len(f) - 1)
      BY <1>5, <1>6
    <2>2. /\ InspectJournal(base \o SubSeq(f, 1, i + 1)).issue # "none"
          /\ InspectJournal(base \o SubSeq(f, 1, i + 1)).records = m
      BY <1>5, <2>1, PartOfAFrame
    <2> QED BY <1>5, <1>8, <2>2
  <1>11. i + 1 = Len(f) => InspectJournal(b).issue = "none" /\ InspectJournal(b).records = Append(m, r)
    <2> SUFFICES ASSUME i + 1 = Len(f)
                 PROVE  InspectJournal(b).issue = "none" /\ InspectJournal(b).records = Append(m, r)
      OBVIOUS
    <2>1. SubSeq(f, 1, Len(f)) = f
      <3> HIDE DEF f
      <3>1. PICK S : f \in Seq(S)
        BY <1>6 DEF SoundCells, IsSequence
      <3> QED BY <3>1, SubSeqFull
    <2>2. Reads(base \o f, v, Append(m, r))
      BY <1>2, <1>5, AppendedFrameIsRead
    <2>3. b = base \o f
      BY <1>5, <1>8, <2>1
    <2> QED BY <2>2, <2>3 DEF Reads
  <1>12. i > 0 => Torn /\ Found = m
    <2> SUFFICES ASSUME i > 0 PROVE Torn /\ Found = m
      OBVIOUS
    <2>1. i \in 1..(Len(f) - 1)
      BY <1>5, <1>6
    <2>2. /\ InspectJournal(base \o SubSeq(f, 1, i)).issue # "none"
          /\ InspectJournal(base \o SubSeq(f, 1, i)).records = m
      BY <1>5, <2>1, PartOfAFrame
    <2> QED BY <1>5, <2>2 DEF Torn, Found
  <1>13. i = 0 => ~Torn /\ Found = m
    <2> SUFFICES ASSUME i = 0 PROVE ~Torn /\ Found = m
      OBVIOUS
    <2>1. PICK S : f \in Seq(S) /\ base \in Seq(S)
      BY <1>5, <1>6, CommonElements DEF SoundCells
    <2>2. base \o SubSeq(f, 1, 0) = base
      <3>1. SubSeq(f, 1, 0) = << >>
        BY <2>1, SubSeqEmpty
      <3> QED BY <2>1, <3>1, ConcatEmptySeq
    <2>3. content = base
      BY <1>5, <2>2
    <2> QED BY <1>5, <2>3 DEF Reads, Torn, Found
  <1>20. unwritten'[p] = SubSeq(f, i + 2, Len(f))
    <2>1. f' = f
      BY <1>1
    <2>2. unwritten'[p] = SubSeq(f', (i + 1) + 1, Len(f'))
      BY <1>4 DEF MidFrame
    <2> HIDE DEF f
    <2> QED BY <1>5, <2>1, <2>2
  <1> HIDE DEF f
  <1>14. Found = m
    BY <1>5, <1>6, <1>12, <1>13
  <1>15. \/ Torn' /\ Found' = Found /\ unwritten'[p] # << >>
         \/ Torn /\ ~Torn' /\ Found' = Append(Found, r)
    <2>1. CASE i + 1 < Len(f)
      <3>1. PICK S : f \in Seq(S)
        BY <1>6 DEF SoundCells, IsSequence
      <3>2. SubSeq(f, i + 2, Len(f)) # << >>
        <4>1. i \in Nat /\ Len(f) \in Nat /\ i + 2 <= Len(f)
          BY <1>5, <1>6, <2>1
        <4>2. Len(SubSeq(f, i + 2, Len(f))) = Len(f) - (i + 2) + 1
          BY <3>1, <4>1
        <4>3. Len(f) - (i + 2) + 1 # 0 /\ Len(<< >>) = 0
          BY <4>1
        <4> QED BY <4>2, <4>3
      <3>3. Torn' /\ Found' = Found
        BY <1>9, <1>10, <1>14, <2>1
      <3>4. unwritten'[p] # << >>
        BY <1>20, <3>2, Zenon
      <3> QED BY <3>3, <3>4
    <2>2. CASE i + 1 = Len(f)
      <3>1. i > 0
        <4> DEFINE n == Len(f)
        <4>1. n \in {2, 3} /\ i \in 0..n /\ i + 1 = n
          BY <1>5, <1>6, <2>2
        <4> HIDE DEF n
        <4> QED BY <4>1
      <3> QED BY <1>9, <1>11, <1>12, <1>14, <2>2, <3>1
    <2> QED BY <1>5, <1>6, <2>1, <2>2
  <1>16. (Found \in Seq(Records) /\ Legal(Found))'
    <2> DEFINE l == InspectJournal(b).records
    <2>1. Found \in Seq(Records) /\ Legal(Found)
      BY DEF Untouched
    <2>2. l = Found \/ l = Append(m, r)
      BY <1>9, <1>14, <1>15
    <2>3. l \in Seq(Records) /\ Legal(l)
      <3>1. CASE l = Found
        BY <2>1, <3>1
      <3>2. CASE l = Append(m, r)
        <4>1. m \in Seq(Records)
          BY <1>14, <2>1
        <4>2. Append(m, r) \in Seq(Records)
          BY <1>7, <4>1
        <4> QED BY <1>7, <3>2, <4>2
      <3> QED BY <2>2, <3>1, <3>2
    <2>4. PICK l1 : l1 = l
      OBVIOUS
    <2>5. Found' = l1 /\ l1 \in Seq(Records) /\ Legal(l1)
      BY <1>9, <2>3, <2>4
    <2> HIDE DEF l
    <2> QED BY <2>5
  <1>17. Process(p)
    BY DEF Process
  <1>18. \A q \in Processes : ~changed'[q] /\ Intends(q)'
    BY <1>17, ProcessesIntend
  <1>19. AcknowledgedIsSynced'
    <2>1. SoundCells(content) /\ IInv' /\ synced \in Nat
      BY <1>17, ProcessKeeps DEF IInv, CellsOK, SyncedOK
    <2>2. SoundCells(content') /\ Len(content) \in Nat
      BY <2>1, LengthOfSequence DEF IInv, CellsOK, SoundCells
    <2>3. Len(content') = Len(content) + 1 /\ \A j \in 1..Len(content) : content'[j] = content[j]
      BY <1>1, <2>1, AppendIsSequence DEF SoundCells
    <2>4. synced <= Len(content) /\ acknowledged \in Nat
          /\ acknowledged <= Len(InspectJournal(SubSeq(content, 1, synced)).records)
      BY DEF Untouched, AcknowledgedIsSynced
    <2>5. SubSeq(content', 1, synced) = SubSeq(content, 1, synced)
      <3>1. synced <= Len(content') /\ \A j \in 1..synced : content'[j] = content[j]
        BY <2>1, <2>2, <2>3, <2>4
      <3> QED BY <2>1, <2>2, <2>4, <3>1, SyncedStays
    <2>6. PICK s : s = SubSeq(content, 1, synced)
      OBVIOUS
    <2>7. acknowledged <= Len(InspectJournal(s).records) /\ SubSeq(content', 1, synced) = s
      BY <2>4, <2>5, <2>6
    <2>8. synced <= Len(content')
      BY <2>1, <2>2, <2>3, <2>4
    <2> QED BY <1>1, <2>4, <2>7, <2>8 DEF AcknowledgedIsSynced
  <1> QED BY <1>1, <1>7, <1>14, <1>15, <1>16, <1>18, <1>19 DEF Untouched


LEMMA BeginningIs ==
  ASSUME NEW S, NEW t \in Seq(S), NEW s, IsSequence(s), BeginsWith(t, s)
  PROVE  s \in Seq(S) /\ s = SubSeq(t, 1, Len(s)) /\ Len(s) \in 0..Len(t)
  <1>1. Len(s) \in Nat /\ DOMAIN s = 1..Len(s)
    BY LengthOfSequence
  <1>2. Len(s) \in 0..Len(t) /\ \A i \in 1..Len(s) : t[i] = s[i]
    BY <1>1 DEF BeginsWith
  <1>3. PICK T : s \in Seq(T)
    BY DEF IsSequence
  <1>4. s = [i \in 1..Len(s) |-> s[i]]
    BY <1>1, <1>3
  <1> DEFINE n == Len(s)
             u == SubSeq(t, 1, n)
  <1>5. u \in Seq(S) /\ Len(u) = n /\ \A i \in 1..n : u[i] = t[i]
    BY <1>1, <1>2
  <1>6. s \in Seq(S \cup T) /\ u \in Seq(S \cup T) /\ Len(s) = Len(u)
        /\ \A i \in 1..Len(s) : s[i] = u[i]
    BY <1>2, <1>3, <1>5
  <1> HIDE DEF u
  <1>7. s = u
    BY <1>6, SeqEqual
  <1> QED BY <1>2, <1>5, <1>7 DEF u

\* A loss of power leaves a prefix, with everything that is acknowledged.
LEMMA LostLog ==
  ASSUME IInv, Untouched, PowerLoss
  PROVE  /\ Untouched' /\ acknowledged' = acknowledged /\ rewrites' = rewrites
         /\ \E k \in acknowledged..Len(Found) : Found' = SubSeq(Found, 1, k)
  <1>1. PICK k \in synced..Len(content), junk \in BOOLEAN :
          content' = SubSeq(content, 1, k) \o (IF junk THEN <<Junk>> ELSE << >>)
    BY DEF PowerLoss
  <1>2. /\ acknowledged' = acknowledged /\ rewrites' = rewrites /\ synced' = Len(content')
        /\ \A p \in Processes : pc'[p] = "idle" /\ ~changed'[p]
    BY DEF PowerLoss
  <1>3. /\ SoundCells(content) /\ Len(content) \in Nat /\ synced \in Nat
        /\ k \in 0..Len(content) /\ synced \in 0..Len(content)
    BY LengthOfSequence DEF IInv, CellsOK, SyncedOK, SoundCells
  <1> DEFINE base == SubSeq(content, 1, k)
             safe == SubSeq(content, 1, synced)
             left == InspectJournal(base).records
  <1>4. /\ SoundCells(base) /\ Begins(base, content) /\ Len(base) = k
        /\ SoundCells(safe) /\ Begins(safe, content) /\ Len(safe) = synced
    BY <1>3, PrefixIsSound, PrefixIsSequence DEF SoundCells
  <1>5. Begins(safe, base)
    <2>1. /\ \A i \in 1..k : base[i] = content[i]
          /\ \A i \in 1..synced : safe[i] = content[i]
      BY <1>3, PrefixIsSequence DEF SoundCells
    <2> HIDE DEF base, safe
    <2> QED BY <1>3, <1>4, <2>1 DEF Begins
  <1>6. PICK b : b = content'
    OBVIOUS
  <1>7. InspectJournal(b).records = left
    <2>1. CASE junk
      <3>1. b = base \o <<Junk>>
        BY <1>1, <1>6, <2>1
      <3> HIDE DEF base
      <3> QED BY <1>4, <3>1, JunkIsNotRead
    <2>2. CASE ~junk
      <3>1. b = base \o << >>
        BY <1>1, <1>6, <2>2
      <3>2. b = base
        <4>1. PICK S : base \in Seq(S)
          BY <1>4 DEF SoundCells, IsSequence
        <4> HIDE DEF base
        <4> QED BY <3>1, <4>1, ConcatEmptySeq
      <3> QED BY <3>2
    <2> QED BY <2>1, <2>2
  <1>8. BeginsWith(Found, left) /\ BeginsWith(left, InspectJournal(safe).records)
    <2> HIDE DEF base, safe
    <2> QED BY <1>4, <1>5, PrefixReadsPrefix DEF Found
  <1>9. IsSequence(left) /\ Len(left) \in Nat
    <2> HIDE DEF base
    <2>1. ReadOK(base, Len(base), InspectJournal(base))
      BY <1>4, LoopEnds
    <2> QED BY <2>1, LengthOfSequence DEF ReadOK
  <1>10. acknowledged \in Nat /\ acknowledged <= Len(InspectJournal(safe).records)
    BY DEF Untouched, AcknowledgedIsSynced
  <1>11. Len(InspectJournal(safe).records) \in Nat
    <2> HIDE DEF safe
    <2>1. ReadOK(safe, Len(safe), InspectJournal(safe))
      BY <1>4, LoopEnds
    <2> QED BY <2>1, LengthOfSequence DEF ReadOK
  <1>12. Found \in Seq(Records) /\ Legal(Found)
    BY DEF Untouched
  <1> HIDE DEF left, base, safe
  <1>13. left \in Seq(Records) /\ left = SubSeq(Found, 1, Len(left)) /\ Len(left) <= Len(Found)
    BY <1>8, <1>9, <1>12, BeginningIs
  <1>14. Len(left) \in acknowledged..Len(Found)
    BY <1>8, <1>9, <1>10, <1>11, <1>13 DEF BeginsWith
  <1>15. Legal(left)
    <2>1. Len(Found) \in Nat
      BY <1>12
    <2> QED BY <1>8, <1>9, <1>12, <2>1, LegalPrefix DEF BeginsWith
  <1>16. PICK l : l = left
    OBVIOUS
  <1>17. Found' = l /\ l \in Seq(Records) /\ Legal(l)
    BY <1>6, <1>7, <1>13, <1>15, <1>16 DEF Found
  <1>18. (Found \in Seq(Records) /\ Legal(Found))'
    BY <1>17
  <1>19. \A p \in Processes : ~changed'[p] /\ Intends(p)'
    BY <1>2 DEF Intends
  <1>20. AcknowledgedIsSynced'
    <2>1. SoundCells(b)
      <3>1. SoundCells(content)'
        BY PowerLossKeeps DEF IInv, CellsOK
      <3> QED BY <1>6, <3>1
    <2>2. PICK S : b \in Seq(S)
      BY <2>1 DEF SoundCells, IsSequence
    <2>3. Len(b) \in Nat /\ SubSeq(b, 1, Len(b)) = b
      BY <2>2, SubSeqFull
    <2>4. acknowledged <= Len(InspectJournal(SubSeq(b, 1, Len(b))).records)
      <3>1. Len(InspectJournal(b).records) = Len(left)
        BY <1>7
      <3>2. acknowledged <= Len(left)
        BY <1>8, <1>9, <1>10, <1>11 DEF BeginsWith
      <3>3. InspectJournal(SubSeq(b, 1, Len(b))) = InspectJournal(b)
        BY <2>3
      <3> QED BY <3>1, <3>2, <3>3
    <2>5. synced' = Len(b) /\ SubSeq(content', 1, Len(b)) = SubSeq(b, 1, Len(b))
      BY <1>2, <1>6
    <2> QED BY <1>2, <1>6, <1>10, <2>3, <2>4, <2>5 DEF AcknowledgedIsSynced
  <1>21. Found' = SubSeq(Found, 1, Len(left))
    BY <1>13, <1>16, <1>17
  <1> QED BY <1>2, <1>14, <1>18, <1>19, <1>20, <1>21 DEF Untouched


\* Other programs move the source, which is not in the file.
LEMMA MovesDoNotShow ==
  ASSUME Untouched, Move
  PROVE  /\ Untouched' /\ content' = content /\ unwritten' = unwritten
         /\ acknowledged' = acknowledged /\ rewrites' = rewrites
  <1>1. /\ pc' = pc /\ memory' = memory /\ inspected' = inspected /\ pending' = pending
        /\ unwritten' = unwritten
        /\ changed' = changed /\ content' = content /\ synced' = synced
        /\ acknowledged' = acknowledged /\ rewrites' = rewrites
    BY DEF Move, writer, snapshot, file, counters
  <1> QED BY <1>1 DEF Untouched, Intends, Found, AcknowledgedIsSynced

LEMMA StutteringDoesNotShow ==
  ASSUME Untouched, UNCHANGED vars
  PROVE  /\ Untouched' /\ content' = content /\ unwritten' = unwritten
         /\ acknowledged' = acknowledged /\ rewrites' = rewrites
  <1>1. /\ pc' = pc /\ memory' = memory /\ inspected' = inspected /\ pending' = pending
        /\ unwritten' = unwritten
        /\ changed' = changed /\ content' = content /\ synced' = synced
        /\ acknowledged' = acknowledged /\ rewrites' = rewrites
    BY DEF vars, writer, snapshot, file, counters, history
  <1> QED BY <1>1 DEF Untouched, Intends, Found, AcknowledgedIsSynced

\* What a reader sees of a file no other program has rewritten.
LEMMA LogStarts == Init => Log!Init /\ LogInv
  <1> SUFFICES ASSUME Init PROVE Log!Init /\ LogInv
    OBVIOUS
  <1>1. /\ synced = Len(content) /\ acknowledged = Len(Found) /\ rewrites = 0
        /\ \A p \in Processes : pc[p] = "idle" /\ ~changed[p]
    BY DEF Init, Found
  <1>2. SoundCells(content) /\ ~Torn
    BY InitialFile DEF Torn
  <1>3. Found \in Seq(Records) /\ Legal(Found)
    <2>1. CASE content = << >>
      <3>1. Found = << >>
        BY <2>1, EmptyFileReads DEF Found, Reads
      <3> QED BY <3>1, EmptyIsLegal
    <2>2. CASE content # << >>
      <3>1. PICK f \in EarlierFiles : Found = f.records
        BY <2>2, InitialFile DEF Found
      <3> QED BY <3>1, EarlierFilesAssumption
    <2> QED BY <2>1, <2>2
  <1>4. AcknowledgedIsSynced
    <2>1. PICK S : content \in Seq(S)
      BY <1>2 DEF SoundCells, IsSequence
    <2>2. Len(content) \in Nat /\ SubSeq(content, 1, Len(content)) = content /\ Len(Found) \in Nat
      BY <1>3, <2>1, SubSeqFull
    <2>3. InspectJournal(SubSeq(content, 1, Len(content))).records = Found
      BY <2>2 DEF Found
    <2> QED BY <1>1, <2>2, <2>3 DEF AcknowledgedIsSynced
  <1>5. LogInv
    BY <1>1, <1>3, <1>4 DEF LogInv, Untouched, Intends
  <1>6. Log!Init
    BY <1>1, <1>2, <1>3 DEF Log!Init, Found, Torn
  <1> QED BY <1>5, <1>6

LEMMA LogGoesOn == IInv /\ LogInv /\ [Next]_vars => LogInv' /\ [Log!Next]_(Log!vars)
  <1> SUFFICES ASSUME IInv, LogInv, [Next]_vars PROVE LogInv' /\ [Log!Next]_(Log!vars)
    OBVIOUS
  <1>1. rewrites \in Nat
    BY DEF LogInv
  <1>2. ASSUME ~Rewrite
        PROVE  rewrites' = rewrites
    BY <1>2 DEF Next, Process, CreateNew, LockCreated, LockCreatedFails, LockExisting,
       OpenAuthorized, IntoWriter, Resume, AppendExecuted, ReconcileStep, AppendRecord, WriteCell,
       Buffer, Synchronize, AppendFails, Drop, PowerLoss, Move, counters, vars
  <1>3. CASE rewrites > 0
    <2>1. rewrites' \in Nat /\ rewrites' > 0
      BY <1>1, <1>2, <1>3 DEF Rewrite
    <2>2. LogInv'
      BY <2>1 DEF LogInv
    <2>3. UNCHANGED Log!vars
      BY <1>1, <1>3, <2>1 DEF Log!vars
    <2> QED BY <2>2, <2>3
  <1>4. CASE rewrites = 0 /\ Rewrite
    <2>1. rewrites' = 1
      BY <1>4 DEF Rewrite
    <2>2. LogInv'
      BY <2>1 DEF LogInv
    <2>3. Log!Rewrite
      BY <1>4, <2>1 DEF Log!Rewrite
    <2> QED BY <1>4, <2>2, <2>3 DEF Log!Next
  <1>5. CASE rewrites = 0 /\ ~Rewrite
    <2>1. rewrites' = 0 /\ Untouched
      BY <1>2, <1>5 DEF LogInv
    <2>2. ASSUME content' = content, acknowledged' = acknowledged, unwritten' = unwritten
          PROVE  UNCHANGED Log!vars
      BY <1>5, <2>1, <2>2 DEF Log!vars
    <2>3. ASSUME NEW p \in Processes, QuietStep(p), ~Synchronize(p)
          PROVE  LogInv' /\ [Log!Next]_(Log!vars)
      <3>1. Untouched' /\ content' = content /\ acknowledged' = acknowledged /\ (Left => Left')
        BY <2>1, <2>3, QuietStepsOfTheLog, NobodyWritesBehindATornEnd
      <3>2. CASE Left' = Left
        <4>1. UNCHANGED Log!vars
          BY <1>5, <2>1, <3>1, <3>2 DEF Log!vars, Left, Torn
        <4> QED BY <2>1, <3>1, <4>1 DEF LogInv
      <3>3. CASE ~Left /\ Left'
        <4>1. Log!Tear
          BY <1>5, <2>1, <3>1, <3>3 DEF Log!Tear, Left, Torn
        <4> QED BY <1>5, <2>1, <3>1, <4>1 DEF LogInv, Log!Next
      <3> QED BY <3>1, <3>2, <3>3 DEF Left
    <2>4. CASE Move \/ UNCHANGED vars
      BY <2>1, <2>2, <2>4, MovesDoNotShow, StutteringDoesNotShow DEF LogInv
    <2>5. ASSUME NEW p \in Processes, Synchronize(p)
          PROVE  LogInv' /\ [Log!Next]_(Log!vars)
      <3>1. /\ Untouched' /\ content' = content /\ ~Torn /\ acknowledged' = Len(Found)
        BY <2>1, <2>5, SynchronizedLog
      <3>2. Log!Acknowledge
        BY <1>5, <2>1, <3>1 DEF Log!Acknowledge, Found, Torn
      <3> QED BY <1>5, <2>1, <3>1, <3>2 DEF LogInv, Log!Next
    <2>6. ASSUME NEW p \in Processes, WriteCell(p)
          PROVE  LogInv' /\ [Log!Next]_(Log!vars)
      <3>1. /\ Untouched' /\ acknowledged' = acknowledged
            /\ \/ Torn' /\ Found' = Found /\ unwritten'[p] # << >>
               \/ /\ Torn /\ ~Torn'
                  /\ \E r \in Records : Legal(Append(Found, r)) /\ Found' = Append(Found, r)
        BY <2>1, <2>6, CellOfTheLog
      <3>2. ~Left /\ ~Left'
        BY <2>6, <3>1 DEF Left, WriteCell
      <3>3. CASE Found' = Found
        <4>1. UNCHANGED Log!vars
          BY <1>5, <2>1, <3>1, <3>2, <3>3 DEF Log!vars, Found, Left, Torn
        <4> QED BY <2>1, <3>1, <4>1 DEF LogInv
      <3>4. CASE \E r \in Records : Legal(Append(Found, r)) /\ Found' = Append(Found, r)
        <4>1. Log!Extend
          BY <1>5, <2>1, <3>1, <3>2, <3>4 DEF Log!Extend, Found, Left, Torn
        <4> QED BY <1>5, <2>1, <3>1, <4>1 DEF LogInv, Log!Next
      <3> QED BY <3>1, <3>3, <3>4
    <2>7. CASE PowerLoss
      <3>1. /\ Untouched' /\ acknowledged' = acknowledged
            /\ \E k \in acknowledged..Len(Found) : Found' = SubSeq(Found, 1, k)
        BY <2>1, <2>7, LostLog
      <3>2. Log!Lose
        BY <1>5, <2>1, <3>1 DEF Log!Lose, Found
      <3> QED BY <1>5, <2>1, <3>1, <3>2 DEF LogInv, Log!Next
    <2> QED BY <1>5, <2>3, <2>4, <2>5, <2>6, <2>7, StepsOfAProcess DEF Next
  <1> QED BY <1>1, <1>3, <1>4, <1>5

\* Refinement: what any reader finds in the file, at any moment and after any
\* crash, is a durable log (journal.rs:329, 856), for all processes, records
\* and journals of earlier versions; a program that writes without the lock
\* is the only thing that ends the promise.
THEOREM Refinement == Spec => IsADurableLog
  <1>1. Init => IInv /\ LogInv /\ Log!Init
    BY InitEstablishes, LogStarts
  <1>2. IInv /\ LogInv /\ [Next]_vars => IInv' /\ LogInv' /\ [Log!Next]_(Log!vars)
    BY NextKeeps, LogGoesOn
  <1> QED BY <1>1, <1>2, PTL DEF Spec, IsADurableLog, Log!Spec

===============================================================================
