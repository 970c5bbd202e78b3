--------------------------- MODULE FramingProofs ---------------------------
(* Proofs about module Framing, for any store size from five bytes up. *)
EXTENDS Framing, SequenceTheorems, TLAPS

\* The inductive invariant: what WaitingIsDrained and CloseMeansEof need to
\* know of the loop between two waits.  A result of 0 that is being drained
\* came from an end of file, because the loop left room before the read.
FramingInv ==
    /\ TypeOK
    /\ WaitingIsDrained
    /\ pc = "drain" /\ numRead = 0 => eof
    /\ CloseMeansEof

USE NAssumption, BytesAssumption DEF Index, AfterDrain

\* A connection starts with an empty store.
LEMMA InitEstablishes == Init => FramingInv
<1>. SUFFICES ASSUME Init PROVE FramingInv
  OBVIOUS
<1>1. TypeOK
  <2>1. store \in [Index -> Bytes \cup {NUL}]
    BY DEF Init
  <2>2. totalRead \in 0..N /\ numRead \in 0..N
    BY DEF Init
  <2>. QED
    BY <2>1, <2>2, Zenon DEF Init, TypeOK
<1>2. CrlfAt = {} /\ totalRead <= N - 2
  BY DEF Init, CrlfAt
<1>. QED
  BY <1>1, <1>2 DEF Init, FramingInv, WaitingIsDrained, CloseMeansEof

\* Bytes arrive: they fit the store because read(2) was asked for the room.
LEMMA ReadBytesPreserves ==
    ASSUME FramingInv, NEW k \in 1..N, NEW bytes \in [1..k -> Bytes], ReadBytes(k, bytes)
    PROVE  FramingInv'
<1>1. bytes \in Seq(Bytes) /\ Len(bytes) = k
  OBVIOUS
<1>2. store' \in [Index -> Bytes \cup {NUL}]
  BY <1>1 DEF ReadBytes, ReadInto, FramingInv, TypeOK
<1>3. totalRead' \in 0..N /\ numRead' \in 0..N /\ numRead' # 0
  BY DEF ReadBytes, Room, FramingInv, TypeOK
<1>. QED
  BY <1>2, <1>3 DEF ReadBytes, FramingInv, TypeOK, WaitingIsDrained, CloseMeansEof

\* A result of 0: there was room, so it is the end of the stream.
LEMMA ReadNothingPreserves ==
    ASSUME FramingInv, ReadNothing
    PROVE  FramingInv'
<1>1. eof
  BY DEF ReadNothing, FramingInv, WaitingIsDrained, Room, TypeOK
<1>. QED
  BY <1>1 DEF ReadNothing, FramingInv, TypeOK, WaitingIsDrained, CloseMeansEof

\* A message of n bytes leaves the store.
LEMMA TakePreserves ==
    ASSUME FramingInv, pc = "drain", NEW n \in 0..totalRead, NEW text,
           NEW rest \in [Index -> Bytes \cup {NUL}], Take(n, text, rest)
    PROVE  FramingInv'
<1>1. store' \in [Index -> Bytes \cup {NUL}]
  BY DEF Take
<1>2. totalRead' \in 0..N
  BY DEF Take, FramingInv, TypeOK
<1>. QED
  BY <1>1, <1>2 DEF Take, FramingInv, TypeOK, WaitingIsDrained, CloseMeansEof

\* One pass of conn_read_message.
LEMMA DrainPreserves ==
    ASSUME FramingInv, Drain
    PROVE  FramingInv'
<1>1. ASSUME NEW i \in Index, ReadLine(i)
      PROVE  FramingInv'
  <2>1. i + 2 \in 0..totalRead
    BY <1>1 DEF ReadLine, strncrlf, CrlfAt, FramingInv, TypeOK
  <2>2. Shifted(i + 2) \in [Index -> Bytes \cup {NUL}]
    BY DEF Shifted, FramingInv, TypeOK
  <2>. QED
    BY <1>1, <2>1, <2>2, TakePreserves DEF ReadLine
<1>2. CASE Truncate
  <2>1. N - 2 \in 0..totalRead
    BY <1>2 DEF Truncate, TooLong, FramingInv, TypeOK
  <2>2. LastBytes \in [Index -> Bytes \cup {NUL}]
    BY DEF LastBytes, FramingInv, TypeOK
  <2>. QED
    BY <1>2, <2>1, <2>2, TakePreserves DEF Truncate
<1>3. CASE Drained
  <2>1. CrlfAt' = {} /\ totalRead' <= N - 2
    BY <1>3 DEF Drained, TooLong, CrlfAt, FramingInv, TypeOK
  <2>. QED
    BY <1>3, <2>1 DEF Drained, FramingInv, TypeOK, WaitingIsDrained, CloseMeansEof
<1>. QED
  BY <1>1, <1>2, <1>3 DEF Drain

\* The inductive invariant holds in every reachable state.
THEOREM FramingInvariant == Spec => []FramingInv
<1>1. FramingInv /\ [Next]_vars => FramingInv'
  <2>. SUFFICES ASSUME FramingInv, [Next]_vars PROVE FramingInv'
    OBVIOUS
  <2>1. CASE Read
    BY <2>1, ReadBytesPreserves DEF Read
  <2>2. CASE ReadNothing
    BY <2>2, ReadNothingPreserves
  <2>3. CASE PeerEof
    BY <2>3 DEF PeerEof, FramingInv, TypeOK, WaitingIsDrained, CloseMeansEof, CrlfAt
  <2>4. CASE Drain
    BY <2>4, DrainPreserves
  <2>5. CASE UNCHANGED vars
    BY <2>5 DEF vars, FramingInv, TypeOK, WaitingIsDrained, CloseMeansEof, CrlfAt
  <2>. QED
    BY <2>1, <2>2, <2>3, <2>4, <2>5 DEF Next
<1>. QED
  BY <1>1, InitEstablishes, PTL DEF Spec

\* The fill count never leaves the store, whatever the sizes of the reads.
THEOREM StoreSafe == Spec => []TypeOK
BY FramingInvariant, PTL DEF FramingInv

\* No complete line waits for unrelated bytes, and there is always room.
THEOREM WaitingSafe == Spec => []WaitingIsDrained
BY FramingInvariant, PTL DEF FramingInv

\* Only a peer that has closed is disconnected.
THEOREM CloseSafe == Spec => []CloseMeansEof
BY FramingInvariant, PTL DEF FramingInv

-----------------------------------------------------------------------------
(* Messages. *)

LEMMA HeldIs ==
    ASSUME TypeOK
    PROVE  /\ Held \in Seq(Bytes \cup {NUL})
           /\ Len(Held) = totalRead
           /\ \A i \in 1..totalRead : Held[i] = store[i - 1]
<1>1. \A i \in 1..totalRead : i - 1 \in Index
  BY DEF TypeOK
<1>. QED
  BY <1>1 DEF Held, TypeOK

\* Up to the first CRLF there is none.
LEMMA ReadLineIsOneLine ==
    ASSUME TypeOK, NEW i \in Index, ReadLine(i)
    PROVE  MessageIsOneLine'
<1>. DEFINE text == SubSeq(Held, 1, i + 2)
<1>1. /\ i + 2 \in 2..totalRead
      /\ store[i] = CR /\ store[i + 1] = LF
      /\ \A j \in CrlfAt : i <= j
  BY DEF ReadLine, strncrlf, CrlfAt, TypeOK
<1>2. Len(text) = i + 2 /\ \A j \in 1..(i + 2) : text[j] = store[j - 1]
  BY <1>1, HeldIs DEF TypeOK
<1>. HIDE DEF text
<1>3. ASSUME NEW j \in 1..i, text[j] = CR, text[j + 1] = LF PROVE FALSE
  <2>1. store[j - 1] = CR /\ store[j] = LF
    BY <1>2, <1>3
  <2>2. j - 1 \in CrlfAt
    BY <1>1, <2>1 DEF CrlfAt, TypeOK
  <2>. QED
    BY <1>1, <2>2
<1>4. text[i + 1] = CR /\ text[i + 2] = LF
  BY <1>1, <1>2
<1>5. message' = text \/ message' = <<>>
  BY DEF ReadLine, Take, text
<1>. QED
  BY <1>1, <1>2, <1>3, <1>4, <1>5 DEF MessageIsOneLine, TypeOK

\* A truncated line gets the only CRLF it has.
LEMMA TruncateIsOneLine ==
    ASSUME TypeOK, Truncate
    PROVE  MessageIsOneLine'
<1>. DEFINE start == SubSeq(Held, 1, N - 2)
            text == start \o <<CR, LF>>
<1>1. CrlfAt = {} /\ totalRead \in (N - 1)..N
  BY DEF Truncate, TooLong, TypeOK
<1>2. /\ start \in Seq(Bytes \cup {NUL}) /\ Len(start) = N - 2
      /\ \A j \in 1..(N - 2) : start[j] = store[j - 1]
  BY <1>1, HeldIs
<1>. HIDE DEF start
<1>3. /\ Len(text) = N
      /\ \A j \in 1..(N - 2) : text[j] = store[j - 1]
      /\ text[N - 1] = CR /\ text[N] = LF
  BY <1>2
<1>. HIDE DEF text
<1>4. ASSUME NEW j \in 1..(N - 2), text[j] = CR, text[j + 1] = LF PROVE FALSE
  <2>1. j # N - 2
    BY <1>3, <1>4
  <2>2. store[j - 1] = CR /\ store[j] = LF
    BY <1>3, <1>4, <2>1
  <2>3. j - 1 \in CrlfAt
    BY <1>1, <2>2 DEF CrlfAt
  <2>. QED
    BY <1>1, <2>3
<1>5. message' = text \/ message' = <<>>
  BY DEF Truncate, Take, text, start
<1>. QED
  BY <1>3, <1>4, <1>5 DEF MessageIsOneLine

\* Every message handed to the parser is one line that fits conn_s.message
\* (conn_read_message), for any store from five bytes up.
THEOREM MessagesSafe == Spec => []MessageIsOneLine
<1>1. Init => MessageIsOneLine
  BY DEF Init, MessageIsOneLine
<1>2. FramingInv /\ MessageIsOneLine /\ [Next]_vars => MessageIsOneLine'
  <2>. SUFFICES ASSUME TypeOK, MessageIsOneLine, [Next]_vars PROVE MessageIsOneLine'
    BY DEF FramingInv
  <2>1. CASE UNCHANGED message
    BY <2>1 DEF MessageIsOneLine
  <2>2. CASE Drained
    BY <2>2 DEF Drained, MessageIsOneLine
  <2>. QED
    BY <2>1, <2>2, ReadLineIsOneLine, TruncateIsOneLine
       DEF Next, Read, ReadBytes, ReadNothing, PeerEof, Drain, vars
<1>. QED
  BY <1>1, <1>2, FramingInvariant, PTL DEF Spec

-----------------------------------------------------------------------------
(* Bytes. *)

\* A sequence is two others joined if it has the one's elements, then the
\* other's.
LEMMA JoinedFromParts ==
    ASSUME NEW S, NEW s \in Seq(S), NEW t \in Seq(S), NEW w \in Seq(S),
           Len(w) = Len(s) + Len(t),
           \A i \in 1..Len(s) : w[i] = s[i],
           \A i \in 1..Len(t) : w[i + Len(s)] = t[i]
    PROVE  w = s \o t
<1>1. s \o t \in Seq(S) /\ Len(s \o t) = Len(w)
  OBVIOUS
<1>2. \A i \in 1..Len(w) : w[i] = (s \o t)[i]
  <2>1. TAKE i \in 1..Len(w)
  <2>2. CASE i <= Len(s)
    BY <2>2
  <2>3. CASE i > Len(s)
    <3>1. i - Len(s) \in 1..Len(t) /\ (i - Len(s)) + Len(s) = i
      BY <2>3
    <3>2. (s \o t)[i] = t[i - Len(s)]
      BY <2>3
    <3>. QED
      BY <3>1, <3>2
  <2>. QED
    BY <2>2, <2>3
<1>. QED
  BY <1>1, <1>2, SeqEqual

\* What is held once the first n bytes have left.
LEMMA TakeSplits ==
    ASSUME TypeOK, NEW n \in 0..totalRead, totalRead' = totalRead - n,
           \A j \in 0..(totalRead - n - 1) : store'[j] = store[j + n]
    PROVE  Held = SubSeq(Held, 1, n) \o Held'
<1>. DEFINE start == SubSeq(Held, 1, n)
            tail == [i \in 1..(totalRead - n) |-> store[i + n - 1]]
            S == Bytes \cup {NUL}
<1>1. Held' = tail
  <2>1. \A i \in 1..(totalRead - n) : store'[i - 1] = store[i + n - 1]
    BY DEF TypeOK
  <2>. QED
    BY <2>1 DEF Held
<1>2. start \in Seq(S) /\ Len(start) = n /\ \A i \in 1..n : start[i] = Held[i]
  BY HeldIs DEF TypeOK
<1>3. tail \in Seq(S) /\ Len(tail) = totalRead - n
      /\ \A i \in 1..(totalRead - n) : tail[i] = Held[i + n]
  <2>1. \A i \in 1..(totalRead - n) : store[i + n - 1] \in S
    BY DEF TypeOK
  <2>2. \A i \in 1..(totalRead - n) : Held[i + n] = store[i + n - 1]
    BY HeldIs DEF TypeOK
  <2>. DEFINE m == totalRead - n
  <2>3. m \in Nat /\ tail \in [1..m -> S]
    BY <2>1 DEF TypeOK
  <2>4. tail \in Seq(S) /\ Len(tail) = m
    <3>. HIDE DEF tail, m, S
    <3>. QED
      BY <2>3
  <2>. QED
    BY <2>2, <2>4
<1>. HIDE DEF start, tail, S
<1>4. Held \in Seq(S) /\ Len(Held) = totalRead
  BY HeldIs DEF S
<1>5. Len(Held) = Len(start) + Len(tail)
  BY <1>2, <1>3, <1>4 DEF TypeOK
<1>6. /\ \A i \in 1..Len(start) : Held[i] = start[i]
      /\ \A i \in 1..Len(tail) : Held[i + Len(start)] = tail[i]
  BY <1>2, <1>3
<1>7. Held = start \o tail
  BY <1>2, <1>3, <1>4, <1>5, <1>6, JoinedFromParts
<1>. QED
  BY <1>1, <1>7 DEF start

\* Nothing is ever discarded, and the stream is kept while it is read whole.
StreamInv ==
    /\ discardNext = FALSE
    /\ received \in Seq(Bytes \cup {NUL})
    /\ consumed \in Seq(Bytes \cup {NUL})
    /\ BytesKept

LEMMA ReadKeepsStream ==
    ASSUME TypeOK, StreamInv, NEW k \in 1..N, NEW bytes \in [1..k -> Bytes],
           ReadBytes(k, bytes)
    PROVE  StreamInv'
<1>. DEFINE S == Bytes \cup {NUL}
<1>1. bytes \in Seq(S) /\ Len(bytes) = k
  OBVIOUS
<1>2. received' = received \o bytes /\ received' \in Seq(S)
  BY <1>1 DEF ReadBytes, StreamInv
<1>3. ASSUME whole' PROVE received' = consumed' \o Held'
  <2>1. whole /\ totalRead = 0 /\ totalRead' = k /\ k \in 1..N
    BY <1>3 DEF ReadBytes, TypeOK
  <2>2. Held = <<>>
    BY <2>1 DEF Held
  <2>3. received = consumed
    BY <2>1, <2>2 DEF StreamInv, BytesKept
  <2>4. Held' = bytes
    <3>1. \A i \in 1..k : store'[i - 1] = bytes[i]
      BY <1>1 DEF ReadBytes, ReadInto
    <3>. QED
      BY <2>1, <3>1 DEF Held
  <2>. QED
    BY <1>2, <2>3, <2>4 DEF ReadBytes
<1>. QED
  BY <1>2, <1>3 DEF ReadBytes, StreamInv, BytesKept

LEMMA TakeKeepsStream ==
    ASSUME TypeOK, StreamInv, NEW n \in 0..totalRead, NEW text, NEW rest, Take(n, text, rest),
           \A j \in 0..(totalRead - n - 1) : rest[j] = store[j + n]
    PROVE  StreamInv'
<1>. DEFINE S == Bytes \cup {NUL}
            start == SubSeq(Held, 1, n)
<1>1. Held = start \o Held'
  BY TakeSplits DEF Take
<1>2. start \in Seq(S)
  BY HeldIs DEF TypeOK
<1>3. Held' \in Seq(S)
  <2>1. totalRead' = totalRead - n
    BY DEF Take
  <2>2. \A i \in 1..(totalRead - n) : store'[i - 1] \in S
    <3>1. \A i \in 1..(totalRead - n) : store'[i - 1] = store[i - 1 + n]
      BY DEF Take, TypeOK
    <3>2. \A i \in 1..(totalRead - n) : i - 1 + n \in Index
      BY DEF TypeOK
    <3>. QED
      BY <3>1, <3>2 DEF TypeOK
  <2>. HIDE DEF S
  <2>. QED
    BY <2>1, <2>2 DEF Held, TypeOK
<1>4. consumed' = consumed \o start /\ received' = received /\ whole' = whole
      /\ discardNext' = FALSE
  BY DEF Take
<1>. HIDE DEF S, start
<1>5. consumed \in Seq(S) /\ received \in Seq(S)
  BY DEF StreamInv, S
<1>6. whole => received' = consumed' \o Held'
  <2>1. whole => received = consumed \o (start \o Held')
    BY <1>1 DEF StreamInv, BytesKept
  <2>2. consumed \o (start \o Held') = (consumed \o start) \o Held'
    <3>. DEFINE held == Held'
    <3>1. held \in Seq(S)
      BY <1>3
    <3>. HIDE DEF held
    <3>2. consumed \o (start \o held) = (consumed \o start) \o held
      <4>1. \A a, b, d \in Seq(S) : (a \o b) \o d = a \o (b \o d)
        BY ConcatAssociative
      <4>. QED
        BY <1>2, <1>5, <3>1, <4>1, Zenon
    <3>. QED
      BY <3>2 DEF held
  <2>. QED
    BY <1>4, <2>1, <2>2
<1>. QED
  BY <1>2, <1>4, <1>5, <1>6 DEF StreamInv, BytesKept, S

\* As long as every read starts with an empty store, no byte is lost, repeated
\* or reordered, for any store, any lines and any cuts (conn_read_message).
THEOREM BytesSafe == Spec => []BytesKept
<1>1. Init => StreamInv
  BY DEF Init, StreamInv, BytesKept, Held
<1>2. FramingInv /\ StreamInv /\ [Next]_vars => StreamInv'
  <2>. SUFFICES ASSUME TypeOK, StreamInv, [Next]_vars PROVE StreamInv'
    BY DEF FramingInv
  <2>1. CASE UNCHANGED <<store, totalRead, discardNext, received, consumed, whole>>
    BY <2>1 DEF StreamInv, BytesKept, Held
  <2>2. ASSUME NEW i \in Index, ReadLine(i) PROVE StreamInv'
    <3>1. i + 2 \in 0..totalRead
      BY <2>2 DEF ReadLine, strncrlf, CrlfAt, TypeOK
    <3>2. \A j \in 0..(totalRead - (i + 2) - 1) : Shifted(i + 2)[j] = store[j + (i + 2)]
      BY <3>1 DEF Shifted, TypeOK
    <3>. QED
      BY <2>2, <3>1, <3>2, TakeKeepsStream DEF ReadLine
  <2>3. CASE Truncate
    <3>1. N - 2 \in 0..totalRead
      BY <2>3 DEF Truncate, TooLong, TypeOK
    <3>2. \A j \in 0..(totalRead - (N - 2) - 1) : LastBytes[j] = store[j + (N - 2)]
      BY <3>1 DEF LastBytes, TypeOK
    <3>. QED
      BY <2>3, <3>1, <3>2, TakeKeepsStream DEF Truncate
  <2>. QED
    BY <2>1, <2>2, <2>3, ReadKeepsStream
       DEF Next, Read, ReadNothing, PeerEof, Drain, Drained, vars, history
<1>. QED
  BY <1>1, <1>2, FramingInvariant, PTL DEF Spec, StreamInv

-----------------------------------------------------------------------------
(* The argument for the end of the loop. *)

\* Each pass of the extraction loop shortens what is held or leaves the loop.
DrainShrinks == [][Drain => pc' # "drain" \/ totalRead' < totalRead]_vars

\* No pass of the loop around conn_read_message leaves the store as it was,
\* whatever is held: N passes at most, and the loop has come to its end.
THEOREM DrainTerminates == Spec => DrainShrinks
<1>1. FramingInv /\ [Next]_vars => [Drain => pc' # "drain" \/ totalRead' < totalRead]_vars
  <2>. SUFFICES ASSUME FramingInv, Drain PROVE pc' # "drain" \/ totalRead' < totalRead
    OBVIOUS
  <2>0. totalRead \in Nat
    BY DEF FramingInv, TypeOK
  <2>1. ASSUME NEW i \in Index, ReadLine(i) PROVE totalRead' < totalRead
    BY <2>0, <2>1 DEF ReadLine, Take
  <2>2. CASE Truncate
    BY <2>0, <2>2 DEF Truncate, Take
  <2>3. CASE Drained
    BY <2>3 DEF Drained
  <2>. QED
    BY <2>1, <2>2, <2>3 DEF Drain
<1>. QED
  BY <1>1, FramingInvariant, PTL DEF Spec, DrainShrinks
=============================================================================
