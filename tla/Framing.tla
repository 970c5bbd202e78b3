------------------------------ MODULE Framing ------------------------------
(***************************************************************************)
(* How one connection turns its byte stream into messages: the read of     *)
(* Client_HandleRead (Conn_ReadStoreBuffer), the extraction loop around    *)
(* conn_read_message, and the test for the end of the connection.          *)
(***************************************************************************)
EXTENDS Integers, Sequences

CONSTANTS
    N,          \* IRC_MSG_SIZE, the size of conn_s.store (512 in the code)
    Bytes,      \* the byte values of the stream
    CR, LF,
    NUL,        \* what memset leaves in the store
    MaxBytes    \* bound on the bytes received in a behaviour

ASSUME NAssumption == N \in Nat /\ N >= 5
ASSUME BytesAssumption == CR \in Bytes /\ LF \in Bytes /\ CR # LF
ASSUME MaxBytesAssumption == MaxBytes \in Nat

VARIABLES
    store,         \* conn_s.store
    totalRead,     \* conn_s.totalRead
    discardNext,   \* conn_s.discardNext
    message,       \* conn_s.message, without its padding; <<>> after none
    numRead,       \* result of the last read(2)
    pc,            \* "wait" in epoll, "drain" in the loop, "closed"
    eof,           \* the peer has closed and everything it sent was read
    (* history *)
    received,      \* the bytes read from the socket so far
    consumed,      \* the bytes taken out of the store so far
    whole,         \* no read has yet started with bytes kept in the store
    cut,           \* the rest of a truncated line is still to come
    delivered      \* number of messages handed to parse_message

history == <<received, consumed, whole, cut, delivered>>
vars == <<store, totalRead, discardNext, message, numRead, pc, eof, history>>

Index == 0..(N - 1)

\* The bytes the code believes it holds.
Held == [i \in 1..totalRead |-> store[i - 1]]

\* Faulty variant: the bytes already held are forgotten.
RoomWhole == N
\* What read(2) is asked for.
Room == N - totalRead

\* Where strncrlf can find a CRLF among the first totalRead bytes.
CrlfAt == {i \in 0..(totalRead - 2) : store[i] = CR /\ store[i + 1] = LF}

\* Faulty variant: the last one is taken.
strncrlfLast(i) == i \in CrlfAt /\ \A j \in CrlfAt : j <= i
\* The first one is.
strncrlf(i) == i \in CrlfAt /\ \A j \in CrlfAt : i <= j

-----------------------------------------------------------------------------
(* Conn_ReadStoreBuffer.                                                   *)

\* The buffer read(2) is given: the front of the store, whatever it holds.
ReadInto(bytes) == [j \in Index |-> IF j < Len(bytes) THEN bytes[j + 1] ELSE store[j]]

ReadBytes(k, bytes) ==
    /\ pc = "wait" /\ ~eof
    /\ k <= Room /\ Len(received) + k <= MaxBytes
    /\ store' = ReadInto(bytes)
    /\ totalRead' = totalRead + k
    /\ numRead' = k
    /\ pc' = "drain"
    /\ received' = received \o bytes
    /\ whole' = (whole /\ totalRead = 0)
    /\ UNCHANGED <<discardNext, message, eof, consumed, cut, delivered>>

\* read(2) returns 0 at the end of the stream, and also when it is asked for
\* no byte at all.
ReadNothing ==
    /\ pc = "wait"
    /\ Room > 0 => eof
    /\ numRead' = 0
    /\ pc' = "drain"
    /\ UNCHANGED <<store, totalRead, discardNext, message, eof, history>>

\* The peer closes (environment).
PeerEof ==
    /\ ~eof
    /\ eof' = TRUE
    /\ UNCHANGED <<store, totalRead, discardNext, message, numRead, pc, history>>

-----------------------------------------------------------------------------
(* One pass of conn_read_message; the caller loops while it returns one.   *)

\* Faulty variant: the move starts one byte early.
ShiftedEarly(n) ==
    [j \in Index |-> IF j + n < totalRead THEN store[j + n - 1]
                     ELSE IF j < totalRead THEN NUL ELSE store[j]]
\* The store without its first n bytes; the bytes they leave are zeroed.
Shifted(n) ==
    [j \in Index |-> IF j + n < totalRead THEN store[j + n]
                     ELSE IF j < totalRead THEN NUL ELSE store[j]]

\* The store after a truncation: the one or two bytes left, then zeroes.
LastBytes ==
    [j \in Index |-> IF j + N - 2 < totalRead THEN store[j + N - 2] ELSE NUL]

\* The first n bytes leave the store, as message `text` unless discarded, and
\* `rest` stays.
Take(n, text, rest) ==
    /\ store' = rest
    /\ totalRead' = totalRead - n
    /\ message' = IF discardNext THEN <<>> ELSE text
    /\ delivered' = IF discardNext THEN delivered ELSE delivered + 1
    /\ discardNext' = FALSE
    /\ consumed' = consumed \o SubSeq(Held, 1, n)
    /\ UNCHANGED <<numRead, pc, eof, received, whole>>

\* A CRLF is in the store.
ReadLine(i) ==
    /\ pc = "drain" /\ strncrlf(i)
    /\ Take(i + 2, SubSeq(Held, 1, i + 2), Shifted(i + 2))
    /\ cut' = FALSE

\* Faulty variant: off by one.
TooLongByOne == totalRead > N - 1
\* The store is nearly full without one.
TooLong == totalRead > N - 2

\* All but the last one or two bytes become a message of their own.
Truncate ==
    /\ pc = "drain" /\ CrlfAt = {} /\ TooLong
    /\ Take(N - 2, SubSeq(Held, 1, N - 2) \o <<CR, LF>>, LastBytes)
    /\ cut' = TRUE

\* Faulty variants: a short read ends the connection; an end of file is not
\* looked for; the loop goes on until the store is empty.
AfterDrainShort == IF numRead < 2 THEN "closed" ELSE "wait"
AfterDrainWait == "wait"
AfterDrainEmpty == IF totalRead > 0 THEN "drain"
                   ELSE IF numRead = 0 THEN "closed" ELSE "wait"
\* After the loop: `if (numRead == 0)`.
AfterDrain == IF numRead = 0 THEN "closed" ELSE "wait"

\* conn_read_message returns NULL.
Drained ==
    /\ pc = "drain" /\ CrlfAt = {} /\ ~TooLong
    /\ message' = <<>>
    /\ pc' = AfterDrain
    /\ UNCHANGED <<store, totalRead, discardNext, numRead, eof, history>>

-----------------------------------------------------------------------------
Init ==
    /\ store = [j \in Index |-> NUL]
    /\ totalRead = 0
    /\ discardNext = FALSE
    /\ message = <<>>
    /\ numRead = 0
    /\ pc = "wait"
    /\ eof = FALSE
    /\ received = <<>>
    /\ consumed = <<>>
    /\ whole = TRUE
    /\ cut = FALSE
    /\ delivered = 0

Read == \E k \in 1..N : \E bytes \in [1..k -> Bytes] : ReadBytes(k, bytes)

Drain == (\E i \in Index : ReadLine(i)) \/ Truncate \/ Drained

Next == Read \/ ReadNothing \/ PeerEof \/ Drain

Spec == Init /\ [][Next]_vars

\* The loop runs to its end without waiting, and a readable end of file is
\* reported by the level-triggered epoll until it is read.
FairSpec == Spec /\ WF_vars(Drain) /\ WF_vars(ReadNothing)

-----------------------------------------------------------------------------
(* Properties.                                                             *)

\* The store, its fill count and the loop state keep their types; the fill
\* count stays within the store.
TypeOK ==
    /\ store \in [Index -> Bytes \cup {NUL}]
    /\ totalRead \in 0..N
    /\ discardNext \in BOOLEAN
    /\ numRead \in 0..N
    /\ pc \in {"wait", "drain", "closed"}
    /\ eof \in BOOLEAN

\* The server goes back to epoll only when no complete line is left in the
\* store (it would wait for unrelated bytes to be served) and at least two
\* bytes of room are, so the next read(2) never asks for nothing.
WaitingIsDrained == pc = "wait" => CrlfAt = {} /\ totalRead <= N - 2

\* Client_HandleRead closes a connection only when its peer has: a result of
\* 0 from read(2) is never due to a full store.
CloseMeansEof == pc = "closed" => eof

\* What parse_message is given ends in CRLF, holds no other one and fits
\* conn_s.message, whether it was found or truncated.
MessageIsOneLine ==
    message # <<>> =>
        LET n == Len(message) IN
        /\ n \in 2..N
        /\ message[n - 1] = CR /\ message[n] = LF
        /\ \A i \in 1..(n - 2) : ~(message[i] = CR /\ message[i + 1] = LF)

\* As long as every read starts with an empty store, no byte is lost,
\* repeated or reordered: those taken out and those held are those received.
BytesKept == whole => received = consumed \o Held

\* The extraction loop ends after every read, and a closed peer is noticed.
DrainEnds == pc = "drain" ~> pc # "drain"
EofNoticed == eof ~> pc = "closed"

\* connection.h:44: the read tries to fill the store, after the totalRead
\* bytes it already holds; test_read_message.c: a line split over two reads
\* is put together again.
SplitLineKept == received = consumed \o Held
=============================================================================
