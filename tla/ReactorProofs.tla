--------------------------- MODULE ReactorProofs ---------------------------
(* Proofs about module Reactor, for any number of clients, any batch size, any
   backlog and any amount of input. *)
EXTENDS Reactor, ClientsProofs

\* The events of the listening socket are accepts.
LEMMA ListenerStep == DispatchListener => ClientsNext
  BY DEF DispatchListener, ClientsNext, ConnectionStep

\* The events of a connection are its reads: an error, data or the end.
LEMMA ClientStep ==
    ASSUME NEW c \in Ids, DispatchClient(c)
    PROVE  ClientsNext \/ UNCHANGED clientVars
<1>1. CASE ReadFails(c)
  BY <1>1 DEF ReadFails, ClientsNext, ConnectionStep
<1>2. CASE ReadData(c)
  BY <1>2 DEF ReadData, ClientsNext
<1>3. CASE ReadEof(c)
  BY <1>3 DEF ReadEof, ClientsNext, ConnectionStep
<1>. QED
  BY <1>1, <1>2, <1>3 DEF DispatchClient

\* What peers do leaves the server alone, but for a close it will read.
LEMMA PeerStep == Peers => ClientsNext \/ UNCHANGED clientVars
<1>1. PeerConnects => UNCHANGED clientVars
  BY DEF PeerConnects
<1>2. ASSUME NEW c \in Ids, PeerSends(c) PROVE UNCHANGED clientVars
  BY <1>2 DEF PeerSends
<1>3. ASSUME NEW c \in Ids, PeerLeaves(c) PROVE ClientsNext
  BY <1>3 DEF PeerLeaves, ClientsNext, ConnectionStep
<1>. QED
  BY <1>1, <1>2, <1>3 DEF Peers

\* Whatever epoll_wait reports, in batches of any size, and in whatever order
\* reactor_handle_events calls the handlers: what the server does is a
\* behaviour of Clients, so that everything proved of Clients holds of it.
THEOREM ReactorImplementsClients == ReactorSpec => ClientsSpec
<1>1. ReactorInit => ClientsInit
  BY DEF ReactorInit
<1>2. [ReactorNext]_reactorVars => [ClientsNext]_clientVars
  <2>1. Wait => UNCHANGED clientVars
    BY DEF Wait
  <2>2. Loop => ClientsNext \/ UNCHANGED clientVars
    BY <2>1, ListenerStep, ClientStep DEF Loop
  <2>3. UNCHANGED reactorVars => UNCHANGED clientVars
    BY DEF reactorVars
  <2>. QED
    BY <2>2, <2>3, PeerStep DEF ReactorNext
<1>. QED
  BY <1>1, <1>2, PTL DEF ReactorSpec, ClientsSpec

\* The nickname table, registration, counters and descriptors stay consistent
\* under the event loop, and the loop implements the abstract directory.
THEOREM ReactorKeepsClients ==
    ReactorSpec => []ClientsInv /\ ImplementsDirectory
  BY ReactorImplementsClients, ClientsInvariant, DirectoryImplemented, PTL

-----------------------------------------------------------------------------
(* Lists of handlers, none of them twice. *)

LEMMA AppendedOnce ==
    ASSUME NEW s \in Seq(Handlers), NoneTwice(s),
           NEW h \in Handlers, h \notin Elements(s)
    PROVE  /\ Append(s, h) \in Seq(Handlers)
           /\ NoneTwice(Append(s, h))
           /\ Elements(Append(s, h)) = Elements(s) \cup {h}
  BY DEF NoneTwice, Elements

\* What is left of a batch when its first event has been taken.
LEMMA TailOnce ==
    ASSUME NEW s \in Seq(Handlers), NoneTwice(s), s # <<>>
    PROVE  /\ Tail(s) \in Seq(Handlers)
           /\ Len(Tail(s)) < Len(s)
           /\ Head(s) \in Elements(s)
           /\ NoneTwice(Tail(s))
           /\ Elements(Tail(s)) \subseteq Elements(s) \ {Head(s)}
  BY DEF NoneTwice, Elements

\* Closing a descriptor removes its handler and no other.
LEMMA DelistOne ==
    ASSUME ready \in Seq(Handlers), NoneTwice(ready), NEW h
    PROVE  /\ Delist(h) \in Seq(Handlers)
           /\ NoneTwice(Delist(h))
           /\ Elements(Delist(h)) \subseteq Elements(ready) \ {h}
<1>1. CASE h \in Elements(ready)
  <2>1. PICK i \in 1..Len(ready) : ready[i] = h /\ Delist(h) = RemoveAt(ready, i)
    BY <1>1 DEF Delist, Elements
  <2>. DEFINE d == Delist(h)
              low == SubSeq(ready, 1, i - 1)
              high == SubSeq(ready, i + 1, Len(ready))
  <2>2. /\ low \in Seq(Handlers) /\ Len(low) = i - 1
        /\ \A j \in 1..(i - 1) : low[j] = ready[j]
    OBVIOUS
  <2>3. /\ high \in Seq(Handlers) /\ Len(high) = Len(ready) - i
        /\ \A j \in 1..(Len(ready) - i) : high[j] = ready[j + i]
    OBVIOUS
  <2>4. d = low \o high
    BY <2>1 DEF RemoveAt
  <2>. HIDE DEF d, low, high
  <2>5. /\ d \in Seq(Handlers) /\ Len(d) = Len(ready) - 1
        /\ \A j \in 1..Len(d) : d[j] = IF j < i THEN ready[j] ELSE ready[j + 1]
    <3>1. d \in Seq(Handlers) /\ Len(d) = Len(ready) - 1
      BY <2>2, <2>3, <2>4
    <3>2. \A j \in 1..Len(d) : d[j] = IF j <= i - 1 THEN low[j] ELSE high[j - (i - 1)]
      BY <2>2, <2>3, <2>4
    <3>3. \A j \in 1..Len(d) : j > i - 1 => high[j - (i - 1)] = ready[j + 1]
      <4>. SUFFICES ASSUME NEW j \in 1..Len(d), j > i - 1
                    PROVE  high[j - (i - 1)] = ready[j + 1]
        OBVIOUS
      <4>1. j - (i - 1) \in 1..(Len(ready) - i) /\ (j - (i - 1)) + i = j + 1
        BY <3>1
      <4>. QED
        BY <2>3, <4>1
    <3>. QED
      BY <2>2, <3>1, <3>2, <3>3
  <2>6. NoneTwice(d)
    BY <2>5 DEF NoneTwice
  <2>7. Elements(d) \subseteq Elements(ready) \ {h}
    BY <2>1, <2>5 DEF NoneTwice, Elements
  <2>. QED
    BY <2>5, <2>6, <2>7 DEF d
<1>2. CASE h \notin Elements(ready)
  BY <1>2 DEF Delist
<1>. QED
  BY <1>1, <1>2

\* Two sequences, one after the other.
LEMMA Joined ==
    ASSUME NEW S, NEW a \in Seq(S), NEW b \in Seq(S)
    PROVE  /\ a \o b \in Seq(S) /\ Len(a \o b) = Len(a) + Len(b)
           /\ \A j \in 1..(Len(a) + Len(b)) :
                 (a \o b)[j] = IF j <= Len(a) THEN a[j] ELSE b[j - Len(a)]
  OBVIOUS

\* t is made of the elements of s at the positions at[1], at[2], ..., which
\* are all different.
Picks(s, t, at) ==
    /\ \A j \in 1..Len(t) : at[j] \in 1..Len(s) /\ t[j] = s[at[j]]
    /\ \A i, j \in 1..Len(t) : at[i] = at[j] => i = j

\* What is picked from a list, no position twice, holds no handler twice.
LEMMA Picked ==
    ASSUME NEW s \in Seq(Handlers), NoneTwice(s),
           NEW t \in Seq(Handlers), NEW at, Picks(s, t, at)
    PROVE  NoneTwice(t) /\ Elements(t) \subseteq Elements(s)
<1>1. ASSUME NEW i \in 1..Len(t), NEW j \in 1..Len(t), t[i] = t[j]
      PROVE  i = j
  <2>1. at[i] = at[j]
    BY <1>1 DEF NoneTwice, Picks
  <2>. QED
    BY <2>1 DEF Picks
<1>2. \A j \in 1..Len(t) : t[j] \in Elements(s)
  BY DEF Elements, Picks
<1>. QED
  BY <1>1, <1>2 DEF NoneTwice, Elements

\* The positions behind k, and then those picked up to k, are all different.
LEMMA BehindAndPicked ==
    ASSUME NEW k \in Nat, NEW m \in Nat, NEW n \in Nat,
           NEW at \in [1..n -> 1..k],
           \A i, j \in 1..n : at[i] = at[j] => i = j
    PROVE  LET source == [j \in 1..(m + n) |-> IF j <= m THEN j + k ELSE at[j - m]]
           IN  /\ \A j \in 1..(m + n) : source[j] \in 1..(m + k)
               /\ \A i, j \in 1..(m + n) : source[i] = source[j] => i = j
<1>. DEFINE source == [j \in 1..(m + n) |-> IF j <= m THEN j + k ELSE at[j - m]]
<1>1. ASSUME NEW j \in 1..(m + n)
      PROVE  /\ j <= m => source[j] = j + k
             /\ j > m => j - m \in 1..n /\ source[j] = at[j - m] /\ at[j - m] \in 1..k
  <2>1. j > m => j - m \in 1..n
    OBVIOUS
  <2>. QED
    BY <2>1
<1>. HIDE DEF source
<1>2. ASSUME NEW i \in 1..(m + n), NEW j \in 1..(m + n), source[i] = source[j]
      PROVE  i = j
  <2>1. i > m /\ j > m => i - m = j - m
    BY <1>1, <1>2
  <2>. QED
    BY <1>1, <1>2, <2>1
<1>3. \A j \in 1..(m + n) : source[j] \in 1..(m + k)
  BY <1>1
<1>. QED
  BY <1>2, <1>3 DEF source

\* The handlers that a walk of epoll_wait reports, and what the list becomes.
LEMMA WalkOnce ==
    ASSUME ready \in Seq(Handlers), NoneTwice(ready),
           NEW k \in 1..Len(ready), NEW n \in Nat, NEW at \in [1..n -> 1..k],
           Walks(k, at)
    PROVE  LET taken == [i \in 1..n |-> ready[at[i]]]
               rest == SubSeq(ready, k + 1, Len(ready))
           IN  /\ taken \in Seq(Handlers) /\ Len(taken) = n
               /\ NoneTwice(taken)
               /\ \A h \in Elements(taken) : h \in Elements(ready) /\ Readable(h)
               /\ rest \o taken \in Seq(Handlers)
               /\ NoneTwice(rest \o taken)
               /\ Elements(rest \o taken) \subseteq Elements(ready)
<1>. DEFINE taken == [i \in 1..n |-> ready[at[i]]]
            rest == SubSeq(ready, k + 1, Len(ready))
            m == Len(ready) - k
            source == [j \in 1..(m + n) |-> IF j <= m THEN j + k ELSE at[j - m]]
<1>1. taken \in Seq(Handlers) /\ Len(taken) = n /\ \A i \in 1..n : taken[i] = ready[at[i]]
  OBVIOUS
<1>2. \A i, j \in 1..n : at[i] = at[j] => i = j
  BY DEF Walks
<1>3. NoneTwice(taken) /\ Elements(taken) \subseteq Elements(ready)
  <2>1. Picks(ready, taken, at)
    BY <1>1, <1>2 DEF Picks
  <2>. HIDE DEF taken
  <2>. QED
    BY <1>1, <2>1, Picked
<1>4. \A h \in Elements(taken) : Readable(h)
  <2>. SUFFICES ASSUME NEW i \in 1..n PROVE Readable(ready[at[i]])
    BY <1>1 DEF Elements
  <2>1. at[i] \in {l \in 1..k : Readable(ready[l])}
    BY DEF Walks
  <2>. QED
    BY <2>1
<1>5. /\ k \in Nat /\ m \in Nat /\ m + k = Len(ready)
      /\ rest \in Seq(Handlers) /\ Len(rest) = m
      /\ \A j \in 1..m : rest[j] = ready[j + k]
  OBVIOUS
<1>. DEFINE list == rest \o taken
<1>6. /\ \A j \in 1..(m + n) : source[j] \in 1..Len(ready)
      /\ \A i, j \in 1..(m + n) : source[i] = source[j] => i = j
  <2>. HIDE DEF m
  <2>. QED
    BY <1>2, <1>5, BehindAndPicked
<1>. HIDE DEF taken, rest, m, list
<1>7. /\ list \in Seq(Handlers) /\ Len(list) = m + n
      /\ \A j \in 1..(m + n) : list[j] = IF j <= m THEN rest[j] ELSE taken[j - m]
  <2>1. taken \in Seq(Handlers) /\ Len(taken) = n /\ n \in Nat
    BY <1>1
  <2>2. rest \in Seq(Handlers) /\ Len(rest) = m /\ m \in Nat
    BY <1>5
  <2>. QED
    BY ONLY <2>1, <2>2, Joined DEF list
<1>8. ASSUME NEW j \in 1..(m + n)
      PROVE  list[j] = ready[source[j]]
  <2>1. CASE j <= m
    BY <1>5, <1>7, <2>1
  <2>2. CASE ~(j <= m)
    <3>1. j - m \in 1..n
      BY <1>5, <2>2
    <3>2. list[j] = ready[at[j - m]]
      BY <1>1, <1>7, <2>2, <3>1
    <3>. QED
      BY <2>2, <3>2
  <2>. QED
    BY <2>1, <2>2
<1>. HIDE DEF source
<1>9. NoneTwice(list) /\ Elements(list) \subseteq Elements(ready)
  <2>1. Picks(ready, list, source)
    BY <1>6, <1>7, <1>8 DEF Picks
  <2>. QED
    BY <1>7, <2>1, Picked
<1>. QED
  BY <1>1, <1>3, <1>4, <1>7, <1>9 DEF taken, rest, list

-----------------------------------------------------------------------------
(* The batch in flight. *)

ReactorTypes ==
    /\ ready \in Seq(Handlers)
    /\ batch \in Seq(Handlers)
    /\ pending \in Int
    /\ input \in [Ids -> Nat]
    /\ failing \subseteq Ids

\* Inductive with ClientsInv, which says whose descriptors are open.
BatchInv ==
    /\ ReactorTypes
    /\ BatchIsServed
    /\ ReadsDoNotBlock

\* No message opens or closes a connection.
LEMMA MessageKeepsSockets ==
    ASSUME NEW c \in Ids, MessageStep(c)
    PROVE  UNCHANGED sockets
  BY DEF MessageStep, Handler_Nick, ChangeNick, Handler_NickMissing,
         Handler_NickErroneous, Handler_User, Handler_UserMissing, Handler_WhoIs,
         Handler_Motd, Handler_LUsers, Handler_Ping, Handler_Unknown, Ignored,
         Answer, registry

\* New activity puts a handler on the list that has not been on it.
LEMMA EnlistOnce ==
    ASSUME ready \in Seq(Handlers), NoneTwice(ready), NEW h \in Handlers
    PROVE  /\ Enlist(h) \in Seq(Handlers)
           /\ NoneTwice(Enlist(h))
           /\ Elements(Enlist(h)) = Elements(ready) \cup {h}
  BY AppendedOnce DEF Enlist

LEMMA BatchStarts ==
    ASSUME ReactorInit
    PROVE  BatchInv
<1>1. NoneTwice(<<>>) /\ Elements(<<>>) = {}
  BY DEF NoneTwice, Elements
<1>2. ReactorTypes
  BY DEF ReactorInit, ReactorTypes
<1>3. Len(batch) <= MaxEvents
  BY MaxEventsAssumption DEF ReactorInit
<1>. QED
  BY <1>1, <1>2, <1>3 DEF ReactorInit, BatchInv, BatchIsServed, ReadsDoNotBlock

\* epoll_wait reports handlers that have something to read, once each.
LEMMA WaitKeeps ==
    ASSUME BatchInv, Wait
    PROVE  BatchInv'
<1>1. PICK k \in 1..Len(ready), n \in 0..MaxEvents : \E at \in [1..n -> 1..k] :
         /\ Walks(k, at)
         /\ batch' = [i \in 1..n |-> ready[at[i]]]
         /\ ready' = SubSeq(ready, k + 1, Len(ready)) \o [i \in 1..n |-> ready[at[i]]]
  BY DEF Wait, LevelTriggered
<1>2. PICK at \in [1..n -> 1..k] :
         /\ Walks(k, at)
         /\ batch' = [i \in 1..n |-> ready[at[i]]]
         /\ ready' = SubSeq(ready, k + 1, Len(ready)) \o [i \in 1..n |-> ready[at[i]]]
  BY <1>1
<1>3. UNCHANGED <<clientVars, pending, input, failing>>
  BY DEF Wait
<1>4. ready \in Seq(Handlers) /\ NoneTwice(ready) /\ n \in Nat
  BY MaxEventsAssumption DEF BatchInv, ReactorTypes, BatchIsServed
<1>5. /\ batch' \in Seq(Handlers) /\ Len(batch') = n
      /\ NoneTwice(batch')
      /\ \A h \in Elements(batch') : h \in Elements(ready) /\ Readable(h)
      /\ ready' \in Seq(Handlers)
      /\ NoneTwice(ready')
      /\ Elements(ready') \subseteq Elements(ready)
  <2>. DEFINE taken == [i \in 1..n |-> ready[at[i]]]
              rest == SubSeq(ready, k + 1, Len(ready))
  <2>1. /\ taken \in Seq(Handlers) /\ Len(taken) = n
        /\ NoneTwice(taken)
        /\ \A h \in Elements(taken) : h \in Elements(ready) /\ Readable(h)
        /\ rest \o taken \in Seq(Handlers)
        /\ NoneTwice(rest \o taken)
        /\ Elements(rest \o taken) \subseteq Elements(ready)
    BY <1>2, <1>4, WalkOnce, Zenon
  <2>2. batch' = taken /\ ready' = rest \o taken
    BY <1>2
  <2>. HIDE DEF taken, rest
  <2>. QED
    BY <2>1, <2>2, Zenon
<1>6. Served' = Served /\ \A h \in Handlers : Readable(h)' = Readable(h)
  BY <1>3 DEF clientVars, registry, sockets, Served, Connected, Readable
<1>7. Elements(batch') \subseteq Elements(ready) /\ Elements(ready) \subseteq Handlers
  <2>1. Elements(ready) \subseteq Handlers
    BY <1>4 DEF Elements
  <2>. QED
    BY <1>5, <2>1
<1>8. ReactorTypes' /\ Len(batch') <= MaxEvents
  BY <1>3, <1>5, MaxEventsAssumption DEF BatchInv, ReactorTypes
<1>9. Elements(ready)' \cup Elements(batch)' \subseteq Served' \cup {Listener}
  BY <1>5, <1>6, <1>7 DEF BatchInv, BatchIsServed, Elements
<1>10. \A h \in Elements(batch)' : Readable(h)'
  BY <1>5, <1>6, <1>7 DEF Elements
<1>. QED
  BY <1>5, <1>8, <1>9, <1>10 DEF BatchInv, BatchIsServed, ReadsDoNotBlock, NoneTwice

\* What a step that takes the first event of a batch must leave in order.
LEMMA DispatchKeeps ==
    ASSUME BatchInv, batch # <<>>, batch' = Tail(batch), ReactorTypes',
           NoneTwice(ready'), Elements(ready') \subseteq Served' \cup {Listener},
           \A h \in (Served \cup {Listener}) \ {Head(batch)} :
               /\ h \in Served' \cup {Listener}
               /\ h \in Elements(batch) => Readable(h)'
    PROVE  BatchInv'
<1>. DEFINE rest == Tail(batch)
<1>1. /\ rest \in Seq(Handlers) /\ Len(rest) < Len(batch)
      /\ NoneTwice(rest)
      /\ Elements(rest) \subseteq Elements(batch) \ {Head(batch)}
  BY TailOnce DEF BatchInv, ReactorTypes, BatchIsServed
<1>2. Elements(batch) \subseteq Served \cup {Listener}
  BY DEF BatchInv, BatchIsServed
<1>3. Len(rest) <= MaxEvents
  BY <1>1, MaxEventsAssumption DEF BatchInv, ReactorTypes, BatchIsServed
<1>. HIDE DEF rest
<1>4. batch' = rest
  BY DEF rest
<1>5. Elements(rest) \subseteq Served' \cup {Listener}
  BY <1>1, <1>2
<1>6. \A h \in Elements(rest) : Readable(h)'
  BY <1>1, <1>2
<1>7. BatchIsServed'
  <2>1. Elements(ready') \cup Elements(rest) \subseteq Served' \cup {Listener}
    BY <1>5
  <2>. QED
    BY <1>1, <1>3, <1>4, <2>1 DEF BatchIsServed
<1>8. ReadsDoNotBlock'
  BY <1>4, <1>6 DEF ReadsDoNotBlock, Elements
<1>. QED
  BY <1>7, <1>8 DEF BatchInv

\* An accept opens a connection no event of the batch is for.
LEMMA ListenerKeeps ==
    ASSUME ClientsInv, BatchInv, DispatchListener
    PROVE  BatchInv'
<1>1. ReactorTypes' /\ UNCHANGED <<ready, input, failing>>
  <2>1. pending' \in Int
    BY DEF DispatchListener, BatchInv, ReactorTypes
  <2>2. batch' \in Seq(Handlers)
    BY TailOnce DEF DispatchListener, NextEvent, BatchInv, ReactorTypes, BatchIsServed
  <2>. QED
    BY <2>1, <2>2 DEF DispatchListener, BatchInv, ReactorTypes
<1>2. \A c \in Served : conn'[c] = conn[c]
  <2>1. CASE AcceptFailed
    BY <2>1 DEF AcceptFailed, registry, sockets
  <2>2. ASSUME NEW f \in Fds, Accept(f) \/ AcceptUnregistered(f)
        PROVE  \A c \in Served : conn'[c] = conn[c]
    <3>1. idCounter \in Ids /\ conn[idCounter] = "none"
      BY <2>2 DEF Accept, AcceptUnregistered, ClientsInv, ClientsTypeOK, IdsInOrder, Ids
    <3>. QED
      BY <2>2, <3>1 DEF Accept, AcceptUnregistered, Enter, ClientsInv, ClientsTypeOK,
                        Served, Connected
  <2>. QED
    BY <2>1, <2>2 DEF DispatchListener
<1>3. Served \subseteq Served'
  BY <1>2 DEF Served, Connected
<1>4. ASSUME NEW h \in Served \ {Listener}, h \in Elements(batch)
      PROVE  Readable(h)'
  <2>1. Readable(h)
    BY <1>4 DEF BatchInv, ReadsDoNotBlock
  <2>. QED
    BY <1>1, <1>2, <1>4, <2>1 DEF Readable
<1>5. NoneTwice(ready') /\ Elements(ready') \subseteq Served' \cup {Listener}
  BY <1>1, <1>3 DEF BatchInv, BatchIsServed
<1>6. batch # <<>> /\ Head(batch) = Listener /\ batch' = Tail(batch)
  BY DEF DispatchListener, NextEvent
<1>. QED
  BY <1>1, <1>3, <1>4, <1>5, <1>6, DispatchKeeps

\* A read concerns the connection it is for and no other.
LEMMA ClientKeeps ==
    ASSUME ClientsInv, BatchInv, NEW c \in Ids, DispatchClient(c)
    PROVE  BatchInv'
<1>1. /\ batch # <<>> /\ Head(batch) = c /\ batch' = Tail(batch)
      /\ batch' \in Seq(Handlers) /\ pending' = pending
  BY TailOnce DEF DispatchClient, NextEvent, BatchInv, ReactorTypes, BatchIsServed
<1>2. /\ ready' \in Seq(Handlers) /\ NoneTwice(ready')
      /\ Elements(ready') \subseteq (Served \cap Served') \cup {Listener}
  <2>1. CASE UNCHANGED conn /\ UNCHANGED ready
    BY <2>1 DEF BatchInv, ReactorTypes, BatchIsServed, Served, Connected
  <2>2. CASE ReadEof(c)
    <3>1. /\ Delist(c) \in Seq(Handlers) /\ NoneTwice(Delist(c))
          /\ Elements(Delist(c)) \subseteq Elements(ready) \ {c}
      BY DelistOne DEF BatchInv, ReactorTypes, BatchIsServed
    <3>2. Elements(ready) \subseteq Served \cup {Listener}
      BY DEF BatchInv, BatchIsServed
    <3>3. Served \ {c} \subseteq Served'
      BY <2>2 DEF ReadEof, HandleClose, Served, Connected, ClientsInv, ClientsTypeOK
    <3>4. owner'[fd[c]] = 0 /\ c # 0
      BY <2>2 DEF ReadEof, HandleClose, CloseFd, AtEof, Connected, FdOwnership,
                  ClientsInv, ClientsTypeOK, Ids
    <3>5. ready' = Delist(c)
      BY <2>2, <3>4 DEF ReadEof
    <3>. QED
      BY <3>1, <3>2, <3>3, <3>5
  <2>3. CASE ReadFails(c)
    BY <2>1, <2>3 DEF ReadFails, HandleReadError, registry, sockets
  <2>4. CASE ReadData(c)
    BY <2>1, <2>4, MessageKeepsSockets DEF ReadData, sockets, clientVars, registry
  <2>. QED
    BY <2>2, <2>3, <2>4 DEF DispatchClient
<1>3. input' \in [Ids -> Nat] /\ failing' \subseteq Ids
  BY DEF DispatchClient, ReadFails, ReadData, ReadEof, BatchInv, ReactorTypes
<1>4. \A h \in Ids \ {c} :
         conn'[h] = conn[h] /\ input'[h] = input[h] /\ (h \in failing' <=> h \in failing)
  <2>1. CASE ReadFails(c)
    BY <2>1 DEF ReadFails, HandleReadError, registry, sockets
  <2>2. CASE ReadData(c)
    BY <2>2, MessageKeepsSockets DEF ReadData, sockets, clientVars, registry, BatchInv, ReactorTypes
  <2>3. CASE ReadEof(c)
    BY <2>3 DEF ReadEof, HandleClose, ClientsInv, ClientsTypeOK
  <2>. QED
    BY <2>1, <2>2, <2>3 DEF DispatchClient
<1>5. ASSUME NEW h \in (Served \cup {Listener}) \ {c}
      PROVE  /\ h \in Served' \cup {Listener}
             /\ h \in Elements(batch) => Readable(h)'
  <2>1. h \in Elements(batch) => Readable(h)
    BY DEF BatchInv, ReadsDoNotBlock
  <2>2. CASE h = Listener
    BY <1>1, <2>1, <2>2 DEF Readable
  <2>3. CASE h # Listener
    BY <1>4, <2>1, <2>3 DEF Readable, Served, Connected
  <2>. QED
    BY <2>2, <2>3
<1>6. ReactorTypes'
  BY <1>1, <1>2, <1>3 DEF ReactorTypes, BatchInv
<1>. QED
  BY <1>1, <1>2, <1>5, <1>6, DispatchKeeps

\* What peers do only adds to what there is to read.
LEMMA PeersKeep ==
    ASSUME BatchInv, ClientsTypeOK, ready' \in Seq(Handlers), NoneTwice(ready'),
           Elements(ready') \subseteq Served' \cup {Listener},
           UNCHANGED batch, pending' \in Int, pending' >= pending,
           input' \in [Ids -> Nat], \A c \in Ids : input'[c] >= input[c],
           failing \subseteq failing', failing' \subseteq Ids,
           \A c \in Ids : conn'[c] = conn[c] \/ (conn[c] = "open" /\ conn'[c] = "eof")
    PROVE  BatchInv'
<1>1. ReactorTypes'
  BY DEF BatchInv, ReactorTypes
<1>2. Served \subseteq Served'
  BY DEF Served, Connected
<1>3. ASSUME NEW h \in Elements(batch)
      PROVE  Readable(h)' /\ h \in Served' \cup {Listener}
  <2>1. Readable(h) /\ h \in Served \cup {Listener}
    BY <1>3 DEF BatchInv, ReadsDoNotBlock, BatchIsServed
  <2>2. CASE h = Listener
    BY <2>1, <2>2 DEF Readable, BatchInv, ReactorTypes
  <2>3. CASE h # Listener
    BY <1>2, <2>1, <2>3 DEF Readable, BatchInv, ReactorTypes, Served, Connected
  <2>. QED
    BY <2>2, <2>3
<1>4. BatchIsServed'
  <2>1. Elements(ready') \cup Elements(batch) \subseteq Served' \cup {Listener}
    BY <1>3
  <2>2. NoneTwice(batch) /\ Len(batch) <= MaxEvents
    BY DEF BatchInv, BatchIsServed
  <2>. QED
    BY <2>1, <2>2 DEF BatchIsServed
<1>5. ReadsDoNotBlock'
  BY <1>3 DEF ReadsDoNotBlock
<1>. QED
  BY <1>1, <1>4, <1>5 DEF BatchInv

LEMMA BatchInductive ==
    ASSUME ClientsInv, BatchInv, [ReactorNext]_reactorVars
    PROVE  BatchInv'
<1>0. /\ ready \in Seq(Handlers) /\ NoneTwice(ready)
      /\ Elements(ready) \subseteq Served \cup {Listener}
      /\ pending \in Int /\ input \in [Ids -> Nat] /\ failing \subseteq Ids
      /\ ClientsTypeOK /\ \A c \in Ids : input[c] >= input[c]
  BY DEF BatchInv, ReactorTypes, BatchIsServed, ClientsInv
<1>1. CASE Wait
  BY <1>1, WaitKeeps
<1>2. CASE DispatchListener
  BY <1>2, ListenerKeeps
<1>3. ASSUME NEW c \in Ids, DispatchClient(c) PROVE BatchInv'
  BY <1>3, ClientKeeps
<1>4. CASE PeerConnects
  <2>1. UNCHANGED <<conn, batch, input, failing>> /\ pending' = pending + 1
    BY <1>4 DEF PeerConnects, clientVars, registry, sockets
  <2>2. /\ ready' \in Seq(Handlers) /\ NoneTwice(ready')
        /\ Elements(ready') = Elements(ready) \cup {Listener}
    BY <1>0, <1>4, EnlistOnce DEF PeerConnects, Handlers
  <2>3. Served' = Served
    BY <2>1 DEF Served, Connected
  <2>. QED
    BY <1>0, <2>1, <2>2, <2>3, PeersKeep
<1>5. ASSUME NEW c \in Ids, PeerSends(c) PROVE BatchInv'
  <2>1. /\ UNCHANGED <<conn, batch, pending, failing>> /\ conn[c] = "open"
        /\ input' = [input EXCEPT ![c] = @ + 1]
    BY <1>5 DEF PeerSends, clientVars, registry, sockets
  <2>2. /\ ready' \in Seq(Handlers) /\ NoneTwice(ready')
        /\ Elements(ready') = Elements(ready) \cup {c}
    BY <1>0, <1>5, EnlistOnce DEF PeerSends, Handlers
  <2>3. Served' = Served /\ c \in Served
    BY <2>1 DEF Served, Connected
  <2>4. input' \in [Ids -> Nat] /\ \A d \in Ids : input'[d] >= input[d]
    BY <1>0, <2>1
  <2>. QED
    BY <1>0, <2>1, <2>2, <2>3, <2>4, PeersKeep
<1>6. ASSUME NEW c \in Ids, PeerLeaves(c) PROVE BatchInv'
  <2>1. /\ UNCHANGED <<batch, pending, input>>
        /\ conn[c] = "open" /\ conn' = [conn EXCEPT ![c] = "eof"]
        /\ failing' \in {failing, failing \cup {c}}
    BY <1>6 DEF PeerLeaves, PeerClose
  <2>2. /\ ready' \in Seq(Handlers) /\ NoneTwice(ready')
        /\ Elements(ready') = Elements(ready) \cup {c}
    BY <1>0, <1>6, EnlistOnce DEF PeerLeaves, Handlers
  <2>3. \A d \in Ids : conn'[d] = conn[d] \/ (conn[d] = "open" /\ conn'[d] = "eof")
    BY <1>0, <2>1 DEF ClientsTypeOK
  <2>4. Served \subseteq Served' /\ c \in Served
    BY <2>1, <2>3 DEF Served, Connected
  <2>. QED
    BY <1>0, <2>1, <2>2, <2>3, <2>4, PeersKeep
<1>7. CASE UNCHANGED reactorVars
  <2>1. UNCHANGED <<conn, ready, batch, pending, input, failing>>
    BY <1>7 DEF reactorVars, kernelVars, clientVars, registry, sockets
  <2>2. Served' = Served
    BY <2>1 DEF Served, Connected
  <2>. QED
    BY <1>0, <2>1, <2>2, PeersKeep
<1>. QED
  BY <1>1, <1>2, <1>3, <1>4, <1>5, <1>6, <1>7 DEF ReactorNext, Loop, Peers

LEMMA BatchInvariant == ReactorSpec => []BatchInv
<1>1. ClientsInv /\ BatchInv /\ [ReactorNext]_reactorVars => BatchInv'
  BY BatchInductive
<1>. QED
  BY <1>1, BatchStarts, ReactorKeepsClients, PTL DEF ReactorSpec

\* The events of a batch are for connections that are still open, each for
\* its own, when their turn comes: no handler before them in the batch closed
\* one of them or handed its descriptor to another client
\* (reactor_handle_events).
THEOREM BatchSafe == ReactorSpec => []BatchIsServed
BY BatchInvariant, PTL DEF BatchInv

\* No handler the loop calls blocks in accept(2) or read(2), whatever the
\* handlers before it in the batch have read (Server_HandleReadEvent,
\* Client_HandleRead).
THEOREM ReadsSafe == ReactorSpec => []ReadsDoNotBlock
BY BatchInvariant, PTL DEF BatchInv
=============================================================================
