------------------------------ MODULE Reactor ------------------------------
(***************************************************************************)
(* The event loop (reactor.c) that drives module Clients: the handlers     *)
(* registered with epoll, the batch of events one epoll_wait returns, and  *)
(* the read handlers it calls in turn.                                     *)
(*                                                                         *)
(* A handler is named by the id of its client, the listening socket's by   *)
(* 0.  The sockets are blocking: a handler that reads with nothing to read *)
(* would stop the server.  A read brings one message or a piece of a line; *)
(* the several lines a read may hold are the subject of module Session.    *)
(***************************************************************************)
EXTENDS Clients, SequencesExt

CONSTANTS
    MaxEvents,   \* REACTOR_MAX_EVENTS
    MaxInput     \* bound on the reads' worth of input a socket holds

ASSUME MaxEventsAssumption == MaxEvents \in Nat \ {0}
ASSUME MaxInputAssumption == MaxInput \in Nat

VARIABLES
    ready,      \* kernel: handlers epoll will look at, in order
    batch,      \* the events of the last epoll_wait not yet dispatched
    pending,    \* kernel: connections waiting to be accepted
    input,      \* kernel: what a read of each socket will return, in reads
    failing     \* kernel: the sockets whose next read may fail, once

kernelVars == <<ready, pending, input, failing>>
reactorVars == <<clientVars, kernelVars, batch>>

Listener == 0
Handlers == Ids \cup {Listener}
Elements(s) == {s[i] : i \in 1..Len(s)}

-----------------------------------------------------------------------------
(* epoll.                                                                  *)

\* Something to read: data, an error or the end of file.
Readable(h) ==
    IF h = Listener THEN pending > 0
    ELSE input[h] > 0 \/ h \in failing \/ conn[h] # "open"

\* New activity puts a handler at the end of the list, once.
Enlist(h) == IF h \in Elements(ready) THEN ready ELSE Append(ready, h)

\* What closing its descriptor takes off the list.
Delist(h) ==
    IF h \in Elements(ready)
    THEN RemoveAt(ready, CHOOSE i \in 1..Len(ready) : ready[i] = h)
    ELSE ready

\* Faulty variant: registered with EPOLLET, a handler is reported once.
EdgeTriggered(rest, taken) == rest
\* EPOLLIN without EPOLLET: what was reported is looked at again, last.
LevelTriggered(rest, taken) == rest \o taken

\* `at` lists the positions up to k with something to read, in order.
Walks(k, at) ==
    /\ \A i, j \in DOMAIN at : i < j => at[i] < at[j]
    /\ {at[i] : i \in DOMAIN at} = {i \in 1..k : Readable(ready[i])}

\* epoll_wait walks the list until it has MaxEvents events or reaches its end
\* at k, dropping the handlers with nothing to read.
Wait ==
    /\ Up /\ batch = <<>>
    /\ \E k \in 1..Len(ready), n \in 0..MaxEvents : \E at \in [1..n -> 1..k] :
           LET taken == [i \in 1..n |-> ready[at[i]]]
               rest == SubSeq(ready, k + 1, Len(ready))
           IN /\ Walks(k, at)
              /\ \/ n = MaxEvents /\ Readable(ready[k])
                 \/ n < MaxEvents /\ rest = <<>>
              /\ batch' = taken
              /\ ready' = LevelTriggered(rest, taken)
    /\ UNCHANGED <<clientVars, pending, input, failing>>

-----------------------------------------------------------------------------
(* reactor_handle_events: the next event of the batch.                     *)

\* Faulty variant: the loop does not get past the event.
SameEvent == batch
NextEvent == Tail(batch)

\* Server_HandleReadEvent.  accept(2) may fail for want of descriptors, and
\* the connection goes on waiting, or because the peer has given up.
DispatchListener ==
    /\ batch # <<>> /\ Head(batch) = Listener
    /\ \/ /\ \E f \in Fds : Accept(f) \/ AcceptUnregistered(f)
          /\ pending' = pending - 1
       \/ /\ AcceptFailed
          /\ pending' \in {pending, pending - 1}
    /\ batch' = NextEvent
    /\ UNCHANGED <<ready, input, failing>>

ReadFails(c) ==
    /\ c \in failing
    /\ HandleReadError(c)
    /\ failing' = failing \ {c}
    /\ UNCHANGED <<ready, input>>

\* One read's worth of input: a message, or no complete line yet.
ReadData(c) ==
    /\ input[c] > 0
    /\ MessageStep(c) \/ UNCHANGED clientVars
    /\ input' = [input EXCEPT ![c] = @ - 1]
    /\ UNCHANGED <<ready, failing>>

ReadEof(c) ==
    /\ input[c] = 0 /\ c \notin failing
    /\ HandleClose(c)
    /\ ready' = IF owner'[fd[c]] = c THEN ready ELSE Delist(c)
    /\ UNCHANGED <<input, failing>>

DispatchClient(c) ==
    /\ Up /\ batch # <<>> /\ Head(batch) = c
    /\ ReadFails(c) \/ ReadData(c) \/ ReadEof(c)
    /\ batch' = NextEvent
    /\ UNCHANGED pending

Loop == Wait \/ DispatchListener \/ \E c \in Ids : DispatchClient(c)

-----------------------------------------------------------------------------
(* The peers.                                                              *)

PeerConnects ==
    /\ Up /\ idCounter + pending <= MaxClients
    /\ pending' = pending + 1
    /\ ready' = Enlist(Listener)
    /\ UNCHANGED <<clientVars, batch, input, failing>>

PeerSends(c) ==
    /\ Up /\ conn[c] = "open" /\ input[c] < MaxInput
    /\ input' = [input EXCEPT ![c] = @ + 1]
    /\ ready' = Enlist(c)
    /\ UNCHANGED <<clientVars, batch, pending, failing>>

\* A close, or a reset, which a read reports as an error first.
PeerLeaves(c) ==
    /\ PeerClose(c)
    /\ ready' = Enlist(c)
    /\ failing' \in {failing, failing \cup {c}}
    /\ UNCHANGED <<batch, pending, input>>

Peers == PeerConnects \/ \E c \in Ids : PeerSends(c) \/ PeerLeaves(c)

-----------------------------------------------------------------------------
ReactorInit ==
    /\ ClientsInit
    /\ ready = <<>>
    /\ batch = <<>>
    /\ pending = 0
    /\ input = [c \in Ids |-> 0]
    /\ failing = {}

ReactorNext == Loop \/ Peers

ReactorSpec == ReactorInit /\ [][ReactorNext]_reactorVars

\* start_server calls reactor_handle_events for ever; peers may do nothing.
ReactorFairSpec == ReactorSpec /\ WF_reactorVars(Loop)

-----------------------------------------------------------------------------
(* Properties.                                                             *)

\* The two lists hold handlers, none twice, and no event of a batch is for a
\* connection an earlier event of the same batch has closed, or for one that
\* took over its descriptor: handlers are not checked before they are called
\* (reactor_handle_events).
NoneTwice(s) == \A i, j \in 1..Len(s) : s[i] = s[j] => i = j
BatchIsServed ==
    /\ NoneTwice(ready) /\ NoneTwice(batch)
    /\ Len(batch) <= MaxEvents
    /\ Elements(ready) \cup Elements(batch) \subseteq Served \cup {Listener}

\* When its turn comes, a handler still has something to read, whatever the
\* handlers before it did: it cannot block in read(2) or accept(2) and keep
\* the whole server waiting.
ReadsDoNotBlock == \A h \in Elements(batch) : Readable(h)

\* All it takes for an end of file to be acted on is that the loop goes on:
\* with MaxEvents events per batch, other clients that never stop sending and
\* accepts that keep failing do not put it off for ever.
ImplementsFairClients == ClientsFairSpec
=============================================================================
