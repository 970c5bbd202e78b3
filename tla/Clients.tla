------------------------------ MODULE Clients ------------------------------
(***************************************************************************)
(* The connections of a cIRC server: the accept handler, the nickname and  *)
(* client tables, registration, the LUSERS counters and the end of a       *)
(* connection (client.c, server.c, and the handlers of handlers.c that     *)
(* touch no channel).                                                      *)
(*                                                                         *)
(* One action is one message handled by the single-threaded event loop, or *)
(* one event of the loop.  Messages are already parsed: an action's        *)
(* parameters are the fields its handler reads.                            *)
(***************************************************************************)
EXTENDS Integers, FiniteSets

CONSTANTS
    MaxClients,   \* bound on the connections accepted in a behaviour
    Fds,          \* descriptors the kernel can hand to accept()
    Nicks,        \* nicknames that fit client_s.nickname
    None          \* the empty string / an absent argument

ASSUME MaxClientsAssumption == MaxClients \in Nat
ASSUME FdsAssumption == Fds \subseteq Nat \ {0}
ASSUME NicksAssumption == None \notin Nicks

Ids == 1..MaxClients

VARIABLES
    status,        \* "up", "killed" by a signal, "blocked" for ever in write(2),
                   \* or "undefined": it used freed or uninitialised memory and
                   \* nothing more is known of it
    idCounter,     \* server_s.idCounter
    clients,       \* keys of server_s.clients
    conn,          \* per id: "none", "open", "eof" (the peer has closed, its
                   \* end of file is unread), "closed", or "lost" (accepted,
                   \* but epoll refused it: client_s freed, descriptor kept)
    fd,            \* client_s.conn.fd, kept after close()
    owner,         \* kernel: the id whose socket a descriptor denotes, or 0
    nicks,         \* server_s.nicks; 0 is an absent key (a NULL lookup)
    nickname, receivedNick, receivedUser, registered,   \* client_s
    nUsers, nUnknown,    \* server_s counters
    out            \* the writes of the last step that reached a socket

identity == <<nicks, nickname, receivedNick, receivedUser, registered>>
counters == <<nUsers, nUnknown>>
sockets == <<conn, fd, owner>>
registry == <<idCounter, clients, sockets, identity, counters>>
clientVars == <<status, registry, out>>

-----------------------------------------------------------------------------
(* Writing to sockets.                                                     *)

\* Connections with an open descriptor and a registered event handler.
Connected == {c \in Ids : conn[c] \in {"open", "eof"}}

\* Faulty variant: a registered client is still served after its close.
ServedAfterClose == Connected \cup {c \in Ids : conn[c] = "closed" /\ registered[c]}

\* The clients whose messages the reactor hands to a handler: close(2) takes
\* a descriptor out of the epoll set.
Served == Connected

\* A write(2) on the descriptor stored for client `to`; `at` is the
\* connection the kernel delivers it to, 0 when the descriptor is closed
\* (EBADF, which no caller looks at).
Write(to, kind, arg) == [to |-> to, at |-> owner[fd[to]], kind |-> kind, arg |-> arg]

Up == status = "up"
Crash == status' = "killed" /\ out' = {}
Stall == status' = "blocked" /\ out' = {}
Undefined == status' = "undefined" /\ out' = {}

\* All the writes of one handler: to other clients at once (Client_Send,
\* Client_TryEmptyBuffer), to the sender when the handler is done.  SIGPIPE
\* is not handled, so a write to a socket whose peer is gone may end the
\* process; the sockets are blocking, so a write to a peer that has stopped
\* reading may never return.  Of a process that has stopped nothing more is
\* observed: `out` forgets the writes it had made.
Emit(writes) ==
    \/ /\ status' = "up"
       /\ out' = {w \in writes : w.at # 0}
    \/ /\ \E w \in writes : w.at # 0 /\ conn[w.at] \in {"eof", "lost"}
       /\ Crash
    \/ /\ \E w \in writes : w.at # 0
       /\ Stall

\* A handler that only answers its own client.
Answer(c, kinds) ==
    /\ Emit({Write(c, k, None) : k \in kinds})
    /\ UNCHANGED registry

-----------------------------------------------------------------------------
(* Accepting a connection: Server_HandleReadEvent.                         *)

\* accept(2) returns the lowest descriptor that is free.
IsNextFd(f) == owner[f] = 0 /\ \A g \in Fds : owner[g] = 0 => f <= g

\* Faulty variant: an id is skipped.
NextIdTwice(id) == id + 2
\* server_generate_id: idCounter after the id has been handed out.
NextId(id) == id + 1

\* Faulty variant: only Client_TryRegister enters a client.
ClientsNotYet(id) == clients
\* server_s.clients once the connection is accepted.
ClientsAfterAccept(id) == clients \cup {id}

\* The lines up to reactor_register_handler; `state` is what that leaves.
Enter(id, f, state) ==
    /\ idCounter' = NextId(id)
    /\ nUnknown' = nUnknown + 1
    /\ clients' = ClientsAfterAccept(id)
    /\ fd' = [fd EXCEPT ![id] = f]
    /\ owner' = [owner EXCEPT ![f] = id]
    /\ conn' = [conn EXCEPT ![id] = state]
    /\ out' = {}
    /\ UNCHANGED <<status, identity, nUsers>>

Accept(f) ==
    /\ Up /\ idCounter <= MaxClients /\ IsNextFd(f)
    /\ Enter(idCounter, f, "open")

\* epoll_ctl fails: `goto error` frees the client_s and undoes nothing else.
AcceptUnregistered(f) ==
    /\ Up /\ idCounter <= MaxClients /\ IsNextFd(f)
    /\ Enter(idCounter, f, "lost")

\* accept(2) fails: only the fresh client_s is freed.
AcceptFailed ==
    /\ Up
    /\ out' = {}
    /\ UNCHANGED <<status, registry>>

-----------------------------------------------------------------------------
(* Client_HandleRead: what ends a connection.                              *)

\* The peer closes its socket (environment).
PeerClose(c) ==
    /\ Up /\ conn[c] = "open"
    /\ conn' = [conn EXCEPT ![c] = "eof"]
    /\ out' = {}
    /\ UNCHANGED <<status, idCounter, clients, fd, owner, identity, counters>>

\* Faulty variants: an unregistered client is never hung up; a client that
\* was hung up is hung up again.
AtEofRegistered(c) == conn[c] = "eof" /\ registered[c]
AtEofAgain(c) == conn[c] \in {"eof", "closed"}
\* read(2) returns 0.
AtEof(c) == conn[c] = "eof"

\* Faulty variant: the descriptor is not closed.
KeepFd(c) == owner
\* close(conn->fd).
CloseFd(c) == [owner EXCEPT ![fd[c]] = 0]

\* Faulty variant: `registered` is not looked at.
CountersAllUsers(c) == nUsers' = nUsers - 1 /\ UNCHANGED nUnknown
CountersAfterClose(c) ==
    /\ nUsers' = IF registered[c] THEN nUsers - 1 ELSE nUsers
    /\ nUnknown' = IF registered[c] THEN nUnknown ELSE nUnknown - 1

\* The end of a connection.  The client_s stays in `clients` and its nickname in
\* `nicks`; the descriptor number stays in the client_s.
HandleClose(c) ==
    /\ Up /\ AtEof(c)
    /\ conn' = [conn EXCEPT ![c] = "closed"]
    /\ owner' = CloseFd(c)
    /\ CountersAfterClose(c)
    /\ out' = {}
    /\ UNCHANGED <<status, idCounter, clients, fd, identity>>

\* read(2) returned -1: Client_HandleRead returns at once and
\* Client_HandleReadEvent logs it.
HandleReadError(c) ==
    /\ Up /\ c \in Served
    /\ out' = {}
    /\ UNCHANGED <<status, registry>>

-----------------------------------------------------------------------------
(* Registration: NICK and USER.                                            *)

\* Faulty variant: USER alone registers.
CompletesWithoutNick(c, gotNick, gotUser) == ~registered[c] /\ gotUser
Completes(c, gotNick, gotUser) == ~registered[c] /\ gotUser /\ gotNick

\* gotNick, gotUser: the flags as the handler has just left them.
Client_TryRegister(c, gotNick, gotUser) ==
    IF Completes(c, gotNick, gotUser)
    THEN /\ clients' = clients \cup {c}
         /\ registered' = [registered EXCEPT ![c] = TRUE]
         /\ nUnknown' = nUnknown - 1
         /\ nUsers' = nUsers + 1
         /\ Emit({Write(c, "001", None)})
    ELSE /\ UNCHANGED <<clients, registered, counters>>
         /\ Emit({})

\* g_hash_table_contains(nicks, nick): the owner is not looked at.
NickTaken(n) == n \in Nicks /\ nicks[n] # 0

\* Faulty variant: the old entry stays.
NicksKeepOld(c, n) == [nicks EXCEPT ![n] = c]
\* The table once c's old entry is removed and the new one inserted.
NicksAfterChange(c, n) ==
    [m \in Nicks |->
        IF m = n THEN c
        ELSE IF receivedNick[c] /\ m = nickname[c] THEN 0
        ELSE nicks[m]]

\* The successful branch of Client_TryChangeNick, then Client_TryRegister.
ChangeNick(c, n) ==
    /\ nicks' = NicksAfterChange(c, n)
    /\ nickname' = [nickname EXCEPT ![c] = n]
    /\ receivedNick' = [receivedNick EXCEPT ![c] = TRUE]
    /\ Client_TryRegister(c, TRUE, receivedUser[c])
    /\ UNCHANGED <<idCounter, sockets, receivedUser>>

Handler_Nick(c, n) ==
    /\ Up /\ c \in Served
    /\ \/ NickTaken(n) /\ Emit({Write(c, "433", n)})
          /\ UNCHANGED registry
       \/ ~NickTaken(n) /\ ChangeNick(c, n)

\* NICK without a parameter.
Handler_NickMissing(c) == Up /\ c \in Served /\ Answer(c, {"431"})

\* NICK longer than nine characters: parse_err is ERR_ERRONEUSNICKNAME, which
\* the handler ignores.  The nick field is NULL (the hash of NULL faults) or
\* was set by an earlier message of the same read and points into the text of
\* this one: at a string too long for client_s.nickname (the copy overruns
\* it), or at one that fits, which is then the action Handler_Nick.
Handler_NickErroneous(c) ==
    /\ Up /\ c \in Served
    /\ Crash \/ Undefined
    /\ UNCHANGED registry

Handler_User(c) ==
    /\ Up /\ c \in Served
    /\ \/ registered[c] /\ Answer(c, {"462"})
       \/ /\ ~registered[c]
          /\ receivedUser' = [receivedUser EXCEPT ![c] = TRUE]
          /\ Client_TryRegister(c, receivedNick[c], TRUE)
          /\ UNCHANGED <<idCounter, sockets, nicks, nickname, receivedNick>>

\* USER with too few parameters.
Handler_UserMissing(c) == Up /\ c \in Served /\ Answer(c, {"461"})

-----------------------------------------------------------------------------
(* The other handlers that leave the channels alone.                       *)

\* A client_s pointer taken from `clients` that is NULL or dangling.
BadClient(id) == id \notin clients \/ conn[id] = "lost"

\* `n` is None for a mask that is no nickname.
Handler_WhoIs(c, n) ==
    /\ Up /\ c \in Served
    /\ IF NickTaken(n) /\ BadClient(nicks[n])
       THEN /\ Undefined
            /\ UNCHANGED registry
       ELSE Answer(c, IF NickTaken(n) THEN {"311", "312", "318"} ELSE {"401"})

\* nOperators and nChannels are never incremented.
Handler_LUsers(c) ==
    /\ Up /\ c \in Served
    /\ Answer(c, {"251", "255"} \cup (IF nUnknown # 0 THEN {"253"} ELSE {}))

\* `present`: server->motd, read once at the start, is not NULL.
Handler_Motd(c, present) ==
    /\ Up /\ c \in Served
    /\ Answer(c, IF present THEN {"375", "372", "376"} ELSE {"422"})

Handler_Ping(c) == Up /\ c \in Served /\ Answer(c, {"PONG"})
Handler_Unknown(c) == Up /\ c \in Served /\ Answer(c, {"421"})

\* PONG, WHOIS without a mask, and a line parse_message rejects (-1).
Ignored(c) == Up /\ c \in Served /\ Answer(c, {})

-----------------------------------------------------------------------------
ClientsInit ==
    /\ status = "up"
    /\ idCounter = 1
    /\ clients = {}
    /\ conn = [c \in Ids |-> "none"]
    /\ fd = [c \in Ids |-> 0]
    /\ owner = [f \in Fds |-> 0]
    /\ nicks = [n \in Nicks |-> 0]
    /\ nickname = [c \in Ids |-> None]
    /\ receivedNick = [c \in Ids |-> FALSE]
    /\ receivedUser = [c \in Ids |-> FALSE]
    /\ registered = [c \in Ids |-> FALSE]
    /\ nUsers = 0
    /\ nUnknown = 0
    /\ out = {}

ConnectionStep ==
    \/ \E f \in Fds : Accept(f) \/ AcceptUnregistered(f)
    \/ AcceptFailed
    \/ \E c \in Ids : PeerClose(c) \/ HandleClose(c) \/ HandleReadError(c)

MessageStep(c) ==
    \/ \E n \in Nicks : Handler_Nick(c, n)
    \/ \E n \in Nicks \cup {None} : Handler_WhoIs(c, n)
    \/ Handler_NickMissing(c) \/ Handler_NickErroneous(c)
    \/ Handler_User(c) \/ Handler_UserMissing(c)
    \/ \E present \in BOOLEAN : Handler_Motd(c, present)
    \/ Handler_LUsers(c) \/ Handler_Ping(c) \/ Handler_Unknown(c) \/ Ignored(c)

ClientsNext == ConnectionStep \/ \E c \in Ids : MessageStep(c)

ClientsSpec == ClientsInit /\ [][ClientsNext]_clientVars

(***************************************************************************)
(* epoll is level-triggered and the loop never stops waiting, so an end of *)
(* file that stays unread is reported until it is read.                    *)
(***************************************************************************)
ClientsFairSpec == ClientsSpec /\ \A c \in Ids : WF_clientVars(HandleClose(c))

-----------------------------------------------------------------------------
(* Properties.                                                             *)

\* The tables, flags and counters keep their types.
ClientsTypeOK ==
    /\ status \in {"up", "killed", "blocked", "undefined"}
    /\ idCounter \in 1..(MaxClients + 1)
    /\ clients \subseteq Ids
    /\ conn \in [Ids -> {"none", "open", "eof", "closed", "lost"}]
    /\ fd \in [Ids -> Fds \cup {0}]
    /\ owner \in [Fds -> Ids \cup {0}]
    /\ nicks \in [Nicks -> Ids \cup {0}]
    /\ nickname \in [Ids -> Nicks \cup {None}]
    /\ receivedNick \in [Ids -> BOOLEAN]
    /\ receivedUser \in [Ids -> BOOLEAN]
    /\ registered \in [Ids -> BOOLEAN]
    /\ nUsers \in Int
    /\ nUnknown \in Int

\* server_s.nicks and the nicknames of the client_s records are the same
\* relation, through any sequence of NICK changes, refusals and disconnects
\* (Client_TryChangeNick): a nickname has one owner and a client one entry.
NickTableAgrees ==
    \A n \in Nicks, c \in Ids :
        nicks[n] = c <=> receivedNick[c] /\ nickname[c] = n

\* A nickname never leads PRIVMSG or WHOIS to a client id that `clients` does
\* not hold, or whose client_s was freed by a failed registration with epoll:
\* both would be dereferenced unchecked (Handler_Privmsg, Handler_WhoIs).
NicksResolve == \A n \in Nicks : nicks[n] # 0 => ~BadClient(nicks[n])

\* `registered` is set exactly when both NICK and USER have been accepted, in
\* either order, even when a NICK was refused in between (Client_TryRegister).
\* That RPL_WELCOME goes out once, in that step, is part of ImplementsDirectory.
RegisteredIff ==
    \A c \in Ids : registered[c] <=> receivedNick[c] /\ receivedUser[c]

\* The connections the two counters stand for.
Users == {c \in Connected : registered[c]}
Unknown == {c \in Connected : ~registered[c]} \cup {c \in Ids : conn[c] = "lost"}

\* The LUSERS counters are the numbers of live connections with and without
\* registration; a connection epoll refused stays counted as unknown for
\* ever.  Being cardinalities they never wrap below zero (uint32_t).
CountersAgree ==
    /\ nUsers = Cardinality(Users)
    /\ nUnknown = Cardinality(Unknown)

\* Between accept(2) and close(2) a connection owns its descriptor: no two
\* live connections share one, and an end of file gives it back.  A connection
\* epoll refused ("lost") is never closed and holds its descriptor for ever.
FdOwnership ==
    /\ \A c \in Ids : conn[c] \in {"open", "eof", "lost"} =>
           fd[c] \in Fds /\ owner[fd[c]] = c
    /\ \A f \in Fds : owner[f] # 0 =>
           conn[owner[f]] \in {"open", "eof", "lost"} /\ fd[owner[f]] = f

\* A nickname leaves the table only when its owner, still connected, takes
\* another one: no NICK of somebody else removes or takes it over, and the
\* nickname of a client that has disconnected is never released.
NickStep ==
    \A n \in Nicks : nicks[n] # 0 /\ nicks'[n] # nicks[n] =>
        /\ nicks'[n] = 0
        /\ nicks[n] \in Connected
        /\ \E m \in Nicks : nicks[m] = 0 /\ nicks'[m] = nicks[n]

NickHandover == [][NickStep]_clientVars

\* An end of file is eventually read and its descriptor closed, unless the
\* process dies or blocks in a write: neither the messages of other clients
\* nor new connections put it off for ever (Client_HandleRead).
EofIsClosed == \A c \in Ids : conn[c] = "eof" ~> (conn[c] = "closed" \/ ~Up)

\* What Directory calls the phase of a client.
Phase ==
    [c \in Ids |->
        CASE conn[c] = "none" -> "absent"
          [] conn[c] = "closed" -> "gone"
          [] OTHER -> IF registered[c] THEN "member" ELSE "guest"]

Registry == INSTANCE Directory WITH phase <- Phase, holder <- nicks

\* The handlers implement the abstract directory: whatever the order of NICK,
\* USER, accepts and disconnects, a client is welcomed once and only with a
\* nickname, takes only free nicknames, gives up its own one when it does, and
\* nothing else moves a nickname or brings back a client that has left.
ImplementsDirectory == Registry!Spec
=============================================================================
