--------------------------- MODULE ClientsProofs ---------------------------
(* Proofs about module Clients, for any number of clients. *)
EXTENDS Clients, FiniteSetTheorems, TLAPS

\* Ids are handed out in order, `clients` holds those handed out, each of
\* them was given a descriptor, and nothing was received from a client that
\* has not been served yet or never was.  Who has sent NICK has a nickname.
IdsInOrder ==
    /\ \A c \in Ids : conn[c] = "none" <=> c >= idCounter
    /\ \A c \in Ids : c \in clients <=> conn[c] # "none"
    /\ \A c \in Ids : conn[c] # "none" => fd[c] \in Fds
    /\ \A c \in Ids : conn[c] \in {"none", "lost"} =>
           ~receivedNick[c] /\ ~receivedUser[c] /\ ~registered[c]
    /\ \A c \in Ids : receivedNick[c] => nickname[c] \in Nicks

\* The inductive invariant.
ClientsInv ==
    /\ ClientsTypeOK
    /\ IdsInOrder
    /\ NickTableAgrees
    /\ RegisteredIff
    /\ FdOwnership
    /\ CountersAgree

USE MaxClientsAssumption, FdsAssumption, NicksAssumption
    DEF Ids, Served, NextId, ClientsAfterAccept, AtEof, CloseFd, Completes

-----------------------------------------------------------------------------
\* The sets counted by LUSERS are finite.
LEMMA CountedAreFinite == IsFiniteSet(Users) /\ IsFiniteSet(Unknown)
<1>1. IsFiniteSet(Ids)
  BY FS_Interval
<1>2. Users \subseteq Ids /\ Unknown \subseteq Ids
  BY DEF Users, Unknown, Connected
<1>. QED
  BY <1>1, <1>2, FS_Subset

\* Start of the server: nobody is counted.
LEMMA InitEstablishes == ClientsInit => ClientsInv
<1>. SUFFICES ASSUME ClientsInit PROVE ClientsInv
  OBVIOUS
<1>1. ClientsTypeOK
  BY DEF ClientsInit, ClientsTypeOK
<1>2. IdsInOrder /\ NickTableAgrees /\ RegisteredIff /\ FdOwnership
  BY DEF ClientsInit, IdsInOrder, NickTableAgrees, RegisteredIff, FdOwnership
<1>3. Users = {} /\ Unknown = {}
  BY DEF ClientsInit, Users, Unknown, Connected
<1>4. CountersAgree
  BY <1>3, FS_EmptySet DEF CountersAgree, ClientsInit
<1>. QED
  BY <1>1, <1>2, <1>4 DEF ClientsInv

\* A step that only writes to sockets or stops the process.
LEMMA WritesPreserve ==
    ASSUME ClientsInv, UNCHANGED registry,
           status' \in {"up", "killed", "blocked", "undefined"}
    PROVE  ClientsInv'
BY DEF ClientsInv, registry, sockets, identity, counters, ClientsTypeOK,
       IdsInOrder, NickTableAgrees, RegisteredIff, FdOwnership, CountersAgree,
       Users, Unknown, Connected

\* A new connection, whether or not epoll accepts it.
LEMMA EnterPreserves ==
    ASSUME ClientsInv, NEW f \in Fds, NEW state \in {"open", "lost"},
           idCounter <= MaxClients, IsNextFd(f), Enter(idCounter, f, state)
    PROVE  ClientsInv'
<1>. USE DEF ClientsInv
<1>1. idCounter \in Ids /\ conn[idCounter] = "none"
  BY DEF ClientsTypeOK, IdsInOrder
<1>2. ClientsTypeOK'
  BY <1>1 DEF ClientsTypeOK, Enter, identity
<1>3. IdsInOrder'
  BY <1>1 DEF ClientsTypeOK, IdsInOrder, Enter, identity
<1>4. NickTableAgrees' /\ RegisteredIff'
  BY DEF NickTableAgrees, RegisteredIff, Enter, identity
<1>5. FdOwnership'
  BY <1>1 DEF FdOwnership, ClientsTypeOK, Enter, IsNextFd, IdsInOrder
<1>6. Users' = Users
  BY <1>1 DEF Users, Connected, Enter, identity, ClientsTypeOK, IdsInOrder
<1>7. Unknown' = Unknown \cup {idCounter} /\ idCounter \notin Unknown
  BY <1>1 DEF Unknown, Connected, Enter, identity, ClientsTypeOK, IdsInOrder
<1>8. CountersAgree'
  BY <1>6, <1>7, CountedAreFinite, FS_AddElement DEF CountersAgree, Enter
<1>. QED
  BY <1>2, <1>3, <1>4, <1>5, <1>8

\* The peer of an open connection goes away.
LEMMA PeerClosePreserves ==
    ASSUME ClientsInv, NEW c \in Ids, PeerClose(c)
    PROVE  ClientsInv'
<1>. USE DEF ClientsInv, PeerClose
<1>1. ClientsTypeOK' /\ IdsInOrder' /\ NickTableAgrees' /\ RegisteredIff'
  BY DEF ClientsTypeOK, IdsInOrder, NickTableAgrees, RegisteredIff, identity, counters
<1>2. FdOwnership'
  BY DEF FdOwnership, ClientsTypeOK
<1>3. Users' = Users /\ Unknown' = Unknown
  BY DEF Users, Unknown, Connected, ClientsTypeOK, identity
<1>. QED
  BY <1>1, <1>2, <1>3 DEF CountersAgree, counters

\* The end of a connection: its counter loses it and its descriptor is free.
LEMMA HandleClosePreserves ==
    ASSUME ClientsInv, NEW c \in Ids, HandleClose(c)
    PROVE  ClientsInv'
<1>. USE DEF ClientsInv, HandleClose
<1>1. ClientsTypeOK'
  <2>1. nUsers' \in Int /\ nUnknown' \in Int
    BY DEF ClientsTypeOK, CountersAfterClose
  <2>2. owner' \in [Fds -> Ids \cup {0}] /\ conn' \in [Ids -> {"none", "open", "eof", "closed", "lost"}]
    BY DEF ClientsTypeOK
  <2>. QED
    BY <2>1, <2>2 DEF ClientsTypeOK, identity
<1>2. IdsInOrder' /\ NickTableAgrees' /\ RegisteredIff'
  BY DEF ClientsTypeOK, IdsInOrder, NickTableAgrees, RegisteredIff, identity
<1>3. FdOwnership'
  BY DEF FdOwnership, ClientsTypeOK
<1>4. CASE registered[c]
  <2>1. Users' = Users \ {c} /\ c \in Users /\ Unknown' = Unknown
    BY <1>4 DEF Users, Unknown, Connected, ClientsTypeOK, identity
  <2>2. CountersAgree'
    BY <1>4, <2>1, CountedAreFinite, FS_RemoveElement
       DEF CountersAgree, CountersAfterClose
  <2>. QED
    BY <1>1, <1>2, <1>3, <2>2
<1>5. CASE ~registered[c]
  <2>1. Unknown' = Unknown \ {c} /\ c \in Unknown /\ Users' = Users
    BY <1>5 DEF Users, Unknown, Connected, ClientsTypeOK, identity
  <2>2. CountersAgree'
    BY <1>5, <2>1, CountedAreFinite, FS_RemoveElement
       DEF CountersAgree, CountersAfterClose
  <2>. QED
    BY <1>1, <1>2, <1>3, <2>2
<1>. QED
  BY <1>4, <1>5

-----------------------------------------------------------------------------
(* Registration. *)

\* Whatever a handler writes, the process is up or was killed by SIGPIPE.
LEMMA EmitStatus ==
    ASSUME NEW writes, Emit(writes)
    PROVE  status' \in {"up", "killed", "blocked", "undefined"}
BY DEF Emit, Crash, Stall

\* Client_TryRegister moves its client from one counter to the other.
LEMMA TryRegisterCounts ==
    ASSUME ClientsInv, NEW c \in Connected, UNCHANGED sockets,
           NEW gotNick, NEW gotUser,
           Client_TryRegister(c, gotNick, gotUser)
    PROVE  /\ CountersAgree'
           /\ nUsers' \in Int /\ nUnknown' \in Int
           /\ clients' = clients
           /\ registered' = IF ~registered[c] /\ gotUser /\ gotNick
                            THEN [registered EXCEPT ![c] = TRUE] ELSE registered
           /\ status' \in {"up", "killed", "blocked", "undefined"}
<1>. USE DEF ClientsInv
<1>1. c \in Ids /\ conn[c] \in {"open", "eof"} /\ c \in clients
  BY DEF Connected, IdsInOrder
<1>2. CASE ~registered[c] /\ gotUser /\ gotNick
  <2>1. Users' = Users \cup {c} /\ c \notin Users
    BY <1>1, <1>2 DEF Client_TryRegister, Users, Connected, ClientsTypeOK, sockets
  <2>2. Unknown' = Unknown \ {c} /\ c \in Unknown
    BY <1>1, <1>2 DEF Client_TryRegister, Unknown, Connected, ClientsTypeOK, sockets
  <2>3. nUnknown' = nUnknown - 1 /\ nUsers' = nUsers + 1
    BY <1>2 DEF Client_TryRegister
  <2>4. CountersAgree'
    BY <2>1, <2>2, <2>3, CountedAreFinite, FS_AddElement, FS_RemoveElement
       DEF CountersAgree
  <2>5. clients' = clients /\ registered' = [registered EXCEPT ![c] = TRUE]
    <3>1. clients' = clients \cup {c} /\ registered' = [registered EXCEPT ![c] = TRUE]
      BY <1>2 DEF Client_TryRegister
    <3>. QED
      BY <1>1, <3>1
  <2>6. nUsers' \in Int /\ nUnknown' \in Int
    BY <2>3 DEF ClientsTypeOK
  <2>7. status' \in {"up", "killed", "blocked", "undefined"}
    BY <1>2, EmitStatus DEF Client_TryRegister
  <2>. QED
    BY <1>2, <2>4, <2>5, <2>6, <2>7
<1>3. CASE ~(~registered[c] /\ gotUser /\ gotNick)
  <2>1. UNCHANGED <<clients, registered, counters>>
    BY <1>3 DEF Client_TryRegister
  <2>2. Users' = Users /\ Unknown' = Unknown
    BY <2>1 DEF Users, Unknown, Connected, sockets
  <2>3. CountersAgree' /\ nUsers' \in Int /\ nUnknown' \in Int
    BY <2>1, <2>2 DEF CountersAgree, counters, ClientsTypeOK
  <2>5. status' \in {"up", "killed", "blocked", "undefined"}
    BY <1>3, EmitStatus DEF Client_TryRegister
  <2>. QED
    BY <1>3, <2>1, <2>3, <2>5
<1>. QED
  BY <1>2, <1>3

\* A NICK that is granted: the table loses the client's old entry and gains
\* the new one, and nobody else's entry moves.
LEMMA ChangeNickPreserves ==
    ASSUME ClientsInv, NEW c \in Connected, NEW n \in Nicks,
           ~NickTaken(n), ChangeNick(c, n)
    PROVE  ClientsInv'
<1>. USE DEF ClientsInv
<1>1. c \in Ids /\ conn[c] \in {"open", "eof"}
  BY DEF Connected
<1>2. /\ nicks' = NicksAfterChange(c, n)
      /\ nickname' = [nickname EXCEPT ![c] = n]
      /\ receivedNick' = [receivedNick EXCEPT ![c] = TRUE]
      /\ UNCHANGED <<idCounter, sockets, receivedUser>>
      /\ Client_TryRegister(c, TRUE, receivedUser[c])
  BY DEF ChangeNick
<1>3. /\ CountersAgree'
      /\ nUsers' \in Int /\ nUnknown' \in Int
      /\ clients' = clients
      /\ registered' = IF ~registered[c] /\ receivedUser[c] /\ TRUE
                       THEN [registered EXCEPT ![c] = TRUE] ELSE registered
      /\ status' \in {"up", "killed", "blocked", "undefined"}
  BY <1>2, TryRegisterCounts
<1>4. ClientsTypeOK'
  <2>1. nicks' \in [Nicks -> Ids \cup {0}]
    BY <1>1, <1>2 DEF NicksAfterChange, ClientsTypeOK
  <2>2. registered' \in [Ids -> BOOLEAN]
    BY <1>1, <1>3 DEF ClientsTypeOK
  <2>3. nickname' \in [Ids -> Nicks \cup {None}] /\ receivedNick' \in [Ids -> BOOLEAN]
    BY <1>1, <1>2 DEF ClientsTypeOK
  <2>. QED
    BY <1>2, <1>3, <2>1, <2>2, <2>3 DEF ClientsTypeOK, sockets
<1>5. IdsInOrder'
  BY <1>1, <1>2, <1>3 DEF IdsInOrder, ClientsTypeOK, sockets
<1>6. NickTableAgrees'
  <2>. SUFFICES ASSUME NEW m \in Nicks, NEW d \in Ids
               PROVE  nicks'[m] = d <=> receivedNick'[d] /\ nickname'[d] = m
    BY DEF NickTableAgrees
  <2>1. nicks[m] = d <=> receivedNick[d] /\ nickname[d] = m
    BY DEF NickTableAgrees
  <2>2. nicks[m] = c <=> receivedNick[c] /\ nickname[c] = m
    BY <1>1 DEF NickTableAgrees
  <2>3. nicks[n] = 0
    BY DEF NickTaken
  <2>4. CASE d = c
    <3>1. receivedNick'[d] /\ nickname'[d] = n
      BY <1>1, <1>2, <2>4 DEF ClientsTypeOK
    <3>2. nicks'[m] = c <=> m = n
      BY <1>1, <1>2, <2>2 DEF NicksAfterChange
    <3>. QED
      BY <2>4, <3>1, <3>2
  <2>5. CASE d # c
    <3>1. receivedNick'[d] = receivedNick[d] /\ nickname'[d] = nickname[d]
      BY <1>2, <2>5 DEF ClientsTypeOK
    <3>2. CASE m = n
      <4>1. nicks'[m] = c
        BY <1>2, <3>2 DEF NicksAfterChange
      <4>2. ~(receivedNick[d] /\ nickname[d] = m)
        BY <2>1, <2>3, <3>2
      <4>. QED
        BY <2>5, <3>1, <4>1, <4>2
    <3>3. CASE m # n
      <4>1. nicks'[m] = IF nicks[m] = c THEN 0 ELSE nicks[m]
        BY <1>2, <2>2, <3>3 DEF NicksAfterChange
      <4>. QED
        BY <2>1, <2>5, <3>1, <4>1
    <3>. QED
      BY <3>2, <3>3
  <2>. QED
    BY <2>4, <2>5
<1>7. RegisteredIff'
  BY <1>1, <1>2, <1>3 DEF RegisteredIff, ClientsTypeOK
<1>8. FdOwnership'
  BY <1>2 DEF FdOwnership, sockets
<1>. QED
  BY <1>3, <1>4, <1>5, <1>6, <1>7, <1>8

\* NICK, granted or refused.
LEMMA NickPreserves ==
    ASSUME ClientsInv, NEW c \in Ids, NEW n \in Nicks, Handler_Nick(c, n)
    PROVE  ClientsInv'
<1>1. CASE NickTaken(n)
  <2>1. UNCHANGED registry /\ status' \in {"up", "killed", "blocked", "undefined"}
    BY <1>1, EmitStatus DEF Handler_Nick, registry
  <2>. QED
    BY <2>1, WritesPreserve
<1>2. CASE ~NickTaken(n)
  BY <1>2, ChangeNickPreserves DEF Handler_Nick
<1>. QED
  BY <1>1, <1>2

\* USER, which may complete a registration.
LEMMA UserPreserves ==
    ASSUME ClientsInv, NEW c \in Ids, Handler_User(c)
    PROVE  ClientsInv'
<1>. USE DEF ClientsInv
<1>1. CASE registered[c]
  <2>1. UNCHANGED registry /\ status' \in {"up", "killed", "blocked", "undefined"}
    BY <1>1, EmitStatus DEF Handler_User, Answer, registry
  <2>. QED
    BY <2>1, WritesPreserve
<1>2. CASE ~registered[c]
  <2>1. c \in Connected /\ conn[c] \in {"open", "eof"}
    BY DEF Handler_User, Connected
  <2>2. /\ receivedUser' = [receivedUser EXCEPT ![c] = TRUE]
        /\ UNCHANGED <<idCounter, sockets, nicks, nickname, receivedNick>>
        /\ Client_TryRegister(c, receivedNick[c], TRUE)
    BY <1>2 DEF Handler_User
  <2>3. /\ CountersAgree'
        /\ nUsers' \in Int /\ nUnknown' \in Int
        /\ clients' = clients
        /\ registered' = IF ~registered[c] /\ TRUE /\ receivedNick[c]
                         THEN [registered EXCEPT ![c] = TRUE] ELSE registered
        /\ status' \in {"up", "killed", "blocked", "undefined"}
    BY <2>1, <2>2, TryRegisterCounts
  <2>4. ClientsTypeOK'
    <3>1. registered' \in [Ids -> BOOLEAN] /\ receivedUser' \in [Ids -> BOOLEAN]
      BY <2>2, <2>3 DEF ClientsTypeOK
    <3>. QED
      BY <2>2, <2>3, <3>1 DEF ClientsTypeOK, sockets
  <2>5. IdsInOrder'
    BY <2>1, <2>2, <2>3 DEF IdsInOrder, ClientsTypeOK, sockets
  <2>6. NickTableAgrees' /\ FdOwnership'
    BY <2>2 DEF NickTableAgrees, FdOwnership, sockets
  <2>7. RegisteredIff'
    BY <1>2, <2>2, <2>3 DEF RegisteredIff, ClientsTypeOK
  <2>. QED
    BY <2>3, <2>4, <2>5, <2>6, <2>7
<1>. QED
  BY <1>1, <1>2

\* Every other handler leaves the registry alone.
LEMMA OtherMessagesWrite ==
    ASSUME NEW c \in Ids, MessageStep(c),
           \A n \in Nicks : ~Handler_Nick(c, n), ~Handler_User(c)
    PROVE  UNCHANGED registry /\ status' \in {"up", "killed", "blocked", "undefined"}
<1>1. ASSUME NEW n \in Nicks \cup {None}, Handler_WhoIs(c, n)
      PROVE  UNCHANGED registry /\ status' \in {"up", "killed", "blocked", "undefined"}
  BY <1>1, EmitStatus DEF Handler_WhoIs, Answer, Undefined, registry
<1>2. CASE Handler_NickErroneous(c)
  BY <1>2 DEF Handler_NickErroneous, Crash, Undefined, registry
<1>3. CASE \/ Handler_NickMissing(c) \/ Handler_UserMissing(c) \/ Handler_LUsers(c)
           \/ Handler_Ping(c) \/ Handler_Unknown(c) \/ Ignored(c)
           \/ \E present \in BOOLEAN : Handler_Motd(c, present)
  <2>1. PICK kinds : Answer(c, kinds)
    BY <1>3 DEF Handler_NickMissing, Handler_UserMissing, Handler_LUsers,
                Handler_Ping, Handler_Unknown, Ignored, Handler_Motd
  <2>. QED
    BY <2>1, EmitStatus DEF Answer, registry
<1>. QED
  BY <1>1, <1>2, <1>3 DEF MessageStep

-----------------------------------------------------------------------------
\* Every step of the connections preserves the invariant.
LEMMA ClientsStepPreserves ==
    ASSUME ClientsInv, ClientsNext
    PROVE  ClientsInv'
<1>1. ASSUME NEW f \in Fds, Accept(f) \/ AcceptUnregistered(f)
      PROVE  ClientsInv'
  BY <1>1, EnterPreserves DEF Accept, AcceptUnregistered
<1>2. ASSUME NEW c \in Ids, PeerClose(c) \/ HandleClose(c)
      PROVE  ClientsInv'
  BY <1>2, PeerClosePreserves, HandleClosePreserves
<1>3. CASE AcceptFailed \/ \E c \in Ids : HandleReadError(c)
  <2>1. UNCHANGED registry /\ status' \in {"up", "killed", "blocked", "undefined"}
    BY <1>3 DEF AcceptFailed, HandleReadError, registry, Up
  <2>. QED
    BY <2>1, WritesPreserve
<1>4. ASSUME NEW c \in Ids, MessageStep(c)
      PROVE  ClientsInv'
  <2>1. CASE \E n \in Nicks : Handler_Nick(c, n)
    BY <2>1, NickPreserves
  <2>2. CASE Handler_User(c)
    BY <2>2, UserPreserves
  <2>3. CASE (\A n \in Nicks : ~Handler_Nick(c, n)) /\ ~Handler_User(c)
    BY <1>4, <2>3, OtherMessagesWrite, WritesPreserve
  <2>. QED
    BY <2>1, <2>2, <2>3
<1>. QED
  BY <1>1, <1>2, <1>3, <1>4 DEF ClientsNext, ConnectionStep

\* A step of some other part of the system.
LEMMA ClientsStutter == ClientsInv /\ UNCHANGED clientVars => ClientsInv'
<1>. SUFFICES ASSUME ClientsInv, UNCHANGED clientVars PROVE ClientsInv'
  OBVIOUS
<1>1. UNCHANGED registry /\ status' \in {"up", "killed", "blocked", "undefined"}
  BY DEF clientVars, registry, ClientsInv, ClientsTypeOK
<1>. QED
  BY <1>1, WritesPreserve

\* The inductive invariant holds in every reachable state.
THEOREM ClientsInvariant == ClientsSpec => []ClientsInv
<1>1. ClientsInv /\ [ClientsNext]_clientVars => ClientsInv'
  BY ClientsStepPreserves, ClientsStutter
<1>. QED
  BY <1>1, InitEstablishes, PTL DEF ClientsSpec

\* Nicknames lead to clients that exist: PRIVMSG and WHOIS never follow a
\* NULL or freed client_s.
LEMMA InvResolves == ClientsInv => NicksResolve
BY DEF ClientsInv, ClientsTypeOK, IdsInOrder, NickTableAgrees, NicksResolve, BadClient

\* The state keeps its types, for any number of clients and descriptors.
THEOREM TypesSafe == ClientsSpec => []ClientsTypeOK
BY ClientsInvariant, PTL DEF ClientsInv

\* Nicknames and clients are one relation after any NICKs and disconnects.
THEOREM NickTableSafe == ClientsSpec => []NickTableAgrees
BY ClientsInvariant, PTL DEF ClientsInv

\* PRIVMSG and WHOIS never follow a NULL or freed client_s pointer.
THEOREM NickLookupSafe == ClientsSpec => []NicksResolve
BY ClientsInvariant, InvResolves, PTL

\* A client is registered exactly when NICK and USER have been accepted.
THEOREM RegistrationSafe == ClientsSpec => []RegisteredIff
BY ClientsInvariant, PTL DEF ClientsInv

\* The LUSERS counters are cardinalities, so they never wrap.
THEOREM CountersSafe == ClientsSpec => []CountersAgree
BY ClientsInvariant, PTL DEF ClientsInv

\* Live connections have descriptors of their own.
THEOREM DescriptorsSafe == ClientsSpec => []FdOwnership
BY ClientsInvariant, PTL DEF ClientsInv

-----------------------------------------------------------------------------
\* A granted NICK frees at most the sender's own old entry.
LEMMA ChangeNickStep ==
    ASSUME ClientsInv, NEW c \in Connected, NEW n \in Nicks,
           ~NickTaken(n), ChangeNick(c, n)
    PROVE  NickStep
<1>. SUFFICES ASSUME NEW m \in Nicks, nicks[m] # 0, nicks'[m] # nicks[m]
             PROVE  /\ nicks'[m] = 0
                    /\ nicks[m] \in Connected
                    /\ \E k \in Nicks : nicks[k] = 0 /\ nicks'[k] = nicks[m]
  BY DEF NickStep
<1>1. nicks' = NicksAfterChange(c, n) /\ nicks[n] = 0 /\ c \in Ids
  BY DEF ChangeNick, NickTaken, Connected
<1>2. m # n
  BY <1>1
<1>3. receivedNick[c] /\ m = nickname[c] /\ nicks'[m] = 0
  BY <1>1, <1>2 DEF NicksAfterChange
<1>4. nicks[m] = c
  BY <1>1, <1>3 DEF ClientsInv, NickTableAgrees
<1>5. nicks'[n] = c
  BY <1>1 DEF NicksAfterChange
<1>. QED
  BY <1>1, <1>3, <1>4, <1>5

\* A step that does not touch server_s.nicks.
LEMMA NickUnchangedStep == UNCHANGED nicks => NickStep
BY DEF NickStep

\* Every other step leaves server_s.nicks alone.
LEMMA HandoverStep ==
    ASSUME ClientsInv, ClientsNext
    PROVE  NickStep
<1>1. CASE ConnectionStep
  BY <1>1, NickUnchangedStep
     DEF ConnectionStep, Accept, AcceptUnregistered, Enter, AcceptFailed,
         PeerClose, HandleClose, HandleReadError, identity, registry
<1>2. ASSUME NEW c \in Ids, MessageStep(c)
      PROVE  NickStep
  <2>1. ASSUME NEW n \in Nicks, Handler_Nick(c, n)
        PROVE  NickStep
    <3>1. CASE NickTaken(n)
      BY <2>1, <3>1, NickUnchangedStep DEF Handler_Nick, identity, registry
    <3>2. CASE ~NickTaken(n)
      BY <2>1, <3>2, ChangeNickStep DEF Handler_Nick
    <3>. QED
      BY <3>1, <3>2
  <2>2. CASE Handler_User(c)
    BY <2>2, NickUnchangedStep DEF Handler_User, Answer, identity, registry
  <2>3. CASE (\A n \in Nicks : ~Handler_Nick(c, n)) /\ ~Handler_User(c)
    BY <1>2, <2>3, OtherMessagesWrite, NickUnchangedStep DEF registry, identity
  <2>. QED
    BY <2>1, <2>2, <2>3
<1>. QED
  BY <1>1, <1>2 DEF ClientsNext

\* A nickname is never taken over and never released by a disconnect.
THEOREM NickHandoverSafe == ClientsSpec => NickHandover
<1>1. ClientsInv /\ [ClientsNext]_clientVars => [NickStep]_clientVars
  BY HandoverStep
<1>. QED
  BY <1>1, ClientsInvariant, PTL DEF ClientsSpec, NickHandover

-----------------------------------------------------------------------------
(* Clients implements Directory.                                           *)

\* A step that keeps the connections, the flag `registered` and the table.
LEMMA SilentStep ==
    ASSUME UNCHANGED <<conn, registered, nicks>>
    PROVE  UNCHANGED Registry!vars
BY DEF Registry!vars, Phase

\* A new connection is a new guest.
LEMMA ArriveStep ==
    ASSUME ClientsInv, NEW f \in Fds, NEW state \in {"open", "lost"},
           idCounter <= MaxClients, Enter(idCounter, f, state)
    PROVE  Registry!Arrive(idCounter)
<1>1. idCounter \in Ids /\ conn[idCounter] = "none" /\ ~registered[idCounter]
  BY DEF ClientsInv, ClientsTypeOK, IdsInOrder
<1>2. conn' = [conn EXCEPT ![idCounter] = state] /\ UNCHANGED <<registered, nicks>>
  BY DEF Enter, identity
<1>3. Phase' = [Phase EXCEPT ![idCounter] = "guest"]
  BY <1>1, <1>2 DEF Phase, ClientsInv, ClientsTypeOK
<1>. QED
  BY <1>1, <1>2, <1>3 DEF Registry!Arrive, Phase

\* A disconnect is a departure.
LEMMA DepartStep ==
    ASSUME ClientsInv, NEW c \in Ids, HandleClose(c)
    PROVE  Registry!Depart(c)
<1>1. conn[c] = "eof" /\ conn' = [conn EXCEPT ![c] = "closed"]
      /\ UNCHANGED <<registered, nicks>>
  BY DEF HandleClose, identity
<1>2. Phase' = [Phase EXCEPT ![c] = "gone"]
  BY <1>1 DEF Phase, ClientsInv, ClientsTypeOK
<1>. QED
  BY <1>1, <1>2 DEF Registry!Depart, Registry!Present, Phase

\* What Client_TryRegister does to the phase of its client.
LEMMA RegisterPhase ==
    ASSUME ClientsInv, NEW c \in Connected, NEW gotNick \in BOOLEAN,
           NEW gotUser \in BOOLEAN, Client_TryRegister(c, gotNick, gotUser),
           UNCHANGED conn
    PROVE  \/ UNCHANGED Phase /\ ~Completes(c, gotNick, gotUser)
           \/ /\ Phase[c] = "guest"
              /\ Phase' = [Phase EXCEPT ![c] = "member"]
              /\ Completes(c, gotNick, gotUser)
<1>1. c \in Ids /\ conn[c] \in {"open", "eof"}
  BY DEF Connected
<1>2. CASE Completes(c, gotNick, gotUser)
  <2>1. registered' = [registered EXCEPT ![c] = TRUE] /\ ~registered[c]
    BY <1>2 DEF Client_TryRegister
  <2>. QED
    BY <1>1, <1>2, <2>1 DEF Phase, ClientsInv, ClientsTypeOK
<1>3. CASE ~Completes(c, gotNick, gotUser)
  BY <1>3 DEF Client_TryRegister, Phase
<1>. QED
  BY <1>2, <1>3

\* A granted NICK claims the nickname, and welcomes if USER came before.
LEMMA ClaimStep ==
    ASSUME ClientsInv, NEW c \in Connected, NEW n \in Nicks,
           ~NickTaken(n), ChangeNick(c, n)
    PROVE  Registry!Claim(c, n)
<1>1. c \in Ids /\ nicks[n] = 0 /\ conn[c] \in {"open", "eof"}
  BY DEF Connected, NickTaken
<1>2. \A m \in Nicks : receivedNick[c] /\ m = nickname[c] <=> nicks[m] = c
  BY <1>1 DEF ClientsInv, NickTableAgrees
<1>3. nicks' = [m \in Nicks |-> IF m = n THEN c
                                ELSE IF nicks[m] = c THEN 0 ELSE nicks[m]]
  BY <1>2 DEF ChangeNick, NicksAfterChange
<1>4. Phase' \in {Phase, [Phase EXCEPT ![c] = "member"]}
  <2>1. receivedUser[c] \in BOOLEAN /\ UNCHANGED conn
        /\ Client_TryRegister(c, TRUE, receivedUser[c])
    BY <1>1 DEF ChangeNick, sockets, ClientsInv, ClientsTypeOK
  <2>. QED
    BY <2>1, RegisterPhase
<1>. QED
  BY <1>1, <1>3, <1>4 DEF Registry!Claim, Registry!Present, Phase

\* USER welcomes a client that has its nickname, or changes nothing that shows.
LEMMA WelcomeStep ==
    ASSUME ClientsInv, NEW c \in Connected, Handler_User(c)
    PROVE  Registry!Welcome(c) \/ UNCHANGED Registry!vars
<1>1. CASE registered[c]
  BY <1>1, SilentStep DEF Handler_User, Answer, registry, sockets, identity
<1>2. CASE ~registered[c]
  <2>1. /\ Client_TryRegister(c, receivedNick[c], TRUE)
        /\ UNCHANGED <<conn, nicks>> /\ c \in Ids
        /\ receivedNick[c] \in BOOLEAN
    BY <1>2 DEF Handler_User, sockets, Connected, ClientsInv, ClientsTypeOK
  <2>2. CASE UNCHANGED Phase
    BY <2>1, <2>2 DEF Registry!vars
  <2>3. CASE /\ Phase[c] = "guest" /\ Phase' = [Phase EXCEPT ![c] = "member"]
             /\ Completes(c, receivedNick[c], TRUE)
    <3>1. nickname[c] \in Nicks /\ nicks[nickname[c]] = c
      <4>1. receivedNick[c]
        BY <2>3
      <4>. QED
        BY <2>1, <4>1 DEF ClientsInv, NickTableAgrees, IdsInOrder, ClientsTypeOK
    <3>. QED
      BY <2>1, <2>3, <3>1 DEF Registry!Welcome, Registry!Holds
  <2>. QED
    BY <2>1, <2>2, <2>3, RegisterPhase
<1>. QED
  BY <1>1, <1>2

\* Every step of Clients is a step of Directory or leaves it alone.
LEMMA DirectoryStep ==
    ASSUME ClientsInv, ClientsNext
    PROVE  [Registry!Next]_Registry!vars
<1>1. CASE ConnectionStep
  <2>1. ASSUME NEW f \in Fds, Accept(f) \/ AcceptUnregistered(f)
        PROVE  Registry!Next
    <3>1. idCounter \in Ids
      BY <2>1 DEF Accept, AcceptUnregistered, ClientsInv, ClientsTypeOK
    <3>. QED
      BY <2>1, <3>1, ArriveStep DEF Accept, AcceptUnregistered, Registry!Next
  <2>2. ASSUME NEW c \in Ids, HandleClose(c)
        PROVE  Registry!Next
    BY <2>2, DepartStep DEF Registry!Next
  <2>3. ASSUME NEW c \in Ids, PeerClose(c)
        PROVE  UNCHANGED Registry!vars
    <3>1. Phase' = Phase
      BY <2>3 DEF PeerClose, Phase, identity, ClientsInv, ClientsTypeOK
    <3>. QED
      BY <2>3, <3>1 DEF PeerClose, Registry!vars, identity
  <2>4. ASSUME NEW c \in Ids, HandleReadError(c)
        PROVE  UNCHANGED Registry!vars
    BY <2>4, SilentStep DEF HandleReadError, registry, sockets, identity
  <2>5. CASE AcceptFailed
    BY <2>5, SilentStep DEF AcceptFailed, registry, sockets, identity
  <2>. QED
    BY <1>1, <2>1, <2>2, <2>3, <2>4, <2>5 DEF ConnectionStep
<1>2. ASSUME NEW c \in Ids, MessageStep(c)
      PROVE  [Registry!Next]_Registry!vars
  <2>1. ASSUME NEW n \in Nicks, Handler_Nick(c, n)
        PROVE  [Registry!Next]_Registry!vars
    <3>1. CASE NickTaken(n)
      BY <2>1, <3>1, SilentStep DEF Handler_Nick, registry, sockets, identity
    <3>2. CASE ~NickTaken(n)
      BY <2>1, <3>2, ClaimStep DEF Handler_Nick, Registry!Next
    <3>. QED
      BY <3>1, <3>2
  <2>2. CASE Handler_User(c)
    BY <2>2, WelcomeStep DEF Handler_User, Registry!Next
  <2>3. CASE (\A n \in Nicks : ~Handler_Nick(c, n)) /\ ~Handler_User(c)
    BY <1>2, <2>3, OtherMessagesWrite, SilentStep DEF registry, sockets, identity
  <2>. QED
    BY <2>1, <2>2, <2>3
<1>. QED
  BY <1>1, <1>2 DEF ClientsNext

\* The server's start is an empty directory.
LEMMA DirectoryStart == ClientsInit => Registry!Init
BY DEF ClientsInit, Registry!Init, Phase

\* The registry of the server implements the abstract directory, for any
\* number of clients, descriptors and nicknames (client.c, handlers.c).
THEOREM DirectoryImplemented == ClientsSpec => ImplementsDirectory
<1>1. ClientsInv /\ [ClientsNext]_clientVars => [Registry!Next]_Registry!vars
  <2>1. CASE UNCHANGED clientVars
    BY <2>1, SilentStep DEF clientVars, registry, sockets, identity
  <2>. QED
    BY <2>1, DirectoryStep
<1>. QED
  BY <1>1, ClientsInvariant, DirectoryStart, PTL
     DEF ClientsSpec, ImplementsDirectory, Registry!Spec
=============================================================================
