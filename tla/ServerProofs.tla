---------------------------- MODULE ServerProofs ----------------------------
(* Proofs about module Server, from the invariant of module Clients. *)
EXTENDS Server, ClientsProofs

\* The record of a channel is forgotten with its entry.
AbsentAreEmpty == \A k \in Names \ channels : members[k] = {}

\* The inductive invariant of the channel table: the part that holds for
\* names of any length.
ChannelInv ==
    /\ ServerTypeOK
    /\ KeysLowercase
    /\ ChannelsInhabited
    /\ MembersResolve
    /\ FreedAreLong
    /\ AbsentAreEmpty

ServerInv == ClientsInv /\ ChannelInv

USE LowerAssumption, StoredAssumption, NamesAssumption
    DEF Served, NextId, ClientsAfterAccept, AtEof, CloseFd, Completes

-----------------------------------------------------------------------------
(* Steps of module Clients keep the channels. *)

\* No step takes an id out of `clients`, frees the client_s of one that was
\* served, or takes its descriptor number away.
LEMMA ClientsMonotone ==
    ASSUME ClientsInv, ClientsNext, NEW m \in Ids, ~BadClient(m)
    PROVE  ~BadClient(m)' /\ fd'[m] = fd[m]
<1>. USE DEF BadClient
<1>1. ASSUME NEW f \in Fds, NEW state, Enter(idCounter, f, state), idCounter <= MaxClients
      PROVE  ~BadClient(m)' /\ fd'[m] = fd[m]
  <2>1. m # idCounter
    BY DEF ClientsInv, ClientsTypeOK, IdsInOrder
  <2>. QED
    BY <1>1, <2>1 DEF Enter, ClientsInv, ClientsTypeOK
<1>2. ASSUME NEW c \in Ids, PeerClose(c) \/ HandleClose(c)
      PROVE  ~BadClient(m)' /\ fd'[m] = fd[m]
  BY <1>2 DEF PeerClose, HandleClose, ClientsInv, ClientsTypeOK
<1>3. ASSUME UNCHANGED registry
      PROVE  ~BadClient(m)' /\ fd'[m] = fd[m]
  BY <1>3 DEF registry, sockets
<1>4. ASSUME NEW c \in Ids, MessageStep(c)
      PROVE  ~BadClient(m)' /\ fd'[m] = fd[m]
  <2>1. CASE (\E n \in Nicks : Handler_Nick(c, n)) \/ Handler_User(c)
    <3>1. clients \subseteq clients' /\ UNCHANGED sockets
      BY <2>1 DEF Handler_Nick, ChangeNick, Handler_User, Client_TryRegister,
                   Answer, registry
    <3>. QED
      BY <3>1 DEF sockets
  <2>2. CASE (\A n \in Nicks : ~Handler_Nick(c, n)) /\ ~Handler_User(c)
    BY <1>3, <1>4, <2>2, OtherMessagesWrite
  <2>. QED
    BY <2>1, <2>2
<1>5. CASE AcceptFailed \/ \E c \in Ids : HandleReadError(c)
  BY <1>3, <1>5 DEF AcceptFailed, HandleReadError, registry
<1>. QED
  BY <1>1, <1>2, <1>4, <1>5
     DEF ClientsNext, ConnectionStep, Accept, AcceptUnregistered

\* A step of module Clients: the channel records do not change and their
\* members stay good.
LEMMA ClientsStepKeepsChannels ==
    ASSUME ServerInv, ClientsNext, UNCHANGED <<channelVars, away>>
    PROVE  ServerInv'
<1>. USE DEF ServerInv, ChannelInv, channelVars
<1>1. ClientsInv'
  BY ClientsStepPreserves
<1>2. MembersResolve'
  <2>. SUFFICES ASSUME NEW k \in Names, NEW m \in members[k]
               PROVE  ~BadClient(m)' /\ fd'[m] \in Fds
    BY DEF MembersResolve
  <2>1. m \in Ids /\ ~BadClient(m) /\ fd[m] \in Fds
    BY DEF MembersResolve, ServerTypeOK
  <2>. QED
    BY <2>1, ClientsMonotone
<1>3. ServerTypeOK' /\ KeysLowercase' /\ ChannelsInhabited' /\ FreedAreLong' /\ AbsentAreEmpty'
  BY DEF ServerTypeOK, KeysLowercase, ChannelsInhabited, FreedAreLong, AbsentAreEmpty
<1>. QED
  BY <1>1, <1>2, <1>3

-----------------------------------------------------------------------------
(* Channel handlers keep the registry. *)

\* A handler that touches neither the registry nor the channels.
LEMMA QuietKeeps ==
    ASSUME ServerInv, UNCHANGED <<registry, channelVars>>, away' \in [Ids -> BOOLEAN],
           status' \in {"up", "killed", "blocked", "undefined"}
    PROVE  ServerInv'
<1>. USE DEF ServerInv
<1>1. ClientsInv'
  BY WritesPreserve
<1>2. ChannelInv'
  BY DEF ChannelInv, channelVars, registry, sockets, ServerTypeOK, KeysLowercase,
         ChannelsInhabited, MembersResolve, FreedAreLong, AbsentAreEmpty, BadClient
<1>. QED
  BY <1>1, <1>2

\* A client with an open connection is a good member.
LEMMA ServedIsGood ==
    ASSUME ClientsInv, NEW c \in Connected
    PROVE  c \in Ids /\ ~BadClient(c) /\ fd[c] \in Fds
BY DEF ClientsInv, IdsInOrder, Connected, BadClient

\* JOIN of a list none of whose channels was freed.
LEMMA JoinKeeps ==
    ASSUME ServerInv, NEW c \in Connected, NEW keys \in SUBSET Names,
           \A k \in keys : Lower[k] = k,
           UNCHANGED <<registry, freed>>,
           channels' = channels \cup keys,
           members' = MembersAfterJoin(c, keys),
           topic' = TopicsAfterJoin(keys)
    PROVE  /\ KeysLowercase' /\ ChannelsInhabited' /\ MembersResolve' /\ FreedAreLong' /\ AbsentAreEmpty'
           /\ channels' \subseteq Names
           /\ members' \in [Names -> SUBSET Ids]
           /\ topic' \in [Names -> Topics \cup {None}]
<1>. USE DEF ServerInv, ChannelInv
<1>1. c \in Ids /\ ~BadClient(c) /\ fd[c] \in Fds
  BY ServedIsGood
<1>2. members' \in [Names -> SUBSET Ids]
  BY <1>1 DEF MembersAfterJoin, ServerTypeOK
<1>3. topic' \in [Names -> Topics \cup {None}]
  BY DEF TopicsAfterJoin, ServerTypeOK
<1>4. \A k \in Names : members'[k] \subseteq members[k] \cup {c}
  BY DEF MembersAfterJoin
<1>5. MembersResolve'
  BY <1>1, <1>4 DEF MembersResolve, BadClient, registry, sockets
<1>6. ChannelsInhabited'
  BY DEF ChannelsInhabited, MembersAfterJoin, ServerTypeOK
<1>. QED
  BY <1>2, <1>3, <1>5, <1>6 DEF KeysLowercase, FreedAreLong, AbsentAreEmpty, MembersAfterJoin, ServerTypeOK

\* A member leaves; the last one takes the entry of the stored name along.
LEMMA LeaveKeeps ==
    ASSUME ServerInv, NEW c \in Connected, NEW k \in channels \ freed,
           UNCHANGED registry, Leave(c, k)
    PROVE  /\ KeysLowercase' /\ ChannelsInhabited' /\ MembersResolve' /\ FreedAreLong' /\ AbsentAreEmpty'
           /\ channels' \subseteq Names /\ freed' \subseteq Names
           /\ members' \in [Names -> SUBSET Ids]
           /\ topic' \in [Names -> Topics \cup {None}]
<1>. USE DEF ServerInv, ChannelInv
<1>1. k \in Names /\ Stored[k] \in Names
  BY DEF ServerTypeOK
<1>2. CASE members[k] \ {c} = {}
  <2>1. /\ channels' = channels \ {Stored[k]}
        /\ freed' = IF Stored[k] = k THEN freed ELSE freed \cup {k}
        /\ members' = [members EXCEPT ![k] = {}, ![Stored[k]] = {}]
        /\ topic' = [topic EXCEPT ![Stored[k]] = None]
    BY <1>2 DEF Leave, server_remove_channel
  <2>2. /\ channels' \subseteq Names /\ freed' \subseteq Names
        /\ topic' \in [Names -> Topics \cup {None}]
    BY <1>1, <2>1 DEF ServerTypeOK
  <2>3. members' \in [Names -> SUBSET Ids]
    BY <1>1, <2>1 DEF ServerTypeOK
  <2>4. \A j \in Names : members'[j] = IF j = k \/ j = Stored[k] THEN {} ELSE members[j]
    BY <1>1, <2>1 DEF ServerTypeOK
  <2>5. MembersResolve'
    BY <2>4 DEF MembersResolve, BadClient, registry, sockets
  <2>6. FreedAreLong'
    BY <1>1, <2>1 DEF FreedAreLong
  <2>7. ChannelsInhabited'
    BY <1>1, <2>1, <2>2, <2>4 DEF ChannelsInhabited, ServerTypeOK
  <2>. QED
    BY <2>1, <2>2, <2>3, <2>4, <2>5, <2>6, <2>7 DEF KeysLowercase, AbsentAreEmpty
<1>3. CASE members[k] \ {c} # {}
  <2>1. /\ members' = [members EXCEPT ![k] = @ \ {c}]
        /\ UNCHANGED <<channels, freed, topic>>
    BY <1>3 DEF Leave
  <2>2. members' \in [Names -> SUBSET Ids]
    BY <1>1, <2>1 DEF ServerTypeOK
  <2>3. \A j \in Names : members'[j] = IF j = k THEN members[j] \ {c} ELSE members[j]
    BY <2>1 DEF ServerTypeOK
  <2>4. MembersResolve'
    BY <2>3 DEF MembersResolve, BadClient, registry, sockets
  <2>5. ChannelsInhabited'
    BY <1>3, <2>1, <2>3 DEF ChannelsInhabited, ServerTypeOK
  <2>. QED
    BY <2>1, <2>2, <2>3, <2>4, <2>5 DEF KeysLowercase, FreedAreLong, AbsentAreEmpty, ServerTypeOK
<1>. QED
  BY <1>2, <1>3

\* JOIN of a list.
LEMMA JoinPreserves ==
    ASSUME ServerInv, NEW c \in Ids, NEW names \in SUBSET Names, handler_join(c, names)
    PROVE  ServerInv'
<1>. DEFINE keys == {Key(n) : n \in names}
<1>1. c \in Connected /\ keys \in SUBSET Names /\ \A k \in keys : Lower[k] = k
  BY DEF handler_join, Key
<1>2. CASE keys \cap freed = {}
  <2>1. /\ channels' = channels \cup keys
        /\ members' = MembersAfterJoin(c, keys)
        /\ topic' = TopicsAfterJoin(keys)
        /\ UNCHANGED <<registry, freed, away>>
        /\ Emit(UNION {JoinReplies(c, k) \cup JoinNotices(c, k) : k \in keys})
    BY <1>2 DEF handler_join
  <2>2. ClientsInv'
    BY <2>1, EmitStatus, WritesPreserve DEF ServerInv
  <2>. HIDE DEF keys
  <2>3. /\ KeysLowercase' /\ ChannelsInhabited' /\ MembersResolve' /\ FreedAreLong' /\ AbsentAreEmpty'
        /\ channels' \subseteq Names
        /\ members' \in [Names -> SUBSET Ids]
        /\ topic' \in [Names -> Topics \cup {None}]
    BY <1>1, <2>1, JoinKeeps
  <2>. QED
    BY <2>1, <2>2, <2>3 DEF ServerInv, ChannelInv, ServerTypeOK
<1>3. CASE keys \cap freed # {}
  <2>1. UNCHANGED <<registry, channelVars, away>> /\ status' = "undefined"
    BY <1>3 DEF handler_join, Undefined
  <2>. QED
    BY <2>1, QuietKeeps DEF ServerInv, ChannelInv, ServerTypeOK
<1>. QED
  BY <1>2, <1>3

\* PART of one channel.
LEMMA PartPreserves ==
    ASSUME ServerInv, NEW c \in Ids, NEW n \in Names, handler_part(c, n)
    PROVE  ServerInv'
<1>1. c \in Connected /\ UNCHANGED <<registry, away>>
  BY DEF handler_part
<1>2. status' \in {"up", "killed", "blocked", "undefined"}
  BY EmitStatus DEF handler_part, Undefined
<1>3. CASE UNCHANGED channelVars
  BY <1>1, <1>2, <1>3, QuietKeeps DEF ServerInv, ChannelInv, ServerTypeOK
<1>4. CASE Key(n) \in channels \ freed /\ Leave(c, Key(n))
  <2>1. ClientsInv'
    BY <1>1, <1>2, WritesPreserve DEF ServerInv
  <2>2. /\ KeysLowercase' /\ ChannelsInhabited' /\ MembersResolve' /\ FreedAreLong' /\ AbsentAreEmpty'
        /\ channels' \subseteq Names /\ freed' \subseteq Names
        /\ members' \in [Names -> SUBSET Ids]
        /\ topic' \in [Names -> Topics \cup {None}]
    BY <1>1, <1>4, LeaveKeeps
  <2>. QED
    BY <1>1, <2>1, <2>2 DEF ServerInv, ChannelInv, ServerTypeOK
<1>. QED
  BY <1>3, <1>4 DEF handler_part

\* TOPIC with a new topic.
LEMMA TopicSetPreserves ==
    ASSUME ServerInv, NEW c \in Ids, NEW n \in Names, NEW t \in Topics \cup {None},
           handler_topicSet(c, n, t)
    PROVE  ServerInv'
<1>1. UNCHANGED <<registry, away>>
  BY DEF handler_topicSet
<1>2. status' \in {"up", "killed", "blocked", "undefined"}
  BY EmitStatus DEF handler_topicSet, Undefined, Crash
<1>3. CASE UNCHANGED channelVars
  BY <1>1, <1>2, <1>3, QuietKeeps DEF ServerInv, ChannelInv, ServerTypeOK
<1>4. CASE topic' = [topic EXCEPT ![Key(n)] = t] /\ UNCHANGED <<channels, freed, members>>
  <2>1. ClientsInv'
    BY <1>1, <1>2, WritesPreserve DEF ServerInv
  <2>2. topic' \in [Names -> Topics \cup {None}]
    BY <1>4 DEF ServerInv, ChannelInv, ServerTypeOK
  <2>. QED
    BY <1>1, <1>4, <2>1, <2>2
       DEF ServerInv, ChannelInv, registry, sockets, ServerTypeOK, KeysLowercase,
           ChannelsInhabited, MembersResolve, FreedAreLong, AbsentAreEmpty, BadClient
<1>. QED
  BY <1>3, <1>4 DEF handler_topicSet

\* The handlers that change no channel.
LEMMA ReadersPreserve ==
    ASSUME ServerInv, NEW c \in Ids,
           \/ \E names \in SUBSET Names : handler_list(c, names) \/ handler_names(c, names)
           \/ handler_listAll(c) \/ handler_joinZero(c) \/ handler_partMissing(c)
           \/ \E n \in Names : handler_topicQuery(c, n)
           \/ \E code \in {"411", "412", "461"} : MissingParams(c, code)
           \/ \E text \in BOOLEAN : handler_away(c, text)
           \/ \E t \in Names \cup Nicks : Handler_Privmsg(c, t)
    PROVE  ServerInv'
<1>. DEFINE Quiet == /\ UNCHANGED <<registry, channelVars>>
                     /\ away' \in [Ids -> BOOLEAN]
                     /\ status' \in {"up", "killed", "blocked", "undefined"}
<1>1. away \in [Ids -> BOOLEAN]
  BY DEF ServerInv, ChannelInv, ServerTypeOK
<1>2. ASSUME NEW keys, NEW kinds, NEW frame, ReadChannels(c, keys, kinds, frame)
      PROVE  Quiet
  BY <1>1, <1>2, EmitStatus DEF ReadChannels, Undefined
<1>3. CASE \/ \E names \in SUBSET Names : handler_list(c, names) \/ handler_names(c, names)
           \/ handler_listAll(c)
  BY <1>2, <1>3, QuietKeeps DEF handler_list, handler_listAll, handler_names
<1>4. CASE handler_joinZero(c) \/ handler_partMissing(c)
  BY <1>1, <1>4, QuietKeeps DEF handler_joinZero, handler_partMissing, Undefined, Crash
<1>5. ASSUME NEW n \in Names, handler_topicQuery(c, n)
      PROVE  Quiet
  BY <1>1, <1>5, EmitStatus DEF handler_topicQuery, Undefined
<1>6. ASSUME NEW code, MissingParams(c, code)
      PROVE  Quiet
  BY <1>1, <1>6, EmitStatus DEF MissingParams, Answer
<1>7. ASSUME NEW text \in BOOLEAN, handler_away(c, text)
      PROVE  Quiet
  BY <1>1, <1>7, EmitStatus DEF handler_away
<1>8. ASSUME NEW t \in Names \cup Nicks, Handler_Privmsg(c, t)
      PROVE  Quiet
  <2>1. status' \in {"up", "killed", "blocked", "undefined"}
    BY <1>8, EmitStatus DEF Handler_Privmsg, PrivmsgChannel, PrivmsgNick, Undefined
  <2>. QED
    BY <1>1, <1>8, <2>1 DEF Handler_Privmsg
<1>. QED
  BY <1>3, <1>4, <1>5, <1>6, <1>7, <1>8, QuietKeeps

-----------------------------------------------------------------------------
\* The server starts with no channel.
LEMMA ServerInitEstablishes == Init => ServerInv
BY InitEstablishes
   DEF Init, ServerInv, ChannelInv, ServerTypeOK, KeysLowercase, ChannelsInhabited,
       MembersResolve, FreedAreLong, AbsentAreEmpty

\* The invariant of the whole server.
THEOREM ServerInvariant == Spec => []ServerInv
<1>1. ServerInv /\ [Next]_serverVars => ServerInv'
  <2>. SUFFICES ASSUME ServerInv, [Next]_serverVars PROVE ServerInv'
    OBVIOUS
  <2>1. CASE ClientsNext /\ UNCHANGED <<channelVars, away>>
    BY <2>1, ClientsStepKeepsChannels
  <2>2. ASSUME NEW c \in Ids, ChannelStep(c) PROVE ServerInv'
    BY <2>2, JoinPreserves, PartPreserves, TopicSetPreserves, ReadersPreserve DEF ChannelStep
  <2>3. CASE UNCHANGED serverVars
    BY <2>3, QuietKeeps
       DEF serverVars, clientVars, ServerInv, ChannelInv, ServerTypeOK, ClientsInv, ClientsTypeOK
  <2>. QED
    BY <2>1, <2>2, <2>3 DEF Next
<1>. QED
  BY <1>1, ServerInitEstablishes, PTL DEF Spec

\* The channel table and its records keep their types.
THEOREM ChannelTypesSafe == Spec => []ServerTypeOK
BY ServerInvariant, PTL DEF ServerInv, ChannelInv

\* Sending to a channel and listing it never follow a freed client_s.
THEOREM MembersSafe == Spec => []MembersResolve
BY ServerInvariant, PTL DEF ServerInv, ChannelInv

\* A channel that can be found has a member, names of any length included.
THEOREM InhabitedSafe == Spec => []ChannelsInhabited
BY ServerInvariant, PTL DEF ServerInv, ChannelInv

\* Two spellings of a name are one key.
THEOREM KeysSafe == Spec => []KeysLowercase
BY ServerInvariant, PTL DEF ServerInv, ChannelInv

\* Only long names are ever left behind with a freed record.
THEOREM FreedSafe == Spec => []FreedAreLong
BY ServerInvariant, PTL DEF ServerInv, ChannelInv

-----------------------------------------------------------------------------
(* Who hears a channel. *)

\* A message to a channel is heard by the members the table leads to.
LEMMA HeardByMembers ==
    ASSUME ServerInv, NEW c \in Ids, NEW t \in Names \cap Prefixed,
           Handler_Privmsg(c, t), status' = "up"
    PROVE  {w.to : w \in out'} = {m \in members[t] \ {c} : owner[fd[m]] # 0}
<1>. DEFINE writes == channel_send_message(t, c, "PRIVMSG")
            hearers == {m \in members[t] \ {c} : owner[fd[m]] # 0}
<1>1. t \in channels => out' = {w \in writes : w.at # 0}
  BY DEF Handler_Privmsg, PrivmsgChannel, PrivmsgKey, Emit, Undefined, Crash, Stall
<1>2. t \notin channels => out' = {}
  BY DEF Handler_Privmsg, PrivmsgChannel, PrivmsgKey, Emit, Undefined, Crash, Stall
<1>3. CASE t \in channels
  <2>1. \A w \in writes : w.to \in members[t] \ {c} /\ w.at = owner[fd[w.to]]
    BY DEF channel_send_message, Write
  <2>2. \A m \in members[t] \ {c} :
          \E w \in writes : w.to = m /\ w.at = owner[fd[m]]
    <3>1. TAKE m \in members[t] \ {c}
    <3>2. Write(m, "PRIVMSG", Stored[t]) \in writes
      BY DEF channel_send_message
    <3>. QED
      BY <3>2 DEF Write
  <2>. HIDE DEF writes
  <2>. QED
    BY <1>1, <1>3, <2>1, <2>2
<1>4. CASE t \notin channels
  <2>1. members[t] = {}
    BY <1>4 DEF ServerInv, ChannelInv, AbsentAreEmpty
  <2>. QED
    BY <1>2, <1>4, <2>1
<1>. QED
  BY <1>3, <1>4

\* A PRIVMSG finds the channel of the other commands only under its key.
THEOREM PrivmsgSafe == Spec => PrivmsgHeard
<1>1. ServerInv => PrivmsgStep
  <2>. SUFFICES ASSUME ServerInv, NEW c \in Ids, NEW t \in Names \cap Prefixed,
                      Handler_Privmsg(c, t), status' = "up"
               PROVE  LET heard == {w.to : w \in out'} IN
                      /\ heard # {} => Lower[t] = t
                      /\ Lower[t] = t => heard = {m \in members[t] \ {c} : owner[fd[m]] # 0}
    BY DEF PrivmsgStep
  <2>1. members[t] # {} => t \in channels
    BY DEF ServerInv, ChannelInv, AbsentAreEmpty
  <2>2. t \in channels => Lower[t] = t
    BY DEF ServerInv, ChannelInv, KeysLowercase
  <2>. QED
    BY <2>1, <2>2, HeardByMembers
<1>. QED
  BY <1>1, ServerInvariant, PTL DEF Spec, PrivmsgHeard

-----------------------------------------------------------------------------
(* Memberships. *)

\* A step that leaves every membership as it is.
LEMMA SameMembersStep == UNCHANGED members => MembershipStep
BY DEF MembershipStep

\* JOIN adds its sender.
LEMMA JoinStep ==
    ASSUME ServerInv, NEW c \in Ids, NEW names \in SUBSET Names, handler_join(c, names)
    PROVE  MembershipStep
<1>. DEFINE keys == {Key(n) : n \in names}
<1>1. c \in Connected
  BY DEF handler_join, Served
<1>2. CASE UNCHANGED members
  BY <1>2, SameMembersStep
<1>3. CASE members' = MembersAfterJoin(c, keys) /\ keys \cap freed = {}
  <2>. HIDE DEF keys
  <2>. SUFFICES ASSUME NEW k \in Names,
                      NEW m \in (members[k] \ members'[k]) \cup (members'[k] \ members[k])
               PROVE  m = c
    BY <1>1 DEF MembershipStep
  <2>1. CASE k \in keys \ channels
    <3>1. members'[k] = {c}
      BY <1>3, <2>1 DEF MembersAfterJoin
    <3>2. members[k] = {}
      BY <2>1 DEF ServerInv, ChannelInv, AbsentAreEmpty
    <3>. QED
      BY <3>1, <3>2
  <2>2. CASE k \notin keys \ channels
    <3>1. members'[k] \in {members[k], members[k] \cup {c}}
      BY <1>3, <2>2 DEF MembersAfterJoin
    <3>. QED
      BY <3>1
  <2>. QED
    BY <2>1, <2>2
<1>. QED
  BY <1>2, <1>3 DEF handler_join, channelVars

\* PART removes its sender, and with short names nobody else.
LEMMA PartStep ==
    ASSUME ServerInv, ShortNames, NEW c \in Ids, NEW n \in Names, handler_part(c, n)
    PROVE  MembershipStep
<1>1. c \in Connected
  BY DEF handler_part, Served
<1>2. CASE UNCHANGED members
  BY <1>2, SameMembersStep
<1>3. CASE Key(n) \in channels \ freed /\ Leave(c, Key(n))
  <2>1. Key(n) \in Names /\ Stored[Key(n)] = Key(n)
    BY DEF Key, ShortNames
  <2>2. members' = [members EXCEPT ![Key(n)] = @ \ {c}]
    BY <1>3, <2>1 DEF Leave, server_remove_channel, ServerInv, ChannelInv, ServerTypeOK
  <2>3. \A k \in Names : members'[k] = IF k = Key(n) THEN members[k] \ {c} ELSE members[k]
    BY <2>2 DEF ServerInv, ChannelInv, ServerTypeOK
  <2>4. \A k \in Names :
          (members[k] \ members'[k]) \cup (members'[k] \ members[k]) \subseteq {c}
    BY <2>3
  <2>. QED
    BY <1>1, <2>4, Zenon DEF MembershipStep
<1>. QED
  BY <1>2, <1>3 DEF handler_part, channelVars

\* With names of at most fifty characters, a membership changes only by its
\* own client's JOIN or PART.
THEOREM MembershipSafe ==
    ASSUME ShortNames
    PROVE  Spec => MembershipIsOwn
<1>1. ServerInv /\ [Next]_serverVars => [MembershipStep]_serverVars
  <2>. SUFFICES ASSUME ServerInv, Next PROVE MembershipStep
    OBVIOUS
  <2>1. CASE ClientsNext /\ UNCHANGED <<channelVars, away>>
    BY <2>1, SameMembersStep DEF channelVars
  <2>2. ASSUME NEW c \in Ids, ChannelStep(c) PROVE MembershipStep
    <3>1. CASE \E names \in SUBSET Names : handler_join(c, names)
      BY <3>1, JoinStep
    <3>2. CASE \E n \in Names : handler_part(c, n)
      BY <3>2, PartStep
    <3>3. CASE \/ handler_joinZero(c) \/ handler_partMissing(c)
               \/ \E code \in {"411", "412", "461"} : MissingParams(c, code)
      BY <3>3, SameMembersStep
         DEF handler_joinZero, handler_partMissing, MissingParams, channelVars
    <3>5. ASSUME NEW names \in SUBSET Names,
                 handler_list(c, names) \/ handler_listAll(c) \/ handler_names(c, names)
          PROVE  MembershipStep
      <4>1. PICK keys, kinds, frame : ReadChannels(c, keys, kinds, frame)
        BY <3>5 DEF handler_list, handler_listAll, handler_names
      <4>. QED
        BY <4>1, SameMembersStep DEF ReadChannels, channelVars
    <3>4. CASE \/ \E n \in Names : handler_topicQuery(c, n)
               \/ \E n \in Names, t \in Topics \cup {None} : handler_topicSet(c, n, t)
               \/ \E text \in BOOLEAN : handler_away(c, text)
               \/ \E t \in Names \cup Nicks : Handler_Privmsg(c, t)
      BY <3>4, SameMembersStep
         DEF handler_topicQuery, handler_topicSet, handler_away, Handler_Privmsg, channelVars
    <3>. QED
      BY <2>2, <3>1, <3>2, <3>3, <3>4, <3>5 DEF ChannelStep
  <2>. QED
    BY <2>1, <2>2 DEF Next
<1>. QED
  BY <1>1, ServerInvariant, PTL DEF Spec, MembershipIsOwn

-----------------------------------------------------------------------------
(* Where writes go. *)

\* A write on the descriptor of a client_s that exists.
GoodWrite(w) == w.to \in Ids /\ ~BadClient(w.to) /\ w.at = owner[fd[w.to]]

\* The write of a handler to such a client.
LEMMA WriteIsGood ==
    ASSUME NEW to \in Ids, ~BadClient(to), NEW kind, NEW arg
    PROVE  GoodWrite(Write(to, kind, arg))
BY DEF GoodWrite, Write

\* Steps without a write.
LEMMA SilentIsSafe == out' = {} => StrayOnlyFromClosed'
BY DEF StrayOnlyFromClosed

\* A live connection owns its descriptor, so only a closed one's goes astray.
LEMMA EmitIsSafe ==
    ASSUME ClientsInv, NEW writes, \A w \in writes : GoodWrite(w), Emit(writes),
           UNCHANGED sockets
    PROVE  StrayOnlyFromClosed'
<1>1. CASE out' = {}
  BY <1>1, SilentIsSafe
<1>2. CASE out' = {w \in writes : w.at # 0}
  <2>. SUFFICES ASSUME NEW w \in writes, w.at # w.to
               PROVE  conn[w.to] = "closed"
    BY <1>2 DEF StrayOnlyFromClosed, sockets
  <2>1. w.to \in Ids /\ ~BadClient(w.to) /\ owner[fd[w.to]] # w.to
    BY DEF GoodWrite
  <2>2. conn[w.to] \notin {"none", "lost", "open", "eof"}
    BY <2>1 DEF BadClient, ClientsInv, IdsInOrder, FdOwnership
  <2>. QED
    BY <2>1, <2>2 DEF ClientsInv, ClientsTypeOK
<1>. QED
  BY <1>1, <1>2 DEF Emit, Crash, Stall

\* Answers to the sender.
LEMMA AnswerIsSafe ==
    ASSUME ClientsInv, NEW c \in Connected, NEW kinds, Answer(c, kinds)
    PROVE  StrayOnlyFromClosed'
<1>1. c \in Ids /\ ~BadClient(c)
  BY ServedIsGood
<1>2. \A w \in {Write(c, k, None) : k \in kinds} : GoodWrite(w)
  BY <1>1, WriteIsGood
<1>. QED
  BY <1>2, EmitIsSafe DEF Answer, registry

\* Steps of module Clients.
LEMMA ClientsWritesSafe ==
    ASSUME ClientsInv, ClientsNext
    PROVE  StrayOnlyFromClosed'
<1>1. CASE ConnectionStep
  BY <1>1, SilentIsSafe
     DEF ConnectionStep, Accept, AcceptUnregistered, Enter, AcceptFailed,
         PeerClose, HandleClose, HandleReadError
<1>2. ASSUME NEW c \in Ids, MessageStep(c)
      PROVE  StrayOnlyFromClosed'
  <2>1. c \in Connected /\ ~BadClient(c)
    <3>1. c \in Connected
      BY <1>2 DEF MessageStep, Handler_Nick, Handler_WhoIs, Handler_NickMissing,
                  Handler_NickErroneous, Handler_User, Handler_UserMissing, Handler_Motd,
                  Handler_LUsers, Handler_Ping, Handler_Unknown, Ignored
    <3>. QED
      BY <3>1, ServedIsGood
  <2>2. ASSUME NEW g, NEW u, Client_TryRegister(c, g, u), UNCHANGED sockets
        PROVE  StrayOnlyFromClosed'
    <3>1. PICK writes : Emit(writes) /\ writes \in {{}, {Write(c, "001", None)}}
      BY <2>2 DEF Client_TryRegister
    <3>2. \A w \in writes : GoodWrite(w)
      BY <2>1, <3>1, WriteIsGood
    <3>. QED
      BY <2>2, <3>1, <3>2, EmitIsSafe
  <2>3. ASSUME NEW n \in Nicks, Handler_Nick(c, n)
        PROVE  StrayOnlyFromClosed'
    <3>1. CASE NickTaken(n)
      <4>1. Emit({Write(c, "433", n)}) /\ UNCHANGED sockets
        BY <2>3, <3>1 DEF Handler_Nick, registry
      <4>2. \A w \in {Write(c, "433", n)} : GoodWrite(w)
        BY <2>1, WriteIsGood
      <4>. QED
        BY <4>1, <4>2, EmitIsSafe
    <3>2. CASE ~NickTaken(n)
      BY <2>2, <2>3, <3>2 DEF Handler_Nick, ChangeNick
    <3>. QED
      BY <3>1, <3>2
  <2>4. CASE Handler_User(c)
    BY <2>1, <2>2, <2>4, AnswerIsSafe DEF Handler_User
  <2>5. CASE Handler_NickErroneous(c)
    BY <2>5, SilentIsSafe DEF Handler_NickErroneous, Crash, Undefined
  <2>6. ASSUME NEW n \in Nicks \cup {None}, Handler_WhoIs(c, n)
        PROVE  StrayOnlyFromClosed'
    BY <2>1, <2>6, AnswerIsSafe, SilentIsSafe DEF Handler_WhoIs, Undefined
  <2>7. CASE \/ Handler_NickMissing(c) \/ Handler_UserMissing(c) \/ Handler_LUsers(c)
             \/ Handler_Ping(c) \/ Handler_Unknown(c) \/ Ignored(c)
             \/ \E present \in BOOLEAN : Handler_Motd(c, present)
    <3>1. PICK kinds : Answer(c, kinds)
      BY <2>7 DEF Handler_NickMissing, Handler_UserMissing, Handler_LUsers,
                  Handler_Ping, Handler_Unknown, Ignored, Handler_Motd
    <3>. QED
      BY <2>1, <3>1, AnswerIsSafe
  <2>. QED
    BY <1>2, <2>3, <2>4, <2>5, <2>6, <2>7 DEF MessageStep
<1>. QED
  BY <1>1, <1>2 DEF ClientsNext

\* Forwarding to the members of a channel.
LEMMA ForwardIsGood ==
    ASSUME ServerInv, NEW k \in Names, NEW source, NEW kind,
           NEW w \in channel_send_message(k, source, kind)
    PROVE  GoodWrite(w)
<1>1. PICK m \in members[k] : w = Write(m, kind, Stored[k])
  BY DEF channel_send_message
<1>2. m \in Ids /\ ~BadClient(m)
  BY DEF ServerInv, ChannelInv, MembersResolve, ServerTypeOK
<1>. QED
  BY <1>1, <1>2, WriteIsGood

\* A handler runs for a connected client and leaves the sockets alone.
LEMMA ChannelStepFrame ==
    ASSUME NEW c \in Ids, ChannelStep(c)
    PROVE  c \in Connected /\ UNCHANGED sockets
<1>1. ASSUME NEW keys, NEW kinds, NEW frame, ReadChannels(c, keys, kinds, frame)
      PROVE  c \in Connected /\ UNCHANGED sockets
  BY <1>1 DEF ReadChannels, registry
<1>2. ASSUME NEW names \in SUBSET Names,
             handler_list(c, names) \/ handler_listAll(c) \/ handler_names(c, names)
      PROVE  c \in Connected /\ UNCHANGED sockets
  BY <1>1, <1>2 DEF handler_list, handler_listAll, handler_names
<1>3. ASSUME NEW names \in SUBSET Names, handler_join(c, names)
      PROVE  c \in Connected /\ UNCHANGED sockets
  BY <1>3 DEF handler_join, registry
<1>4. ASSUME NEW n \in Names, handler_part(c, n) \/ handler_topicQuery(c, n)
      PROVE  c \in Connected /\ UNCHANGED sockets
  BY <1>4 DEF handler_part, handler_topicQuery, registry
<1>5. ASSUME NEW n \in Names, NEW t \in Topics \cup {None}, handler_topicSet(c, n, t)
      PROVE  c \in Connected /\ UNCHANGED sockets
  BY <1>5 DEF handler_topicSet, registry
<1>6. CASE handler_joinZero(c) \/ handler_partMissing(c)
  BY <1>6 DEF handler_joinZero, handler_partMissing, registry
<1>7. ASSUME NEW code, MissingParams(c, code)
      PROVE  c \in Connected /\ UNCHANGED sockets
  BY <1>7 DEF MissingParams, Answer, registry
<1>8. ASSUME NEW text \in BOOLEAN, handler_away(c, text)
      PROVE  c \in Connected /\ UNCHANGED sockets
  BY <1>8 DEF handler_away, registry
<1>9. ASSUME NEW t \in Names \cup Nicks, Handler_Privmsg(c, t)
      PROVE  c \in Connected /\ UNCHANGED sockets
  BY <1>9 DEF Handler_Privmsg, registry
<1>. QED
  BY <1>2, <1>3, <1>4, <1>5, <1>6, <1>7, <1>8, <1>9 DEF ChannelStep

\* The handlers of module Server.
LEMMA ChannelWritesSafe ==
    ASSUME ServerInv, NEW c \in Ids, ChannelStep(c)
    PROVE  StrayOnlyFromClosed'
<1>. USE DEF ServerInv
<1>1. c \in Connected /\ UNCHANGED sockets
  BY ChannelStepFrame
<1>2. ASSUME NEW kind, NEW arg PROVE GoodWrite(Write(c, kind, arg))
  BY <1>1, ServedIsGood, WriteIsGood
<1>3. UNCHANGED sockets
  BY <1>1
<1>4. ASSUME NEW names \in SUBSET Names, handler_join(c, names)
      PROVE  StrayOnlyFromClosed'
  <2>. DEFINE keys == {Key(n) : n \in names}
              writes == UNION {JoinReplies(c, k) \cup JoinNotices(c, k) : k \in keys}
  <2>1. CASE out' = {}
    BY <2>1, SilentIsSafe
  <2>2. CASE Emit(writes)
    <3>1. ASSUME NEW w \in writes PROVE GoodWrite(w)
      <4>1. PICK k \in keys : w \in JoinReplies(c, k) \cup JoinNotices(c, k)
        OBVIOUS
      <4>2. k \in Names
        BY <4>1 DEF Key
      <4>3. CASE w \in JoinReplies(c, k)
        BY <1>2, <4>3 DEF JoinReplies
      <4>4. CASE w \in JoinNotices(c, k)
        BY <4>2, <4>4, ForwardIsGood DEF JoinNotices
      <4>. QED
        BY <4>1, <4>3, <4>4
    <3>. QED
      BY <1>3, <2>2, <3>1, EmitIsSafe
  <2>. QED
    BY <1>4, <2>1, <2>2 DEF handler_join, Undefined
<1>5. ASSUME NEW n \in Names, handler_part(c, n)
      PROVE  StrayOnlyFromClosed'
  <2>1. Key(n) \in Names
    BY DEF Key
  <2>2. CASE out' = {}
    BY <2>2, SilentIsSafe
  <2>3. ASSUME NEW arg, Emit({Write(c, "403", arg)})
        PROVE  StrayOnlyFromClosed'
    BY <1>2, <1>3, <2>3, EmitIsSafe
  <2>4. CASE Emit(channel_send_message(Key(n), c, "PART"))
    BY <1>3, <2>1, <2>4, ForwardIsGood, EmitIsSafe
  <2>. QED
    BY <1>5, <2>2, <2>3, <2>4 DEF handler_part, NotOnChannel, Undefined
<1>6. ASSUME NEW n \in Names, handler_topicQuery(c, n)
      PROVE  StrayOnlyFromClosed'
  <2>1. CASE out' = {}
    BY <2>1, SilentIsSafe
  <2>2. ASSUME NEW kind, NEW arg, Emit({Write(c, kind, arg)})
        PROVE  StrayOnlyFromClosed'
    BY <1>2, <1>3, <2>2, EmitIsSafe
  <2>3. CASE Key(n) \notin channels
    BY <1>6, <2>1, <2>2, <2>3 DEF handler_topicQuery, Undefined
  <2>4. CASE Key(n) \in channels
    BY <1>6, <2>1, <2>2, <2>4 DEF handler_topicQuery, Undefined
  <2>. QED
    BY <2>3, <2>4
<1>7. ASSUME NEW n \in Names, NEW t \in Topics \cup {None}, handler_topicSet(c, n, t)
      PROVE  StrayOnlyFromClosed'
  BY <1>3, <1>7, SilentIsSafe, EmitIsSafe DEF handler_topicSet, Undefined, Crash
<1>8. ASSUME NEW names \in SUBSET Names,
             handler_list(c, names) \/ handler_listAll(c) \/ handler_names(c, names)
      PROVE  StrayOnlyFromClosed'
  <2>1. PICK keys, kinds, frame : ReadChannels(c, keys, kinds, frame)
    BY <1>8 DEF handler_list, handler_listAll, handler_names
  <2>2. CASE out' = {}
    BY <2>2, SilentIsSafe
  <2>3. CASE Emit({Write(c, kind, Stored[k]) : kind \in kinds, k \in keys \cap channels}
                  \cup {Write(c, kind, None) : kind \in frame})
    BY <1>2, <1>3, <2>3, EmitIsSafe
  <2>. QED
    BY <2>1, <2>2, <2>3 DEF ReadChannels, Undefined
<1>9. ASSUME NEW text \in BOOLEAN, handler_away(c, text)
      PROVE  StrayOnlyFromClosed'
  <2>1. PICK kind : Emit({Write(c, kind, None)})
    BY <1>9 DEF handler_away
  <2>. QED
    BY <1>2, <1>3, <2>1, EmitIsSafe
<1>10. ASSUME NEW t \in Names \cup Nicks, Handler_Privmsg(c, t)
       PROVE  StrayOnlyFromClosed'
  <2>1. CASE out' = {}
    BY <2>1, SilentIsSafe
  <2>2. CASE PrivmsgChannel(c, t)
    <3>1. CASE t \in channels /\ Emit(channel_send_message(t, c, "PRIVMSG"))
      <4>1. t \in Names
        BY <3>1 DEF ChannelInv, ServerTypeOK
      <4>. QED
        BY <1>3, <3>1, <4>1, ForwardIsGood, EmitIsSafe
    <3>2. CASE Emit({})
      BY <1>3, <3>2, EmitIsSafe
    <3>. QED
      BY <2>1, <2>2, <3>1, <3>2 DEF PrivmsgChannel, PrivmsgKey, Undefined
  <2>3. CASE PrivmsgNick(c, t)
    <3>1. CASE PrivmsgId(t) = 0
      BY <1>2, <1>3, <2>3, <3>1, EmitIsSafe DEF PrivmsgNick
    <3>2. CASE PrivmsgId(t) # 0 /\ ~BadClient(PrivmsgId(t))
      <4>1. PrivmsgId(t) \in Ids
        BY <3>2 DEF PrivmsgId, ClientsInv, ClientsTypeOK
      <4>2. GoodWrite(Write(PrivmsgId(t), "PRIVMSG", t))
        BY <3>2, <4>1, WriteIsGood
      <4>3. Emit({Write(PrivmsgId(t), "PRIVMSG", t)} \cup
                 (IF away[PrivmsgId(t)] THEN {Write(c, "301", t)} ELSE {}))
        BY <2>3, <3>2 DEF PrivmsgNick
      <4>. QED
        BY <1>2, <1>3, <4>2, <4>3, EmitIsSafe
    <3>. QED
      BY <2>1, <2>3, <3>1, <3>2 DEF PrivmsgNick, Undefined
  <2>. QED
    BY <1>10, <2>2, <2>3 DEF Handler_Privmsg
<1>11. ASSUME NEW code, MissingParams(c, code)
       PROVE  StrayOnlyFromClosed'
  BY <1>1, <1>11, AnswerIsSafe DEF MissingParams
<1>12. CASE handler_joinZero(c) \/ handler_partMissing(c)
  BY <1>12, SilentIsSafe DEF handler_joinZero, handler_partMissing, Crash, Undefined
<1>. QED
  BY <1>4, <1>5, <1>6, <1>7, <1>8, <1>9, <1>10, <1>11, <1>12 DEF ChannelStep

\* Every message to a client that is connected reaches that client, for any
\* number of clients, channels and descriptors.
THEOREM DeliverySafe == Spec => []StrayOnlyFromClosed
<1>1. Init => StrayOnlyFromClosed
  BY DEF Init, ClientsInit, StrayOnlyFromClosed
<1>2. ServerInv /\ StrayOnlyFromClosed /\ [Next]_serverVars => StrayOnlyFromClosed'
  <2>. SUFFICES ASSUME ServerInv, StrayOnlyFromClosed, [Next]_serverVars
               PROVE  StrayOnlyFromClosed'
    OBVIOUS
  <2>1. CASE ClientsNext /\ UNCHANGED <<channelVars, away>>
    BY <2>1, ClientsWritesSafe DEF ServerInv
  <2>2. ASSUME NEW c \in Ids, ChannelStep(c) PROVE StrayOnlyFromClosed'
    BY <2>2, ChannelWritesSafe
  <2>3. CASE UNCHANGED serverVars
    BY <2>3 DEF serverVars, clientVars, registry, sockets, StrayOnlyFromClosed
  <2>. QED
    BY <2>1, <2>2, <2>3 DEF Next
<1>. QED
  BY <1>1, <1>2, ServerInvariant, PTL DEF Spec

\* What module Clients promises holds of the whole server.
THEOREM ServerKeepsRegistry ==
    Spec => [](NickTableAgrees /\ NicksResolve /\ CountersAgree /\ FdOwnership)
<1>1. ServerInv => NickTableAgrees /\ NicksResolve /\ CountersAgree /\ FdOwnership
  BY InvResolves DEF ServerInv, ClientsInv
<1>. QED
  BY <1>1, ServerInvariant, PTL
=============================================================================
