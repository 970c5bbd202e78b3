------------------------------- MODULE Server -------------------------------
(***************************************************************************)
(* The whole cIRC server as its event loop runs it: the connections of     *)
(* module Clients together with the channels (channel.c, server.c), AWAY   *)
(* and the handlers that send to other clients (handlers.c).               *)
(***************************************************************************)
EXTENDS Clients

CONSTANTS
    Names,       \* channel names as clients spell them
    Lower,       \* tolower() over a name
    Stored,      \* a name cut to CHANNEL_NAME_MAX characters
    Prefixed,    \* the strings that start with # + ! or &
    Topics       \* topics other than the empty one

ASSUME NamesAssumption == None \notin Names \cup Topics
ASSUME LowerAssumption ==
    /\ Lower \in [Names -> Names]
    /\ \A n \in Names : Lower[Lower[n]] = Lower[n]
ASSUME StoredAssumption ==
    /\ Stored \in [Names -> Names]
    /\ \A n \in Names : Stored[Stored[n]] = Stored[n]
    /\ \A n \in Names : Lower[n] = n => Lower[Stored[n]] = Stored[n]

VARIABLES
    channels,    \* keys of server_s.channels
    freed,       \* the keys among them whose channel_s has been freed
    members,     \* channel_s.members of each key; {} when the key is absent
    topic,       \* channel_s.topic of each key
    away         \* client_s.away

channelVars == <<channels, freed, members, topic>>
serverVars == <<clientVars, channelVars, away>>

-----------------------------------------------------------------------------
(* Operations of channel.c and server.c.                                   *)

\* Faulty variant: the name is not lowercased.
KeyAsTyped(n) == n
\* The key server_get_channel and server_create_channel look up.
Key(n) == Lower[n]

\* Faulty variant: every copy is written to the source's own descriptor.
SendOnSource(k, source, kind) ==
    {[Write(source, kind, Stored[k]) EXCEPT !.to = m] : m \in members[k] \ {source}}
\* channel_send_message: every member but the source.
channel_send_message(k, source, kind) ==
    {Write(m, kind, Stored[k]) : m \in members[k] \ {source}}

\* The replies of handler_join for one channel it found or created.
JoinReplies(c, k) ==
    {Write(c, kind, Stored[k]) : kind \in
        {"JOIN", "353", "366"} \cup
        (IF k \in channels /\ topic[k] # None THEN {"332"} ELSE {})}

\* channel_join: the members learn of a client that was not one of them.
JoinNotices(c, k) ==
    IF k \notin channels \/ c \in members[k] THEN {}
    ELSE channel_send_message(k, c, "JOIN")

\* Faulty variant: a member is entered under its descriptor.
MembersByFd(c, keys) ==
    [k \in Names |-> IF k \in keys THEN members[k] \cup {fd[c]} ELSE members[k]]
\* channel_join for a key that exists, server_create_channel and channel_new
\* for one that does not.
MembersAfterJoin(c, keys) ==
    [k \in Names |-> IF k \in keys \ channels THEN {c}
                     ELSE IF k \in keys THEN members[k] \cup {c}
                     ELSE members[k]]

TopicsAfterJoin(keys) ==
    [k \in Names |-> IF k \in keys \ channels THEN None ELSE topic[k]]

\* Faulty variant: the entry is not removed.
FreeOnly(k) ==
    /\ freed' = freed \cup {k}
    /\ members' = [members EXCEPT ![k] = {}]
    /\ UNCHANGED <<channels, topic>>
\* server_remove_channel removes the entry of channel_s.name, which is the
\* key cut to fifty characters, and frees the channel_s.
server_remove_channel(k) ==
    /\ channels' = channels \ {Stored[k]}
    /\ freed' = IF Stored[k] = k THEN freed ELSE freed \cup {k}
    /\ members' = [members EXCEPT ![k] = {}, ![Stored[k]] = {}]
    /\ topic' = [topic EXCEPT ![Stored[k]] = None]

\* Faulty variants: no size check; the channel goes with any member.
LeaveEmpty(c, k) ==
    members' = [members EXCEPT ![k] = @ \ {c}] /\ UNCHANGED <<channels, freed, topic>>
LeaveAndRemove(c, k) == server_remove_channel(k)
\* channel_remove_member, then the size check of handler_part.
Leave(c, k) ==
    IF members[k] \ {c} = {}
    THEN server_remove_channel(k)
    ELSE /\ members' = [members EXCEPT ![k] = @ \ {c}]
         /\ UNCHANGED <<channels, freed, topic>>

-----------------------------------------------------------------------------
(* Handlers.                                                               *)

\* handler_join over the set of names in its comma-separated list; the
\* empty set is a list of commas only.
handler_join(c, names) ==
    LET keys == {Key(n) : n \in names} IN
    /\ Up /\ c \in Served
    /\ \/ /\ keys \cap freed = {}
          /\ channels' = channels \cup keys
          /\ members' = MembersAfterJoin(c, keys)
          /\ topic' = TopicsAfterJoin(keys)
          /\ Emit(UNION {JoinReplies(c, k) \cup JoinNotices(c, k) : k \in keys})
          /\ UNCHANGED freed
       \/ keys \cap freed # {} /\ Undefined /\ UNCHANGED channelVars
    /\ UNCHANGED <<registry, away>>

\* JOIN 0: `channels` is not set, so strtok_r is called on NULL with an
\* uninitialised save pointer, unless an earlier message of the same read
\* has left a pointer there (then the action is handler_join) or a parse_err
\* (then it is MissingParams).
handler_joinZero(c) ==
    /\ Up /\ c \in Served
    /\ Crash \/ Undefined
    /\ UNCHANGED <<registry, channelVars, away>>

\* Reply_ErrNotOnChannel prints FMT_ERR_NOSUCHCHANNEL, not 442.
NotOnChannel == "403"

handler_part(c, n) ==
    LET k == Key(n) IN
    /\ Up /\ c \in Served
    /\ \/ k \notin channels /\ Emit({Write(c, "403", k)}) /\ UNCHANGED channelVars
       \/ k \in freed /\ Undefined /\ UNCHANGED channelVars
       \/ /\ k \in channels \ freed /\ c \notin members[k]
          /\ Emit({Write(c, NotOnChannel, Stored[k])})
          /\ UNCHANGED channelVars
       \/ /\ k \in channels \ freed /\ c \in members[k]
          /\ Emit(channel_send_message(k, c, "PART"))
          /\ Leave(c, k)
    /\ UNCHANGED <<registry, away>>

\* PART without a parameter: parse_err is not looked at and the NULL
\* `channels` is dereferenced (a pointer left there by an earlier message of
\* the same read makes it the action handler_part).
handler_partMissing(c) ==
    Up /\ c \in Served /\ Crash /\ UNCHANGED <<registry, channelVars, away>>

\* TOPIC with a channel only.
handler_topicQuery(c, n) ==
    LET k == Key(n) IN
    /\ Up /\ c \in Served
    /\ IF k \in freed THEN Undefined
       ELSE Emit({IF k \notin channels THEN Write(c, "403", k)
                  ELSE Write(c, IF topic[k] # None THEN "332" ELSE "331", Stored[k])})
    /\ UNCHANGED <<registry, channelVars, away>>

\* TOPIC with a topic, None being the empty one: no membership check, and a
\* missing channel is a NULL pointer in channel_set_topic.
handler_topicSet(c, n, t) ==
    LET k == Key(n) IN
    /\ Up /\ c \in Served
    /\ \/ k \notin channels /\ Crash /\ UNCHANGED channelVars
       \/ k \in freed /\ Undefined /\ UNCHANGED channelVars
       \/ /\ k \in channels \ freed
          /\ topic' = [topic EXCEPT ![k] = t]
          /\ Emit({})
          /\ UNCHANGED <<channels, freed, members>>
    /\ UNCHANGED <<registry, away>>

\* LIST and NAMES read each channel they name; a list may be commas only.
ReadChannels(c, keys, kinds, frame) ==
    /\ Up /\ c \in Served
    /\ IF keys \cap freed # {} THEN Undefined
       ELSE Emit({Write(c, kind, Stored[k]) : kind \in kinds, k \in keys \cap channels}
                 \cup {Write(c, kind, None) : kind \in frame})
    /\ UNCHANGED <<registry, channelVars, away>>

handler_list(c, names) ==
    ReadChannels(c, {Key(n) : n \in names}, {"322"}, {"321", "323"})

\* LIST without a parameter walks the table.
handler_listAll(c) == ReadChannels(c, channels, {"322"}, {"321", "323"})

handler_names(c, names) ==
    ReadChannels(c, {Key(n) : n \in names}, {"353", "366"}, {})

\* A command whose parameters are missing: 461 for JOIN and TOPIC, 411 and
\* 412 for PRIVMSG.
MissingParams(c, code) ==
    /\ Up /\ c \in Served
    /\ Answer(c, {code})
    /\ UNCHANGED <<channelVars, away>>

handler_away(c, text) ==
    /\ Up /\ c \in Served
    /\ away' = [away EXCEPT ![c] = text]
    /\ Emit({Write(c, IF text THEN "306" ELSE "305", None)})
    /\ UNCHANGED <<registry, channelVars>>

\* The channel PRIVMSG finds: the target as it was typed, not lowercased.
PrivmsgKey(t) == t

\* The client PRIVMSG finds, 0 when there is none.
PrivmsgId(t) == IF t \in Nicks THEN nicks[t] ELSE 0

PrivmsgChannel(c, t) ==
    LET k == PrivmsgKey(t) IN
    IF k \in freed THEN Undefined
    ELSE Emit(IF k \in channels THEN channel_send_message(k, c, "PRIVMSG") ELSE {})

PrivmsgNick(c, t) ==
    LET id == PrivmsgId(t) IN
    IF id = 0 THEN Emit({Write(c, "401", t)})
    ELSE IF BadClient(id) THEN Undefined
    ELSE Emit({Write(id, "PRIVMSG", t)} \cup
              (IF away[id] THEN {Write(c, "301", t)} ELSE {}))

Handler_Privmsg(c, t) ==
    /\ Up /\ c \in Served
    /\ IF t \in Prefixed THEN PrivmsgChannel(c, t) ELSE PrivmsgNick(c, t)
    /\ UNCHANGED <<registry, channelVars, away>>

-----------------------------------------------------------------------------
Init ==
    /\ ClientsInit
    /\ channels = {}
    /\ freed = {}
    /\ members = [k \in Names |-> {}]
    /\ topic = [k \in Names |-> None]
    /\ away = [c \in Ids |-> FALSE]

ChannelStep(c) ==
    \/ \E names \in SUBSET Names :
          handler_join(c, names) \/ handler_list(c, names) \/ handler_names(c, names)
    \/ handler_listAll(c) \/ handler_joinZero(c)
    \/ \E n \in Names : handler_part(c, n) \/ handler_topicQuery(c, n)
    \/ handler_partMissing(c)
    \/ \E n \in Names, t \in Topics \cup {None} : handler_topicSet(c, n, t)
    \/ \E code \in {"411", "412", "461"} : MissingParams(c, code)
    \/ \E text \in BOOLEAN : handler_away(c, text)
    \/ \E t \in Names \cup Nicks : Handler_Privmsg(c, t)

Next ==
    \/ ClientsNext /\ UNCHANGED <<channelVars, away>>
    \/ \E c \in Ids : ChannelStep(c)

Spec == Init /\ [][Next]_serverVars

-----------------------------------------------------------------------------
(* Properties.                                                             *)

\* The channel table, the channel records and the away flags keep their types.
ServerTypeOK ==
    /\ channels \subseteq Names
    /\ freed \subseteq Names
    /\ members \in [Names -> SUBSET Ids]
    /\ topic \in [Names -> Topics \cup {None}]
    /\ away \in [Ids -> BOOLEAN]

\* Names of at most fifty characters, which channel_verify_name asks for and
\* no handler enforces: FreedAreLong leaves nothing to dangle among them.
ShortNames == \A n \in Names : Stored[n] = n

\* channel.h: channel_send_message and RPL_NAMREPLY dereference the client_s
\* of each member.  None of them was freed, and each still has a descriptor
\* number to write to, whoever has disconnected since it joined.
MembersResolve ==
    \A k \in Names : \A m \in members[k] : ~BadClient(m) /\ fd[m] \in Fds

\* A channel JOIN, TOPIC, LIST and NAMES can find has a member: the last PART
\* removes it (handler_part), so none is left behind, to be joined again with
\* its old topic.
ChannelsInhabited == \A k \in channels \ freed : members[k] # {}

\* Only a name longer than fifty characters can be left in the table with a
\* freed channel_s, and such a name never gets out of it again.
FreedAreLong == \A k \in freed : k \in channels /\ Stored[k] # k

\* server.h:19: the keys of the channel table are lowercase, so two spellings
\* of a name are one channel to JOIN, PART, TOPIC, LIST and NAMES.
KeysLowercase == \A k \in channels : Lower[k] = k

\* A write reaches the connection it was meant for, unless that connection
\* has been closed: its descriptor number is still in the client_s and may by
\* then belong to somebody else (Client_Send, HandleClose).
StrayOnlyFromClosed ==
    \A w \in out : w.at # w.to => conn[w.to] = "closed"

\* With names of at most fifty characters (ShortNames), a step changes the
\* memberships of one client at most, and that one is connected (handler_join,
\* handler_part): nobody is put out of a channel by another's PART, and a
\* member that has disconnected stays, and keeps its channel, for ever.
MembershipStep ==
    \/ UNCHANGED members
    \/ \E c \in Connected : \A k \in Names :
           (members[k] \ members'[k]) \cup (members'[k] \ members[k]) \subseteq {c}

MembershipIsOwn == [][MembershipStep]_serverVars

\* channel_send_message, through the lookup of Handler_Privmsg: a PRIVMSG to a
\* channel in lowercase is heard by all its members with an open descriptor,
\* however each spelled the name when it joined, and by nobody else; one in
\* any other spelling is heard by nobody, not even by those who joined so.
\* (To a channel it writes nothing but PRIVMSGs: of other steps none matters.)
PrivmsgStep ==
    status' = "up" /\ (\A w \in out' : w.kind = "PRIVMSG") =>
    \A c \in Ids, t \in Names \cap Prefixed :
        Handler_Privmsg(c, t) =>
            LET heard == {w.to : w \in out'} IN
            /\ heard # {} => Lower[t] = t
            /\ Lower[t] = t => heard = {m \in members[t] \ {c} : owner[fd[m]] # 0}

PrivmsgHeard == [][PrivmsgStep]_serverVars

\* client.h:59: Client_Send sends the message to the specified client.
DeliveredToTarget == \A w \in out : w.at = w.to
=============================================================================
