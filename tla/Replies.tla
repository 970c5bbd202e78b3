------------------------------ MODULE Replies ------------------------------
(***************************************************************************)
(* The replies of cIRC (replies.c, replies.h), the message of the day that *)
(* Handler_Motd cuts into parts (handlers.c, motd.c), and the buffer of    *)
(* IRC_MSG_SIZE characters that each of them is formatted into.            *)
(*                                                                         *)
(* What matters of a reply is its number of characters: those that its     *)
(* format spells out, and those of the fields it inserts.  A field that    *)
(* some other part of the program limits counts with its greatest width,   *)
(* and the texts that a client chose are limited by its line alone.  The   *)
(* number that the formatting function returns becomes response->len, the  *)
(* number of characters that Client_TryEmptyBuffer writes to the socket.   *)
(* A behaviour is one reply, or one run of a handler that loops.           *)
(***************************************************************************)
EXTENDS Naturals, SequencesExt

CONSTANTS
    Texts,       \* numbers of characters of a text taken from a line
    Widths,      \* numbers of characters of a nickname, a subset of 1..9
    MaxMembers,  \* bound: members of a channel
    MaxMotd      \* bound: characters of the message of the day

ASSUME RepliesAssumption ==
    /\ Texts \subseteq Nat
    /\ Widths \subseteq 1..9
    /\ MaxMembers \in Nat
    /\ MaxMotd \in Nat

IRC_MSG_SIZE      == 512
MOTD_FRAGMENT_MAX == 80

\* Faulty variant: a topic keeps as many characters as a line has.
WidthLongTopic == [nick |-> 9, host |-> 63, name |-> 50, topic |-> 510, count |-> 11,
                   part |-> MOTD_FRAGMENT_MAX, command |-> 7]

\* The greatest width of each field that is limited before it is stored:
\* a nickname, a host, the name and the topic of a channel, a number of type
\* int, a fragment of the message of the day and the name of a command.
\* The user name and the other texts of a client have no limit of their own.
Width == [nick |-> 9, host |-> 63, name |-> 50, topic |-> 255, count |-> 11,
          part |-> MOTD_FRAGMENT_MAX, command |-> 7]

\* A format: the number of characters that it spells out, the fields that it
\* inserts, and whether snprintf is given the size of the buffer.
Unlimited(n, inserted) == [spelled |-> n, fields |-> inserted, limited |-> FALSE]
Limited(n, inserted)   == [spelled |-> n, fields |-> inserted, limited |-> TRUE]

\* The message of the day, the replies to errors, and the welcome.
FirstFormats ==
    [RplWelcome        |-> Unlimited(48, <<"nick", "nick", "text", "host">>),
     RplMotdStart      |-> Unlimited(32, <<"nick", "host">>),
     RplMotd           |-> Unlimited(10, <<"nick", "part">>),
     RplEndOfMotd      |-> Unlimited(27, <<"nick">>),
     ErrNoSuchNick     |-> Unlimited(29, <<"nick", "text">>),
     ErrNoMotd         |-> Limited(28, <<"nick">>),
     ErrNoNicknameGiven |-> Unlimited(25, <<"nick">>),
     ErrNicknameInUse  |-> Unlimited(35, <<"nick", "nick">>),
     ErrNeedMoreParams |-> Unlimited(30, <<"nick", "command">>),
     ErrNoRecipient    |-> Unlimited(29, <<"nick", "command">>),
     ErrNoTextToSend   |-> Unlimited(23, <<"nick">>)]

\* LUSERS.
UserFormats ==
    [RplLUserClient    |-> Limited(51, <<"nick", "count", "count">>),
     RplLUserOp        |-> Limited(27, <<"nick", "count">>),
     RplLUserUnknown   |-> Limited(30, <<"nick", "count">>),
     RplLUserChannels  |-> Limited(24, <<"nick", "count">>),
     RplLUserMe        |-> Limited(36, <<"nick", "count", "count">>)]

\* WHOIS, registration, PING, and the messages passed on to other clients.
\* The user name and the text beside it count as one text.
MessageFormats ==
    [RplWhoIsUser      |-> Limited(13, <<"nick", "nick", "text", "host">>),
     RplWhoIsServer    |-> Limited(27, <<"nick", "nick", "host">>),
     RplEndOfWhoIs     |-> Limited(26, <<"nick", "nick">>),
     ErrNotRegistered  |-> Unlimited(29, <<"nick">>),
     ErrAlreadyRegistered |-> Unlimited(30, <<"nick">>),
     ErrUnknownCommand |-> Unlimited(24, <<"nick", "text">>),
     Pong              |-> Unlimited(7, <<"host">>),
     Privmsg           |-> Unlimited(15, <<"nick", "host", "name", "text">>),
     Join              |-> Limited(11, <<"nick", "text", "host", "name">>)]

\* Channels.
ChannelFormats ==
    [RplTopic          |-> Limited(11, <<"host", "nick", "name", "topic">>),
     RplEndOfNames     |-> Limited(28, <<"host", "nick", "name">>),
     ErrNoSuchChannel  |-> Limited(26, <<"host", "nick", "text">>),
     ErrNotOnChannel   |-> Limited(26, <<"host", "nick", "name">>)]

\* LIST, PART and AWAY, user name and text again as one.
ListFormats ==
    [RplListStart      |-> Limited(28, <<"host", "nick">>),
     RplList           |-> Limited(13, <<"host", "nick", "name", "topic">>),
     RplListEnd        |-> Limited(22, <<"host", "nick">>),
     RplNoTopic        |-> Limited(26, <<"host", "nick", "name">>),
     Part              |-> Limited(12, <<"nick", "host", "name", "text">>),
     RplUnaway         |-> Limited(48, <<"host", "nick">>),
     RplNowaway        |-> Limited(43, <<"host", "nick">>),
     RplAway           |-> Limited(11, <<"host", "nick", "nick", "text">>)]

Formats == {FirstFormats[r] : r \in DOMAIN FirstFormats}
             \cup {UserFormats[r] : r \in DOMAIN UserFormats}
             \cup {MessageFormats[r] : r \in DOMAIN MessageFormats}
             \cup {ChannelFormats[r] : r \in DOMAIN ChannelFormats}
             \cup {ListFormats[r] : r \in DOMAIN ListFormats}

HasText(f) == \E i \in DOMAIN f.fields : f.fields[i] = "text"

WidthOf(field, text) == IF field = "text" THEN text ELSE Width[field]

\* The number of characters of a reply, the terminating zero not counted.
\* No format inserts more than four fields.
Length(f, text) ==
    LET inserted(i) == IF i <= Len(f.fields) THEN WidthOf(f.fields[i], text) ELSE 0
    IN f.spelled + inserted(1) + inserted(2) + inserted(3) + inserted(4)

\* How many of them the formatting function puts into the buffer.
InBuffer(f, length) ==
    IF f.limited /\ length > IRC_MSG_SIZE THEN IRC_MSG_SIZE ELSE length

VARIABLES
    job,      \* what the handler is doing: "idle", "names", "motd" or "done"
    reply,    \* the last reply: its text, its length and what the buffer holds
    listed,   \* RPL_NAMREPLY: the members appended so far
    offset,   \* RPL_NAMREPLY: the characters in the buffer
    motd,     \* the length of the message of the day, 0 when there is none
    fragment, \* Handler_Motd: the number of the next fragment, j
    shown     \* Handler_Motd: the characters of the message that were replied

replyVars == <<job, reply, listed, offset, motd, fragment, shown>>

NoReply == [text |-> 0, length |-> 0, held |-> 0]

\* Motd_Get: a missing, an unreadable and an empty file are all no message.
Motd_Get == motd \in 0..MaxMotd

RepliesInit ==
    /\ Motd_Get
    /\ job = "idle"
    /\ reply = NoReply
    /\ listed = 0 /\ offset = 0 /\ fragment = 0 /\ shown = 0

Formatted(f, text) ==
    [text |-> text, length |-> Length(f, text), held |-> InBuffer(f, Length(f, text))]

\* push_reply: a handler formats one reply and queues it.
PushReply ==
    /\ job = "idle"
    /\ \E f \in Formats, text \in Texts :
         reply' = Formatted(f, IF HasText(f) THEN text ELSE 0)
    /\ job' = "done"
    /\ UNCHANGED <<listed, offset, motd, fragment, shown>>

-----------------------------------------------------------------------------
(* RPL_NAMREPLY appends the nicknames of a channel's members one by one. *)

\* ":%s 353 %s %s :" with the names of the server, the client and the channel.
NamesPrefix == 9 + Width.host + Width.nick + Width.name

\* Faulty variant: a comma and a space between two nicknames.
AppendedWide(nick) == IF listed = 0 THEN nick ELSE 2 + nick

\* "%s" for the first member and " %s" for the others.
Appended(nick) == IF listed = 0 THEN nick ELSE 1 + nick

NamesBegin ==
    /\ job = "idle"
    /\ job' = "names"
    /\ listed' = 0
    /\ offset' = NamesPrefix
    /\ UNCHANGED <<reply, motd, fragment, shown>>

NamesMember ==
    /\ job = "names"
    /\ listed < MaxMembers
    /\ \E nick \in Widths : offset' = offset + Appended(nick)
    /\ listed' = listed + 1
    /\ UNCHANGED <<job, reply, motd, fragment, shown>>

\* A channel has a member as long as it exists.
NamesEnd ==
    /\ job = "names"
    /\ listed > 0
    /\ offset' = offset + 2
    /\ job' = "done"
    /\ UNCHANGED <<reply, listed, motd, fragment, shown>>

-----------------------------------------------------------------------------
(* Handler_Motd replies the message of the day in fragments. *)

\* Faulty variant: the shorter last fragment is not counted.
NumPartsFloor(len) == len \div MOTD_FRAGMENT_MAX

NumParts(len) ==
    len \div MOTD_FRAGMENT_MAX + IF len % MOTD_FRAGMENT_MAX # 0 THEN 1 ELSE 0

\* strncpy copies at most a fragment, and a zero cuts the last one to the rest.
\* The fragment starts within the message or at its terminating zero.
PartLength(j, len) ==
    Min({len - j * MOTD_FRAGMENT_MAX,
         IF j < NumParts(len) - 1 THEN MOTD_FRAGMENT_MAX ELSE len % MOTD_FRAGMENT_MAX})

MotdBegin ==
    /\ job = "idle"
    /\ motd > 0
    /\ job' = "motd"
    /\ fragment' = 0
    /\ shown' = 0
    /\ reply' = Formatted(FirstFormats.RplMotdStart, 0)
    /\ UNCHANGED <<listed, offset, motd>>

MotdPart ==
    /\ job = "motd"
    /\ fragment < NumParts(motd)
    /\ shown' = shown + PartLength(fragment, motd)
    /\ fragment' = fragment + 1
    /\ reply' = Formatted(FirstFormats.RplMotd, 0)
    /\ UNCHANGED <<job, listed, offset, motd>>

MotdEnd ==
    /\ job = "motd"
    /\ fragment = NumParts(motd)
    /\ job' = "done"
    /\ reply' = Formatted(FirstFormats.RplEndOfMotd, 0)
    /\ UNCHANGED <<listed, offset, motd, fragment, shown>>

RepliesNext ==
    \/ PushReply
    \/ NamesBegin \/ NamesMember \/ NamesEnd
    \/ MotdBegin \/ MotdPart \/ MotdEnd

RepliesSpec == RepliesInit /\ [][RepliesNext]_replyVars

-----------------------------------------------------------------------------
(* Properties *)

\* The characters that a client may choose without any reply outgrowing the
\* buffer: what a PRIVMSG to a channel leaves of it.
TextLimit == 375

(* A reply whose texts have at most TextLimit characters is wholly in its   *)
(* buffer, so that the length written to the socket is what the buffer      *)
(* holds: the limits of nicknames, hosts, channel names, topics and motd    *)
(* fragments together are enough for every format of replies.h.             *)
RepliesFit == reply.text <= TextLimit => reply.length = reply.held /\ reply.held <= IRC_MSG_SIZE

\* The members whose nicknames RPL_NAMREPLY holds however long they are.
NamesLimit == 38

(* RPL_NAMREPLY with at most NamesLimit members stays in its buffer at      *)
(* every append: Reply_RplNamReply has no test of its own, and its comment  *)
(* leaves the splitting to be done.                                         *)
NamReplyFits == listed <= NamesLimit => offset <= IRC_MSG_SIZE

(* When Handler_Motd has replied the last fragment, it has replied the      *)
(* whole message, but for a message of whole fragments, which loses the     *)
(* last of them: its rest is 0 characters.                                  *)
MotdComplete ==
    job = "motd" /\ fragment = NumParts(motd) =>
        shown = IF motd % MOTD_FRAGMENT_MAX = 0 THEN motd - MOTD_FRAGMENT_MAX ELSE motd
=============================================================================
