------------------------------ MODULE Session ------------------------------
(***************************************************************************)
(* The server of module Server fed as Client_HandleRead feeds it: one read *)
(* of one client at a time, each read a batch of lines, each line parsed   *)
(* by parser.c into the one irc_message_s that read has, and handled.      *)
(*                                                                         *)
(* The fields of the union share two words, so a field here is one of two  *)
(* pointers.  A pointer is the set of strings it may denote: none for      *)
(* NULL, the token itself when this line set it, and any string at all     *)
(* when an earlier line did, since the text it points into has been        *)
(* replaced by this line's (conn_s.message).                               *)
(***************************************************************************)
EXTENDS Server, Sequences

CONSTANTS
    Texts,       \* the strings tokens are made of
    Empty,       \* the empty string
    Zero,        \* "0"
    Split,       \* the names in a comma-separated list
    MaxLines     \* bound on the lines of one read

ASSUME TextsAssumption ==
    /\ Texts \subseteq Names
    /\ Nicks \subseteq Texts
    /\ Texts \ {Empty} \subseteq Topics
    /\ Empty \in Texts /\ Zero \notin Texts
    /\ Split \in [Texts -> SUBSET Names]

ASSUME MaxLinesAssumption == MaxLines \in Nat

\* parse_err is 0 when there is no error.
ASSUME NoErrorAssumption == None \notin {"411", "412", "431", "432", "461"}

VARIABLES
    reading,     \* the client whose read is being handled, or 0
    handled,     \* lines of it handled so far
    message,     \* its irc_message_s
    line         \* the last line handled, NoLine before the first

sessionVars == <<serverVars, reading, handled, message, line>>

-----------------------------------------------------------------------------
(* Lines, as msgtok_r cuts them: only the last token can be empty.         *)

Words == Texts \ {Empty}
NoArgs == <<>>
OneArg == {<<t>> : t \in Texts}
TwoArgs == {<<t, u>> : t \in Words, u \in Texts}

Line(commands, args) == [command : commands, args : args]
NoLine == [command |-> "none", args |-> NoArgs]

\* The mode and the unused parameter of USER are taken to be the user name.
UserArgs == {<<t, t, t, u>> : t \in Words, u \in Texts} \cup {<<t, t, t>> : t \in Words}

Lines ==
    Line({"NICK", "USER", "PRIVMSG", "WHOIS", "JOIN", "PART", "LIST", "TOPIC",
          "NAMES", "AWAY"}, {NoArgs} \cup OneArg)
    \cup Line({"PRIVMSG", "PART", "TOPIC"}, TwoArgs)
    \cup Line({"USER"}, UserArgs)
    \cup Line({"JOIN"}, {<<Zero>>})
    \cup Line({"PING", "PONG", "MOTD", "LUSERS", "UNKNOWN", ""}, {NoArgs})

\* `tok == NULL || toklen == 0` for the i-th parameter, and `tok == NULL`.
Absent(args, i) == Len(args) < i
Missing(args, i) == Absent(args, i) \/ args[i] = Empty

-----------------------------------------------------------------------------
(* parser.c.                                                               *)

NULL == {}

\* memset(&message, 0, sizeof(irc_message_s)).
Cleared == [first |-> NULL, second |-> NULL, parse_err |-> None]

\* A pointer once the line it was set by has been replaced.
Stale(p) == IF p = NULL THEN NULL ELSE Texts
Overwritten(m) == [m EXCEPT !.first = Stale(@), !.second = Stale(@)]

Failed(m, code) == [m EXCEPT !.parse_err = code]

parse_message_nick(m, args) ==
    IF Missing(args, 1) THEN Failed(m, "431")
    ELSE IF args[1] \notin Nicks THEN Failed(m, "432")
    ELSE [m EXCEPT !.first = {args[1]}, !.parse_err = None]

parse_message_user(m, args) ==
    IF Missing(args, 1) THEN Failed(m, "461")
    ELSE IF Absent(args, 4) THEN Failed([m EXCEPT !.first = {args[1]}], "461")
    ELSE [first |-> {args[1]}, second |-> {args[4]}, parse_err |-> None]

\* Faulty variant: a missing recipient is reported as an unknown one.
PrivmsgOtherCode(m, args) ==
    IF Missing(args, 1) THEN Failed(m, "401")
    ELSE IF Absent(args, 2) THEN Failed([m EXCEPT !.first = {args[1]}], "412")
    ELSE [first |-> {args[1]}, second |-> {args[2]}, parse_err |-> None]
parse_message_privmsg(m, args) ==
    IF Missing(args, 1) THEN Failed(m, "411")
    ELSE IF Absent(args, 2) THEN Failed([m EXCEPT !.first = {args[1]}], "412")
    ELSE [first |-> {args[1]}, second |-> {args[2]}, parse_err |-> None]

\* The token, or NULL.
Token(args, i) == IF Absent(args, i) THEN NULL ELSE {args[i]}

\* `mask` is the second field of its struct.
parse_message_whois(m, args) == [m EXCEPT !.second = Token(args, 1)]

parse_message_join(m, args) ==
    IF Missing(args, 1) THEN Failed(m, "461")
    ELSE IF args[1] = Zero THEN m
    ELSE [m EXCEPT !.first = {args[1]}, !.parse_err = None]

\* Faulty variant: `channels` is set only beside a part message.
PartKeepsChannels(m, args) ==
    IF Missing(args, 1) THEN Failed(m, "461")
    ELSE IF Missing(args, 2) THEN [m EXCEPT !.second = NULL, !.parse_err = None]
    ELSE [first |-> {args[1]}, second |-> {args[2]}, parse_err |-> None]
parse_message_part(m, args) ==
    IF Missing(args, 1) THEN Failed(m, "461")
    ELSE [first |-> {args[1]},
          second |-> IF Missing(args, 2) THEN NULL ELSE {args[2]},
          parse_err |-> None]

parse_message_list(m, args) ==
    IF Missing(args, 1) THEN m
    ELSE [m EXCEPT !.first = {args[1]}, !.parse_err = None]

\* Faulty variant: parse_err keeps what an earlier line left there.
TopicKeepsError(m, args) ==
    IF Missing(args, 1) THEN Failed(m, "461")
    ELSE [m EXCEPT !.first = {args[1]},
                   !.second = IF Absent(args, 2) THEN @ ELSE {args[2]}]
\* Without a topic the field is left as it is.
parse_message_topic(m, args) ==
    IF Missing(args, 1) THEN Failed(m, "461")
    ELSE [first |-> {args[1]},
          second |-> IF Absent(args, 2) THEN m.second ELSE {args[2]},
          parse_err |-> None]

\* Faulty variant: NULL is not stored when there is no list.
NamesKeepsList(m, args) ==
    IF Absent(args, 1) THEN m ELSE [m EXCEPT !.first = {args[1]}]
parse_message_names(m, args) == [m EXCEPT !.first = Token(args, 1)]
parse_message_away(m, args) == [m EXCEPT !.first = Token(args, 1)]

\* The commands without fields leave the record alone, all but its type.
parse_message(m, l) ==
    CASE l.command = "NICK" -> parse_message_nick(m, l.args)
      [] l.command = "USER" -> parse_message_user(m, l.args)
      [] l.command = "PRIVMSG" -> parse_message_privmsg(m, l.args)
      [] l.command = "WHOIS" -> parse_message_whois(m, l.args)
      [] l.command = "JOIN" -> parse_message_join(m, l.args)
      [] l.command = "PART" -> parse_message_part(m, l.args)
      [] l.command = "LIST" -> parse_message_list(m, l.args)
      [] l.command = "TOPIC" -> parse_message_topic(m, l.args)
      [] l.command = "NAMES" -> parse_message_names(m, l.args)
      [] l.command = "AWAY" -> parse_message_away(m, l.args)
      [] OTHER -> m

-----------------------------------------------------------------------------
(* Handler_HandleMessage: what each handler makes of the record.           *)

OnRegistry(A) == A /\ UNCHANGED <<channelVars, away>>

TopicOf(t) == IF t = Empty THEN None ELSE t

\* 432 is not looked at.
DoNick(c, m) ==
    OnRegistry(
        IF m.parse_err = "431" THEN Handler_NickMissing(c)
        ELSE \/ m.first = NULL /\ Handler_NickErroneous(c) /\ Crash
             \/ \E t \in m.first : IF t \in Nicks THEN Handler_Nick(c, t)
                                   ELSE Handler_NickErroneous(c) /\ Undefined)

DoUser(c, m) ==
    OnRegistry(IF m.parse_err = "461" THEN Handler_UserMissing(c) ELSE Handler_User(c))

DoPrivmsg(c, m) ==
    IF m.parse_err \in {"411", "412"} THEN MissingParams(c, m.parse_err)
    ELSE \E t \in m.first : Handler_Privmsg(c, t)

DoWhoIs(c, m) ==
    OnRegistry(
        IF m.second = NULL THEN Ignored(c)
        ELSE \E t \in m.second : Handler_WhoIs(c, IF t \in Nicks THEN t ELSE None))

DoJoin(c, m) ==
    IF m.parse_err = "461" THEN MissingParams(c, "461")
    ELSE IF m.first = NULL THEN handler_joinZero(c)
    ELSE \E t \in m.first : handler_join(c, Split[t])

DoPart(c, m) ==
    IF m.first = NULL THEN handler_partMissing(c)
    ELSE \E t \in m.first : handler_part(c, t)

DoList(c, m) ==
    IF m.first = NULL THEN handler_listAll(c)
    ELSE \E t \in m.first : handler_list(c, Split[t])

DoTopic(c, m) ==
    IF m.parse_err = "461" THEN MissingParams(c, "461")
    ELSE \E t \in m.first :
             IF m.second = NULL THEN handler_topicQuery(c, t)
             ELSE \E u \in m.second : handler_topicSet(c, t, TopicOf(u))

DoNames(c, m) ==
    IF m.first = NULL THEN handler_names(c, {})
    ELSE \E t \in m.first : handler_names(c, Split[t])

\* An empty line is the one parse_message rejects.
Handle(c, command, m) ==
    \/ command = "NICK" /\ DoNick(c, m)
    \/ command = "USER" /\ DoUser(c, m)
    \/ command = "PRIVMSG" /\ DoPrivmsg(c, m)
    \/ command = "WHOIS" /\ DoWhoIs(c, m)
    \/ command = "JOIN" /\ DoJoin(c, m)
    \/ command = "PART" /\ DoPart(c, m)
    \/ command = "LIST" /\ DoList(c, m)
    \/ command = "TOPIC" /\ DoTopic(c, m)
    \/ command = "NAMES" /\ DoNames(c, m)
    \/ command = "AWAY" /\ handler_away(c, m.first # NULL)
    \/ command = "PING" /\ OnRegistry(Handler_Ping(c))
    \/ command = "MOTD" /\ \E present \in BOOLEAN : OnRegistry(Handler_Motd(c, present))
    \/ command = "LUSERS" /\ OnRegistry(Handler_LUsers(c))
    \/ command = "UNKNOWN" /\ OnRegistry(Handler_Unknown(c))
    \/ command \in {"PONG", ""} /\ OnRegistry(Ignored(c))

-----------------------------------------------------------------------------
(* Client_HandleRead.                                                      *)

SessionInit ==
    /\ Init
    /\ reading = 0
    /\ handled = 0
    /\ message = Cleared
    /\ line = NoLine

\* Faulty variant: the record of the read before is used again.
BeginReadKeeping(c) ==
    /\ Up /\ reading = 0 /\ c \in Served
    /\ reading' = c
    /\ UNCHANGED <<serverVars, handled, message, line>>

\* read(2) returned data; a read that returns 0 or -1 is a step of Clients.
BeginRead(c) ==
    /\ Up /\ reading = 0 /\ c \in Served
    /\ reading' = c
    /\ message' = Cleared
    /\ UNCHANGED <<serverVars, handled, line>>

HandleLine(c, l) ==
    /\ reading = c /\ handled < MaxLines
    /\ message' = parse_message(Overwritten(message), l)
    /\ Handle(c, l.command, message')
    /\ line' = l
    /\ handled' = handled + 1
    /\ UNCHANGED reading

\* conn_read_message has returned 0.
EndRead(c) ==
    /\ Up /\ reading = c
    /\ reading' = 0
    /\ handled' = 0
    /\ line' = NoLine
    /\ UNCHANGED <<serverVars, message>>

\* Peers close at any time; the other events wait for the end of the read.
OtherEvent ==
    /\ \/ reading = 0 /\ OnRegistry(ConnectionStep)
       \/ OnRegistry(\E c \in Ids : PeerClose(c))
    /\ UNCHANGED <<reading, handled, message, line>>

SessionNext ==
    \/ OtherEvent
    \/ \E c \in Ids : BeginRead(c) \/ EndRead(c) \/ \E l \in Lines : HandleLine(c, l)

SessionSpec == SessionInit /\ [][SessionNext]_sessionVars

-----------------------------------------------------------------------------
(* Properties.                                                             *)

\* The read in progress, its line count and its record keep their types.
SessionTypeOK ==
    /\ reading \in Ids \cup {0}
    /\ handled \in 0..MaxLines
    /\ message \in [first : SUBSET Texts, second : SUBSET Texts,
                    parse_err : {None, "411", "412", "431", "432", "461"}]
    /\ line \in Lines \cup {NoLine}

\* The lines that leave a field its handler reads as they found it: an
\* over-long NICK, JOIN 0, PART and LIST without a channel, TOPIC without a
\* topic.
LeavesField(l) ==
    \/ l.command = "NICK" /\ ~Missing(l.args, 1) /\ l.args[1] \notin Nicks
    \/ l.command = "JOIN" /\ l.args = <<Zero>>
    \/ l.command \in {"PART", "LIST"} /\ Missing(l.args, 1)
    \/ l.command = "TOPIC" /\ ~Missing(l.args, 1) /\ Absent(l.args, 2)

\* What the handler of a command looks at.
Seen(command, m) ==
    LET error(codes) == IF m.parse_err \in codes THEN m.parse_err ELSE None
        unless(codes, fields) == IF m.parse_err \in codes THEN <<>> ELSE fields
    IN CASE command = "NICK" -> <<error({"431"}), unless({"431"}, <<m.first>>)>>
         [] command = "USER" ->
                <<error({"461"}), unless({"461"}, <<m.first, m.second>>)>>
         [] command = "PRIVMSG" ->
                <<error({"411", "412"}), unless({"411", "412"}, <<m.first, m.second>>)>>
         [] command = "WHOIS" -> <<None, <<m.second>>>>
         [] command = "JOIN" -> <<error({"461"}), unless({"461"}, <<m.first>>)>>
         [] command = "PART" -> <<None, <<m.first, m.second>>>>
         [] command = "TOPIC" ->
                <<error({"461"}), unless({"461"}, <<m.first, m.second>>)>>
         [] command \in {"LIST", "NAMES", "AWAY"} -> <<None, <<m.first>>>>
         [] OTHER -> <<None, <<>>>>

\* irc_message_s is cleared once per read (client.c:119), yet what a handler
\* sees of a line does not depend on the lines before it, whatever they were,
\* except for the five kinds of LeavesField.
LinesIndependent ==
    line # NoLine /\ ~LeavesField(line) =>
        Seen(line.command, message) =
            Seen(line.command, parse_message(Cleared, line))

\* No line sees anything of an earlier read, which may have been another
\* client's: the first line of a read is parsed as if it were alone, even the
\* kinds of LeavesField.
FirstLineIsClean ==
    handled = 1 => message = parse_message(Cleared, line)

Errors == {"411", "412", "431", "461"}

\* A client is told of a missing parameter only about a line that misses one,
\* or about a JOIN 0, which keeps the parse_err of the line before it.
ErrorIsOwn ==
    handled > 0 /\ (\E w \in out : w.kind \in Errors) =>
        \/ Missing(line.args, 1)
        \/ line.command = "PRIVMSG" /\ Absent(line.args, 2)
        \/ line.command = "USER" /\ Absent(line.args, 4)
        \/ line.args = <<Zero>>

\* The channels a line names.
Named(l) ==
    IF Missing(l.args, 1) THEN {}
    ELSE IF l.command = "JOIN" THEN {Key(n) : n \in Split[l.args[1]]}
    ELSE {Key(l.args[1])}

\* A line changes only channels it names itself, though its record may point
\* into the text of others, unless it is a PART without a channel or a JOIN 0:
\* a TOPIC that inherits its text still has its own target.
ChangesNamed ==
    handled' > handled => LET l == line' IN
        \/ l.command = "PART" /\ Missing(l.args, 1)
        \/ l.args = <<Zero>>
        \/ \A k \in Names \ Named(l) : members'[k] = members[k] /\ topic'[k] = topic[k]

TargetIsOwn == [][ChangesNamed]_sessionVars

\* handlers.c:549: "If no topic was specified, then we simply return the
\* current topic."
QueryLeavesTopic ==
    [][handled' > handled /\ line'.command = "TOPIC" /\ Len(line'.args) = 1
       => UNCHANGED topic]_sessionVars
=============================================================================
