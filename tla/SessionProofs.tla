--------------------------- MODULE SessionProofs ---------------------------
(***************************************************************************)
(* Theorems about the server as its reads feed it, for any number of       *)
(* clients, any set of strings and any number of lines per read.           *)
(***************************************************************************)
EXTENDS Session, ServerProofs

Codes == {None, "411", "412", "431", "432", "461"}
Messages == [first : SUBSET Texts, second : SUBSET Texts, parse_err : Codes]

-----------------------------------------------------------------------------
(* Parsing. *)

\* The tokens of a line are strings, or the "0" of a JOIN.
LEMMA LineTokens ==
    ASSUME NEW l \in Lines
    PROVE  /\ Len(l.args) \in Nat
           /\ \A i \in Nat \ {0} : ~Absent(l.args, i) =>
                l.args[i] \in Texts \/ (l.command = "JOIN" /\ l.args = <<Zero>> /\ i = 1)
<1>1. l.args \in {NoArgs} \cup OneArg \cup TwoArgs \cup UserArgs
      \/ (l.command = "JOIN" /\ l.args = <<Zero>>)
  <2>1. \A commands, args : l \in Line(commands, args) =>
            l.command \in commands /\ l.args \in args
    BY DEF Line
  <2>. QED
    <3>1. CASE l \in Line({"JOIN"}, {<<Zero>>})
      BY <2>1, <3>1
    <3>2. CASE l \notin Line({"JOIN"}, {<<Zero>>})
      <4>1. \E commands : \E args \in {{NoArgs} \cup OneArg, TwoArgs, UserArgs, {NoArgs}} :
                l \in Line(commands, args)
        BY <3>2 DEF Lines
      <4>. QED
        BY <2>1, <4>1
    <3>. QED
      BY <3>1, <3>2
<1>2. CASE l.args = NoArgs
  BY <1>2 DEF NoArgs, Absent
<1>3. CASE l.args \in OneArg
  <2>1. PICK t \in Texts : l.args = <<t>>
    BY <1>3 DEF OneArg
  <2>2. Len(l.args) = 1 /\ l.args[1] \in Texts
    BY <2>1
  <2>3. \A i \in Nat \ {0} : ~Absent(l.args, i) => i = 1
    BY <2>2 DEF Absent
  <2>. QED
    BY <2>2, <2>3
<1>4. CASE l.args \in TwoArgs
  <2>1. PICK t \in Texts, u \in Texts : l.args = <<t, u>>
    BY <1>4 DEF TwoArgs, Words
  <2>2. Len(l.args) = 2 /\ l.args[1] \in Texts /\ l.args[2] \in Texts
    BY <2>1
  <2>3. \A i \in Nat \ {0} : ~Absent(l.args, i) => i \in {1, 2}
    BY <2>2 DEF Absent
  <2>. QED
    BY <2>2, <2>3
<1>5. CASE l.args \in UserArgs
  <2>1. PICK t \in Texts, u \in Texts : l.args = <<t, t, t, u>> \/ l.args = <<t, t, t>>
    BY <1>5 DEF UserArgs, Words
  <2>2. CASE l.args = <<t, t, t, u>>
    <3>1. /\ Len(l.args) = 4
          /\ l.args[1] = t /\ l.args[2] = t /\ l.args[3] = t /\ l.args[4] = u
      BY <2>2
    <3>2. \A i \in Nat \ {0} : ~Absent(l.args, i) => i \in {1, 2, 3, 4}
      BY <3>1 DEF Absent
    <3>. QED
      BY <3>1, <3>2
  <2>3. CASE l.args = <<t, t, t>>
    <3>1. Len(l.args) = 3 /\ l.args[1] = t /\ l.args[2] = t /\ l.args[3] = t
      BY <2>3
    <3>2. \A i \in Nat \ {0} : ~Absent(l.args, i) => i \in {1, 2, 3}
      BY <3>1 DEF Absent
    <3>. QED
      BY <3>1, <3>2
  <2>. QED
    BY <2>1, <2>2, <2>3
<1>6. CASE l.command = "JOIN" /\ l.args = <<Zero>>
  BY <1>6 DEF Absent
<1>. QED
  BY <1>1, <1>2, <1>3, <1>4, <1>5, <1>6

LEMMA OverwrittenTyped ==
    ASSUME NEW m \in Messages
    PROVE  Overwritten(m) \in Messages
BY DEF Messages, Overwritten, Stale, NULL

\* Every parser leaves a record of pointers and a code the handlers know.
LEMMA ParseTyped ==
    ASSUME NEW m \in Messages, NEW l \in Lines
    PROVE  parse_message(m, l) \in Messages
<1>. DEFINE args == l.args
<1>1. Len(args) \in Nat
  BY LineTokens
<1>2. \A i \in {1, 2, 4} : ~Absent(args, i) =>
        args[i] \in Texts \/ (l.command = "JOIN" /\ args = <<Zero>>)
  BY LineTokens
<1>3. \A code \in Codes : Failed(m, code) \in Messages
  BY DEF Failed, Messages
<1>. USE DEF Missing, Token, NULL
<1>4. CASE l.command = "NICK"
  <2>1. parse_message(m, l) = parse_message_nick(m, args)
    BY <1>4 DEF parse_message
  <2>2. ~Absent(args, 1) =>
          [m EXCEPT !.first = {args[1]}, !.parse_err = None] \in Messages
    BY <1>2, <1>4 DEF Messages, Codes
  <2>. QED
    BY <1>3, <2>1, <2>2 DEF parse_message_nick, Codes
<1>5. CASE l.command = "USER"
  <2>1. ~Absent(args, 1) => Failed([m EXCEPT !.first = {args[1]}], "461") \in Messages
    BY <1>2, <1>5 DEF Failed, Messages, Codes
  <2>2. parse_message(m, l) = parse_message_user(m, args)
    BY <1>5 DEF parse_message
  <2>3. ~Absent(args, 1) /\ ~Absent(args, 4) =>
          [first |-> {args[1]}, second |-> {args[4]}, parse_err |-> None] \in Messages
    BY <1>2, <1>5 DEF Messages, Codes
  <2>. QED
    BY <1>3, <2>1, <2>2, <2>3 DEF parse_message_user, Codes
<1>6. CASE l.command = "PRIVMSG"
  <2>1. ~Absent(args, 1) => Failed([m EXCEPT !.first = {args[1]}], "412") \in Messages
    BY <1>2, <1>6 DEF Failed, Messages, Codes
  <2>2. parse_message(m, l) = parse_message_privmsg(m, args)
    BY <1>6 DEF parse_message
  <2>3. ~Absent(args, 1) /\ ~Absent(args, 2) =>
          [first |-> {args[1]}, second |-> {args[2]}, parse_err |-> None] \in Messages
    BY <1>2, <1>6 DEF Messages, Codes
  <2>. QED
    BY <1>3, <2>1, <2>2, <2>3 DEF parse_message_privmsg, Codes
<1>7. CASE l.command = "WHOIS"
  BY <1>2, <1>7 DEF parse_message, parse_message_whois, Messages
<1>8. CASE l.command = "JOIN"
  <2>1. args = <<Zero>> => args[1] = Zero
    OBVIOUS
  <2>. QED
    BY <1>2, <1>3, <1>8, <2>1 DEF parse_message, parse_message_join, Messages, Codes
<1>9. CASE l.command = "PART"
  BY <1>2, <1>3, <1>9 DEF parse_message, parse_message_part, Messages, Codes
<1>10. CASE l.command = "LIST"
  BY <1>2, <1>10 DEF parse_message, parse_message_list, Messages, Codes
<1>11. CASE l.command = "TOPIC"
  BY <1>2, <1>3, <1>11 DEF parse_message, parse_message_topic, Messages, Codes
<1>12. CASE l.command \in {"NAMES", "AWAY"}
  BY <1>2, <1>12 DEF parse_message, parse_message_names, parse_message_away, Messages
<1>13. CASE l.command \notin {"NICK", "USER", "PRIVMSG", "WHOIS", "JOIN", "PART",
                              "LIST", "TOPIC", "NAMES", "AWAY"}
  BY <1>13 DEF parse_message
<1>. QED
  BY <1>4, <1>5, <1>6, <1>7, <1>8, <1>9, <1>10, <1>11, <1>12, <1>13

\* Two records that differ in pointers and error only, parsed from the same
\* line, show the handler the same unless the line leaves a field it reads.
LEMMA ParseDecides ==
    ASSUME NEW m \in Messages, NEW l \in Lines, ~LeavesField(l)
    PROVE  Seen(l.command, parse_message(m, l)) =
               Seen(l.command, parse_message(Cleared, l))
<1>. DEFINE args == l.args
<1>0. Cleared \in Messages
  BY DEF Cleared, Messages, NULL, Codes
<1>z. \A t \in Texts : t # Zero
  BY TextsAssumption
<1>. USE <1>0 DEF LeavesField, Messages, Seen, Failed
<1>1. CASE l.command = "NICK"
  <2>1. \A r \in Messages : parse_message(r, l) = parse_message_nick(r, args)
    BY <1>1 DEF parse_message
  <2>. QED
    BY <1>1, <2>1 DEF parse_message_nick
<1>2. CASE l.command = "USER"
  <2>1. \A r \in Messages : parse_message(r, l) = parse_message_user(r, args)
    BY <1>2 DEF parse_message
  <2>. QED
    BY <1>2, <2>1 DEF parse_message_user
<1>3. CASE l.command = "PRIVMSG"
  <2>1. \A r \in Messages : parse_message(r, l) = parse_message_privmsg(r, args)
    BY <1>3 DEF parse_message
  <2>. QED
    BY <1>3, <2>1 DEF parse_message_privmsg
<1>4. CASE l.command = "WHOIS"
  BY <1>4 DEF parse_message, parse_message_whois
<1>5. CASE l.command = "JOIN"
  <2>1. ~Absent(args, 1) /\ args[1] = Zero => args = <<Zero>>
    BY LineTokens, <1>z
  <2>2. \A r \in Messages : parse_message(r, l) = parse_message_join(r, args)
    BY <1>5 DEF parse_message
  <2>3. CASE Missing(args, 1)
    BY <1>5, <2>2, <2>3 DEF parse_message_join
  <2>4. CASE ~Missing(args, 1)
    <3>1. args[1] # Zero
      BY <1>5, <2>1, <2>4 DEF Missing
    <3>2. \A r \in Messages : /\ parse_message(r, l).first = {args[1]}
                              /\ parse_message(r, l).parse_err = None
      BY <2>2, <2>4, <3>1 DEF parse_message_join
    <3>. QED
      BY <1>5, <3>2
  <2>. QED
    BY <2>3, <2>4
<1>6. CASE l.command = "PART"
  BY <1>6 DEF parse_message, parse_message_part
<1>7. CASE l.command = "LIST"
  BY <1>7 DEF parse_message, parse_message_list
<1>8. CASE l.command = "TOPIC"
  <2>1. \A r \in Messages : parse_message(r, l) = parse_message_topic(r, args)
    BY <1>8 DEF parse_message
  <2>. QED
    BY <1>8, <2>1 DEF parse_message_topic, Missing
<1>9. CASE l.command = "NAMES"
  BY <1>9 DEF parse_message, parse_message_names
<1>10. CASE l.command = "AWAY"
  BY <1>10 DEF parse_message, parse_message_away
<1>11. CASE l.command \notin {"NICK", "USER", "PRIVMSG", "WHOIS", "JOIN", "PART",
                              "LIST", "TOPIC", "NAMES", "AWAY"}
  BY <1>11
<1>. QED
  BY <1>1, <1>2, <1>3, <1>4, <1>5, <1>6, <1>7, <1>8, <1>9, <1>10, <1>11

-----------------------------------------------------------------------------
(* What a read hands to the server. *)

\* Between reads nothing is left over, and a read starts with a clear record.
ReadShape ==
    /\ reading = 0 => handled = 0
    /\ handled = 0 <=> line = NoLine
    /\ reading # 0 /\ handled = 0 => message = Cleared

SessionInv ==
    /\ SessionTypeOK
    /\ ReadShape
    /\ LinesIndependent
    /\ FirstLineIsClean

LEMMA MessageStepIsNext ==
    ASSUME NEW c \in Ids, OnRegistry(MessageStep(c))
    PROVE  Next
BY DEF OnRegistry, Next, ClientsNext

\* Whatever the record says, its handler does one of the steps of Server.
LEMMA HandleIsNext ==
    ASSUME NEW c \in Ids, NEW command, NEW m \in Messages, Handle(c, command, m)
    PROVE  Next
<1>. USE TextsAssumption DEF Messages
<1>1. CASE DoNick(c, m)
  <2>1. CASE OnRegistry(Handler_NickMissing(c))
    BY <2>1, MessageStepIsNext DEF MessageStep, OnRegistry
  <2>2. CASE OnRegistry(Handler_NickErroneous(c))
    BY <2>2, MessageStepIsNext DEF MessageStep, OnRegistry
  <2>3. ASSUME NEW t \in Nicks, OnRegistry(Handler_Nick(c, t)) PROVE Next
    BY <2>3, MessageStepIsNext DEF MessageStep, OnRegistry
  <2>. QED
    BY <1>1, <2>1, <2>2, <2>3 DEF DoNick, OnRegistry
<1>2. CASE DoUser(c, m)
  <2>1. OnRegistry(Handler_UserMissing(c)) \/ OnRegistry(Handler_User(c))
    BY <1>2 DEF DoUser, OnRegistry
  <2>. QED
    BY <2>1, MessageStepIsNext DEF MessageStep, OnRegistry
<1>3. CASE DoPrivmsg(c, m)
  BY <1>3 DEF DoPrivmsg, Next, ChannelStep
<1>4. CASE DoWhoIs(c, m)
  <2>1. CASE OnRegistry(Ignored(c))
    BY <2>1, MessageStepIsNext DEF MessageStep, OnRegistry
  <2>2. ASSUME NEW n \in Nicks \cup {None}, OnRegistry(Handler_WhoIs(c, n)) PROVE Next
    BY <2>2, MessageStepIsNext DEF MessageStep, OnRegistry
  <2>. QED
    BY <1>4, <2>1, <2>2 DEF DoWhoIs, OnRegistry
<1>5. CASE DoJoin(c, m)
  BY <1>5 DEF DoJoin, Next, ChannelStep
<1>6. CASE DoPart(c, m)
  BY <1>6 DEF DoPart, Next, ChannelStep
<1>7. CASE DoList(c, m)
  BY <1>7 DEF DoList, Next, ChannelStep
<1>8. CASE DoTopic(c, m)
  BY <1>8 DEF DoTopic, TopicOf, Next, ChannelStep
<1>9. CASE DoNames(c, m)
  BY <1>9 DEF DoNames, Next, ChannelStep
<1>10. CASE handler_away(c, m.first # NULL)
  BY <1>10 DEF Next, ChannelStep
<1>11. CASE OnRegistry(Handler_Ping(c))
  BY <1>11, MessageStepIsNext DEF MessageStep, OnRegistry
<1>12. CASE \E present \in BOOLEAN : OnRegistry(Handler_Motd(c, present))
  BY <1>12, MessageStepIsNext DEF MessageStep, OnRegistry
<1>13. CASE OnRegistry(Handler_LUsers(c))
  BY <1>13, MessageStepIsNext DEF MessageStep, OnRegistry
<1>14. CASE OnRegistry(Handler_Unknown(c))
  BY <1>14, MessageStepIsNext DEF MessageStep, OnRegistry
<1>15. CASE OnRegistry(Ignored(c))
  BY <1>15, MessageStepIsNext DEF MessageStep, OnRegistry
<1>. QED
  BY <1>1, <1>2, <1>3, <1>4, <1>5, <1>6, <1>7, <1>8, <1>9, <1>10, <1>11, <1>12,
     <1>13, <1>14, <1>15 DEF Handle

\* A step of the session is a step of the server or leaves it alone.
LEMMA SessionStep ==
    ASSUME SessionTypeOK, [SessionNext]_sessionVars
    PROVE  [Next]_serverVars
<1>1. CASE OtherEvent
  BY <1>1 DEF OtherEvent, OnRegistry, Next, ClientsNext, ConnectionStep
<1>2. ASSUME NEW c \in Ids, BeginRead(c) \/ EndRead(c) PROVE [Next]_serverVars
  BY <1>2 DEF BeginRead, EndRead
<1>3. ASSUME NEW c \in Ids, NEW l \in Lines, HandleLine(c, l)
      PROVE  [Next]_serverVars
  <2>1. message \in Messages
    BY DEF SessionTypeOK, Messages, Codes
  <2>2. message' \in Messages
    BY <1>3, <2>1, OverwrittenTyped, ParseTyped DEF HandleLine
  <2>. QED
    BY <1>3, <2>2, HandleIsNext DEF HandleLine
<1>4. CASE UNCHANGED sessionVars
  BY <1>4 DEF sessionVars
<1>. QED
  BY <1>1, <1>2, <1>3, <1>4 DEF SessionNext

LEMMA SessionInvInductive ==
    ASSUME SessionInv, [SessionNext]_sessionVars
    PROVE  SessionInv'
<1>0. Cleared \in Messages
  BY DEF Cleared, Messages, NULL, Codes
<1>1. CASE OtherEvent \/ UNCHANGED sessionVars
  BY <1>1 DEF OtherEvent, sessionVars, SessionInv, SessionTypeOK, ReadShape,
              LinesIndependent, FirstLineIsClean
<1>2. ASSUME NEW c \in Ids, BeginRead(c) PROVE SessionInv'
  <2>1. SessionTypeOK'
    BY <1>0, <1>2 DEF BeginRead, SessionInv, SessionTypeOK, Messages, Codes
  <2>2. ReadShape' /\ handled' = 0 /\ line' = NoLine
    BY <1>2 DEF BeginRead, SessionInv, ReadShape, Ids
  <2>. QED
    BY <2>1, <2>2 DEF SessionInv, LinesIndependent, FirstLineIsClean
<1>3. ASSUME NEW c \in Ids, EndRead(c) PROVE SessionInv'
  <2>1. SessionTypeOK'
    BY <1>3, MaxLinesAssumption DEF EndRead, SessionInv, SessionTypeOK
  <2>2. ReadShape' /\ handled' = 0 /\ line' = NoLine
    BY <1>3 DEF EndRead, SessionInv, ReadShape
  <2>. QED
    BY <2>1, <2>2 DEF SessionInv, LinesIndependent, FirstLineIsClean
<1>4. ASSUME NEW c \in Ids, NEW l \in Lines, HandleLine(c, l)
      PROVE  SessionInv'
  <2>1. message \in Messages
    BY DEF SessionInv, SessionTypeOK, Messages, Codes
  <2>2. Overwritten(message) \in Messages
    BY <2>1, OverwrittenTyped
  <2>3. message' \in Messages
    BY <1>4, <2>2, ParseTyped DEF HandleLine
  <2>4. l # NoLine
    <3>1. \A commands, args : l \in Line(commands, args) => l.command \in commands
      BY DEF Line
    <3>2. l.command # "none"
      BY <3>1 DEF Lines
    <3>. QED
      BY <3>2 DEF NoLine
  <2>5. SessionTypeOK'
    BY <1>4, <2>3, MaxLinesAssumption
       DEF HandleLine, SessionInv, SessionTypeOK, Messages, Codes
  <2>6. ReadShape'
    BY <1>4, <2>4, MaxLinesAssumption
       DEF HandleLine, SessionInv, SessionTypeOK, ReadShape, Ids
  <2>7. LinesIndependent'
    BY <1>4, <2>2, ParseDecides DEF HandleLine, LinesIndependent
  <2>8. FirstLineIsClean'
    <3>1. Overwritten(Cleared) = Cleared
      BY DEF Overwritten, Stale, Cleared, NULL
    <3>2. handled' = 1 => message = Cleared
      BY <1>4, MaxLinesAssumption
         DEF HandleLine, SessionInv, SessionTypeOK, ReadShape, Ids
    <3>. QED
      BY <1>4, <3>1, <3>2 DEF HandleLine, FirstLineIsClean
  <2>. QED
    BY <2>5, <2>6, <2>7, <2>8 DEF SessionInv
<1>. QED
  BY <1>1, <1>2, <1>3, <1>4 DEF SessionNext

LEMMA SessionStarts == SessionInit => SessionInv
<1>1. Cleared \in Messages
  BY DEF Cleared, Messages, NULL, Codes
<1>. QED
  BY <1>1, MaxLinesAssumption
     DEF SessionInit, SessionInv, SessionTypeOK, ReadShape, LinesIndependent,
         FirstLineIsClean, Messages, Codes

LEMMA SessionInvariant == SessionSpec => []SessionInv
BY SessionStarts, SessionInvInductive, PTL DEF SessionSpec

-----------------------------------------------------------------------------
(* Error replies. *)

Quiet == \A w \in out' : w.kind \notin Errors

LEMMA EmitQuiet ==
    ASSUME NEW writes, Emit(writes), \A w \in writes : w.kind \notin Errors
    PROVE  Quiet
BY DEF Emit, Crash, Stall, Quiet

LEMMA AnswerQuiet ==
    ASSUME NEW c, NEW kinds, Answer(c, kinds), kinds \cap Errors = {}
    PROVE  Quiet
<1>1. \A w \in {Write(c, k, None) : k \in kinds} : w.kind \notin Errors
  BY DEF Write
<1>. QED
  BY <1>1, EmitQuiet DEF Answer

\* No reply of these handlers is about a parameter.
LEMMA RegistryQuiet ==
    ASSUME NEW c \in Ids,
           \/ \E n \in Nicks : Handler_Nick(c, n)
           \/ \E n \in Nicks \cup {None} : Handler_WhoIs(c, n)
           \/ Handler_NickErroneous(c) \/ Handler_User(c)
           \/ \E present \in BOOLEAN : Handler_Motd(c, present)
           \/ Handler_LUsers(c) \/ Handler_Ping(c) \/ Handler_Unknown(c) \/ Ignored(c)
    PROVE  Quiet
<1>. USE DEF Errors
<1>1. ASSUME NEW n \in Nicks, Handler_Nick(c, n) PROVE Quiet
  <2>1. CASE Emit({Write(c, "433", n)})
    BY <2>1, EmitQuiet DEF Write
  <2>2. CASE Emit({Write(c, "001", None)})
    BY <2>2, EmitQuiet DEF Write
  <2>3. CASE Emit({})
    BY <2>3, EmitQuiet
  <2>. QED
    BY <1>1, <2>1, <2>2, <2>3 DEF Handler_Nick, ChangeNick, Client_TryRegister
<1>2. ASSUME NEW n \in Nicks \cup {None}, Handler_WhoIs(c, n) PROVE Quiet
  <2>1. CASE Undefined
    BY <2>1 DEF Undefined, Quiet
  <2>2. CASE Answer(c, {"311", "312", "318"})
    BY <2>2, AnswerQuiet
  <2>3. CASE Answer(c, {"401"})
    BY <2>3, AnswerQuiet
  <2>. QED
    BY <1>2, <2>1, <2>2, <2>3 DEF Handler_WhoIs
<1>3. CASE Handler_NickErroneous(c)
  BY <1>3 DEF Handler_NickErroneous, Crash, Undefined, Quiet
<1>4. CASE Handler_User(c)
  <2>1. CASE Answer(c, {"462"})
    BY <2>1, AnswerQuiet
  <2>2. CASE Emit({Write(c, "001", None)})
    BY <2>2, EmitQuiet DEF Write
  <2>3. CASE Emit({})
    BY <2>3, EmitQuiet
  <2>. QED
    BY <1>4, <2>1, <2>2, <2>3 DEF Handler_User, Client_TryRegister
<1>5. ASSUME NEW present \in BOOLEAN, Handler_Motd(c, present) PROVE Quiet
  <2>1. CASE present
    BY <1>5, <2>1, AnswerQuiet DEF Handler_Motd
  <2>2. CASE ~present
    BY <1>5, <2>2, AnswerQuiet DEF Handler_Motd
  <2>. QED
    BY <2>1, <2>2
<1>6. CASE Handler_LUsers(c)
  <2>1. ({"251", "255"} \cup (IF nUnknown # 0 THEN {"253"} ELSE {})) \cap Errors = {}
    OBVIOUS
  <2>. QED
    BY <1>6, <2>1, AnswerQuiet DEF Handler_LUsers
<1>7. CASE Handler_Ping(c)
  BY <1>7, AnswerQuiet DEF Handler_Ping
<1>8. CASE Handler_Unknown(c)
  BY <1>8, AnswerQuiet DEF Handler_Unknown
<1>9. CASE Ignored(c)
  BY <1>9, AnswerQuiet DEF Ignored
<1>. QED
  BY <1>1, <1>2, <1>3, <1>4, <1>5, <1>6, <1>7, <1>8, <1>9

LEMMA ChannelQuiet ==
    ASSUME NEW c \in Ids,
           \/ \E names : handler_join(c, names) \/ handler_list(c, names)
                         \/ handler_names(c, names)
           \/ handler_listAll(c) \/ handler_joinZero(c) \/ handler_partMissing(c)
           \/ \E n : handler_part(c, n) \/ handler_topicQuery(c, n)
           \/ \E n, t : handler_topicSet(c, n, t)
           \/ \E text : handler_away(c, text)
           \/ \E t : Handler_Privmsg(c, t)
    PROVE  Quiet
<1>. USE DEF Errors
<1>0. Crash \/ Undefined => Quiet
  BY DEF Crash, Undefined, Quiet
<1>1. ASSUME NEW k, NEW source, NEW kind \in {"JOIN", "PART", "PRIVMSG"}
      PROVE  \A w \in channel_send_message(k, source, kind) : w.kind \notin Errors
  BY <1>1 DEF channel_send_message, Write
<1>2. ASSUME NEW keys, NEW kinds, NEW frame, ReadChannels(c, keys, kinds, frame),
             (kinds \cup frame) \cap Errors = {}
      PROVE  Quiet
  <2>1. \A w \in {Write(c, kind, Stored[k]) : kind \in kinds, k \in keys \cap channels}
                 \cup {Write(c, kind, None) : kind \in frame} : w.kind \notin Errors
    BY <1>2 DEF Write
  <2>. QED
    BY <1>0, <1>2, <2>1, EmitQuiet DEF ReadChannels
<1>3. ASSUME NEW names, handler_join(c, names) PROVE Quiet
  <2>. DEFINE keys == {Key(n) : n \in names}
              writes == UNION {JoinReplies(c, k) \cup JoinNotices(c, k) : k \in keys}
  <2>1. ASSUME NEW k PROVE \A w \in JoinReplies(c, k) : w.kind \notin Errors
    BY DEF JoinReplies, Write
  <2>2. ASSUME NEW k PROVE \A w \in JoinNotices(c, k) : w.kind \notin Errors
    BY <1>1 DEF JoinNotices
  <2>3. \A w \in writes : w.kind \notin Errors
    BY <2>1, <2>2
  <2>4. CASE Emit(writes)
    <3>. HIDE DEF writes
    <3>. QED
      BY <2>3, <2>4, EmitQuiet
  <2>. QED
    BY <1>0, <1>3, <2>4 DEF handler_join
<1>4. ASSUME NEW names, handler_list(c, names) \/ handler_names(c, names) PROVE Quiet
  <2>1. CASE handler_list(c, names)
    BY <1>2, <2>1 DEF handler_list
  <2>2. CASE handler_names(c, names)
    BY <1>2, <2>2 DEF handler_names
  <2>. QED
    BY <1>4, <2>1, <2>2
<1>5. CASE handler_listAll(c)
  BY <1>2, <1>5 DEF handler_listAll
<1>6. CASE handler_joinZero(c) \/ handler_partMissing(c)
  BY <1>0, <1>6 DEF handler_joinZero, handler_partMissing
<1>7. ASSUME NEW n, handler_part(c, n) PROVE Quiet
  <2>1. CASE Emit({Write(c, "403", Key(n))})
    BY <2>1, EmitQuiet DEF Write
  <2>2. CASE Emit({Write(c, NotOnChannel, Stored[Key(n)])})
    BY <2>2, EmitQuiet DEF Write, NotOnChannel
  <2>3. CASE Emit(channel_send_message(Key(n), c, "PART"))
    BY <1>1, <2>3, EmitQuiet
  <2>. QED
    BY <1>0, <1>7, <2>1, <2>2, <2>3 DEF handler_part
<1>8. ASSUME NEW n, handler_topicQuery(c, n) PROVE Quiet
  <2>. DEFINE w == IF Key(n) \notin channels THEN Write(c, "403", Key(n))
                   ELSE Write(c, IF topic[Key(n)] # None THEN "332" ELSE "331", Stored[Key(n)])
  <2>1. w.kind \notin Errors
    BY DEF Write
  <2>2. CASE Emit({w})
    <3>. HIDE DEF w
    <3>. QED
      BY <2>1, <2>2, EmitQuiet
  <2>. QED
    BY <1>0, <1>8, <2>2 DEF handler_topicQuery
<1>9. ASSUME NEW n, NEW t, handler_topicSet(c, n, t) PROVE Quiet
  <2>1. CASE Emit({})
    BY <2>1, EmitQuiet
  <2>. QED
    BY <1>0, <1>9, <2>1 DEF handler_topicSet
<1>10. ASSUME NEW text, handler_away(c, text) PROVE Quiet
  <2>1. (IF text THEN "306" ELSE "305") \notin Errors
    OBVIOUS
  <2>. QED
    BY <1>10, <2>1, EmitQuiet DEF handler_away, Write
<1>11. ASSUME NEW t, Handler_Privmsg(c, t) PROVE Quiet
  <2>1. CASE Emit(channel_send_message(t, c, "PRIVMSG"))
    BY <1>1, <2>1, EmitQuiet
  <2>2. CASE Emit({})
    BY <2>2, EmitQuiet
  <2>3. CASE Emit({Write(c, "401", t)})
    BY <2>3, EmitQuiet DEF Write
  <2>. DEFINE id == PrivmsgId(t)
              writes == {Write(id, "PRIVMSG", t)} \cup
                        (IF away[id] THEN {Write(c, "301", t)} ELSE {})
  <2>4. CASE Emit(writes)
    <3>1. \A w \in writes : w.kind \notin Errors
      BY DEF Write
    <3>. HIDE DEF writes
    <3>. QED
      BY <2>4, <3>1, EmitQuiet
  <2>. QED
    BY <1>0, <1>11, <2>1, <2>2, <2>3, <2>4
       DEF Handler_Privmsg, PrivmsgChannel, PrivmsgNick, PrivmsgKey
<1>. QED
  BY <1>3, <1>4, <1>5, <1>6, <1>7, <1>8, <1>9, <1>10, <1>11

\* The lines that are answered about a missing parameter.
Faulty(l) ==
    \/ Missing(l.args, 1)
    \/ l.command = "PRIVMSG" /\ Absent(l.args, 2)
    \/ l.command = "USER" /\ Absent(l.args, 4)
    \/ l.args = <<Zero>>

\* The parse error a handler acts on is one its own line has made.
LEMMA FaultIsParsed ==
    ASSUME NEW m \in Messages, NEW l \in Lines, ~Faulty(l)
    PROVE  l.command \in {"NICK", "USER", "PRIVMSG", "JOIN", "TOPIC"} =>
               parse_message(m, l).parse_err \in {None, "432"}
<1>. USE DEF Faulty, Messages, Failed
<1>1. ~(~Absent(l.args, 1) /\ l.args[1] = Zero)
  <2>1. \A t \in Texts : t # Zero
    BY TextsAssumption
  <2>. QED
    BY <2>1, LineTokens
<1>2. CASE l.command = "NICK"
  BY <1>2 DEF parse_message, parse_message_nick
<1>3. CASE l.command = "USER"
  BY <1>3 DEF parse_message, parse_message_user
<1>4. CASE l.command = "PRIVMSG"
  BY <1>4 DEF parse_message, parse_message_privmsg
<1>5. CASE l.command = "JOIN"
  BY <1>1, <1>5 DEF parse_message, parse_message_join, Missing
<1>6. CASE l.command = "TOPIC"
  BY <1>6 DEF parse_message, parse_message_topic
<1>. QED
  BY <1>2, <1>3, <1>4, <1>5, <1>6

LEMMA HandleQuiet ==
    ASSUME NEW c \in Ids, NEW m \in Messages, NEW l \in Lines, ~Faulty(l),
           Handle(c, l.command, parse_message(m, l))
    PROVE  Quiet
<1>. DEFINE p == parse_message(m, l)
<1>1. l.command \in {"NICK", "USER", "PRIVMSG", "JOIN", "TOPIC"} => p.parse_err \in {None, "432"}
  BY FaultIsParsed
<1>2. p \in Messages
  BY ParseTyped
<1>. HIDE DEF p
<1>3. None \notin {"411", "412", "431", "461"}
  BY NoErrorAssumption
<1>4. CASE l.command = "NICK" /\ DoNick(c, p)
  BY <1>1, <1>3, <1>4, RegistryQuiet DEF DoNick, OnRegistry
<1>5. CASE l.command = "USER" /\ DoUser(c, p)
  BY <1>1, <1>3, <1>5, RegistryQuiet DEF DoUser, OnRegistry
<1>6. CASE l.command = "PRIVMSG" /\ DoPrivmsg(c, p)
  BY <1>1, <1>3, <1>6, ChannelQuiet DEF DoPrivmsg
<1>7. CASE DoWhoIs(c, p)
  BY <1>7, RegistryQuiet DEF DoWhoIs, OnRegistry
<1>8. CASE l.command = "JOIN" /\ DoJoin(c, p)
  BY <1>1, <1>3, <1>8, ChannelQuiet DEF DoJoin
<1>9. CASE DoPart(c, p)
  BY <1>9, ChannelQuiet DEF DoPart
<1>10. CASE DoList(c, p)
  BY <1>10, ChannelQuiet DEF DoList
<1>11. CASE l.command = "TOPIC" /\ DoTopic(c, p)
  BY <1>1, <1>3, <1>11, ChannelQuiet DEF DoTopic
<1>12. CASE DoNames(c, p)
  BY <1>12, ChannelQuiet DEF DoNames
<1>13. CASE handler_away(c, p.first # NULL)
  BY <1>13, ChannelQuiet
<1>14. CASE \/ OnRegistry(Handler_Ping(c)) \/ OnRegistry(Handler_LUsers(c))
            \/ \E present \in BOOLEAN : OnRegistry(Handler_Motd(c, present))
            \/ OnRegistry(Handler_Unknown(c)) \/ OnRegistry(Ignored(c))
  BY <1>14, RegistryQuiet DEF OnRegistry
<1>15. Handle(c, l.command, p)
  BY DEF p
<1>. QED
  BY <1>4, <1>5, <1>6, <1>7, <1>8, <1>9, <1>10, <1>11, <1>12, <1>13, <1>14, <1>15
     DEF Handle

LEMMA ErrorStep ==
    ASSUME SessionInv, ErrorIsOwn, [SessionNext]_sessionVars
    PROVE  ErrorIsOwn'
<1>1. CASE UNCHANGED sessionVars
  BY <1>1 DEF sessionVars, serverVars, clientVars, ErrorIsOwn
<1>2. CASE OtherEvent
  <2>1. CASE reading = 0
    BY <1>2, <2>1 DEF OtherEvent, SessionInv, ReadShape, ErrorIsOwn
  <2>2. CASE reading # 0
    BY <1>2, <2>2 DEF OtherEvent, OnRegistry, PeerClose, ErrorIsOwn
  <2>. QED
    BY <2>1, <2>2
<1>3. ASSUME NEW c \in Ids, BeginRead(c) PROVE ErrorIsOwn'
  BY <1>3 DEF BeginRead, SessionInv, ReadShape, ErrorIsOwn
<1>4. ASSUME NEW c \in Ids, EndRead(c) PROVE ErrorIsOwn'
  BY <1>4 DEF EndRead, ErrorIsOwn
<1>5. ASSUME NEW c \in Ids, NEW l \in Lines, HandleLine(c, l) PROVE ErrorIsOwn'
  <2>1. Overwritten(message) \in Messages
    BY OverwrittenTyped DEF SessionInv, SessionTypeOK, Messages, Codes
  <2>2. Handle(c, l.command, parse_message(Overwritten(message), l)) /\ line' = l
    BY <1>5 DEF HandleLine
  <2>3. ~Faulty(l) => Quiet
    BY <2>1, <2>2, HandleQuiet
  <2>. QED
    BY <2>2, <2>3 DEF ErrorIsOwn, Quiet, Faulty
<1>. QED
  BY <1>1, <1>2, <1>3, <1>4, <1>5 DEF SessionNext

-----------------------------------------------------------------------------
(* Channels a line changes. *)

\* Nothing happens to channels outside S.
Within(S) == \A k \in Names \ S : members'[k] = members[k] /\ topic'[k] = topic[k]

LEMMA JoinWithin ==
    ASSUME NEW c \in Ids, NEW names \in SUBSET Names, handler_join(c, names)
    PROVE  Within({Key(n) : n \in names})
<1>1. CASE UNCHANGED channelVars
  BY <1>1 DEF channelVars, Within
<1>. DEFINE keys == {Key(n) : n \in names}
<1>2. CASE members' = MembersAfterJoin(c, keys) /\ topic' = TopicsAfterJoin(keys)
  <2>1. Within(keys)
    <3>. HIDE DEF keys
    <3>. QED
      BY <1>2 DEF MembersAfterJoin, TopicsAfterJoin, Within
  <2>. QED
    BY <2>1
<1>. QED
  BY <1>1, <1>2 DEF handler_join

LEMMA PartWithin ==
    ASSUME ServerTypeOK, ShortNames, NEW c \in Ids, NEW n \in Names, handler_part(c, n)
    PROVE  Within({Key(n)})
<1>1. CASE UNCHANGED channelVars
  BY <1>1 DEF channelVars, Within
<1>2. CASE Leave(c, Key(n))
  <2>1. Key(n) \in Names /\ Stored[Key(n)] = Key(n)
    BY LowerAssumption DEF Key, ShortNames
  <2>. QED
    BY <1>2, <2>1 DEF Leave, server_remove_channel, Within, ServerTypeOK
<1>. QED
  BY <1>1, <1>2 DEF handler_part

LEMMA TopicWithin ==
    ASSUME ServerTypeOK, NEW c \in Ids, NEW n \in Names, NEW t, handler_topicSet(c, n, t)
    PROVE  Within({Key(n)})
BY DEF handler_topicSet, channelVars, Within, ServerTypeOK

\* The other commands leave the channels alone.
LEMMA OtherHandlersWithin ==
    ASSUME NEW c \in Ids, NEW command, NEW m \in Messages, Handle(c, command, m),
           command \notin {"JOIN", "PART", "TOPIC"}
    PROVE  UNCHANGED channelVars
<1>1. ASSUME NEW keys, NEW kinds, NEW frame, ReadChannels(c, keys, kinds, frame)
      PROVE  UNCHANGED channelVars
  BY <1>1 DEF ReadChannels
<1>2. CASE DoNick(c, m) \/ DoUser(c, m) \/ DoWhoIs(c, m)
  BY <1>2 DEF DoNick, DoUser, DoWhoIs, OnRegistry
<1>3. CASE DoPrivmsg(c, m)
  BY <1>3 DEF DoPrivmsg, MissingParams, Handler_Privmsg
<1>4. CASE DoList(c, m) \/ DoNames(c, m)
  BY <1>1, <1>4 DEF DoList, DoNames, handler_list, handler_listAll, handler_names
<1>5. CASE handler_away(c, m.first # NULL)
  BY <1>5 DEF handler_away
<1>. QED
  BY <1>2, <1>3, <1>4, <1>5 DEF Handle, OnRegistry

LEMMA LineWithin ==
    ASSUME ServerTypeOK, ShortNames,
           NEW c \in Ids, NEW m \in Messages, NEW l \in Lines,
           Handle(c, l.command, parse_message(m, l)),
           ~(l.command = "PART" /\ Missing(l.args, 1)), l.args # <<Zero>>
    PROVE  Within(Named(l))
<1>. DEFINE p == parse_message(m, l)
            t == l.args[1]
<1>1. ~Missing(l.args, 1) => t \in Texts
  BY LineTokens DEF Missing
<1>2. Within({})  => Within(Named(l))
  BY DEF Within
<1>3. UNCHANGED channelVars => Within({})
  BY DEF channelVars, Within
<1>4. CASE l.command = "JOIN"
  <2>1. DoJoin(c, p)
    BY <1>4 DEF Handle
  <2>2. CASE Missing(l.args, 1)
    <3>1. p.parse_err = "461"
      BY <1>4, <2>2 DEF parse_message, parse_message_join, Failed, Messages
    <3>2. UNCHANGED channelVars
      BY <2>1, <3>1 DEF DoJoin, MissingParams
    <3>. QED
      BY <1>2, <1>3, <3>2
  <2>3. CASE ~Missing(l.args, 1)
    <3>1. t # Zero
      BY <1>1, <2>3, TextsAssumption
    <3>2. p.first = {t} /\ p.parse_err = None
      BY <1>4, <2>3, <3>1 DEF parse_message, parse_message_join, Messages
    <3>3. handler_join(c, Split[t])
      BY <2>1, <3>2, NoErrorAssumption DEF DoJoin, NULL
    <3>4. Split[t] \in SUBSET Names
      BY <1>1, <2>3, TextsAssumption
    <3>. QED
      BY <1>4, <2>3, <3>3, <3>4, JoinWithin DEF Named
  <2>. QED
    BY <2>2, <2>3
<1>5. CASE l.command = "PART"
  <2>1. DoPart(c, p) /\ ~Missing(l.args, 1)
    BY <1>5 DEF Handle
  <2>2. p.first = {t}
    BY <1>5, <2>1 DEF parse_message, parse_message_part
  <2>3. handler_part(c, t) /\ t \in Names
    BY <1>1, <2>1, <2>2, TextsAssumption DEF DoPart, NULL
  <2>. QED
    BY <1>5, <2>1, <2>3, PartWithin DEF Named
<1>6. CASE l.command = "TOPIC"
  <2>1. DoTopic(c, p)
    BY <1>6 DEF Handle
  <2>2. CASE Missing(l.args, 1)
    <3>1. p.parse_err = "461"
      BY <1>6, <2>2 DEF parse_message, parse_message_topic, Failed, Messages
    <3>2. UNCHANGED channelVars
      BY <2>1, <3>1 DEF DoTopic, MissingParams
    <3>. QED
      BY <1>2, <1>3, <3>2
  <2>3. CASE ~Missing(l.args, 1)
    <3>1. p.first = {t} /\ p.parse_err = None
      BY <1>6, <2>3 DEF parse_message, parse_message_topic, Messages
    <3>2. CASE handler_topicQuery(c, t)
      BY <1>2, <1>3, <3>2 DEF handler_topicQuery
    <3>3. ASSUME NEW u, handler_topicSet(c, t, TopicOf(u)) PROVE Within(Named(l))
      BY <1>1, <1>6, <2>3, <3>3, TextsAssumption, TopicWithin DEF Named
    <3>. QED
      BY <2>1, <3>1, <3>2, <3>3, NoErrorAssumption DEF DoTopic
  <2>. QED
    BY <2>2, <2>3
<1>7. CASE l.command \notin {"JOIN", "PART", "TOPIC"}
  BY <1>2, <1>3, <1>7, ParseTyped, OtherHandlersWithin
<1>. QED
  BY <1>4, <1>5, <1>6, <1>7

LEMMA TargetStep ==
    ASSUME SessionInv, ServerTypeOK, ShortNames, SessionNext
    PROVE  ChangesNamed
<1>1. CASE OtherEvent
  BY <1>1 DEF OtherEvent, SessionInv, SessionTypeOK, ChangesNamed
<1>2. ASSUME NEW c \in Ids, BeginRead(c) \/ EndRead(c) PROVE ChangesNamed
  BY <1>2, MaxLinesAssumption DEF BeginRead, EndRead, SessionInv, SessionTypeOK, ChangesNamed
<1>3. ASSUME NEW c \in Ids, NEW l \in Lines, HandleLine(c, l) PROVE ChangesNamed
  <2>1. Overwritten(message) \in Messages
    BY OverwrittenTyped DEF SessionInv, SessionTypeOK, Messages, Codes
  <2>2. Handle(c, l.command, parse_message(Overwritten(message), l)) /\ line' = l
    BY <1>3 DEF HandleLine
  <2>3. (l.command = "PART" /\ Missing(l.args, 1)) \/ l.args = <<Zero>> \/ Within(Named(l))
    BY <2>1, <2>2, LineWithin
  <2>. QED
    BY <2>2, <2>3 DEF ChangesNamed, Within
<1>. QED
  BY <1>1, <1>2, <1>3 DEF SessionNext

-----------------------------------------------------------------------------
\* The record of a read keeps its types, for any strings and lines
\* (parse_message).
THEOREM SessionTypesSafe == SessionSpec => []SessionTypeOK
BY SessionInvariant, PTL DEF SessionInv

\* Only an over-long NICK, a JOIN 0, a PART or LIST without a channel and a
\* TOPIC without a topic depend on the lines before them, whatever these were
\* and however many (parser.c, client.c:119).
THEOREM IndependenceSafe == SessionSpec => []LinesIndependent
BY SessionInvariant, PTL DEF SessionInv

\* No line sees anything of an earlier read (Client_HandleRead).
THEOREM FirstLineSafe == SessionSpec => []FirstLineIsClean
BY SessionInvariant, PTL DEF SessionInv

\* Server fed by reads and parser implements Server fed by arbitrary
\* messages: the stale fields of a batch lead to no step Server leaves out.
THEOREM SessionImplementsServer == SessionSpec => Spec
<1>1. SessionInit => Init
  BY DEF SessionInit
<1>2. SessionInv /\ [SessionNext]_sessionVars => [Next]_serverVars
  BY SessionStep DEF SessionInv
<1>. QED
  BY <1>1, <1>2, SessionInvariant, PTL DEF SessionSpec, Spec

\* So what the server promises its users holds whatever lines they send, in
\* whatever batches: tables and channels agree, and messages reach whom they
\* are meant for while he is connected.
THEOREM SessionKeepsServer ==
    SessionSpec => [](/\ NickTableAgrees /\ NicksResolve /\ CountersAgree
                      /\ MembersResolve /\ ChannelsInhabited
                      /\ StrayOnlyFromClosed)
BY SessionImplementsServer, ServerKeepsRegistry, MembersSafe, InhabitedSafe,
   DeliverySafe, PTL

\* No line is answered about a parameter it has, whatever the lines before it
\* left in the record; JOIN 0 is the only exception.
THEOREM ErrorsSafe == SessionSpec => []ErrorIsOwn
<1>1. SessionInit => ErrorIsOwn
  BY DEF SessionInit, ErrorIsOwn
<1>. QED
  BY <1>1, ErrorStep, SessionInvariant, PTL DEF SessionSpec

\* With names of at most fifty characters a line changes the channels it names
\* and no other, for any batch of lines (irc_message_s, channel.c).
THEOREM TargetSafe ==
    ASSUME ShortNames
    PROVE  SessionSpec => TargetIsOwn
<1>1. SessionInv /\ ServerTypeOK /\ [SessionNext]_sessionVars
          => [ChangesNamed]_sessionVars
  BY TargetStep
<1>. QED
  BY <1>1, SessionInvariant, SessionImplementsServer, ChannelTypesSafe, PTL
     DEF SessionSpec, TargetIsOwn
=============================================================================
