--------------------------- MODULE RepliesProofs ---------------------------
(* Proofs about module Replies, for any number of members and any message. *)
EXTENDS Replies, TLAPS

\* The prefix has 131 characters and a nickname adds at most ten, the first nine.
NamesInv ==
    /\ job \in {"idle", "names", "motd", "done"}
    /\ listed \in Nat /\ offset \in Nat
    /\ job \in {"idle", "motd"} => listed = 0 /\ offset = 0
    /\ job = "names" /\ listed = 0 => offset = 131
    /\ job = "names" /\ listed > 0 => offset <= 130 + 10 * listed
    /\ job = "done" /\ listed = 0 => offset = 0
    /\ job = "done" /\ listed > 0 => offset <= 132 + 10 * listed

\* What Handler_Motd has replied of a message after its last fragment.
InTheEnd(len) ==
    IF len % MOTD_FRAGMENT_MAX = 0 THEN len - MOTD_FRAGMENT_MAX ELSE len

\* Before the last fragment, every fragment was a whole one.
MotdInv ==
    /\ motd \in Nat /\ fragment \in Nat /\ shown \in Int
    /\ job = "motd" =>
         /\ motd > 0
         /\ fragment <= NumParts(motd)
         /\ fragment < NumParts(motd) => shown = fragment * MOTD_FRAGMENT_MAX
         /\ fragment = NumParts(motd) => shown = InTheEnd(motd)

LEMMA MinOfTwo ==
    ASSUME NEW a \in Int, NEW b \in Int
    PROVE  Min({a, b}) = IF a <= b THEN a ELSE b
<1>. DEFINE m == IF a <= b THEN a ELSE b
<1>1. m \in {a, b} /\ \A y \in {a, b} : m <= y
  OBVIOUS
<1>2. \A x \in {a, b} : (\A y \in {a, b} : x <= y) => x = m
  OBVIOUS
<1>. QED
  BY <1>1, <1>2 DEF Min

\* How a length divides into fragments.
LEMMA Fragments ==
    ASSUME NEW len \in Nat, len > 0
    PROVE  /\ NumParts(len) \in Nat /\ NumParts(len) > 0
           /\ len % 80 = 0 => len = 80 * NumParts(len)
           /\ len % 80 # 0 => len = 80 * (NumParts(len) - 1) + (len % 80)
           /\ len % 80 \in 0..79
<1>1. len = 80 * (len \div 80) + (len % 80) /\ len \div 80 \in Nat /\ len % 80 \in 0..79
  OBVIOUS
<1>. QED
  BY <1>1 DEF NumParts, MOTD_FRAGMENT_MAX

\* Every fragment but the last is a whole one, and what the last one holds.
LEMMA PartIs ==
    ASSUME NEW len \in Nat, len > 0, NEW j \in Nat, j < NumParts(len)
    PROVE  PartLength(j, len) = IF j < NumParts(len) - 1 THEN 80 ELSE len % 80
<1>. DEFINE n == NumParts(len)
            piece == IF j < n - 1 THEN 80 ELSE len % 80
<1>1. /\ n \in Nat /\ n > 0 /\ j < n
      /\ len % 80 = 0 => len = 80 * n
      /\ len % 80 # 0 => len = 80 * (n - 1) + (len % 80)
      /\ len % 80 \in 0..79
  BY Fragments
<1>2. PartLength(j, len) = Min({len - j * 80, piece})
  BY DEF PartLength, MOTD_FRAGMENT_MAX
<1>. HIDE DEF n
<1>3. len - j * 80 \in Int /\ piece \in Int
  BY <1>1
<1>4. len >= 80 * (n - 1) + (len % 80)
  BY <1>1
<1>5. piece <= len - j * 80
  <2>1. CASE j < n - 1
    <3>1. j * 80 <= 80 * (n - 1) - 80
      BY <1>1, <2>1
    <3>. QED
      BY <1>1, <1>4, <2>1, <3>1
  <2>2. CASE ~(j < n - 1)
    <3>1. j = n - 1
      BY <1>1, <2>2
    <3>. QED
      BY <1>1, <1>4, <2>2, <3>1
  <2>. QED
    BY <2>1, <2>2
<1>6. PartLength(j, len) = piece
  <2>1. Min({len - j * 80, piece}) = IF len - j * 80 <= piece THEN len - j * 80 ELSE piece
    BY <1>3, MinOfTwo
  <2>. QED
    BY <1>2, <1>3, <1>5, <2>1
<1>. QED
  BY <1>6 DEF n

-----------------------------------------------------------------------------
(* The names reply *)

\* What one nickname adds, with its separator.
LEMMA AppendedIs ==
    ASSUME NEW nick \in Widths
    PROVE  /\ nick \in 1..9
           /\ Appended(nick) = IF listed = 0 THEN nick ELSE 1 + nick
  BY RepliesAssumption DEF Appended

LEMMA NamesInductive ==
    ASSUME NamesInv, [RepliesNext]_replyVars
    PROVE  NamesInv'
<1>1. CASE PushReply
  BY <1>1 DEF NamesInv, PushReply
<1>2. CASE NamesBegin
  BY <1>2 DEF NamesInv, NamesBegin, NamesPrefix, Width
<1>3. CASE NamesMember
  <2>1. PICK nick \in Widths : offset' = offset + Appended(nick)
    BY <1>3 DEF NamesMember
  <2>2. nick \in 1..9 /\ offset' = offset + IF listed = 0 THEN nick ELSE 1 + nick
    BY <2>1, AppendedIs
  <2>. QED
    BY <1>3, <2>2 DEF NamesInv, NamesMember
<1>4. CASE NamesEnd
  BY <1>4 DEF NamesInv, NamesEnd
<1>5. CASE MotdBegin
  BY <1>5 DEF NamesInv, MotdBegin
<1>6. CASE MotdPart
  BY <1>6 DEF NamesInv, MotdPart
<1>7. CASE MotdEnd
  BY <1>7 DEF NamesInv, MotdEnd
<1>8. CASE UNCHANGED replyVars
  BY <1>8 DEF NamesInv, replyVars
<1>. QED
  BY <1>1, <1>2, <1>3, <1>4, <1>5, <1>6, <1>7, <1>8 DEF RepliesNext

\* Reply_RplNamReply stays in its buffer at every append for a channel of at
\* most thirty-eight members, whatever their nicknames and however many
\* members channels may have.
THEOREM NamesSafe == RepliesSpec => []NamReplyFits
<1>1. RepliesInit => NamesInv
  BY DEF RepliesInit, NamesInv
<1>2. NamesInv /\ [RepliesNext]_replyVars => NamesInv'
  BY NamesInductive
<1>3. NamesInv => NamReplyFits
  BY DEF NamesInv, NamReplyFits, NamesLimit, IRC_MSG_SIZE
<1>. QED
  BY <1>1, <1>2, <1>3, PTL DEF RepliesSpec

-----------------------------------------------------------------------------
(* The message of the day *)

\* The fragments that Handler_Motd has replied so far, one more at each step.
LEMMA MotdGrows ==
    ASSUME MotdInv, MotdPart
    PROVE  MotdInv'
<1>. DEFINE n == NumParts(motd)
<1>1. /\ motd \in Nat /\ motd > 0 /\ motd' = motd
      /\ fragment \in Nat /\ fragment < n /\ fragment' = fragment + 1
      /\ shown = fragment * 80
      /\ shown' = shown + PartLength(fragment, motd)
      /\ job = "motd" /\ job' = "motd"
  BY DEF MotdInv, MotdPart, MOTD_FRAGMENT_MAX
<1>2. /\ n \in Nat /\ n > 0
      /\ motd % 80 = 0 => motd = 80 * n
      /\ motd % 80 # 0 => motd = 80 * (n - 1) + (motd % 80)
      /\ motd % 80 \in 0..79
  BY <1>1, Fragments
<1>3. PartLength(fragment, motd) = IF fragment < n - 1 THEN 80 ELSE motd % 80
  BY <1>1, PartIs
<1>4. n' = n
  BY <1>1 DEF NumParts
<1>. HIDE DEF n
<1>5. shown' \in Int /\ fragment' \in Nat /\ fragment' <= n
  BY <1>1, <1>2, <1>3
<1>6. fragment' < n => shown' = fragment' * 80
  BY <1>1, <1>2, <1>3
<1>7. fragment' = n => shown' = IF motd % 80 = 0 THEN motd - 80 ELSE motd
  <2>. SUFFICES ASSUME fragment' = n
                PROVE  shown' = IF motd % 80 = 0 THEN motd - 80 ELSE motd
    OBVIOUS
  <2>1. fragment = n - 1
    BY <1>1, <1>2
  <2>2. shown' = 80 * (n - 1) + (motd % 80)
    BY <1>1, <1>2, <1>3, <2>1
  <2>. QED
    BY <1>1, <1>2, <2>2
<1>8. NumParts(motd)' = n
  BY <1>4 DEF n
<1>. QED
  BY <1>1, <1>5, <1>6, <1>7, <1>8 DEF MotdInv, InTheEnd, MOTD_FRAGMENT_MAX

LEMMA MotdInductive ==
    ASSUME MotdInv, [RepliesNext]_replyVars
    PROVE  MotdInv'
<1>1. CASE PushReply
  BY <1>1 DEF MotdInv, PushReply
<1>2. CASE NamesBegin
  BY <1>2 DEF MotdInv, NamesBegin
<1>3. CASE NamesMember
  BY <1>3 DEF MotdInv, NamesMember
<1>4. CASE NamesEnd
  BY <1>4 DEF MotdInv, NamesEnd
<1>5. CASE MotdBegin
  <2>1. motd \in Nat /\ motd > 0 /\ motd' = motd /\ fragment' = 0 /\ shown' = 0 /\ job' = "motd"
    BY <1>5 DEF MotdInv, MotdBegin
  <2>2. NumParts(motd) \in Nat /\ NumParts(motd) > 0
    BY <2>1, Fragments
  <2>3. NumParts(motd)' = NumParts(motd)
    BY <2>1 DEF NumParts
  <2>. QED
    BY <2>1, <2>2, <2>3 DEF MotdInv, MOTD_FRAGMENT_MAX
<1>6. CASE MotdPart
  BY <1>6, MotdGrows
<1>7. CASE MotdEnd
  BY <1>7 DEF MotdInv, MotdEnd
<1>8. CASE UNCHANGED replyVars
  BY <1>8 DEF MotdInv, replyVars, NumParts, InTheEnd
<1>. QED
  BY <1>1, <1>2, <1>3, <1>4, <1>5, <1>6, <1>7, <1>8 DEF RepliesNext

\* Handler_Motd replies the whole of a message of any length, but for a
\* message of whole fragments, which loses the last of them.
THEOREM MotdSafe == RepliesSpec => []MotdComplete
<1>1. RepliesInit => MotdInv
  BY RepliesAssumption DEF RepliesInit, Motd_Get, MotdInv
<1>2. MotdInv /\ [RepliesNext]_replyVars => MotdInv'
  BY MotdInductive
<1>3. MotdInv => MotdComplete
  BY DEF MotdInv, MotdComplete, InTheEnd
<1>. QED
  BY <1>1, <1>2, <1>3, PTL DEF RepliesSpec

-----------------------------------------------------------------------------
(* The buffer of a reply *)

\* A format whose replies fit, with any text up to the limit.
Fits(f) ==
    \A text \in 0..TextLimit :
        Length(f, text) \in 0..IRC_MSG_SIZE /\ InBuffer(f, Length(f, text)) = Length(f, text)

\* The formats of the message of the day, the errors and the welcome.
LEMMA FirstFit == \A r \in DOMAIN FirstFormats : Fits(FirstFormats[r])
<1>. USE DEF Fits, TextLimit, IRC_MSG_SIZE, Length, InBuffer, WidthOf, Width,
            MOTD_FRAGMENT_MAX, Limited, Unlimited
<1>1. Fits(Unlimited(48, <<"nick", "nick", "text", "host">>))
  OBVIOUS
<1>2. Fits(Unlimited(32, <<"nick", "host">>))
  OBVIOUS
<1>3. Fits(Unlimited(10, <<"nick", "part">>))
  OBVIOUS
<1>4. Fits(Unlimited(27, <<"nick">>))
  OBVIOUS
<1>5. Fits(Unlimited(29, <<"nick", "text">>))
  OBVIOUS
<1>6. Fits(Limited(28, <<"nick">>))
  OBVIOUS
<1>7. Fits(Unlimited(25, <<"nick">>))
  OBVIOUS
<1>8. Fits(Unlimited(35, <<"nick", "nick">>))
  OBVIOUS
<1>9. Fits(Unlimited(30, <<"nick", "command">>))
  OBVIOUS
<1>10. Fits(Unlimited(29, <<"nick", "command">>))
  OBVIOUS
<1>11. Fits(Unlimited(23, <<"nick">>))
  OBVIOUS
<1>. HIDE DEF Fits, Limited, Unlimited
<1>. QED
  BY <1>1, <1>2, <1>3, <1>4, <1>5, <1>6, <1>7, <1>8, <1>9, <1>10, <1>11 DEF FirstFormats

\* The formats of LUSERS.
LEMMA UserFit == \A r \in DOMAIN UserFormats : Fits(UserFormats[r])
<1>. USE DEF Fits, TextLimit, IRC_MSG_SIZE, Length, InBuffer, WidthOf, Width,
            MOTD_FRAGMENT_MAX, Limited, Unlimited
<1>1. Fits(Limited(51, <<"nick", "count", "count">>))
  OBVIOUS
<1>2. Fits(Limited(27, <<"nick", "count">>))
  OBVIOUS
<1>3. Fits(Limited(30, <<"nick", "count">>))
  OBVIOUS
<1>4. Fits(Limited(24, <<"nick", "count">>))
  OBVIOUS
<1>5. Fits(Limited(36, <<"nick", "count", "count">>))
  OBVIOUS
<1>. HIDE DEF Fits, Limited, Unlimited
<1>. QED
  BY <1>1, <1>2, <1>3, <1>4, <1>5 DEF UserFormats

\* The formats of WHOIS, registration, PING and the messages passed on.
LEMMA MessageFit == \A r \in DOMAIN MessageFormats : Fits(MessageFormats[r])
<1>. USE DEF Fits, TextLimit, IRC_MSG_SIZE, Length, InBuffer, WidthOf, Width,
            MOTD_FRAGMENT_MAX, Limited, Unlimited
<1>1. Fits(Limited(13, <<"nick", "nick", "text", "host">>))
  OBVIOUS
<1>2. Fits(Limited(27, <<"nick", "nick", "host">>))
  OBVIOUS
<1>3. Fits(Limited(26, <<"nick", "nick">>))
  OBVIOUS
<1>4. Fits(Unlimited(29, <<"nick">>))
  OBVIOUS
<1>5. Fits(Unlimited(30, <<"nick">>))
  OBVIOUS
<1>6. Fits(Unlimited(24, <<"nick", "text">>))
  OBVIOUS
<1>7. Fits(Unlimited(7, <<"host">>))
  OBVIOUS
<1>8. Fits(Unlimited(15, <<"nick", "host", "name", "text">>))
  OBVIOUS
<1>9. Fits(Limited(11, <<"nick", "text", "host", "name">>))
  OBVIOUS
<1>. HIDE DEF Fits, Limited, Unlimited
<1>. QED
  BY <1>1, <1>2, <1>3, <1>4, <1>5, <1>6, <1>7, <1>8, <1>9 DEF MessageFormats

\* The formats of channels.
LEMMA ChannelFit == \A r \in DOMAIN ChannelFormats : Fits(ChannelFormats[r])
<1>. USE DEF Fits, TextLimit, IRC_MSG_SIZE, Length, InBuffer, WidthOf, Width,
            MOTD_FRAGMENT_MAX, Limited, Unlimited
<1>1. Fits(Limited(11, <<"host", "nick", "name", "topic">>))
  OBVIOUS
<1>2. Fits(Limited(28, <<"host", "nick", "name">>))
  OBVIOUS
<1>3. Fits(Limited(26, <<"host", "nick", "text">>))
  OBVIOUS
<1>4. Fits(Limited(26, <<"host", "nick", "name">>))
  OBVIOUS
<1>. HIDE DEF Fits, Limited, Unlimited
<1>. QED
  BY <1>1, <1>2, <1>3, <1>4 DEF ChannelFormats

\* The formats of LIST, PART and AWAY.
LEMMA ListFit == \A r \in DOMAIN ListFormats : Fits(ListFormats[r])
<1>. USE DEF Fits, TextLimit, IRC_MSG_SIZE, Length, InBuffer, WidthOf, Width,
            MOTD_FRAGMENT_MAX, Limited, Unlimited
<1>1. Fits(Limited(28, <<"host", "nick">>))
  OBVIOUS
<1>2. Fits(Limited(13, <<"host", "nick", "name", "topic">>))
  OBVIOUS
<1>3. Fits(Limited(22, <<"host", "nick">>))
  OBVIOUS
<1>4. Fits(Limited(26, <<"host", "nick", "name">>))
  OBVIOUS
<1>5. Fits(Limited(12, <<"nick", "host", "name", "text">>))
  OBVIOUS
<1>6. Fits(Limited(48, <<"host", "nick">>))
  OBVIOUS
<1>7. Fits(Limited(43, <<"host", "nick">>))
  OBVIOUS
<1>8. Fits(Limited(11, <<"host", "nick", "nick", "text">>))
  OBVIOUS
<1>. HIDE DEF Fits, Limited, Unlimited
<1>. QED
  BY <1>1, <1>2, <1>3, <1>4, <1>5, <1>6, <1>7, <1>8 DEF ListFormats

\* The formats are those of the five tables.
LEMMA FormatsFit == \A f \in Formats : Fits(f)
  BY FirstFit, UserFit, MessageFit, ChannelFit, ListFit DEF Formats

\* A reply that is formatted from a text of its client, or without one.
LEMMA FormattedFits ==
    ASSUME NEW f, Fits(f), NEW text \in Nat, reply' = Formatted(f, text)
    PROVE  RepliesFit'
<1>1. /\ reply'.text = text
      /\ reply'.length = Length(f, text)
      /\ reply'.held = InBuffer(f, Length(f, text))
  BY DEF Formatted
<1>. DEFINE length == Length(f, text)
            held == InBuffer(f, length)
<1>2. text <= TextLimit => length \in 0..IRC_MSG_SIZE /\ held = length
  BY DEF Fits, TextLimit
<1>. HIDE DEF length, held
<1>3. reply'.text = text /\ reply'.length = length /\ reply'.held = held
  BY <1>1 DEF length, held
<1>. QED
  BY <1>2, <1>3 DEF RepliesFit, IRC_MSG_SIZE

\* No reply outgrows its buffer while no text in it has more than TextLimit
\* characters, for every format of replies.h.
THEOREM RepliesSafe == RepliesSpec => []RepliesFit
<1>1. RepliesInit => RepliesFit
  BY DEF RepliesInit, NoReply, RepliesFit, IRC_MSG_SIZE
<1>2. RepliesFit /\ [RepliesNext]_replyVars => RepliesFit'
  <2>. SUFFICES ASSUME RepliesFit, [RepliesNext]_replyVars PROVE RepliesFit'
    OBVIOUS
  <2>1. CASE PushReply
    <3>1. PICK f \in Formats, text \in Texts :
              reply' = Formatted(f, IF HasText(f) THEN text ELSE 0)
      BY <2>1 DEF PushReply
    <3>. DEFINE t == IF HasText(f) THEN text ELSE 0
    <3>2. t \in Nat /\ Fits(f)
      BY RepliesAssumption, FormatsFit
    <3>. HIDE DEF t
    <3>. QED
      BY <3>1, <3>2, FormattedFits DEF t
  <2>2. CASE MotdBegin \/ MotdPart \/ MotdEnd
    <3>1. /\ Fits(FirstFormats.RplMotdStart)
          /\ Fits(FirstFormats.RplMotd)
          /\ Fits(FirstFormats.RplEndOfMotd)
      BY FirstFit DEF FirstFormats
    <3>. QED
      BY <2>2, <3>1, FormattedFits DEF MotdBegin, MotdPart, MotdEnd
  <2>3. CASE NamesBegin \/ NamesMember \/ NamesEnd \/ UNCHANGED replyVars
    BY <2>3 DEF NamesBegin, NamesMember, NamesEnd, replyVars, RepliesFit
  <2>. QED
    BY <2>1, <2>2, <2>3 DEF RepliesNext
<1>. QED
  BY <1>1, <1>2, PTL DEF RepliesSpec
=============================================================================
